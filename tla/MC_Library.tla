----------------------------- MODULE MC_Library -----------------------------
(* The C libraries that are data structures and functions, for TLC: one run *)
(* over the ring buffer, the encodings and the hashes.  "unit" says which   *)
(* one a behaviour is about; the others stay as they began.                 *)
EXTENDS RingBuffer, Encodings, Hashes

VARIABLE unit

LibraryVars == <<ringVars, encVars, hashVars, unit>>

LibraryInit ==
    /\ unit \in {"ringbuffer", "encodings", "hashes", "crand"}
    /\ rb_new /\ EncInit /\ HashInit
    /\ unit # "ringbuffer" => alen = Min(Sizes) /\ buffer = [i \in 0..alen - 1 |-> 0]
    /\ unit # "encodings" => kind = "bytes"

LibraryNext ==
    /\ UNCHANGED unit
    /\ \/ unit = "ringbuffer" /\ RingNext /\ UNCHANGED <<encVars, hashVars>>
       \/ unit = "encodings" /\ Extend /\ UNCHANGED <<ringVars, hashVars>>
       \/ unit = "hashes" /\ Hashing /\ UNCHANGED <<ringVars, encVars>>
       \/ unit = "crand" /\ Drawing /\ UNCHANGED <<ringVars, encVars>>

LibrarySpec == LibraryInit /\ [][LibraryNext]_LibraryVars

(* How long the inputs of the encodings get. *)
Lengths == [bytes |-> 5, chars |-> 5, utf8 |-> 4, names |-> 5]
=============================================================================
