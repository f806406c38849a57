----------------------------- MODULE RingBuffer -----------------------------
(***************************************************************************)
(* util-src/ringbuffer.c: a byte queue in a block of alen bytes, with a    *)
(* read and a write position that are brought back into the block after    *)
(* every call.  One object; each library call is one action and leaves its *)
(* answer in ret.                                                          *)
(***************************************************************************)
EXTENDS Naturals, Sequences, FiniteSetsExt

CONSTANTS Bytes,      \* values of a char, 0 is NUL
          Sizes,      \* sizes a buffer may be created with
          MaxLen,     \* longest string, and largest count, of a call
          Word        \* size_t counts modulo Word

(* A string and a block are both in memory, and no block takes more than   *)
(* half of what size_t counts: neither sum of their sizes overflows.       *)
ASSUME RingAssumption ==
    /\ Bytes \subseteq Nat /\ 0 \in Bytes
    /\ Sizes \subseteq Nat \ {0}
    /\ MaxLen \in Nat
    /\ Word \in Nat /\ \A n \in Sizes : Word > n + MaxLen /\ Word >= 2 * n

VARIABLES rpos,       \* read position
          wpos,       \* write position
          alen,       \* allocated size
          blen,       \* current content size
          buffer,     \* the allocation, indexed from 0
          ret         \* the last call and what it returned

ringVars == <<rpos, wpos, alen, blen, buffer, ret>>

RingStrings == UNION {[1..n -> Bytes] : n \in 0..MaxLen}

Ret(op, arg, ok, val) == ret' = [op |-> op, arg |-> arg, ok |-> ok, val |-> val]

(* lua_newuserdata does not clear the block: its bytes are whatever they were. *)
rb_new ==
    /\ alen \in Sizes
    /\ rpos = 0 /\ wpos = 0 /\ blen = 0
    /\ buffer \in [0..alen - 1 -> Bytes]
    /\ ret = [op |-> "new", arg |-> <<>>, ok |-> TRUE, val |-> <<>>]
-----------------------------------------------------------------------------
(* The byte k places after the read position, whether or not it is content. *)
At(k) == buffer[((rpos + k) % Word) % alen]

(* The first byte of a pattern; a Lua string is followed by a NUL. *)
First(s) == IF s = <<>> THEN 0 ELSE s[1]

Matches(s, i) ==
    /\ At(i) = First(s)
    /\ \A j \in 1..Len(s) - 1 : At(i + j) = s[j + 1]

(* The last start to try is an unsigned difference: for a pattern longer    *)
(* than the content the search runs over bytes that are no longer, or were  *)
(* never, content.                                                          *)
LastStart(s) == (blen + Word - Len(s)) % Word
Hits(s) == {i \in 0..LastStart(s) : Matches(s, i)}

(* For a pattern one byte longer than the content every size_t is a start   *)
(* to try, and without a match the loop does not end.  (For one longer      *)
(* still it ends after almost Word rounds.)                                 *)
Endless(s) == rpos # wpos /\ Hits(s) = {} /\ LastStart(s) = Word - 1

(* Equal positions are taken for an empty buffer. *)
Mut_find(s) ==
    LET hits == {i \in 0..blen : Matches(s, i)}
    IN  IF rpos = wpos \/ hits = {} THEN 0 ELSE Min(hits) + Len(s)
find(s) ==
    IF rpos = wpos \/ Hits(s) = {} THEN 0 ELSE (Min(Hits(s)) + Len(s)) % Word

(* The call does not return, and with it the thread of its caller. *)
Hangs(s) == Endless(s) /\ Ret("never", s, FALSE, <<>>)

rb_find(s) ==
    /\ \/ Hangs(s)
       \/ /\ ~Endless(s)
          /\ LET m == find(s) IN Ret("find", s, m > 0, IF m > 0 THEN <<m>> ELSE <<>>)
    /\ UNCHANGED <<rpos, wpos, alen, blen, buffer>>

(* Take r bytes from the front; modpos brings both positions back. *)
Mut_Advance(r) == blen' = blen - r /\ rpos' = rpos + r /\ wpos' = wpos % alen
Advance(r) == blen' = blen - r /\ rpos' = (rpos + r) % alen /\ wpos' = wpos % alen

rb_discard(r) ==
    /\ IF r > blen
       THEN UNCHANGED <<rpos, wpos, blen>> /\ Ret("discard", <<r>>, FALSE, <<>>)
       ELSE Advance(r) /\ Ret("discard", <<r>>, TRUE, <<>>)
    /\ UNCHANGED <<alen, buffer>>

(* lua_pushlstring of n bytes starting at position p of the block. *)
Chunk(p, n) == [i \in 1..n |-> buffer[p + i - 1]]

Slice(r) ==
    IF rpos + r > alen
    THEN Chunk(rpos, alen - rpos) \o Chunk(0, r - (alen - rpos))
    ELSE Chunk(rpos, r)

ReadBytes(op, arg, r, peek) ==
    /\ IF r > blen
       THEN UNCHANGED <<rpos, wpos, blen>> /\ Ret(op, arg, FALSE, <<>>)
       ELSE /\ Ret(op, arg, TRUE, Slice(r))
            /\ IF peek THEN UNCHANGED <<rpos, wpos, blen>> ELSE Advance(r)
    /\ UNCHANGED <<alen, buffer>>

rb_read(r, peek) == ReadBytes("read", <<r>>, r, peek)

rb_readuntil(s) ==
    \/ find(s) > 0 /\ ReadBytes("readuntil", s, find(s), FALSE)
    \/ /\ find(s) = 0
       /\ Hangs(s) \/ (~Endless(s) /\ Ret("readuntil", s, FALSE, <<>>))
       /\ UNCHANGED <<rpos, wpos, alen, blen, buffer>>

(* writechar for each byte, then modpos. *)
Store(s) ==
    /\ buffer' = [p \in 0..alen - 1 |->
            IF \E i \in 1..Len(s) : p = (wpos + i - 1) % alen
            THEN s[CHOOSE i \in 1..Len(s) : p = (wpos + i - 1) % alen]
            ELSE buffer[p]]
    /\ blen' = blen + Len(s)
    /\ wpos' = (wpos + Len(s)) % alen
    /\ rpos' = rpos % alen

rb_write(s) ==
    /\ IF (Len(s) + blen) % Word > alen
       THEN UNCHANGED <<rpos, wpos, blen, buffer>> /\ Ret("write", s, FALSE, <<>>)
       ELSE Store(s) /\ Ret("write", s, TRUE, <<Len(s)>>)
    /\ UNCHANGED alen

(* rb_length, rb_size and rb_free. *)
rb_length ==
    /\ Ret("length", <<>>, TRUE, <<blen, alen, alen - blen>>)
    /\ UNCHANGED <<rpos, wpos, alen, blen, buffer>>
-----------------------------------------------------------------------------
RingNext ==
    /\ ret.op # "never"
    /\ \/ \E s \in RingStrings : rb_write(s) \/ rb_find(s) \/ rb_readuntil(s)
       \/ \E r \in 0..MaxLen : rb_discard(r) \/ \E peek \in BOOLEAN : rb_read(r, peek)
       \/ rb_length

RingSpec == rb_new /\ [][RingNext]_ringVars
-----------------------------------------------------------------------------
(* The bytes a reader is still to get. *)
Content == [i \in 1..blen |-> buffer[(rpos + i - 1) % alen]]

(* Both positions lie in the block and are exactly the content apart, so a  *)
(* full buffer is told from an empty one by blen alone (modpos after every  *)
(* call, ringbuffer.c:29).                                                  *)
RingPositions ==
    /\ alen \in Sizes /\ blen \in 0..alen
    /\ rpos \in 0..alen - 1 /\ wpos \in 0..alen - 1
    /\ wpos = (rpos + blen) % alen
    /\ buffer \in [0..alen - 1 -> Bytes]

Queue == INSTANCE BoundedQueue WITH
            content <- Content, capacity <- alen, reply <- ret

(* The ring buffer behaves as a bounded queue of bytes: every call is all   *)
(* or nothing, bytes come out once, in the order they were written, across  *)
(* any number of wrap-arounds, and a search that the queue specifies finds  *)
(* the first occurrence although the scan looks at raw positions; a search  *)
(* that never ends is one for a pattern longer than the content             *)
(* (ringbuffer.c:34, 106, 138, 157).                                        *)
RingIsQueue == Queue!Spec
=============================================================================
