---------------------------- MODULE BoundedQueue ----------------------------
(***************************************************************************)
(* What a user of util.ringbuffer may rely on: a queue of bytes that holds *)
(* at most capacity of them, all or nothing on every call.                 *)
(*                                                                         *)
(* A search is specified only for a pattern that is not empty, is not      *)
(* longer than the content, and while the queue is not full; for any other *)
(* search the answer is left open, but no byte is ever lost, changed or    *)
(* taken out of order because of it.  A search for a pattern longer than   *)
(* what the queue holds may never be answered, and is then the last call.  *)
(***************************************************************************)
EXTENDS Naturals, Sequences, FiniteSetsExt

CONSTANTS Bytes,      \* the values of a char
          MaxLen      \* longest string, and largest count, of a call

VARIABLES content,    \* the bytes written and not yet read
          capacity,
          reply       \* the last call and its answer

Strings == UNION {[1..n -> Bytes] : n \in 0..MaxLen}

Reply(op, arg, ok, val) == [op |-> op, arg |-> arg, ok |-> ok, val |-> val]

(* Where the first occurrence of p in s ends; 0 if there is none. *)
FirstEnd(s, p) ==
    LET starts == {i \in 0..(Len(s) - Len(p)) : SubSeq(s, i + 1, i + Len(p)) = p}
    IN  IF Len(p) > Len(s) \/ starts = {} THEN 0 ELSE Min(starts) + Len(p)

Searchable(p) == Len(p) > 0 /\ Len(p) <= Len(content) /\ Len(content) < capacity

Unending(p) == Len(p) > Len(content) /\ Len(content) \in 1..capacity - 1

NoAnswer(p) == Unending(p) /\ reply' = Reply("never", p, FALSE, <<>>)

Drop(n) == content' = SubSeq(content, n + 1, Len(content))
-----------------------------------------------------------------------------
Write(s) ==
    /\ IF Len(content) + Len(s) <= capacity
       THEN content' = content \o s /\ reply' = Reply("write", s, TRUE, <<Len(s)>>)
       ELSE UNCHANGED content /\ reply' = Reply("write", s, FALSE, <<>>)
    /\ UNCHANGED capacity

Read(n, peek) ==
    /\ IF n <= Len(content)
       THEN /\ IF peek THEN UNCHANGED content ELSE Drop(n)
            /\ reply' = Reply("read", <<n>>, TRUE, SubSeq(content, 1, n))
       ELSE UNCHANGED content /\ reply' = Reply("read", <<n>>, FALSE, <<>>)
    /\ UNCHANGED capacity

Discard(n) ==
    /\ IF n <= Len(content)
       THEN Drop(n) /\ reply' = Reply("discard", <<n>>, TRUE, <<>>)
       ELSE UNCHANGED content /\ reply' = Reply("discard", <<n>>, FALSE, <<>>)
    /\ UNCHANGED capacity

Find(p) ==
    /\ \/ /\ Searchable(p)
          /\ LET m == FirstEnd(content, p)
             IN  reply' = Reply("find", p, m > 0, IF m > 0 THEN <<m>> ELSE <<>>)
       \/ /\ ~Searchable(p)
          /\ reply'.op = "find" /\ reply'.arg = p
       \/ NoAnswer(p)
    /\ UNCHANGED <<content, capacity>>

(* When the pattern is not searchable some prefix of the content, perhaps  *)
(* none, is taken: what is handed out is still exactly what leaves.        *)
ReadUntil(p) ==
    /\ \/ /\ Searchable(p)
          /\ LET m == FirstEnd(content, p)
             IN  /\ Drop(m)
                 /\ reply' = Reply("readuntil", p, m > 0, SubSeq(content, 1, m))
       \/ /\ ~Searchable(p)
          /\ \E m \in 0..Len(content) :
                /\ Drop(m)
                /\ reply' = Reply("readuntil", p, m > 0, SubSeq(content, 1, m))
       \/ UNCHANGED content /\ NoAnswer(p)
    /\ UNCHANGED capacity

Ask ==
    /\ reply' = Reply("length", <<>>, TRUE,
                      <<Len(content), capacity, capacity - Len(content)>>)
    /\ UNCHANGED <<content, capacity>>
-----------------------------------------------------------------------------
Init == content = <<>> /\ capacity \in Nat \ {0} /\ reply = Reply("new", <<>>, TRUE, <<>>)

Next ==
    /\ reply.op # "never"
    /\ \/ \E s \in Strings : Write(s) \/ Find(s) \/ ReadUntil(s)
       \/ \E n \in 0..MaxLen : Discard(n) \/ \E peek \in BOOLEAN : Read(n, peek)
       \/ Ask

Spec == Init /\ [][Next]_<<content, capacity, reply>>
=============================================================================
