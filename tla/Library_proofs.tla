--------------------------- MODULE Library_proofs ---------------------------
(***************************************************************************)
(* The libraries in C.  The ring buffer of util-src/ringbuffer.c keeps its *)
(* positions consistent and implements BoundedQueue, for every size of the *)
(* block, every length of the strings and every set of bytes.  The checks  *)
(* and conversions of util-src/encodings.c, and HMAC, Hi and the random    *)
(* bytes of util-src/hashes.c and util-src/crand.c, are what their         *)
(* standards define, for inputs of every length.                           *)
(***************************************************************************)
EXTENDS RingBuffer, Encodings, Hashes, SequenceTheorems, FiniteSetTheorems,
        WellFoundedInduction, TLAPS

(* The ring buffer.                                                         *)
(* An index that wraps around at most once needs no division. *)
LEMMA Wrap ==
    ASSUME NEW n \in Nat \ {0}, NEW a \in 0..n - 1, NEW b \in 0..n
    PROVE  (a + b) % n = IF a + b < n THEN a + b ELSE a + b - n
  <1>1. CASE a + b < n
    BY <1>1
  <1>2. CASE a + b >= n
    <2>1. a + b \in n..(2 * n - 1)
      BY <1>2
    <2>2. (a + b) % n = a + b - n
      BY <2>1
    <2> QED BY <2>2, <1>2
  <1> QED BY <1>1, <1>2

(* ... and stays within the allocation, *)
LEMMA Wrapped ==
    ASSUME NEW n \in Nat \ {0}, NEW a \in 0..n - 1, NEW b \in 0..n
    PROVE  (a + b) % n \in 0..n - 1
  BY Wrap

(* ... where it does not wrap. *)
LEMMA Below ==
    ASSUME NEW n \in Nat \ {0}, NEW a \in 0..n - 1
    PROVE  a % n = a
  OBVIOUS

(* The least element of a set of natural numbers exists and is one. *)
LEMMA MinFacts ==
    ASSUME NEW S \in SUBSET Nat, S # {}
    PROVE  Min(S) \in S /\ \A y \in S : Min(S) <= y
  <1> DEFINE R == OpToRel(<, Nat)
  <1>1. IsWellFoundedOn(R, Nat)
    BY NatLessThanWellFounded
  <1>2. \A x, y \in Nat : x < y => <<x, y>> \in R
    BY DEF OpToRel
  <1> HIDE DEF R
  <1>3. PICK x \in S : \A y \in S : ~(<<y, x>> \in R)
    BY <1>1, WFMin
  <1>4. ASSUME NEW y \in S PROVE x <= y
    <2>1. x \in Nat /\ y \in Nat
      OBVIOUS
    <2>2. ~(y < x)
      BY <2>1, <1>2, <1>3
    <2> QED BY <2>1, <2>2
  <1> QED BY <1>4 DEF Min

(* The arguments are strings of at most MaxLen bytes. *)
LEMMA StringFacts ==
    ASSUME NEW s \in RingStrings
    PROVE  s \in Seq(Bytes) /\ Len(s) \in 0..MaxLen
  BY RingAssumption DEF RingStrings

(* Consuming at most blen bytes keeps the positions consistent. *)
LEMMA AdvanceKeeps ==
    ASSUME RingPositions, NEW r \in 0..blen, Advance(r), UNCHANGED <<alen, buffer>>
    PROVE  RingPositions'
  <1>1. alen \in Nat \ {0} /\ blen \in 0..alen /\ rpos \in 0..alen - 1 /\ wpos \in 0..alen - 1
    BY RingAssumption DEF RingPositions
  <1>2. blen' = blen - r /\ wpos' = wpos /\ alen' = alen /\ buffer' = buffer
    BY <1>1, Below DEF Advance
  <1> r \in 0..alen
    BY <1>1
  <1>3. rpos' = IF rpos + r < alen THEN rpos + r ELSE rpos + r - alen
    BY <1>1, Wrap DEF Advance
  <1>4. rpos' \in 0..alen - 1 /\ blen' \in 0..alen
    BY <1>1, <1>2, <1>3
  <1>5. wpos = IF rpos + blen < alen THEN rpos + blen ELSE rpos + blen - alen
    BY <1>1, Wrap DEF RingPositions
  <1>6. wpos' = IF rpos' + blen' < alen THEN rpos' + blen' ELSE rpos' + blen' - alen
    BY <1>1, <1>2, <1>3, <1>5
  <1>7. wpos' = (rpos' + blen') % alen'
    BY <1>1, <1>2, <1>4, <1>6, Wrap
  <1> QED BY <1>1, <1>2, <1>4, <1>7 DEF RingPositions

(* So does storing a string that fits, which may wrap around. *)
LEMMA StoreKeeps ==
    ASSUME RingPositions, NEW s \in RingStrings, blen + Len(s) <= alen, Store(s), UNCHANGED alen
    PROVE  RingPositions'
  <1> DEFINE l == Len(s)
  <1>1. alen \in Nat \ {0} /\ blen \in 0..alen /\ rpos \in 0..alen - 1 /\ wpos \in 0..alen - 1
    BY RingAssumption DEF RingPositions
  <1>2. l \in 0..alen /\ s \in [1..l -> Bytes]
    BY <1>1, StringFacts
  <1> HIDE DEF l
  <1>3. blen' = blen + l /\ rpos' = rpos /\ alen' = alen
    BY <1>1, Below DEF Store, l
  <1>4. wpos' = IF wpos + l < alen THEN wpos + l ELSE wpos + l - alen
    BY <1>1, <1>2, Wrap DEF Store, l
  <1>5. wpos = IF rpos + blen < alen THEN rpos + blen ELSE rpos + blen - alen
    BY <1>1, Wrap DEF RingPositions
  <1>6. blen' \in 0..alen
    BY <1>1, <1>2, <1>3 DEF l
  <1>7. wpos' = IF rpos' + blen' < alen THEN rpos' + blen' ELSE rpos' + blen' - alen
    BY <1>1, <1>2, <1>3, <1>4, <1>5, <1>6
  <1>8. wpos' = (rpos' + blen') % alen'
    BY <1>1, <1>3, <1>6, <1>7, Wrap
  <1>9. buffer' \in [0..alen - 1 -> Bytes]
    <2> DEFINE hit(p) == \E i \in 1..l : p = (wpos + i - 1) % alen
               new(p) == IF hit(p) THEN s[CHOOSE i \in 1..l : p = (wpos + i - 1) % alen] ELSE buffer[p]
    <2>1. ASSUME NEW p \in 0..alen - 1 PROVE new(p) \in Bytes
      <3>1. CASE hit(p)
        <4>1. (CHOOSE i \in 1..l : p = (wpos + i - 1) % alen) \in 1..l
          BY <3>1
        <4> QED BY <4>1, <3>1, <1>2
      <3>2. CASE ~hit(p)
        BY <3>2 DEF RingPositions
      <3> QED BY <3>1, <3>2
    <2>2. buffer' = [p \in 0..alen - 1 |-> new(p)]
      BY DEF Store, l
    <2> HIDE DEF new
    <2> QED BY <2>1, <2>2
  <1> QED BY <1>1, <1>3, <1>4, <1>6, <1>8, <1>9 DEF RingPositions

(* rb_write's test adds two size_t that cannot overflow. *)
LEMMA WriteFits ==
    ASSUME RingPositions, NEW s \in RingStrings
    PROVE  (Len(s) + blen) % Word = blen + Len(s)
  <1>1. alen \in Sizes /\ alen \in Nat \ {0} /\ blen \in 0..alen /\ Len(s) \in 0..MaxLen
    BY RingAssumption, StringFacts DEF RingPositions
  <1>2. Word \in Nat \ {0} /\ Len(s) + blen \in 0..Word - 1
    BY <1>1, RingAssumption
  <1>3. (Len(s) + blen) % Word = Len(s) + blen
    BY <1>2, Below
  <1> QED BY <1>1, <1>3

(* Reading, whatever asks for it and whether or not there are enough       *)
(* bytes, keeps the positions consistent.                                  *)
LEMMA ReadKeeps ==
    ASSUME RingPositions, NEW op, NEW arg, NEW r \in Nat, NEW peek \in BOOLEAN,
           ReadBytes(op, arg, r, peek)
    PROVE  RingPositions'
  <1>1. CASE r > blen \/ peek
    BY <1>1 DEF ReadBytes, RingPositions
  <1>2. CASE ~(r > blen) /\ ~peek
    <2>1. r \in 0..blen
      BY <1>2, RingAssumption DEF RingPositions
    <2> QED BY <1>2, <2>1, AdvanceKeeps DEF ReadBytes
  <1> QED BY <1>1, <1>2

(* find, when it answers, answers with a number. *)
LEMMA FindNat ==
    ASSUME RingPositions, NEW s \in RingStrings
    PROVE  find(s) \in Nat
  <1>1. CASE rpos = wpos \/ Hits(s) = {}
    BY <1>1 DEF find
  <1>2. CASE ~(rpos = wpos \/ Hits(s) = {})
    <2>1. Hits(s) \subseteq Nat /\ Hits(s) # {}
      BY <1>2 DEF Hits
    <2>2. PICK m \in Nat : m = Min(Hits(s))
      BY <2>1, MinFacts
    <2>3. PICK n \in Nat : n = Len(s)
      BY StringFacts, RingAssumption
    <2>4. find(s) = (m + n) % Word
      BY <1>2, <2>2, <2>3 DEF find
    <2>5. alen \in Sizes
      BY DEF RingPositions
    <2>6. Word \in Nat \ {0}
      BY <2>5, RingAssumption
    <2> QED BY <2>4, <2>6
  <1> QED BY <1>1, <1>2

(* After every call both positions are inside the block and blen is their  *)
(* distance around it, so that no call reads or writes outside the block   *)
(* (modpos and its callers, ringbuffer.c:29, 106-178).                     *)
THEOREM PositionsHold == RingSpec => []RingPositions
  <1>1. rb_new => RingPositions
    <2> SUFFICES ASSUME rb_new PROVE RingPositions
      OBVIOUS
    <2>1. alen \in Nat \ {0}
      BY RingAssumption DEF rb_new
    <2> QED BY <2>1 DEF rb_new, RingPositions
  <1>2. RingPositions /\ [RingNext]_ringVars => RingPositions'
    <2> SUFFICES ASSUME RingPositions, [RingNext]_ringVars PROVE RingPositions'
      OBVIOUS
    <2>1. ASSUME NEW s \in RingStrings, rb_write(s) PROVE RingPositions'
      <3>1. CASE (Len(s) + blen) % Word > alen
        BY <2>1, <3>1 DEF rb_write, RingPositions
      <3>2. CASE ~((Len(s) + blen) % Word > alen)
        <4>1. blen + Len(s) <= alen
          BY <3>2, WriteFits, StringFacts, RingAssumption DEF RingPositions
        <4> QED BY <2>1, <3>2, <4>1, StoreKeeps DEF rb_write
      <3> QED BY <3>1, <3>2
    <2>2. ASSUME NEW s \in RingStrings, rb_find(s) PROVE RingPositions'
      BY <2>2 DEF rb_find, RingPositions
    <2>3. ASSUME NEW s \in RingStrings, rb_readuntil(s) PROVE RingPositions'
      <3>1. CASE find(s) > 0 /\ ReadBytes("readuntil", s, find(s), FALSE)
        BY <3>1, FindNat, ReadKeeps
      <3>2. CASE UNCHANGED <<rpos, wpos, alen, blen, buffer>>
        BY <3>2 DEF RingPositions
      <3> QED BY <2>3, <3>1, <3>2 DEF rb_readuntil
    <2>4. ASSUME NEW r \in 0..MaxLen, rb_discard(r) PROVE RingPositions'
      <3>1. CASE r > blen
        BY <2>4, <3>1 DEF rb_discard, RingPositions
      <3>2. CASE ~(r > blen)
        <4>1. r \in 0..blen
          BY <3>2, RingAssumption DEF RingPositions
        <4> QED BY <2>4, <3>2, <4>1, AdvanceKeeps DEF rb_discard
      <3> QED BY <3>1, <3>2
    <2>5. ASSUME NEW r \in 0..MaxLen, NEW peek \in BOOLEAN, rb_read(r, peek) PROVE RingPositions'
      BY <2>5, ReadKeeps, RingAssumption DEF rb_read
    <2>6. CASE rb_length
      BY <2>6 DEF rb_length, RingPositions
    <2>7. CASE UNCHANGED ringVars
      BY <2>7 DEF ringVars, RingPositions
    <2> QED BY <2>1, <2>2, <2>3, <2>4, <2>5, <2>6, <2>7 DEF RingNext
  <1> QED BY <1>1, <1>2, PTL DEF RingSpec

-----------------------------------------------------------------------------
(* RingPositions, with the write position spelled out. *)
LEMMA Typed ==
    ASSUME RingPositions
    PROVE  /\ alen \in Nat \ {0} /\ blen \in 0..alen
           /\ rpos \in 0..alen - 1 /\ wpos \in 0..alen - 1
           /\ wpos = IF rpos + blen < alen THEN rpos + blen ELSE rpos + blen - alen
  <1>1. alen \in Nat \ {0} /\ blen \in 0..alen /\ rpos \in 0..alen - 1 /\ wpos \in 0..alen - 1
    BY RingAssumption DEF RingPositions
  <1> QED BY <1>1, Wrap DEF RingPositions

(* b bytes of a block of n, read from position a on, wrapping around. *)
LEMMA Window ==
    ASSUME NEW n \in Nat \ {0}, NEW a \in 0..n - 1, NEW b \in 0..n,
           NEW block \in [0..n - 1 -> Bytes]
    PROVE  LET w == [i \in 1..b |-> block[(a + i - 1) % n]]
           IN  /\ w \in Seq(Bytes) /\ Len(w) = b
               /\ \A i \in 1..b : w[i] =
                    block[IF a + i - 1 < n THEN a + i - 1 ELSE a + i - 1 - n]
  <1> DEFINE w == [i \in 1..b |-> block[(a + i - 1) % n]]
  <1>1. ASSUME NEW i \in 1..b
        PROVE  /\ (a + i - 1) % n = IF a + i - 1 < n THEN a + i - 1 ELSE a + i - 1 - n
               /\ (a + i - 1) % n \in 0..n - 1
    <2>1. i - 1 \in 0..n /\ a + i - 1 = a + (i - 1)
      OBVIOUS
    <2> QED BY <2>1, Wrap, Wrapped
  <1>2. w \in Seq(Bytes) /\ Len(w) = b
    BY <1>1
  <1> QED BY <1>1, <1>2

(* The window that holds the content, ... *)
LEMMA ContentSeq ==
    ASSUME RingPositions
    PROVE  /\ Content \in Seq(Bytes) /\ Len(Content) = blen
           /\ \A i \in 1..blen : Content[i] =
                buffer[IF rpos + i - 1 < alen THEN rpos + i - 1 ELSE rpos + i - 1 - alen]
  <1>1. buffer \in [0..alen - 1 -> Bytes]
    BY DEF RingPositions
  <1> QED BY <1>1, Typed, Window DEF Content

(* ... before and after a step. *)
LEMMA NextContentSeq ==
    ASSUME RingPositions'
    PROVE  /\ Content' \in Seq(Bytes) /\ Len(Content') = blen'
           /\ \A i \in 1..blen' : Content'[i] =
                buffer'[IF rpos' + i - 1 < alen' THEN rpos' + i - 1 ELSE rpos' + i - 1 - alen']
  <1>1. /\ alen' \in Nat \ {0} /\ blen' \in 0..alen' /\ rpos' \in 0..alen' - 1
        /\ buffer' \in [0..alen' - 1 -> Bytes]
    BY RingAssumption DEF RingPositions
  <1> QED BY <1>1, Window DEF Content

(* Taking r bytes from the front leaves the content without its first r bytes. *)
LEMMA AdvanceDrops ==
    ASSUME RingPositions, NEW r \in 0..blen, Advance(r), UNCHANGED <<alen, buffer>>
    PROVE  Content' = SubSeq(Content, r + 1, Len(Content))
  <1> DEFINE rest == SubSeq(Content, r + 1, Len(Content))
  <1>1. alen \in Nat \ {0} /\ blen \in 0..alen /\ rpos \in 0..alen - 1 /\ r \in 0..alen
    BY Typed
  <1>2. /\ Content \in Seq(Bytes) /\ Len(Content) = blen
        /\ \A i \in 1..blen : Content[i] =
             buffer[IF rpos + i - 1 < alen THEN rpos + i - 1 ELSE rpos + i - 1 - alen]
    BY ContentSeq
  <1>3. blen' = blen - r /\ alen' = alen /\ buffer' = buffer
        /\ rpos' = IF rpos + r < alen THEN rpos + r ELSE rpos + r - alen
    BY <1>1, Wrap DEF Advance
  <1>4. RingPositions'
    BY AdvanceKeeps
  <1>5. /\ Content' \in Seq(Bytes) /\ Len(Content') = blen - r
        /\ \A i \in 1..blen - r : Content'[i] =
             buffer[IF rpos' + i - 1 < alen THEN rpos' + i - 1 ELSE rpos' + i - 1 - alen]
    BY <1>3, <1>4, NextContentSeq
  <1>6. /\ rest \in Seq(Bytes) /\ Len(rest) = blen - r
        /\ \A i \in 1..blen - r : rest[i] = Content[r + i]
    BY <1>1, <1>2, SMTT(30)
  <1>7. ASSUME NEW i \in 1..blen - r PROVE Content'[i] = rest[i]
    <2>1. r + i \in 1..blen
      BY <1>1
    <2>2. (IF rpos' + i - 1 < alen THEN rpos' + i - 1 ELSE rpos' + i - 1 - alen)
            = (IF rpos + (r + i) - 1 < alen THEN rpos + (r + i) - 1 ELSE rpos + (r + i) - 1 - alen)
      BY <1>1, <1>3, <2>1
    <2> QED BY <1>2, <1>5, <1>6, <2>1, <2>2
  <1> HIDE DEF rest
  <1>8. Content' = rest
    BY <1>5, <1>6, <1>7, SeqEqual
  <1> QED BY <1>8 DEF rest

(* What lua_pushlstring is given is the front of the content. *)
LEMMA SliceIsFront ==
    ASSUME RingPositions, NEW r \in 0..blen
    PROVE  Slice(r) = SubSeq(Content, 1, r)
  <1> DEFINE front == SubSeq(Content, 1, r)
  <1>1. /\ alen \in Nat \ {0} /\ blen \in 0..alen /\ rpos \in 0..alen - 1 /\ r \in 0..alen
        /\ buffer \in [0..alen - 1 -> Bytes]
    BY Typed DEF RingPositions
  <1>2. /\ Content \in Seq(Bytes) /\ Len(Content) = blen
        /\ \A i \in 1..blen : Content[i] =
             buffer[IF rpos + i - 1 < alen THEN rpos + i - 1 ELSE rpos + i - 1 - alen]
    BY ContentSeq
  <1>3. front \in Seq(Bytes) /\ Len(front) = r /\ \A i \in 1..r : front[i] = Content[i]
    BY <1>1, <1>2
  <1>4. ASSUME NEW p \in 0..alen - 1, NEW n \in Nat, p + n <= alen
        PROVE  /\ Chunk(p, n) \in Seq(Bytes) /\ Len(Chunk(p, n)) = n
               /\ \A i \in 1..n : Chunk(p, n)[i] = buffer[p + i - 1]
    <2>1. \A i \in 1..n : p + i - 1 \in 0..alen - 1
      BY <1>1, <1>4
    <2> QED BY <1>1, <2>1 DEF Chunk
  <1> HIDE DEF front
  <1>5. CASE rpos + r > alen
    <2> DEFINE u == Chunk(rpos, alen - rpos)
               v == Chunk(0, r - (alen - rpos))
               m == alen - rpos
    <2>0. m \in 1..alen /\ r - m \in 1..alen /\ rpos + m = alen /\ 0 + (r - m) <= alen /\ 0 \in 0..alen - 1
      BY <1>1, <1>5
    <2>1. u \in Seq(Bytes) /\ Len(u) = m /\ \A i \in 1..m : u[i] = buffer[rpos + i - 1]
      <3>1. m \in Nat /\ rpos + m <= alen
        BY <1>1, <2>0
      <3> QED BY ONLY <1>1, <1>4, <3>1
    <2>2. v \in Seq(Bytes) /\ Len(v) = r - m /\ \A i \in 1..r - m : v[i] = buffer[0 + i - 1]
      <3>1. r - m \in Nat
        BY <2>0
      <3> QED BY ONLY <1>4, <2>0, <3>1
    <2>3. Slice(r) = u \o v
      BY <1>5 DEF Slice
    <2> HIDE DEF u, v
    <2>4. /\ u \o v \in Seq(Bytes) /\ Len(u \o v) = r
          /\ \A i \in 1..r : (u \o v)[i] = IF i <= m THEN u[i] ELSE v[i - m]
      <3>1. /\ u \o v \in Seq(Bytes) /\ Len(u \o v) = Len(u) + Len(v)
            /\ \A i \in 1..Len(u) + Len(v) : (u \o v)[i] = IF i <= Len(u) THEN u[i] ELSE v[i - Len(u)]
        BY <2>1, <2>2, ConcatProperties
      <3>2. m + (r - m) = r
        BY <1>1, <2>0
      <3> QED BY <2>1, <2>2, <3>1, <3>2
    <2>5. ASSUME NEW i \in 1..r PROVE (u \o v)[i] = front[i]
      <3>1. CASE i <= alen - rpos
        BY <1>1, <1>2, <1>3, <2>1, <2>4, <3>1
      <3>2. CASE i > alen - rpos
        <4>1. i - (alen - rpos) \in 1..r - (alen - rpos)
          BY <1>1, <3>2
        <4>2. (u \o v)[i] = buffer[i - (alen - rpos) - 1]
          BY <1>1, <2>2, <2>4, <3>2, <4>1, SMTT(30)
        <4>3. front[i] = buffer[rpos + i - 1 - alen]
          <5>1. i \in 1..blen /\ ~(rpos + i - 1 < alen)
            BY <1>1, <3>2
          <5>2. front[i] = Content[i]
            BY <1>3
          <5> QED BY <1>2, <5>1, <5>2
        <4>4. i - (alen - rpos) - 1 = rpos + i - 1 - alen
          BY <1>1
        <4> QED BY ONLY <4>2, <4>3, <4>4
      <3>3. i <= alen - rpos \/ i > alen - rpos
        BY <1>1
      <3> QED BY ONLY <3>1, <3>2, <3>3
    <2>6. u \o v = front
      BY <1>3, <2>4, <2>5, SeqEqual
    <2> QED BY <2>3, <2>6 DEF front
  <1>6. CASE ~(rpos + r > alen)
    <2>1. /\ Chunk(rpos, r) \in Seq(Bytes) /\ Len(Chunk(rpos, r)) = r
          /\ \A i \in 1..r : Chunk(rpos, r)[i] = buffer[rpos + i - 1]
      <3>1. r \in Nat /\ rpos + r <= alen
        BY <1>1, <1>6
      <3> QED BY ONLY <1>1, <1>4, <3>1
    <2>2. ASSUME NEW i \in 1..r PROVE Chunk(rpos, r)[i] = front[i]
      BY <1>1, <1>2, <1>3, <1>6, <2>1
    <2>3. Chunk(rpos, r) = front
      BY <1>3, <2>1, <2>2, SeqEqual
    <2> QED BY <1>6, <2>3 DEF Slice, front
  <1> QED BY <1>5, <1>6

(* Writing s puts it behind the content. *)
LEMMA StoreAppends ==
    ASSUME RingPositions, NEW s \in RingStrings, blen + Len(s) <= alen, Store(s), UNCHANGED alen
    PROVE  Content' = Content \o s
  <1> DEFINE l == Len(s)
             W(a, b) == IF a + b < alen THEN a + b ELSE a + b - alen
             hit(p) == \E i \in 1..l : p = (wpos + i - 1) % alen
             which(p) == CHOOSE i \in 1..l : p = (wpos + i - 1) % alen
  <1>1. /\ alen \in Nat \ {0} /\ blen \in 0..alen
        /\ rpos \in 0..alen - 1 /\ wpos \in 0..alen - 1 /\ wpos = W(rpos, blen)
    BY Typed
  <1>2. l \in 0..alen /\ s \in Seq(Bytes)
    BY <1>1, StringFacts
  <1>3. /\ Content \in Seq(Bytes) /\ Len(Content) = blen
        /\ \A i \in 1..blen : Content[i] = buffer[W(rpos, i - 1)]
    BY <1>1, ContentSeq
  <1>4. blen' = blen + l /\ rpos' = rpos /\ alen' = alen
    BY <1>1, Below DEF Store
  <1>5. /\ Content' \in Seq(Bytes) /\ Len(Content') = blen + l
        /\ \A i \in 1..blen + l : Content'[i] = buffer'[W(rpos, i - 1)]
    BY <1>1, <1>4, StoreKeeps, NextContentSeq
  <1>6. \A p \in 0..alen - 1 : buffer'[p] = IF hit(p) THEN s[which(p)] ELSE buffer[p]
    BY DEF Store
  <1>7. ASSUME NEW i \in 1..l PROVE (wpos + i - 1) % alen = W(wpos, i - 1)
    <2>1. i - 1 \in 0..alen /\ wpos + i - 1 = wpos + (i - 1)
      BY <1>1, <1>2
    <2> QED BY <1>1, <2>1, Wrap
  <1>8. /\ Content \o s \in Seq(Bytes) /\ Len(Content \o s) = blen + l
        /\ \A i \in 1..blen + l : (Content \o s)[i] = IF i <= blen THEN Content[i] ELSE s[i - blen]
    BY <1>1, <1>2, <1>3, ConcatProperties
  <1>9. ASSUME NEW i \in 1..blen + l PROVE Content'[i] = (Content \o s)[i]
    <2> DEFINE p == W(rpos, i - 1)
    <2>1. p \in 0..alen - 1
      BY <1>1, <1>2
    <2>2. CASE i <= blen
      <3>1. ASSUME NEW j \in 1..l PROVE p # W(wpos, j - 1)
        BY <1>1, <1>2, <2>2
      <3>2. ~hit(p)
        BY <1>7, <3>1
      <3>3. buffer'[p] = buffer[p]
        BY <1>6, <2>1, <3>2
      <3>4. i \in 1..blen
        BY <1>1, <2>2
      <3> QED BY <1>3, <1>5, <1>8, <2>2, <3>3, <3>4
    <2>3. CASE i > blen
      <3>1. i - blen \in 1..l
        BY <1>1, <1>2, <2>3
      <3>2. p = W(wpos, (i - blen) - 1)
        BY <1>1, <1>2, <2>3
      <3>3. ASSUME NEW j \in 1..l, p = W(wpos, j - 1) PROVE j = i - blen
        BY <1>1, <1>2, <2>3, <3>1, <3>2, <3>3
      <3>4. which(p) = i - blen /\ hit(p)
        BY <1>7, <3>1, <3>2, <3>3
      <3>5. buffer'[p] = s[i - blen]
        BY <1>6, <2>1, <3>4
      <3>6. ~(i <= blen)
        BY <1>1, <2>3
      <3>7. (Content \o s)[i] = s[i - blen]
        BY <1>8, <3>6
      <3> QED BY <1>5, <3>5, <3>7
    <2>4. i <= blen \/ i > blen
      BY <1>1, <1>2
    <2> QED BY ONLY <2>2, <2>3, <2>4
  <1> QED BY <1>5, <1>8, <1>9, SeqEqual

-----------------------------------------------------------------------------
(* Within the content, the scan's raw position is the content's byte. *)
LEMMA AtIsContent ==
    ASSUME RingPositions, NEW k \in 0..blen - 1
    PROVE  At(k) = Content[k + 1]
  <1>1. alen \in Sizes /\ alen \in Nat \ {0} /\ blen \in 0..alen /\ rpos \in 0..alen - 1
    BY Typed DEF RingPositions
  <1>2. Word \in Nat \ {0} /\ rpos + k \in 0..Word - 1
    BY <1>1, RingAssumption
  <1>3. (rpos + k) % Word = rpos + k
    BY <1>2, Below
  <1>4. k + 1 \in 1..blen /\ rpos + (k + 1) - 1 = rpos + k
    BY <1>1
  <1> QED BY <1>3, <1>4 DEF At, Content

(* A search the queue specifies finds what the queue finds. *)
LEMMA FindIsFirstEnd ==
    ASSUME RingPositions, NEW s \in RingStrings, Queue!Searchable(s)
    PROVE  find(s) = Queue!FirstEnd(Content, s) /\ find(s) <= Len(Content)
  <1> DEFINE l == Len(s)
             last == LastStart(s)
             hits == Hits(s)
             starts == {i \in 0..(Len(Content) - Len(s)) : SubSeq(Content, i + 1, i + Len(s)) = s}
  <1>1. /\ alen \in Sizes /\ alen \in Nat \ {0} /\ blen \in 0..alen
        /\ rpos \in 0..alen - 1 /\ wpos \in 0..alen - 1
        /\ wpos = IF rpos + blen < alen THEN rpos + blen ELSE rpos + blen - alen
    BY Typed DEF RingPositions
  <1>2. Content \in Seq(Bytes) /\ Len(Content) = blen
    BY ContentSeq
  <1>3. s \in Seq(Bytes) /\ l \in 1..blen /\ blen < alen
    BY <1>1, <1>2, StringFacts, RingAssumption DEF Queue!Searchable
  <1>4. rpos # wpos
    BY <1>1, <1>3
  <1>5. last = blen - l
    <2>1. Word \in Nat \ {0} /\ blen + Word - l \in Word..2 * Word - 1
      BY <1>1, <1>3, RingAssumption
    <2>2. (blen + Word - l) % Word = (blen + Word - l) - Word
      BY <2>1
    <2> QED BY <1>1, <1>3, <2>1, <2>2 DEF LastStart
  <1>6. ASSUME NEW i \in 0..blen - l
        PROVE  Matches(s, i) <=> SubSeq(Content, i + 1, i + l) = s
    <2> DEFINE part == SubSeq(Content, i + 1, i + l)
    <2>1. part \in Seq(Bytes) /\ Len(part) = l /\ \A j \in 1..l : part[j] = Content[i + j]
      BY <1>1, <1>2, <1>3
    <2>2. \A j \in 0..l - 1 : At(i + j) = Content[i + (j + 1)]
      <3> SUFFICES ASSUME NEW j \in 0..l - 1 PROVE At(i + j) = Content[i + (j + 1)]
        OBVIOUS
      <3>1. i + j \in 0..blen - 1 /\ (i + j) + 1 = i + (j + 1)
        BY <1>1, <1>3
      <3> QED BY <3>1, AtIsContent
    <2>3. First(s) = s[1]
      BY <1>3 DEF First
    <2> HIDE DEF part
    <2>4. ASSUME Matches(s, i) PROVE part = s
      <3>1. ASSUME NEW j \in 1..l PROVE part[j] = s[j]
        <4>1. CASE j = 1
          <5>1. At(i) = s[1]
            BY <2>3, <2>4 DEF Matches
          <5>2. 0 \in 0..l - 1 /\ i + 0 = i /\ 0 + 1 = 1
            BY <1>3
          <5> QED BY <2>1, <2>2, <4>1, <5>1, <5>2
        <4>2. CASE j # 1
          <5>1. j - 1 \in 1..l - 1 /\ (j - 1) + 1 = j /\ j - 1 \in 0..l - 1
            BY <1>3, <4>2
          <5>2. At(i + (j - 1)) = s[j]
            BY <2>4, <5>1 DEF Matches
          <5> QED BY <2>1, <2>2, <5>1, <5>2
        <4> QED BY <4>1, <4>2
      <3> QED BY <1>3, <2>1, <3>1, SeqEqual
    <2>5. ASSUME part = s PROVE Matches(s, i)
      <3>1. \A j \in 1..l : Content[i + j] = s[j]
        BY <2>1, <2>5
      <3>2. At(i) = s[1]
        <4>1. 0 \in 0..l - 1 /\ i + 0 = i /\ 0 + 1 = 1 /\ 1 \in 1..l
          BY <1>3
        <4> QED BY <2>2, <3>1, <4>1
      <3>3. ASSUME NEW j \in 1..l - 1 PROVE At(i + j) = s[j + 1]
        <4>1. j \in 0..l - 1 /\ j + 1 \in 1..l
          BY <1>3
        <4> QED BY <2>2, <3>1, <4>1
      <3> QED BY <2>3, <3>2, <3>3 DEF Matches
    <2> QED BY <2>4, <2>5 DEF part
  <1>7. hits = starts
    BY <1>2, <1>5, <1>6 DEF Hits
  <1>8. ~(l > Len(Content))
    BY <1>1, <1>2, <1>3
  <1>9. find(s) = IF hits = {} THEN 0 ELSE (Min(hits) + l) % Word
    BY <1>4 DEF find
  <1>10. Queue!FirstEnd(Content, s) = IF starts = {} THEN 0 ELSE Queue!Min(starts) + l
    BY <1>8 DEF Queue!FirstEnd
  <1>11. Queue!Min(starts) = Min(starts)
    BY DEF Min, Queue!Min
  <1>12. hits # {} => Min(hits) \in hits
    <2>1. hits \in SUBSET Nat
      BY <1>1, <1>3, <1>5 DEF Hits
    <2> QED BY <2>1, MinFacts
  <1>13. hits # {} => Min(hits) \in 0..blen - l
    BY <1>5, <1>12 DEF Hits
  <1> HIDE DEF hits, starts
  <1>14. hits # {} => (Min(hits) + l) % Word = Min(hits) + l
    <2> SUFFICES ASSUME hits # {} PROVE (Min(hits) + l) % Word = Min(hits) + l
      OBVIOUS
    <2>1. Word \in Nat \ {0} /\ Word > alen
      BY <1>1, RingAssumption
    <2>2. Min(hits) + l \in 0..Word - 1
      BY <1>1, <1>3, <1>13, <2>1
    <2> QED BY <2>1, <2>2, Below
  <1>15. find(s) <= Len(Content)
    BY <1>1, <1>2, <1>3, <1>9, <1>13, <1>14
  <1> QED BY <1>7, <1>9, <1>10, <1>11, <1>14, <1>15

(* A search that does not end is for one byte more than the content, which *)
(* then neither is empty nor fills the block.                              *)
LEMMA EndlessIs ==
    ASSUME RingPositions, NEW s \in RingStrings, Endless(s)
    PROVE  Queue!Unending(s) /\ ~Queue!Searchable(s) /\ find(s) = 0
  <1>1. /\ alen \in Sizes /\ alen \in Nat \ {0} /\ blen \in 0..alen
        /\ rpos \in 0..alen - 1 /\ wpos \in 0..alen - 1
        /\ wpos = IF rpos + blen < alen THEN rpos + blen ELSE rpos + blen - alen
    BY Typed DEF RingPositions
  <1>2. Len(Content) = blen
    BY ContentSeq
  <1>3. PICK l \in Nat : l = Len(s) /\ l <= MaxLen
    BY StringFacts, RingAssumption
  <1>4. Word \in Nat \ {0} /\ Word > alen + MaxLen /\ MaxLen \in Nat
    BY <1>1, RingAssumption
  <1>5. rpos # wpos /\ (blen + Word - l) % Word = Word - 1
    BY <1>3 DEF Endless, LastStart
  <1>6. blen \in 1..alen - 1
    BY <1>1, <1>5
  <1>7. l > blen
    <2> SUFFICES ASSUME l <= blen PROVE FALSE
      BY <1>1
    <2>1. blen + Word - l \in Word..2 * Word - 1
      BY <1>1, <1>4
    <2>2. (blen + Word - l) % Word = blen - l
      BY <1>1, <1>4, <2>1
    <2> QED BY <1>1, <1>4, <1>5, <2>2
  <1> QED BY <1>1, <1>2, <1>3, <1>6, <1>7 DEF Queue!Unending, Queue!Searchable, find, Endless

(* Without a change of positions or bytes the content is the same. *)
LEMMA ContentSame ==
    ASSUME UNCHANGED <<rpos, alen, blen, buffer>>
    PROVE  UNCHANGED <<Content, alen>>
  BY DEF Content

(* The queue takes the same strings. *)
LEMMA StringsSame == Queue!Strings = RingStrings
  BY DEF Queue!Strings, RingStrings

(* rb_write appends the string whole or changes nothing. *)
LEMMA WriteRefines ==
    ASSUME RingPositions, NEW s \in RingStrings, rb_write(s)
    PROVE  Queue!Write(s)
  <1>1. alen \in Nat \ {0} /\ blen \in 0..alen /\ Len(s) \in Nat /\ Len(Content) = blen
    BY Typed, StringFacts, ContentSeq, RingAssumption
  <1>2. (Len(s) + blen) % Word = blen + Len(s)
    BY WriteFits
  <1>3. CASE blen + Len(s) > alen
    <2>1. ~(Len(Content) + Len(s) <= alen)
      BY <1>1, <1>3
    <2>2. UNCHANGED <<rpos, wpos, blen, buffer, alen>> /\ Ret("write", s, FALSE, <<>>)
      BY <1>2, <1>3 DEF rb_write
    <2>3. UNCHANGED <<Content, alen>>
      BY <2>2, ContentSame
    <2> QED BY <2>1, <2>2, <2>3 DEF Queue!Write, Queue!Reply, Ret
  <1>4. CASE ~(blen + Len(s) > alen)
    <2>1. blen + Len(s) <= alen
      BY <1>1, <1>4
    <2>2. Store(s) /\ UNCHANGED alen /\ Ret("write", s, TRUE, <<Len(s)>>)
      BY <1>2, <1>4 DEF rb_write
    <2>3. Content' = Content \o s
      BY <2>1, <2>2, StoreAppends
    <2> QED BY <1>1, <2>1, <2>2, <2>3 DEF Queue!Write, Queue!Reply, Ret
  <1> QED BY <1>3, <1>4

(* Reading a count of bytes is all or nothing, and takes the front. *)
LEMMA ReadTakesFront ==
    ASSUME RingPositions, NEW op, NEW arg, NEW r \in Nat, NEW peek \in BOOLEAN,
           ReadBytes(op, arg, r, peek)
    PROVE  /\ UNCHANGED alen
           /\ IF r <= Len(Content)
              THEN /\ IF peek THEN UNCHANGED Content ELSE Queue!Drop(r)
                   /\ Ret(op, arg, TRUE, SubSeq(Content, 1, r))
              ELSE UNCHANGED Content /\ Ret(op, arg, FALSE, <<>>)
  <1>1. blen \in Nat /\ Len(Content) = blen
    BY Typed, ContentSeq
  <1>2. CASE r > blen
    <2>1. UNCHANGED <<rpos, wpos, blen, alen, buffer>> /\ Ret(op, arg, FALSE, <<>>)
      BY <1>2 DEF ReadBytes
    <2>2. ~(r <= Len(Content))
      BY <1>1, <1>2
    <2> QED BY <2>1, <2>2, ContentSame
  <1>3. CASE ~(r > blen)
    <2>1. r \in 0..blen /\ r <= Len(Content)
      BY <1>1, <1>3
    <2>2. Ret(op, arg, TRUE, SubSeq(Content, 1, r)) /\ UNCHANGED <<alen, buffer>>
      BY <1>3, <2>1, SliceIsFront DEF ReadBytes
    <2>3. CASE peek
      BY <1>3, <2>1, <2>2, <2>3, ContentSame DEF ReadBytes
    <2>4. CASE ~peek
      <3>1. Advance(r)
        BY <1>3, <2>4 DEF ReadBytes
      <3>2. Queue!Drop(r)
        BY <2>1, <2>2, <3>1, AdvanceDrops DEF Queue!Drop
      <3> QED BY <2>1, <2>2, <2>4, <3>2
    <2> QED BY <2>3, <2>4
  <1> QED BY <1>2, <1>3

(* rb_read is a read of the queue. *)
LEMMA ReadRefines ==
    ASSUME RingPositions, NEW r \in 0..MaxLen, NEW peek \in BOOLEAN, rb_read(r, peek)
    PROVE  Queue!Read(r, peek)
  <1>1. r \in Nat /\ ReadBytes("read", <<r>>, r, peek)
    BY RingAssumption DEF rb_read
  <1>2. /\ UNCHANGED alen
        /\ IF r <= Len(Content)
           THEN /\ IF peek THEN UNCHANGED Content ELSE Queue!Drop(r)
                /\ Ret("read", <<r>>, TRUE, SubSeq(Content, 1, r))
           ELSE UNCHANGED Content /\ Ret("read", <<r>>, FALSE, <<>>)
    BY <1>1, ReadTakesFront
  <1> QED BY <1>2 DEF Queue!Read, Queue!Reply, Ret

(* rb_discard drops the front of the queue or nothing. *)
LEMMA DiscardRefines ==
    ASSUME RingPositions, NEW r \in 0..MaxLen, rb_discard(r)
    PROVE  Queue!Discard(r)
  <1>1. r \in Nat /\ blen \in Nat /\ Len(Content) = blen
    BY Typed, ContentSeq, RingAssumption
  <1>2. CASE r > blen
    <2>1. UNCHANGED <<rpos, wpos, blen, alen, buffer>> /\ Ret("discard", <<r>>, FALSE, <<>>)
      BY <1>2 DEF rb_discard
    <2>2. ~(r <= Len(Content))
      BY <1>1, <1>2
    <2>3. UNCHANGED <<Content, alen>>
      BY <2>1, ContentSame
    <2> QED BY <2>1, <2>2, <2>3 DEF Queue!Discard, Queue!Reply, Ret
  <1>3. CASE ~(r > blen)
    <2>1. r \in 0..blen /\ r <= Len(Content)
      BY <1>1, <1>3
    <2>2. Advance(r) /\ UNCHANGED <<alen, buffer>> /\ Ret("discard", <<r>>, TRUE, <<>>)
      BY <1>3 DEF rb_discard
    <2>3. Queue!Drop(r)
      BY <2>1, <2>2, AdvanceDrops DEF Queue!Drop
    <2> QED BY <2>1, <2>2, <2>3 DEF Queue!Discard, Queue!Reply, Ret
  <1> QED BY <1>2, <1>3

(* rb_find answers what a search of the queue would. *)
LEMMA FindRefines ==
    ASSUME RingPositions, NEW s \in RingStrings, rb_find(s)
    PROVE  Queue!Find(s)
  <1>1. UNCHANGED <<Content, alen>>
    BY ContentSame DEF rb_find
  <1>2. CASE Endless(s)
    <2>1. Ret("never", s, FALSE, <<>>)
      BY <1>2 DEF rb_find, Hangs
    <2>2. Queue!NoAnswer(s)
      BY <1>2, <2>1, EndlessIs DEF Queue!NoAnswer, Queue!Reply, Ret
    <2> QED BY <1>1, <2>2 DEF Queue!Find
  <1>3. CASE ~Endless(s) /\ Queue!Searchable(s)
    BY <1>1, <1>3, FindIsFirstEnd DEF rb_find, Hangs, Queue!Find, Queue!Reply, Ret
  <1>4. CASE ~Endless(s) /\ ~Queue!Searchable(s)
    BY <1>1, <1>4 DEF rb_find, Hangs, Queue!Find, Queue!Reply, Ret
  <1> QED BY <1>2, <1>3, <1>4

(* rb_readuntil, a search followed by a read, is one step of the queue. *)
LEMMA ReadUntilRefines ==
    ASSUME RingPositions, NEW s \in RingStrings, rb_readuntil(s)
    PROVE  Queue!ReadUntil(s)
  <1> DEFINE Takes(m) == /\ Queue!Drop(m)
                         /\ ret' = Queue!Reply("readuntil", s, m > 0, SubSeq(Content, 1, m))
  <1>1. Content \in Seq(Bytes) /\ Len(Content) = blen /\ blen \in Nat
    BY ContentSeq, Typed
  <1>2. find(s) \in Nat
    BY FindNat
  <1>3. ASSUME UNCHANGED Content, Ret("readuntil", s, FALSE, <<>>) PROVE Takes(0)
    <2>1. SubSeq(Content, 1, 0) = <<>> /\ SubSeq(Content, 0 + 1, Len(Content)) = Content
      BY <1>1
    <2>2. (0 > 0) = FALSE
      OBVIOUS
    <2>3. Queue!Drop(0)
      BY <1>3, <2>1 DEF Queue!Drop
    <2>4. ret' = Queue!Reply("readuntil", s, FALSE, <<>>)
      BY <1>3 DEF Ret, Queue!Reply
    <2> QED BY <2>1, <2>2, <2>3, <2>4
  <1>4. UNCHANGED alen
    BY DEF rb_readuntil, ReadBytes
  <1>8. CASE Endless(s)
    <2>1. ~(find(s) > 0)
      BY <1>8, EndlessIs
    <2>2. UNCHANGED <<rpos, wpos, alen, blen, buffer>> /\ Ret("never", s, FALSE, <<>>)
      BY <1>8, <2>1 DEF rb_readuntil, Hangs
    <2>3. UNCHANGED Content /\ Queue!NoAnswer(s)
      BY <1>8, <2>2, EndlessIs, ContentSame DEF Queue!NoAnswer, Queue!Reply, Ret
    <2> QED BY <1>4, <2>3 DEF Queue!ReadUntil
  <1>5. ASSUME ~Endless(s) PROVE Takes(IF find(s) <= Len(Content) THEN find(s) ELSE 0)
    <2>1. CASE find(s) = 0
      <3>1. UNCHANGED Content /\ Ret("readuntil", s, FALSE, <<>>)
        <4>1. ~(find(s) > 0)
          BY <2>1
        <4>2. UNCHANGED <<rpos, wpos, alen, blen, buffer>> /\ Ret("readuntil", s, FALSE, <<>>)
          BY <1>5, <4>1 DEF rb_readuntil, Hangs
        <4> QED BY <4>2, ContentSame
      <3> QED BY <1>1, <1>3, <2>1, <3>1
    <2>2. CASE find(s) > 0
      <3>1. ReadBytes("readuntil", s, find(s), FALSE)
        <4>1. find(s) # 0
          BY <1>2, <2>2
        <4> QED BY <4>1 DEF rb_readuntil
      <3>2. IF find(s) <= Len(Content)
            THEN Queue!Drop(find(s)) /\ Ret("readuntil", s, TRUE, SubSeq(Content, 1, find(s)))
            ELSE UNCHANGED Content /\ Ret("readuntil", s, FALSE, <<>>)
        BY <1>2, <3>1, ReadTakesFront
      <3> QED BY <1>3, <2>2, <3>2 DEF Ret, Queue!Reply
    <2> QED BY <1>2, <2>1, <2>2
  <1>6. CASE ~Endless(s) /\ Queue!Searchable(s)
    <2>1. find(s) = Queue!FirstEnd(Content, s)
      BY <1>6, FindIsFirstEnd
    <2>2. find(s) <= Len(Content)
      BY <1>6, FindIsFirstEnd
    <2>3. Takes(Queue!FirstEnd(Content, s))
      BY <1>5, <1>6, <2>1, <2>2
    <2> QED BY <1>4, <1>6, <2>3 DEF Queue!ReadUntil
  <1>7. CASE ~Endless(s) /\ ~Queue!Searchable(s)
    <2>1. (IF find(s) <= Len(Content) THEN find(s) ELSE 0) \in 0..Len(Content)
      BY <1>1, <1>2
    <2>2. \E m \in 0..Len(Content) : Takes(m)
      BY <1>5, <1>7, <2>1
    <2> QED BY <1>4, <1>7, <2>2 DEF Queue!ReadUntil
  <1> QED BY <1>6, <1>7, <1>8

(* rb_length and its siblings only ask. *)
LEMMA LengthRefines ==
    ASSUME RingPositions, rb_length
    PROVE  Queue!Ask
  <1>1. UNCHANGED <<Content, alen>>
    BY ContentSame DEF rb_length
  <1>2. Len(Content) = blen
    BY ContentSeq
  <1> QED BY <1>1, <1>2 DEF rb_length, Queue!Ask, Queue!Reply, Ret

(* Every call does what the same call of a bounded queue of bytes does -   *)
(* but for a search without end, for a pattern longer than the content -   *)
(* wherever the content wraps around in the block and whatever bytes the   *)
(* block held before: the content is the window of blen bytes from rpos    *)
(* (ringbuffer.c:34-196).                                                  *)
THEOREM RingRefinesQueue == RingSpec => RingIsQueue
  <1>1. rb_new => Queue!Init
    <2> SUFFICES ASSUME rb_new PROVE Queue!Init
      OBVIOUS
    <2>1. Content = <<>>
      BY DEF rb_new, Content
    <2>2. alen \in Nat \ {0}
      BY RingAssumption DEF rb_new
    <2> QED BY <2>1, <2>2 DEF rb_new, Queue!Init, Queue!Reply
  <1>2. RingPositions /\ [RingNext]_ringVars => [Queue!Next]_<<Content, alen, ret>>
    <2> SUFFICES ASSUME RingPositions, [RingNext]_ringVars
                 PROVE  Queue!Next \/ UNCHANGED <<Content, alen, ret>>
      OBVIOUS
    <2>1. ASSUME NEW s \in RingStrings, ret.op # "never", rb_write(s) \/ rb_find(s) \/ rb_readuntil(s)
          PROVE  Queue!Next
      BY <2>1, WriteRefines, FindRefines, ReadUntilRefines, StringsSame DEF Queue!Next
    <2>2. ASSUME NEW r \in 0..MaxLen, ret.op # "never", rb_discard(r) \/ \E peek \in BOOLEAN : rb_read(r, peek)
          PROVE  Queue!Next
      BY <2>2, DiscardRefines, ReadRefines DEF Queue!Next
    <2>3. CASE ret.op # "never" /\ rb_length
      BY <2>3, LengthRefines DEF Queue!Next
    <2>4. CASE UNCHANGED ringVars
      BY <2>4, ContentSame DEF ringVars
    <2> QED BY <2>1, <2>2, <2>3, <2>4 DEF RingNext
  <1> QED BY <1>1, <1>2, PositionsHold, PTL DEF RingSpec, RingIsQueue, Queue!Spec

-----------------------------------------------------------------------------
(* Recursion and induction over positions.                                  *)
(* Induction over an interval, for a set in the place of a predicate. *)
LEMMA IntervalInduction ==
    ASSUME NEW lo \in Nat, NEW hi \in Nat, NEW S, lo \in S,
           \A i \in lo..hi : i # lo /\ i - 1 \in S => i \in S
    PROVE  \A i \in lo..hi : i \in S
  <1> DEFINE Out == (lo..hi) \ S
  <1>1. CASE Out = {}
    BY <1>1
  <1>2. CASE Out # {}
    <2> DEFINE m == Min(Out)
    <2>1. m \in Out /\ \A y \in Out : m <= y
      <3>1. Out \in SUBSET Nat
        OBVIOUS
      <3> HIDE DEF Out
      <3> QED BY <3>1, <1>2, MinFacts
    <2> HIDE DEF m
    <2>2. m \in lo..hi /\ m # lo /\ m - 1 \notin Out /\ m - 1 \in lo..hi
      BY <2>1
    <2> QED BY <2>1, <2>2
  <1> QED BY <1>1, <1>2

(* f begins with a, and g says what follows each value. *)
Steps(f, lo, hi, a, g) == f[lo] = a /\ \A i \in lo..hi : i # lo => f[i] = g[i][f[i - 1]]

(* A function on an interval is defined by its first value and by what      *)
(* follows each value.                                                      *)
LEMMA Recursion ==
    ASSUME NEW lo \in Nat, NEW hi \in Nat, lo <= hi, NEW V, NEW a \in V,
           NEW g \in [lo..hi -> [V -> V]]
    PROVE  \E f \in [lo..hi -> V] : Steps(f, lo, hi, a, g)
  <1> DEFINE Is(f, n) == f[lo] = a /\ \A i \in lo..n : i # lo => f[i] = g[i][f[i - 1]]
             S == {n \in lo..hi : \E f \in [lo..n -> V] : Is(f, n)}
  <1>1. lo \in S
    <2> DEFINE f == [i \in lo..lo |-> a]
    <2>1. f \in [lo..lo -> V] /\ Is(f, lo)
      OBVIOUS
    <2>2. lo \in lo..hi
      OBVIOUS
    <2> HIDE DEF f
    <2> QED BY <2>1, <2>2
  <1>2. ASSUME NEW i \in lo..hi, i # lo, i - 1 \in S PROVE i \in S
    <2>1. PICK f \in [lo..i - 1 -> V] : Is(f, i - 1)
      BY <1>2
    <2> DEFINE h == [j \in lo..i |-> IF j = i THEN g[i][f[i - 1]] ELSE f[j]]
    <2>2. f[i - 1] \in V /\ g[i] \in [V -> V]
      BY <1>2
    <2>3. g[i][f[i - 1]] \in V
      BY <2>2
    <2>4. h \in [lo..i -> V]
      BY <2>3
    <2>5. h[lo] = a
      BY <2>1, <1>2
    <2>6. ASSUME NEW j \in lo..i, j # lo PROVE h[j] = g[j][h[j - 1]]
      <3>1. CASE j = i
        <4>1. h[j - 1] = f[i - 1]
          BY <3>1, <1>2
        <4> QED BY <4>1, <3>1
      <3>2. CASE j # i
        <4>1. h[j - 1] = f[j - 1] /\ h[j] = f[j] /\ j \in lo..i - 1
          BY <3>2, <2>6
        <4> HIDE DEF h
        <4> QED BY <4>1, <2>1, <2>6
      <3> QED BY <3>1, <3>2
    <2> HIDE DEF h
    <2>7. Is(h, i)
      BY <2>5, <2>6
    <2>8. i \in lo..hi
      OBVIOUS
    <2> QED BY <2>4, <2>7, <2>8
  <1> HIDE DEF S
  <1>3. hi \in S
    <2>1. \A i \in lo..hi : i # lo /\ i - 1 \in S => i \in S
      BY <1>2
    <2>2. \A i \in lo..hi : i \in S
      BY <1>1, <2>1, IntervalInduction
    <2> QED BY <2>2
  <1> QED BY <1>3 DEF S, Steps

(* f is the concatenation of the first elements of s, for each number of them. *)
Flattens(f, s, n) == f[1] = s[1] /\ \A i \in 2..n : f[i] = f[i - 1] \o s[i]

(* The concatenation of a sequence of sequences, one element at a time. *)
LEMMA FlattenSteps ==
    ASSUME NEW T, NEW n \in Nat \ {0}, NEW s \in [1..n -> Seq(T)]
    PROVE  \E f \in [1..n -> Seq(T)] : FlattenSeq(s) = f[n] /\ Flattens(f, s, n)
  <1> DEFINE V == Seq(T)
             Cat(x, y) == x \o y
             g == [i \in 1..n |-> [x \in V |-> Cat(x, s[i])]]
             Fix(f) == f = [i \in 1..n |-> IF i = 1 THEN s[i] ELSE Cat(f[i - 1], s[i])]
             c == CHOOSE f : Fix(f)
  <1>1. Len(s) = n
    <2>1. s \in Seq(Seq(T))
      OBVIOUS
    <2>2. DOMAIN s = 1..n
      OBVIOUS
    <2> QED BY <2>1, <2>2, LenProperties
  <1>0. FlattenSeq(s) = c[n]
    BY <1>1 DEF FlattenSeq
  <1>2. s \in [1..n -> V] /\ \A x, y \in V : Cat(x, y) \in V
    BY ConcatProperties
  <1> HIDE DEF V, Cat
  <1>3. g \in [1..n -> [V -> V]]
    BY <1>2
  <1>4. \A i \in 1..n, x \in V : g[i][x] = Cat(x, s[i])
    OBVIOUS
  <1> HIDE DEF g
  <1>5. PICK f \in [1..n -> V] : Steps(f, 1, n, s[1], g)
    <2>1. s[1] \in V /\ 1 \in Nat /\ n \in Nat /\ 1 <= n
      BY <1>2
    <2> QED BY ONLY <2>1, <1>3, Recursion
  <1>6. f[1] = s[1] /\ \A i \in 1..n : i # 1 => f[i] = Cat(f[i - 1], s[i])
    <2>1. f[1] = s[1]
      BY <1>5 DEF Steps
    <2>2. ASSUME NEW i \in 1..n, i # 1 PROVE f[i] = Cat(f[i - 1], s[i])
      <3>1. f[i - 1] \in V
        BY <2>2
      <3>2. f[i] = g[i][f[i - 1]]
        BY <1>5, <2>2 DEF Steps
      <3> QED BY <1>4, <3>1, <3>2
    <2> QED BY <2>1, <2>2
  <1>7. Fix(f)
    <2> DEFINE r == [i \in 1..n |-> IF i = 1 THEN s[i] ELSE Cat(f[i - 1], s[i])]
    <2>1. ASSUME NEW i \in 1..n PROVE f[i] = r[i]
      <3>1. r[i] = IF i = 1 THEN s[i] ELSE Cat(f[i - 1], s[i])
        OBVIOUS
      <3> HIDE DEF r
      <3> QED BY ONLY <1>6, <3>1, i \in 1..n
    <2>2. f = [i \in 1..n |-> f[i]] /\ r = [i \in 1..n |-> r[i]]
      OBVIOUS
    <2>3. f = r
      <3> HIDE DEF r
      <3> QED BY <2>1, <2>2
    <2> QED BY <2>3
  <1>8. Fix(c)
    BY <1>7
  <1> HIDE DEF c
  <1>9. c = [i \in 1..n |-> c[i]] /\ c[1] = s[1] /\ \A i \in 1..n : i # 1 => c[i] = Cat(c[i - 1], s[i])
    BY <1>8
  <1>10. \A i \in 1..n : c[i] = f[i]
    <2> DEFINE S == {i \in 1..n : c[i] = f[i]}
    <2>1. 1 \in S
      BY <1>6, <1>9
    <2>2. ASSUME NEW i \in 1..n, i # 1, i - 1 \in S PROVE i \in S
      <3>1. c[i - 1] = f[i - 1]
        BY <2>2
      <3> QED BY <1>6, <1>9, <2>2, <3>1
    <2> HIDE DEF S
    <2>3. \A i \in 1..n : i \in S
      <3>1. \A i \in 1..n : i # 1 /\ i - 1 \in S => i \in S
        BY <2>2
      <3>2. 1 \in Nat /\ n \in Nat
        OBVIOUS
      <3> QED BY ONLY <2>1, <3>1, <3>2, IntervalInduction
    <2> QED BY <2>3 DEF S
  <1>11. c \in [1..n -> V]
    BY <1>9, <1>10
  <1>12. \A i \in 2..n : c[i] = Cat(c[i - 1], s[i])
    <2> TAKE i \in 2..n
    <2>1. i \in 1..n /\ i # 1
      OBVIOUS
    <2> QED BY <1>9, <2>1
  <1> QED BY <1>0, <1>9, <1>11, <1>12 DEF V, Cat, Flattens

(* ... and it is a sequence. *)
LEMMA FlattenType ==
    ASSUME NEW T, NEW n \in Nat, NEW s \in [1..n -> Seq(T)]
    PROVE  FlattenSeq(s) \in Seq(T)
  <1>1. CASE n = 0
    <2>1. s = <<>>
      BY <1>1
    <2>2. Len(s) = 0 /\ s \in Seq(T)
      BY <2>1
    <2> QED BY <2>2 DEF FlattenSeq
  <1>2. CASE n # 0
    <2>0. n \in Nat \ {0}
      BY <1>2
    <2>1. PICK f \in [1..n -> Seq(T)] : FlattenSeq(s) = f[n] /\ Flattens(f, s, n)
      BY ONLY <2>0, s \in [1..n -> Seq(T)], FlattenSteps
    <2> QED BY <2>1, <1>2
  <1> QED BY <1>1, <1>2

-----------------------------------------------------------------------------
(* Names.                                                                   *)
(* What an answer of one of the functions says. *)
LEMMA Answer ==
    ASSUME NEW p \in BOOLEAN, NEW v, NEW r, r = IF p THEN Nil ELSE [ok |-> TRUE, out |-> v]
    PROVE  r.ok = ~p /\ (~p => r.out = v)
  <1>1. p => r.ok = FALSE
    BY DEF Nil
  <1>2. ~p => r = [ok |-> TRUE, out |-> v]
    OBVIOUS
  <1>3. ~p => r.ok = TRUE /\ r.out = v
    BY <1>2
  <1> QED BY <1>1, <1>3

(* A string without a NUL is a C string. *)
LEMMA WholeCString ==
    ASSUME NEW s, ~Contains(s, "nul")
    PROVE  CString(s) = s
  BY DEF CString

(* Preparation gives a string. *)
LEMMA PrepType ==
    ASSUME NEW s \in Seq(NameChars)
    PROVE  Len(Prep(s)) \in Nat
  <1> DEFINE m == [i \in DOMAIN s |-> PrepChar(s[i])]
             T == NameChars \cup {"t1", "t2"}
  <1>1. DOMAIN s = 1..Len(s) /\ Len(s) \in Nat
    OBVIOUS
  <1>2. \A i \in 1..Len(s) : PrepChar(s[i]) \in Seq(T)
    <2> TAKE i \in 1..Len(s)
    <2>1. s[i] \in NameChars
      OBVIOUS
    <2>2. ASSUME NEW c \in NameChars PROVE PrepChar(c) \in Seq(T)
      <3>0. "t1" \in T /\ "t2" \in T /\ c \in T
        OBVIOUS
      <3> HIDE DEF T
      <3>1. CASE c = "drop"
        BY <3>1 DEF PrepChar
      <3>2. CASE c = "two"
        <4>1. PrepChar(c) = <<"t1", "t2">>
          BY <3>2 DEF PrepChar
        <4>2. <<"t1", "t2">> \in Seq(T)
          BY ONLY <3>0
        <4> QED BY ONLY <4>1, <4>2
      <3>3. CASE c \notin {"drop", "two"}
        <4>1. PrepChar(c) = <<c>>
          BY <3>3 DEF PrepChar
        <4>2. <<c>> \in Seq(T)
          BY ONLY <3>0
        <4> QED BY ONLY <4>1, <4>2
      <3> QED BY <3>1, <3>2, <3>3
    <2> QED BY <2>1, <2>2
  <1> HIDE DEF T
  <1>3. m \in [1..Len(s) -> Seq(T)]
    BY <1>1, <1>2
  <1> HIDE DEF m
  <1>4. FlattenSeq(m) \in Seq(T)
    BY ONLY <1>1, <1>3, FlattenType
  <1>5. Prep(s) = FlattenSeq(m)
    BY DEF Prep, m
  <1> QED BY <1>4, <1>5

(* So does the conversion to Unicode. *)
LEMMA UnicodeType ==
    ASSUME NEW s \in Seq(NameChars)
    PROVE  Len(ToUnicode(s)) \in Nat
  <1> DEFINE m == [i \in DOMAIN s |-> UnicodeChar(s[i])]
             T == NameChars \cup {"u1", "u2"}
  <1>1. DOMAIN s = 1..Len(s) /\ Len(s) \in Nat
    OBVIOUS
  <1>2. \A i \in 1..Len(s) : UnicodeChar(s[i]) \in Seq(T)
    <2> TAKE i \in 1..Len(s)
    <2>1. s[i] \in NameChars
      OBVIOUS
    <2>2. ASSUME NEW c \in NameChars PROVE UnicodeChar(c) \in Seq(T)
      <3>0. "u1" \in T /\ "u2" \in T /\ c \in T
        OBVIOUS
      <3> HIDE DEF T
      <3>1. CASE c = "ace"
        <4>1. UnicodeChar(c) = <<"u1", "u2">>
          BY <3>1 DEF UnicodeChar
        <4>2. <<"u1", "u2">> \in Seq(T)
          BY ONLY <3>0
        <4> QED BY ONLY <4>1, <4>2
      <3>2. CASE c # "ace"
        <4>1. UnicodeChar(c) = <<c>>
          BY <3>2 DEF UnicodeChar
        <4>2. <<c>> \in Seq(T)
          BY ONLY <3>0
        <4> QED BY ONLY <4>1, <4>2
      <3> QED BY <3>1, <3>2
    <2> QED BY <2>1, <2>2
  <1> HIDE DEF T
  <1>3. m \in [1..Len(s) -> Seq(T)]
    BY <1>1, <1>2
  <1> HIDE DEF m
  <1>4. FlattenSeq(m) \in Seq(T)
    BY ONLY <1>1, <1>3, FlattenType
  <1>5. ToUnicode(s) = FlattenSeq(m)
    BY DEF ToUnicode, m
  <1> QED BY <1>4, <1>5

(* The inputs are strings over the alphabet of their kind. *)
InputOK == kind \in DOMAIN EncBound /\ input \in Seq(Alphabet[kind])

(* An input only grows, by symbols of its kind. *)
LEMMA EncInductive == EncSpec => []InputOK
  <1>1. EncInit => InputOK
    BY DEF EncInit, InputOK
  <1>2. InputOK /\ [Extend]_encVars => InputOK'
    <2> SUFFICES ASSUME InputOK, [Extend]_encVars PROVE InputOK'
      OBVIOUS
    <2>1. CASE Extend
      <3>1. PICK x \in Alphabet[kind] : input' = Append(input, x)
        BY <2>1 DEF Extend
      <3>2. kind' = kind
        BY <2>1 DEF Extend
      <3> DEFINE A == Alphabet[kind]
      <3>3. A = Alphabet[kind']
        BY <3>2
      <3>4. input' \in Seq(A)
        <4>1. input \in Seq(A) /\ x \in A
          BY DEF InputOK
        <4> HIDE DEF A
        <4> QED BY <3>1, <4>1
      <3> QED BY <3>2, <3>3, <3>4 DEF InputOK
    <2>2. CASE UNCHANGED encVars
      BY <2>2 DEF encVars, InputOK
    <2> QED BY <2>1, <2>2
  <1> QED BY <1>1, <1>2, PTL DEF EncSpec

(* What the six functions answer, and that it is what the property asks for: *)
(* each refuses for its own reasons and otherwise prepares the whole string  *)
(* (encodings.c:272-318, 360-388, 412-525).                                 *)
LEMMA PrepWholeOf == InputOK => PrepWhole
  <1> SUFFICES ASSUME InputOK, kind = "names" PROVE PrepWhole
    BY DEF PrepWhole
  <1> DEFINE inv == Contains(input, "inv")
             ban == Contains(input, "ban")
             nul == Contains(input, "nul")
             p == Prep(input)
             full == Len(input) >= PrepBuffer
             over == Len(input) > PrepBuffer
             big == Len(p) >= PrepBuffer
             ra == stringprep_prep(input)
             rb == icu_stringprep_prep(input)
             rc == Lidna_to_ascii(input)
             rd == icu_to_ascii(input)
             re == icu_to_unicode(input)
             u == ToUnicode(input)
             wide == Len(u) >= PrepBuffer
  <1>1. inv \in BOOLEAN /\ ban \in BOOLEAN /\ nul \in BOOLEAN
    BY DEF Contains
  <1>2. input \in Seq(NameChars)
    BY DEF InputOK, Alphabet
  <1>3. /\ full \in BOOLEAN /\ over \in BOOLEAN /\ big \in BOOLEAN /\ wide \in BOOLEAN
        /\ (Len(input) < PrepBuffer) = ~full
        /\ (Len(p) < PrepBuffer) = ~big
        /\ (Len(u) < PrepBuffer) = ~wide
        /\ over => full
    <2>1. Len(input) \in Nat /\ Len(p) \in Nat /\ Len(u) \in Nat
      BY <1>2, PrepType, UnicodeType
    <2> QED BY <2>1, EncAssumption
  <1>4. ra.ok = ~(inv \/ full \/ nul \/ ban \/ big) /\ (ra.ok => ra.out = p)
    BY <1>1, <1>3, Answer DEF stringprep_prep
  <1>5. rb.ok = ~(full \/ inv \/ ban \/ big) /\ (rb.ok => rb.out = p)
    BY <1>1, <1>3, Answer DEF icu_stringprep_prep
  <1>6. rc.ok = ~(inv \/ nul \/ ban) /\ (rc.ok => rc.out = p)
    BY <1>1, <1>3, Answer DEF Lidna_to_ascii
  <1>7. rd.ok = ~(over \/ inv \/ nul \/ ban \/ big) /\ (rd.ok => rd.out = p)
    BY <1>1, <1>3, Answer DEF icu_to_ascii
  <1>8. re.ok = ~(over \/ inv \/ wide) /\ (re.ok => re.out = u)
    BY <1>1, <1>3, Answer DEF icu_to_unicode
  <1>9. ~nul /\ ~inv => \A r \in Lidna_to_unicode(input) : r.ok = TRUE /\ r.out = u
    BY WholeCString DEF Lidna_to_unicode
  <1> DEFINE Fits(out) == Len(input) < PrepBuffer /\ Len(out) < PrepBuffer
             Only(r, out, wanted) == (r.ok => r.out = out) /\ (wanted => r.ok)
  <1> HIDE DEF inv, ban, nul, p, u, full, over, big, wide, ra, rb, rc, rd, re
  <1>10. (inv \/ ban) => \A r \in {ra, rb, rc, rd} : ~r.ok
    BY <1>4, <1>5, <1>6, <1>7
  <1>11. ~(inv \/ ban) => /\ Only(ra, p, Fits(p) /\ ~nul)
                          /\ Only(rb, p, Fits(p))
                          /\ Only(rc, p, ~nul)
                          /\ Only(rd, p, Fits(p) /\ ~nul)
    BY <1>1, <1>3, <1>4, <1>5, <1>6, <1>7
  <1>12. (inv => ~re.ok) /\ Only(re, u, ~inv /\ Fits(u))
    BY <1>1, <1>3, <1>8
  <1>13. ~nul /\ ~inv => \A r \in Lidna_to_unicode(input) : Only(r, u, TRUE)
    BY <1>9
  <1> QED BY <1>10, <1>11, <1>12, <1>13 DEF PrepWhole, inv, ban, nul, p, u, ra, rb, rc, rd, re

(* A name is prepared or converted whole or refused, whichever library the  *)
(* file was compiled with - but by to_unicode of libidn only a string that  *)
(* is UTF-8 and has no NUL - for names of every length and buffers of every *)
(* size (encodings.c:272-318, 360-388, 412-525).                            *)
THEOREM PrepWholeHolds == EncSpec => []PrepWhole
  BY EncInductive, PrepWholeOf, PTL

-----------------------------------------------------------------------------
(* UTF-8.                                                                   *)
(* How many continuation bytes the first byte announces. *)
LEMMA Counts ==
    ASSUME NEW c \in 128..255
    PROVE  /\ c \in 128..191 => Continuations(c) = 0
           /\ c \in 192..223 => Continuations(c) = 1
           /\ c \in 224..239 => Continuations(c) = 2
           /\ c \in 240..247 => Continuations(c) = 3
           /\ c \in 248..255 => Continuations(c) > 3
           /\ Continuations(c) \in Nat
  <1> DEFINE Z(k) == c \div Bits[k + 1] % 2 = 0
             K == {k \in 0..6 : Z(k)} \cup {7}
  <1>1. /\ Z(0) <=> c < 192
        /\ c >= 192 => (Z(1) <=> c < 224)
        /\ c >= 224 => (Z(2) <=> c < 240)
        /\ c >= 240 => (Z(3) <=> c < 248)
    <2>1. Bits[0 + 1] = 64 /\ Bits[1 + 1] = 32 /\ Bits[2 + 1] = 16 /\ Bits[3 + 1] = 8
      BY DEF Bits
    <2>2. (c \div 64) % 2 = 0 <=> c < 192
      OBVIOUS
    <2>3. c >= 192 => ((c \div 32) % 2 = 0 <=> c < 224)
      OBVIOUS
    <2>4. c >= 224 => ((c \div 16) % 2 = 0 <=> c < 240)
      OBVIOUS
    <2>5. c >= 240 => ((c \div 8) % 2 = 0 <=> c < 248)
      OBVIOUS
    <2> QED BY <2>1, <2>2, <2>3, <2>4, <2>5
  <1> HIDE DEF Z
  <1>2. K \in SUBSET Nat /\ K # {}
    OBVIOUS
  <1>3. Min(K) \in K /\ \A y \in K : Min(K) <= y
    <2> HIDE DEF K
    <2> QED BY <1>2, MinFacts
  <1>4. Continuations(c) = Min(K)
    BY DEF Continuations, Z
  <1>5. PICK m \in Nat : m = Min(K)
    BY <1>2, <1>3
  <1>6. /\ m \in 0..6 => Z(m)
        /\ \A k \in 0..6 : Z(k) => m <= k
        /\ m \in 0..7
    BY <1>3, <1>5
  <1> HIDE DEF K
  <1>7. /\ Z(0) => m = 0
        /\ ~Z(0) /\ Z(1) => m = 1
        /\ ~Z(0) /\ ~Z(1) /\ Z(2) => m = 2
        /\ ~Z(0) /\ ~Z(1) /\ ~Z(2) /\ Z(3) => m = 3
        /\ ~Z(0) /\ ~Z(1) /\ ~Z(2) /\ ~Z(3) => m > 3
    BY ONLY <1>6
  <1>8. Continuations(c) = m
    BY <1>4, <1>5
  <1> QED BY ONLY c \in 128..255, <1>1, <1>7, <1>8, m \in Nat

(* Six bits of each continuation byte. *)
LEMMA SextetsAre ==
    ASSUME NEW s, NEW pos \in Nat, NEW count \in Nat,
           \A i \in 0..count : Byte(s, pos + i) \in Nat
    PROVE  /\ Sextets(s, pos, count) \in Nat
           /\ count = 0 => Sextets(s, pos, count) = 0
           /\ count = 1 => Sextets(s, pos, count) = Byte(s, pos + 1) % 64
           /\ count = 2 => Sextets(s, pos, count) = 64 * (Byte(s, pos + 1) % 64) + (Byte(s, pos + 2) % 64)
           /\ count = 3 => Sextets(s, pos, count) =
                64 * (64 * (Byte(s, pos + 1) % 64) + (Byte(s, pos + 2) % 64)) + (Byte(s, pos + 3) % 64)
  <1> DEFINE B(i) == Byte(s, pos + i) % 64
             Fix(f) == f = [i \in 0..count |-> IF i = 0 THEN 0 ELSE 64 * f[i - 1] + B(i)]
             c == CHOOSE f : Fix(f)
             g == [i \in 0..count |-> [x \in Nat |-> 64 * x + B(i)]]
  <1>1. Sextets(s, pos, count) = c[count]
    BY DEF Sextets
  <1>2. \A i \in 0..count : B(i) \in Nat
    OBVIOUS
  <1>a. /\ B(1) = Byte(s, pos + 1) % 64
        /\ B(2) = Byte(s, pos + 2) % 64
        /\ B(3) = Byte(s, pos + 3) % 64
    OBVIOUS
  <1> HIDE DEF B
  <1>3. g \in [0..count -> [Nat -> Nat]]
    BY <1>2
  <1>4. \A i \in 0..count, x \in Nat : g[i][x] = 64 * x + B(i)
    OBVIOUS
  <1> HIDE DEF g
  <1>5. PICK f \in [0..count -> Nat] : Steps(f, 0, count, 0, g)
    <2>1. 0 \in Nat /\ count \in Nat /\ 0 <= count
      OBVIOUS
    <2> QED BY ONLY <2>1, <1>3, Recursion
  <1>6. f[0] = 0 /\ \A i \in 0..count : i # 0 => f[i] = 64 * f[i - 1] + B(i)
    <2>1. f[0] = 0
      BY <1>5 DEF Steps
    <2>2. ASSUME NEW i \in 0..count, i # 0 PROVE f[i] = 64 * f[i - 1] + B(i)
      <3>1. f[i - 1] \in Nat
        BY <2>2
      <3>2. f[i] = g[i][f[i - 1]]
        BY <1>5, <2>2 DEF Steps
      <3> QED BY <1>4, <3>1, <3>2
    <2> QED BY <2>1, <2>2
  <1>7. Fix(f)
    <2> DEFINE r == [i \in 0..count |-> IF i = 0 THEN 0 ELSE 64 * f[i - 1] + B(i)]
    <2>1. ASSUME NEW i \in 0..count PROVE f[i] = r[i]
      <3>1. r[i] = IF i = 0 THEN 0 ELSE 64 * f[i - 1] + B(i)
        OBVIOUS
      <3> HIDE DEF r
      <3> QED BY ONLY <1>6, <3>1, i \in 0..count
    <2>2. f = [i \in 0..count |-> f[i]] /\ r = [i \in 0..count |-> r[i]]
      OBVIOUS
    <2>3. f = r
      <3> HIDE DEF r
      <3> QED BY <2>1, <2>2
    <2> QED BY <2>3
  <1>8. Fix(c)
    BY <1>7
  <1> HIDE DEF c
  <1>9. c[0] = 0 /\ \A i \in 0..count : i # 0 => c[i] = 64 * c[i - 1] + B(i)
    BY <1>8
  <1>10. \A i \in 0..count : c[i] \in Nat
    <2> DEFINE S == {i \in 0..count : c[i] \in Nat}
    <2>1. 0 \in S
      BY <1>9
    <2>2. ASSUME NEW i \in 0..count, i # 0, i - 1 \in S PROVE i \in S
      <3>1. c[i - 1] \in Nat
        BY <2>2
      <3>2. c[i] = 64 * c[i - 1] + B(i) /\ B(i) \in Nat
        BY <1>2, <1>9, <2>2
      <3>3. c[i] \in Nat
        BY <3>1, <3>2
      <3> QED BY <3>3
    <2> HIDE DEF S
    <2>3. \A i \in 0..count : i \in S
      <3>1. \A i \in 0..count : i # 0 /\ i - 1 \in S => i \in S
        BY <2>2
      <3>2. 0 \in Nat /\ count \in Nat
        OBVIOUS
      <3> QED BY ONLY <2>1, <3>1, <3>2, IntervalInduction
    <2> QED BY <2>3 DEF S
  <1>11. c[count] \in Nat /\ (count = 0 => c[count] = 0)
    BY <1>9, <1>10
  <1>12. count >= 1 => c[1] = B(1)
    <2> SUFFICES ASSUME count >= 1 PROVE c[1] = B(1)
      OBVIOUS
    <2>1. 1 \in 0..count /\ 1 - 1 = 0
      OBVIOUS
    <2> QED BY <1>2, <1>9, <2>1
  <1>13. count >= 2 => c[2] = 64 * B(1) + B(2)
    <2> SUFFICES ASSUME count >= 2 PROVE c[2] = 64 * B(1) + B(2)
      OBVIOUS
    <2>1. 2 \in 0..count /\ 2 - 1 = 1
      OBVIOUS
    <2> QED BY <1>2, <1>9, <1>12, <2>1
  <1>14. count >= 3 => c[3] = 64 * (64 * B(1) + B(2)) + B(3)
    <2> SUFFICES ASSUME count >= 3 PROVE c[3] = 64 * (64 * B(1) + B(2)) + B(3)
      OBVIOUS
    <2>1. 3 \in 0..count /\ 3 - 1 = 2
      OBVIOUS
    <2>2. c[3] = 64 * c[3 - 1] + B(3)
      BY <1>9, <2>1
    <2> QED BY <1>13, <2>1, <2>2
  <1> QED BY <1>1, <1>a, <1>11, <1>12, <1>13, <1>14

(* The first byte without its mark. *)
LEMMA FirstByteIs ==
    ASSUME NEW c \in 128..255
    PROVE  /\ FirstByte(c, 0) = c - 128
           /\ c \in 192..223 => FirstByte(c, 1) = 64 * (c - 192)
           /\ c \in 224..239 => FirstByte(c, 2) = 4096 * (c - 224)
           /\ c \in 240..247 => FirstByte(c, 3) = 262144 * (c - 240)
  <1>0. FirstByte(c, 0) = (c % 128) * 1
    BY DEF FirstByte
  <1>1. FirstByte(c, 1) = ((c * 2) % 128) * 32
    BY DEF FirstByte
  <1>2. FirstByte(c, 2) = ((c * 4) % 128) * 1024
    BY DEF FirstByte
  <1>3. FirstByte(c, 3) = ((c * 8) % 128) * 32768
    BY DEF FirstByte
  <1> QED BY <1>0, <1>1, <1>2, <1>3

(* A row of the table describes the bytes of t from pos on. *)
RowAt(t, L, pos, row) == pos + Len(row) <= L + 1 /\ \A j \in DOMAIN row : t[pos + j - 1] \in row[j]

(* The rows of the table, by the number of their bytes. *)
Two(c) == c \in 194..223
Three(c, b) == \/ c = 224 /\ b \in 160..191
               \/ c \in 225..236 /\ b \in 128..191
               \/ c = 237 /\ b \in 128..159
               \/ c \in 238..239 /\ b \in 128..191
Four(c, b) == \/ c = 240 /\ b \in 144..191
              \/ c \in 241..243 /\ b \in 128..191
              \/ c = 244 /\ b \in 128..143
Shape(t, L, pos, n) ==
    \/ n = 1 /\ t[pos] \in 0..127
    \/ n = 2 /\ pos + 1 <= L /\ Two(t[pos]) /\ t[pos + 1] \in 128..191
    \/ n = 3 /\ pos + 2 <= L /\ Three(t[pos], t[pos + 1]) /\ t[pos + 2] \in 128..191
    \/ n = 4 /\ pos + 3 <= L /\ Four(t[pos], t[pos + 1]) /\ t[pos + 2] \in 128..191 /\ t[pos + 3] \in 128..191

(* A row of one byte, byte by byte. *)
LEMMA RowOf1 ==
    ASSUME NEW t, NEW L \in Nat, NEW pos \in 1..L, NEW A
    PROVE  RowAt(t, L, pos, <<A>>) <=>
             (t[pos] \in A)
  <1> DEFINE r == <<A>>
  <1>1. Len(r) = 1 /\ DOMAIN r = 1..1 /\ r[1] = A
    OBVIOUS
  <1>2. pos + 1 - 1 = pos
    OBVIOUS
  <1>3. pos + 1 <= L + 1 <=> pos + 0 <= L
    OBVIOUS
  <1>4. \A j : j \in 1..1 <=> j \in {1}
    OBVIOUS
  <1> HIDE DEF r
  <1>5. RowAt(t, L, pos, r) <=>
             (t[pos] \in A)
    BY <1>1, <1>2, <1>3, <1>4 DEF RowAt
  <1> QED BY <1>5 DEF r

(* A row of two bytes, byte by byte. *)
LEMMA RowOf2 ==
    ASSUME NEW t, NEW L \in Nat, NEW pos \in 1..L, NEW A, NEW B
    PROVE  RowAt(t, L, pos, <<A, B>>) <=>
             (pos + 1 <= L /\ t[pos] \in A /\ t[pos + 1] \in B)
  <1> DEFINE r == <<A, B>>
  <1>1. Len(r) = 2 /\ DOMAIN r = 1..2 /\ r[1] = A /\ r[2] = B
    OBVIOUS
  <1>2. pos + 1 - 1 = pos /\ pos + 2 - 1 = pos + 1
    OBVIOUS
  <1>3. pos + 2 <= L + 1 <=> pos + 1 <= L
    OBVIOUS
  <1>4. \A j : j \in 1..2 <=> j \in {1, 2}
    OBVIOUS
  <1> HIDE DEF r
  <1>5. RowAt(t, L, pos, r) <=>
             (pos + 1 <= L /\ t[pos] \in A /\ t[pos + 1] \in B)
    BY <1>1, <1>2, <1>3, <1>4 DEF RowAt
  <1> QED BY <1>5 DEF r

(* A row of three bytes, byte by byte. *)
LEMMA RowOf3 ==
    ASSUME NEW t, NEW L \in Nat, NEW pos \in 1..L, NEW A, NEW B, NEW C
    PROVE  RowAt(t, L, pos, <<A, B, C>>) <=>
             (pos + 2 <= L /\ t[pos] \in A /\ t[pos + 1] \in B /\ t[pos + 2] \in C)
  <1> DEFINE r == <<A, B, C>>
  <1>1. Len(r) = 3 /\ DOMAIN r = 1..3 /\ r[1] = A /\ r[2] = B /\ r[3] = C
    OBVIOUS
  <1>2. pos + 1 - 1 = pos /\ pos + 2 - 1 = pos + 1 /\ pos + 3 - 1 = pos + 2
    OBVIOUS
  <1>3. pos + 3 <= L + 1 <=> pos + 2 <= L
    OBVIOUS
  <1>4. \A j : j \in 1..3 <=> j \in {1, 2, 3}
    OBVIOUS
  <1> HIDE DEF r
  <1>5. RowAt(t, L, pos, r) <=>
             (pos + 2 <= L /\ t[pos] \in A /\ t[pos + 1] \in B /\ t[pos + 2] \in C)
    BY <1>1, <1>2, <1>3, <1>4 DEF RowAt
  <1> QED BY <1>5 DEF r

(* A row of four bytes, byte by byte. *)
LEMMA RowOf4 ==
    ASSUME NEW t, NEW L \in Nat, NEW pos \in 1..L, NEW A, NEW B, NEW C, NEW D
    PROVE  RowAt(t, L, pos, <<A, B, C, D>>) <=>
             (pos + 3 <= L /\ t[pos] \in A /\ t[pos + 1] \in B /\ t[pos + 2] \in C /\ t[pos + 3] \in D)
  <1> DEFINE r == <<A, B, C, D>>
  <1>1. Len(r) = 4 /\ DOMAIN r = 1..4 /\ r[1] = A /\ r[2] = B /\ r[3] = C /\ r[4] = D
    OBVIOUS
  <1>2. pos + 1 - 1 = pos /\ pos + 2 - 1 = pos + 1 /\ pos + 3 - 1 = pos + 2 /\ pos + 4 - 1 = pos + 3
    OBVIOUS
  <1>3. pos + 4 <= L + 1 <=> pos + 3 <= L
    OBVIOUS
  <1>4. \A j : j \in 1..4 <=> j \in {1, 2, 3, 4}
    OBVIOUS
  <1> HIDE DEF r
  <1>5. RowAt(t, L, pos, r) <=>
             (pos + 3 <= L /\ t[pos] \in A /\ t[pos + 1] \in B /\ t[pos + 2] \in C /\ t[pos + 3] \in D)
    BY <1>1, <1>2, <1>3, <1>4 DEF RowAt
  <1> QED BY <1>5 DEF r

(* Some row of length n fits exactly if the bytes have that shape. *)
LEMMA RowsAreShapes ==
    ASSUME NEW t, NEW L \in Nat, NEW pos \in 1..L
    PROVE  /\ \A row \in WellFormedBytes : RowAt(t, L, pos, row) => Len(row) \in 1..4 /\ Shape(t, L, pos, Len(row))
           /\ \A n : Shape(t, L, pos, n) => \E row \in WellFormedBytes : RowAt(t, L, pos, row) /\ Len(row) = n
  <1> DEFINE T == 128..191
             r1 == <<0..127>>
             r2 == <<194..223, T>>
             r3 == <<{224}, 160..191, T>>
             r4 == <<225..236, T, T>>
             r5 == <<{237}, 128..159, T>>
             r6 == <<238..239, T, T>>
             r7 == <<{240}, 144..191, T, T>>
             r8 == <<241..243, T, T, T>>
             r9 == <<{244}, 128..143, T, T>>
  <1>1. WellFormedBytes = {r1, r2, r3, r4, r5, r6, r7, r8, r9}
    BY DEF WellFormedBytes
  <1>2. /\ Len(r1) = 1 /\ Len(r2) = 2 /\ Len(r3) = 3 /\ Len(r4) = 3 /\ Len(r5) = 3
        /\ Len(r6) = 3 /\ Len(r7) = 4 /\ Len(r8) = 4 /\ Len(r9) = 4
    <2> HIDE DEF T
    <2> QED OBVIOUS
  <1> DEFINE R1 == RowAt(t, L, pos, r1)
             R2 == RowAt(t, L, pos, r2)
             R3 == RowAt(t, L, pos, r3)
             R4 == RowAt(t, L, pos, r4)
             R5 == RowAt(t, L, pos, r5)
             R6 == RowAt(t, L, pos, r6)
             R7 == RowAt(t, L, pos, r7)
             R8 == RowAt(t, L, pos, r8)
             R9 == RowAt(t, L, pos, r9)
  <1>3. /\ R1 <=> t[pos] \in 0..127
        /\ R2 <=> pos + 1 <= L /\ t[pos] \in 194..223 /\ t[pos + 1] \in T
        /\ R3 <=> pos + 2 <= L /\ t[pos] \in {224} /\ t[pos + 1] \in 160..191 /\ t[pos + 2] \in T
        /\ R4 <=> pos + 2 <= L /\ t[pos] \in 225..236 /\ t[pos + 1] \in T /\ t[pos + 2] \in T
        /\ R5 <=> pos + 2 <= L /\ t[pos] \in {237} /\ t[pos + 1] \in 128..159 /\ t[pos + 2] \in T
        /\ R6 <=> pos + 2 <= L /\ t[pos] \in 238..239 /\ t[pos + 1] \in T /\ t[pos + 2] \in T
        /\ R7 <=> pos + 3 <= L /\ t[pos] \in {240} /\ t[pos + 1] \in 144..191
                    /\ t[pos + 2] \in T /\ t[pos + 3] \in T
        /\ R8 <=> pos + 3 <= L /\ t[pos] \in 241..243 /\ t[pos + 1] \in T
                    /\ t[pos + 2] \in T /\ t[pos + 3] \in T
        /\ R9 <=> pos + 3 <= L /\ t[pos] \in {244} /\ t[pos + 1] \in 128..143
                    /\ t[pos + 2] \in T /\ t[pos + 3] \in T
    <2> HIDE DEF T
    <2>1. R1 <=> t[pos] \in 0..127
      BY RowOf1
    <2>2. R2 <=> pos + 1 <= L /\ t[pos] \in 194..223 /\ t[pos + 1] \in T
      BY RowOf2
    <2>3. R3 <=> pos + 2 <= L /\ t[pos] \in {224} /\ t[pos + 1] \in 160..191 /\ t[pos + 2] \in T
      BY RowOf3
    <2>4. R4 <=> pos + 2 <= L /\ t[pos] \in 225..236 /\ t[pos + 1] \in T /\ t[pos + 2] \in T
      BY RowOf3
    <2>5. R5 <=> pos + 2 <= L /\ t[pos] \in {237} /\ t[pos + 1] \in 128..159 /\ t[pos + 2] \in T
      BY RowOf3
    <2>6. R6 <=> pos + 2 <= L /\ t[pos] \in 238..239 /\ t[pos + 1] \in T /\ t[pos + 2] \in T
      BY RowOf3
    <2>7. R7 <=> pos + 3 <= L /\ t[pos] \in {240} /\ t[pos + 1] \in 144..191
                    /\ t[pos + 2] \in T /\ t[pos + 3] \in T
      BY RowOf4
    <2>8. R8 <=> pos + 3 <= L /\ t[pos] \in 241..243 /\ t[pos + 1] \in T
                    /\ t[pos + 2] \in T /\ t[pos + 3] \in T
      BY RowOf4
    <2>9. R9 <=> pos + 3 <= L /\ t[pos] \in {244} /\ t[pos + 1] \in 128..143
                    /\ t[pos + 2] \in T /\ t[pos + 3] \in T
      BY RowOf4
    <2> QED BY ONLY <2>1, <2>2, <2>3, <2>4, <2>5, <2>6, <2>7, <2>8, <2>9
  <1>4. /\ R1 <=> Shape(t, L, pos, 1)
        /\ R2 <=> Shape(t, L, pos, 2)
        /\ (R3 \/ R4 \/ R5 \/ R6) <=> Shape(t, L, pos, 3)
        /\ (R7 \/ R8 \/ R9) <=> Shape(t, L, pos, 4)
    <2> HIDE DEF R1, R2, R3, R4, R5, R6, R7, R8, R9
    <2>1. R1 <=> Shape(t, L, pos, 1)
      BY ONLY <1>3 DEF Shape
    <2>2. R2 <=> Shape(t, L, pos, 2)
      BY ONLY <1>3 DEF Shape, Two
    <2>3. (R3 \/ R4 \/ R5 \/ R6) <=> Shape(t, L, pos, 3)
      <3>1. Shape(t, L, pos, 3) <=> pos + 2 <= L /\ Three(t[pos], t[pos + 1]) /\ t[pos + 2] \in T
        BY ONLY TRUE DEF Shape
      <3> DEFINE x == t[pos]
                 y == t[pos + 1]
      <3>2. Three(x, y) <=> \/ x \in {224} /\ y \in 160..191
                            \/ x \in 225..236 /\ y \in T
                            \/ x \in {237} /\ y \in 128..159
                            \/ x \in 238..239 /\ y \in T
        <4> HIDE DEF x, y
        <4> QED BY ONLY TRUE DEF Three
      <3> HIDE DEF T
      <3> DEFINE P == pos + 2 <= L
                 Q == t[pos + 2] \in T
      <3>3. /\ R3 <=> P /\ x \in {224} /\ y \in 160..191 /\ Q
            /\ R4 <=> P /\ x \in 225..236 /\ y \in T /\ Q
            /\ R5 <=> P /\ x \in {237} /\ y \in 128..159 /\ Q
            /\ R6 <=> P /\ x \in 238..239 /\ y \in T /\ Q
        BY ONLY <1>3
      <3>4. Shape(t, L, pos, 3) <=> P /\ Three(x, y) /\ Q
        BY ONLY <3>1
      <3> HIDE DEF P, Q, x, y
      <3> QED BY ONLY <3>2, <3>3, <3>4
    <2>4. (R7 \/ R8 \/ R9) <=> Shape(t, L, pos, 4)
      BY ONLY <1>3 DEF Shape, Four
    <2> QED BY ONLY <2>1, <2>2, <2>3, <2>4
  <1> HIDE DEF r1, r2, r3, r4, r5, r6, r7, r8, r9
  <1>5. ASSUME NEW row \in WellFormedBytes, RowAt(t, L, pos, row)
        PROVE  Len(row) \in 1..4 /\ Shape(t, L, pos, Len(row))
    <2>1. Len(row) \in {1, 2, 3, 4} /\ Shape(t, L, pos, Len(row))
      <3>1. \/ row = r1 \/ row = r2 \/ row = r3 \/ row = r4 \/ row = r5
            \/ row = r6 \/ row = r7 \/ row = r8 \/ row = r9
        BY ONLY <1>1, row \in WellFormedBytes
      <3> QED BY ONLY <1>2, <1>4, <1>5, <3>1
    <2> QED BY <2>1
  <1>6. ASSUME NEW n, Shape(t, L, pos, n)
        PROVE  \E row \in WellFormedBytes : RowAt(t, L, pos, row) /\ Len(row) = n
    <2>1. n \in {1, 2, 3, 4}
      BY <1>6 DEF Shape
    <2> QED BY <1>1, <1>2, <1>4, <1>6, <2>1
  <1> QED BY <1>5, <1>6

(* What is known of one call of utf8_decode. *)
DecodeOK(t, L, pos) ==
    LET d == utf8_decode(t, pos) IN
    /\ d.read <= L
    /\ d.next \in Nat
    /\ \A n \in 1..4 : Shape(t, L, pos, n) => d.next = pos + n
    /\ d.next # 0 => \E n \in 1..4 : Shape(t, L, pos, n) /\ d.next = pos + n

(* utf8_decode accepts exactly the sequences of the table, and moves behind *)
(* them; it reads no further than the terminator (encodings.c:177-213).     *)
LEMMA DecodeIs ==
    ASSUME NEW t, NEW L \in Nat, \A i \in Nat : Byte(t, i) = IF i <= L THEN t[i] ELSE 128,
           \A i \in 1..L : t[i] \in 0..255, t[L] = 0, NEW pos \in 1..L
    PROVE  DecodeOK(t, L, pos)
  <1>0. L \in Nat /\ (\A i \in 1..L : t[i] \in 0..255)
    OBVIOUS
  <1>1. \A i \in Nat \ {0} : Byte(t, i) = (IF i <= L THEN t[i] ELSE 128) /\ Byte(t, i) \in 0..255
    BY <1>0, SMT
  <1> DEFINE c == t[pos]
             count == Continuations(c)
             wrong == {i \in 1..count : ~IsContinuation(Byte(t, pos + i))}
             val == Sextets(t, pos, count) + FirstByte(c, count)
             d == utf8_decode(t, pos)
  <1>2. c \in 0..255 /\ Byte(t, pos) = c
    BY <1>0, <1>1, SMT
  <1> DEFINE bad == count > 3 \/ val > 1114111 \/ val <= limits[count + 1] \/ (55296 <= val /\ val <= 57343)
  <1>3. d = IF c < 128 THEN [next |-> pos + 1, read |-> pos]
            ELSE IF wrong # {} THEN [next |-> 0, read |-> pos + Min(wrong)]
            ELSE [next |-> IF bad THEN 0 ELSE pos + count + 1, read |-> pos + count]
    BY <1>2, SMT DEF utf8_decode
  <1>4. DecodeOK(t, L, pos) <=>
          /\ d.read <= L
          /\ d.next \in Nat
          /\ \A n \in 1..4 : Shape(t, L, pos, n) => d.next = pos + n
          /\ d.next # 0 => \E n \in 1..4 : Shape(t, L, pos, n) /\ d.next = pos + n
    BY SMT DEF DecodeOK
  <1> HIDE DEF d
  <1>5. CASE c < 128
    <2>1. d.next = pos + 1 /\ d.read = pos
      BY <1>3, <1>5, SMT
    <2>2. Shape(t, L, pos, 1)
      BY <1>2, <1>5, SMT DEF Shape
    <2>3. \A n \in 1..4 : Shape(t, L, pos, n) => n = 1
      BY <1>2, <1>5, SMT DEF Shape, Two, Three, Four
    <2> QED BY <1>0, <1>4, <2>1, <2>2, <2>3, SMT
  <1>6. CASE c >= 128
    <2>0. c \in 128..255 /\ pos # L /\ pos < L
      <3>1. pos # L
        BY <1>6, SMT
      <3> QED BY <1>2, <1>6, <3>1, <1>0, SMT
    <2>1. count \in Nat
      BY <2>0, Counts, SMT
    <2> HIDE DEF c, count
    <2>2. \A i \in 1..count : IsContinuation(Byte(t, pos + i)) <=> Byte(t, pos + i) \in 128..191
      <3>1. \A b \in 0..255 : IsContinuation(b) <=> b \in 128..191
        BY SMT DEF IsContinuation
      <3>2. \A i \in 1..count : Byte(t, pos + i) \in 0..255
        BY <1>1, <2>1, SMT
      <3> SUFFICES ASSUME NEW i \in 1..count
                   PROVE  IsContinuation(Byte(t, pos + i)) <=> Byte(t, pos + i) \in 128..191
        OBVIOUS
      <3> DEFINE b == Byte(t, pos + i)
      <3>3. b \in 0..255
        BY <3>2
      <3> HIDE DEF b
      <3>4. IsContinuation(b) <=> b \in 128..191
        BY <3>3, SMT DEF IsContinuation
      <3> QED BY <3>4 DEF b
    <2>3. L - pos \in Nat \ {0} /\ (L - pos \in 1..count => L - pos \in wrong)
      <3>1. pos + (L - pos) = L /\ L - pos \in Nat \ {0}
        BY <2>0, <1>0, SMT
      <3>2. Byte(t, pos + (L - pos)) = 0
        BY <1>0, <1>1, <3>1, SMT
      <3> QED BY <2>2, <3>1, <3>2, SMT
    <2>4. CASE wrong # {}
      <3>1. d.next = 0 /\ d.read = pos + Min(wrong)
        <4>1. ~(c < 128) /\ c >= 128
          BY <2>0, SMT
        <4>2. d = [next |-> 0, read |-> pos + Min(wrong)]
          BY <1>3, <4>1, <2>4, SMT DEF c, count
        <4> HIDE DEF wrong
        <4> QED BY <4>2, SMT
      <3>2. Min(wrong) \in wrong /\ \A y \in wrong : Min(wrong) <= y
        <4>1. wrong \in SUBSET Nat
          OBVIOUS
        <4> HIDE DEF wrong
        <4> QED BY <4>1, <2>4, MinFacts, SMT
      <3>3. PICK m \in 1..count : m = Min(wrong) /\ ~(Byte(t, pos + m) \in 128..191)
        <4>1. Min(wrong) \in 1..count /\ ~IsContinuation(Byte(t, pos + Min(wrong)))
          BY <3>2
        <4> HIDE DEF wrong
        <4> QED BY <2>2, <4>1
      <3>4. pos + m <= L
        <4>1. L - pos \in 1..count => m <= L - pos
          BY <2>3, <3>2, <3>3, SMT
        <4> HIDE DEF wrong
        <4> QED BY <1>0, <2>0, <2>1, <2>3, <4>1, SMT
      <3>5. \A n \in 1..4 : ~Shape(t, L, pos, n)
        <4>1. t[pos + m] \notin 128..191 /\ m \in 1..count /\ m \in Nat
          <5>1. Byte(t, pos + m) = t[pos + m]
            BY <1>1, <3>4, SMT
          <5> QED BY <3>3, <5>1, SMT
        <4> SUFFICES ASSUME NEW n \in 1..4, Shape(t, L, pos, n) PROVE FALSE
          OBVIOUS
        <4>2. CASE n = 1
          <5>1. c \in 0..127
            BY <4>2, SMT DEF Shape, c
          <5> QED BY <5>1, <2>0, SMT
        <4>3. CASE n = 2
          <5>1. c \in 192..223 /\ t[pos + 1] \in 128..191
            BY <4>3, SMT DEF Shape, Two, c
          <5>2. count = 1
            BY <2>0, <5>1, Counts, SMT DEF count
          <5>3. m = 1
            BY <5>2, <4>1, SMT
          <5> QED BY <5>1, <5>3, <4>1, SMT
        <4>4. CASE n = 3
          <5>1. c \in 224..239 /\ t[pos + 1] \in 128..191 /\ t[pos + 2] \in 128..191
            BY <4>4, SMT DEF Shape, Three, c
          <5>2. count = 2
            BY <2>0, <5>1, Counts, SMT DEF count
          <5>3. m = 1 \/ m = 2
            BY <5>2, <4>1, SMT
          <5> QED BY <5>1, <5>3, <4>1, SMT
        <4>5. CASE n = 4
          <5>1. c \in 240..247 /\ t[pos + 1] \in 128..191 /\ t[pos + 2] \in 128..191 /\ t[pos + 3] \in 128..191
            BY <4>5, SMT DEF Shape, Four, c
          <5>2. count = 3
            BY <2>0, <5>1, Counts, SMT DEF count
          <5>3. m = 1 \/ m = 2 \/ m = 3
            BY <5>2, <4>1, SMT
          <5> QED BY <5>1, <5>3, <4>1, SMT
        <4> QED BY <4>2, <4>3, <4>4, <4>5, SMT
      <3> QED BY <1>0, <1>4, <3>1, <3>3, <3>4, <3>5, SMT
    <2>5. CASE wrong = {}
      <3>1. \A i \in 1..count : Byte(t, pos + i) \in 128..191
        BY <2>2, <2>5, SMT
      <3>2. pos + count <= L
        <4>1. L - pos \notin 1..count
          BY <2>3, <2>5, SMT
        <4> HIDE DEF wrong
        <4> QED BY <1>0, <2>0, <2>1, <2>3, <4>1, SMT
      <3>3. \A i \in 1..count : t[pos + i] \in 128..191 /\ t[pos + i] = Byte(t, pos + i)
        BY <1>0, <1>1, <2>1, <3>1, <3>2, SMT
      <3>4. d.read = pos + count
        <4>1. ~(c < 128)
          BY <2>0, SMT
        <4>2. d = [next |-> IF bad THEN 0 ELSE pos + count + 1, read |-> pos + count]
          BY <1>3, <4>1, <2>5, SMT DEF c, count
        <4> HIDE DEF bad
        <4> QED BY <4>2, SMT
      <3>5. d.next = IF count > 3 \/ val > 1114111 \/ val <= limits[count + 1]
                                   \/ (55296 <= val /\ val <= 57343)
                     THEN 0 ELSE pos + count + 1
        <4>1. ~(c < 128)
          BY <2>0, SMT
        <4>2. d = [next |-> IF bad THEN 0 ELSE pos + count + 1, read |-> pos + count]
          BY <1>3, <4>1, <2>5, SMT DEF c, count
        <4> QED BY <4>2, SMT
      <3>6. \A n \in 1..4 : Shape(t, L, pos, n) => n = count + 1
        <4> SUFFICES ASSUME NEW n \in 1..4, Shape(t, L, pos, n) PROVE n = count + 1
          OBVIOUS
        <4>1. n # 1
          <5>1. n = 1 => c \in 0..127
            BY SMT DEF Shape, c
          <5> QED BY <5>1, <2>0, SMT
        <4>2. n = 2 => c \in 192..223
          BY SMT DEF Shape, Two, c
        <4>3. n = 3 => c \in 224..239
          BY SMT DEF Shape, Three, c
        <4>4. n = 4 => c \in 240..247
          BY SMT DEF Shape, Four, c
        <4>5. n = 2 \/ n = 3 \/ n = 4
          BY <4>1, SMT
        <4>6. n = 2 => count = 1
          BY <4>2, <2>0, Counts, SMT DEF count
        <4>7. n = 3 => count = 2
          BY <4>3, <2>0, Counts, SMT DEF count
        <4>8. n = 4 => count = 3
          BY <4>4, <2>0, Counts, SMT DEF count
        <4> QED BY <4>5, <4>6, <4>7, <4>8, SMT
      <3>7. /\ d.next \in {0, pos + count + 1}
            /\ d.next # 0 => count + 1 \in 1..4 /\ Shape(t, L, pos, count + 1)
            /\ count + 1 \in 1..4 /\ Shape(t, L, pos, count + 1) => d.next # 0
        <4>0. \A i \in 0..count : Byte(t, pos + i) \in Nat
          BY <1>1, <2>1, SMTT(20)
        <4>a. pos \in Nat /\ count \in Nat
          BY <1>0, <2>1, SMT
        <4> DEFINE S == Sextets(t, pos, count)
        <4>b. /\ S \in Nat
              /\ count = 0 => S = 0
              /\ count = 1 => S = Byte(t, pos + 1) % 64
              /\ count = 2 => S = 64 * (Byte(t, pos + 1) % 64) + (Byte(t, pos + 2) % 64)
              /\ count = 3 => S =
                   64 * (64 * (Byte(t, pos + 1) % 64) + (Byte(t, pos + 2) % 64)) + (Byte(t, pos + 3) % 64)
          BY ONLY <4>0, <4>a, SextetsAre, ZenonT(40)
        <4> HIDE DEF S
        <4>1. CASE c \in 128..191
          <5>1. count = 0
            BY <2>0, <4>1, Counts, SMT DEF count
          <5>2. FirstByte(c, 0) = c - 128
            BY <2>0, FirstByteIs, SMT
          <5>3. Sextets(t, pos, 0) = 0
            <6>1. S = 0
              BY ONLY <4>b, <5>1, SMT
            <6> QED BY <5>1, <6>1 DEF S
          <5>4. val <= 63 /\ val \in Nat
            BY <4>1, <5>1, <5>2, <5>3, SMT
          <5>5. limits[count + 1] = 255
            BY <5>1, SMT DEF limits
          <5>6. d.next = 0
            <6> HIDE DEF val
            <6> QED BY <3>5, <5>4, <5>5, SMT
          <5>7. ~Shape(t, L, pos, count + 1)
            <6>1. count + 1 = 1
              BY <5>1, SMT
            <6>2. Shape(t, L, pos, count + 1) => c \in 0..127
              BY <6>1, SMT DEF Shape, c
            <6> QED BY <6>2, <2>0, SMT
          <5> QED BY <5>6, <5>7, SMT
        <4>2. CASE c \in 192..223
          <5>1. count = 1
            BY <2>0, <4>2, Counts, SMT DEF count
          <5>2. FirstByte(c, 1) = 64 * (c - 192)
            BY <2>0, <4>2, FirstByteIs, SMT
          <5> DEFINE b == t[pos + 1]
          <5>3. b \in 128..191 /\ Byte(t, pos + 1) = b
            BY <3>3, <5>1, SMT
          <5>4. S = b % 64
            BY ONLY <4>b, <5>1, <5>3, SMT
          <5> HIDE DEF S, b
          <5>5. val = (b % 64) + 64 * (c - 192)
            BY <5>1, <5>2, <5>4, SMT DEF S
          <5>6. limits[count + 1] = 127
            BY <5>1, SMT DEF limits
          <5> HIDE DEF val
          <5>7. ~(val > 1114111 \/ val <= 127 \/ (55296 <= val /\ val <= 57343)) <=> Two(c)
            BY ONLY <4>2, <5>3, <5>5, SMT DEF Two
          <5>8. d.next = IF Two(c) THEN pos + count + 1 ELSE 0
            BY <3>5, <5>1, <5>6, <5>7, SMT
          <5>9. Shape(t, L, pos, count + 1) <=> Two(c)
            <6>1. pos + 1 <= L /\ t[pos + 1] \in 128..191
              BY <3>2, <5>1, <5>3, SMT DEF b
            <6>2. count + 1 = 2
              BY <5>1, SMT
            <6> QED BY <6>1, <6>2, SMT DEF Shape, c
          <5>10. pos + count + 1 # 0 /\ count + 1 \in 1..4
            BY <5>1, <1>0, SMT
          <5> QED BY ONLY <5>8, <5>9, <5>10, SMT
        <4>3. CASE c \in 224..239
          <5>1. count = 2
            BY <2>0, <4>3, Counts, SMT DEF count
          <5>2. FirstByte(c, 2) = 4096 * (c - 224)
            BY <2>0, <4>3, FirstByteIs, SMT
          <5> DEFINE b == t[pos + 1]
                     b2 == t[pos + 2]
          <5>3. b \in 128..191 /\ Byte(t, pos + 1) = b /\ b2 \in 128..191 /\ Byte(t, pos + 2) = b2
            BY <3>3, <5>1, SMT
          <5>4. S = 64 * (b % 64) + (b2 % 64)
            BY ONLY <4>b, <5>1, <5>3, SMT
          <5> HIDE DEF S, b, b2
          <5>5. val = (64 * (b % 64) + (b2 % 64)) + 4096 * (c - 224)
            BY <5>1, <5>2, <5>4, SMT DEF S
          <5>6. limits[count + 1] = 2047
            BY <5>1, SMT DEF limits
          <5> HIDE DEF val
          <5>7. ~(val > 1114111 \/ val <= 2047 \/ (55296 <= val /\ val <= 57343)) <=> Three(c, b)
            <6>1. b % 64 = b - 128 /\ b2 % 64 = b2 - 128
              BY ONLY <5>3, SMT
            <6>2. val = (64 * (b - 128) + (b2 - 128)) + 4096 * (c - 224)
              BY ONLY <5>5, <6>1, SMT
            <6> QED BY ONLY <4>3, <5>3, <6>2, SMT DEF Three
          <5>8. d.next = IF Three(c, b) THEN pos + count + 1 ELSE 0
            BY <3>5, <5>1, <5>6, <5>7, SMT
          <5>9. Shape(t, L, pos, count + 1) <=> Three(c, b)
            <6>1. pos + 2 <= L /\ t[pos + 2] \in 128..191
              BY <3>2, <5>1, <5>3, SMT DEF b2
            <6>2. count + 1 = 3
              BY <5>1, SMT
            <6> QED BY <6>1, <6>2, SMT DEF Shape, c, b
          <5>10. pos + count + 1 # 0 /\ count + 1 \in 1..4
            BY <5>1, <1>0, SMT
          <5> QED BY ONLY <5>8, <5>9, <5>10, SMT
        <4>4. CASE c \in 240..247
          <5>1. count = 3
            BY <2>0, <4>4, Counts, SMT DEF count
          <5>2. FirstByte(c, 3) = 262144 * (c - 240)
            BY <2>0, <4>4, FirstByteIs, SMT
          <5> DEFINE b == t[pos + 1]
                     b2 == t[pos + 2]
                     b3 == t[pos + 3]
          <5>3. /\ b \in 128..191 /\ Byte(t, pos + 1) = b /\ b2 \in 128..191 /\ Byte(t, pos + 2) = b2
                /\ b3 \in 128..191 /\ Byte(t, pos + 3) = b3
            BY <3>3, <5>1, SMT
          <5>4. S = 64 * (64 * (b % 64) + (b2 % 64)) + (b3 % 64)
            BY ONLY <4>b, <5>1, <5>3, SMT
          <5> HIDE DEF S, b, b2, b3
          <5>5. val = (64 * (64 * (b % 64) + (b2 % 64)) + (b3 % 64)) + 262144 * (c - 240)
            BY <5>1, <5>2, <5>4, SMT DEF S
          <5>6. limits[count + 1] = 65535
            BY <5>1, SMT DEF limits
          <5> HIDE DEF val
          <5>7. ~(val > 1114111 \/ val <= 65535 \/ (55296 <= val /\ val <= 57343)) <=> Four(c, b)
            <6>1. b % 64 = b - 128 /\ b2 % 64 = b2 - 128 /\ b3 % 64 = b3 - 128
              BY ONLY <5>3, SMT
            <6>2. val = (64 * (64 * (b - 128) + (b2 - 128)) + (b3 - 128)) + 262144 * (c - 240)
              BY ONLY <5>5, <6>1, SMT
            <6> QED BY ONLY <4>4, <5>3, <6>2, SMT DEF Four
          <5>8. d.next = IF Four(c, b) THEN pos + count + 1 ELSE 0
            BY <3>5, <5>1, <5>6, <5>7, SMT
          <5>9. Shape(t, L, pos, count + 1) <=> Four(c, b)
            <6>1. pos + 3 <= L /\ t[pos + 2] \in 128..191 /\ t[pos + 3] \in 128..191
              BY <3>2, <5>1, <5>3, SMT DEF b2, b3
            <6>2. count + 1 = 4
              BY <5>1, SMT
            <6> QED BY <6>1, <6>2, SMT DEF Shape, c, b
          <5>10. pos + count + 1 # 0 /\ count + 1 \in 1..4
            BY <5>1, <1>0, SMT
          <5> QED BY ONLY <5>8, <5>9, <5>10, SMT
        <4>5. CASE c \in 248..255
          <5>1. count > 3
            BY <2>0, <4>5, Counts, SMT DEF count
          <5>2. d.next = 0
            BY <3>5, <5>1, SMT
          <5>3. count + 1 \notin 1..4
            BY <5>1, <2>1, SMT
          <5> QED BY <5>2, <5>3, SMT
        <4> QED BY <2>0, <4>1, <4>2, <4>3, <4>4, <4>5, SMT
      <3>8. d.next \in Nat /\ pos + (count + 1) = pos + count + 1
        BY <1>0, <2>1, <3>7, SMT
      <3>9. \A n \in 1..4 : Shape(t, L, pos, n) => d.next = pos + n
        BY <3>6, <3>7, <3>8, SMT
      <3>10. d.next # 0 => \E n \in 1..4 : Shape(t, L, pos, n) /\ d.next = pos + n
        BY <3>7, <3>8, SMT
      <3> QED BY <1>4, <3>2, <3>4, <3>8, <3>9, <3>10, SMT
    <2> QED BY <2>4, <2>5, SMT
  <1> QED BY <1>2, <1>5, <1>6, SMT

(* R is what leads to B along the relation E. *)
LeadsTo(R, D, B, E) == \A i \in D : i \in R <=> (i \in B \/ \E j \in R : <<i, j>> \in E)

(* What leads to a set along a relation satisfies the equation that a       *)
(* recursive definition of it would have.                                   *)
LEMMA Reachable ==
    ASSUME NEW D, NEW B, NEW E
    PROVE  \E R \in SUBSET D : LeadsTo(R, D, B, E)
  <1> DEFINE Closed(X) == \A i \in D : (i \in B \/ \E j \in X : <<i, j>> \in E) => i \in X
             R == {i \in D : \A X \in SUBSET D : Closed(X) => i \in X}
             Y == {i \in D : i \in B \/ \E j \in R : <<i, j>> \in E}
  <1>1. R \in SUBSET D /\ Y \in SUBSET D
    OBVIOUS
  <1>2. Closed(R)
    <2> SUFFICES ASSUME NEW i \in D, i \in B \/ \E j \in R : <<i, j>> \in E,
                        NEW X \in SUBSET D, Closed(X)
                 PROVE  i \in X
      OBVIOUS
    <2>1. R \subseteq X
      OBVIOUS
    <2> HIDE DEF R
    <2> QED BY <2>1
  <1>3. Y \subseteq R
    <2> HIDE DEF R
    <2> QED BY <1>2
  <1>4. Closed(Y)
    <2> HIDE DEF R
    <2> QED BY <1>3
  <1>5. R \subseteq Y
    <2>1. ASSUME NEW i \in R PROVE i \in Y
      <3> HIDE DEF Y
      <3> QED BY <1>1, <1>4
    <2> QED BY <2>1
  <1>6. \A i \in D : i \in R <=> (i \in B \/ \E j \in R : <<i, j>> \in E)
    <2> HIDE DEF R
    <2> QED BY <1>3, <1>5
  <1> HIDE DEF R
  <1> QED BY <1>1, <1>6 DEF LeadsTo

(* A string and the same string with its NUL have the same shapes. *)
LEMMA SameShapes ==
    ASSUME NEW s, NEW t, NEW M \in Nat, \A i \in 1..M : t[i] = s[i], t[M + 1] = 0,
           NEW i \in 1..M, NEW n \in 1..4
    PROVE  /\ Shape(s, M, i, n) <=> Shape(t, M + 1, i, n)
           /\ Shape(s, M, i, n) => i + n <= M + 1
  <1>0. i \in Nat /\ t[i] = s[i]
    OBVIOUS
  <1>1. \A k \in 1..3 : i + k <= M + 1 /\ t[i + k] \in 128..191 => i + k <= M /\ t[i + k] = s[i + k]
    <2> SUFFICES ASSUME NEW k \in 1..3, i + k <= M + 1, t[i + k] \in 128..191
                 PROVE  i + k <= M /\ t[i + k] = s[i + k]
      OBVIOUS
    <2>1. i + k # M + 1
      OBVIOUS
    <2>2. i + k \in 1..M
      BY <2>1
    <2> QED BY <2>2
  <1>2. \A k \in 1..3 : i + k <= M => i + k <= M + 1 /\ t[i + k] = s[i + k]
    <2> SUFFICES ASSUME NEW k \in 1..3, i + k <= M
                 PROVE  i + k <= M + 1 /\ t[i + k] = s[i + k]
      OBVIOUS
    <2>2. i + k \in 1..M
      OBVIOUS
    <2> QED BY <2>2
  <1>3. \A c, b : (Three(c, b) \/ Four(c, b)) => b \in 128..191
    BY DEF Three, Four
  <1>4. CASE n = 1
    BY <1>0, <1>4 DEF Shape
  <1>5. CASE n = 2
    <2>1. Shape(s, M, i, 2) <=> i + 1 <= M /\ Two(s[i]) /\ s[i + 1] \in 128..191
      BY DEF Shape
    <2>2. Shape(t, M + 1, i, 2) <=> i + 1 <= M + 1 /\ Two(t[i]) /\ t[i + 1] \in 128..191
      BY DEF Shape
    <2> QED BY <1>0, <1>1, <1>2, <2>1, <2>2, <1>5
  <1>6. CASE n = 3
    <2>1. Shape(s, M, i, 3) <=> i + 2 <= M /\ Three(s[i], s[i + 1]) /\ s[i + 2] \in 128..191
      BY DEF Shape
    <2>2. Shape(t, M + 1, i, 3) <=> i + 2 <= M + 1 /\ Three(t[i], t[i + 1]) /\ t[i + 2] \in 128..191
      BY DEF Shape
    <2>3. i + 2 <= M => i + 1 <= M
      OBVIOUS
    <2>4. i + 2 <= M + 1 => i + 1 <= M + 1
      OBVIOUS
    <2>5. 1 \in 1..3 /\ 2 \in 1..3
      OBVIOUS
    <2>6. Shape(s, M, i, n) <=> Shape(t, M + 1, i, n)
      BY ONLY <1>0, <1>1, <1>2, <1>3, <2>1, <2>2, <2>3, <2>4, <2>5, <1>6
    <2>7. Shape(s, M, i, n) => i + n <= M + 1
      BY ONLY <1>0, <2>1, <1>6, M \in Nat
    <2> QED BY <2>6, <2>7
  <1>7. CASE n = 4
    <2>1. Shape(s, M, i, 4) <=> i + 3 <= M /\ Four(s[i], s[i + 1]) /\ s[i + 2] \in 128..191 /\ s[i + 3] \in 128..191
      BY DEF Shape
    <2>2. Shape(t, M + 1, i, 4) <=>
            i + 3 <= M + 1 /\ Four(t[i], t[i + 1]) /\ t[i + 2] \in 128..191 /\ t[i + 3] \in 128..191
      BY DEF Shape
    <2>3. i + 3 <= M => i + 1 <= M /\ i + 2 <= M
      OBVIOUS
    <2>4. i + 3 <= M + 1 => i + 1 <= M + 1 /\ i + 2 <= M + 1
      OBVIOUS
    <2>5. 1 \in 1..3 /\ 2 \in 1..3 /\ 3 \in 1..3
      OBVIOUS
    <2>6. Shape(s, M, i, n) <=> Shape(t, M + 1, i, n)
      BY ONLY <1>0, <1>1, <1>2, <1>3, <2>1, <2>2, <2>3, <2>4, <2>5, <1>7
    <2>7. Shape(s, M, i, n) => i + n <= M + 1
      BY ONLY <1>0, <2>1, <1>7, M \in Nat
    <2> QED BY <2>6, <2>7
  <1> QED BY <1>4, <1>5, <1>6, <1>7

(* f is defined by B and by what it is where E leads. *)
BoolFix(f, D, B, E) == \A i \in D : f[i] <=> (i \in B \/ \E j \in D : <<i, j>> \in E /\ f[j])

(* A function of positions that is defined by what follows each.            *)
LEMMA BoolRecursion ==
    ASSUME NEW D, NEW B, NEW E
    PROVE  \E f \in [D -> BOOLEAN] : BoolFix(f, D, B, E)
  <1>0. PICK R \in SUBSET D : LeadsTo(R, D, B, E)
    BY Reachable
  <1>1. \A i \in D : i \in R <=> (i \in B \/ \E j \in R : <<i, j>> \in E)
    BY <1>0 DEF LeadsTo
  <1> DEFINE f == [i \in D |-> IF i \in R THEN TRUE ELSE FALSE]
  <1>2. f \in [D -> BOOLEAN] /\ \A i \in D : f[i] <=> i \in R
    <2>2. f \in [D -> BOOLEAN]
      OBVIOUS
    <2>3. \A i \in D : f[i] <=> i \in R
      BY Zenon
    <2> QED BY <2>2, <2>3
  <1> HIDE DEF f
  <1>3. \A i \in D : f[i] <=> (i \in B \/ \E j \in D : <<i, j>> \in E /\ f[j])
    BY <1>1, <1>2
  <1> QED BY <1>2, <1>3 DEF BoolFix

(* Two such functions on the positions of a string agree if they agree at   *)
(* its end and each asks the same positions further on.                     *)
LEMMA Agree ==
    ASSUME NEW L \in Nat \ {0}, NEW v, NEW w, v[L] <=> w[L],
           \A i \in 1..L : i # L /\ (\A j \in 1..L : i < j => (v[j] <=> w[j])) => (v[i] <=> w[i])
    PROVE  v[1] <=> w[1]
  <1> DEFINE S == {k \in 0..L - 1 : ~(v[L - k] <=> w[L - k])}
  <1>1. CASE S = {}
    <2>1. L - 1 \in 0..L - 1 /\ L - (L - 1) = 1
      OBVIOUS
    <2>2. L - 1 \notin S
      BY <1>1
    <2> QED BY <2>1, <2>2
  <1>2. CASE S # {}
    <2>1. S \in SUBSET Nat
      OBVIOUS
    <2>2. Min(S) \in S /\ \A y \in S : Min(S) <= y
      <3> HIDE DEF S
      <3> QED BY <1>2, <2>1, MinFacts
    <2>3. PICK k \in S : \A y \in S : k <= y
      BY <2>2
    <2>4. k \in 0..L - 1 /\ ~(v[L - k] <=> w[L - k])
      BY <2>3
    <2>5. L - k \in 1..L
      BY <2>4
    <2>6. L - k # L
      BY <2>4
    <2>7. ASSUME NEW j \in 1..L, L - k < j PROVE v[j] <=> w[j]
      <3>1. L - j \in 0..L - 1 /\ L - (L - j) = j /\ ~(k <= L - j)
        BY <2>4, <2>7
      <3>2. L - j \notin S
        BY <2>3, <3>1
      <3> QED BY <3>1, <3>2
    <2> QED BY <2>4, <2>5, <2>6, <2>7
  <1> QED BY <1>1, <1>2

(* Equivalent truth values are equal. *)
LEMMA SameTruth ==
    ASSUME NEW a \in BOOLEAN, NEW b \in BOOLEAN, a <=> b
    PROVE  a = b
  OBVIOUS

(* The loop of check_utf8, as an equation. *)
LEMMA ValidIs ==
    ASSUME NEW t, NEW L \in Nat \ {0}, Len(t) = L, \A pos \in 1..L : DecodeOK(t, L, pos),
           NEW v, v = CHOOSE f : f = [pos \in 1..Len(t) + 4 |->
              \/ pos > Len(t)
              \/ LET d == utf8_decode(t, pos) IN d.next # 0 /\ f[d.next]]
    PROVE  /\ v[L + 1]
           /\ \A pos \in 1..L : v[pos] <=> utf8_decode(t, pos).next # 0 /\ v[utf8_decode(t, pos).next]
  <1> DEFINE N(pos) == utf8_decode(t, pos).next
             D == 1..L + 4
             Is(K, f) == f = [pos \in 1..K + 4 |-> pos > K \/ (N(pos) # 0 /\ f[N(pos)])]
             Fix(f) == Is(L, f)
             B == L + 1..L + 4
             E == {e \in (1..L) \X D : e[2] = N(e[1])}
  <1>1. v = CHOOSE f : Is(Len(t), f)
    BY Zenon
  <1>2. \A pos \in 1..L : N(pos) \in Nat /\ (N(pos) # 0 => N(pos) \in D)
    <2> TAKE pos \in 1..L
    <2>1. N(pos) \in Nat /\ (N(pos) # 0 => \E n \in 1..4 : N(pos) = pos + n)
      BY DEF DecodeOK
    <2> HIDE DEF N
    <2> QED BY <2>1
  <1> HIDE DEF N
  <1>3. PICK f \in [D -> BOOLEAN] : BoolFix(f, D, B, E)
    <2> HIDE DEF D, B, E
    <2> QED BY BoolRecursion
  <1>4. ASSUME NEW pos \in D PROVE f[pos] <=> (pos > L \/ (N(pos) # 0 /\ f[N(pos)]))
    <2>1. f[pos] <=> (pos \in B \/ \E j \in D : <<pos, j>> \in E /\ f[j])
      <3> HIDE DEF D, B, E
      <3> QED BY <1>3 DEF BoolFix
    <2>2. CASE pos > L
      BY <2>1, <2>2
    <2>3. CASE ~(pos > L)
      <3>1. pos \in 1..L /\ pos \notin B
        BY <2>3
      <3>2. \A j \in D : <<pos, j>> \in E <=> j = N(pos)
        BY <3>1
      <3>3. 0 \notin D
        OBVIOUS
      <3> HIDE DEF D, B, E
      <3> QED BY <1>2, <2>1, <2>3, <3>1, <3>2, <3>3
    <2> QED BY <2>2, <2>3
  <1>5. Fix(f)
    <2> DEFINE r == [pos \in D |-> pos > L \/ (N(pos) # 0 /\ f[N(pos)])]
    <2>1. ASSUME NEW pos \in D PROVE f[pos] = r[pos]
      <3>1. r[pos] = (pos > L \/ (N(pos) # 0 /\ f[N(pos)]))
        BY Zenon
      <3>2. (pos > L \/ (N(pos) # 0 /\ f[N(pos)])) \in BOOLEAN
        BY Zenon
      <3>3. f[pos] \in BOOLEAN
        OBVIOUS
      <3> QED BY ONLY <1>4, <3>1, <3>2, <3>3, SameTruth, Zenon
    <2>2. f = [pos \in D |-> f[pos]] /\ r = [pos \in D |-> r[pos]]
      OBVIOUS
    <2>3. f = r
      <3> HIDE DEF r
      <3> QED BY <2>1, <2>2
    <2> QED BY <2>3
  <1>6. Fix(v)
    <2>1. Is(L, f)
      BY <1>5
    <2> HIDE DEF Is
    <2>2. Is(Len(t), f)
      BY <2>1, Zenon
    <2>3. Is(Len(t), v)
      BY <1>1, <2>2, Zenon
    <2> QED BY <2>3, Zenon
  <1>7. \A pos \in D : v[pos] <=> (pos > L \/ (N(pos) # 0 /\ v[N(pos)]))
    <2> QED BY <1>6, Zenon
  <1>8. L + 1 \in D /\ L + 1 > L /\ \A pos \in 1..L : pos \in D /\ ~(pos > L)
    OBVIOUS
  <1> QED BY <1>7, <1>8 DEF N

(* f says from which positions on s is well formed. *)
IsWellFormed(f, s) ==
    f = [i \in 1..Len(s) + 1 |->
            \/ i = Len(s) + 1
            \/ \E row \in WellFormedBytes :
                /\ i + Len(row) <= Len(s) + 1
                /\ \A j \in DOMAIN row : s[i + j - 1] \in row[j]
                /\ f[i + Len(row)]]

(* The definition of a well-formed string, as an equation. *)
LEMMA WellFormedIs ==
    ASSUME NEW s, NEW M \in Nat, Len(s) = M,
           NEW w, w = CHOOSE f : IsWellFormed(f, s)
    PROVE  /\ w[M + 1]
           /\ \A i \in 1..M : w[i] <=> \E n \in 1..4 : Shape(s, M, i, n) /\ w[i + n]
  <1> DEFINE Fits(K, i, row) == RowAt(s, K, i, row)
             Is(K, f) == f = [i \in 1..K + 1 |->
                i = K + 1 \/ \E row \in WellFormedBytes : Fits(K, i, row) /\ f[i + Len(row)]]
             D == 1..M + 1
             B == {M + 1}
             E == {e \in (1..M) \X D : \E n \in 1..4 : Shape(s, M, e[1], n) /\ e[2] = e[1] + n}
  <1>1. w = CHOOSE f : Is(Len(s), f)
    BY Zenon DEF RowAt, IsWellFormed
  <1>2. ASSUME NEW i \in D, NEW f
        PROVE  (i = M + 1 \/ \E row \in WellFormedBytes : Fits(M, i, row) /\ f[i + Len(row)])
               <=> (i = M + 1 \/ \E n \in 1..4 : Shape(s, M, i, n) /\ f[i + n])
    <2>1. CASE i = M + 1
      BY <2>1
    <2>2. CASE i # M + 1
      <3>1. i \in 1..M
        BY <2>2
      <3>2. \A row \in WellFormedBytes : RowAt(s, M, i, row) => Len(row) \in 1..4 /\ Shape(s, M, i, Len(row))
        BY <3>1, RowsAreShapes
      <3>3. \A n : Shape(s, M, i, n) => \E row \in WellFormedBytes : RowAt(s, M, i, row) /\ Len(row) = n
        BY ONLY <3>1, M \in Nat, RowsAreShapes, Zenon
      <3> QED BY <2>2, <3>2, <3>3, Zenon
    <2> QED BY <2>1, <2>2
  <1> HIDE DEF Fits
  <1>3. PICK f \in [D -> BOOLEAN] : BoolFix(f, D, B, E)
    <2> HIDE DEF D, B, E
    <2> QED BY BoolRecursion
  <1>4. ASSUME NEW i \in D PROVE f[i] <=> (i = M + 1 \/ \E n \in 1..4 : Shape(s, M, i, n) /\ f[i + n])
    <2>1. f[i] <=> (i \in B \/ \E j \in D : <<i, j>> \in E /\ f[j])
      <3> HIDE DEF D, B, E
      <3> QED BY <1>3 DEF BoolFix
    <2>2. CASE i = M + 1
      BY <2>1, <2>2
    <2>3. CASE i # M + 1
      <3>1. i \in 1..M /\ i \notin B
        BY <2>3
      <3>2. \A j \in D : <<i, j>> \in E <=> \E n \in 1..4 : Shape(s, M, i, n) /\ j = i + n
        BY <3>1
      <3>3. \A n \in 1..4 : Shape(s, M, i, n) => i + n \in D
        <4> SUFFICES ASSUME NEW n \in 1..4, Shape(s, M, i, n) PROVE i + n \in D
          OBVIOUS
        <4>1. i + n <= M + 1
          BY <3>1 DEF Shape
        <4> QED BY <4>1, <3>1
      <3> HIDE DEF D, B, E
      <3> QED BY <2>1, <2>3, <3>1, <3>2, <3>3
    <2> QED BY <2>2, <2>3
  <1>5. Is(M, f)
    <2> DEFINE P(i) == i = M + 1 \/ \E row \in WellFormedBytes : Fits(M, i, row) /\ f[i + Len(row)]
               r == [i \in 1..M + 1 |-> P(i)]
    <2>1. ASSUME NEW i \in D PROVE f[i] = r[i]
      <3>1. r[i] = P(i)
        BY Zenon
      <3>2. P(i) \in BOOLEAN
        BY Zenon
      <3>3. f[i] \in BOOLEAN
        OBVIOUS
      <3>4. f[i] <=> P(i)
        BY <1>2, <1>4, Zenon
      <3> QED BY ONLY <3>1, <3>2, <3>3, <3>4, SameTruth, Zenon
    <2>2. f = [i \in D |-> f[i]] /\ r = [i \in D |-> r[i]]
      OBVIOUS
    <2>3. f = r
      <3> HIDE DEF r
      <3> QED BY <2>1, <2>2
    <2> QED BY <2>3
  <1>6. Is(M, w)
    <2> HIDE DEF Is
    <2>2. Is(Len(s), f)
      BY <1>5, Zenon
    <2>3. Is(Len(s), w)
      BY <1>1, <2>2, Zenon
    <2> QED BY <2>3, Zenon
  <1>7. \A i \in D : w[i] <=> (i = M + 1 \/ \E row \in WellFormedBytes : Fits(M, i, row) /\ w[i + Len(row)])
    BY <1>6, Zenon
  <1>8. M + 1 \in D /\ \A i \in 1..M : i \in D /\ i # M + 1
    OBVIOUS
  <1>9. w[M + 1]
    BY <1>7, <1>8, Zenon
  <1>10. \A i \in 1..M : w[i] <=> \E n \in 1..4 : Shape(s, M, i, n) /\ w[i + n]
    <2> TAKE i \in 1..M
    <2>1. i \in D /\ i # M + 1
      BY <1>8
    <2>2. w[i] <=> (i = M + 1 \/ \E row \in WellFormedBytes : Fits(M, i, row) /\ w[i + Len(row)])
      BY <1>7, <2>1, Zenon
    <2>3. (i = M + 1 \/ \E row \in WellFormedBytes : Fits(M, i, row) /\ w[i + Len(row)])
          <=> (i = M + 1 \/ \E n \in 1..4 : Shape(s, M, i, n) /\ w[i + n])
      <3> HIDE DEF D
      <3> QED BY ONLY <1>2, <2>1, Zenon
    <2> QED BY ONLY <2>1, <2>2, <2>3, Zenon
  <1> QED BY <1>9, <1>10

(* What check_utf8 accepts is well formed, and it reads no further than the *)
(* NUL behind the string.                                                   *)
LEMMA Utf8Of == InputOK => Utf8IsUnicode
  <1> SUFFICES ASSUME InputOK, kind = "utf8" PROVE Utf8IsUnicode
    BY DEF Utf8IsUnicode
  <1> DEFINE t == Append(input, 0)
             M == Len(input)
             L == M + 1
             v == CHOOSE f : f = [pos \in 1..Len(t) + 4 |->
                     \/ pos > Len(t)
                     \/ LET d == utf8_decode(t, pos) IN d.next # 0 /\ f[d.next]]
             w == CHOOSE f : f = [i \in 1..Len(input) + 1 |->
                     \/ i = Len(input) + 1
                     \/ \E row \in WellFormedBytes :
                        /\ i + Len(row) <= Len(input) + 1
                        /\ \A j \in DOMAIN row : input[i + j - 1] \in row[j]
                        /\ f[i + Len(row)]]
  <1>1. input \in Seq(UtfBytes) /\ UtfBytes \subseteq 0..255
    BY EncAssumption DEF InputOK, Alphabet
  <1>2. M \in Nat /\ \A i \in 1..M : input[i] \in 0..255
    <2>1. \A i \in 1..M : input[i] \in UtfBytes
      BY <1>1
    <2>2. M \in Nat
      BY <1>1
    <2> HIDE DEF M
    <2> QED BY <1>1, <2>1, <2>2
  <1>3. Len(t) = L /\ t[L] = 0 /\ \A i \in 1..M : t[i] = input[i]
    <2> DEFINE Z == UtfBytes \cup {0}
    <2>1. input \in Seq(Z) /\ 0 \in Z
      BY <1>1
    <2> HIDE DEF Z
    <2> QED BY <2>1, AppendProperties
  <1>3a. t[M + 1] = 0 /\ \A i \in 1..M : t[i] = input[i]
    BY <1>3
  <1>4. check_utf8(input) <=> v[1]
    BY Zenon DEF check_utf8
  <1>5. Utf8IsUnicode <=> /\ check_utf8(input) <=> w[1]
                          /\ \A pos \in DOMAIN t : utf8_decode(t, pos).read <= Len(t)
    BY Zenon DEF Utf8IsUnicode
  <1>6. DOMAIN t = 1..L
    <2> DEFINE Z == UtfBytes \cup {0}
    <2>1. input \in Seq(Z) /\ 0 \in Z
      BY <1>1
    <2> HIDE DEF Z
    <2>2. t \in Seq(Z)
      BY <2>1, AppendProperties
    <2> HIDE DEF t
    <2>3. DOMAIN t = 1..Len(t)
      BY <2>2, LenProperties
    <2> QED BY <1>3, <2>3
  <1>7. \A i \in Nat : Byte(t, i) = IF i <= L THEN t[i] ELSE 128
    <2> HIDE DEF t, L
    <2> QED BY <1>3, Zenon DEF Byte
  <1>8. L \in Nat \ {0}
    BY <1>2
  <1>9. \A i \in 1..L : t[i] \in 0..255
    <2> HIDE DEF t, M
    <2> QED BY ONLY <1>2, <1>3a
  <1> HIDE DEF t
  <1>10. \A pos \in 1..L : DecodeOK(t, L, pos)
    <2>1. t[L] = 0 /\ L \in Nat
      BY ONLY <1>3a, <1>8
    <2> HIDE DEF L
    <2> QED BY ONLY <1>7, <1>9, <2>1, DecodeIs, Zenon
  <1>11. /\ v[L + 1]
         /\ \A pos \in 1..L : v[pos] <=> utf8_decode(t, pos).next # 0 /\ v[utf8_decode(t, pos).next]
    <2> HIDE DEF L
    <2> QED BY ONLY <1>3, <1>8, <1>10, ValidIs, ZenonT(40)
  <1>12. /\ w[M + 1]
         /\ \A i \in 1..M : w[i] <=> \E n \in 1..4 : Shape(input, M, i, n) /\ w[i + n]
    <2>1. Len(input) = M
      OBVIOUS
    <2>2. w = CHOOSE f : IsWellFormed(f, input)
      BY Zenon DEF IsWellFormed
    <2> HIDE DEF M, w
    <2> QED BY ONLY <1>2, <2>1, <2>2, WellFormedIs, Zenon
  <1> HIDE DEF v, w, M
  <1>13. v[1] <=> w[1]
    <2>1. v[L] <=> w[L]
      <3>1. Shape(t, L, L, 1) /\ L \in 1..L /\ 1 \in 1..4
        BY <1>3, <1>8 DEF Shape
      <3>2. utf8_decode(t, L).next = L + 1
        BY <1>10, <3>1 DEF DecodeOK
      <3>3. L + 1 # 0
        BY <1>8
      <3> HIDE DEF L
      <3>4. v[L]
        BY <1>11, <3>1, <3>2, <3>3
      <3> QED BY <3>4, <1>12 DEF L
    <2>2. ASSUME NEW i \in 1..L, i # L, \A j \in 1..L : i < j => (v[j] <=> w[j])
          PROVE  v[i] <=> w[i]
      <3>1. i \in 1..M /\ i \in Nat
        BY <2>2, <1>2
      <3> DEFINE nx == utf8_decode(t, i).next
      <3>2. /\ \A n \in 1..4 : Shape(t, L, i, n) => nx = i + n
            /\ nx # 0 => \E n \in 1..4 : Shape(t, L, i, n) /\ nx = i + n
            /\ v[i] <=> nx # 0 /\ v[nx]
        BY <1>10, <1>11 DEF DecodeOK
      <3>3. w[i] <=> \E n \in 1..4 : Shape(input, M, i, n) /\ w[i + n]
        BY <1>12, <3>1
      <3>4. \A n \in 1..4 : (Shape(input, M, i, n) <=> Shape(t, L, i, n)) /\ (Shape(input, M, i, n) => i + n <= L)
        BY <1>2, <1>3, <3>1, SameShapes
      <3> HIDE DEF nx
      <3>5. \A n \in 1..4 : Shape(t, L, i, n) => i + n \in 1..L /\ i < i + n /\ i + n # 0
        <4> SUFFICES ASSUME NEW n \in 1..4, Shape(t, L, i, n) PROVE i + n \in 1..L /\ i < i + n /\ i + n # 0
          OBVIOUS
        <4>1. i + n <= L
          BY <3>4
        <4> QED BY <4>1, <3>1, <1>8
      <3>6. \A n \in 1..4 : Shape(t, L, i, n) => (v[i + n] <=> w[i + n])
        BY <2>2, <3>5, Zenon
      <3> HIDE DEF L
      <3> QED BY ONLY <3>2, <3>3, <3>4, <3>5, <3>6, Zenon
    <2> HIDE DEF L
    <2> QED BY <1>8, <2>1, <2>2, Agree
  <1>14. \A pos \in DOMAIN t : utf8_decode(t, pos).read <= Len(t)
    <2> HIDE DEF L
    <2>1. \A pos \in 1..L : utf8_decode(t, pos).read <= L
      BY <1>10 DEF DecodeOK
    <2> QED BY <1>3, <1>6, <2>1, Zenon
  <1> QED BY <1>4, <1>5, <1>13, <1>14, Zenon

(* util-src/encodings.c:177-239: for every string of bytes, of any length,  *)
(* check_utf8 accepts exactly what Table 3-7 of the Unicode standard calls  *)
(* well formed, and no byte behind the terminating NUL is read.             *)
THEOREM Utf8Holds == EncSpec => []Utf8IsUnicode
  BY EncInductive, Utf8Of, PTL

-----------------------------------------------------------------------------
(* HMAC and Hi.                                                             *)
(* The key block of RFC 2104, with each byte changed by p. *)
Blocked(k, n, B, p) == [i \in 1..B |-> Xor(IF i <= n THEN k[i] ELSE {}, p)]
Changed(q, p) == [i \in DOMAIN q |-> Xor(q[i], p)]

(* A key followed by zeros is as long as the block. *)
LEMMA PaddedIs ==
    ASSUME NEW T, NEW k \in Seq(T), NEW n \in Nat, Len(k) = n, NEW B \in Nat, n <= B, NEW p
    PROVE  Changed(k \o Zeros(B - n), p) = Blocked(k, n, B, p)
  <1> DEFINE Z == T \cup {{}}
             z == Zeros(B - n)
             q == k \o z
             m == B - n
  <1>1. m \in Nat /\ n + m = B
    OBVIOUS
  <1> HIDE DEF m
  <1>2. z = [i \in 1..m |-> {}]
    BY DEF Zeros, m
  <1>3. z \in Seq(Z) /\ k \in Seq(Z)
    <2>1. {} \in Z
      OBVIOUS
    <2>2. k \in Seq(Z)
      OBVIOUS
    <2> HIDE DEF Z
    <2>3. [i \in 1..m |-> {}] \in Seq(Z)
      BY <1>1, <2>1
    <2> QED BY <1>2, <2>2, <2>3
  <1>4. Len(z) = m
    BY <1>1, <1>2
  <1> HIDE DEF z, Z
  <1>5. /\ q \in Seq(Z)
        /\ Len(q) = n + m
        /\ \A i \in 1..n + m : q[i] = IF i <= n THEN k[i] ELSE z[i - n]
    <2>1. /\ q \in Seq(Z)
          /\ Len(q) = Len(k) + Len(z)
          /\ \A i \in 1..Len(k) + Len(z) : q[i] = IF i <= Len(k) THEN k[i] ELSE z[i - Len(k)]
      BY ONLY <1>3, ConcatProperties
    <2> HIDE DEF q
    <2> QED BY ONLY <2>1, <1>4, Len(k) = n, Zenon
  <1> HIDE DEF q
  <1>6. DOMAIN q = 1..B
    <2>1. DOMAIN q = 1..Len(q)
      BY ONLY <1>5, LenProperties
    <2> QED BY ONLY <2>1, <1>5, <1>1
  <1>7. \A i \in 1..B : q[i] = IF i <= n THEN k[i] ELSE {}
    <2> SUFFICES ASSUME NEW i \in 1..B PROVE q[i] = IF i <= n THEN k[i] ELSE {}
      OBVIOUS
    <2>1. i \in 1..n + m
      BY ONLY <1>1, i \in 1..B
    <2>2. q[i] = IF i <= n THEN k[i] ELSE z[i - n]
      BY ONLY <1>5, <2>1, Zenon
    <2>3. ~(i <= n) => i - n \in 1..m
      BY ONLY <1>1, i \in 1..B, n \in Nat
    <2>4. ~(i <= n) => z[i - n] = {}
      BY ONLY <1>2, <2>3
    <2> QED BY ONLY <2>2, <2>4
  <1>8. [i \in DOMAIN q |-> Xor(q[i], p)] = [i \in 1..B |-> Xor(IF i <= n THEN k[i] ELSE {}, p)]
    BY ONLY <1>6, <1>7
  <1> QED BY <1>8 DEF q, z, Changed, Blocked

(* The state of the calls. *)
CallInv ==
    /\ call.hash \in {"sha1", "sha512"}
    /\ call.iter \in 0..MaxIter
    /\ \E T : call.key \in Seq(T)

(* Every call has a key, a salt and a count of iterations of its type. *)
LEMMA CallInductive == HashSpec => []CallInv
  <1>1. HashInit => CallInv
    <2> SUFFICES ASSUME HashInit PROVE CallInv
      OBVIOUS
    <2>1. call.hash = "sha1" /\ call.key = <<>> /\ call.iter = 1
      BY DEF HashInit
    <2>2. <<>> \in Seq({})
      OBVIOUS
    <2>3. 1 \in 0..MaxIter
      BY HashAssumption
    <2> QED BY <2>1, <2>2, <2>3 DEF CallInv
  <1>2. CallInv /\ [HashNext]_hashVars => CallInv'
    <2> SUFFICES ASSUME CallInv, [HashNext]_hashVars PROVE CallInv'
      OBVIOUS
    <2>1. CASE Hashing
      <3>1. PICK h \in DOMAIN Hash, keylen \in 0..MaxKey, saltlen \in 0..2, iter \in 0..MaxIter :
                   Compute(h, keylen, saltlen, iter)
        BY <2>1 DEF Hashing
      <3> DEFINE k == [i \in 1..keylen |-> {<<"key", i>>}]
                 T == {{<<"key", i>>} : i \in 1..keylen}
      <3>2. call'.hash = h /\ call'.key = k /\ call'.iter = iter
        BY <3>1 DEF Compute
      <3>3. h \in {"sha1", "sha512"}
        BY DEF Hash
      <3>4. k \in Seq(T)
        <4>1. keylen \in Nat
          BY HashAssumption
        <4>2. \A i \in 1..keylen : {<<"key", i>>} \in T
          OBVIOUS
        <4> HIDE DEF T
        <4> QED BY <4>1, <4>2
      <3> HIDE DEF k, T
      <3> QED BY <3>2, <3>3, <3>4 DEF CallInv
    <2>2. CASE UNCHANGED call
      BY <2>2 DEF CallInv
    <2>3. Drawing => UNCHANGED call
      BY DEF Drawing, Lrandom, GetRandom, RandomFails, RandomReturns
    <2>4. UNCHANGED hashVars => UNCHANGED call
      BY DEF hashVars
    <2> QED BY <2>1, <2>2, <2>3, <2>4 DEF HashNext
  <1> QED BY <1>1, <1>2, PTL DEF HashSpec

(* The two hashes. *)
LEMMA HashIs ==
    ASSUME NEW h \in {"sha1", "sha512"}
    PROVE  /\ Hash[h].block = IF h = "sha1" THEN Block ELSE 2 * Block
           /\ Hash[h].digest = IF h = "sha1" THEN 1 ELSE 2
  BY DEF Hash

(* hmac pads the key to the block, or its digest when it is longer          *)
(* (hashes.c:77-113).                                                       *)
LEMMA HmacOf == CallInv => HmacIsRfc2104
  <1> SUFFICES ASSUME CallInv PROVE HmacIsRfc2104
    OBVIOUS
  <1> DEFINE h == call.hash
             B == Hash[h].block
             key == call.key
             K == IF Len(key) <= B THEN key ELSE Digest(h, key)
             Padded(p) == [i \in 1..B |-> Xor(IF i <= Len(K) THEN K[i] ELSE {}, p)]
             k == IF Len(key) > Block THEN Digest(h, key) ELSE key
             padded == k \o Zeros(Block - Len(k))
             Pad1(p) == [i \in DOMAIN padded |-> Xor(padded[i], p)]
  <1>1. HmacIsRfc2104 <=> (B = Block =>
          hmac(h, key, call.salt) = Digest(h, Padded(OPAD) \o Digest(h, Padded(IPAD) \o call.salt)))
    BY DEF HmacIsRfc2104
  <1>2. hmac(h, key, call.salt) = Digest(h, Pad1(OPAD) \o Digest(h, Pad1(IPAD) \o call.salt))
    BY DEF hmac
  <1>3. ASSUME B = Block PROVE \A p : Padded(p) = Pad1(p)
    <2>1. PICK T : key \in Seq(T)
      BY DEF CallInv
    <2>2. Len(key) \in Nat
      BY <2>1
    <2>3. h = "sha1"
      <3>1. h \in {"sha1", "sha512"}
        BY DEF CallInv
      <3>2. B = IF h = "sha1" THEN Block ELSE 2 * Block
        BY <3>1, HashIs
      <3> HIDE DEF h, B
      <3> QED BY <3>1, <3>2, <1>3, HashAssumption
    <2> DEFINE dg == Digest(h, key)
               dt == {{<<"digest", h, i, key>>} : i \in 1..1}
    <2>4. Hash[h].digest = 1
      BY <2>3, HashIs
    <2>5. dg \in Seq(dt) /\ Len(dg) = 1
      <3>1. dg = [i \in 1..1 |-> {<<"digest", h, i, key>>}]
        BY <2>4 DEF Digest
      <3>2. \A i \in 1..1 : {<<"digest", h, i, key>>} \in dt
        OBVIOUS
      <3> HIDE DEF dg, dt
      <3> QED BY <3>1, <3>2
    <2>6. K = k
      <3> HIDE DEF h, B, key
      <3> QED BY <1>3, <2>2, HashAssumption
    <2>a. k = dg \/ (k = key /\ ~(Len(key) > Block))
      <3> HIDE DEF key, h
      <3> QED BY DEF dg
    <2> HIDE DEF dg, dt, key, h, k
    <2>7. \E T2 : k \in Seq(T2)
      BY <2>a, <2>5, <2>1
    <2>8. Len(k) \in Nat /\ Len(k) <= Block
      <3>1. k = dg => Len(k) = 1
        BY ONLY <2>5
      <3>2. k = key => Len(k) = Len(key)
        OBVIOUS
      <3> DEFINE n == Len(k)
                 m == Len(key)
      <3> HIDE DEF n, m
      <3>3. n = 1 \/ (n = m /\ ~(m > Block) /\ m \in Nat)
        BY ONLY <2>a, <2>2, <3>1, <3>2 DEF n, m
      <3>4. n \in Nat /\ n <= Block
        BY ONLY <3>3, HashAssumption
      <3> QED BY <3>4 DEF n
    <2> TAKE p
    <2>9. PICK T2 : k \in Seq(T2)
      BY <2>7
    <2>10. Pad1(p) = [i \in 1..Block |-> Xor(IF i <= Len(k) THEN k[i] ELSE {}, p)]
      <3>1. PICK n \in Nat : Len(k) = n /\ n <= Block
        BY <2>8
      <3>2. Block \in Nat
        BY HashAssumption
      <3>3. Changed(k \o Zeros(Block - n), p) = Blocked(k, n, Block, p)
        BY ONLY <2>9, <3>1, <3>2, PaddedIs
      <3> QED BY ONLY <3>1, <3>3 DEF Changed, Blocked
    <2>11. Padded(p) = [i \in 1..Block |-> Xor(IF i <= Len(k) THEN k[i] ELSE {}, p)]
      <3> HIDE DEF K, B
      <3> QED BY ONLY <1>3, <2>6
    <2> QED BY <2>10, <2>11
  <1> HIDE DEF Padded, Pad1, h, key
  <1> QED BY <1>1, <1>2, <1>3

(* A turn of the loop of LscramHi. *)
Turn(str, r) ==
    LET Und == hmac("sha1", str, r.Ust) IN [Ust |-> Und, res |-> XorSeq(r.res, Und)]
Turns(f, n, str, first) ==
    /\ f = [i \in 1..n |-> f[i]]
    /\ f[1] = [Ust |-> first, res |-> first]
    /\ \A i \in 1..n : i # 1 => f[i] = Turn(str, f[i - 1])

(* The loop can be run any number of times. *)
LEMMA TurnsExist ==
    ASSUME NEW str, NEW first, NEW N \in Nat \ {0}
    PROVE  \E f : Turns(f, N, str, first)
  <1> DEFINE S == {n \in 1..N : \E f : Turns(f, n, str, first)}
  <1>1. 1 \in S
    <2> DEFINE f == [i \in 1..1 |-> [Ust |-> first, res |-> first]]
    <2>1. Turns(f, 1, str, first)
      <3>1. f = [i \in 1..1 |-> f[i]] /\ f[1] = [Ust |-> first, res |-> first]
        OBVIOUS
      <3>2. \A i \in 1..1 : i = 1
        OBVIOUS
      <3> HIDE DEF f
      <3> QED BY <3>1, <3>2 DEF Turns
    <2>2. 1 \in 1..N
      OBVIOUS
    <2> HIDE DEF f
    <2> QED BY <2>1, <2>2
  <1>2. ASSUME NEW i \in 1..N, i # 1, i - 1 \in S PROVE i \in S
    <2>1. PICK f : Turns(f, i - 1, str, first)
      BY <1>2
    <2> DEFINE g == [j \in 1..i |-> IF j = i THEN Turn(str, f[i - 1]) ELSE f[j]]
    <2>2. g = [j \in 1..i |-> g[j]]
      OBVIOUS
    <2>3. \A j \in 1..i - 1 : g[j] = f[j]
      BY <1>2
    <2>4. g[i] = Turn(str, f[i - 1])
      BY <1>2
    <2> HIDE DEF g
    <2>5. 1 \in 1..i - 1 /\ i - 1 \in 1..i - 1
      BY <1>2
    <2>6. g[1] = [Ust |-> first, res |-> first]
      BY <2>1, <2>3, <2>5 DEF Turns
    <2>7. ASSUME NEW j \in 1..i, j # 1 PROVE g[j] = Turn(str, g[j - 1])
      <3>1. CASE j = i
        BY <2>3, <2>4, <2>5, <3>1
      <3>2. CASE j # i
        <4>1. j \in 1..i - 1 /\ j - 1 \in 1..i - 1
          BY <3>2, <2>7
        <4>2. f[j] = Turn(str, f[j - 1])
          BY <2>1, <4>1, <2>7 DEF Turns
        <4> QED BY <2>3, <4>1, <4>2
      <3> QED BY <3>1, <3>2
    <2>8. Turns(g, i, str, first)
      BY <2>2, <2>6, <2>7 DEF Turns
    <2> QED BY <2>8
  <1> HIDE DEF S
  <1>3. N \in S
    <2>1. \A i \in 1..N : i # 1 /\ i - 1 \in S => i \in S
      BY <1>2
    <2>2. 1 \in Nat /\ N \in Nat /\ N \in 1..N
      OBVIOUS
    <2>3. \A i \in 1..N : i \in S
      BY ONLY <1>1, <2>1, <2>2, IntervalInduction
    <2> QED BY <2>2, <2>3
  <1> QED BY <1>3 DEF S

(* LscramHi runs the loop. *)
LEMMA HiIs ==
    ASSUME NEW str, NEW salt, NEW iter \in 0..MaxIter,
           NEW first, first = hmac("sha1", str, salt \o <<{}, {}, {}, {<<"one">>}>>)
    PROVE  \E f : Turns(f, MaxIter, str, first) /\ LscramHi(str, salt, iter) = f[IF iter = 0 THEN 1 ELSE iter].res
  <1> DEFINE Fix(f) == f = [i \in 1..MaxIter |->
                IF i = 1 THEN [Ust |-> first, res |-> first] ELSE Turn(str, f[i - 1])]
             c == CHOOSE f : Fix(f)
  <1>0. MaxIter \in Nat \ {0} /\ (iter < 1 <=> iter = 0)
    BY HashAssumption
  <1>1. LscramHi(str, salt, iter) = c[IF iter < 1 THEN 1 ELSE iter].res
    BY Zenon DEF LscramHi, Turn
  <1>2. PICK f : Turns(f, MaxIter, str, first)
    BY <1>0, TurnsExist
  <1>3. Fix(f)
    <2> DEFINE r == [i \in 1..MaxIter |-> IF i = 1 THEN [Ust |-> first, res |-> first] ELSE Turn(str, f[i - 1])]
    <2>1. ASSUME NEW i \in 1..MaxIter PROVE f[i] = r[i]
      <3>1. r[i] = IF i = 1 THEN [Ust |-> first, res |-> first] ELSE Turn(str, f[i - 1])
        OBVIOUS
      <3> HIDE DEF r
      <3> QED BY <1>2, <3>1 DEF Turns
    <2>2. f = [i \in 1..MaxIter |-> f[i]] /\ r = [i \in 1..MaxIter |-> r[i]]
      BY <1>2 DEF Turns
    <2>3. f = r
      <3> HIDE DEF r
      <3> QED BY <2>1, <2>2
    <2> QED BY <2>3
  <1>4. Fix(c)
    BY <1>3, Zenon
  <1> HIDE DEF c
  <1>5. Turns(c, MaxIter, str, first)
    <2>1. c = [i \in 1..MaxIter |-> c[i]]
      BY <1>4
    <2>2. 1 \in 1..MaxIter
      BY <1>0
    <2>3. \A i \in 1..MaxIter : c[i] = IF i = 1 THEN [Ust |-> first, res |-> first] ELSE Turn(str, c[i - 1])
      BY <1>4, Zenon
    <2> QED BY <2>1, <2>2, <2>3 DEF Turns
  <1> QED BY <1>0, <1>1, <1>5

(* The exclusive or of several bytes, term by term. *)
LEMMA XorMembers ==
    ASSUME NEW n \in Nat, NEW u, NEW t
    PROVE  t \in XorAll([i \in 1..n |-> u[i]]) <=> Cardinality({i \in 1..n : t \in u[i]}) % 2 = 1
  <1> DEFINE s == [i \in 1..n |-> u[i]]
             I == {i \in 1..n : t \in u[i]}
  <1>1. DOMAIN s = 1..n /\ \A i \in 1..n : s[i] = u[i]
    OBVIOUS
  <1> HIDE DEF s
  <1>2. {i \in DOMAIN s : t \in s[i]} = I
    BY <1>1
  <1>3. t \in XorAll(s) <=> t \in UNION Range(s) /\ Cardinality(I) % 2 = 1
    BY <1>2 DEF XorAll
  <1>4. Cardinality(I) % 2 = 1 => I # {}
    BY FS_EmptySet
  <1>5. I # {} => t \in UNION Range(s)
    BY <1>1 DEF Range
  <1> QED BY <1>3, <1>4, <1>5 DEF s

(* One more byte. *)
LEMMA XorOneMore ==
    ASSUME NEW n \in Nat \ {0}, NEW u
    PROVE  /\ XorAll([i \in 1..1 |-> u[i]]) = u[1]
           /\ n # 1 => XorAll([i \in 1..n |-> u[i]]) = Xor(XorAll([i \in 1..n - 1 |-> u[i]]), u[n])
  <1> DEFINE C(m, t) == {i \in 1..m : t \in u[i]}
             X(m) == XorAll([i \in 1..m |-> u[i]])
  <1>0. \A m \in Nat : \A t : t \in X(m) <=> Cardinality(C(m, t)) % 2 = 1
    BY XorMembers
  <1>1. ASSUME NEW t PROVE t \in X(1) <=> t \in u[1]
    <2>1. CASE t \in u[1]
      <3>1. C(1, t) = {} \cup {1}
        BY <2>1
      <3>2. Cardinality(C(1, t)) = 1
        <4>1. IsFiniteSet({}) /\ Cardinality({}) = 0 /\ 1 \notin {}
          BY FS_EmptySet
        <4>2. Cardinality({} \cup {1}) = Cardinality({}) + 1
          BY ONLY <4>1, FS_AddElement
        <4> QED BY <3>1, <4>1, <4>2
      <3> HIDE DEF C, X
      <3> QED BY <1>0, <2>1, <3>2
    <2>2. CASE t \notin u[1]
      <3>1. C(1, t) = {}
        BY <2>2
      <3>2. Cardinality(C(1, t)) = 0
        BY <3>1, FS_EmptySet
      <3> HIDE DEF C, X
      <3> QED BY <1>0, <2>2, <3>2
    <2> QED BY <2>1, <2>2
  <1>2. ASSUME n # 1, NEW t PROVE t \in X(n) <=> t \in Xor(X(n - 1), u[n])
    <2>0. n - 1 \in Nat /\ n \in Nat /\ n \in 1..n /\ n \notin 1..n - 1
      BY <1>2
    <2>1. t \in Xor(X(n - 1), u[n]) <=> ~(t \in X(n - 1) <=> t \in u[n])
      <3> HIDE DEF X
      <3> QED BY DEF Xor
    <2>2. IsFiniteSet(C(n - 1, t)) /\ Cardinality(C(n - 1, t)) \in Nat
      <3>1. IsFiniteSet(1..n - 1)
        BY <2>0, FS_Interval
      <3>2. C(n - 1, t) \in SUBSET (1..n - 1)
        OBVIOUS
      <3> HIDE DEF C
      <3> QED BY <3>1, <3>2, FS_Subset, FS_CardinalityType
    <2>3. \A i : i \in 1..n <=> i \in 1..n - 1 \/ i = n
      BY <2>0
    <2>4. CASE t \in u[n]
      <3>1. C(n, t) = C(n - 1, t) \cup {n}
        BY <2>3, <2>4
      <3>2. n \notin C(n - 1, t)
        BY <2>0
      <3> HIDE DEF C, X
      <3>3. Cardinality(C(n, t)) = Cardinality(C(n - 1, t)) + 1
        BY <2>2, <3>1, <3>2, FS_AddElement
      <3> DEFINE a == Cardinality(C(n - 1, t))
                 b == Cardinality(C(n, t))
      <3>4. a \in Nat /\ b = a + 1
        BY <2>2, <3>3
      <3>5. t \in X(n) <=> b % 2 = 1
        BY <1>0, <2>0
      <3>6. t \in X(n - 1) <=> a % 2 = 1
        BY <1>0, <2>0
      <3> HIDE DEF a, b
      <3>7. b % 2 = 1 <=> ~(a % 2 = 1)
        BY ONLY <3>4
      <3> QED BY ONLY <2>1, <2>4, <3>5, <3>6, <3>7
    <2>5. CASE t \notin u[n]
      <3>1. C(n, t) = C(n - 1, t)
        BY <2>3, <2>5
      <3> HIDE DEF C, X
      <3> QED BY <1>0, <2>0, <2>1, <2>5, <3>1
    <2> QED BY <2>4, <2>5
  <1>3. X(1) = u[1]
    <2> HIDE DEF X
    <2> QED BY <1>1
  <1>4. n # 1 => X(n) = Xor(X(n - 1), u[n])
    <2> HIDE DEF X
    <2> QED BY <1>2
  <1> QED BY <1>3, <1>4

(* After i turns of the loop of LscramHi, Ust is Ui and res the exclusive   *)
(* or of U1 to Ui (hashes.c:145-196).                                       *)
LEMMA HiOf == CallInv => HiIsRfc5802
  <1> SUFFICES ASSUME CallInv PROVE HiIsRfc5802
    OBVIOUS
  <1> DEFINE key == call.key
             salt == call.salt
             iter == call.iter
             first == hmac("sha1", key, salt \o <<{}, {}, {}, {<<"one">>}>>)
             Nx(x) == hmac("sha1", key, x)
             Fix(f) == f = [i \in 1..MaxIter |-> IF i = 1 THEN first ELSE Nx(f[i - 1])]
             U == CHOOSE f : Fix(f)
             n == IF iter = 0 THEN 1 ELSE iter
  <1>1. HiIsRfc5802 <=> \A b \in 1..Hash.sha1.digest :
                           LscramHi(key, salt, iter)[b] = XorAll([i \in 1..n |-> U[i][b]])
    BY Zenon DEF HiIsRfc5802
  <1>2. iter \in 0..MaxIter /\ MaxIter \in Nat \ {0} /\ n \in 1..MaxIter /\ Hash.sha1.digest = 1
    BY HashAssumption DEF CallInv, Hash
  <1>3. PICK f : Turns(f, MaxIter, key, first) /\ LscramHi(key, salt, iter) = f[n].res
    <2> HIDE DEF key, salt, iter
    <2> QED BY <1>2, HiIs
  <1> HIDE DEF key, salt, iter
  <1>4. \A x : DOMAIN Nx(x) = 1..1
    BY <1>2 DEF hmac, Digest
  <1>5. DOMAIN first = 1..1
    BY <1>2 DEF hmac, Digest
  <1>6. f[1].Ust = first /\ f[1].res = first
    BY <1>3 DEF Turns
  <1>7. ASSUME NEW i \in 1..MaxIter, i # 1
        PROVE  f[i].Ust = Nx(f[i - 1].Ust) /\ f[i].res = XorSeq(f[i - 1].res, Nx(f[i - 1].Ust))
    <2>1. f[i] = Turn(key, f[i - 1])
      BY <1>3, <1>7 DEF Turns
    <2>2. Turn(key, f[i - 1]) = [Ust |-> Nx(f[i - 1].Ust), res |-> XorSeq(f[i - 1].res, Nx(f[i - 1].Ust))]
      BY DEF Turn
    <2> HIDE DEF Nx
    <2> QED BY <2>1, <2>2
  <1> HIDE DEF first, Nx, n
  <1>8. Fix(U)
    <2> DEFINE g == [i \in 1..MaxIter |-> f[i].Ust]
               r == [i \in 1..MaxIter |-> IF i = 1 THEN first ELSE Nx(g[i - 1])]
    <2>1. ASSUME NEW i \in 1..MaxIter PROVE g[i] = r[i]
      <3>1. g[i] = f[i].Ust /\ r[i] = IF i = 1 THEN first ELSE Nx(g[i - 1])
        OBVIOUS
      <3>2. i # 1 => g[i - 1] = f[i - 1].Ust
        <4>1. i # 1 => i - 1 \in 1..MaxIter
          BY <1>2
        <4> QED BY <4>1
      <3> HIDE DEF g, r
      <3> QED BY <1>6, <1>7, <3>1, <3>2
    <2>2. g = [i \in 1..MaxIter |-> g[i]] /\ r = [i \in 1..MaxIter |-> r[i]]
      OBVIOUS
    <2>3. g = r
      <3> HIDE DEF g, r
      <3> QED BY <2>1, <2>2
    <2> HIDE DEF g
    <2>4. Fix(g)
      BY <2>3
    <2> QED BY <2>4, Zenon
  <1> HIDE DEF U
  <1>9. U[1] = first /\ \A i \in 1..MaxIter : i # 1 => U[i] = Nx(U[i - 1])
    <2>1. 1 \in 1..MaxIter
      BY <1>2
    <2>2. \A i \in 1..MaxIter : U[i] = IF i = 1 THEN first ELSE Nx(U[i - 1])
      BY <1>8, Zenon
    <2> QED BY <2>1, <2>2
  <1>10. \A i \in 1..MaxIter : U[i] = f[i].Ust /\ DOMAIN U[i] = 1..1
    <2> DEFINE S == {i \in 1..MaxIter : U[i] = f[i].Ust /\ DOMAIN U[i] = 1..1}
    <2>0. 1 \in Nat /\ MaxIter \in Nat /\ 1 \in 1..MaxIter
      BY <1>2
    <2>1. 1 \in S
      BY <1>5, <1>6, <1>9, <2>0
    <2>2. \A i \in 1..MaxIter : i # 1 /\ i - 1 \in S => i \in S
      BY <1>4, <1>7, <1>9
    <2> HIDE DEF S
    <2>3. \A i \in 1..MaxIter : i \in S
      BY ONLY <2>0, <2>1, <2>2, IntervalInduction
    <2> QED BY <2>3 DEF S
  <1> DEFINE u == [i \in 1..MaxIter |-> U[i][1]]
             X(m) == XorAll([i \in 1..m |-> u[i]])
  <1>11. \A i \in 1..MaxIter : DOMAIN f[i].res = 1..1 /\ f[i].res[1] = X(i)
    <2> DEFINE S == {i \in 1..MaxIter : DOMAIN f[i].res = 1..1 /\ f[i].res[1] = X(i)}
    <2>0. 1 \in Nat /\ MaxIter \in Nat /\ 1 \in 1..MaxIter
      BY <1>2
    <2>a. \A i \in 1..MaxIter : u[i] = U[i][1]
      OBVIOUS
    <2> HIDE DEF u
    <2>b. X(1) = u[1] /\ \A i \in 1..MaxIter : i # 1 => X(i) = Xor(X(i - 1), u[i])
      <3>1. \A i \in 1..MaxIter : i \in Nat \ {0}
        BY <1>2
      <3> QED BY <2>0, <3>1, XorOneMore
    <2> HIDE DEF X
    <2>1. 1 \in S
      BY <1>5, <1>6, <1>9, <2>0, <2>a, <2>b
    <2>2. ASSUME NEW i \in 1..MaxIter, i # 1, i - 1 \in S PROVE i \in S
      <3>1. DOMAIN f[i - 1].res = 1..1 /\ f[i - 1].res[1] = X(i - 1)
        BY <2>2
      <3>2. i - 1 \in 1..MaxIter
        BY <2>2
      <3>3. Nx(f[i - 1].Ust) = U[i]
        BY <1>9, <1>10, <2>2, <3>2
      <3>4. f[i].res = XorSeq(f[i - 1].res, U[i])
        BY <1>7, <2>2, <3>3
      <3>5. DOMAIN f[i].res = 1..1 /\ f[i].res[1] = Xor(f[i - 1].res[1], U[i][1])
        <4>1. 1 \in 1..1
          OBVIOUS
        <4> DEFINE q == f[i - 1].res
        <4>2. f[i].res = [j \in DOMAIN q |-> Xor(q[j], U[i][j])]
          BY <3>4 DEF XorSeq
        <4>3. DOMAIN q = 1..1
          BY <3>1
        <4> HIDE DEF q
        <4>4. DOMAIN f[i].res = 1..1 /\ f[i].res[1] = Xor(q[1], U[i][1])
          BY ONLY <4>1, <4>2, <4>3
        <4> QED BY <4>4 DEF q
      <3>6. f[i].res[1] = X(i)
        BY <2>2, <2>a, <2>b, <3>1, <3>5
      <3> QED BY <3>5, <3>6
    <2> HIDE DEF S
    <2>3. \A i \in 1..MaxIter : i \in S
      <3>1. \A i \in 1..MaxIter : i # 1 /\ i - 1 \in S => i \in S
        BY <2>2
      <3> QED BY ONLY <2>0, <2>1, <3>1, IntervalInduction
    <2> QED BY <2>3 DEF S
  <1>12. [i \in 1..n |-> u[i]] = [i \in 1..n |-> U[i][1]]
    <2>1. \A i \in 1..n : i \in 1..MaxIter
      BY <1>2
    <2>2. \A i \in 1..n : u[i] = U[i][1]
      BY <2>1
    <2> HIDE DEF u
    <2> QED BY <2>2
  <1>13. f[n].res[1] = XorAll([i \in 1..n |-> U[i][1]])
    <2> HIDE DEF u
    <2> QED BY <1>2, <1>11, <1>12
  <1>14. \A b \in 1..Hash.sha1.digest : b = 1
    BY <1>2
  <1> QED BY <1>1, <1>3, <1>13, <1>14

(* hmac is that of RFC 2104 and LscramHi the Hi of RFC 5802, for every size *)
(* of the block, every length of the key and every count of iterations      *)
(* (hashes.c:77-196).                                                       *)
THEOREM ScramHolds == HashSpec => []ScramRight
  <1>1. CallInv => ScramRight
    BY HmacOf, HiOf DEF ScramRight
  <1> QED BY CallInductive, <1>1, PTL

-----------------------------------------------------------------------------
(* Random bytes.                                                            *)
(* What is asked for and what was written add up to what the int made of the length. *)
RndInv ==
    /\ rnd \in [at : {"idle", "loop", "done", "failed"}, len : Nat, left : Int, filled : Nat]
    /\ rnd.filled <= rnd.len
    /\ rnd.at = "loop" =>
        \/ rnd.left >= 0 /\ rnd.filled + rnd.left = ToInt(rnd.len) /\ (rnd.left = 0 => rnd.filled = 0)
        \/ rnd.left < 0 /\ rnd.filled = 0 /\ ToInt(rnd.len) = rnd.left
    /\ rnd.at = "done" /\ rnd.len < IntWord \div 2 => rnd.filled = rnd.len

(* The int made of a size_t is at most that number, equal to it when it     *)
(* fits, and negative only when it does not (crand.c:90).                   *)
LEMMA ToIntFacts ==
    ASSUME NEW n \in Nat
    PROVE  /\ ToInt(n) \in Int
           /\ ToInt(n) <= n
           /\ n < IntWord \div 2 => ToInt(n) = n
           /\ ToInt(n) < 0 => n >= IntWord \div 2
           /\ IntWord \div 2 \in Nat
  <1> DEFINE h == IntWord \div 2
  <1>0. h \in Nat /\ h > 0 /\ IntWord = 2 * h
    BY HashAssumption
  <1> HIDE DEF h
  <1>1. n % IntWord \in 0..IntWord - 1 /\ n % IntWord <= n
    BY <1>0
  <1>2. n < h => n % IntWord = n
    BY <1>0
  <1>3. ToInt(n) = IF n % IntWord >= h THEN (n % IntWord) - IntWord ELSE n % IntWord
    BY DEF ToInt, h
  <1>4. /\ ToInt(n) \in Int /\ ToInt(n) <= n /\ (n < h => ToInt(n) = n) /\ (ToInt(n) < 0 => n >= h)
    <2> DEFINE m == n % IntWord
    <2> HIDE DEF m
    <2>1. m \in 0..IntWord - 1 /\ m <= n /\ (n < h => m = n) /\ ToInt(n) = IF m >= h THEN m - IntWord ELSE m
      BY <1>1, <1>2, <1>3 DEF m
    <2> QED BY <2>1, <1>0
  <1> QED BY <1>4, <1>0 DEF h

(* Lrandom never writes behind its buffer and leaves no byte of it unset,   *)
(* however getrandom cuts its answers, for every width of an int and every  *)
(* length it can hold (crand.c:69-124).                                     *)
THEOREM RandomFilledHolds == HashSpec => []RandomFilled
  <1>1. HashInit => RndInv
    BY DEF HashInit, RndInv
  <1>2. RndInv /\ [HashNext]_hashVars => RndInv'
    <2> SUFFICES ASSUME RndInv, [HashNext]_hashVars PROVE RndInv'
      OBVIOUS
    <2>1. ASSUME NEW len \in RandomLens, Lrandom(len) PROVE RndInv'
      <3>1. len \in Nat /\ 0 \in Nat /\ 0 \in Int
        BY HashAssumption
      <3>2. CASE len = 0
        BY <2>1, <3>1, <3>2 DEF Lrandom, RndInv
      <3>3. CASE len # 0
        <4>1. rnd' = [at |-> "loop", len |-> len, left |-> ToInt(len), filled |-> 0]
          BY <2>1, <3>3 DEF Lrandom
        <4>2. ToInt(len) \in Int /\ (ToInt(len) >= 0 \/ ToInt(len) < 0)
          BY <3>1, ToIntFacts
        <4> QED BY <4>1, <4>2, <3>1 DEF RndInv
      <3> QED BY <3>2, <3>3
    <2>2. ASSUME NEW got \in 0..IntWord, GetRandom(got) PROVE RndInv'
      <3> DEFINE h == IntWord \div 2
      <3>1. /\ rnd \in [at : {"idle", "loop", "done", "failed"}, len : Nat, left : Int, filled : Nat]
            /\ rnd.at = "loop" /\ got \in Nat
            /\ got > 0 \/ rnd.left = 0
            /\ got <= IF rnd.left < 0 THEN h - 1 ELSE rnd.left
            /\ rnd' = [rnd EXCEPT !.left = @ - got, !.filled = @ + got,
                          !.at = IF rnd.left - got > 0 THEN "loop" ELSE "done"]
        BY <2>2, HashAssumption DEF GetRandom, RndInv
      <3>2. PICK len \in Nat, left \in Int, filled \in Nat : 
               rnd = [at |-> "loop", len |-> len, left |-> left, filled |-> filled]
        BY <3>1
      <3>3. /\ filled <= len
            /\ \/ left >= 0 /\ filled + left = ToInt(len) /\ (left = 0 => filled = 0)
               \/ left < 0 /\ filled = 0 /\ ToInt(len) = left
        BY <3>2 DEF RndInv
      <3>4. rnd' = [at |-> IF left - got > 0 THEN "loop" ELSE "done", len |-> len, left |-> left - got, filled |-> filled + got]
        BY <3>1, <3>2
      <3>5. /\ ToInt(len) \in Int /\ ToInt(len) <= len
            /\ (len < h => ToInt(len) = len) /\ (ToInt(len) < 0 => len >= h)
            /\ h \in Nat
        BY ToIntFacts
      <3>6. /\ got > 0 \/ left = 0
            /\ got <= IF left < 0 THEN h - 1 ELSE left
        BY <3>1, <3>2
      <3> HIDE DEF h
      <3>7. /\ filled + got \in Nat /\ left - got \in Int /\ filled + got <= len
            /\ left - got > 0 => 
                 /\ (filled + got) + (left - got) = ToInt(len)
            /\ ~(left - got > 0) /\ len < h => filled + got = len
        BY ONLY <3>1, <3>3, <3>5, <3>6
      <3>8. /\ rnd'.at = (IF left - got > 0 THEN "loop" ELSE "done") /\ rnd'.len = len
            /\ rnd'.left = left - got /\ rnd'.filled = filled + got
            /\ rnd' \in [at : {"idle", "loop", "done", "failed"}, len : Nat, left : Int, filled : Nat]
        BY <3>4, <3>7
      <3>9. CASE left - got > 0
        BY <3>7, <3>8, <3>9 DEF RndInv
      <3>10. CASE ~(left - got > 0)
        BY <3>7, <3>8, <3>10 DEF RndInv, h
      <3> QED BY <3>9, <3>10
    <2>3. CASE RandomFails
      BY <2>3 DEF RandomFails, RndInv
    <2>4. CASE RandomReturns
      BY <2>4 DEF RandomReturns, RndInv
    <2>5. CASE Hashing
      BY <2>5 DEF Hashing, Compute, RndInv
    <2>6. CASE UNCHANGED hashVars
      BY <2>6 DEF hashVars, RndInv
    <2> QED BY <2>1, <2>2, <2>3, <2>4, <2>5, <2>6 DEF HashNext, Drawing
  <1>3. RndInv => RandomFilled
    BY DEF RndInv, RandomFilled
  <1> QED BY <1>1, <1>2, <1>3, PTL DEF HashSpec
-----------------------------------------------------------------------------
(* Base64.                                                                  *)
(* Quotients, remainders and binary digits, where the provers need not know *)
(* what they are.                                                           *)
Quo(x, k) == x \div k
Rem(x, k) == x % k
Digit(x, k) == x \div k % 2
ByteAt(s, n) == IF n < Len(s) THEN s[n + 1] ELSE 0

(* The eight bits of a byte, in their order. *)
BitsAt(s, n, b) ==
    /\ b \in 0..255
    /\ ByteBit(s, 8 * n) = Digit(b, 128)
    /\ ByteBit(s, 8 * n + 1) = Digit(b, 64)
    /\ ByteBit(s, 8 * n + 2) = Digit(b, 32)
    /\ ByteBit(s, 8 * n + 3) = Digit(b, 16)
    /\ ByteBit(s, 8 * n + 4) = Digit(b, 8)
    /\ ByteBit(s, 8 * n + 5) = Digit(b, 4)
    /\ ByteBit(s, 8 * n + 6) = Digit(b, 2)
    /\ ByteBit(s, 8 * n + 7) = Digit(b, 1)

(* A byte of a string has its eight bits, from the highest on. *)
LEMMA ByteBitIs ==
    ASSUME NEW s \in Seq(0..255), NEW n \in Nat
    PROVE  BitsAt(s, n, ByteAt(s, n))
  <1> DEFINE b == ByteAt(s, n)
             w == <<128, 64, 32, 16, 8, 4, 2, 1>>
  <1>1. b \in 0..255
    <2>1. n < Len(s) => n + 1 \in 1..Len(s)
      OBVIOUS
    <2>2. n < Len(s) => s[n + 1] \in 0..255
      BY <2>1, ElementOfSeq
    <2> QED BY <2>2 DEF ByteAt
  <1>2. \A j \in 0..7 : (8 * n + j) \div 8 = n /\ (8 * n + j) % 8 = j
    OBVIOUS
  <1>3. ASSUME NEW j \in 0..7 PROVE ByteBit(s, 8 * n + j) = Digit(b, w[j + 1])
    <2>1. CASE n < Len(s)
      <3>1. 8 * n + j < 8 * Len(s)
        BY <2>1
      <3> QED BY <3>1, <1>2, <2>1 DEF ByteBit, ByteAt, Digit
    <2>2. CASE ~(n < Len(s))
      <3>1. ~(8 * n + j < 8 * Len(s))
        BY <2>2
      <3>2. w[j + 1] \in Nat \ {0}
        OBVIOUS
      <3>3. 0 \div w[j + 1] = 0
        BY <3>2
      <3> QED BY <3>1, <2>2, <3>3 DEF ByteBit, ByteAt, Digit
    <2> QED BY <2>1, <2>2
  <1>4. /\ w[0 + 1] = 128 /\ w[1 + 1] = 64 /\ w[2 + 1] = 32 /\ w[3 + 1] = 16
        /\ w[4 + 1] = 8 /\ w[5 + 1] = 4 /\ w[6 + 1] = 2 /\ w[7 + 1] = 1
    OBVIOUS
  <1> HIDE DEF b, w
  <1>5. 8 * n + 0 = 8 * n
    OBVIOUS
  <1>6. /\ ByteBit(s, 8 * n + 0) = Digit(b, w[0 + 1])
        /\ ByteBit(s, 8 * n + 1) = Digit(b, w[1 + 1])
        /\ ByteBit(s, 8 * n + 2) = Digit(b, w[2 + 1])
        /\ ByteBit(s, 8 * n + 3) = Digit(b, w[3 + 1])
        /\ ByteBit(s, 8 * n + 4) = Digit(b, w[4 + 1])
        /\ ByteBit(s, 8 * n + 5) = Digit(b, w[5 + 1])
        /\ ByteBit(s, 8 * n + 6) = Digit(b, w[6 + 1])
        /\ ByteBit(s, 8 * n + 7) = Digit(b, w[7 + 1])
    BY <1>3
  <1>7. BitsAt(s, n, b)
    BY ONLY <1>1, <1>4, <1>5, <1>6, Zenon DEF BitsAt
  <1> QED BY <1>7 DEF b

(* The binary digits of a byte come from its quotients. *)
DigitsOf(a) ==
    /\ Digit(a, 128) = Quo(a, 128) /\ Quo(a, 128) \in Int
    /\ Digit(a, 64) = Quo(a, 64) - 2 * Quo(a, 128) /\ Quo(a, 64) \in Int
    /\ Digit(a, 32) = Quo(a, 32) - 2 * Quo(a, 64) /\ Quo(a, 32) \in Int
    /\ Digit(a, 16) = Quo(a, 16) - 2 * Quo(a, 32) /\ Quo(a, 16) \in Int
    /\ Digit(a, 8) = Quo(a, 8) - 2 * Quo(a, 16) /\ Quo(a, 8) \in Int
    /\ Digit(a, 4) = Quo(a, 4) - 2 * Quo(a, 8) /\ Quo(a, 4) \in Int
    /\ Digit(a, 2) = Quo(a, 2) - 2 * Quo(a, 4) /\ Quo(a, 2) \in Int
    /\ Digit(a, 1) = a - 2 * Quo(a, 2)
    /\ Rem(a, 4) = a - 4 * Quo(a, 4)
    /\ Rem(a, 16) = a - 16 * Quo(a, 16)
    /\ Rem(a, 64) = a - 64 * Quo(a, 64)

(* A byte is the sum of its bits, each at its weight. *)
LEMMA Digits ==
    ASSUME NEW a \in 0..255
    PROVE  DigitsOf(a)
  <1>1. Digit(a, 128) = Quo(a, 128) /\ Quo(a, 128) \in Int
    BY DEF Digit, Quo
  <1>2. Digit(a, 64) = Quo(a, 64) - 2 * Quo(a, 128) /\ Quo(a, 64) \in Int
    BY DEF Digit, Quo
  <1>3. Digit(a, 32) = Quo(a, 32) - 2 * Quo(a, 64) /\ Quo(a, 32) \in Int
    BY DEF Digit, Quo
  <1>4. Digit(a, 16) = Quo(a, 16) - 2 * Quo(a, 32) /\ Quo(a, 16) \in Int
    BY DEF Digit, Quo
  <1>5. Digit(a, 8) = Quo(a, 8) - 2 * Quo(a, 16) /\ Quo(a, 8) \in Int
    BY DEF Digit, Quo
  <1>6. Digit(a, 4) = Quo(a, 4) - 2 * Quo(a, 8) /\ Quo(a, 4) \in Int
    BY DEF Digit, Quo
  <1>7. Digit(a, 2) = Quo(a, 2) - 2 * Quo(a, 4) /\ Quo(a, 2) \in Int
    BY DEF Digit, Quo
  <1>8. Digit(a, 1) = a - 2 * Quo(a, 2)
    BY DEF Digit, Quo
  <1>9. Rem(a, 4) = a - 4 * Quo(a, 4)
    BY DEF Rem, Quo
  <1>10. Rem(a, 16) = a - 16 * Quo(a, 16)
    BY DEF Rem, Quo
  <1>11. Rem(a, 64) = a - 64 * Quo(a, 64)
    BY DEF Rem, Quo
  <1> QED BY <1>1, <1>2, <1>3, <1>4, <1>5, <1>6, <1>7, <1>8, <1>9, <1>10, <1>11 DEF DigitsOf

(* Six bits of a byte, or of two. *)
LEMMA SixOf ==
    ASSUME NEW a \in 0..255, NEW b \in 0..255
    PROVE  /\ 32 * Digit(a, 128) + 16 * Digit(a, 64) + 8 * Digit(a, 32) + 4 * Digit(a, 16)
            + 2 * Digit(a, 8) + Digit(a, 4)
              = Quo(a, 4)
           /\ 32 * Digit(a, 2) + 16 * Digit(a, 1) + 8 * Digit(b, 128) + 4 * Digit(b, 64)
                   + 2 * Digit(b, 32) + Digit(b, 16)
              = 16 * Rem(a, 4) + Quo(b, 16)
           /\ 32 * Digit(a, 8) + 16 * Digit(a, 4) + 8 * Digit(a, 2) + 4 * Digit(a, 1)
                   + 2 * Digit(b, 128) + Digit(b, 64)
              = 4 * Rem(a, 16) + Quo(b, 64)
           /\ 32 * Digit(a, 32) + 16 * Digit(a, 16) + 8 * Digit(a, 8) + 4 * Digit(a, 4)
                   + 2 * Digit(a, 2) + Digit(a, 1)
              = Rem(a, 64)
  <1>1. DigitsOf(a) /\ DigitsOf(b) /\ a \in Int /\ b \in Int
    BY Digits
  <1> QED BY ONLY <1>1 DEF DigitsOf

(* The groups of six bits of three bytes. *)
LEMMA SixBitsAre ==
    ASSUME NEW s \in Seq(0..255), NEW m \in Nat
    PROVE  /\ SixBits(s, 4 * m) = Quo(ByteAt(s, 3 * m), 4)
           /\ SixBits(s, 4 * m + 1) = 16 * Rem(ByteAt(s, 3 * m), 4) + Quo(ByteAt(s, 3 * m + 1), 16)
           /\ SixBits(s, 4 * m + 2) = 4 * Rem(ByteAt(s, 3 * m + 1), 16) + Quo(ByteAt(s, 3 * m + 2), 64)
           /\ SixBits(s, 4 * m + 3) = Rem(ByteAt(s, 3 * m + 2), 64)
  <1> DEFINE a == ByteAt(s, 3 * m)
             b == ByteAt(s, 3 * m + 1)
             c == ByteAt(s, 3 * m + 2)
  <1>1. BitsAt(s, 3 * m, a) /\ BitsAt(s, 3 * m + 1, b) /\ BitsAt(s, 3 * m + 2, c)
    <2>1. 3 * m \in Nat /\ 3 * m + 1 \in Nat /\ 3 * m + 2 \in Nat
      OBVIOUS
    <2> QED BY <2>1, ByteBitIs
  <1>2. a \in 0..255 /\ b \in 0..255 /\ c \in 0..255
    BY <1>1 DEF BitsAt
  <1> HIDE DEF a, b, c
  <1>4. SixBits(s, 4 * m) = Quo(a, 4)
    <2>1. /\ 6 * (4 * m) = 8 * (3 * m)
          /\ 6 * (4 * m) + 1 = 8 * (3 * m) + 1
          /\ 6 * (4 * m) + 2 = 8 * (3 * m) + 2
          /\ 6 * (4 * m) + 3 = 8 * (3 * m) + 3
          /\ 6 * (4 * m) + 4 = 8 * (3 * m) + 4
          /\ 6 * (4 * m) + 5 = 8 * (3 * m) + 5
      OBVIOUS
    <2>2. SixBits(s, 4 * m) = 32 * Digit(a, 128) + 16 * Digit(a, 64) + 8 * Digit(a, 32)
            + 4 * Digit(a, 16) + 2 * Digit(a, 8) + Digit(a, 4)
      BY <2>1, <1>1 DEF SixBits, BitsAt
    <2> QED BY <2>2, <1>2, SixOf
  <1>5. SixBits(s, 4 * m + 1) = 16 * Rem(a, 4) + Quo(b, 16)
    <2>1. /\ 6 * (4 * m + 1) = 8 * (3 * m) + 6
          /\ 6 * (4 * m + 1) + 1 = 8 * (3 * m) + 7
          /\ 6 * (4 * m + 1) + 2 = 8 * (3 * m + 1)
          /\ 6 * (4 * m + 1) + 3 = 8 * (3 * m + 1) + 1
          /\ 6 * (4 * m + 1) + 4 = 8 * (3 * m + 1) + 2
          /\ 6 * (4 * m + 1) + 5 = 8 * (3 * m + 1) + 3
      OBVIOUS
    <2>2. SixBits(s, 4 * m + 1) = 32 * Digit(a, 2) + 16 * Digit(a, 1) + 8 * Digit(b, 128)
            + 4 * Digit(b, 64) + 2 * Digit(b, 32) + Digit(b, 16)
      BY <2>1, <1>1 DEF SixBits, BitsAt
    <2> QED BY <2>2, <1>2, SixOf
  <1>6. SixBits(s, 4 * m + 2) = 4 * Rem(b, 16) + Quo(c, 64)
    <2>1. /\ 6 * (4 * m + 2) = 8 * (3 * m + 1) + 4
          /\ 6 * (4 * m + 2) + 1 = 8 * (3 * m + 1) + 5
          /\ 6 * (4 * m + 2) + 2 = 8 * (3 * m + 1) + 6
          /\ 6 * (4 * m + 2) + 3 = 8 * (3 * m + 1) + 7
          /\ 6 * (4 * m + 2) + 4 = 8 * (3 * m + 2)
          /\ 6 * (4 * m + 2) + 5 = 8 * (3 * m + 2) + 1
      OBVIOUS
    <2>2. SixBits(s, 4 * m + 2) = 32 * Digit(b, 8) + 16 * Digit(b, 4) + 8 * Digit(b, 2)
            + 4 * Digit(b, 1) + 2 * Digit(c, 128) + Digit(c, 64)
      BY <2>1, <1>1 DEF SixBits, BitsAt
    <2> QED BY <2>2, <1>2, SixOf
  <1>7. SixBits(s, 4 * m + 3) = Rem(c, 64)
    <2>1. /\ 6 * (4 * m + 3) = 8 * (3 * m + 2) + 2
          /\ 6 * (4 * m + 3) + 1 = 8 * (3 * m + 2) + 3
          /\ 6 * (4 * m + 3) + 2 = 8 * (3 * m + 2) + 4
          /\ 6 * (4 * m + 3) + 3 = 8 * (3 * m + 2) + 5
          /\ 6 * (4 * m + 3) + 4 = 8 * (3 * m + 2) + 6
          /\ 6 * (4 * m + 3) + 5 = 8 * (3 * m + 2) + 7
      OBVIOUS
    <2>2. SixBits(s, 4 * m + 3) = 32 * Digit(c, 32) + 16 * Digit(c, 16) + 8 * Digit(c, 8)
            + 4 * Digit(c, 4) + 2 * Digit(c, 2) + Digit(c, 1)
      BY <2>1, <1>1 DEF SixBits, BitsAt
    <2> QED BY <2>2, <1>2, SixOf
  <1> QED BY <1>4, <1>5, <1>6, <1>7 DEF a, b, c

(* A number, by quotient and remainder. *)
LEMMA Parts ==
    ASSUME NEW a \in 0..255
    PROVE  /\ Quo(a, 4) \in 0..63 /\ Rem(a, 4) \in 0..3 /\ a = 4 * Quo(a, 4) + Rem(a, 4)
           /\ Quo(a, 16) \in 0..15 /\ Rem(a, 16) \in 0..15 /\ a = 16 * Quo(a, 16) + Rem(a, 16)
           /\ Quo(a, 64) \in 0..3 /\ Rem(a, 64) \in 0..63 /\ a = 64 * Quo(a, 64) + Rem(a, 64)
  <1>1. Quo(a, 4) \in 0..63 /\ Rem(a, 4) \in 0..3 /\ a = 4 * Quo(a, 4) + Rem(a, 4)
    BY DEF Quo, Rem
  <1>2. Quo(a, 16) \in 0..15 /\ Rem(a, 16) \in 0..15 /\ a = 16 * Quo(a, 16) + Rem(a, 16)
    BY DEF Quo, Rem
  <1>3. Quo(a, 64) \in 0..3 /\ Rem(a, 64) \in 0..63 /\ a = 64 * Quo(a, 64) + Rem(a, 64)
    BY DEF Quo, Rem
  <1> QED BY <1>1, <1>2, <1>3

(* The four characters that three bytes become. *)
LEMMA EncodeIs ==
    ASSUME NEW a \in 0..255, NEW b \in 0..255, NEW c \in 0..255, NEW n \in 1..3
    PROVE  base64_encode(a, b, c, n) =
             <<Quo(a, 4), 16 * Rem(a, 4) + Quo(b, 16),
               IF n > 1 THEN 4 * Rem(b, 16) + Quo(c, 64) ELSE Pad,
               IF n > 2 THEN Rem(c, 64) ELSE Pad>>
  <1> DEFINE tuple == c + 256 * (b + 256 * a)
             a1 == Quo(a, 4)
             a0 == Rem(a, 4)
             b1 == Quo(b, 16)
             b0 == Rem(b, 16)
             c1 == Quo(c, 64)
             c0 == Rem(c, 64)
  <1>0. /\ a1 \in 0..63 /\ a0 \in 0..3 /\ a = 4 * a1 + a0
        /\ b1 \in 0..15 /\ b0 \in 0..15 /\ b = 16 * b1 + b0
        /\ c1 \in 0..3 /\ c0 \in 0..63 /\ c = 64 * c1 + c0
    BY Parts
  <1> HIDE DEF a1, a0, b1, b0, c1, c0
  <1>x. /\ tuple = 262144 * a1 + 65536 * a0 + 4096 * b1 + 256 * b0 + 64 * c1 + c0
        /\ tuple \in Int
    BY ONLY <1>0, SMT
  <1> HIDE DEF tuple
  <1>1. tuple \div 262144 % 64 = a1
    <2>1. tuple \div 262144 = a1
      BY ONLY <1>0, <1>x, SMTT(30)
    <2> QED BY ONLY <2>1, <1>0, SMT
  <1>2. tuple \div 4096 % 64 = 16 * a0 + b1
    <2>1. tuple \div 4096 = 64 * a1 + 16 * a0 + b1
      BY ONLY <1>0, <1>x, SMTT(30)
    <2> QED BY ONLY <2>1, <1>0, SMT
  <1>3. tuple \div 64 % 64 = 4 * b0 + c1
    <2>1. tuple \div 64 = 64 * (64 * a1 + 16 * a0 + b1) + 4 * b0 + c1
      BY ONLY <1>0, <1>x, SMTT(30)
    <2> QED BY ONLY <2>1, <1>0, SMT
  <1>4. tuple \div 1 % 64 = c0
    <2>1. tuple \div 1 = tuple
      BY ONLY <1>x, SMT
    <2>2. tuple % 64 = c0
      BY ONLY <1>0, <1>x, SMTT(30)
    <2> QED BY <2>1, <2>2
  <1> DEFINE e == base64_encode(a, b, c, n)
             w == <<262144, 4096, 64, 1>>
  <1>5. e = [i \in 1..4 |-> IF i > n + 1 THEN Pad ELSE tuple \div w[i] % 64]
    BY SMT DEF base64_encode, tuple
  <1>6. w[1] = 262144 /\ w[2] = 4096 /\ w[3] = 64 /\ w[4] = 1
    OBVIOUS
  <1> HIDE DEF e, tuple, w
  <1>7. /\ e[1] = a1
        /\ e[2] = 16 * a0 + b1
        /\ e[3] = IF n > 1 THEN 4 * b0 + c1 ELSE Pad
        /\ e[4] = IF n > 2 THEN c0 ELSE Pad
    <2>1. /\ e[1] = IF 1 > n + 1 THEN Pad ELSE tuple \div w[1] % 64
          /\ e[2] = IF 2 > n + 1 THEN Pad ELSE tuple \div w[2] % 64
          /\ e[3] = IF 3 > n + 1 THEN Pad ELSE tuple \div w[3] % 64
          /\ e[4] = IF 4 > n + 1 THEN Pad ELSE tuple \div w[4] % 64
      BY <1>5
    <2> QED BY <2>1, <1>1, <1>2, <1>3, <1>4, <1>6, SMT
  <1>8. e = <<e[1], e[2], e[3], e[4]>>
    BY <1>5
  <1> QED BY <1>7, <1>8 DEF e, a1, a0, b1, b0, c1, c0

(* The bytes that two characters of a group make. *)
Octet1(x, y) == 4 * x + Quo(y, 16)
Octet2(y, z) == 16 * Rem(y, 16) + Quo(z, 4)
Octet3(z, u) == 64 * Rem(z, 4) + u

(* What two characters make is a byte. *)
LEMMA OctetsAreBytes ==
    ASSUME NEW x \in 0..63, NEW y \in 0..63
    PROVE  Octet1(x, y) \in 0..255 /\ Octet2(x, y) \in 0..255 /\ Octet3(x, y) \in 0..255
  <1>1. Quo(y, 16) \in 0..3 /\ Rem(x, 16) \in 0..15 /\ Quo(y, 4) \in 0..15 /\ Rem(x, 4) \in 0..3
    BY DEF Quo, Rem
  <1> QED BY <1>1 DEF Octet1, Octet2, Octet3

(* The six bits of a character, in their order. *)
CharBitsAt(run, n, c) ==
    /\ CharBit(run, 6 * n) = Digit(c, 32)
    /\ CharBit(run, 6 * n + 1) = Digit(c, 16)
    /\ CharBit(run, 6 * n + 2) = Digit(c, 8)
    /\ CharBit(run, 6 * n + 3) = Digit(c, 4)
    /\ CharBit(run, 6 * n + 4) = Digit(c, 2)
    /\ CharBit(run, 6 * n + 5) = Digit(c, 1)

(* A character has its six bits, from the highest on. *)
LEMMA CharBitIs ==
    ASSUME NEW run, NEW n \in Nat
    PROVE  CharBitsAt(run, n, run[n + 1])
  <1> DEFINE c == run[n + 1]
             w == <<32, 16, 8, 4, 2, 1>>
  <1>1. \A j \in 0..5 : (6 * n + j) \div 6 = n /\ (6 * n + j) % 6 = j
    OBVIOUS
  <1>2. ASSUME NEW j \in 0..5 PROVE CharBit(run, 6 * n + j) = Digit(c, w[j + 1])
    BY <1>1 DEF CharBit, Digit
  <1>3. /\ w[0 + 1] = 32 /\ w[1 + 1] = 16 /\ w[2 + 1] = 8
        /\ w[3 + 1] = 4 /\ w[4 + 1] = 2 /\ w[5 + 1] = 1
    OBVIOUS
  <1> HIDE DEF c, w
  <1>4. 6 * n + 0 = 6 * n
    OBVIOUS
  <1>5. /\ CharBit(run, 6 * n + 0) = Digit(c, w[0 + 1])
        /\ CharBit(run, 6 * n + 1) = Digit(c, w[1 + 1])
        /\ CharBit(run, 6 * n + 2) = Digit(c, w[2 + 1])
        /\ CharBit(run, 6 * n + 3) = Digit(c, w[3 + 1])
        /\ CharBit(run, 6 * n + 4) = Digit(c, w[4 + 1])
        /\ CharBit(run, 6 * n + 5) = Digit(c, w[5 + 1])
    BY <1>2
  <1>6. CharBitsAt(run, n, c)
    BY ONLY <1>3, <1>4, <1>5, Zenon DEF CharBitsAt
  <1> QED BY <1>6 DEF c

(* The sums that the bits of a character make in a byte. *)
SumsOf(x) ==
    /\ \A k \in {1, 2, 4, 8, 16, 32} : Digit(x, k) \in Int
    /\ 2 * Digit(x, 32) + Digit(x, 16) = Quo(x, 16)
    /\ 8 * Digit(x, 32) + 4 * Digit(x, 16) + 2 * Digit(x, 8) + Digit(x, 4) = Quo(x, 4)
    /\ 2 * Digit(x, 2) + Digit(x, 1) = Rem(x, 4)
    /\ 8 * Digit(x, 8) + 4 * Digit(x, 4) + 2 * Digit(x, 2) + Digit(x, 1) = Rem(x, 16)
    /\ 32 * Digit(x, 32) + 16 * Digit(x, 16) + 8 * Digit(x, 8) + 4 * Digit(x, 4)
        + 2 * Digit(x, 2) + Digit(x, 1) = x

(* The bits of a byte that two characters make, as a sum. *)
LEMMA Sums ==
    ASSUME NEW x \in 0..63
    PROVE  SumsOf(x)
  <1>1. DigitsOf(x) /\ x \in Int
    BY Digits
  <1>2. Quo(x, 64) = 0
    BY DEF Quo
  <1>3. /\ 2 * Digit(x, 32) + Digit(x, 16) = Quo(x, 16) - 4 * Quo(x, 64)
        /\ 8 * Digit(x, 32) + 4 * Digit(x, 16) + 2 * Digit(x, 8) + Digit(x, 4)
           = Quo(x, 4) - 16 * Quo(x, 64)
        /\ 2 * Digit(x, 2) + Digit(x, 1) = Rem(x, 4)
        /\ 8 * Digit(x, 8) + 4 * Digit(x, 4) + 2 * Digit(x, 2) + Digit(x, 1) = Rem(x, 16)
    BY ONLY <1>1, SMT DEF DigitsOf
  <1>4. 32 * Digit(x, 32) + 16 * Digit(x, 16) + 8 * Digit(x, 8) + 4 * Digit(x, 4)
        + 2 * Digit(x, 2) + Digit(x, 1) = x - 64 * Quo(x, 64)
    BY ONLY <1>1, SMT DEF DigitsOf
  <1>5. \A k \in {1, 2, 4, 8, 16, 32} : Digit(x, k) \in Int
    <2>1. /\ Digit(x, 1) \in Int /\ Digit(x, 2) \in Int /\ Digit(x, 4) \in Int
          /\ Digit(x, 8) \in Int /\ Digit(x, 16) \in Int /\ Digit(x, 32) \in Int
      BY ONLY <1>1, SMT DEF DigitsOf
    <2> QED BY ONLY <2>1
  <1>6. Quo(x, 16) - 4 * Quo(x, 64) = Quo(x, 16) /\ Quo(x, 4) - 16 * Quo(x, 64) = Quo(x, 4) /\ x - 64 * Quo(x, 64) = x
    <2>1. Quo(x, 16) \in Int /\ Quo(x, 4) \in Int
      BY ONLY <1>1 DEF DigitsOf
    <2> QED BY ONLY <1>1, <1>2, <2>1, SMT
  <1> QED BY ONLY <1>3, <1>4, <1>5, <1>6, Zenon DEF SumsOf

(* Eight bits of two characters. *)
LEMMA EightOf ==
    ASSUME NEW x \in 0..63, NEW y \in 0..63
    PROVE  /\ 128 * Digit(x, 32) + 64 * Digit(x, 16) + 32 * Digit(x, 8) + 16 * Digit(x, 4)
            + 8 * Digit(x, 2) + 4 * Digit(x, 1) + 2 * Digit(y, 32) + Digit(y, 16)
              = Octet1(x, y)
           /\ 128 * Digit(x, 8) + 64 * Digit(x, 4) + 32 * Digit(x, 2) + 16 * Digit(x, 1)
                   + 8 * Digit(y, 32) + 4 * Digit(y, 16) + 2 * Digit(y, 8) + Digit(y, 4)
              = Octet2(x, y)
           /\ 128 * Digit(x, 2) + 64 * Digit(x, 1) + 32 * Digit(y, 32) + 16 * Digit(y, 16)
                   + 8 * Digit(y, 8) + 4 * Digit(y, 4) + 2 * Digit(y, 2) + Digit(y, 1)
              = Octet3(x, y)
  <1>1. SumsOf(x) /\ SumsOf(y)
    BY Sums
  <1>2. /\ Digit(x, 1) \in Int /\ Digit(x, 2) \in Int /\ Digit(x, 4) \in Int
        /\ Digit(x, 8) \in Int /\ Digit(x, 16) \in Int /\ Digit(x, 32) \in Int
        /\ Digit(y, 1) \in Int /\ Digit(y, 2) \in Int /\ Digit(y, 4) \in Int
        /\ Digit(y, 8) \in Int /\ Digit(y, 16) \in Int /\ Digit(y, 32) \in Int
    BY <1>1, SMT DEF SumsOf
  <1>3. 128 * Digit(x, 32) + 64 * Digit(x, 16) + 32 * Digit(x, 8) + 16 * Digit(x, 4)
          + 8 * Digit(x, 2) + 4 * Digit(x, 1) + 2 * Digit(y, 32) + Digit(y, 16)
          = Octet1(x, y)
    <2>1. /\ 32 * Digit(x, 32) + 16 * Digit(x, 16) + 8 * Digit(x, 8) + 4 * Digit(x, 4)
            + 2 * Digit(x, 2) + Digit(x, 1) = x
          /\ 2 * Digit(y, 32) + Digit(y, 16) = Quo(y, 16)
      BY <1>1 DEF SumsOf
    <2>2. 128 * Digit(x, 32) + 64 * Digit(x, 16) + 32 * Digit(x, 8) + 16 * Digit(x, 4)
            + 8 * Digit(x, 2) + 4 * Digit(x, 1) + 2 * Digit(y, 32) + Digit(y, 16)
            = 4 * (32 * Digit(x, 32) + 16 * Digit(x, 16) + 8 * Digit(x, 8) + 4 * Digit(x, 4)
                    + 2 * Digit(x, 2) + Digit(x, 1)) + (2 * Digit(y, 32) + Digit(y, 16))
      BY ONLY <1>2, SMT
    <2> QED BY ONLY <2>1, <2>2, Zenon DEF Octet1
  <1>4. 128 * Digit(x, 8) + 64 * Digit(x, 4) + 32 * Digit(x, 2) + 16 * Digit(x, 1)
          + 8 * Digit(y, 32) + 4 * Digit(y, 16) + 2 * Digit(y, 8) + Digit(y, 4)
          = Octet2(x, y)
    <2>1. /\ 8 * Digit(x, 8) + 4 * Digit(x, 4) + 2 * Digit(x, 2) + Digit(x, 1) = Rem(x, 16)
          /\ 8 * Digit(y, 32) + 4 * Digit(y, 16) + 2 * Digit(y, 8) + Digit(y, 4) = Quo(y, 4)
      BY <1>1 DEF SumsOf
    <2>2. 128 * Digit(x, 8) + 64 * Digit(x, 4) + 32 * Digit(x, 2) + 16 * Digit(x, 1)
            + 8 * Digit(y, 32) + 4 * Digit(y, 16) + 2 * Digit(y, 8) + Digit(y, 4)
            = 16 * (8 * Digit(x, 8) + 4 * Digit(x, 4) + 2 * Digit(x, 2) + Digit(x, 1))
                    + (8 * Digit(y, 32) + 4 * Digit(y, 16) + 2 * Digit(y, 8) + Digit(y, 4))
      BY ONLY <1>2, SMT
    <2> QED BY ONLY <2>1, <2>2, Zenon DEF Octet2
  <1>5. 128 * Digit(x, 2) + 64 * Digit(x, 1) + 32 * Digit(y, 32) + 16 * Digit(y, 16)
          + 8 * Digit(y, 8) + 4 * Digit(y, 4) + 2 * Digit(y, 2) + Digit(y, 1)
          = Octet3(x, y)
    <2>1. /\ 2 * Digit(x, 2) + Digit(x, 1) = Rem(x, 4)
          /\ 32 * Digit(y, 32) + 16 * Digit(y, 16) + 8 * Digit(y, 8) + 4 * Digit(y, 4)
                  + 2 * Digit(y, 2) + Digit(y, 1) = y
      BY <1>1 DEF SumsOf
    <2>2. 128 * Digit(x, 2) + 64 * Digit(x, 1) + 32 * Digit(y, 32) + 16 * Digit(y, 16)
            + 8 * Digit(y, 8) + 4 * Digit(y, 4) + 2 * Digit(y, 2) + Digit(y, 1)
            = 64 * (2 * Digit(x, 2) + Digit(x, 1)) + (32 * Digit(y, 32) + 16 * Digit(y, 16)
                    + 8 * Digit(y, 8) + 4 * Digit(y, 4) + 2 * Digit(y, 2) + Digit(y, 1))
      BY ONLY <1>2, SMT
    <2> QED BY ONLY <2>1, <2>2, Zenon DEF Octet3
  <1> QED BY <1>3, <1>4, <1>5

(* The groups of eight bits of four characters. *)
LEMMA EightBitsAre ==
    ASSUME NEW run, NEW q \in Nat
    PROVE  LET x == run[4 * q + 1]
               y == run[4 * q + 2]
               z == run[4 * q + 3]
               u == run[4 * q + 4]
           IN  /\ x \in 0..63 /\ y \in 0..63 => EightBits(run, 3 * q) = Octet1(x, y)
               /\ y \in 0..63 /\ z \in 0..63 => EightBits(run, 3 * q + 1) = Octet2(y, z)
               /\ z \in 0..63 /\ u \in 0..63 => EightBits(run, 3 * q + 2) = Octet3(z, u)
  <1> DEFINE x == run[4 * q + 1]
             y == run[4 * q + 2]
             z == run[4 * q + 3]
             u == run[4 * q + 4]
  <1>1. /\ CharBitsAt(run, 4 * q, x) /\ CharBitsAt(run, 4 * q + 1, y)
        /\ CharBitsAt(run, 4 * q + 2, z) /\ CharBitsAt(run, 4 * q + 3, u)
    <2>1. /\ 4 * q \in Nat /\ 4 * q + 1 \in Nat /\ 4 * q + 2 \in Nat /\ 4 * q + 3 \in Nat
          /\ 4 * q + 1 + 1 = 4 * q + 2 /\ 4 * q + 2 + 1 = 4 * q + 3 /\ 4 * q + 3 + 1 = 4 * q + 4
      OBVIOUS
    <2>2. \A n \in Nat : CharBitsAt(run, n, run[n + 1])
      BY CharBitIs
    <2>3. /\ CharBitsAt(run, 4 * q, run[4 * q + 1])
          /\ CharBitsAt(run, 4 * q + 1, run[4 * q + 1 + 1])
          /\ CharBitsAt(run, 4 * q + 2, run[4 * q + 2 + 1])
          /\ CharBitsAt(run, 4 * q + 3, run[4 * q + 3 + 1])
      BY ONLY <2>1, <2>2, Zenon
    <2> QED BY ONLY <2>1, <2>3, Zenon
  <1> HIDE DEF x, y, z, u
  <1>2. ASSUME x \in 0..63, y \in 0..63 PROVE EightBits(run, 3 * q) = Octet1(x, y)
    <2>1. /\ 8 * (3 * q) = 6 * (4 * q)
          /\ 8 * (3 * q) + 1 = 6 * (4 * q) + 1
          /\ 8 * (3 * q) + 2 = 6 * (4 * q) + 2
          /\ 8 * (3 * q) + 3 = 6 * (4 * q) + 3
          /\ 8 * (3 * q) + 4 = 6 * (4 * q) + 4
          /\ 8 * (3 * q) + 5 = 6 * (4 * q) + 5
          /\ 8 * (3 * q) + 6 = 6 * (4 * q + 1)
          /\ 8 * (3 * q) + 7 = 6 * (4 * q + 1) + 1
      OBVIOUS
    <2>2. EightBits(run, 3 * q) =
            128 * Digit(x, 32) + 64 * Digit(x, 16) + 32 * Digit(x, 8) + 16 * Digit(x, 4)
                    + 8 * Digit(x, 2) + 4 * Digit(x, 1) + 2 * Digit(y, 32) + Digit(y, 16)
      BY <2>1, <1>1 DEF EightBits, CharBitsAt
    <2> QED BY <2>2, <1>2, EightOf
  <1>3. ASSUME y \in 0..63, z \in 0..63 PROVE EightBits(run, 3 * q + 1) = Octet2(y, z)
    <2>1. /\ 8 * (3 * q + 1) = 6 * (4 * q + 1) + 2
          /\ 8 * (3 * q + 1) + 1 = 6 * (4 * q + 1) + 3
          /\ 8 * (3 * q + 1) + 2 = 6 * (4 * q + 1) + 4
          /\ 8 * (3 * q + 1) + 3 = 6 * (4 * q + 1) + 5
          /\ 8 * (3 * q + 1) + 4 = 6 * (4 * q + 2)
          /\ 8 * (3 * q + 1) + 5 = 6 * (4 * q + 2) + 1
          /\ 8 * (3 * q + 1) + 6 = 6 * (4 * q + 2) + 2
          /\ 8 * (3 * q + 1) + 7 = 6 * (4 * q + 2) + 3
      OBVIOUS
    <2>2. EightBits(run, 3 * q + 1) =
            128 * Digit(y, 8) + 64 * Digit(y, 4) + 32 * Digit(y, 2) + 16 * Digit(y, 1)
                    + 8 * Digit(z, 32) + 4 * Digit(z, 16) + 2 * Digit(z, 8) + Digit(z, 4)
      BY <2>1, <1>1 DEF EightBits, CharBitsAt
    <2> QED BY <2>2, <1>3, EightOf
  <1>4. ASSUME z \in 0..63, u \in 0..63 PROVE EightBits(run, 3 * q + 2) = Octet3(z, u)
    <2>1. /\ 8 * (3 * q + 2) = 6 * (4 * q + 2) + 4
          /\ 8 * (3 * q + 2) + 1 = 6 * (4 * q + 2) + 5
          /\ 8 * (3 * q + 2) + 2 = 6 * (4 * q + 3)
          /\ 8 * (3 * q + 2) + 3 = 6 * (4 * q + 3) + 1
          /\ 8 * (3 * q + 2) + 4 = 6 * (4 * q + 3) + 2
          /\ 8 * (3 * q + 2) + 5 = 6 * (4 * q + 3) + 3
          /\ 8 * (3 * q + 2) + 6 = 6 * (4 * q + 3) + 4
          /\ 8 * (3 * q + 2) + 7 = 6 * (4 * q + 3) + 5
      OBVIOUS
    <2>2. EightBits(run, 3 * q + 2) =
            128 * Digit(z, 2) + 64 * Digit(z, 1) + 32 * Digit(u, 32) + 16 * Digit(u, 16)
                    + 8 * Digit(u, 8) + 4 * Digit(u, 4) + 2 * Digit(u, 2) + Digit(u, 1)
      BY <2>1, <1>1 DEF EightBits, CharBitsAt
    <2> QED BY <2>2, <1>4, EightOf
  <1> QED BY <1>2, <1>3, <1>4 DEF x, y, z, u

(* What base64_decode makes of the characters collected (encodings.c:75-93). *)
LEMMA DecodedIs ==
    ASSUME NEW t \in Seq(0..63), Len(t) <= 4
    PROVE  /\ base64_decode(t) \in Seq(0..255)
           /\ Len(base64_decode(t)) = IF Len(t) = 0 THEN 0 ELSE Len(t) - 1
           /\ Len(t) >= 2 => base64_decode(t)[1] = Octet1(t[1], t[2])
           /\ Len(t) >= 3 => base64_decode(t)[2] = Octet2(t[2], t[3])
           /\ Len(t) >= 4 => base64_decode(t)[3] = Octet3(t[3], t[4])
  <1> DEFINE Ch(i) == IF i <= Len(t) THEN t[i] ELSE 0
             tuple == Ch(4) + 64 * (Ch(3) + 64 * (Ch(2) + 64 * Ch(1)))
             w == <<65536, 256, 1>>
             b == base64_decode(t)
             x == Ch(1)
             y == Ch(2)
             z == Ch(3)
             u == Ch(4)
             y1 == Quo(y, 16)
             y0 == Rem(y, 16)
             z1 == Quo(z, 4)
             z0 == Rem(z, 4)
  <1>1. b = [i \in 1..Len(t) - 1 |-> tuple \div w[i] % 256]
    BY SMT DEF base64_decode
  <1>2. w[1] = 65536 /\ w[2] = 256 /\ w[3] = 1
    OBVIOUS
  <1>3. /\ Len(t) >= 1 => x = t[1]
        /\ Len(t) >= 2 => y = t[2]
        /\ Len(t) >= 3 => z = t[3]
        /\ Len(t) >= 4 => u = t[4]
    OBVIOUS
  <1>4. x \in 0..63 /\ y \in 0..63 /\ z \in 0..63 /\ u \in 0..63
    <2>1. \A i \in 1..Len(t) : t[i] \in 0..63
      BY ElementOfSeq
    <2>2. Len(t) \in Nat
      OBVIOUS
    <2> QED BY ONLY <2>1, <2>2
  <1>5. /\ y1 \in 0..3 /\ y0 \in 0..15 /\ y = 16 * y1 + y0
        /\ z1 \in 0..15 /\ z0 \in 0..3 /\ z = 4 * z1 + z0
    <2> HIDE DEF y, z
    <2> QED BY ONLY <1>4 DEF Quo, Rem
  <1>6. tuple = u + 64 * (z + 64 * (y + 64 * x))
    OBVIOUS
  <1> HIDE DEF tuple, w, b, x, y, z, u, y1, y0, z1, z0
  <1>7. tuple = 262144 * x + 65536 * y1 + 4096 * y0 + 256 * z1 + 64 * z0 + u /\ tuple \in Int
    BY ONLY <1>4, <1>5, <1>6, SMT
  <1>8. tuple \div 65536 % 256 = 4 * x + y1
    <2>1. tuple \div 65536 = 4 * x + y1
      BY ONLY <1>4, <1>5, <1>7, SMTT(30)
    <2> QED BY ONLY <2>1, <1>4, <1>5, SMT
  <1>9. tuple \div 256 % 256 = 16 * y0 + z1
    <2>1. tuple \div 256 = 256 * (4 * x + y1) + 16 * y0 + z1
      BY ONLY <1>4, <1>5, <1>7, SMTT(30)
    <2> QED BY ONLY <2>1, <1>4, <1>5, SMT
  <1>10. tuple \div 1 % 256 = 64 * z0 + u
    <2>1. tuple \div 1 = tuple
      BY ONLY <1>7, SMT
    <2>2. tuple % 256 = 64 * z0 + u
      BY ONLY <1>4, <1>5, <1>7, SMTT(30)
    <2> QED BY ONLY <2>1, <2>2
  <1>11. tuple \div w[1] % 256 = Octet1(x, y)
    BY ONLY <1>2, <1>8, SMT DEF Octet1, y1
  <1>12. tuple \div w[2] % 256 = Octet2(y, z)
    BY ONLY <1>2, <1>9, SMT DEF Octet2, y0, z1
  <1>13. tuple \div w[3] % 256 = Octet3(z, u)
    BY ONLY <1>2, <1>10, SMT DEF Octet3, z0
  <1>14. Octet1(x, y) \in 0..255 /\ Octet2(y, z) \in 0..255 /\ Octet3(z, u) \in 0..255
    BY ONLY <1>4, OctetsAreBytes
  <1> DEFINE v(i) == tuple \div w[i] % 256
  <1>15. v(1) \in 0..255 /\ v(2) \in 0..255 /\ v(3) \in 0..255
    BY ONLY <1>11, <1>12, <1>13, <1>14
  <1>16. b = [i \in 1..Len(t) - 1 |-> v(i)] /\ Len(t) \in Nat
    BY <1>1
  <1>17. /\ v(1) = Octet1(x, y) /\ v(2) = Octet2(y, z) /\ v(3) = Octet3(z, u)
    BY ONLY <1>11, <1>12, <1>13
  <1> HIDE DEF v
  <1> DEFINE n == IF Len(t) = 0 THEN 0 ELSE Len(t) - 1
  <1>18. n \in Nat /\ n <= 3 /\ 1..Len(t) - 1 = 1..n
    OBVIOUS
  <1>19. \A i \in 1..n : i = 1 \/ i = 2 \/ i = 3
    BY ONLY <1>18
  <1>20. b = [i \in 1..n |-> v(i)]
    BY ONLY <1>16, <1>18
  <1>21. \A i \in 1..n : v(i) \in 0..255
    BY ONLY <1>15, <1>19
  <1>22. b \in Seq(0..255) /\ Len(b) = n
    <2> HIDE DEF n
    <2>1. n \in Nat
      BY <1>18
    <2> QED BY ONLY <1>20, <1>21, <2>1
  <1>23. /\ Len(t) >= 2 => b[1] = v(1)
         /\ Len(t) >= 3 => b[2] = v(2)
         /\ Len(t) >= 4 => b[3] = v(3)
    BY ONLY <1>16
  <1> QED BY <1>3, <1>17, <1>22, <1>23 DEF b

(* The states of the loop of Lbase64_decode: at most three characters wait. *)
DecIs == {"on", "end", "no"}
DecOut == Seq(0..255)
DecWait == {x \in Seq(0..63) : Len(x) <= 3}
DecState == [is : DecIs, out : DecOut, t : DecWait]
Start == [is |-> "on", out |-> <<>>, t |-> <<>>]

(* A state is made of its three fields. *)
LEMMA DecStateIs ==
    ASSUME NEW is \in DecIs, NEW out \in DecOut, NEW t \in DecWait
    PROVE  [is |-> is, out |-> out, t |-> t] \in DecState
  BY DEF DecState

(* Collecting a character. *)
LEMMA AppendChar ==
    ASSUME NEW t \in Seq(0..63), NEW c \in 0..63
    PROVE  Append(t, c) \in Seq(0..63) /\ Len(Append(t, c)) = Len(t) + 1
  <1> DEFINE S == 0..63
  <1>1. t \in Seq(S) /\ c \in S
    OBVIOUS
  <1> HIDE DEF S
  <1>2. Append(t, c) \in Seq(S) /\ Len(Append(t, c)) = Len(t) + 1
    BY ONLY <1>1, AppendProperties
  <1> QED BY <1>2 DEF S

(* One turn of the loop, for each kind of character (encodings.c:103-156). *)
LEMMA DecodeStepIs ==
    ASSUME NEW d \in DecState, NEW c \in 0..67
    PROVE  /\ DecodeStep(d, c) \in DecState
           /\ d.is # "on" \/ c = Blank => DecodeStep(d, c) = d
           /\ d.is = "on" /\ c = Nul => DecodeStep(d, c) = [is |-> "end", out |-> d.out, t |-> d.t]
           /\ d.is = "on" /\ c = Bad => DecodeStep(d, c) = [is |-> "no", out |-> d.out, t |-> d.t]
           /\ d.is = "on" /\ c = Pad =>
                DecodeStep(d, c) = [is |-> "on", out |-> d.out \o base64_decode(d.t), t |-> <<>>]
           /\ d.is = "on" /\ c \in 0..63 /\ Len(d.t) = 3 =>
                DecodeStep(d, c) =
                    [is |-> "on", out |-> d.out \o base64_decode(Append(d.t, c)), t |-> <<>>]
           /\ d.is = "on" /\ c \in 0..63 /\ Len(d.t) # 3 =>
                DecodeStep(d, c) = [is |-> "on", out |-> d.out, t |-> Append(d.t, c)]
  <1>1. /\ d = [is |-> d.is, out |-> d.out, t |-> d.t] /\ d.is \in DecIs
        /\ d.out \in DecOut /\ d.t \in DecWait
    BY DEF DecState
  <1>a. d.out \in Seq(0..255) /\ d.t \in Seq(0..63) /\ Len(d.t) \in Nat /\ Len(d.t) <= 3
    BY <1>1 DEF DecOut, DecWait
  <1>c. Len(d.t) \in Nat /\ Len(d.t) <= 3 /\ (Len(d.t) # 3 => Len(d.t) + 1 <= 3)
    <2>1. \A n \in Nat : n <= 3 /\ n # 3 => n + 1 <= 3
      OBVIOUS
    <2> QED BY ONLY <1>a, <2>1, Zenon
  <1>b. "on" \in DecIs /\ "end" \in DecIs /\ "no" \in DecIs /\ <<>> \in DecWait
    BY DEF DecIs, DecWait
  <1>2. Pad = 64 /\ Blank = 65 /\ Nul = 66 /\ Bad = 67
    BY DEF Pad, Blank, Nul, Bad
  <1>3. ASSUME d.is # "on" \/ c = Blank
        PROVE  DecodeStep(d, c) = d
    BY <1>3 DEF DecodeStep
  <1>4. ASSUME d.is = "on", c = Nul
        PROVE  DecodeStep(d, c) = [is |-> "end", out |-> d.out, t |-> d.t] /\ DecodeStep(d, c) \in DecState
    <2>1. DecodeStep(d, c) = [d EXCEPT !.is = "end"]
      BY <1>2, <1>4 DEF DecodeStep
    <2>2. [d EXCEPT !.is = "end"] = [is |-> "end", out |-> d.out, t |-> d.t]
      BY <1>1
    <2>3. [is |-> "end", out |-> d.out, t |-> d.t] \in DecState
      BY <1>1, <1>b, DecStateIs
    <2> QED BY ONLY <2>1, <2>2, <2>3
  <1>5. ASSUME d.is = "on", c = Bad
        PROVE  DecodeStep(d, c) = [is |-> "no", out |-> d.out, t |-> d.t] /\ DecodeStep(d, c) \in DecState
    <2>1. DecodeStep(d, c) = [d EXCEPT !.is = "no"]
      BY <1>2, <1>5 DEF DecodeStep
    <2>2. [d EXCEPT !.is = "no"] = [is |-> "no", out |-> d.out, t |-> d.t]
      BY <1>1
    <2>3. [is |-> "no", out |-> d.out, t |-> d.t] \in DecState
      BY <1>1, <1>b, DecStateIs
    <2> QED BY ONLY <2>1, <2>2, <2>3
  <1>6. ASSUME d.is = "on", c = Pad
        PROVE  /\ DecodeStep(d, c) = [is |-> "on", out |-> d.out \o base64_decode(d.t), t |-> <<>>]
               /\ DecodeStep(d, c) \in DecState
    <2> DEFINE o == d.out \o base64_decode(d.t)
    <2>0. o \in DecOut
      <3>1. base64_decode(d.t) \in Seq(0..255)
        BY <1>a, Len(d.t) <= 4, DecodedIs
      <3> QED BY <1>a, <3>1, ConcatProperties DEF DecOut
    <2>1. DecodeStep(d, c) = [d EXCEPT !.out = d.out \o base64_decode(d.t), !.t = <<>>]
      <3>1. c # Blank /\ c # Nul /\ c # Bad
        BY <1>2, <1>6
      <3> QED BY ONLY <3>1, <1>6 DEF DecodeStep
    <2>2. DecodeStep(d, c) = [d EXCEPT !.out = o, !.t = <<>>]
      BY ONLY <2>1
    <2> HIDE DEF o
    <2>3. [d EXCEPT !.out = o, !.t = <<>>] = [is |-> "on", out |-> o, t |-> <<>>]
      <3>1. d = [is |-> "on", out |-> d.out, t |-> d.t]
        BY ONLY <1>1, <1>6
      <3>2. [d EXCEPT !.out = o] = [is |-> "on", out |-> o, t |-> d.t]
        BY ONLY <3>1
      <3>3. [[is |-> "on", out |-> o, t |-> d.t] EXCEPT !.t = <<>>] = [is |-> "on", out |-> o, t |-> <<>>]
        OBVIOUS
      <3> QED BY ONLY <3>2, <3>3, Zenon
    <2>4. [is |-> "on", out |-> o, t |-> <<>>] \in DecState
      BY <1>b, <2>0, DecStateIs
    <2> QED BY ONLY <2>2, <2>3, <2>4 DEF o
  <1>7. ASSUME d.is = "on", c \in 0..63, Len(d.t) = 3
        PROVE  /\ DecodeStep(d, c) =
                    [is |-> "on", out |-> d.out \o base64_decode(Append(d.t, c)), t |-> <<>>]
               /\ DecodeStep(d, c) \in DecState
    <2> DEFINE o == d.out \o base64_decode(Append(d.t, c))
    <2>0. o \in DecOut
      <3>1. Append(d.t, c) \in Seq(0..63) /\ Len(Append(d.t, c)) = Len(d.t) + 1
        BY ONLY <1>a, <1>7, AppendChar
      <3>2. Len(Append(d.t, c)) <= 4
        BY ONLY <3>1, <1>7
      <3>3. base64_decode(Append(d.t, c)) \in Seq(0..255)
        BY ONLY <3>1, <3>2, DecodedIs
      <3> QED BY <1>a, <3>3, ConcatProperties DEF DecOut
    <2>1. DecodeStep(d, c) = [d EXCEPT !.out = d.out \o base64_decode(Append(d.t, c)), !.t = <<>>]
      <3>1. c # Blank /\ c # Nul /\ c # Bad /\ c # Pad
        BY <1>2, <1>7
      <3> QED BY ONLY <3>1, <1>7 DEF DecodeStep
    <2>2. DecodeStep(d, c) = [d EXCEPT !.out = o, !.t = <<>>]
      BY ONLY <2>1
    <2> HIDE DEF o
    <2>3. [d EXCEPT !.out = o, !.t = <<>>] = [is |-> "on", out |-> o, t |-> <<>>]
      <3>1. d = [is |-> "on", out |-> d.out, t |-> d.t]
        BY ONLY <1>1, <1>7
      <3>2. [d EXCEPT !.out = o] = [is |-> "on", out |-> o, t |-> d.t]
        BY ONLY <3>1
      <3>3. [[is |-> "on", out |-> o, t |-> d.t] EXCEPT !.t = <<>>] = [is |-> "on", out |-> o, t |-> <<>>]
        OBVIOUS
      <3> QED BY ONLY <3>2, <3>3, Zenon
    <2>4. [is |-> "on", out |-> o, t |-> <<>>] \in DecState
      BY <1>b, <2>0, DecStateIs
    <2> QED BY ONLY <2>2, <2>3, <2>4 DEF o
  <1>8. ASSUME d.is = "on", c \in 0..63, Len(d.t) # 3
        PROVE  /\ DecodeStep(d, c) = [is |-> "on", out |-> d.out, t |-> Append(d.t, c)]
               /\ DecodeStep(d, c) \in DecState
    <2> DEFINE u == Append(d.t, c)
    <2>0. u \in DecWait
      <3>1. Append(d.t, c) \in Seq(0..63) /\ Len(Append(d.t, c)) = Len(d.t) + 1
        BY ONLY <1>a, <1>8, AppendChar
      <3>2. Len(u) <= 3
        <4>1. Len(d.t) + 1 <= 3
          BY ONLY <1>c, <1>8, Zenon
        <4> QED BY <3>1, <4>1
      <3> QED BY <3>1, <3>2 DEF DecWait
    <2>1. DecodeStep(d, c) = [d EXCEPT !.t = Append(d.t, c)]
      <3>1. c # Blank /\ c # Nul /\ c # Bad /\ c # Pad
        BY <1>2, <1>8
      <3> QED BY ONLY <3>1, <1>8 DEF DecodeStep
    <2>2. DecodeStep(d, c) = [d EXCEPT !.t = u]
      BY ONLY <2>1
    <2> HIDE DEF u
    <2>3. [d EXCEPT !.t = u] = [is |-> "on", out |-> d.out, t |-> u]
      BY <1>1, <1>8
    <2>4. [is |-> "on", out |-> d.out, t |-> u] \in DecState
      BY <1>1, <1>b, <2>0, DecStateIs
    <2> QED BY ONLY <2>2, <2>3, <2>4 DEF u
  <1>9. c \in 0..63 \/ c = Pad \/ c = Blank \/ c = Nul \/ c = Bad
    BY <1>2
  <1>10. DecodeStep(d, c) \in DecState
    BY <1>3, <1>4, <1>5, <1>6, <1>7, <1>8, <1>9
  <1> QED BY ONLY <1>3, <1>4, <1>5, <1>6, <1>7, <1>8, <1>10, Zenon

(* f[i] is the state after i characters of s. *)
Runs(f, s, n) ==
    /\ f \in [0..n -> DecState] /\ f[0] = Start
    /\ \A i \in 1..n : f[i] = DecodeStep(f[i - 1], s[i])

(* The loop starts in a state. *)
LEMMA StartIs == Start \in DecState
  <1>1. <<>> \in DecOut /\ <<>> \in DecWait /\ "on" \in DecIs
    BY DEF DecOut, DecWait, DecIs
  <1> QED BY <1>1, DecStateIs DEF Start

(* Every text of n characters has such a function. *)
LEMMA RunExists ==
    ASSUME NEW n \in Nat, NEW s \in [1..n -> 0..67]
    PROVE  \E f : Runs(f, s, n)
  <1> DEFINE g == [i \in 0..n |-> [d \in DecState |-> IF i = 0 THEN d ELSE DecodeStep(d, s[i])]]
  <1>1. g \in [0..n -> [DecState -> DecState]]
    <2>1. ASSUME NEW i \in 0..n, NEW d \in DecState
          PROVE  (IF i = 0 THEN d ELSE DecodeStep(d, s[i])) \in DecState
      <3>1. CASE i = 0
        BY <3>1
      <3>2. CASE i # 0
        <4>1. s[i] \in 0..67
          BY <3>2
        <4>2. DecodeStep(d, s[i]) \in DecState
          BY <4>1, DecodeStepIs
        <4> QED BY <3>2, <4>2
      <3> QED BY <3>1, <3>2
    <2> QED BY ONLY <2>1
  <1>2. \A i \in 0..n, d \in DecState : i # 0 => g[i][d] = DecodeStep(d, s[i])
    OBVIOUS
  <1> HIDE DEF g
  <1>3. PICK f \in [0..n -> DecState] : Steps(f, 0, n, Start, g)
    <2>1. 0 \in Nat /\ 0 <= n
      OBVIOUS
    <2> QED BY ONLY <2>1, <1>1, StartIs, Recursion, n \in Nat
  <1>4. ASSUME NEW i \in 1..n PROVE f[i] = DecodeStep(f[i - 1], s[i])
    <2>1. i \in 0..n /\ i # 0 /\ i - 1 \in 0..n
      OBVIOUS
    <2>2. f[i - 1] \in DecState
      BY <2>1
    <2>3. f[i] = g[i][f[i - 1]]
      BY <1>3, <2>1 DEF Steps
    <2> QED BY <1>2, <2>1, <2>2, <2>3
  <1>5. f[0] = Start
    BY <1>3 DEF Steps
  <1> QED BY <1>4, <1>5 DEF Runs

(* The recursive definition of the states is that function. *)
LEMMA RunIs ==
    ASSUME NEW m \in Nat, NEW u, NEW f, Runs(f, u, m), NEW c,
           c = CHOOSE d : d = [i \in 0..m |-> IF i = 0 THEN Start ELSE DecodeStep(d[i - 1], u[i])]
    PROVE  c[m] = f[m]
  <1> DEFINE Fix(d) == d = [i \in 0..m |-> IF i = 0 THEN Start ELSE DecodeStep(d[i - 1], u[i])]
  <1>1. Fix(f)
    <2> DEFINE r == [i \in 0..m |-> IF i = 0 THEN Start ELSE DecodeStep(f[i - 1], u[i])]
    <2>1. ASSUME NEW i \in 0..m PROVE f[i] = r[i]
      <3>1. r[i] = IF i = 0 THEN Start ELSE DecodeStep(f[i - 1], u[i])
        OBVIOUS
      <3> HIDE DEF r
      <3>2. i = 0 \/ i \in 1..m
        OBVIOUS
      <3> QED BY <3>1, <3>2 DEF Runs
    <2>2. f = [i \in 0..m |-> f[i]] /\ r = [i \in 0..m |-> r[i]]
      BY DEF Runs
    <2>3. f = r
      <3> HIDE DEF r
      <3> QED BY <2>1, <2>2
    <2> QED BY <2>3
  <1>2. Fix(c)
    <2>1. c = CHOOSE d : Fix(d)
      OBVIOUS
    <2> HIDE DEF Fix
    <2> QED BY ONLY <1>1, <2>1, Zenon
  <1>3. c[0] = Start /\ \A i \in 0..m : i # 0 => c[i] = DecodeStep(c[i - 1], u[i])
    BY ONLY <1>2, m \in Nat
  <1>4. \A i \in 0..m : c[i] = f[i]
    <2> DEFINE S == {i \in 0..m : c[i] = f[i]}
    <2>1. 0 \in S
      BY <1>3 DEF Runs
    <2>2. ASSUME NEW i \in 0..m, i # 0, i - 1 \in S PROVE i \in S
      <3>1. c[i - 1] = f[i - 1]
        BY <2>2
      <3>2. i \in 1..m
        BY <2>2
      <3>3. f[i] = DecodeStep(f[i - 1], u[i])
        BY <3>2 DEF Runs
      <3>4. c[i] = f[i]
        BY <1>3, <2>2, <3>1, <3>3
      <3> QED BY <3>4
    <2> HIDE DEF S
    <2>3. \A i \in 0..m : i \in S
      <3>1. \A i \in 0..m : i # 0 /\ i - 1 \in S => i \in S
        BY <2>2
      <3>2. 0 \in Nat /\ m \in Nat
        OBVIOUS
      <3> QED BY ONLY <2>1, <3>1, <3>2, IntervalInduction
    <2> QED BY <2>3 DEF S
  <1> QED BY <1>4

(* What is returned comes from the state at the end of the string. *)
LEMMA DecodeAnswer ==
    ASSUME NEW n \in Nat, NEW s \in Seq(0..67), Len(s) = n, NEW f, Runs(f, s, n)
    PROVE  Lbase64_decode(s) = IF f[n].is = "no" THEN Nil ELSE [ok |-> TRUE, out |-> f[n].out]
  <1> DEFINE u == Append(s, Nul)
             m == n + 1
             e == DecodeStep(f[n], Nul)
             h == [i \in 0..m |-> IF i <= n THEN f[i] ELSE e]
             c == CHOOSE d : d = [i \in 0..m |-> IF i = 0 THEN Start ELSE DecodeStep(d[i - 1], u[i])]
  <1>0. Nul \in 0..67 /\ f[n] \in DecState
    BY DEF Nul, Runs
  <1>1. Len(u) = m /\ u[m] = Nul /\ \A i \in 1..n : u[i] = s[i]
    <2> DEFINE T == 0..67
    <2>1. s \in Seq(T) /\ Nul \in T
      BY <1>0
    <2> HIDE DEF T
    <2>2. /\ Len(u) = Len(s) + 1
          /\ \A i \in 1..Len(s) : u[i] = s[i]
          /\ u[Len(s) + 1] = Nul
      BY <2>1, AppendProperties
    <2> QED BY ONLY <2>2, Len(s) = n
  <1>2. LET last == c[m]
        IN  Lbase64_decode(s) = IF last.is = "end" THEN [ok |-> TRUE, out |-> last.out] ELSE Nil
    BY <1>1, Zenon DEF Lbase64_decode, Start
  <1>3. e \in DecState
    BY ONLY <1>0, DecodeStepIs
  <1>4. Runs(h, u, m)
    <2>1. h \in [0..m -> DecState] /\ h[0] = Start
      <3> HIDE DEF e
      <3> QED BY <1>3 DEF Runs
    <2>2. ASSUME NEW i \in 1..m PROVE h[i] = DecodeStep(h[i - 1], u[i])
      <3>1. CASE i <= n
        <4>1. h[i] = f[i] /\ h[i - 1] = f[i - 1] /\ u[i] = s[i] /\ i \in 1..n
          BY <3>1, <1>1
        <4>2. f[i] = DecodeStep(f[i - 1], s[i])
          BY <4>1 DEF Runs
        <4> QED BY ONLY <4>1, <4>2
      <3>2. CASE ~(i <= n)
        <4>1. i = m /\ i - 1 = n
          BY <3>2
        <4>2. h[m] = e /\ h[n] = f[n]
          OBVIOUS
        <4> QED BY ONLY <4>1, <4>2, <1>1 DEF e
      <3> QED BY <3>1, <3>2
    <2> HIDE DEF h, m
    <2> QED BY <2>1, <2>2 DEF Runs
  <1>5. c[m] = h[m] /\ h[m] = e
    <2>1. h[m] = e /\ m \in Nat
      OBVIOUS
    <2>2. c = CHOOSE d : d = [i \in 0..m |-> IF i = 0 THEN Start ELSE DecodeStep(d[i - 1], u[i])]
      OBVIOUS
    <2> HIDE DEF c, h, m, u, e
    <2> QED BY ONLY <1>4, <2>1, <2>2, RunIs
  <1>6. /\ f[n].is \in DecIs
        /\ f[n].is # "on" => e = f[n]
        /\ f[n].is = "on" => e = [is |-> "end", out |-> f[n].out, t |-> f[n].t]
    <2>1. f[n].is \in DecIs
      BY <1>0 DEF DecState
    <2> QED BY ONLY <1>0, <2>1, DecodeStepIs
  <1> HIDE DEF c, e, h, m
  <1>7. CASE f[n].is = "on"
    <2>1. e.is = "end" /\ e.out = f[n].out
      BY ONLY <1>6, <1>7
    <2> QED BY <1>2, <1>5, <2>1, <1>7
  <1>8. CASE f[n].is = "end"
    BY <1>2, <1>5, <1>6, <1>8
  <1>9. CASE f[n].is = "no"
    BY <1>2, <1>5, <1>6, <1>9
  <1> QED BY <1>6, <1>7, <1>8, <1>9 DEF DecIs

(* Blanks change nothing: s is u with blanks put into it, and p says how    *)
(* much of u there is in the beginnings of s.                               *)
Skips(p, s, u, n, m) ==
    /\ p \in [0..n -> 0..m] /\ p[0] = 0
    /\ \A i \in 1..n : \/ s[i] = Blank /\ p[i] = p[i - 1]
                       \/ p[i] = p[i - 1] + 1 /\ s[i] = u[p[i]]

(* After each beginning of s the decoder is where it is after that much of u. *)
LEMMA BlanksAreSkipped ==
    ASSUME NEW n \in Nat, NEW m \in Nat, NEW s, NEW u, NEW f, NEW h,
           Runs(f, s, n), Runs(h, u, m), NEW p, Skips(p, s, u, n, m)
    PROVE  \A i \in 0..n : f[i] = h[p[i]]
  <1>0. /\ p \in [0..n -> 0..m] /\ p[0] = 0
        /\ \A i \in 1..n : \/ s[i] = Blank /\ p[i] = p[i - 1]
                           \/ p[i] = p[i - 1] + 1 /\ s[i] = u[p[i]]
    BY DEF Skips
  <1> DEFINE S == {i \in 0..n : f[i] = h[p[i]]}
  <1>1. 0 \in S
    BY <1>0 DEF Runs
  <1>2. ASSUME NEW i \in 0..n, i # 0, i - 1 \in S PROVE i \in S
    <2>1. i \in 1..n /\ i - 1 \in 0..n /\ f[i - 1] = h[p[i - 1]]
      BY <1>2
    <2>2. f[i] = DecodeStep(f[i - 1], s[i]) /\ f[i - 1] \in DecState
      BY <2>1 DEF Runs
    <2>3. p[i] \in 0..m /\ p[i - 1] \in 0..m
      BY <1>0, <2>1
    <2>4. f[i] = h[p[i]]
      <3>1. CASE s[i] = Blank /\ p[i] = p[i - 1]
        <4>1. DecodeStep(f[i - 1], s[i]) = f[i - 1]
          <5>1. f[i - 1].is # "on" \/ s[i] = Blank
            BY ONLY <3>1, Zenon
          <5> QED BY ONLY <5>1, Zenon DEF DecodeStep
        <4> QED BY ONLY <2>1, <2>2, <3>1, <4>1
      <3>2. CASE p[i] = p[i - 1] + 1 /\ s[i] = u[p[i]]
        <4>1. p[i] \in 1..m /\ p[i] - 1 = p[i - 1]
          <5>1. \A a, b \in 0..m : a = b + 1 => a \in 1..m /\ a - 1 = b
            OBVIOUS
          <5>2. p[i] = p[i - 1] + 1
            BY <3>2
          <5> QED BY ONLY <2>3, <5>1, <5>2, Zenon
        <4>2. h[p[i]] = DecodeStep(h[p[i] - 1], u[p[i]])
          <5>1. \A j \in 1..m : h[j] = DecodeStep(h[j - 1], u[j])
            BY DEF Runs
          <5> QED BY ONLY <4>1, <5>1, Zenon
        <4> QED BY ONLY <2>1, <2>2, <3>2, <4>1, <4>2
      <3> QED BY <1>0, <2>1, <3>1, <3>2
    <2> QED BY <2>4
  <1> HIDE DEF S
  <1>3. \A i \in 0..n : i \in S
    <2>1. \A i \in 0..n : i # 0 /\ i - 1 \in S => i \in S
      BY <1>2
    <2>2. 0 \in Nat /\ n \in Nat
      OBVIOUS
    <2> QED BY ONLY <1>1, <2>1, <2>2, IntervalInduction
  <1> QED BY <1>3 DEF S

(* Once the loop has ended nothing changes. *)
LEMMA EndedStays ==
    ASSUME NEW n \in Nat, NEW s, NEW f, Runs(f, s, n), NEW k \in 0..n, f[k].is # "on"
    PROVE  f[n] = f[k]
  <1> DEFINE S == {i \in k..n : f[i] = f[k]}
  <1>1. k \in S
    OBVIOUS
  <1>2. ASSUME NEW i \in k..n, i # k, i - 1 \in S PROVE i \in S
    <2>1. i \in 1..n /\ f[i - 1] = f[k]
      BY <1>2
    <2>2. f[i] = DecodeStep(f[i - 1], s[i])
      BY <2>1 DEF Runs
    <2>3. f[i] = f[k]
      <3>1. DecodeStep(f[k], s[i]) = f[k]
        BY DEF DecodeStep
      <3> QED BY ONLY <2>1, <2>2, <3>1
    <2> QED BY <2>3
  <1> HIDE DEF S
  <1>3. \A i \in k..n : i \in S
    <2>1. \A i \in k..n : i # k /\ i - 1 \in S => i \in S
      BY <1>2
    <2>2. k \in Nat /\ n \in Nat
      OBVIOUS
    <2> QED BY ONLY <1>1, <2>1, <2>2, IntervalInduction
  <1> QED BY <1>3 DEF S

(* The concatenation of groups of four. *)
LEMMA FlattenFours ==
    ASSUME NEW T, NEW n \in Nat, NEW w \in [1..n -> Seq(T)], \A g \in 1..n : Len(w[g]) = 4
    PROVE  /\ FlattenSeq(w) \in Seq(T) /\ Len(FlattenSeq(w)) = 4 * n
           /\ \A g \in 1..n, k \in 1..4 : FlattenSeq(w)[4 * (g - 1) + k] = w[g][k]
  <1>1. FlattenSeq(w) \in Seq(T)
    BY FlattenType
  <1>2. CASE n = 0
    <2>1. w = <<>>
      BY <1>2
    <2>2. FlattenSeq(w) = <<>>
      <3>1. Len(w) = 0
        BY <2>1
      <3> QED BY <2>1, <3>1 DEF FlattenSeq
    <2>3. Len(<<>>) = 0 /\ 4 * n = 0 /\ 1..n = {}
      BY <1>2
    <2> QED BY ONLY <1>1, <2>2, <2>3
  <1>3. CASE n # 0
    <2>0. n \in Nat \ {0}
      BY <1>3
    <2>1. PICK f \in [1..n -> Seq(T)] : FlattenSeq(w) = f[n] /\ Flattens(f, w, n)
      BY ONLY <2>0, w \in [1..n -> Seq(T)], FlattenSteps
    <2> DEFINE Holds(i) == /\ Len(f[i]) = 4 * i
                           /\ \A g \in 1..i, k \in 1..4 : f[i][4 * (g - 1) + k] = w[g][k]
               S == {i \in 1..n : Holds(i)}
    <2>2. 1 \in S
      <3>1. f[1] = w[1] /\ 1 \in 1..n
        BY <2>0, <2>1 DEF Flattens
      <3>2. Len(w[1]) = 4
        BY <3>1
      <3>3. \A g \in 1..1, k \in 1..4 : g = 1 /\ 4 * (g - 1) + k = k
        OBVIOUS
      <3>4. Holds(1)
        BY ONLY <3>1, <3>2, <3>3
      <3> QED BY <3>1, <3>4
    <2>3. ASSUME NEW i \in 1..n, i # 1, i - 1 \in S PROVE i \in S
      <3>1. i \in 2..n /\ i - 1 \in 1..n
        BY <2>3
      <3>2. f[i] = f[i - 1] \o w[i] /\ f[i - 1] \in Seq(T) /\ w[i] \in Seq(T) /\ Len(w[i]) = 4
        BY <2>1, <3>1 DEF Flattens
      <3>3. Holds(i - 1)
        BY <2>3
      <3>4. /\ Len(f[i]) = 4 * (i - 1) + 4
            /\ \A j \in 1..4 * (i - 1) + 4 :
                 f[i][j] = IF j <= 4 * (i - 1) THEN f[i - 1][j] ELSE w[i][j - 4 * (i - 1)]
        <4>1. /\ Len(f[i - 1] \o w[i]) = Len(f[i - 1]) + Len(w[i])
              /\ \A j \in 1..Len(f[i - 1]) + Len(w[i]) :
                   (f[i - 1] \o w[i])[j] = IF j <= Len(f[i - 1]) THEN f[i - 1][j]
                           ELSE w[i][j - Len(f[i - 1])]
          BY ONLY <3>2, ConcatProperties
        <4>2. Len(f[i - 1]) = 4 * (i - 1)
          BY ONLY <3>3
        <4> QED BY ONLY <3>2, <4>1, <4>2
      <3>5. ASSUME NEW g \in 1..i, NEW k \in 1..4 PROVE f[i][4 * (g - 1) + k] = w[g][k]
        <4>1. 4 * (g - 1) + k \in 1..4 * (i - 1) + 4
          BY <3>1
        <4>2. CASE g = i
          <5>1. ~(4 * (g - 1) + k <= 4 * (i - 1)) /\ 4 * (g - 1) + k - 4 * (i - 1) = k
            BY <4>2, <3>1
          <5> QED BY ONLY <3>4, <4>1, <4>2, <5>1
        <4>3. CASE g # i
          <5>1. 4 * (g - 1) + k <= 4 * (i - 1) /\ g \in 1..i - 1
            BY <4>3, <3>1
          <5> QED BY ONLY <3>3, <3>4, <4>1, <5>1, k \in 1..4
        <4> QED BY <4>2, <4>3
      <3>6. Len(f[i]) = 4 * i
        BY <3>1, <3>4
      <3>7. Holds(i)
        BY ONLY <3>5, <3>6
      <3> QED BY <3>7
    <2> HIDE DEF S
    <2>4. \A i \in 1..n : i \in S
      <3>1. \A i \in 1..n : i # 1 /\ i - 1 \in S => i \in S
        BY <2>3
      <3>2. 1 \in Nat /\ n \in Nat
        OBVIOUS
      <3> QED BY ONLY <2>2, <3>1, <3>2, IntervalInduction
    <2>5. Holds(n)
      <3>1. n \in S
        BY <2>0, <2>4
      <3> HIDE DEF Holds
      <3> QED BY ONLY <3>1 DEF S
    <2> QED BY ONLY <1>1, <2>1, <2>5
  <1> QED BY <1>2, <1>3

(* A group of at most three bytes of a string, and what becomes of it. *)
Left(s, g) == IF 3 * g + 3 <= Len(s) THEN 3 ELSE Len(s) - 3 * g
GroupAt(s, g) == base64_encode(ByteAt(s, 3 * g), ByteAt(s, 3 * g + 1), ByteAt(s, 3 * g + 2), Left(s, g))
Groups(s) == (Len(s) + 2) \div 3

(* A byte of the string, or zero behind its end. *)
LEMMA BytesAt ==
    ASSUME NEW s \in Seq(0..255), NEW n \in Nat
    PROVE  ByteAt(s, n) \in 0..255
  BY ByteBitIs DEF BitsAt

(* Each group has one to three bytes of the string. *)
LEMMA LeftIs ==
    ASSUME NEW s \in Seq(0..255), NEW g \in 0..Groups(s) - 1
    PROVE  Left(s, g) \in 1..3 /\ 3 * g + Left(s, g) <= Len(s) /\ g \in Nat
  <1>1. Len(s) \in Nat
    OBVIOUS
  <1>2. \A l \in Nat : \A k \in 0..(l + 2) \div 3 - 1 : 3 * k + 1 <= l /\ k \in Nat
    OBVIOUS
  <1>3. 3 * g + 1 <= Len(s) /\ g \in Nat
    BY ONLY <1>1, <1>2, g \in 0..Groups(s) - 1 DEF Groups
  <1> DEFINE l == Len(s)
  <1>4. l \in Nat /\ 3 * g + 1 <= l /\ Left(s, g) = IF 3 * g + 3 <= l THEN 3 ELSE l - 3 * g
    BY <1>1, <1>3 DEF Left
  <1> HIDE DEF l
  <1>5. Left(s, g) \in 1..3 /\ 3 * g + Left(s, g) <= l
    BY ONLY <1>3, <1>4
  <1> QED BY <1>3, <1>5 DEF l

(* The four characters are in the alphabet, or padding. *)
LEMMA EncodeType ==
    ASSUME NEW a \in 0..255, NEW b \in 0..255, NEW c \in 0..255, NEW n \in 1..3
    PROVE  base64_encode(a, b, c, n) \in Seq(0..64) /\ Len(base64_encode(a, b, c, n)) = 4
  <1> DEFINE x == Quo(a, 4)
             y == 16 * Rem(a, 4) + Quo(b, 16)
             z == IF n > 1 THEN 4 * Rem(b, 16) + Quo(c, 64) ELSE Pad
             u == IF n > 2 THEN Rem(c, 64) ELSE Pad
  <1>1. base64_encode(a, b, c, n) = <<x, y, z, u>>
    BY EncodeIs
  <1>2. x \in 0..64 /\ y \in 0..64 /\ z \in 0..64 /\ u \in 0..64
    <2>1. /\ Quo(a, 4) \in 0..63 /\ Rem(a, 4) \in 0..3 /\ Quo(b, 16) \in 0..15 /\ Rem(b, 16) \in 0..15
          /\ Quo(c, 64) \in 0..3 /\ Rem(c, 64) \in 0..63
      BY Parts
    <2> QED BY ONLY <2>1 DEF Pad
  <1> HIDE DEF x, y, z, u
  <1>3. <<x, y, z, u>> \in Seq(0..64) /\ Len(<<x, y, z, u>>) = 4
    BY ONLY <1>2
  <1> QED BY ONLY <1>1, <1>3

(* What Lbase64_encode returns, by groups (encodings.c:50-73). *)
EncodedBy(s, e) ==
    /\ e \in Seq(0..64) /\ Len(e) = 4 * Groups(s)
    /\ \A g \in 0..Groups(s) - 1, k \in 1..4 : e[4 * g + k] = GroupAt(s, g)[k]

(* The encoder puts the groups one behind the other. *)
LEMMA EncodeAt ==
    ASSUME NEW s \in Seq(0..255)
    PROVE  EncodedBy(s, Lbase64_encode(s))
  <1> DEFINE l == Len(s)
             q == l \div 3
             w == [g \in 1..q |-> base64_encode(s[3*g - 2], s[3*g - 1], s[3*g], 3)]
             tail == IF l % 3 = 1 THEN base64_encode(s[l], 0, 0, 1)
                     ELSE IF l % 3 = 2 THEN base64_encode(s[l - 1], s[l], 0, 2)
                     ELSE <<>>
             f == FlattenSeq(w)
             e == f \o tail
  <1>1. Lbase64_encode(s) = e
    BY Zenon DEF Lbase64_encode
  <1>2. l \in Nat /\ q \in Nat /\ l % 3 \in 0..2 /\ l = 3 * q + (l % 3)
    <2>1. Len(s) \in Nat
      OBVIOUS
    <2>2. \A x \in Nat : x \div 3 \in Nat /\ x % 3 \in 0..2 /\ x = 3 * (x \div 3) + (x % 3)
      OBVIOUS
    <2> QED BY ONLY <2>1, <2>2
  <1>3. Groups(s) = IF l % 3 = 0 THEN q ELSE q + 1
    <2>1. \A x \in Nat : (x + 2) \div 3 = IF x % 3 = 0 THEN x \div 3 ELSE x \div 3 + 1
      OBVIOUS
    <2> QED BY ONLY <1>2, <2>1 DEF Groups
  <1>4. ASSUME NEW g \in 1..q
        PROVE  /\ base64_encode(s[3*g - 2], s[3*g - 1], s[3*g], 3) = GroupAt(s, g - 1)
               /\ GroupAt(s, g - 1) \in Seq(0..64) /\ Len(GroupAt(s, g - 1)) = 4
    <2>1. /\ 3 * (g - 1) < l /\ 3 * (g - 1) + 1 < l /\ 3 * (g - 1) + 2 < l /\ 3 * (g - 1) + 3 <= l
          /\ 3 * (g - 1) + 1 = 3*g - 2 /\ 3 * (g - 1) + 1 + 1 = 3*g - 1 /\ 3 * (g - 1) + 2 + 1 = 3*g
          /\ 3 * (g - 1) \in Nat /\ 3 * (g - 1) + 1 \in Nat /\ 3 * (g - 1) + 2 \in Nat
      <3> HIDE DEF l, q
      <3> QED BY <1>2
    <2>2. /\ ByteAt(s, 3 * (g - 1)) = s[3*g - 2] /\ ByteAt(s, 3 * (g - 1) + 1) = s[3*g - 1]
          /\ ByteAt(s, 3 * (g - 1) + 2) = s[3*g] /\ Left(s, g - 1) = 3
      BY <2>1 DEF ByteAt, Left
    <2>3. /\ ByteAt(s, 3 * (g - 1)) \in 0..255 /\ ByteAt(s, 3 * (g - 1) + 1) \in 0..255
          /\ ByteAt(s, 3 * (g - 1) + 2) \in 0..255 /\ Left(s, g - 1) \in 1..3
      BY <2>1, <2>2, BytesAt
    <2>4. base64_encode(s[3*g - 2], s[3*g - 1], s[3*g], 3) = GroupAt(s, g - 1)
      BY ONLY <2>2, Zenon DEF GroupAt
    <2>5. GroupAt(s, g - 1) \in Seq(0..64) /\ Len(GroupAt(s, g - 1)) = 4
      BY ONLY <2>3, EncodeType DEF GroupAt
    <2> QED BY <2>4, <2>5
  <1>5. ASSUME l % 3 # 0
        PROVE  tail = GroupAt(s, q) /\ tail \in Seq(0..64) /\ Len(tail) = 4
    <2>1. /\ 3 * q < l /\ ~(3 * q + 3 <= l) /\ ~(3 * q + 2 < l)
          /\ (l % 3 = 1 => 3 * q + 1 = l) /\ (l % 3 = 2 => 3 * q + 1 < l /\ 3 * q + 2 = l)
          /\ l - 3 * q = l % 3
          /\ 3 * q \in Nat /\ 3 * q + 1 \in Nat /\ 3 * q + 2 \in Nat
      BY ONLY <1>2, <1>5
    <2>2. Left(s, q) = l % 3
      BY ONLY <2>1, Zenon DEF Left
    <2>3. l % 3 = 1 \/ l % 3 = 2
      BY ONLY <1>2, <1>5
    <2>4. ASSUME l % 3 = 1 PROVE tail = GroupAt(s, q)
      <3>1. ~(3 * q + 1 < l)
        BY ONLY <1>2, <2>1, <2>4
      <3>2. ByteAt(s, 3 * q) = s[l] /\ ByteAt(s, 3 * q + 1) = 0 /\ ByteAt(s, 3 * q + 2) = 0
        BY ONLY <2>1, <2>4, <3>1, Zenon DEF ByteAt
      <3>3. tail = base64_encode(s[l], 0, 0, 1)
        BY ONLY <2>4, Zenon
      <3> QED BY ONLY <2>2, <2>4, <3>2, <3>3, Zenon DEF GroupAt
    <2>5. ASSUME l % 3 = 2 PROVE tail = GroupAt(s, q)
      <3>1. 3 * q + 1 = l - 1 /\ 3 * q + 1 + 1 = l /\ l % 3 # 1
        <4>1. \A x, y \in Nat : 3 * x + 2 = y => 3 * x + 1 = y - 1 /\ 3 * x + 1 + 1 = y
          OBVIOUS
        <4>2. 3 * q + 2 = l /\ l \in Nat /\ q \in Nat
          BY ONLY <1>2, <2>1, <2>5, Zenon
        <4>3. 2 # 1
          OBVIOUS
        <4> QED BY ONLY <2>5, <4>1, <4>2, <4>3, Zenon
      <3>2. ByteAt(s, 3 * q) = s[l - 1] /\ ByteAt(s, 3 * q + 1) = s[l] /\ ByteAt(s, 3 * q + 2) = 0
        BY ONLY <2>1, <2>5, <3>1, Zenon DEF ByteAt
      <3>3. tail = base64_encode(s[l - 1], s[l], 0, 2)
        BY ONLY <2>5, <3>1, Zenon
      <3> QED BY ONLY <2>2, <2>5, <3>2, <3>3, Zenon DEF GroupAt
    <2>6. tail = GroupAt(s, q)
      <3> HIDE DEF tail
      <3> QED BY <2>3, <2>4, <2>5
    <2>7. /\ ByteAt(s, 3 * q) \in 0..255 /\ ByteAt(s, 3 * q + 1) \in 0..255
          /\ ByteAt(s, 3 * q + 2) \in 0..255 /\ Left(s, q) \in 1..3
      BY <2>1, <2>2, <2>3, BytesAt
    <2>8. GroupAt(s, q) \in Seq(0..64) /\ Len(GroupAt(s, q)) = 4
      BY ONLY <2>7, EncodeType DEF GroupAt
    <2> HIDE DEF tail
    <2> QED BY <2>6, <2>8
  <1>6. l % 3 = 0 => tail = <<>>
    OBVIOUS
  <1>7. tail \in Seq(0..64) /\ (l % 3 = 0 => Len(tail) = 0) /\ (l % 3 # 0 => Len(tail) = 4)
    <2>1. <<>> \in Seq(0..64) /\ Len(<<>>) = 0
      OBVIOUS
    <2> HIDE DEF tail, l
    <2>2. ASSUME l % 3 = 0 PROVE tail \in Seq(0..64) /\ Len(tail) = 0
      <3>1. tail = <<>>
        BY ONLY <1>6, <2>2, Zenon
      <3> QED BY ONLY <3>1
    <2> QED BY ONLY <1>5, <2>2, Zenon
  <1>9. \A g \in 1..q : w[g] = GroupAt(s, g - 1)
    <2>1. \A g \in 1..q : w[g] = base64_encode(s[3*g - 2], s[3*g - 1], s[3*g], 3)
      BY Zenon
    <2> HIDE DEF w, q
    <2> QED BY ONLY <1>4, <2>1, Zenon
  <1>8. /\ f \in Seq(0..64) /\ Len(f) = 4 * q
        /\ \A g \in 1..q, k \in 1..4 : f[4 * (g - 1) + k] = w[g][k]
    <2>2. w = [g \in 1..q |-> w[g]]
      OBVIOUS
    <2> HIDE DEF w, q
    <2>3. \A g \in 1..q : w[g] \in Seq(0..64) /\ Len(w[g]) = 4
      BY ONLY <1>4, <1>9, Zenon
    <2>1. w \in [1..q -> Seq(0..64)] /\ \A g \in 1..q : Len(w[g]) = 4
      BY ONLY <2>2, <2>3
    <2> QED BY ONLY <1>2, <2>1, FlattenFours
  <1> HIDE DEF l, q, w, tail, f
  <1>10. /\ e \in Seq(0..64) /\ Len(e) = 4 * q + Len(tail)
         /\ \A j \in 1..4 * q + Len(tail) : e[j] = IF j <= 4 * q THEN f[j] ELSE tail[j - 4 * q]
    <2>1. /\ e \in Seq(0..64) /\ Len(e) = Len(f) + Len(tail)
          /\ \A j \in 1..Len(f) + Len(tail) : e[j] = IF j <= Len(f) THEN f[j] ELSE tail[j - Len(f)]
      BY ONLY <1>7, <1>8, ConcatProperties
    <2> QED BY ONLY <1>8, <2>1, Zenon
  <1> HIDE DEF e
  <1>11. ASSUME NEW g \in 0..Groups(s) - 1, NEW k \in 1..4 PROVE e[4 * g + k] = GroupAt(s, g)[k]
    <2>1. CASE g + 1 \in 1..q
      <3>1. PICK j \in 1..q : j = g + 1
        BY ONLY <2>1
      <3>2. 4 * g + k \in 1..4 * q + Len(tail) /\ 4 * g + k <= 4 * q /\ 4 * (j - 1) + k = 4 * g
              + k /\ j - 1 = g
        <4>1. Len(tail) \in Nat
          BY ONLY <1>7
        <4> QED BY ONLY <1>2, <3>1, <4>1, k \in 1..4
      <3>3. e[4 * g + k] = f[4 * g + k]
        <4>1. PICK i \in 1..4 * q + Len(tail) : i = 4 * g + k
          BY ONLY <3>2
        <4> QED BY ONLY <1>10, <3>2, <4>1
      <3>4. f[4 * (j - 1) + k] = w[j][k] /\ w[j] = GroupAt(s, j - 1)
        BY ONLY <1>8, <1>9, k \in 1..4, j \in 1..q, Zenon
      <3> QED BY ONLY <3>2, <3>3, <3>4, Zenon
    <2>2. CASE g + 1 \notin 1..q
      <3>1. g = q /\ l % 3 # 0
        BY ONLY <1>2, <1>3, <2>2, g \in 0..Groups(s) - 1
      <3>2. Len(tail) = 4 /\ tail = GroupAt(s, q)
        BY ONLY <1>5, <1>7, <3>1
      <3>3. 4 * q + k \in 1..4 * q + Len(tail) /\ ~(4 * q + k <= 4 * q) /\ 4 * q + k - 4 * q = k
        BY ONLY <1>2, <3>2, k \in 1..4
      <3>4. e[4 * q + k] = tail[k]
        <4>1. PICK i \in 1..4 * q + Len(tail) : i = 4 * q + k
          BY ONLY <3>3
        <4>2. ~(i <= 4 * q) /\ i - 4 * q = k
          BY ONLY <1>2, <4>1, k \in 1..4
        <4>3. e[i] = tail[k]
          BY ONLY <1>10, <4>2, Zenon
        <4> QED BY ONLY <4>1, <4>3
      <3> QED BY ONLY <3>1, <3>2, <3>4, Zenon
    <2> QED BY <2>1, <2>2
  <1>12. Len(e) = 4 * Groups(s)
    <2>1. Len(e) = 4 * q + Len(tail)
      BY ONLY <1>10
    <2>2. CASE l % 3 = 0
      <3>1. Len(tail) = 0 /\ Groups(s) = q
        BY ONLY <1>3, <1>7, <2>2, Zenon
      <3> QED BY ONLY <1>2, <2>1, <3>1
    <2>3. CASE l % 3 # 0
      <3>1. Len(tail) = 4 /\ Groups(s) = q + 1
        BY ONLY <1>3, <1>7, <2>3, Zenon
      <3> QED BY ONLY <1>2, <2>1, <3>1
    <2> QED BY <2>2, <2>3
  <1>13. EncodedBy(s, e)
    BY ONLY <1>10, <1>11, <1>12 DEF EncodedBy
  <1> QED BY ONLY <1>1, <1>13, Zenon

(* A group is four groups of six bits, those beyond the end being padding. *)
LEMMA GroupIs ==
    ASSUME NEW s \in Seq(0..255), NEW g \in 0..Groups(s) - 1
    PROVE  /\ GroupAt(s, g)[1] = SixBits(s, 4 * g)
           /\ GroupAt(s, g)[2] = SixBits(s, 4 * g + 1)
           /\ GroupAt(s, g)[3] = IF Left(s, g) > 1 THEN SixBits(s, 4 * g + 2) ELSE Pad
           /\ GroupAt(s, g)[4] = IF Left(s, g) > 2 THEN SixBits(s, 4 * g + 3) ELSE Pad
  <1> DEFINE a == ByteAt(s, 3 * g)
             b == ByteAt(s, 3 * g + 1)
             c == ByteAt(s, 3 * g + 2)
             n == Left(s, g)
  <1>1. n \in 1..3 /\ g \in Nat
    BY LeftIs
  <1>2. a \in 0..255 /\ b \in 0..255 /\ c \in 0..255
    <2>1. 3 * g \in Nat /\ 3 * g + 1 \in Nat /\ 3 * g + 2 \in Nat
      BY ONLY <1>1
    <2> QED BY <2>1, BytesAt
  <1>3. /\ SixBits(s, 4 * g) = Quo(a, 4)
        /\ SixBits(s, 4 * g + 1) = 16 * Rem(a, 4) + Quo(b, 16)
        /\ SixBits(s, 4 * g + 2) = 4 * Rem(b, 16) + Quo(c, 64)
        /\ SixBits(s, 4 * g + 3) = Rem(c, 64)
    BY <1>1, SixBitsAre
  <1>4. GroupAt(s, g) = base64_encode(a, b, c, n)
    BY DEF GroupAt
  <1> HIDE DEF a, b, c, n
  <1>5. base64_encode(a, b, c, n) =
             <<Quo(a, 4), 16 * Rem(a, 4) + Quo(b, 16),
               IF n > 1 THEN 4 * Rem(b, 16) + Quo(c, 64) ELSE Pad,
               IF n > 2 THEN Rem(c, 64) ELSE Pad>>
    BY ONLY <1>1, <1>2, EncodeIs
  <1>6. GroupAt(s, g) =
             <<SixBits(s, 4 * g), SixBits(s, 4 * g + 1),
               IF n > 1 THEN SixBits(s, 4 * g + 2) ELSE Pad,
               IF n > 2 THEN SixBits(s, 4 * g + 3) ELSE Pad>>
    BY ONLY <1>3, <1>4, <1>5, Zenon
  <1> QED BY ONLY <1>6 DEF n

(* Encoding is that of RFC 4648. *)
LEMMA EncodeIsRfc ==
    ASSUME NEW s \in Seq(0..255), NEW e, EncodedBy(s, e)
    PROVE  e = Rfc4648(s)
  <1> DEFINE l == Len(s)
             G == Groups(s)
             v(i) == IF i > (4 * l + 2) \div 3 THEN Pad ELSE SixBits(s, i - 1)
  <1>1. Rfc4648(s) = [i \in 1..4 * G |-> v(i)]
    BY DEF Rfc4648, Groups
  <1>2. G \in Nat /\ l \in Nat
    <2>1. Len(s) \in Nat
      OBVIOUS
    <2>2. \A x \in Nat : (x + 2) \div 3 \in Nat
      OBVIOUS
    <2> QED BY ONLY <2>1, <2>2 DEF Groups
  <1>3. ASSUME NEW i \in 1..4 * G PROVE e[i] = v(i)
    <2>1. PICK g \in 0..G - 1, k \in 1..4 : i = 4 * g + k
      <3> DEFINE g == (i - 1) \div 4
                 k == ((i - 1) % 4) + 1
      <3> HIDE DEF G
      <3>1. g \in 0..G - 1 /\ k \in 1..4 /\ i = 4 * g + k
        BY <1>2
      <3> QED BY <3>1
    <2> DEFINE n == Left(s, g)
    <2>2. n \in 1..3 /\ g \in Nat
      BY LeftIs
    <2>3. /\ (4 * l + 2) \div 3 >= 4 * g + n + 1
          /\ n < 3 => (4 * l + 2) \div 3 = 4 * g + n + 1
      <3>1. n = IF 3 * g + 3 <= l THEN 3 ELSE l - 3 * g
        BY DEF Left
      <3> HIDE DEF l, n
      <3>2. 3 * g + n <= l /\ (n < 3 => l = 3 * g + n)
        BY ONLY <1>2, <2>2, <3>1
      <3>3. \A x \in Nat, y \in 1..3 :
                /\ (4 * (3 * x + y) + 2) \div 3 = 4 * x + y + 1
        <4>1. \A x \in Nat : /\ (4 * (3 * x + 1) + 2) \div 3 = 4 * x + 2
                             /\ (4 * (3 * x + 2) + 2) \div 3 = 4 * x + 3
                             /\ (4 * (3 * x + 3) + 2) \div 3 = 4 * x + 4
          OBVIOUS
        <4> QED BY <4>1
      <3>4. \A x, y \in Nat : x <= y => (4 * x + 2) \div 3 <= (4 * y + 2) \div 3
        OBVIOUS
      <3>5. 3 * g + n \in Nat /\ (4 * (3 * g + n) + 2) \div 3 = 4 * g + n + 1
        BY ONLY <2>2, <3>3
      <3>6. 4 * g + n + 1 <= (4 * l + 2) \div 3
        <4>1. (4 * (3 * g + n) + 2) \div 3 <= (4 * l + 2) \div 3
          BY ONLY <1>2, <3>2, <3>4, <3>5
        <4> QED BY ONLY <3>5, <4>1
      <3>7. n < 3 => (4 * l + 2) \div 3 = 4 * g + n + 1
        BY ONLY <3>2, <3>5
      <3>8. (4 * l + 2) \div 3 \in Nat
        BY ONLY <1>2
      <3> QED BY ONLY <2>2, <3>6, <3>7, <3>8
    <2>4. e[i] = GroupAt(s, g)[k]
      BY <2>1 DEF EncodedBy
    <2> DEFINE top == (4 * l + 2) \div 3
    <2>5. top \in Int
      BY ONLY <1>2
    <2>6. v(i) = IF i > top THEN Pad ELSE SixBits(s, i - 1)
      OBVIOUS
    <2>7. /\ top >= 4 * g + n + 1 /\ (n < 3 => top = 4 * g + n + 1)
      BY <2>3
    <2>8. /\ GroupAt(s, g)[1] = SixBits(s, 4 * g)
          /\ GroupAt(s, g)[2] = SixBits(s, 4 * g + 1)
          /\ GroupAt(s, g)[3] = IF n > 1 THEN SixBits(s, 4 * g + 2) ELSE Pad
          /\ GroupAt(s, g)[4] = IF n > 2 THEN SixBits(s, 4 * g + 3) ELSE Pad
      BY GroupIs
    <2> HIDE DEF top, v, n
    <2>9. CASE k = 1
      <3>1. ~(i > top) /\ i - 1 = 4 * g
        BY ONLY <2>1, <2>2, <2>5, <2>7, <2>9
      <3> QED BY ONLY <2>4, <2>6, <2>8, <2>9, <3>1, Zenon
    <2>10. CASE k = 2
      <3>1. ~(i > top) /\ i - 1 = 4 * g + 1
        BY ONLY <2>1, <2>2, <2>5, <2>7, <2>10
      <3> QED BY ONLY <2>4, <2>6, <2>8, <2>10, <3>1, Zenon
    <2>11. CASE k = 3
      <3>1. (n > 1 <=> ~(i > top)) /\ i - 1 = 4 * g + 2
        BY ONLY <2>1, <2>2, <2>5, <2>7, <2>11
      <3> QED BY ONLY <2>4, <2>6, <2>8, <2>11, <3>1, Zenon
    <2>12. CASE k = 4
      <3>1. (n > 2 <=> ~(i > top)) /\ i - 1 = 4 * g + 3
        BY ONLY <2>1, <2>2, <2>5, <2>7, <2>12
      <3> QED BY ONLY <2>4, <2>6, <2>8, <2>12, <3>1, Zenon
    <2> QED BY ONLY k \in 1..4, <2>9, <2>10, <2>11, <2>12
  <1>4. e = [i \in 1..4 * G |-> e[i]]
    <2>1. e \in Seq(0..64) /\ Len(e) = 4 * G
      BY DEF EncodedBy
    <2> HIDE DEF G
    <2> QED BY ONLY <2>1
  <1> HIDE DEF v, G
  <1> QED BY ONLY <1>1, <1>3, <1>4, Zenon

(* Taking the bytes out of the groups of six bits again. *)
TakenBack(a, b, c) ==
    LET x == Quo(a, 4)
        y == 16 * Rem(a, 4) + Quo(b, 16)
        z == 4 * Rem(b, 16) + Quo(c, 64)
        u == Rem(c, 64)
    IN  /\ x \in 0..63 /\ y \in 0..63 /\ z \in 0..63 /\ u \in 0..63
        /\ Octet1(x, y) = a /\ Octet2(y, z) = b /\ Octet3(z, u) = c

(* The digits of a group give back the bytes they were taken from. *)
LEMMA SixBitsBack ==
    ASSUME NEW a \in 0..255, NEW b \in 0..255, NEW c \in 0..255
    PROVE  TakenBack(a, b, c)
  <1>1. /\ Quo(a, 4) \in 0..63 /\ Rem(a, 4) \in 0..3 /\ a = 4 * Quo(a, 4) + Rem(a, 4)
        /\ Quo(b, 16) \in 0..15 /\ Rem(b, 16) \in 0..15 /\ b = 16 * Quo(b, 16) + Rem(b, 16)
        /\ Quo(c, 64) \in 0..3 /\ Rem(c, 64) \in 0..63 /\ c = 64 * Quo(c, 64) + Rem(c, 64)
    BY Parts
  <1>2. \A p \in 0..3, q \in 0..15 : Quo(16 * p + q, 16) = p /\ Rem(16 * p + q, 16) = q
    BY DEF Quo, Rem
  <1>3. \A p \in 0..15, q \in 0..3 : Quo(4 * p + q, 4) = p /\ Rem(4 * p + q, 4) = q
    BY DEF Quo, Rem
  <1> DEFINE x == Quo(a, 4)
             y == 16 * Rem(a, 4) + Quo(b, 16)
             z == 4 * Rem(b, 16) + Quo(c, 64)
             u == Rem(c, 64)
  <1>4. x \in 0..63 /\ y \in 0..63 /\ z \in 0..63 /\ u \in 0..63
    BY ONLY <1>1
  <1>5. Quo(y, 16) = Rem(a, 4) /\ Rem(y, 16) = Quo(b, 16)
    BY ONLY <1>1, <1>2
  <1>6. Quo(z, 4) = Rem(b, 16) /\ Rem(z, 4) = Quo(c, 64)
    BY ONLY <1>1, <1>3
  <1> HIDE DEF y, z
  <1>7. Octet1(x, y) = a /\ Octet2(y, z) = b /\ Octet3(z, u) = c
    BY ONLY <1>1, <1>5, <1>6 DEF Octet1, Octet2, Octet3
  <1> QED BY <1>4, <1>7 DEF y, z, TakenBack

(* One group decodes to its bytes. *)
LEMMA GroupBytes ==
    ASSUME NEW s \in Seq(0..255), NEW g \in 0..Groups(s) - 1
    PROVE  LET e == GroupAt(s, g)
               n == Left(s, g)
               t == SubSeq(e, 1, n + 1)
           IN  /\ \A k \in 1..4 : IF k <= n + 1 THEN e[k] \in 0..63 ELSE e[k] = Pad
               /\ \E r \in Seq(0..63) :
                    /\ Len(r) = n + 1 /\ \A k \in 1..n + 1 : r[k] = e[k]
                    /\ base64_decode(r) = SubSeq(s, 3 * g + 1, 3 * g + n)
  <1> DEFINE a == ByteAt(s, 3 * g)
             b == ByteAt(s, 3 * g + 1)
             c == ByteAt(s, 3 * g + 2)
             n == Left(s, g)
             x == Quo(a, 4)
             y == 16 * Rem(a, 4) + Quo(b, 16)
             z == 4 * Rem(b, 16) + Quo(c, 64)
             u == Rem(c, 64)
             e == GroupAt(s, g)
  <1>1. n \in 1..3 /\ g \in Nat /\ 3 * g + n <= Len(s)
    BY LeftIs
  <1>2. a \in 0..255 /\ b \in 0..255 /\ c \in 0..255
    <2>1. 3 * g \in Nat /\ 3 * g + 1 \in Nat /\ 3 * g + 2 \in Nat
      BY ONLY <1>1
    <2> QED BY <2>1, BytesAt
  <1>3. e = base64_encode(a, b, c, n)
    BY DEF GroupAt
  <1>4. /\ n >= 1 => a = s[3 * g + 1]
        /\ n >= 2 => b = s[3 * g + 2]
        /\ n >= 3 => c = s[3 * g + 3]
    <2> DEFINE l == Len(s)
    <2>1. l \in Nat
      OBVIOUS
    <2>2. /\ a = IF 3 * g < l THEN s[3 * g + 1] ELSE 0
          /\ b = IF 3 * g + 1 < l THEN s[3 * g + 1 + 1] ELSE 0
          /\ c = IF 3 * g + 2 < l THEN s[3 * g + 2 + 1] ELSE 0
      BY DEF ByteAt
    <2> HIDE DEF l, a, b, c, n
    <2>3. /\ n >= 1 => 3 * g < l
          /\ n >= 2 => 3 * g + 1 < l
          /\ n >= 3 => 3 * g + 2 < l
          /\ 3 * g + 1 + 1 = 3 * g + 2 /\ 3 * g + 2 + 1 = 3 * g + 3
      BY <1>1, <2>1 DEF l
    <2> QED BY ONLY <2>2, <2>3
  <1> HIDE DEF a, b, c, n
  <1>5. e = <<x, y, IF n > 1 THEN z ELSE Pad, IF n > 2 THEN u ELSE Pad>>
    <2>1. base64_encode(a, b, c, n) =
             <<Quo(a, 4), 16 * Rem(a, 4) + Quo(b, 16),
               IF n > 1 THEN 4 * Rem(b, 16) + Quo(c, 64) ELSE Pad,
               IF n > 2 THEN Rem(c, 64) ELSE Pad>>
      BY ONLY <1>1, <1>2, EncodeIs
    <2> QED BY ONLY <1>3, <2>1, Zenon
  <1>6. /\ x \in 0..63 /\ y \in 0..63 /\ z \in 0..63 /\ u \in 0..63
        /\ Octet1(x, y) = a /\ Octet2(y, z) = b /\ Octet3(z, u) = c
    <2>1. TakenBack(a, b, c)
      BY ONLY <1>2, SixBitsBack
    <2> QED BY ONLY <2>1, Zenon DEF TakenBack
  <1> HIDE DEF x, y, z, u, e
  <1>7. e[1] = x /\ e[2] = y /\ (n > 1 => e[3] = z) /\ (n > 2 => e[4] = u)
        /\ (~(n > 1) => e[3] = Pad) /\ (~(n > 2) => e[4] = Pad)
    BY ONLY <1>5
  <1>8. \A k \in 1..4 : IF k <= n + 1 THEN e[k] \in 0..63 ELSE e[k] = Pad
    <2>1. \A k \in 1..4 : k = 1 \/ k = 2 \/ k = 3 \/ k = 4
      OBVIOUS
    <2>2. /\ 1 <= n + 1 /\ 2 <= n + 1 /\ (3 <= n + 1 <=> n > 1) /\ (4 <= n + 1 <=> n > 2)
      BY ONLY <1>1
    <2> QED BY ONLY <1>6, <1>7, <2>1, <2>2, Zenon
  <1> DEFINE r == [k \in 1..n + 1 |-> e[k]]
             d == base64_decode(r)
  <1>9. \A k \in 1..n + 1 : e[k] \in 0..63
    <2>1. \A k \in 1..n + 1 : k \in 1..4 /\ k <= n + 1
      BY ONLY <1>1
    <2> QED BY ONLY <1>8, <2>1, Zenon
  <1>10. r \in Seq(0..63) /\ Len(r) = n + 1 /\ \A k \in 1..n + 1 : r[k] = e[k]
    <2>1. PICK m \in Nat : m = n + 1
      BY ONLY <1>1
    <2>2. \A k \in 1..m : e[k] \in 0..63
      BY ONLY <1>9, <2>1
    <2>3. r = [k \in 1..m |-> e[k]]
      BY ONLY <2>1
    <2> HIDE DEF r
    <2>4. r \in Seq(0..63) /\ Len(r) = m /\ \A k \in 1..m : r[k] = e[k]
      BY ONLY <2>2, <2>3
    <2> QED BY ONLY <2>1, <2>4, Zenon
  <1> HIDE DEF r
  <1>11. /\ r[1] = x /\ r[2] = y /\ (n >= 2 => r[3] = z) /\ (n >= 3 => r[4] = u)
    BY ONLY <1>1, <1>7, <1>10
  <1>12. /\ d \in Seq(0..255) /\ Len(d) = n
         /\ d[1] = a /\ (n >= 2 => d[2] = b) /\ (n >= 3 => d[3] = c)
    <2> DEFINE m == Len(r)
    <2>1. m = n + 1 /\ m <= 4 /\ m # 0 /\ m - 1 = n /\ m >= 2 /\ (n >= 2 => m >= 3) /\ (n >= 3 => m >= 4)
      BY ONLY <1>1, <1>10
    <2>2. /\ d \in Seq(0..255)
          /\ Len(d) = IF m = 0 THEN 0 ELSE m - 1
          /\ m >= 2 => d[1] = Octet1(r[1], r[2])
          /\ m >= 3 => d[2] = Octet2(r[2], r[3])
          /\ m >= 4 => d[3] = Octet3(r[3], r[4])
      BY ONLY <1>10, <2>1, DecodedIs
    <2> HIDE DEF m, d
    <2>3. Len(d) = n
      BY ONLY <2>1, <2>2
    <2> QED BY ONLY <1>6, <1>11, <2>1, <2>2, <2>3
  <1>13. d = SubSeq(s, 3 * g + 1, 3 * g + n)
    <2> DEFINE w == SubSeq(s, 3 * g + 1, 3 * g + n)
    <2>1. /\ w \in Seq(0..255) /\ Len(w) = n
          /\ \A i \in 1..n : w[i] = s[3 * g + i]
      <3> DEFINE T == 0..255
                 lo == 3 * g + 1
                 hi == 3 * g + n
      <3>1. \A i \in lo..hi : s[i] \in T
        <4>1. \A i \in lo..hi : i \in 1..Len(s)
          BY <1>1
        <4>2. \A i \in 1..Len(s) : s[i] \in T
          BY ElementOfSeq
        <4> QED BY ONLY <4>1, <4>2, Zenon
      <3>2. lo \in Int /\ hi \in Int /\ lo <= hi /\ hi - lo + 1 = n
        BY ONLY <1>1
      <3>3. /\ \A i \in 1..n : lo + i - 1 = 3 * g + i
        BY ONLY <1>1
      <3> HIDE DEF T, lo, hi
      <3>4. /\ SubSeq(s, lo, hi) \in Seq(T)
            /\ Len(SubSeq(s, lo, hi)) = IF lo <= hi THEN hi - lo + 1 ELSE 0
            /\ \A i \in 1..hi - lo + 1 : SubSeq(s, lo, hi)[i] = s[lo + i - 1]
        BY ONLY <3>1, <3>2, SubSeqProperties
      <3>5. w = SubSeq(s, lo, hi)
        BY DEF lo, hi
      <3>6. Len(w) = n /\ \A i \in 1..n : w[i] = s[3 * g + i]
        <4> HIDE DEF w
        <4> QED BY ONLY <3>2, <3>3, <3>4, <3>5
      <3>7. w \in Seq(T)
        BY ONLY <3>4, <3>5, Zenon
      <3> QED BY ONLY <3>6, <3>7 DEF T
    <2>2. ASSUME NEW i \in 1..n PROVE d[i] = w[i]
      <3>1. i = 1 \/ (i = 2 /\ n >= 2) \/ (i = 3 /\ n >= 3)
        BY ONLY <1>1, i \in 1..n
      <3>2. w[i] = s[3 * g + i]
        BY <2>1
      <3>3. n >= 1
        BY ONLY <1>1
      <3> HIDE DEF w, d
      <3> QED BY ONLY <1>4, <1>12, <3>1, <3>2, <3>3, Zenon
    <2> HIDE DEF w, d
    <2> QED BY ONLY <1>12, <2>1, <2>2, SeqEqual
  <1>14. n = Left(s, g) /\ e = GroupAt(s, g)
    BY DEF n, e
  <1> HIDE DEF d
  <1> QED BY ONLY <1>8, <1>10, <1>13, <1>14, Zenon DEF d

(* A sequence is another with one element appended if it agrees with it. *)
LEMMA AppendIs ==
    ASSUME NEW T, NEW s \in Seq(T), NEW c \in T, NEW w \in Seq(T), Len(w) = Len(s) + 1,
           w[Len(s) + 1] = c, \A i \in 1..Len(s) : w[i] = s[i]
    PROVE  Append(s, c) = w
  <1>1. /\ Append(s, c) \in Seq(T) /\ Len(Append(s, c)) = Len(s) + 1
        /\ \A i \in 1..Len(s) : Append(s, c)[i] = s[i]
        /\ Append(s, c)[Len(s) + 1] = c
    BY AppendProperties
  <1>2. Len(s) \in Nat
    OBVIOUS
  <1>3. \A i \in 1..Len(s) + 1 : Append(s, c)[i] = w[i]
    <2>1. \A i \in 1..Len(s) + 1 : i \in 1..Len(s) \/ i = Len(s) + 1
      BY <1>2
    <2> QED BY ONLY <1>1, <2>1, w[Len(s) + 1] = c, \A i \in 1..Len(s) : w[i] = s[i], Zenon
  <1> QED BY ONLY <1>1, <1>3, w \in Seq(T), Len(w) = Len(s) + 1, SeqEqual

(* One, two, three and four characters, collected. *)
LEMMA Collected ==
    ASSUME NEW a \in 0..63, NEW b \in 0..63
    PROVE  /\ Append(<<>>, a) = <<a>> /\ Append(<<a>>, b) = <<a, b>>
           /\ <<a>> \in Seq(0..63) /\ <<a, b>> \in Seq(0..63)
           /\ \A c \in 0..63 : Append(<<a, b>>, c) = <<a, b, c>> /\ <<a, b, c>> \in Seq(0..63)
  <1> DEFINE T == 0..63
  <1>1. a \in T /\ b \in T
    OBVIOUS
  <1> HIDE DEF T
  <1>2. <<a>> \in Seq(T) /\ Append(<<>>, a) = <<a>>
    BY ONLY <1>1
  <1>3. <<a, b>> \in Seq(T)
    BY ONLY <1>1
  <1>4. Append(<<a>>, b) = <<a, b>>
    <2>1. Len(<<a>>) = 1 /\ Len(<<a, b>>) = Len(<<a>>) + 1 /\ <<a, b>>[Len(<<a>>) + 1] = b
          /\ \A i \in 1..Len(<<a>>) : <<a, b>>[i] = <<a>>[i]
      OBVIOUS
    <2> QED BY ONLY <1>1, <1>2, <1>3, <2>1, AppendIs
  <1>5. ASSUME NEW c \in T PROVE Append(<<a, b>>, c) = <<a, b, c>> /\ <<a, b, c>> \in Seq(T)
    <2>1. <<a, b, c>> \in Seq(T)
      BY ONLY <1>1, c \in T
    <2>2. Append(<<a, b>>, c) = <<a, b, c>>
      <3>1. /\ Len(<<a, b, c>>) = Len(<<a, b>>) + 1 /\ <<a, b, c>>[Len(<<a, b>>) + 1] = c
            /\ \A i \in 1..Len(<<a, b>>) : <<a, b, c>>[i] = <<a, b>>[i]
        OBVIOUS
      <3> QED BY ONLY <1>3, <2>1, <3>1, c \in T, AppendIs
    <2> QED BY ONLY <2>1, <2>2
  <1> QED BY ONLY <1>2, <1>3, <1>4, <1>5, Zenon DEF T

(* Four elements, appended one at a time, make a sequence of four. *)
LEMMA FourCollected ==
    ASSUME NEW a \in 0..63, NEW b \in 0..63, NEW c \in 0..63, NEW d \in 0..63
    PROVE  Append(<<a, b, c>>, d) = <<a, b, c, d>>
  <1> DEFINE T == 0..63
  <1>1. a \in T /\ b \in T /\ c \in T /\ d \in T
    OBVIOUS
  <1> HIDE DEF T
  <1>2. <<a, b, c, d>> \in Seq(T) /\ <<a, b, c>> \in Seq(T)
    BY ONLY <1>1
  <1>3. /\ Len(<<a, b, c, d>>) = Len(<<a, b, c>>) + 1 /\ <<a, b, c, d>>[Len(<<a, b, c>>) + 1] = d
        /\ \A i \in 1..Len(<<a, b, c>>) : <<a, b, c, d>>[i] = <<a, b, c>>[i]
    OBVIOUS
  <1> QED BY ONLY <1>1, <1>2, <1>3, AppendIs

On(o, t) == [is |-> "on", out |-> o, t |-> t]

(* A loop that goes on is in a state. *)
LEMMA OnIs ==
    ASSUME NEW o \in DecOut, NEW t \in Seq(0..63), Len(t) <= 3
    PROVE  /\ On(o, t) \in DecState /\ On(o, t).is = "on" /\ On(o, t).out = o /\ On(o, t).t = t
           /\ On(o, t) = [is |-> "on", out |-> o, t |-> t]
  <1>1. "on" \in DecIs /\ t \in DecWait
    BY DEF DecIs, DecWait
  <1>2. [is |-> "on", out |-> o, t |-> t] \in DecState
    BY ONLY <1>1, DecStateIs, o \in DecOut
  <1> QED BY ONLY <1>2 DEF On

(* The turns of the loop, for characters that do not end it. *)
LEMMA TurnIs ==
    ASSUME NEW o \in DecOut, NEW t \in Seq(0..63), Len(t) <= 3, NEW c \in 0..64
    PROVE  /\ c = Pad => DecodeStep(On(o, t), c) = On(o \o base64_decode(t), <<>>)
           /\ c \in 0..63 /\ Len(t) = 3 =>
                DecodeStep(On(o, t), c) = On(o \o base64_decode(Append(t, c)), <<>>)
           /\ c \in 0..63 /\ Len(t) # 3 => DecodeStep(On(o, t), c) = On(o, Append(t, c))
  <1> DEFINE d == On(o, t)
  <1>1. d \in DecState /\ d.is = "on" /\ d.out = o /\ d.t = t
    BY OnIs
  <1>2. c \in 0..67
    OBVIOUS
  <1> HIDE DEF d
  <1>3. /\ d.is = "on" /\ c = Pad =>
                DecodeStep(d, c) = [is |-> "on", out |-> d.out \o base64_decode(d.t), t |-> <<>>]
        /\ d.is = "on" /\ c \in 0..63 /\ Len(d.t) = 3 =>
                DecodeStep(d, c) =
                    [is |-> "on", out |-> d.out \o base64_decode(Append(d.t, c)), t |-> <<>>]
        /\ d.is = "on" /\ c \in 0..63 /\ Len(d.t) # 3 =>
                DecodeStep(d, c) = [is |-> "on", out |-> d.out, t |-> Append(d.t, c)]
    BY ONLY <1>1, <1>2, DecodeStepIs
  <1>4. /\ c = Pad => DecodeStep(d, c) = On(o \o base64_decode(t), <<>>)
        /\ c \in 0..63 /\ Len(t) = 3 => DecodeStep(d, c) = On(o \o base64_decode(Append(t, c)), <<>>)
        /\ c \in 0..63 /\ Len(t) # 3 => DecodeStep(d, c) = On(o, Append(t, c))
    BY ONLY <1>1, <1>3, Zenon DEF On
  <1> QED BY <1>4 DEF d

(* A group adds at most three bytes to what is returned. *)
LEMMA DecodedOut ==
    ASSUME NEW o \in DecOut, NEW t \in Seq(0..63), Len(t) <= 4
    PROVE  o \o base64_decode(t) \in DecOut
  <1>1. base64_decode(t) \in Seq(0..255) /\ o \in Seq(0..255)
    BY DecodedIs DEF DecOut
  <1> QED BY ONLY <1>1, ConcatProperties DEF DecOut

(* A group of no characters adds nothing. *)
LEMMA NothingDecoded ==
    ASSUME NEW o \in DecOut
    PROVE  o \o base64_decode(<<>>) = o
  <1>1. <<>> \in Seq(0..63) /\ Len(<<>>) <= 4 /\ Len(<<>>) = 0
    OBVIOUS
  <1>2. base64_decode(<<>>) \in Seq(0..255) /\ Len(base64_decode(<<>>)) = 0
    BY ONLY <1>1, DecodedIs
  <1>3. o \in Seq(0..255)
    BY DEF DecOut
  <1> QED BY ONLY <1>2, <1>3

(* Four characters of one group: its bytes are added. *)
Padded(e, r, n) ==
    n \in 1..3 /\ Len(r) = n + 1 /\ \A k \in 1..4 : e[k] = IF k <= n + 1 THEN r[k] ELSE Pad

(* Four turns of the loop decode one group of the encoded text. *)
LEMMA FourTurns ==
    ASSUME NEW o \in DecOut, NEW r \in Seq(0..63), NEW e, NEW n, Padded(e, r, n)
    PROVE  DecodeStep(DecodeStep(DecodeStep(DecodeStep(On(o, <<>>), e[1]), e[2]), e[3]), e[4])
             = On(o \o base64_decode(r), <<>>)
  <1> DEFINE b == base64_decode(r)
             p == o \o b
             d1 == DecodeStep(On(o, <<>>), e[1])
             d2 == DecodeStep(d1, e[2])
             d3 == DecodeStep(d2, e[3])
             d4 == DecodeStep(d3, e[4])
  <1>a. n \in 1..3 /\ Len(r) = n + 1 /\ \A k \in 1..4 : e[k] = IF k <= n + 1 THEN r[k] ELSE Pad
    BY DEF Padded
  <1> SUFFICES d4 = On(o \o base64_decode(r), <<>>)
    OBVIOUS
  <1>b. /\ d1 = DecodeStep(On(o, <<>>), e[1]) /\ d2 = DecodeStep(d1, e[2])
        /\ d3 = DecodeStep(d2, e[3]) /\ d4 = DecodeStep(d3, e[4])
    OBVIOUS
  <1> HIDE DEF d1, d2, d3, d4
  <1>1. /\ e[1] = r[1] /\ e[2] = r[2] /\ e[3] = (IF n = 1 THEN Pad ELSE r[3])
        /\ e[4] = (IF n = 3 THEN r[4] ELSE Pad)
    <2>1. 1 \in 1..4 /\ 2 \in 1..4 /\ 3 \in 1..4 /\ 4 \in 1..4
      OBVIOUS
    <2>2. 1 <= n + 1 /\ 2 <= n + 1 /\ (3 <= n + 1 <=> n # 1) /\ (4 <= n + 1 <=> n = 3)
      BY ONLY <1>a
    <2> QED BY ONLY <1>a, <2>1, <2>2, Zenon
  <1>2. r[1] \in 0..63 /\ r[2] \in 0..63 /\ (n # 1 => r[3] \in 0..63) /\ (n = 3 => r[4] \in 0..63)
    <2>1. \A i \in 1..Len(r) : r[i] \in 0..63
      BY ElementOfSeq
    <2>2. 1 \in 1..n + 1 /\ 2 \in 1..n + 1 /\ (n # 1 => 3 \in 1..n + 1) /\ (n = 3 => 4 \in 1..n + 1)
      BY ONLY <1>a
    <2> QED BY ONLY <1>a, <2>1, <2>2, Zenon
  <1>3. Pad \in 0..64 /\ Pad \notin 0..63 /\ 0..63 \subseteq 0..64
    BY DEF Pad
  <1>4. /\ n = 1 => r = <<r[1], r[2]>>
        /\ n = 2 => r = <<r[1], r[2], r[3]>>
        /\ n = 3 => r = <<r[1], r[2], r[3], r[4]>>
    BY <1>a
  <1>5. /\ <<>> \in Seq(0..63) /\ Len(<<>>) = 0
        /\ \A a : Len(<<a>>) = 1
        /\ \A a, c : Len(<<a, c>>) = 2
        /\ \A a, c, x : Len(<<a, c, x>>) = 3
    OBVIOUS
  <1>6. d1 = On(o, <<r[1]>>) /\ <<r[1]>> \in Seq(0..63)
    <2>1. DecodeStep(On(o, <<>>), r[1]) = On(o, Append(<<>>, r[1]))
      <3>1. r[1] \in 0..64 /\ Len(<<>>) <= 3 /\ Len(<<>>) # 3
        BY ONLY <1>2, <1>3, <1>5
      <3> QED BY ONLY <1>2, <1>5, <3>1, TurnIs, o \in DecOut
    <2>2. Append(<<>>, r[1]) = <<r[1]>> /\ <<r[1]>> \in Seq(0..63)
      BY ONLY <1>2, Collected
    <2> QED BY ONLY <1>1, <2>1, <2>2, <1>b
  <1>7. d2 = On(o, <<r[1], r[2]>>) /\ <<r[1], r[2]>> \in Seq(0..63)
    <2>1. DecodeStep(On(o, <<r[1]>>), r[2]) = On(o, Append(<<r[1]>>, r[2]))
      <3>1. r[2] \in 0..64 /\ Len(<<r[1]>>) <= 3 /\ Len(<<r[1]>>) # 3
        BY ONLY <1>2, <1>3, <1>5
      <3> QED BY ONLY <1>2, <1>6, <3>1, TurnIs, o \in DecOut
    <2>2. Append(<<r[1]>>, r[2]) = <<r[1], r[2]>> /\ <<r[1], r[2]>> \in Seq(0..63)
      BY ONLY <1>2, Collected
    <2> QED BY ONLY <1>1, <1>6, <2>1, <2>2, <1>b
  <1> DEFINE w == <<r[1], r[2]>>
  <1>8. Len(w) = 2 /\ Len(w) <= 3 /\ Len(w) # 3 /\ w \in Seq(0..63)
    BY ONLY <1>5, <1>7
  <1>9. CASE n = 1
    <2>1. e[3] = Pad /\ e[4] = Pad /\ r = w
      BY ONLY <1>1, <1>4, <1>9
    <2>2. d3 = On(p, <<>>)
      <3> HIDE DEF w
      <3>1. DecodeStep(On(o, w), Pad) = On(o \o base64_decode(w), <<>>)
        BY ONLY <1>3, <1>8, TurnIs, o \in DecOut
      <3>2. d2 = On(o, w)
        BY <1>7 DEF w
      <3> QED BY ONLY <2>1, <3>1, <3>2, <1>b
    <2>3. p \in DecOut
      <3>1. Len(r) <= 4
        BY <1>a
      <3> QED BY ONLY <3>1, DecodedOut, o \in DecOut, r \in Seq(0..63)
    <2> HIDE DEF p
    <2>4. d4 = On(p \o base64_decode(<<>>), <<>>)
      <3>1. Len(<<>>) <= 3
        OBVIOUS
      <3>2. DecodeStep(On(p, <<>>), Pad) = On(p \o base64_decode(<<>>), <<>>)
        BY ONLY <1>3, <1>5, <2>3, <3>1, TurnIs
      <3> QED BY ONLY <2>1, <2>2, <3>2, <1>b
    <2>5. p \o base64_decode(<<>>) = p
      BY ONLY <2>3, NothingDecoded
    <2> QED BY ONLY <2>4, <2>5 DEF p
  <1>10. ASSUME n # 1
         PROVE  /\ d3 = On(o, <<r[1], r[2], r[3]>>) /\ <<r[1], r[2], r[3]>> \in Seq(0..63)
    <2>1. DecodeStep(On(o, w), r[3]) = On(o, Append(w, r[3]))
      <3> HIDE DEF w
      <3>1. r[3] \in 0..64 /\ r[3] \in 0..63
        BY ONLY <1>2, <1>3, <1>10
      <3> QED BY ONLY <1>8, <3>1, TurnIs, o \in DecOut
    <2>2. Append(w, r[3]) = <<r[1], r[2], r[3]>> /\ <<r[1], r[2], r[3]>> \in Seq(0..63)
      BY ONLY <1>2, <1>10, Collected
    <2>3. e[3] = r[3] /\ d2 = On(o, w)
      BY ONLY <1>1, <1>7, <1>10
    <2> QED BY ONLY <2>1, <2>2, <2>3, <1>b
  <1> DEFINE v == <<r[1], r[2], r[3]>>
  <1>11. CASE n = 2
    <2>1. e[4] = Pad /\ r = v /\ d3 = On(o, v) /\ v \in Seq(0..63) /\ Len(v) <= 3
      BY ONLY <1>1, <1>4, <1>5, <1>10, <1>11
    <2> HIDE DEF v
    <2>2. DecodeStep(On(o, v), Pad) = On(o \o base64_decode(v), <<>>)
      BY ONLY <1>3, <2>1, TurnIs, o \in DecOut
    <2> QED BY ONLY <2>1, <2>2, <1>b
  <1>12. CASE n = 3
    <2>1. /\ e[4] = r[4] /\ r[4] \in 0..63 /\ r[4] \in 0..64
          /\ d3 = On(o, v) /\ v \in Seq(0..63) /\ Len(v) <= 3 /\ Len(v) = 3
      BY ONLY <1>1, <1>2, <1>3, <1>5, <1>10, <1>12
    <2>3. Append(v, r[4]) = r
      <3>1. Append(v, r[4]) = <<r[1], r[2], r[3], r[4]>>
        <4>1. r[3] \in 0..63 /\ r[4] \in 0..63
          BY ONLY <1>2, <1>12
        <4> QED BY ONLY <1>2, <4>1, FourCollected
      <3> QED BY ONLY <1>4, <1>12, <3>1
    <2> HIDE DEF v
    <2>2. DecodeStep(On(o, v), r[4]) = On(o \o base64_decode(Append(v, r[4])), <<>>)
      BY ONLY <2>1, TurnIs, o \in DecOut
    <2> QED BY ONLY <2>1, <2>2, <2>3, <1>b
  <1> QED BY ONLY <1>a, <1>9, <1>11, <1>12

(* A part of a sequence. *)
LEMMA SubSeqIs ==
    ASSUME NEW T, NEW s \in Seq(T), NEW a \in 1..Len(s) + 1, NEW b \in a - 1..Len(s)
    PROVE  /\ SubSeq(s, a, b) \in Seq(T) /\ Len(SubSeq(s, a, b)) = b - a + 1
           /\ \A i \in 1..b - a + 1 : SubSeq(s, a, b)[i] = s[a + i - 1]
  <1>1. Len(s) \in Nat
    OBVIOUS
  <1>2. a \in Int /\ b \in Int /\ a <= b + 1 /\ 1 <= a /\ b <= Len(s)
    BY <1>1
  <1>3. \A i \in a..b : s[i] \in T
    <2>1. \A i \in a..b : i \in 1..Len(s)
      BY ONLY <1>1, <1>2
    <2>2. \A i \in 1..Len(s) : s[i] \in T
      BY ElementOfSeq
    <2> QED BY ONLY <2>1, <2>2
  <1>4. /\ SubSeq(s, a, b) \in Seq(T)
        /\ Len(SubSeq(s, a, b)) = IF a <= b THEN b - a + 1 ELSE 0
        /\ \A i \in 1..b - a + 1 : SubSeq(s, a, b)[i] = s[a + i - 1]
    BY ONLY <1>2, <1>3, SubSeqProperties
  <1>5. (IF a <= b THEN b - a + 1 ELSE 0) = b - a + 1
    BY ONLY <1>2
  <1> QED BY ONLY <1>4, <1>5

(* What decoding makes of the four characters of a group. *)
LEMMA GroupTurns ==
    ASSUME NEW s \in Seq(0..255), NEW e, EncodedBy(s, e), NEW h, Runs(h, e, 4 * Groups(s)),
           NEW g \in 0..Groups(s) - 1, NEW o \in DecOut, h[4 * g] = On(o, <<>>)
    PROVE  h[4 * g + 4] = On(o \o SubSeq(s, 3 * g + 1, 3 * g + Left(s, g)), <<>>)
  <1> DEFINE G == Groups(s)
             n == Left(s, g)
             c == GroupAt(s, g)
             w == SubSeq(s, 3 * g + 1, 3 * g + n)
  <1>1. n \in 1..3 /\ g \in Nat
    BY LeftIs
  <1>2. G \in Nat
    <2>1. Len(s) \in Nat
      OBVIOUS
    <2>2. \A x \in Nat : (x + 2) \div 3 \in Nat
      OBVIOUS
    <2> QED BY ONLY <2>1, <2>2 DEF Groups
  <1>3. PICK r \in Seq(0..63) : /\ Len(r) = n + 1 /\ \A k \in 1..n + 1 : r[k] = c[k]
                                /\ base64_decode(r) = w
    BY GroupBytes
  <1>4. \A k \in 1..4 : c[k] = IF k <= n + 1 THEN r[k] ELSE Pad
    <2>1. \A k \in 1..4 : IF k <= n + 1 THEN c[k] \in 0..63 ELSE c[k] = Pad
      BY GroupBytes
    <2>2. \A k \in 1..4 : k <= n + 1 => k \in 1..n + 1
      BY ONLY <1>1
    <2> HIDE DEF c, n
    <2> QED BY ONLY <1>3, <2>1, <2>2, Zenon
  <1>5. \A k \in 1..4 : e[4 * g + k] = c[k]
    BY DEF EncodedBy
  <1>6. \A j \in 1..4 * G : h[j] = DecodeStep(h[j - 1], e[j])
    BY DEF Runs
  <1> HIDE DEF G, n, c, w
  <1>7. ASSUME NEW k \in 1..4 PROVE h[4 * g + k] = DecodeStep(h[4 * g + k - 1], c[k])
    <2>1. PICK j \in 1..4 * G : j = 4 * g + k
      <3>1. g <= G - 1
        BY DEF G
      <3> QED BY ONLY <1>1, <1>2, <3>1, k \in 1..4
    <2>2. e[j] = c[k]
      BY ONLY <1>5, <2>1
    <2>3. h[j] = DecodeStep(h[j - 1], e[j])
      BY ONLY <1>6
    <2> QED BY ONLY <1>1, <2>1, <2>2, <2>3, k \in 1..4
  <1>8. /\ h[4 * g + 1] = DecodeStep(h[4 * g], c[1])
        /\ h[4 * g + 2] = DecodeStep(h[4 * g + 1], c[2])
        /\ h[4 * g + 3] = DecodeStep(h[4 * g + 2], c[3])
        /\ h[4 * g + 4] = DecodeStep(h[4 * g + 3], c[4])
    <2>1. /\ 4 * g + 1 - 1 = 4 * g /\ 4 * g + 2 - 1 = 4 * g + 1
          /\ 4 * g + 3 - 1 = 4 * g + 2 /\ 4 * g + 4 - 1 = 4 * g + 3
      BY ONLY <1>1
    <2>2. 1 \in 1..4 /\ 2 \in 1..4 /\ 3 \in 1..4 /\ 4 \in 1..4
      OBVIOUS
    <2> QED BY ONLY <1>7, <2>1, <2>2, Zenon
  <1>9. h[4 * g + 4] = On(o \o base64_decode(r), <<>>)
    <2>1. Padded(c, r, n)
      BY ONLY <1>1, <1>3, <1>4 DEF Padded
    <2>2. DecodeStep(DecodeStep(DecodeStep(DecodeStep(On(o, <<>>), c[1]), c[2]), c[3]), c[4])
             = On(o \o base64_decode(r), <<>>)
      BY ONLY <2>1, FourTurns, o \in DecOut, r \in Seq(0..63)
    <2> QED BY ONLY <1>8, <2>2, Zenon, h[4 * g] = On(o, <<>>)
  <1> QED BY <1>3, <1>9 DEF w, n

(* Sequences over a smaller set are ones over a larger. *)
LEMMA SeqWiden ==
    ASSUME NEW S, NEW T, S \subseteq T, NEW s \in Seq(S)
    PROVE  s \in Seq(T)
  OBVIOUS

(* A sequence is a function on its indices. *)
LEMMA SeqAsFun ==
    ASSUME NEW T, NEW s \in Seq(T)
    PROVE  s \in [1..Len(s) -> T]
  <1>1. DOMAIN s = 1..Len(s) /\ \A i \in 1..Len(s) : s[i] \in T
    BY ElementOfSeq
  <1>2. s = [i \in 1..Len(s) |-> s[i]]
    OBVIOUS
  <1> QED BY ONLY <1>1, <1>2

(* Where the groups end in the string. *)
End(s, g) == IF 3 * g <= Len(s) THEN 3 * g ELSE Len(s)

(* The number of groups, and the group that is not whole. *)
LEMMA GroupsOf ==
    ASSUME NEW s \in Seq(0..255)
    PROVE  Groups(s) \in Nat /\ Len(s) \in Nat /\ Len(s) <= 3 * Groups(s)
  <1>1. Len(s) \in Nat
    OBVIOUS
  <1>2. \A x \in Nat : (x + 2) \div 3 \in Nat /\ x <= 3 * ((x + 2) \div 3)
    OBVIOUS
  <1> QED BY ONLY <1>1, <1>2 DEF Groups

(* Decoding gives back what was encoded. *)
LEMMA RoundTrip ==
    ASSUME NEW s \in Seq(0..255), NEW e, EncodedBy(s, e), NEW h, Runs(h, e, 4 * Groups(s))
    PROVE  h[4 * Groups(s)] = On(s, <<>>)
  <1> DEFINE G == Groups(s)
             l == Len(s)
             S == {g \in 0..G : h[4 * g] = On(SubSeq(s, 1, End(s, g)), <<>>)}
  <1>1. G \in Nat /\ l \in Nat /\ l <= 3 * G
    BY GroupsOf
  <1>2. 0 \in S
    <2>1. End(s, 0) = 0 /\ 4 * 0 = 0
      BY ONLY <1>1 DEF End
    <2>2. SubSeq(s, 1, 0) = <<>>
      OBVIOUS
    <2>3. h[0] = On(<<>>, <<>>)
      BY DEF Runs, Start, On
    <2>4. 0 \in 0..G
      BY ONLY <1>1
    <2>5. h[4 * 0] = On(SubSeq(s, 1, End(s, 0)), <<>>)
      BY ONLY <2>1, <2>2, <2>3
    <2> HIDE DEF G
    <2> QED BY ONLY <2>4, <2>5
  <1>3. ASSUME NEW g \in 0..G, g # 0, g - 1 \in S PROVE g \in S
    <2>1. PICK i \in 0..G - 1 : i = g - 1
      BY ONLY <1>1, <1>3
    <2>2. i + 1 = g /\ 4 * i + 4 = 4 * g /\ i \in Nat
      BY ONLY <1>1, <1>3, <2>1
    <2> DEFINE n == Left(s, i)
    <2>3. n \in 1..3 /\ 3 * i + n <= l
      BY LeftIs
    <2>4. End(s, i) = 3 * i /\ End(s, g) = 3 * i + n
      <3>1. n = IF 3 * i + 3 <= l THEN 3 ELSE l - 3 * i
        BY DEF Left
      <3>2. 3 * g = 3 * i + 3 /\ 3 * i <= l
        BY ONLY <1>1, <2>2, <2>3
      <3>3. /\ End(s, i) = IF 3 * i <= l THEN 3 * i ELSE l
            /\ End(s, g) = IF 3 * g <= l THEN 3 * g ELSE l
        BY DEF End
      <3> HIDE DEF n, l
      <3> QED BY ONLY <1>1, <2>2, <3>1, <3>2, <3>3
    <2> DEFINE o == SubSeq(s, 1, 3 * i)
    <2>5. h[4 * i] = On(o, <<>>)
      BY ONLY <1>3, <2>1, <2>4
    <2>6. /\ 1 \in 1..l + 1 /\ 3 * i \in 1 - 1..l /\ 3 * i + n \in 3 * i..l
      BY ONLY <1>1, <2>2, <2>3
    <2>7. o \in DecOut
      BY ONLY <2>6, SubSeqIs, s \in Seq(0..255) DEF DecOut
    <2>8. o \o SubSeq(s, 3 * i + 1, 3 * i + n) = SubSeq(s, 1, 3 * i + n)
      BY ONLY <2>6, ConcatAdjacentSubSeq, s \in Seq(0..255)
    <2>9. h[4 * i + 4] = On(o \o SubSeq(s, 3 * i + 1, 3 * i + n), <<>>)
      <3> HIDE DEF o
      <3> QED BY <2>5, <2>7, GroupTurns
    <2>10. h[4 * g] = On(SubSeq(s, 1, End(s, g)), <<>>)
      <3> HIDE DEF o, n
      <3> QED BY ONLY <2>2, <2>4, <2>8, <2>9
    <2> QED BY ONLY <2>10, g \in 0..G
  <1> HIDE DEF S, G
  <1>4. G \in S
    <2>1. \A g \in 0..G : g # 0 /\ g - 1 \in S => g \in S
      BY <1>3
    <2>2. 0 \in Nat /\ G \in 0..G
      BY ONLY <1>1
    <2> QED BY ONLY <1>1, <1>2, <2>1, <2>2, IntervalInduction
  <1>5. End(s, G) = l
    BY ONLY <1>1 DEF End
  <1>6. SubSeq(s, 1, l) = s
    BY SubSeqFull
  <1>7. h[4 * G] = On(s, <<>>)
    BY ONLY <1>4, <1>5, <1>6 DEF S
  <1> QED BY <1>7 DEF G

(* A text with a blank somewhere in it. *)
LEMMA BlankPut ==
    ASSUME NEW T, Blank \in T, NEW e \in Seq(T), NEW i \in 0..Len(e)
    PROVE  LET w == SubSeq(e, 1, i) \o <<Blank>> \o SubSeq(e, i + 1, Len(e))
           IN  /\ w \in Seq(T) /\ Len(w) = Len(e) + 1
               /\ \A j \in 1..Len(e) + 1 : w[j] = IF j <= i THEN e[j] ELSE IF j = i
                       + 1 THEN Blank ELSE e[j - 1]
  <1> DEFINE m == Len(e)
             x == SubSeq(e, 1, i)
             y == SubSeq(e, i + 1, m)
             b == <<Blank>>
             v == x \o b
             w == v \o y
  <1>1. m \in Nat /\ i \in 0..m /\ i \in Nat /\ i <= m
    OBVIOUS
  <1>2. b \in Seq(T) /\ Len(b) = 1 /\ b[1] = Blank
    BY Blank \in T
  <1>3. x \in Seq(T) /\ Len(x) = i /\ \A j \in 1..i : x[j] = e[j]
    <2>1. 1 \in 1..Len(e) + 1 /\ i \in 1 - 1..Len(e) /\ i - 1 + 1 = i /\ \A j \in 1..i : 1 + j - 1 = j
      BY <1>1
    <2>2. /\ x \in Seq(T) /\ Len(x) = i - 1 + 1
          /\ \A j \in 1..i - 1 + 1 : x[j] = e[1 + j - 1]
      BY ONLY <1>1, <2>1, SubSeqIs, e \in Seq(T)
    <2> HIDE DEF x
    <2> QED BY ONLY <1>1, <2>1, <2>2
  <1>4. y \in Seq(T) /\ Len(y) = m - i /\ \A j \in 1..m - i : y[j] = e[i + j]
    <2>a. PICK a \in 1..Len(e) + 1 : a = i + 1
      BY <1>1
    <2>1. /\ m \in a - 1..Len(e) /\ m - a + 1 = m - i
          /\ \A j \in 1..m - i : a + j - 1 = i + j
      BY <1>1, <2>a
    <2>0. y = SubSeq(e, a, m)
      BY <2>a
    <2> HIDE DEF y
    <2>2. /\ y \in Seq(T) /\ Len(y) = m - a + 1
          /\ \A j \in 1..m - a + 1 : y[j] = e[a + j - 1]
      BY ONLY <1>1, <2>0, <2>1, SubSeqIs, e \in Seq(T)
    <2> QED BY ONLY <1>1, <2>1, <2>2
  <1> HIDE DEF x, y, b, m
  <1>5. /\ v \in Seq(T) /\ Len(v) = i + 1
        /\ \A j \in 1..i + 1 : v[j] = IF j <= i THEN e[j] ELSE Blank
    <2>1. /\ v \in Seq(T) /\ Len(v) = Len(x) + Len(b)
          /\ \A j \in 1..Len(x) + Len(b) : v[j] = IF j <= Len(x) THEN x[j] ELSE b[j - Len(x)]
      BY ONLY <1>2, <1>3, ConcatProperties
    <2> HIDE DEF v
    <2>2. \A j \in 1..i + 1 : IF j <= i THEN j \in 1..i ELSE j - i = 1
      BY ONLY <1>1
    <2> QED BY ONLY <1>1, <1>2, <1>3, <2>1, <2>2
  <1> HIDE DEF v
  <1>6. /\ w \in Seq(T) /\ Len(w) = m + 1
        /\ \A j \in 1..m + 1 : w[j] = IF j <= i + 1 THEN v[j] ELSE y[j - (i + 1)]
    <2>1. /\ w \in Seq(T) /\ Len(w) = Len(v) + Len(y)
          /\ \A j \in 1..Len(v) + Len(y) : w[j] = IF j <= Len(v) THEN v[j] ELSE y[j - Len(v)]
      BY ONLY <1>4, <1>5, ConcatProperties
    <2> HIDE DEF w
    <2>2. i + 1 + (m - i) = m + 1
      BY ONLY <1>1
    <2> QED BY ONLY <1>1, <1>4, <1>5, <2>1, <2>2
  <1> HIDE DEF w
  <1>7. ASSUME NEW j \in 1..m + 1
        PROVE  w[j] = IF j <= i THEN e[j] ELSE IF j = i + 1 THEN Blank ELSE e[j - 1]
    <2>1. CASE j <= i + 1
      <3>1. j \in 1..i + 1 /\ (~(j <= i) => j = i + 1)
        BY ONLY <1>1, <2>1, j \in 1..m + 1
      <3> QED BY ONLY <1>5, <1>6, <2>1, <3>1, j \in 1..m + 1
    <2>2. CASE ~(j <= i + 1)
      <3>1. PICK k \in 1..m - i : k = j - (i + 1)
        BY ONLY <1>1, <2>2, j \in 1..m + 1
      <3>2. y[k] = e[i + k] /\ i + k = j - 1 /\ ~(j <= i) /\ j # i + 1
        BY ONLY <1>1, <1>4, <2>2, <3>1, j \in 1..m + 1
      <3>3. w[j] = y[k]
        BY ONLY <1>6, <2>2, <3>1, j \in 1..m + 1
      <3> QED BY ONLY <3>2, <3>3
    <2> QED BY <2>1, <2>2
  <1> QED BY <1>6, <1>7 DEF w, v, x, y, b, m

(* Encoding is that of RFC 4648; and decoding undoes it, wherever there is  *)
(* white space (encodings.c:33-157).                                        *)
LEMMA Base64EncodesOf == InputOK => Base64Encodes
  <1> SUFFICES ASSUME InputOK, kind = "bytes" PROVE
          LET e == Lbase64_encode(input)
          IN  /\ e = Rfc4648(input)
              /\ \A i \in 0..Len(e) :
                  Lbase64_decode(SubSeq(e, 1, i) \o <<Blank>> \o SubSeq(e, i + 1, Len(e)))
                      = [ok |-> TRUE, out |-> input]
    BY DEF Base64Encodes
  <1> DEFINE e == Lbase64_encode(input)
             m == 4 * Groups(input)
  <1>1. input \in Seq(0..255)
    <2>1. Alphabet["bytes"] = EncBytes
      BY DEF Alphabet
    <2>2. input \in Seq(EncBytes) /\ EncBytes \subseteq 0..255
      BY <2>1, EncAssumption DEF InputOK
    <2> DEFINE T == 0..255
    <2>3. input \in Seq(T)
      <3>1. EncBytes \subseteq T
        BY <2>2
      <3> HIDE DEF T
      <3> QED BY ONLY <2>2, <3>1, SeqWiden
    <2> QED BY <2>3
  <1>2. EncodedBy(input, e)
    BY <1>1, EncodeAt
  <1> HIDE DEF e
  <1>3. e = Rfc4648(input)
    BY <1>1, <1>2, EncodeIsRfc
  <1>4. m \in Nat /\ e \in Seq(0..64) /\ Len(e) = m
    <2>1. Groups(input) \in Nat
      BY <1>1, GroupsOf
    <2> QED BY <1>2, <2>1 DEF EncodedBy
  <1>5. PICK h : Runs(h, e, m)
    <2>1. e \in [1..m -> 0..67]
      <3>1. 0..64 \subseteq 0..67
        OBVIOUS
      <3>2. e \in Seq(0..67)
        BY ONLY <1>4, <3>1, SeqWiden
      <3> QED BY ONLY <1>4, <3>2, SeqAsFun
    <2> QED BY ONLY <1>4, <2>1, RunExists
  <1>6. h[m] = On(input, <<>>)
    BY <1>1, <1>2, <1>5, RoundTrip
  <1> HIDE DEF m
  <1>7. ASSUME NEW i \in 0..m
        PROVE  Lbase64_decode(SubSeq(e, 1, i) \o <<Blank>> \o SubSeq(e, i + 1, m))
                = [ok |-> TRUE, out |-> input]
    <2> DEFINE w == SubSeq(e, 1, i) \o <<Blank>> \o SubSeq(e, i + 1, m)
               n == m + 1
               p == [j \in 0..n |-> IF j <= i THEN j ELSE j - 1]
    <2>1. /\ w \in Seq(0..67) /\ Len(w) = n
          /\ \A j \in 1..n : w[j] = IF j <= i THEN e[j] ELSE IF j = i + 1 THEN Blank ELSE e[j - 1]
      <3>1. e \in Seq(0..67) /\ Blank \in 0..67
        <4>1. 0..64 \subseteq 0..67
          OBVIOUS
        <4> QED BY ONLY <1>4, <4>1, SeqWiden DEF Blank
      <3>2. i \in 0..Len(e)
        BY ONLY <1>4, i \in 0..m
      <3>3. LET v == SubSeq(e, 1, i) \o <<Blank>> \o SubSeq(e, i + 1, Len(e))
            IN  /\ v \in Seq(0..67) /\ Len(v) = Len(e) + 1
                /\ \A j \in 1..Len(e) + 1 : v[j] = IF j <= i THEN e[j] ELSE IF j = i
                        + 1 THEN Blank ELSE e[j - 1]
        BY ONLY <3>1, <3>2, BlankPut
      <3> QED BY ONLY <1>4, <3>3
    <2> HIDE DEF w
    <2>2. n \in Nat
      BY ONLY <1>4
    <2>3. PICK f : Runs(f, w, n)
      <3>1. w \in [1..n -> 0..67]
        BY ONLY <2>1, <2>2, SeqAsFun
      <3> QED BY ONLY <2>2, <3>1, RunExists
    <2>4. /\ p \in [0..n -> 0..m] /\ p[0] = 0 /\ p[n] = m
          /\ \A j \in 1..n : p[j] = (IF j <= i THEN j
                  ELSE j - 1) /\ p[j - 1] = IF j - 1 <= i THEN j - 1 ELSE j - 2
      BY ONLY <1>4, i \in 0..m
    <2> HIDE DEF p
    <2>5. ASSUME NEW j \in 1..n
          PROVE  \/ w[j] = Blank /\ p[j] = p[j - 1]
                 \/ p[j] = p[j - 1] + 1 /\ w[j] = e[p[j]]
      <3>1. w[j] = IF j <= i THEN e[j] ELSE IF j = i + 1 THEN Blank ELSE e[j - 1]
        BY ONLY <2>1, j \in 1..n
      <3>2. p[j] = (IF j <= i THEN j ELSE j - 1) /\ p[j - 1] = IF j - 1 <= i THEN j - 1 ELSE j - 2
        BY ONLY <2>4, j \in 1..n
      <3>3. CASE j <= i
        BY ONLY <1>4, <3>1, <3>2, <3>3, i \in 0..m, j \in 1..n
      <3>4. CASE j = i + 1
        BY ONLY <1>4, <3>1, <3>2, <3>4, i \in 0..m, j \in 1..n
      <3>5. CASE ~(j <= i) /\ j # i + 1
        BY ONLY <1>4, <3>1, <3>2, <3>5, i \in 0..m, j \in 1..n
      <3> QED BY ONLY <3>3, <3>4, <3>5
    <2>6. f[n] = h[m]
      <3> HIDE DEF n
      <3>0. \A j \in 1..n :
               \/ w[j] = Blank /\ p[j] = p[j - 1]
               \/ p[j] = p[j - 1] + 1 /\ w[j] = e[p[j]]
        BY ONLY <2>5
      <3>1. \A j \in 0..n : f[j] = h[p[j]]
        <4>1. p \in [0..n -> 0..m] /\ p[0] = 0 /\ m \in Nat
          BY ONLY <1>4, <2>4
        <4>2. Skips(p, w, e, n, m)
          BY ONLY <3>0, <4>1, Zenon DEF Skips
        <4> QED BY ONLY <1>5, <2>2, <2>3, <4>1, <4>2, BlanksAreSkipped
      <3>2. n \in 0..n
        BY ONLY <2>2
      <3> QED BY ONLY <2>4, <3>1, <3>2
    <2>7. f[n].is = "on" /\ f[n].out = input
      BY ONLY <1>6, <2>6 DEF On
    <2>8. Lbase64_decode(w) = IF f[n].is = "no" THEN Nil ELSE [ok |-> TRUE, out |-> f[n].out]
      BY ONLY <2>1, <2>2, <2>3, DecodeAnswer
    <2>9. Lbase64_decode(w) = [ok |-> TRUE, out |-> input]
      BY ONLY <2>7, <2>8
    <2> QED BY <2>9 DEF w
  <1> QED BY <1>3, <1>4, <1>7 DEF e

(* A byte of a run comes from two neighbouring characters. *)
OctetAt(b, x, y) == IF b = 0 THEN Octet1(x, y) ELSE IF b = 1 THEN Octet2(x, y) ELSE Octet3(x, y)

(* A byte that lies whole inside the run. *)
LEMMA ByteOfRun ==
    ASSUME NEW run, NEW a \in Nat, NEW b \in 0..2,
           run[4 * a + b + 1] \in 0..63, run[4 * a + b + 2] \in 0..63
    PROVE  /\ EightBits(run, 3 * a + b) = OctetAt(b, run[4 * a + b + 1], run[4 * a + b + 2])
           /\ EightBits(run, 3 * a + b) \in 0..255
  <1> DEFINE x == run[4 * a + b + 1]
             y == run[4 * a + b + 2]
  <1>0. x \in 0..63 /\ y \in 0..63
    OBVIOUS
  <1>1. EightBits(run, 3 * a + b) = OctetAt(b, x, y)
    <2>1. CASE b = 0
      <3>1. 4 * a + b + 1 = 4 * a + 1 /\ 4 * a + b + 2 = 4 * a + 2 /\ 3 * a + b = 3 * a
        BY <2>1
      <3>2. run[4 * a + 1] \in 0..63 /\ run[4 * a + 2] \in 0..63
        BY ONLY <1>0, <3>1
      <3>3. EightBits(run, 3 * a) = Octet1(run[4 * a + 1], run[4 * a + 2])
        BY ONLY <3>2, EightBitsAre, a \in Nat
      <3> QED BY ONLY <2>1, <3>1, <3>3, Zenon DEF OctetAt
    <2>2. CASE b = 1
      <3>1. 4 * a + b + 1 = 4 * a + 2 /\ 4 * a + b + 2 = 4 * a + 3 /\ 3 * a + b = 3 * a + 1 /\ b # 0
        BY <2>2
      <3>2. run[4 * a + 2] \in 0..63 /\ run[4 * a + 3] \in 0..63
        BY ONLY <1>0, <3>1
      <3>3. EightBits(run, 3 * a + 1) = Octet2(run[4 * a + 2], run[4 * a + 3])
        BY ONLY <3>2, EightBitsAre, a \in Nat
      <3> QED BY ONLY <2>2, <3>1, <3>3, Zenon DEF OctetAt
    <2>3. CASE b = 2
      <3>1. 4 * a + b + 1 = 4 * a + 3 /\ 4 * a + b + 2 = 4 * a + 4 /\ 3 * a + b = 3 * a
              + 2 /\ b # 0 /\ b # 1
        BY <2>3
      <3>2. run[4 * a + 3] \in 0..63 /\ run[4 * a + 4] \in 0..63
        BY ONLY <1>0, <3>1
      <3>3. EightBits(run, 3 * a + 2) = Octet3(run[4 * a + 3], run[4 * a + 4])
        BY ONLY <3>2, EightBitsAre, a \in Nat
      <3> QED BY ONLY <3>1, <3>3, Zenon DEF OctetAt
    <2> QED BY ONLY <2>1, <2>2, <2>3, b \in 0..2
  <1> HIDE DEF x, y
  <1>2. OctetAt(b, x, y) \in 0..255
    BY ONLY <1>0, OctetsAreBytes DEF OctetAt
  <1>3. EightBits(run, 3 * a + b) \in 0..255
    BY ONLY <1>1, <1>2
  <1> QED BY ONLY <1>1, <1>3 DEF x, y

(* Where the characters of byte k are. *)
LEMMA RunAtByte ==
    ASSUME NEW n \in Nat, NEW l \in Nat, 8 * n <= 6 * l, NEW k \in 1..n
    PROVE  \E a \in Nat, b \in 0..2 : k - 1 = 3 * a + b /\ 4 * a + b + 2 <= l
  <1>1. PICK m \in Nat : m = k - 1
    OBVIOUS
  <1>2. m \div 3 \in Nat /\ m % 3 \in 0..2 /\ m = 3 * (m \div 3) + (m % 3)
    OBVIOUS
  <1>3. PICK a \in Nat, b \in 0..2 : m = 3 * a + b
    BY ONLY <1>2
  <1>4. 8 * (3 * a + b + 1) <= 6 * l
    BY ONLY <1>1, <1>3, n \in Nat, l \in Nat, 8 * n <= 6 * l, k \in 1..n
  <1>5. 4 * a + b + 2 <= l
    BY ONLY <1>4, l \in Nat
  <1> QED BY ONLY <1>1, <1>3, <1>5

(* The whole bytes of a run are bytes. *)
LEMMA WholeBytesType ==
    ASSUME NEW run \in Seq(0..63), NEW n \in Nat, 8 * n <= 6 * Len(run)
    PROVE  WholeBytes(run, n) \in Seq(0..255) /\ Len(WholeBytes(run, n)) = n
  <1> DEFINE T == 0..255
             w == WholeBytes(run, n)
  <1>1. w = [k \in 1..n |-> EightBits(run, k - 1)]
    BY DEF WholeBytes
  <1>2. ASSUME NEW k \in 1..n PROVE EightBits(run, k - 1) \in T
    <2>1. PICK a \in Nat, b \in 0..2 : k - 1 = 3 * a + b /\ 4 * a + b + 2 <= Len(run)
      <3>1. PICK l \in Nat : l = Len(run)
        OBVIOUS
      <3>2. 8 * n <= 6 * l
        BY ONLY <3>1, 8 * n <= 6 * Len(run)
      <3>3. \E a \in Nat, b \in 0..2 : k - 1 = 3 * a + b /\ 4 * a + b + 2 <= l
        BY ONLY <3>2, RunAtByte, k \in 1..n, n \in Nat, l \in Nat
      <3> QED BY ONLY <3>1, <3>3
    <2>2. 4 * a + b + 1 \in 1..Len(run) /\ 4 * a + b + 2 \in 1..Len(run)
      BY <2>1
    <2>3. run[4 * a + b + 1] \in 0..63 /\ run[4 * a + b + 2] \in 0..63
      BY ONLY <2>2, ElementOfSeq, run \in Seq(0..63)
    <2>4. EightBits(run, 3 * a + b) \in 0..255
      BY ONLY <2>3, ByteOfRun
    <2> QED BY <2>1, <2>4
  <1> HIDE DEF T, w
  <1>3. w \in Seq(T) /\ Len(w) = n
    BY ONLY <1>1, <1>2, n \in Nat
  <1> QED BY <1>3 DEF T, w

(* A longer run has the same bytes. *)
LEMMA WholeBytesSame ==
    ASSUME NEW run \in Seq(0..63), NEW n \in Nat, 8 * n <= 6 * Len(run),
           NEW more \in Seq(0..63), Len(run) <= Len(more),
           \A i \in 1..Len(run) : more[i] = run[i]
    PROVE  WholeBytes(more, n) = WholeBytes(run, n)
  <1>1. ASSUME NEW k \in 1..n PROVE EightBits(more, k - 1) = EightBits(run, k - 1)
    <2>1. PICK a \in Nat, b \in 0..2 : k - 1 = 3 * a + b /\ 4 * a + b + 2 <= Len(run)
      <3>1. PICK l \in Nat : l = Len(run)
        OBVIOUS
      <3>2. 8 * n <= 6 * l
        BY ONLY <3>1, 8 * n <= 6 * Len(run)
      <3>3. \E a \in Nat, b \in 0..2 : k - 1 = 3 * a + b /\ 4 * a + b + 2 <= l
        BY ONLY <3>2, RunAtByte, k \in 1..n, n \in Nat, l \in Nat
      <3> QED BY ONLY <3>1, <3>3
    <2>2. 4 * a + b + 1 \in 1..Len(run) /\ 4 * a + b + 2 \in 1..Len(run)
      BY <2>1
    <2>3. run[4 * a + b + 1] \in 0..63 /\ run[4 * a + b + 2] \in 0..63
      BY ONLY <2>2, ElementOfSeq, run \in Seq(0..63)
    <2>4. more[4 * a + b + 1] = run[4 * a + b + 1] /\ more[4 * a + b + 2] = run[4 * a + b + 2]
      BY ONLY <2>2, \A i \in 1..Len(run) : more[i] = run[i]
    <2>5. more[4 * a + b + 1] \in 0..63 /\ more[4 * a + b + 2] \in 0..63
      BY ONLY <2>3, <2>4
    <2>6. EightBits(run, 3 * a + b) = OctetAt(b, run[4 * a + b + 1], run[4 * a + b + 2])
      BY ONLY <2>3, ByteOfRun
    <2>7. EightBits(more, 3 * a + b) = OctetAt(b, more[4 * a + b + 1], more[4 * a + b + 2])
      BY ONLY <2>5, ByteOfRun
    <2> QED BY ONLY <2>1, <2>4, <2>6, <2>7
  <1> QED BY ONLY <1>1, Zenon DEF WholeBytes

(* The characters that wait are the next group of the run. *)
More(r) == IF r = 0 THEN 0 ELSE r - 1

(* Up to four characters more than groups of four add their whole bytes. *)
LEMMA WholeBytesAre ==
    ASSUME NEW run \in Seq(0..63), NEW q \in Nat, NEW r \in 0..4, 4 * q + r <= Len(run)
    PROVE  WholeBytes(run, 3 * q) \o base64_decode(SubSeq(run, 4 * q + 1, 4 * q + r))
             = WholeBytes(run, 3 * q + More(r))
  <1> DEFINE t == SubSeq(run, 4 * q + 1, 4 * q + r)
             d == base64_decode(t)
             x == WholeBytes(run, 3 * q)
             y == WholeBytes(run, 3 * q + More(r))
             m == More(r)
  <1>1. Len(run) \in Nat /\ m \in 0..3 /\ (r = 0 => m = 0) /\ (r # 0 => m = r - 1)
    BY DEF More
  <1>2. t \in Seq(0..63) /\ Len(t) = r /\ \A i \in 1..r : t[i] = run[4 * q + i]
    <2>1. PICK a \in 1..Len(run) + 1 : a = 4 * q + 1
      BY <1>1
    <2>2. PICK b \in a - 1..Len(run) : b = 4 * q + r
      BY <1>1, <2>1
    <2>3. t = SubSeq(run, a, b) /\ b - a + 1 = r /\ \A i \in 1..r : a + i - 1 = 4 * q + i
      BY <2>1, <2>2
    <2> HIDE DEF t
    <2>4. /\ t \in Seq(0..63) /\ Len(t) = b - a + 1
          /\ \A i \in 1..b - a + 1 : t[i] = run[a + i - 1]
      BY ONLY <2>3, SubSeqIs, run \in Seq(0..63)
    <2> QED BY ONLY <2>3, <2>4
  <1> HIDE DEF t, m
  <1>3. /\ d \in Seq(0..255) /\ Len(d) = m
        /\ r >= 2 => d[1] = Octet1(t[1], t[2])
        /\ r >= 3 => d[2] = Octet2(t[2], t[3])
        /\ r >= 4 => d[3] = Octet3(t[3], t[4])
    <2>1. Len(t) <= 4
      BY ONLY <1>2, r \in 0..4
    <2>2. /\ d \in Seq(0..255) /\ Len(d) = IF Len(t) = 0 THEN 0 ELSE Len(t) - 1
          /\ Len(t) >= 2 => d[1] = Octet1(t[1], t[2])
          /\ Len(t) >= 3 => d[2] = Octet2(t[2], t[3])
          /\ Len(t) >= 4 => d[3] = Octet3(t[3], t[4])
      BY ONLY <1>2, <2>1, DecodedIs
    <2> HIDE DEF d
    <2> QED BY ONLY <1>1, <1>2, <2>2
  <1>4. ASSUME NEW i \in 1..m PROVE d[i] = EightBits(run, 3 * q + (i - 1))
    <2>1. i \in 1..r /\ i + 1 \in 1..r /\ i - 1 \in 0..2 /\ i + 1 <= r
      BY ONLY <1>1, r \in 0..4, i \in 1..m
    <2>2. t[i] = run[4 * q + i] /\ t[i + 1] = run[4 * q + (i + 1)] /\ t[i] \in 0..63 /\ t[i
            + 1] \in 0..63
      <3>1. \A j \in 1..r : t[j] \in 0..63
        BY ONLY <1>2, ElementOfSeq
      <3> QED BY ONLY <1>2, <2>1, <3>1, Zenon
    <2>3. PICK b \in 0..2 : b = i - 1
      BY ONLY <2>1
    <2>4. 4 * q + b + 1 = 4 * q + i /\ 4 * q + b + 2 = 4 * q + (i + 1)
      BY ONLY <2>3, i \in 1..m, <1>1, q \in Nat
    <2>5. EightBits(run, 3 * q + b) = OctetAt(b, run[4 * q + b + 1], run[4 * q + b + 2])
      <3>1. run[4 * q + b + 1] \in 0..63 /\ run[4 * q + b + 2] \in 0..63
        BY ONLY <2>2, <2>4
      <3> QED BY ONLY <3>1, ByteOfRun, q \in Nat
    <2>6. OctetAt(b, t[i], t[i + 1]) = d[i]
      <3>1. CASE i = 1
        <4>1. b = 0 /\ r >= 2 /\ i + 1 = 2
          BY ONLY <2>1, <2>3, <3>1, r \in 0..4
        <4> QED BY ONLY <1>3, <3>1, <4>1 DEF OctetAt
      <3>2. CASE i = 2
        <4>1. b = 1 /\ b # 0 /\ r >= 3 /\ i + 1 = 3
          BY ONLY <2>1, <2>3, <3>2, r \in 0..4
        <4> QED BY ONLY <1>3, <3>2, <4>1 DEF OctetAt
      <3>3. CASE i = 3
        <4>1. b = 2 /\ b # 0 /\ b # 1 /\ r >= 4 /\ i + 1 = 4
          BY ONLY <2>1, <2>3, <3>3, r \in 0..4
        <4> QED BY ONLY <1>3, <3>3, <4>1 DEF OctetAt
      <3>4. i = 1 \/ i = 2 \/ i = 3
        BY ONLY <1>1, i \in 1..m
      <3> QED BY ONLY <3>1, <3>2, <3>3, <3>4
    <2> QED BY ONLY <2>2, <2>3, <2>4, <2>5, <2>6
  <1>5. /\ x \in Seq(0..255) /\ Len(x) = 3 * q
        /\ y \in Seq(0..255) /\ Len(y) = 3 * q + m
    <2>1. PICK a \in Nat : a = 3 * q
      OBVIOUS
    <2>2. PICK b \in Nat : b = 3 * q + m
      BY ONLY <1>1, q \in Nat
    <2>3. 8 * a <= 6 * Len(run) /\ 8 * b <= 6 * Len(run)
      BY ONLY <1>1, <2>1, <2>2, q \in Nat, r \in 0..4, 4 * q + r <= Len(run)
    <2>4. /\ WholeBytes(run, a) \in Seq(0..255) /\ Len(WholeBytes(run, a)) = a
          /\ WholeBytes(run, b) \in Seq(0..255) /\ Len(WholeBytes(run, b)) = b
      BY ONLY <2>3, WholeBytesType, run \in Seq(0..63)
    <2>5. x = WholeBytes(run, a) /\ y = WholeBytes(run, b)
      BY ONLY <2>1, <2>2 DEF m
    <2> HIDE DEF x, y
    <2> QED BY ONLY <2>1, <2>2, <2>4, <2>5
  <1>6. /\ \A i \in 1..3 * q : x[i] = EightBits(run, i - 1)
        /\ \A i \in 1..3 * q + m : y[i] = EightBits(run, i - 1)
    BY ONLY Zenon DEF WholeBytes, m
  <1> HIDE DEF x, y, d
  <1>7. /\ x \o d \in Seq(0..255) /\ Len(x \o d) = 3 * q + m
        /\ \A i \in 1..3 * q + m : (x \o d)[i] = IF i <= 3 * q THEN x[i] ELSE d[i - 3 * q]
    <2>1. /\ x \o d \in Seq(0..255) /\ Len(x \o d) = Len(x) + Len(d)
          /\ \A i \in 1..Len(x) + Len(d) : (x \o d)[i] = IF i <= Len(x) THEN x[i] ELSE d[i - Len(x)]
      BY ONLY <1>3, <1>5, ConcatProperties
    <2> QED BY ONLY <1>3, <1>5, <2>1
  <1>8. ASSUME NEW i \in 1..3 * q + m PROVE (x \o d)[i] = y[i]
    <2>1. CASE i <= 3 * q
      <3>1. i \in 1..3 * q
        BY ONLY <1>1, <2>1, q \in Nat, i \in 1..3 * q + m
      <3> QED BY ONLY <1>6, <1>7, <2>1, <3>1, i \in 1..3 * q + m
    <2>2. CASE ~(i <= 3 * q)
      <3>1. PICK j \in 1..m : j = i - 3 * q
        BY ONLY <1>1, <2>2, q \in Nat, i \in 1..3 * q + m
      <3>2. 3 * q + (j - 1) = i - 1
        BY ONLY <1>1, <3>1, q \in Nat, i \in 1..3 * q + m
      <3>3. d[j] = EightBits(run, i - 1)
        BY ONLY <1>4, <3>2
      <3>4. (x \o d)[i] = d[j]
        BY ONLY <1>7, <2>2, <3>1, i \in 1..3 * q + m
      <3>5. y[i] = EightBits(run, i - 1)
        BY ONLY <1>6, i \in 1..3 * q + m
      <3> QED BY ONLY <3>3, <3>4, <3>5
    <2> QED BY <2>1, <2>2
  <1>9. x \o d = y
    BY ONLY <1>5, <1>7, <1>8, SeqEqual
  <1> QED BY <1>9 DEF x, y, d, t

(* The largest element is the one that is no less than any. *)
LEMMA MaxIs ==
    ASSUME NEW S \in SUBSET Int, NEW x \in S, \A y \in S : x >= y
    PROVE  Max(S) = x
  <1> DEFINE P(z) == z \in S /\ \A y \in S : z >= y
  <1>1. P(x)
    OBVIOUS
  <1>2. Max(S) = CHOOSE z : P(z)
    BY DEF Max
  <1>3. P(Max(S))
    <2> HIDE DEF P
    <2> QED BY ONLY <1>1, <1>2, Zenon
  <1>4. x >= Max(S) /\ Max(S) >= x /\ x \in Int /\ Max(S) \in Int
    BY ONLY <1>1, <1>3, S \in SUBSET Int
  <1> QED BY ONLY <1>4

(* The runs of a text, and the bytes of those that "=" ends. *)
Pads(text) == {i \in DOMAIN text : text[i] = Pad}
Before(text, i) == {j \in Pads(text) : j < i} \cup {0}
RunAt(text, i) == SubSeq(text, Max(Before(text, i)) + 1, i - 1)
PartAt(text, i) ==
    IF i \in Pads(text) THEN WholeBytes(RunAt(text, i), (6 * Len(RunAt(text, i))) \div 8) ELSE <<>>

(* A run starts behind the last "=". *)
LEMMA RunStarts ==
    ASSUME NEW T, NEW text \in Seq(T)
    PROVE  /\ Max(Before(text, 1)) = 0
           /\ \A i \in 1..Len(text) :
                /\ text[i] = Pad => Max(Before(text, i + 1)) = i
                /\ text[i] # Pad => Max(Before(text, i + 1)) = Max(Before(text, i))
           /\ \A i \in 1..Len(text) + 1 : Max(Before(text, i)) \in 0..i - 1
  <1> DEFINE L == Len(text)
  <1>1. L \in Nat /\ DOMAIN text = 1..L
    OBVIOUS
  <1>2. Pads(text) = {i \in 1..L : text[i] = Pad}
    BY <1>1 DEF Pads
  <1> HIDE DEF L
  <1>3. \A i \in Nat : Before(text, i) \in SUBSET Int /\ 0 \in Before(text, i)
    BY <1>1, <1>2 DEF Before
  <1>4. Before(text, 1) = {0}
    BY <1>1, <1>2 DEF Before
  <1>5. Max(Before(text, 1)) = 0
    <2>1. {0} \in SUBSET Int /\ 0 \in {0} /\ \A y \in {0} : 0 >= y
      OBVIOUS
    <2> QED BY ONLY <1>4, <2>1, MaxIs
  <1>6. ASSUME NEW i \in 1..L, text[i] = Pad PROVE Max(Before(text, i + 1)) = i
    <2>1. i \in Before(text, i + 1)
      BY <1>1, <1>2, <1>6 DEF Before
    <2>2. \A y \in Before(text, i + 1) : i >= y
      BY <1>1, <1>2, <1>6 DEF Before
    <2>3. Before(text, i + 1) \in SUBSET Int
      BY <1>1, <1>3
    <2> DEFINE B == Before(text, i + 1)
    <2> HIDE DEF B
    <2>4. B \in SUBSET Int /\ i \in B /\ \A y \in B : i >= y
      BY <2>1, <2>2, <2>3 DEF B
    <2>5. Max(B) = i
      BY ONLY <2>4, MaxIs
    <2> QED BY <2>5 DEF B
  <1>7. ASSUME NEW i \in 1..L, text[i] # Pad PROVE Before(text, i + 1) = Before(text, i)
    <2>1. \A j \in 1..L : (text[j] = Pad /\ j < i + 1) <=> (text[j] = Pad /\ j < i)
      BY <1>1, <1>7
    <2> QED BY ONLY <1>2, <2>1 DEF Before
  <1>8. \A i \in 1..L + 1 : Max(Before(text, i)) \in 0..i - 1
    <2> DEFINE S == {i \in 1..L + 1 : Max(Before(text, i)) \in 0..i - 1}
    <2>1. 1 \in S
      BY <1>1, <1>5
    <2>2. ASSUME NEW i \in 1..L + 1, i # 1, i - 1 \in S PROVE i \in S
      <3>1. PICK k \in 1..L : k = i - 1
        BY ONLY <1>1, <2>2
      <3>2. i = k + 1 /\ Max(Before(text, k)) \in 0..k - 1
        BY ONLY <1>1, <2>2, <3>1
      <3>3. Max(Before(text, k + 1)) \in 0..k
        <4>1. CASE text[k] = Pad
          <5>1. Max(Before(text, k + 1)) = k /\ k \in 0..k
            BY ONLY <1>1, <1>6, <4>1, k \in 1..L
          <5> QED BY ONLY <5>1
        <4>2. CASE text[k] # Pad
          <5>1. Before(text, k + 1) = Before(text, k)
            BY ONLY <1>7, <4>2
          <5>2. 0..k - 1 \subseteq 0..k
            BY ONLY <1>1, k \in 1..L
          <5> QED BY ONLY <3>2, <5>1, <5>2
        <4> QED BY <4>1, <4>2
      <3>4. i - 1 = k
        BY <3>1
      <3>5. Max(Before(text, i)) \in 0..i - 1
        BY ONLY <3>2, <3>3, <3>4
      <3> QED BY ONLY <3>5, i \in 1..L + 1
    <2> HIDE DEF S
    <2>3. \A i \in 1..L + 1 : i \in S
      <3>1. \A i \in 1..L + 1 : i # 1 /\ i - 1 \in S => i \in S
        BY <2>2
      <3>2. 1 \in Nat /\ L + 1 \in Nat
        BY ONLY <1>1
      <3> QED BY ONLY <2>1, <3>1, <3>2, IntervalInduction
    <2> QED BY <2>3 DEF S
  <1> QED BY <1>5, <1>6, <1>7, <1>8 DEF L

(* A run grows by characters of the alphabet, and "=" starts a new one. *)
LEMMA RunGrows ==
    ASSUME NEW text \in Seq(0..64)
    PROVE  /\ RunAt(text, 1) = <<>>
           /\ \A i \in 1..Len(text) + 1 : RunAt(text, i) \in Seq(0..63)
           /\ \A i \in 1..Len(text) :
                /\ text[i] = Pad => RunAt(text, i + 1) = <<>>
                /\ text[i] # Pad => RunAt(text, i + 1) = Append(RunAt(text, i), text[i])
  <1> DEFINE L == Len(text)
             T == 0..64
             C == 0..63
  <1>1. L \in Nat /\ text \in Seq(T) /\ \A i \in 1..L : text[i] \in T
    BY ElementOfSeq
  <1>0. \A c \in T : c # Pad => c \in C
    BY DEF Pad
  <1>2. RunAt(text, 1) = <<>>
    <2>1. RunAt(text, 1) = SubSeq(text, 0 + 1, 1 - 1)
      BY RunStarts DEF RunAt
    <2>2. SubSeq(text, 0 + 1, 1 - 1) = <<>>
      BY SubSeqEmpty
    <2> QED BY ONLY <2>1, <2>2
  <1>3. ASSUME NEW i \in 1..L, text[i] = Pad PROVE RunAt(text, i + 1) = <<>>
    <2>1. Max(Before(text, i + 1)) = i
      BY <1>3, RunStarts
    <2>2. RunAt(text, i + 1) = SubSeq(text, i + 1, i + 1 - 1)
      BY ONLY <2>1 DEF RunAt
    <2>3. i + 1 \in Int /\ i + 1 - 1 \in Int /\ i + 1 - 1 < i + 1
      BY <1>1
    <2> QED BY ONLY <2>2, <2>3, SubSeqEmpty
  <1>4. ASSUME NEW i \in 1..L, text[i] # Pad
        PROVE  RunAt(text, i + 1) = RunAt(text, i) \o <<text[i]>>
    <2> DEFINE m == Max(Before(text, i))
    <2>1. Max(Before(text, i + 1)) = m /\ m \in 0..i - 1
      <3>1. i \in 1..Len(text) + 1
        BY <1>1
      <3> QED BY <1>4, <3>1, RunStarts
    <2>2. RunAt(text, i + 1) = SubSeq(text, m + 1, i + 1 - 1) /\ RunAt(text, i) = SubSeq(text, m
            + 1, i - 1)
      BY ONLY <2>1 DEF RunAt
    <2> HIDE DEF m
    <2>3. i + 1 - 1 = i /\ m + 1 \in 1..L /\ i \in m + 1..L
      BY ONLY <1>1, <2>1, i \in 1..L
    <2>4. SubSeq(text, m + 1, i) = SubSeq(text, m + 1, i - 1) \o <<text[i]>>
      <3> HIDE DEF T
      <3> QED BY ONLY <1>1, <2>3, SubSeqRecursiveSecond
    <2> QED BY ONLY <2>2, <2>3, <2>4
  <1> DEFINE S == {i \in 1..L + 1 : RunAt(text, i) \in Seq(C)}
  <1>5. 1 \in S
    <2>1. 1 \in 1..L + 1
      BY ONLY <1>1
    <2>2. <<>> \in Seq(C)
      OBVIOUS
    <2>3. RunAt(text, 1) \in Seq(C)
      BY ONLY <1>2, <2>2
    <2> HIDE DEF L, C
    <2> QED BY ONLY <2>1, <2>3
  <1> HIDE DEF L, T, C
  <1>6. ASSUME NEW i \in 1..L, text[i] # Pad, RunAt(text, i) \in Seq(C)
        PROVE  RunAt(text, i + 1) = Append(RunAt(text, i), text[i]) /\ RunAt(text, i + 1) \in Seq(C)
    <2>1. text[i] \in C
      BY ONLY <1>0, <1>1, <1>6
    <2>2. Append(RunAt(text, i), text[i]) = RunAt(text, i) \o <<text[i]>>
      BY ONLY <1>6, <2>1, AppendIsConcat
    <2>3. Append(RunAt(text, i), text[i]) \in Seq(C)
      BY ONLY <1>6, <2>1, AppendProperties
    <2> QED BY ONLY <1>4, <1>6, <2>2, <2>3
  <1>7. ASSUME NEW i \in 1..L + 1, i # 1, i - 1 \in S PROVE i \in S
    <2>1. PICK k \in 1..L : k = i - 1
      BY ONLY <1>1, <1>7
    <2>2. i = k + 1 /\ RunAt(text, k) \in Seq(C)
      BY ONLY <1>1, <1>7, <2>1
    <2>3. RunAt(text, k + 1) \in Seq(C)
      <3>1. CASE text[k] = Pad
        <4>1. <<>> \in Seq(C)
          OBVIOUS
        <4> QED BY ONLY <1>3, <3>1, <4>1, k \in 1..L
      <3>2. CASE text[k] # Pad
        BY ONLY <1>6, <2>2, <3>2
      <3> QED BY <3>1, <3>2
    <2> QED BY ONLY <2>2, <2>3, i \in 1..L + 1
  <1> HIDE DEF S
  <1>8. \A i \in 1..L + 1 : i \in S
    <2>1. \A i \in 1..L + 1 : i # 1 /\ i - 1 \in S => i \in S
      BY <1>7
    <2>2. 1 \in Nat /\ L + 1 \in Nat
      BY ONLY <1>1
    <2> QED BY ONLY <1>5, <2>1, <2>2, IntervalInduction
  <1>9. \A i \in 1..L + 1 : RunAt(text, i) \in Seq(C)
    BY ONLY <1>8 DEF S
  <1>10. ASSUME NEW i \in 1..L, text[i] # Pad PROVE RunAt(text, i + 1) = Append(RunAt(text, i), text[i])
    <2>1. i \in 1..L + 1
      BY ONLY <1>1, i \in 1..L
    <2>2. RunAt(text, i) \in Seq(C)
      BY ONLY <1>9, <2>1
    <2> QED BY ONLY <1>6, <1>10, <2>2
  <1> QED BY ONLY <1>2, <1>3, <1>9, <1>10 DEF L, C

(* The end of a sequence to which something is appended. *)
LEMMA EndGrows ==
    ASSUME NEW T, NEW s \in Seq(T), NEW c \in T, NEW a \in 1..Len(s) + 1
    PROVE  SubSeq(Append(s, c), a, Len(s) + 1) = Append(SubSeq(s, a, Len(s)), c)
  <1> DEFINE l == Len(s)
             u == Append(s, c)
             x == SubSeq(s, a, l)
             w == SubSeq(u, a, l + 1)
  <1>1. l \in Nat /\ a \in 1..l + 1
    OBVIOUS
  <1>2. /\ u \in Seq(T) /\ Len(u) = l + 1 /\ u[l + 1] = c
        /\ \A i \in 1..l : u[i] = s[i]
    BY AppendProperties
  <1>3. /\ x \in Seq(T) /\ Len(x) = l - a + 1
        /\ \A i \in 1..l - a + 1 : x[i] = s[a + i - 1]
    <2>1. l \in a - 1..Len(s)
      BY <1>1
    <2> QED BY <2>1, SubSeqIs
  <1> HIDE DEF l, u, x
  <1>4. /\ w \in Seq(T) /\ Len(w) = l + 1 - a + 1
        /\ \A i \in 1..l + 1 - a + 1 : w[i] = u[a + i - 1]
    <2>1. PICK b \in a - 1..Len(u) : b = l + 1
      BY ONLY <1>1, <1>2
    <2>2. a \in 1..Len(u) + 1
      BY ONLY <1>1, <1>2
    <2>3. w = SubSeq(u, a, b)
      BY <2>1
    <2> HIDE DEF w
    <2>4. /\ w \in Seq(T) /\ Len(w) = b - a + 1
          /\ \A i \in 1..b - a + 1 : w[i] = u[a + i - 1]
      BY ONLY <1>2, <2>1, <2>2, <2>3, SubSeqIs, b \in a - 1..Len(u)
    <2> QED BY ONLY <1>1, <2>1, <2>4
  <1> HIDE DEF w
  <1>5. Len(w) = Len(x) + 1
    BY ONLY <1>1, <1>3, <1>4
  <1>6. w[Len(x) + 1] = c
    <2>1. PICK i \in 1..l + 1 - a + 1 : i = Len(x) + 1
      BY ONLY <1>1, <1>3
    <2>2. a + i - 1 = l + 1
      BY ONLY <1>1, <1>3, <2>1
    <2>3. w[i] = u[a + i - 1]
      BY ONLY <1>4
    <2> QED BY ONLY <1>2, <2>1, <2>2, <2>3
  <1>7. ASSUME NEW i \in 1..Len(x) PROVE w[i] = x[i]
    <2>1. i \in 1..l + 1 - a + 1 /\ i \in 1..l - a + 1
      BY ONLY <1>1, <1>3, i \in 1..Len(x)
    <2>2. PICK j \in 1..l : j = a + i - 1
      BY ONLY <1>1, <2>1
    <2>3. w[i] = u[j] /\ x[i] = s[j]
      BY ONLY <1>3, <1>4, <2>1, <2>2
    <2> QED BY ONLY <1>2, <2>3
  <1>8. Append(x, c) = w
    BY ONLY <1>3, <1>4, <1>5, <1>6, <1>7, AppendIs, c \in T
  <1> QED BY <1>8 DEF w, x, u, l

(* The groups of four in a run, and what is left of it. *)
Whole(run) == WholeBytes(run, 3 * (Len(run) \div 4))
Rest(run) == SubSeq(run, 4 * (Len(run) \div 4) + 1, Len(run))

(* A run is groups of four, and up to three characters that wait. *)
LEMMA FoursOf ==
    ASSUME NEW run \in Seq(0..63)
    PROVE  \E q \in Nat, r \in 0..3 :
             /\ Len(run) \div 4 = q /\ Len(run) = 4 * q + r
             /\ Whole(run) = WholeBytes(run, 3 * q) /\ Rest(run) = SubSeq(run, 4 * q + 1, 4 * q + r)
             /\ Rest(run) \in Seq(0..63) /\ Len(Rest(run)) = r
             /\ Whole(run) \in Seq(0..255)
             /\ (6 * Len(run)) \div 8 = 3 * q + More(r)
  <1>1. PICK l \in Nat : l = Len(run)
    OBVIOUS
  <1>2. l \div 4 \in Nat /\ l % 4 \in 0..3 /\ l = 4 * (l \div 4) + (l % 4)
    OBVIOUS
  <1>3. PICK q \in Nat, r \in 0..3 : l = 4 * q + r /\ l \div 4 = q
    BY ONLY <1>2
  <1>4. Whole(run) = WholeBytes(run, 3 * q) /\ Rest(run) = SubSeq(run, 4 * q + 1, 4 * q + r)
    BY ONLY <1>1, <1>3 DEF Whole, Rest
  <1>5. Rest(run) \in Seq(0..63) /\ Len(Rest(run)) = r
    <2>1. PICK a \in 1..Len(run) + 1 : a = 4 * q + 1
      BY ONLY <1>1, <1>3
    <2>2. PICK b \in a - 1..Len(run) : b = 4 * q + r
      BY ONLY <1>1, <1>3, <2>1
    <2>3. b - a + 1 = r
      BY ONLY <2>1, <2>2, q \in Nat, r \in 0..3
    <2>4. SubSeq(run, a, b) \in Seq(0..63) /\ Len(SubSeq(run, a, b)) = b - a + 1
      BY ONLY SubSeqIs, run \in Seq(0..63), a \in 1..Len(run) + 1, b \in a - 1..Len(run)
    <2> QED BY ONLY <1>4, <2>1, <2>2, <2>3, <2>4
  <1>6. Whole(run) \in Seq(0..255)
    <2>1. PICK n \in Nat : n = 3 * q
      OBVIOUS
    <2>2. 8 * n <= 6 * Len(run)
      BY ONLY <1>1, <1>3, <2>1
    <2>3. WholeBytes(run, n) \in Seq(0..255)
      BY ONLY <2>2, WholeBytesType, run \in Seq(0..63)
    <2> QED BY ONLY <1>4, <2>1, <2>3
  <1>7. (6 * l) \div 8 = 3 * q + More(r)
    <2>1. CASE r = 0
      <3>1. (6 * (4 * q + 0)) \div 8 = 3 * q
        OBVIOUS
      <3> QED BY ONLY <1>3, <2>1, <3>1, q \in Nat DEF More
    <2>2. CASE r = 1
      <3>1. (6 * (4 * q + 1)) \div 8 = 3 * q
        OBVIOUS
      <3> QED BY ONLY <1>3, <2>2, <3>1, q \in Nat DEF More
    <2>3. CASE r = 2
      <3>1. (6 * (4 * q + 2)) \div 8 = 3 * q + 1
        OBVIOUS
      <3> QED BY ONLY <1>3, <2>3, <3>1, q \in Nat DEF More
    <2>4. CASE r = 3
      <3>1. (6 * (4 * q + 3)) \div 8 = 3 * q + 2
        OBVIOUS
      <3> QED BY ONLY <1>3, <2>4, <3>1, q \in Nat DEF More
    <2> QED BY ONLY <2>1, <2>2, <2>3, <2>4, r \in 0..3
  <1> QED BY ONLY <1>1, <1>3, <1>4, <1>5, <1>6, <1>7, Zenon

(* A run that "=" ends. *)
LEMMA RunEnds ==
    ASSUME NEW run \in Seq(0..63)
    PROVE  Whole(run) \o base64_decode(Rest(run)) = WholeBytes(run, (6 * Len(run)) \div 8)
  <1>1. PICK q \in Nat, r \in 0..3 :
             /\ Len(run) = 4 * q + r
             /\ Whole(run) = WholeBytes(run, 3 * q) /\ Rest(run) = SubSeq(run, 4 * q + 1, 4 * q + r)
             /\ (6 * Len(run)) \div 8 = 3 * q + More(r)
    BY FoursOf
  <1>2. r \in 0..4 /\ 4 * q + r <= Len(run)
    BY ONLY <1>1, q \in Nat, r \in 0..3
  <1>3. WholeBytes(run, 3 * q) \o base64_decode(SubSeq(run, 4 * q + 1, 4 * q + r))
             = WholeBytes(run, 3 * q + More(r))
    BY ONLY <1>2, WholeBytesAre, run \in Seq(0..63), q \in Nat
  <1> QED BY ONLY <1>1, <1>3, Zenon

(* A run that goes on. *)
LEMMA RunGoesOn ==
    ASSUME NEW run \in Seq(0..63), NEW c \in 0..63
    PROVE  /\ Len(Rest(run)) = 3 =>
                /\ Whole(Append(run, c)) = Whole(run) \o base64_decode(Append(Rest(run), c))
                /\ Rest(Append(run, c)) = <<>>
           /\ Len(Rest(run)) # 3 =>
                /\ Whole(Append(run, c)) = Whole(run)
                /\ Rest(Append(run, c)) = Append(Rest(run), c)
  <1> DEFINE u == Append(run, c)
             w == SubSeq(u, 4 * (Len(run) \div 4) + 1, Len(run) + 1)
  <1>1. PICK q \in Nat, r \in 0..3 :
             /\ Len(run) \div 4 = q /\ Len(run) = 4 * q + r
             /\ Whole(run) = WholeBytes(run, 3 * q) /\ Rest(run) = SubSeq(run, 4 * q + 1, 4 * q + r)
             /\ Rest(run) \in Seq(0..63) /\ Len(Rest(run)) = r
    BY FoursOf
  <1>2. u \in Seq(0..63) /\ Len(u) = 4 * q + r + 1
    BY <1>1, AppendChar
  <1>3. \A i \in 1..Len(run) : u[i] = run[i]
    BY AppendProperties
  <1>4. w = Append(Rest(run), c) /\ w = SubSeq(u, 4 * q + 1, 4 * q + r + 1)
    <2>1. PICK a \in 1..Len(run) + 1 : a = 4 * q + 1
      BY ONLY <1>1, q \in Nat, r \in 0..3
    <2>2. SubSeq(Append(run, c), a, Len(run) + 1) = Append(SubSeq(run, a, Len(run)), c)
      <3> DEFINE T == 0..63
      <3>1. run \in Seq(T) /\ c \in T
        OBVIOUS
      <3> HIDE DEF T
      <3> QED BY ONLY <3>1, EndGrows, a \in 1..Len(run) + 1
    <2> QED BY ONLY <1>1, <2>1, <2>2
  <1> HIDE DEF u, w
  <1>5. WholeBytes(u, 3 * q) = WholeBytes(run, 3 * q)
    <2>1. PICK n \in Nat : n = 3 * q
      OBVIOUS
    <2>2. 8 * n <= 6 * Len(run) /\ Len(run) <= Len(u)
      BY ONLY <1>1, <1>2, <2>1, q \in Nat, r \in 0..3
    <2>3. WholeBytes(u, n) = WholeBytes(run, n)
      BY ONLY <1>2, <1>3, <2>2, WholeBytesSame, run \in Seq(0..63), n \in Nat
    <2> QED BY ONLY <2>1, <2>3
  <1>6. ASSUME r = 3
        PROVE  Whole(u) = Whole(run) \o base64_decode(Append(Rest(run), c)) /\ Rest(u) = <<>>
    <2>1. Len(u) = 4 * (q + 1) /\ Len(u) \div 4 = q + 1
      <3>1. (4 * (q + 1)) \div 4 = q + 1
        OBVIOUS
      <3>2. Len(u) = 4 * (q + 1)
        BY ONLY <1>2, <1>6, q \in Nat
      <3> QED BY ONLY <3>1, <3>2
    <2>2. Rest(u) = SubSeq(u, 4 * (q + 1) + 1, 4 * (q + 1))
      BY ONLY <2>1 DEF Rest
    <2>3. Rest(u) = <<>>
      <3>1. 4 * (q + 1) + 1 \in Int /\ 4 * (q + 1) \in Int /\ 4 * (q + 1) < 4 * (q + 1) + 1
        OBVIOUS
      <3> QED BY ONLY <2>2, <3>1, SubSeqEmpty
    <2>4. Whole(u) = WholeBytes(u, 3 * q + 3)
      <3>1. Whole(u) = WholeBytes(u, 3 * (q + 1))
        BY ONLY <2>1 DEF Whole
      <3>2. 3 * (q + 1) = 3 * q + 3
        OBVIOUS
      <3> QED BY ONLY <3>1, <3>2
    <2>5. WholeBytes(u, 3 * q) \o base64_decode(SubSeq(u, 4 * q + 1, 4 * q + 4))
             = WholeBytes(u, 3 * q + More(4))
      <3>1. 4 \in 0..4 /\ 4 * q + 4 <= Len(u)
        BY ONLY <2>1, q \in Nat
      <3> QED BY ONLY <1>2, <3>1, WholeBytesAre, q \in Nat
    <2>6. More(4) = 3 /\ 4 * q + 4 = 4 * q + r + 1
      BY ONLY <1>6, q \in Nat DEF More
    <2> QED BY ONLY <1>1, <1>4, <1>5, <2>3, <2>4, <2>5, <2>6
  <1>7. ASSUME r # 3
        PROVE  Whole(u) = Whole(run) /\ Rest(u) = Append(Rest(run), c)
    <2>1. Len(u) \div 4 = q
      <3>1. r = 0 \/ r = 1 \/ r = 2
        BY ONLY <1>7, r \in 0..3
      <3>2. (4 * q + 0 + 1) \div 4 = q /\ (4 * q + 1 + 1) \div 4 = q /\ (4 * q + 2 + 1) \div 4 = q
        OBVIOUS
      <3> QED BY ONLY <1>2, <3>1, <3>2
    <2>2. Rest(u) = SubSeq(u, 4 * q + 1, 4 * q + r + 1) /\ Whole(u) = WholeBytes(u, 3 * q)
      BY ONLY <1>2, <2>1 DEF Rest, Whole
    <2> QED BY ONLY <1>1, <1>4, <1>5, <2>2
  <1> QED BY ONLY <1>1, <1>6, <1>7 DEF u

(* Concatenation is associative. *)
LEMMA BytesJoin ==
    ASSUME NEW x \in Seq(0..255), NEW y \in Seq(0..255), NEW z \in Seq(0..255)
    PROVE  (x \o y) \o z = x \o (y \o z)
  <1> DEFINE T == 0..255
  <1>1. x \in Seq(T) /\ y \in Seq(T) /\ z \in Seq(T)
    OBVIOUS
  <1> HIDE DEF T
  <1> QED BY ONLY <1>1, ConcatAssociative

(* What a run that "=" ends adds to the bytes. *)
LEMMA PartType ==
    ASSUME NEW text \in Seq(0..64), NEW i \in 1..Len(text)
    PROVE  /\ PartAt(text, i) \in Seq(0..255)
           /\ text[i] = Pad => PartAt(text, i) =
                WholeBytes(RunAt(text, i), (6 * Len(RunAt(text, i))) \div 8)
           /\ text[i] # Pad => PartAt(text, i) = <<>>
  <1> DEFINE run == RunAt(text, i)
             n == (6 * Len(run)) \div 8
  <1>1. run \in Seq(0..63)
    <2>1. i \in 1..Len(text) + 1
      OBVIOUS
    <2> QED BY <2>1, RunGrows
  <1>2. i \in Pads(text) <=> text[i] = Pad
    BY DEF Pads
  <1>3. WholeBytes(run, n) \in Seq(0..255)
    <2>1. PICK l \in Nat : l = Len(run)
      BY <1>1
    <2>2. (6 * l) \div 8 \in Nat /\ 8 * ((6 * l) \div 8) <= 6 * l
      <3>1. \A x \in Nat : x \div 8 \in Nat /\ 8 * (x \div 8) <= x
        OBVIOUS
      <3>2. PICK x \in Nat : x = 6 * l
        OBVIOUS
      <3> QED BY ONLY <3>1, <3>2
    <2>3. n = (6 * l) \div 8
      BY ONLY <2>1
    <2> HIDE DEF run, n
    <2>4. n \in Nat /\ 8 * n <= 6 * Len(run)
      BY ONLY <2>1, <2>2, <2>3
    <2> QED BY ONLY <1>1, <2>4, WholeBytesType
  <1>4. PartAt(text, i) = IF text[i] = Pad THEN WholeBytes(run, n) ELSE <<>>
    BY <1>2 DEF PartAt
  <1>5. <<>> \in Seq(0..255)
    OBVIOUS
  <1> HIDE DEF run, n
  <1>6. /\ PartAt(text, i) \in Seq(0..255)
        /\ text[i] = Pad => PartAt(text, i) = WholeBytes(run, n)
        /\ text[i] # Pad => PartAt(text, i) = <<>>
    BY ONLY <1>3, <1>4, <1>5
  <1> QED BY <1>6 DEF run, n

(* What has been decoded after i characters: the bytes of the runs that     *)
(* ended, and the groups of four of the one that goes on.                   *)
Decoded(F, text, i) == On(F[i] \o Whole(RunAt(text, i + 1)), Rest(RunAt(text, i + 1)))

Gathers(F, text) ==
    /\ F \in [0..Len(text) -> Seq(0..255)] /\ F[0] = <<>>
    /\ \A i \in 1..Len(text) : F[i] = F[i - 1] \o PartAt(text, i)

(* The empty run gives nothing, and nothing waits. *)
LEMMA NothingYet == Whole(<<>>) = <<>> /\ Rest(<<>>) = <<>>
  <1>1. Len(<<>>) = 0 /\ 3 * (0 \div 4) = 0 /\ 4 * (0 \div 4) + 1 = 1
    OBVIOUS
  <1>2. Rest(<<>>) = SubSeq(<<>>, 1, 0)
    BY ONLY <1>1 DEF Rest
  <1>3. SubSeq(<<>>, 1, 0) = <<>>
    BY SubSeqEmpty
  <1>4. Whole(<<>>) = WholeBytes(<<>>, 0)
    BY ONLY <1>1 DEF Whole
  <1>5. WholeBytes(<<>>, 0) = <<>>
    <2>1. 1..0 = {}
      OBVIOUS
    <2>2. WholeBytes(<<>>, 0) = [k \in {} |-> EightBits(<<>>, k - 1)]
      BY ONLY <2>1 DEF WholeBytes
    <2>3. [k \in {} |-> EightBits(<<>>, k - 1)] = <<>>
      BY ONLY SMT
    <2> QED BY ONLY <2>2, <2>3
  <1> QED BY ONLY <1>2, <1>3, <1>4, <1>5

(* One turn of the loop takes the state after i - 1 characters to that after i. *)
LEMMA DecodedStep ==
    ASSUME NEW text \in Seq(0..64), NEW F, Gathers(F, text), NEW i \in 1..Len(text)
    PROVE  DecodeStep(Decoded(F, text, i - 1), text[i]) = Decoded(F, text, i)
  <1> DEFINE run == RunAt(text, i)
             next == RunAt(text, i + 1)
             o == F[i - 1]
             c == text[i]
             p == PartAt(text, i)
             a == o \o Whole(run)
             t == Rest(run)
  <1>1. /\ run \in Seq(0..63) /\ next \in Seq(0..63)
        /\ c = Pad => next = <<>>
        /\ c # Pad => next = Append(run, c)
    <2>1. i \in 1..Len(text) + 1 /\ i + 1 \in 1..Len(text) + 1
      OBVIOUS
    <2> QED BY <2>1, RunGrows
  <1>2. c \in 0..64 /\ (c # Pad => c \in 0..63)
    BY ElementOfSeq DEF Pad
  <1>3. /\ p \in Seq(0..255)
        /\ c = Pad => p = WholeBytes(run, (6 * Len(run)) \div 8)
        /\ c # Pad => p = <<>>
    BY PartType
  <1>4. o \in Seq(0..255) /\ F[i] = o \o p /\ F[i] \in Seq(0..255)
    <2>1. i - 1 \in 0..Len(text) /\ i \in 0..Len(text)
      OBVIOUS
    <2> QED BY <2>1 DEF Gathers
  <1>5. Decoded(F, text, i - 1) = On(a, t) /\ Decoded(F, text, i) = On(F[i] \o Whole(next), Rest(next))
    <2>1. i - 1 + 1 = i
      OBVIOUS
    <2> QED BY <2>1 DEF Decoded
  <1> HIDE DEF run, next, o, c, p, t
  <1>6. Whole(run) \in Seq(0..255) /\ t \in Seq(0..63) /\ Len(t) <= 3
    <2>1. \E q \in Nat, r \in 0..3 : Rest(run) \in Seq(0..63) /\ Len(Rest(run)) = r /\ Whole(run) \in Seq(0..255)
      BY ONLY <1>1, FoursOf
    <2>2. \A r \in 0..3 : r <= 3
      OBVIOUS
    <2> QED BY ONLY <2>1, <2>2 DEF t
  <1>7. a \in DecOut
    BY ONLY <1>4, <1>6, ConcatProperties DEF DecOut
  <1> HIDE DEF a
  <1>8. CASE c = Pad
    <2>1. DecodeStep(On(a, t), c) = On(a \o base64_decode(t), <<>>)
      BY ONLY <1>2, <1>6, <1>7, <1>8, TurnIs
    <2>2. Whole(run) \o base64_decode(t) = p
      BY ONLY <1>1, <1>3, <1>8, RunEnds DEF t
    <2>3. a \o base64_decode(t) = F[i]
      <3>1. base64_decode(t) \in Seq(0..255)
        <4>1. Len(t) <= 4
          BY ONLY <1>6
        <4> QED BY ONLY <1>6, <4>1, DecodedIs
      <3>2. (o \o Whole(run)) \o base64_decode(t) = o \o (Whole(run) \o base64_decode(t))
        BY ONLY <1>4, <1>6, <3>1, BytesJoin
      <3> QED BY ONLY <1>4, <2>2, <3>2, Zenon DEF a
    <2>4. F[i] \o Whole(next) = F[i] /\ Rest(next) = <<>>
      <3>1. next = <<>>
        BY ONLY <1>1, <1>8
      <3>2. F[i] \o <<>> = F[i]
        BY ONLY <1>4, ConcatEmptySeq
      <3> QED BY ONLY <3>1, <3>2, NothingYet
    <2>5. DecodeStep(On(a, t), c) = On(F[i] \o Whole(next), Rest(next))
      BY ONLY <2>1, <2>3, <2>4, Zenon
    <2> QED BY <1>5, <2>5 DEF c
  <1>9. CASE c # Pad
    <2>0. F[i] = o
      <3>1. o \o <<>> = o
        BY ONLY <1>4, ConcatEmptySeq
      <3> QED BY ONLY <1>3, <1>4, <1>9, <3>1
    <2>1. c \in 0..63 /\ next = Append(run, c)
      BY ONLY <1>1, <1>2, <1>9
    <2>2. /\ Len(t) = 3 => /\ Whole(next) = Whole(run) \o base64_decode(Append(t, c))
                           /\ Rest(next) = <<>>
          /\ Len(t) # 3 => Whole(next) = Whole(run) /\ Rest(next) = Append(t, c)
      BY ONLY <1>1, <2>1, RunGoesOn DEF t
    <2>3. /\ Len(t) = 3 => DecodeStep(On(a, t), c) = On(a \o base64_decode(Append(t, c)), <<>>)
          /\ Len(t) # 3 => DecodeStep(On(a, t), c) = On(a, Append(t, c))
      BY ONLY <1>2, <1>6, <1>7, <2>1, TurnIs
    <2>4. ASSUME Len(t) = 3
          PROVE  a \o base64_decode(Append(t, c)) = o \o (Whole(run) \o base64_decode(Append(t, c)))
      <3>1. base64_decode(Append(t, c)) \in Seq(0..255)
        <4>1. Append(t, c) \in Seq(0..63) /\ Len(Append(t, c)) = Len(t) + 1
          BY ONLY <1>6, <2>1, AppendChar
        <4>2. Len(Append(t, c)) <= 4
          BY ONLY <2>4, <4>1
        <4> QED BY ONLY <4>1, <4>2, DecodedIs
      <3>2. (o \o Whole(run)) \o base64_decode(Append(t, c)) = o \o (Whole(run) \o base64_decode(Append(t, c)))
        BY ONLY <1>4, <1>6, <3>1, BytesJoin
      <3> QED BY ONLY <3>2 DEF a
    <2>5. DecodeStep(On(a, t), c) = On(F[i] \o Whole(next), Rest(next))
      <3>1. CASE Len(t) = 3
        BY ONLY <2>0, <2>2, <2>3, <2>4, <3>1, Zenon
      <3>2. CASE Len(t) # 3
        BY ONLY <2>0, <2>2, <2>3, <3>2, Zenon DEF a
      <3> QED BY ONLY <3>1, <3>2
    <2> QED BY <1>5, <2>5 DEF c
  <1> QED BY <1>8, <1>9

(* Text without characters that are none of the alphabet. *)
LEMMA TextDecoded ==
    ASSUME NEW text \in Seq(0..64), NEW F, Gathers(F, text), NEW h, Runs(h, text, Len(text))
    PROVE  h[Len(text)] = Decoded(F, text, Len(text))
  <1> DEFINE L == Len(text)
             S == {i \in 0..L : h[i] = Decoded(F, text, i)}
  <1>1. L \in Nat
    OBVIOUS
  <1>2. 0 \in S
    <2>1. RunAt(text, 0 + 1) = <<>>
      BY RunGrows
    <2>2. F[0] = <<>>
      BY DEF Gathers
    <2>3. <<>> \o <<>> = <<>>
      OBVIOUS
    <2>4. Decoded(F, text, 0) = On(<<>>, <<>>)
      BY ONLY <2>1, <2>2, <2>3, NothingYet DEF Decoded
    <2>5. h[0] = On(<<>>, <<>>)
      BY DEF Runs, Start, On
    <2> QED BY <1>1, <2>4, <2>5
  <1>3. ASSUME NEW i \in 0..L, i # 0, i - 1 \in S PROVE i \in S
    <2>1. i \in 1..L /\ h[i - 1] = Decoded(F, text, i - 1)
      BY <1>3
    <2>2. h[i] = DecodeStep(h[i - 1], text[i])
      BY <2>1 DEF Runs
    <2>3. DecodeStep(Decoded(F, text, i - 1), text[i]) = Decoded(F, text, i)
      BY <2>1, DecodedStep
    <2>4. h[i] = Decoded(F, text, i)
      BY ONLY <2>1, <2>2, <2>3
    <2> QED BY ONLY <2>4, i \in 0..L
  <1> HIDE DEF S, L
  <1>4. L \in S
    <2>1. \A i \in 0..L : i # 0 /\ i - 1 \in S => i \in S
      BY <1>3
    <2>2. 0 \in Nat /\ L \in 0..L
      BY ONLY <1>1
    <2> QED BY ONLY <1>1, <1>2, <2>1, <2>2, IntervalInduction
  <1> QED BY ONLY <1>4 DEF S, L

(* A character that is none of the alphabet, in a text without NUL. *)
LEMMA TextSpoilt ==
    ASSUME NEW n \in Nat, NEW text \in Seq(0..67), Len(text) = n, \A i \in 1..n : text[i] # Nul,
           NEW h, Runs(h, text, n), NEW b \in 1..n, text[b] = Bad
    PROVE  h[n].is = "no"
  <1> DEFINE S == {i \in 0..n : h[i].is # "end"}
  <1>1. /\ h \in [0..n -> DecState] /\ h[0] = Start
        /\ \A i \in 1..n : h[i] = DecodeStep(h[i - 1], text[i]) /\ h[i - 1] \in DecState /\ text[i] \in 0..67
    <2>1. \A i \in 1..n : i - 1 \in 0..n
      OBVIOUS
    <2> QED BY <2>1, ElementOfSeq DEF Runs
  <1>2. 0 \in S
    BY <1>1 DEF Start
  <1>3. ASSUME NEW i \in 0..n, i # 0, i - 1 \in S PROVE i \in S
    <2>1. i \in 1..n /\ h[i - 1].is # "end"
      BY <1>3
    <2> DEFINE d == h[i - 1]
               c == text[i]
    <2>2. d \in DecState /\ c \in 0..67 /\ c # Nul /\ h[i] = DecodeStep(d, c) /\ d.is # "end"
      BY <1>1, <2>1
    <2> HIDE DEF d, c
    <2>3. DecodeStep(d, c).is # "end"
      <3>1. /\ d.is # "on" \/ c = Blank => DecodeStep(d, c) = d
            /\ d.is = "on" /\ c = Bad => DecodeStep(d, c) = [is |-> "no", out |-> d.out, t |-> d.t]
            /\ d.is = "on" /\ c = Pad =>
                DecodeStep(d, c) = [is |-> "on", out |-> d.out \o base64_decode(d.t), t |-> <<>>]
            /\ d.is = "on" /\ c \in 0..63 /\ Len(d.t) = 3 =>
                DecodeStep(d, c) =
                    [is |-> "on", out |-> d.out \o base64_decode(Append(d.t, c)), t |-> <<>>]
            /\ d.is = "on" /\ c \in 0..63 /\ Len(d.t) # 3 =>
                DecodeStep(d, c) = [is |-> "on", out |-> d.out, t |-> Append(d.t, c)]
        BY ONLY <2>2, DecodeStepIs
      <3>2. c \in 0..63 \/ c = Pad \/ c = Blank \/ c = Bad
        BY ONLY <2>2 DEF Pad, Blank, Bad, Nul
      <3>3. CASE d.is # "on" \/ c = Blank
        BY ONLY <2>2, <3>1, <3>3, Zenon
      <3>4. CASE d.is = "on" /\ c = Bad
        BY ONLY <3>1, <3>4
      <3>5. CASE d.is = "on" /\ c = Pad
        BY ONLY <3>1, <3>5
      <3>6. CASE d.is = "on" /\ c \in 0..63
        <4>1. CASE Len(d.t) = 3
          <5>1. DecodeStep(d, c) = [is |-> "on", out |-> d.out \o base64_decode(Append(d.t, c)), t |-> <<>>]
            BY ONLY <3>1, <3>6, <4>1, Zenon
          <5> QED BY ONLY <5>1
        <4>2. CASE Len(d.t) # 3
          <5>1. DecodeStep(d, c) = [is |-> "on", out |-> d.out, t |-> Append(d.t, c)]
            BY ONLY <3>1, <3>6, <4>2, Zenon
          <5> QED BY ONLY <5>1
        <4> QED BY <4>1, <4>2
      <3> QED BY ONLY <3>2, <3>3, <3>4, <3>5, <3>6, Zenon
    <2>4. h[i].is # "end"
      BY ONLY <2>2, <2>3
    <2> QED BY ONLY <2>4, i \in 0..n
  <1> HIDE DEF S
  <1>4. \A i \in 0..n : i \in S
    <2>1. \A i \in 0..n : i # 0 /\ i - 1 \in S => i \in S
      BY <1>3
    <2>2. 0 \in Nat
      OBVIOUS
    <2> QED BY ONLY <1>2, <2>1, <2>2, n \in Nat, IntervalInduction
  <1>5. h[b].is = "no"
    <2> DEFINE d == h[b - 1]
    <2>1. b - 1 \in 0..n
      OBVIOUS
    <2>2. d.is # "end"
      BY ONLY <1>4, <2>1 DEF S
    <2>3. d \in DecState /\ h[b] = DecodeStep(d, Bad) /\ Bad \in 0..67
      BY <1>1 DEF Bad
    <2> HIDE DEF d
    <2>4. d.is \in DecIs
      BY <2>3 DEF DecState
    <2>5. CASE d.is = "on"
      <3>1. DecodeStep(d, Bad) = [is |-> "no", out |-> d.out, t |-> d.t]
        BY ONLY <2>3, <2>5, DecodeStepIs
      <3> QED BY ONLY <2>3, <3>1
    <2>6. CASE d.is = "no"
      <3>1. DecodeStep(d, Bad) = d
        BY ONLY <2>3, <2>6, DecodeStepIs
      <3> QED BY ONLY <2>3, <2>6, <3>1
    <2> QED BY <2>2, <2>4, <2>5, <2>6 DEF DecIs
  <1>6. h[n] = h[b]
    <2>1. h[b].is # "on" /\ b \in 0..n
      BY <1>5
    <2> QED BY <2>1, EndedStays
  <1> QED BY <1>5, <1>6

(* The beginnings of a concatenation. *)
Joins(g, s, n) == g[0] = <<>> /\ \A i \in 1..n : g[i] = g[i - 1] \o s[i]

(* A concatenation has such beginnings. *)
LEMMA FlattenJoins ==
    ASSUME NEW T, NEW n \in Nat, NEW s \in [1..n -> Seq(T)]
    PROVE  \E g \in [0..n -> Seq(T)] : FlattenSeq(s) = g[n] /\ Joins(g, s, n)
  <1>0. <<>> \in Seq(T)
    OBVIOUS
  <1>1. CASE n = 0
    <2>1. s = <<>>
      BY <1>1
    <2>2. FlattenSeq(s) = <<>>
      <3>1. Len(s) = 0
        BY <2>1
      <3> QED BY <2>1, <3>1 DEF FlattenSeq
    <2> DEFINE g == [i \in 0..n |-> <<>>]
    <2>3. g \in [0..n -> Seq(T)] /\ g[0] = <<>> /\ g[n] = <<>> /\ 1..n = {}
      BY <1>0, <1>1
    <2> HIDE DEF g
    <2>4. FlattenSeq(s) = g[n] /\ Joins(g, s, n)
      BY ONLY <2>2, <2>3 DEF Joins
    <2> QED BY ONLY <2>3, <2>4
  <1>2. CASE n # 0
    <2>0. n \in Nat \ {0}
      BY <1>2
    <2>1. PICK f \in [1..n -> Seq(T)] : FlattenSeq(s) = f[n] /\ Flattens(f, s, n)
      BY ONLY <2>0, s \in [1..n -> Seq(T)], FlattenSteps
    <2> DEFINE g == [i \in 0..n |-> IF i = 0 THEN <<>> ELSE f[i]]
    <2>2. /\ g \in [0..n -> Seq(T)] /\ g[0] = <<>> /\ g[n] = f[n]
          /\ \A i \in 1..n : g[i] = f[i]
      BY ONLY <1>0, <2>0, f \in [1..n -> Seq(T)]
    <2> HIDE DEF g
    <2>3. ASSUME NEW i \in 1..n PROVE g[i] = g[i - 1] \o s[i]
      <3>1. CASE i = 1
        <4>1. f[1] = s[1] /\ 1 \in 1..n /\ 1 - 1 = 0
          BY <2>0, <2>1 DEF Flattens
        <4>2. s[1] \in Seq(T)
          BY <4>1
        <4>3. <<>> \o s[1] = s[1]
          BY ONLY <4>2, ConcatEmptySeq
        <4> QED BY ONLY <2>2, <3>1, <4>1, <4>3
      <3>2. CASE i # 1
        <4>1. i \in 2..n /\ i - 1 \in 1..n
          BY <3>2
        <4>2. f[i] = f[i - 1] \o s[i]
          BY ONLY <2>1, <4>1 DEF Flattens
        <4>3. g[i - 1] = f[i - 1] /\ g[i] = f[i]
          BY ONLY <2>2, <4>1, i \in 1..n
        <4> QED BY ONLY <4>2, <4>3
      <3> QED BY <3>1, <3>2
    <2>4. FlattenSeq(s) = g[n] /\ Joins(g, s, n)
      BY ONLY <2>1, <2>2, <2>3 DEF Joins
    <2> QED BY ONLY <2>2, <2>4
  <1> QED BY <1>1, <1>2

(* A beginning stays the beginning of those that follow. *)
LEMMA JoinsGrow ==
    ASSUME NEW T, NEW n \in Nat, NEW s \in [1..n -> Seq(T)], NEW g \in [0..n -> Seq(T)],
           Joins(g, s, n), NEW i \in 0..n
    PROVE  Len(g[i]) <= Len(g[n]) /\ \A j \in 1..Len(g[i]) : g[n][j] = g[i][j]
  <1> DEFINE P(k) == Len(g[i]) <= Len(g[k]) /\ \A j \in 1..Len(g[i]) : g[k][j] = g[i][j]
             S == {k \in i..n : P(k)}
  <1>0. \A k \in 0..n : g[k] \in Seq(T) /\ Len(g[k]) \in Nat
    OBVIOUS
  <1>1. i \in S
    <2>1. Len(g[i]) \in Nat
      BY <1>0
    <2> QED BY <2>1
  <1>2. ASSUME NEW k \in i..n, k # i, k - 1 \in S PROVE k \in S
    <2>1. k \in 1..n /\ k - 1 \in 0..n /\ k \in 0..n
      BY <1>2
    <2>2. g[k] = g[k - 1] \o s[k] /\ s[k] \in Seq(T) /\ g[k - 1] \in Seq(T)
      BY <2>1 DEF Joins
    <2>3. P(k - 1)
      BY <1>2
    <2> DEFINE x == g[k - 1]
               y == g[k]
               z == g[i]
               w == s[k]
    <2>4. x \in Seq(T) /\ w \in Seq(T) /\ y = x \o w /\ Len(z) \in Nat /\ Len(z) <= Len(x) /\ Len(x) \in Nat
          /\ Len(w) \in Nat /\ \A j \in 1..Len(z) : x[j] = z[j]
      BY <1>0, <2>2, <2>3
    <2> HIDE DEF x, y, z, w, P
    <2>5. Len(z) <= Len(y) /\ \A j \in 1..Len(z) : y[j] = z[j]
      <3>1. /\ Len(y) = Len(x) + Len(w)
            /\ \A j \in 1..Len(x) + Len(w) : y[j] = IF j <= Len(x) THEN x[j] ELSE w[j - Len(x)]
        BY ONLY <2>4, ConcatProperties
      <3>2. Len(z) <= Len(y)
        BY ONLY <2>4, <3>1
      <3>3. ASSUME NEW j \in 1..Len(z) PROVE y[j] = z[j]
        <4>1. j \in 1..Len(x) + Len(w) /\ j <= Len(x)
          BY ONLY <2>4, j \in 1..Len(z)
        <4> QED BY ONLY <2>4, <3>1, <4>1, j \in 1..Len(z)
      <3> QED BY ONLY <3>2, <3>3
    <2>6. P(k)
      BY ONLY <2>5 DEF P, y, z
    <2> QED BY ONLY <2>6, k \in i..n
  <1> HIDE DEF S
  <1>3. n \in S
    <2>1. \A k \in i..n : k # i /\ k - 1 \in S => k \in S
      BY <1>2
    <2>2. i \in Nat /\ n \in i..n
      OBVIOUS
    <2> QED BY ONLY <1>1, <2>1, <2>2, n \in Nat, IntervalInduction
  <1> QED BY ONLY <1>3 DEF S

(* The text is what is read, without its blanks. *)
Unblanked(read) == [i \in DOMAIN read |-> IF read[i] = Blank THEN <<>> ELSE <<read[i]>>]

(* Taking the blanks out leaves a text that Skips relates to what is read. *)
LEMMA BlanksTakenOut ==
    ASSUME NEW A, NEW read \in Seq(A), NEW n, n = Len(read), NEW text, text = FlattenSeq(Unblanked(read))
    PROVE  /\ text \in Seq(A \ {Blank})
           /\ \E p : Skips(p, read, text, n, Len(text)) /\ p[n] = Len(text)
  <1> DEFINE T == A \ {Blank}
             w == Unblanked(read)
  <1>1. n \in Nat /\ DOMAIN read = 1..n /\ \A i \in 1..n : read[i] \in A
    BY ElementOfSeq
  <1>2. /\ w \in [1..n -> Seq(T)]
        /\ \A i \in 1..n : w[i] = IF read[i] = Blank THEN <<>> ELSE <<read[i]>>
    <2>1. \A i \in 1..n : read[i] # Blank => <<read[i]>> \in Seq(T)
      <3>1. \A i \in 1..n : read[i] # Blank => read[i] \in T
        BY <1>1
      <3> HIDE DEF T
      <3> QED BY ONLY <3>1
    <2>2. <<>> \in Seq(T)
      OBVIOUS
    <2>3. w = [i \in 1..n |-> IF read[i] = Blank THEN <<>> ELSE <<read[i]>>]
      BY <1>1 DEF Unblanked
    <2> HIDE DEF w, T
    <2> QED BY ONLY <2>1, <2>2, <2>3
  <1> HIDE DEF w, T
  <1>3. PICK g \in [0..n -> Seq(T)] : FlattenSeq(w) = g[n] /\ Joins(g, w, n)
    BY ONLY <1>1, <1>2, FlattenJoins
  <1>4. text = g[n] /\ text \in Seq(T)
    <2>1. n \in 0..n
      BY ONLY <1>1
    <2>2. text = g[n]
      BY <1>3 DEF w
    <2> QED BY ONLY <2>1, <2>2, g \in [0..n -> Seq(T)]
  <1> DEFINE m == Len(text)
             p == [i \in 0..n |-> Len(g[i])]
  <1>5. \A i \in 0..n : Len(g[i]) \in Nat /\ Len(g[i]) <= m /\ \A j \in 1..Len(g[i]) : text[j] = g[i][j]
    <2>1. ASSUME NEW i \in 0..n
          PROVE  Len(g[i]) \in Nat /\ Len(g[i]) <= m /\ \A j \in 1..Len(g[i]) : text[j] = g[i][j]
      <3>1. Len(g[i]) <= Len(g[n]) /\ \A j \in 1..Len(g[i]) : g[n][j] = g[i][j]
        <4>1. n \in Nat /\ w \in [1..n -> Seq(T)] /\ Joins(g, w, n)
          BY ONLY <1>1, <1>2, <1>3
        <4> QED BY ONLY <4>1, JoinsGrow, g \in [0..n -> Seq(T)], i \in 0..n
      <3>2. g[i] \in Seq(T)
        BY ONLY g \in [0..n -> Seq(T)], i \in 0..n
      <3> QED BY ONLY <1>4, <3>1, <3>2
    <2> QED BY ONLY <2>1
  <1>6. p \in [0..n -> 0..m] /\ p[0] = 0 /\ p[n] = m /\ \A i \in 0..n : p[i] = Len(g[i])
    <2>1. m \in Nat
      BY ONLY <1>4
    <2>2. g[0] = <<>> /\ Len(<<>>) = 0
      BY ONLY <1>3 DEF Joins
    <2>3. \A i \in 0..n : Len(g[i]) \in 0..m
      BY ONLY <1>5, <2>1
    <2> HIDE DEF m
    <2>4. p \in [0..n -> 0..m]
      BY ONLY <2>3
    <2>5. 0 \in 0..n /\ n \in 0..n
      BY ONLY <1>1
    <2> QED BY ONLY <1>4, <2>2, <2>4, <2>5 DEF m
  <1>7. ASSUME NEW i \in 1..n
        PROVE  \/ read[i] = Blank /\ p[i] = p[i - 1]
               \/ p[i] = p[i - 1] + 1 /\ read[i] = text[p[i]]
    <2>1. i \in 0..n /\ i - 1 \in 0..n
      BY ONLY <1>1, i \in 1..n
    <2>2. p[i] = Len(g[i]) /\ p[i - 1] = Len(g[i - 1])
      BY ONLY <1>6, <2>1
    <2> HIDE DEF p, m
    <2> DEFINE x == g[i - 1]
               c == read[i]
    <2>3. g[i] = x \o w[i] /\ x \in Seq(T)
      BY <1>3, <2>1 DEF Joins
    <2>4. CASE c = Blank
      <3>1. w[i] = <<>>
        BY <1>2, <2>4
      <3>2. x \o <<>> = x
        BY ONLY <2>3, ConcatEmptySeq
      <3>3. p[i] = p[i - 1]
        BY ONLY <2>2, <2>3, <3>1, <3>2
      <3> QED BY <2>4, <3>3
    <2>5. CASE c # Blank
      <3>1. w[i] = <<c>> /\ c \in T
        <4>1. c \in A
          BY <1>1
        <4> QED BY <1>2, <2>5, <4>1 DEF T
      <3> HIDE DEF x, c
      <3>2. Append(x, c) = x \o <<c>>
        BY ONLY <2>3, <3>1, AppendIsConcat
      <3>3. Len(g[i]) = Len(x) + 1 /\ g[i][Len(x) + 1] = c
        BY ONLY <2>3, <3>1, <3>2, AppendProperties
      <3>4. Len(x) \in Nat /\ Len(x) + 1 \in 1..Len(x) + 1
        BY ONLY <2>3
      <3>5. text[Len(x) + 1] = c
        BY ONLY <1>5, <2>1, <3>3, <3>4
      <3>6. p[i] = p[i - 1] + 1 /\ c = text[p[i]]
        BY ONLY <2>2, <3>3, <3>5 DEF x
      <3> QED BY <3>6 DEF c
    <2> QED BY <2>4, <2>5
  <1>8. Skips(p, read, text, n, m)
    <2> HIDE DEF p, m
    <2> QED BY ONLY <1>6, <1>7 DEF Skips
  <1>9. \E q : Skips(q, read, text, n, m) /\ q[n] = m
    <2> HIDE DEF p, m
    <2> QED BY ONLY <1>6, <1>8
  <1> QED BY <1>4, <1>9 DEF T

(* What is read of an input: all of it, or what is before its first NUL. *)
Read(s) == IF Contains(s, Nul) THEN SubSeq(s, 1, Until(s, Nul) - 1) ELSE s

(* A sequence of elements of a set is one over that set. *)
LEMMA SeqNarrow ==
    ASSUME NEW T, NEW U, NEW s \in Seq(T), \A i \in 1..Len(s) : s[i] \in U
    PROVE  s \in Seq(U)
  OBVIOUS

(* The first NUL. *)
LEMMA UntilNul ==
    ASSUME NEW T, NEW s \in Seq(T), Contains(s, Nul)
    PROVE  /\ Until(s, Nul) \in 1..Len(s) /\ s[Until(s, Nul)] = Nul
           /\ \A i \in 1..Until(s, Nul) - 1 : s[i] # Nul
  <1> DEFINE I == {i \in 1..Len(s) : s[i] = Nul}
  <1>1. I # {} /\ I \in SUBSET Nat
    BY DEF Contains
  <1>2. Until(s, Nul) = Min(I)
    BY <1>1 DEF Until, SelectInSeq
  <1> HIDE DEF I
  <1>3. Min(I) \in I /\ \A y \in I : Min(I) <= y
    BY ONLY <1>1, MinFacts
  <1> USE DEF I
  <1>4. Min(I) \in 1..Len(s) /\ s[Min(I)] = Nul /\ \A i \in 1..Len(s) : s[i] = Nul => Min(I) <= i
    BY <1>3
  <1> HIDE DEF I
  <1> DEFINE m == Min(I)
  <1>5. m \in 1..Len(s) /\ s[m] = Nul /\ \A i \in 1..Len(s) : s[i] = Nul => m <= i
    BY <1>4
  <1> HIDE DEF m
  <1>6. \A i \in 1..m - 1 : i \in 1..Len(s) /\ ~(m <= i)
    BY <1>5
  <1>7. \A i \in 1..m - 1 : s[i] # Nul
    BY ONLY <1>5, <1>6
  <1>8. Until(s, Nul) = m
    BY ONLY <1>2 DEF m
  <1> QED BY ONLY <1>5, <1>7, <1>8

(* The decoder answers the same for what is read as for the input. *)
LEMMA ReadUpTo ==
    ASSUME NEW s \in Seq(0..67), NEW N, N = Len(s), NEW f, Runs(f, s, N)
    PROVE  /\ Read(s) \in Seq((0..67) \ {Nul})
           /\ \E h : /\ Runs(h, Read(s), Len(Read(s)))
                     /\ f[N].is = "no" <=> h[Len(Read(s))].is = "no"
                     /\ f[N].out = h[Len(Read(s))].out
  <1> DEFINE T == 0..67
             U == T \ {Nul}
  <1>0. N \in Nat /\ s \in [1..N -> T]
    <2> HIDE DEF T
    <2>1. s \in Seq(T) /\ N = Len(s)
      BY DEF T
    <2> QED BY ONLY <2>1, SeqAsFun
  <1>1. CASE ~Contains(s, Nul)
    <2>1. Read(s) = s
      BY <1>1 DEF Read
    <2>2. \A i \in 1..N : s[i] \in T /\ s[i] # Nul
      BY <1>0, <1>1 DEF Contains
    <2>3. s \in [1..N -> U]
      BY <1>0, <2>2
    <2> HIDE DEF U
    <2>4. s \in Seq(U)
      <3>1. N \in Nat
        BY ONLY <1>0
      <3> QED BY ONLY <3>1, <2>3
    <2>5. Runs(f, s, Len(s)) /\ f[N] = f[Len(s)]
      OBVIOUS
    <2> QED BY ONLY <2>1, <2>4, <2>5 DEF U, T
  <1>2. CASE Contains(s, Nul)
    <2> DEFINE k == Until(s, Nul)
               n == k - 1
               r == Read(s)
    <2>1. k \in 1..N /\ s[k] = Nul /\ \A i \in 1..n : s[i] # Nul
      BY <1>2, UntilNul
    <2>2. r = SubSeq(s, 1, n)
      BY <1>2 DEF Read
    <2> HIDE DEF k, r, T
    <2>3. n \in Nat /\ n \in 0..N /\ k \in 1..N /\ k - 1 = n
      BY ONLY <1>0, <2>1
    <2>4. r = [i \in 1..n |-> s[i]]
      BY ONLY <1>0, <2>2, <2>3, s \in Seq(T), SubSeqIs
    <2>5. \A i \in 1..n : i \in 1..N /\ s[i] \in T /\ s[i] # Nul
      BY <1>0, <2>1, <2>3
    <2> HIDE DEF n
    <2>6. r \in [1..n -> U] /\ \A i \in 1..n : r[i] = s[i]
      BY ONLY <2>4, <2>5 DEF U
    <2> HIDE DEF U
    <2>7. r \in Seq(U) /\ Len(r) = n
      BY ONLY <2>3, <2>6
    <2> DEFINE h == [i \in 0..n |-> f[i]]
    <2>8. /\ f \in [0..N -> DecState] /\ f[0] = Start
          /\ \A i \in 1..N : f[i] = DecodeStep(f[i - 1], s[i])
      BY ONLY Runs(f, s, N) DEF Runs
    <2>9. \A i \in 0..n : i \in 0..N
      BY ONLY <1>0, <2>3
    <2>10. h \in [0..n -> DecState] /\ \A i \in 0..n : h[i] = f[i]
      BY ONLY <2>8, <2>9
    <2> HIDE DEF h
    <2>11. Runs(h, r, n)
      <3>1. \A i \in 1..n : i \in 0..n /\ i - 1 \in 0..n /\ i \in 1..N
        BY ONLY <1>0, <2>3
      <3>2. ASSUME NEW i \in 1..n PROVE h[i] = DecodeStep(h[i - 1], r[i])
        <4>1. h[i] = f[i] /\ h[i - 1] = f[i - 1] /\ r[i] = s[i]
          BY ONLY <2>6, <2>10, <3>1, i \in 1..n
        <4>2. f[i] = DecodeStep(f[i - 1], s[i])
          BY ONLY <2>8, <3>1, i \in 1..n
        <4> QED BY ONLY <4>1, <4>2
      <3>3. h[0] = Start
        BY ONLY <2>3, <2>8, <2>10
      <3> QED BY ONLY <2>10, <3>2, <3>3 DEF Runs
    <2>12. (f[N].is = "no" <=> f[n].is = "no") /\ f[N].out = f[n].out
      <3> DEFINE d == f[n]
                 e == f[k]
      <3>1. e = DecodeStep(d, Nul) /\ d \in DecState
        BY ONLY <2>1, <2>3, <2>8
      <3>2. CASE d.is # "on"
        <4>1. f[N] = d
          BY ONLY <1>0, <2>3, <3>2, Runs(f, s, N), EndedStays
        <4> QED BY ONLY <4>1
      <3>3. CASE d.is = "on"
        <4> HIDE DEF d, e
        <4>1. Nul \in 0..67
          BY DEF Nul
        <4>2. DecodeStep(d, Nul) = [is |-> "end", out |-> d.out, t |-> d.t]
          BY ONLY <3>1, <3>3, <4>1, DecodeStepIs
        <4>3. e.is = "end" /\ e.out = d.out
          BY ONLY <3>1, <4>2
        <4>4. f[k].is # "on" /\ k \in 0..N
          BY ONLY <1>0, <2>3, <4>3 DEF e
        <4>5. f[N] = e
          <5>1. N \in Nat
            BY ONLY <1>0
          <5>2. f[N] = f[k]
            BY ONLY <4>4, <5>1, Runs(f, s, N), EndedStays
          <5> QED BY ONLY <5>2 DEF e
        <4> QED BY ONLY <3>3, <4>3, <4>5 DEF d
      <3> QED BY ONLY <3>2, <3>3
    <2>13. n \in 0..n /\ h[n] = f[n]
      BY ONLY <2>3, <2>10
    <2>14. Runs(h, r, Len(r)) /\ (f[N].is = "no" <=> h[Len(r)].is = "no") /\ f[N].out = h[Len(r)].out
      BY ONLY <2>7, <2>11, <2>12, <2>13
    <2> QED BY ONLY <2>7, <2>14 DEF U, T, r
  <1> QED BY <1>1, <1>2

(* The decoder gives what its words say, of any text.                       *)
LEMMA Base64DecodesOf == InputOK => Base64Decodes
  <1> SUFFICES ASSUME InputOK, kind = "chars" PROVE Base64Decodes
    BY DEF Base64Decodes
  <1> DEFINE T == 0..67
             A == T \ {Nul}
             read == Read(input)
             n == Len(read)
             text == FlattenSeq(Unblanked(read))
             L == Len(text)
             parts == [k \in 1..L |-> PartAt(text, k)]
             last == RunAt(text, L + 1)
             answer == IF Contains(text, Bad) THEN Nil
                       ELSE [ok |-> TRUE, out |-> FlattenSeq(parts) \o Whole(last)]
  <1>1. input \in Seq(T)
    <2>1. input \in Seq(EncChars)
      BY DEF InputOK, Alphabet
    <2>2. EncChars \subseteq T
      BY EncAssumption
    <2> HIDE DEF T
    <2> QED BY ONLY <2>1, <2>2, SeqWiden
  <1>2. PICK f : Runs(f, input, Len(input))
    <2>1. Len(input) \in Nat /\ input \in [1..Len(input) -> T]
      <3> HIDE DEF T
      <3> QED BY ONLY <1>1, SeqAsFun
    <2> QED BY ONLY <2>1, RunExists
  <1>3. /\ read \in Seq(A)
        /\ \E h : /\ Runs(h, read, n)
                  /\ f[Len(input)].is = "no" <=> h[n].is = "no"
                  /\ f[Len(input)].out = h[n].out
    BY ONLY <1>1, <1>2, ReadUpTo
  <1>4. PICK g : /\ Runs(g, read, n)
                 /\ f[Len(input)].is = "no" <=> g[n].is = "no"
                 /\ f[Len(input)].out = g[n].out
    BY ONLY <1>3
  <1>5. Lbase64_decode(input) = IF g[n].is = "no" THEN Nil ELSE [ok |-> TRUE, out |-> g[n].out]
    <2>1. Len(input) \in Nat
      BY ONLY <1>1
    <2>2. Lbase64_decode(input) = IF f[Len(input)].is = "no" THEN Nil
                                  ELSE [ok |-> TRUE, out |-> f[Len(input)].out]
      BY ONLY <1>1, <1>2, <2>1, DecodeAnswer
    <2> QED BY ONLY <1>4, <2>2
  <1> HIDE DEF read, n
  <1>6. n = Len(read) /\ n \in Nat
    BY ONLY <1>3 DEF n
  <1>7. /\ text \in Seq(A \ {Blank})
        /\ \E p : Skips(p, read, text, n, L) /\ p[n] = L
    <2> HIDE DEF A, text
    <2>1. text = FlattenSeq(Unblanked(read))
      BY DEF text
    <2> QED BY ONLY <1>3, <1>6, <2>1, BlanksTakenOut
  <1> HIDE DEF text
  <1>8. /\ L \in Nat /\ text \in Seq(0..67)
        /\ \A i \in 1..L : text[i] \in 0..67 /\ text[i] # Nul /\ text[i] # Blank
    <2> DEFINE B == A \ {Blank}
    <2>1. B \subseteq T /\ \A c \in B : c # Nul /\ c # Blank
      OBVIOUS
    <2>2. text \in Seq(B)
      BY ONLY <1>7
    <2> HIDE DEF B, T
    <2>3. L \in Nat /\ \A i \in 1..L : text[i] \in B
      BY ONLY <2>2, ElementOfSeq
    <2>4. text \in Seq(T)
      BY ONLY <2>1, <2>2, SeqWiden
    <2> QED BY ONLY <2>1, <2>3, <2>4 DEF T
  <1>9. PICK h : Runs(h, text, L)
    <2>1. text \in [1..L -> T]
      <3>1. text \in Seq(T)
        BY <1>8
      <3> HIDE DEF T
      <3> QED BY ONLY <3>1, SeqAsFun
    <2> QED BY ONLY <1>8, <2>1, RunExists
  <1>10. g[n] = h[L]
    <2>1. PICK p : Skips(p, read, text, n, L) /\ p[n] = L
      BY ONLY <1>7
    <2> HIDE DEF L
    <2>2. \A i \in 0..n : g[i] = h[p[i]]
      BY ONLY <1>4, <1>6, <1>8, <1>9, <2>1, BlanksAreSkipped
    <2>3. n \in 0..n
      BY ONLY <1>6
    <2> QED BY ONLY <2>1, <2>2, <2>3
  <1>11. Lbase64_decode(input) = answer
    <2>1. CASE Contains(text, Bad)
      <3>1. PICK b \in 1..L : text[b] = Bad
        BY <2>1 DEF Contains
      <3>2. h[L].is = "no"
        BY ONLY <1>8, <1>9, <3>1, TextSpoilt
      <3> QED BY ONLY <1>5, <1>10, <2>1, <3>2
    <2>2. CASE ~Contains(text, Bad)
      <3>1. text \in Seq(0..64)
        <4>1. \A i \in 1..L : text[i] # Bad
          BY <2>2 DEF Contains
        <4>2. \A i \in 1..L : text[i] \in 0..64
          BY <1>8, <4>1 DEF Nul, Bad, Blank
        <4> DEFINE C == 0..64
        <4>3. text \in Seq(T) /\ \A i \in 1..Len(text) : text[i] \in C
          BY <1>8, <4>2
        <4> HIDE DEF C, T
        <4>4. text \in Seq(C)
          BY ONLY <4>3, SeqNarrow
        <4> QED BY ONLY <4>4 DEF C
      <3> DEFINE O == Seq(0..255)
      <3>2. \A k \in 1..L : PartAt(text, k) \in O
        BY ONLY <3>1, PartType
      <3> HIDE DEF O
      <3>3. parts \in [1..L -> O] /\ \A k \in 1..L : parts[k] = PartAt(text, k)
        BY ONLY <3>2
      <3> HIDE DEF parts
      <3>4. PICK F \in [0..L -> O] : FlattenSeq(parts) = F[L] /\ Joins(F, parts, L)
        <4> HIDE DEF L
        <4> QED BY ONLY <1>8, <3>3, FlattenJoins DEF O
      <3>5. Gathers(F, text)
        BY ONLY <3>3, <3>4 DEF Gathers, Joins, O
      <3>6. h[L] = On(FlattenSeq(parts) \o Whole(last), Rest(last))
        <4>1. h[L] = Decoded(F, text, L)
          BY ONLY <1>9, <3>1, <3>5, TextDecoded
        <4> QED BY ONLY <3>4, <4>1 DEF Decoded
      <3>7. h[L].is = "on" /\ h[L].out = FlattenSeq(parts) \o Whole(last)
        BY ONLY <3>6 DEF On
      <3> QED BY ONLY <1>5, <1>10, <2>2, <3>7
    <2> QED BY ONLY <2>1, <2>2
  <1> QED BY ONLY <1>11 DEF Base64Decodes, read, n, text, Read, Unblanked, Whole, RunAt, Before, Pads, PartAt

(* Base64Right holds of every input, of any length (encodings.c:33-157). *)
THEOREM Base64Holds == EncSpec => []Base64Right
  <1>1. InputOK => Base64Right
    BY Base64EncodesOf, Base64DecodesOf DEF Base64Right
  <1> QED BY <1>1, EncInductive, PTL
=============================================================================
