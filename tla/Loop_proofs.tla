---------------------------- MODULE Loop_proofs -----------------------------
(***************************************************************************)
(* Of the one thread that is the process: SignalsSound is an invariant of  *)
(* SigSpec, for any number of signals, deliveries and nested handlers, and *)
(* LoopSound, ConnectedIsTrue and NothingForgotten are invariants of       *)
(* LoopSpec, for any number of connections, descriptors and events.        *)
(***************************************************************************)
EXTENDS Signals, EventLoop, SequenceTheorems, FiniteSetTheorems, WellFoundedInduction, TLAPS

(* Steps of handle; at HasRead the frame's n is where the entry goes, at    *)
(* Armed the hook is planted.                                               *)
HasRead == {"store", "count", "entry"}
Armed == {"room", "index"} \cup HasRead
Steps == {"test", "save", "set"} \cup Armed
Frame == [id : 1..MaxArrivals, at : Steps, n : Nat]

(* An entry already counted and not yet written, and one the hook will find.  *)
Unwritten(k) == \E f \in 1..Len(frames) : frames[f].at = "entry" /\ frames[f].n = k
Live(k) == k \in idx..nsig - 1 /\ ~Unwritten(k)

TypeInv ==
    /\ SigTypeOK
    /\ Len(arrived) <= MaxArrivals
    /\ frames \in Seq(Frame)
    /\ hookAt \in {"off", "loop", "reset"} /\ idx \in Nat /\ (hookAt = "off" => idx = 0)
    /\ handled \in [1..MaxArrivals -> 0..2]

(* Every running C handler records a delivery of its own. *)
IdInv ==
    /\ \A k \in 1..Len(frames) : frames[k].id \in Deliveries
    /\ \A j, k \in 1..Len(frames) : j # k => frames[j].id # frames[k].id

(* The handlers that have read nsig read, from the outermost in, values     *)
(* that never decrease and that the counter has since not fallen below; one *)
(* that has counted its entry already has a place of its own.               *)
FrameInv ==
    "overrun" \notin lost =>
        /\ idx <= nsig
        /\ \A k \in 1..Len(frames) :
             /\ frames[k].at \in HasRead => frames[k].n \in idx..nsig
             /\ frames[k].at \in {"count", "entry"} => frames[k].n < MAX_PENDING_SIGNALS
             /\ frames[k].at = "entry" => frames[k].n < nsig
        /\ \A j, k \in 1..Len(frames) :
             j < k /\ frames[j].at \in HasRead /\ frames[k].at \in HasRead =>
                 frames[j].n <= frames[k].n /\ (frames[j].at = "entry" => frames[j].n < frames[k].n)

(* What is lost is known to be lost: otherwise the only handler that has    *)
(* yet to count its entry is the innermost, nothing changed nsig since, and *)
(* nothing was recorded after the hook's last look.                         *)
ExactInv ==
    lost = {} =>
        /\ \A k \in 1..Len(frames) : frames[k].at \in {"store", "count"} => k = Len(frames) /\ frames[k].n = nsig
        /\ hookAt = "reset" => idx = nsig /\ \A k \in 1..Len(frames) : frames[k].at \notin {"count", "entry"}

(* The deliveries of the table that the hook has yet to look at.            *)
LiveInv ==
    lost \cap {"error", "overrun"} = {} =>
        /\ \A d \in 1..MaxArrivals : handled[d] <= 1 /\ (d > Len(arrived) => handled[d] = 0)
        /\ \A k \in 0..nsig : Live(k) => signals[k] \in Deliveries /\ handled[signals[k]] = 0
        /\ \A j, k \in 0..nsig : Live(j) /\ Live(k) /\ j # k => signals[j] # signals[k]
        /\ \A f \in 1..Len(frames) : handled[frames[f].id] = 0
        /\ \A f \in 1..Len(frames) : \A k \in 0..nsig : Live(k) /\ signals[k] = frames[f].id =>
              frames[f].at = "count" /\ frames[f].n = k
        /\ frames # <<>> /\ Top.at = "count" /\ Top.n = nsig => signals[Top.n] = Top.id

(* A handler past its test for a hook, and a table that is not empty, find  *)
(* the hook planted.                                                        *)
ArmedInv ==
    lost \cap {"error", "overrun"} = {} /\ hookAt = "off" =>
        /\ nsig > 0 => hook
        /\ \A k \in 1..Len(frames) : frames[k].at \in Armed => hook

(* SignalKept, with entries that will not be overwritten. *)
KeptInv ==
    lost = {} => \A d \in Deliveries :
        Running(d) \/ Called(d) \/ \E k \in 0..nsig : Live(k) /\ signals[k] = d

SigInv == TypeInv /\ IdInv /\ FrameInv /\ ExactInv /\ LiveInv /\ ArmedInv /\ KeptInv
-----------------------------------------------------------------------------
(* The innermost handler moves on; all else of the frames stays. *)
LEMMA GotoFacts ==
    ASSUME frames \in Seq(Frame), frames # <<>>, NEW step \in Steps, NEW n \in Nat, Goto(step, n)
    PROVE  /\ frames' \in Seq(Frame) /\ Len(frames') = Len(frames) /\ Len(frames) \in Nat \ {0}
           /\ frames' # <<>>
           /\ \A k \in 1..Len(frames) :
                /\ frames'[k].id = frames[k].id
                /\ frames'[k].n = IF k = Len(frames) THEN n ELSE frames[k].n
                /\ frames'[k].at = IF k = Len(frames) THEN step ELSE frames[k].at
  <1>1. Len(frames) \in Nat \ {0}
    BY EmptySeq, LenProperties
  <1>2. frames[Len(frames)] \in Frame
    BY <1>1
  <1> DEFINE f == [frames[Len(frames)] EXCEPT !.at = step, !.n = n]
  <1>3. f \in Frame /\ f.id = frames[Len(frames)].id /\ f.n = n /\ f.at = step
    BY <1>2 DEF Frame
  <1>4. frames' = [frames EXCEPT ![Len(frames)] = f]
    BY DEF Goto
  <1> HIDE DEF f
  <1>5. frames' \in Seq(Frame) /\ Len(frames') = Len(frames)
    BY <1>1, <1>3, <1>4, ExceptSeq
  <1>6. \A k \in 1..Len(frames) : frames'[k] = IF k = Len(frames) THEN f ELSE frames[k]
    BY <1>1, <1>4
  <1>7. frames' # <<>>
    BY <1>1, <1>5, EmptySeq
  <1> QED BY <1>1, <1>3, <1>5, <1>6, <1>7

(* The innermost handler returns to the one it interrupted. *)
LEMMA PopFacts ==
    ASSUME frames \in Seq(Frame), frames # <<>>, Pop
    PROVE  /\ frames' \in Seq(Frame) /\ Len(frames') = Len(frames) - 1 /\ Len(frames) \in Nat \ {0}
           /\ \A k \in 1..Len(frames) - 1 : frames'[k] = frames[k]
  <1>1. Len(frames) \in Nat \ {0}
    BY EmptySeq, LenProperties
  <1>2. \A k \in 1..Len(frames) - 1 : frames[k] \in Frame
    BY <1>1
  <1>3. frames' = SubSeq(frames, 1, Len(frames) - 1)
    BY DEF Pop
  <1>4. /\ frames' \in Seq(Frame)
        /\ Len(frames') = IF 1 <= Len(frames) - 1 THEN Len(frames) - 1 - 1 + 1 ELSE 0
        /\ \A k \in 1..Len(frames) - 1 - 1 + 1 : frames'[k] = frames[1 + k - 1]
    BY <1>1, <1>2, <1>3, SubSeqProperties
  <1>5. ASSUME NEW k \in 1..Len(frames) - 1 PROVE frames'[k] = frames[k]
    <2>1. k \in 1..Len(frames) - 1 - 1 + 1 /\ 1 + k - 1 = k
      BY <1>1
    <2> QED BY <1>4, <2>1
  <1>6. Len(frames') = Len(frames) - 1
    <2>1. Len(frames') = IF 1 <= Len(frames) - 1 THEN Len(frames) - 1 - 1 + 1 ELSE 0
      BY <1>4
    <2>2. Len(frames) - 1 = IF 1 <= Len(frames) - 1 THEN Len(frames) - 1 - 1 + 1 ELSE 0
      <3>1. \A n \in Nat \ {0} : n - 1 = IF 1 <= n - 1 THEN n - 1 - 1 + 1 ELSE 0
        OBVIOUS
      <3> QED BY ONLY <1>1, <3>1
    <2> QED BY ONLY <2>1, <2>2
  <1> QED BY <1>1, <1>4, <1>5, <1>6

(* A signal is delivered, perhaps on top of handlers for other signals: a  *)
(* new frame for a new arrival.                                            *)
LEMMA DeliverKeeps ==
    ASSUME SigInv, NEW sig \in Sigs, Deliver(sig)
    PROVE  SigInv'
  <1> DEFINE new == Len(arrived) + 1
             L == Len(frames)
  <1>1. /\ arrived \in Seq(Sigs) /\ Len(arrived) \in Nat /\ Len(arrived) < MaxArrivals
        /\ frames \in Seq(Frame) /\ L \in Nat /\ MaxArrivals \in Nat /\ nsig \in Nat /\ idx \in Nat
        /\ handled \in [1..MaxArrivals -> 0..2]
    BY SignalsAssumption DEF SigInv, TypeInv, SigTypeOK, Deliver
  <1>2. arrived' \in Seq(Sigs) /\ Len(arrived') = new /\ new \in 1..MaxArrivals
    BY <1>1 DEF Deliver
  <1>3. /\ frames' \in Seq(Frame) /\ Len(frames') = L + 1
        /\ \A k \in 1..L : frames'[k] = frames[k]
        /\ frames'[L + 1].id = new /\ frames'[L + 1].at = "test"
    <2>1. [id |-> new, at |-> "test", n |-> 0] \in Frame
      BY <1>2 DEF Frame, Steps
    <2> QED BY <1>1, <2>1 DEF Deliver
  <1>4. UNCHANGED <<nsig, signals, hook, Hsig, handlers, hookAt, idx, thread, handled>>
    BY DEF Deliver
  <1>5. lost \subseteq lost' /\ lost' \subseteq lost \cup {"nested"}
    BY DEF Deliver
  <1> HIDE DEF new, L
  <1>6. \A k \in 1..L + 1 : k \in 1..L \/ (k = L + 1 /\ frames'[k].at = "test")
    BY <1>1, <1>3
  <1>7. /\ \A k \in 1..L : k \in 1..L + 1
        /\ \A k \in 1..L + 1 : frames'[k].at # "test" => k \in 1..L
    BY <1>1, <1>6
  <1>8. \A k \in 0..nsig : Live(k)' <=> Live(k)
    <2>1. ASSUME NEW k \in 0..nsig PROVE Unwritten(k)' <=> Unwritten(k)
      BY <1>3, <1>7 DEF Unwritten, L
    <2> QED BY <1>4, <2>1 DEF Live
  <1>9. TypeInv'
    BY <1>1, <1>2, <1>3, <1>4, <1>5 DEF SigInv, TypeInv, SigTypeOK
  <1>10. IdInv'
    <2>1. \A k \in 1..L : frames[k].id \in 1..Len(arrived)
      BY DEF SigInv, IdInv, Deliveries, L
    <2>2. \A k \in 1..L + 1 : frames'[k].id \in 1..new
      <3>1. \A k \in 1..L : frames'[k].id \in 1..new
        BY <1>1, <1>3, <2>1 DEF new
      <3> QED BY <1>2, <1>3, <1>6, <3>1
    <2>3. \A k \in 1..L : frames'[k].id # frames'[L + 1].id
      BY <1>1, <1>3, <2>1 DEF new
    <2>4. \A j, k \in 1..L : j # k => frames'[j].id # frames'[k].id
      BY <1>3 DEF SigInv, IdInv, L
    <2> QED BY <1>2, <1>3, <1>6, <2>2, <2>3, <2>4 DEF IdInv, Deliveries
  <1>11. FrameInv'
    <2> SUFFICES ASSUME "overrun" \notin lost' PROVE FrameInv'
      BY DEF FrameInv
    <2>1. "overrun" \notin lost /\ FrameInv
      BY <1>5 DEF SigInv
    <2> QED BY <1>3, <1>4, <1>7, <2>1 DEF FrameInv, HasRead, L
  <1>12. ExactInv'
    <2> SUFFICES ASSUME lost' = {} PROVE ExactInv'
      BY DEF ExactInv
    <2>1. lost = {} /\ (L # 0 => frames[L].at \notin {"store", "count"})
      <3>1. L # 0 => frames # <<>>
        BY EmptySeq DEF L
      <3> QED BY <1>5, <3>1 DEF Deliver, Top, L
    <2>2. \A k \in 1..L : frames[k].at \notin {"store", "count"}
      BY <1>1, <2>1 DEF SigInv, ExactInv, L
    <2>3. hookAt = "reset" => idx = nsig /\ \A k \in 1..L : frames[k].at \notin {"count", "entry"}
      BY <2>1 DEF SigInv, ExactInv, L
    <2> QED BY <1>3, <1>4, <1>7, <2>2, <2>3 DEF ExactInv
  <1>13. LiveInv'
    <2> SUFFICES ASSUME lost' \cap {"error", "overrun"} = {} PROVE LiveInv'
      BY DEF LiveInv
    <2>1. LiveInv /\ lost \cap {"error", "overrun"} = {}
      BY <1>5 DEF SigInv
    <2>2. ASSUME NEW d \in 1..MaxArrivals PROVE handled[d] <= 1 /\ (d > new => handled[d] = 0)
      BY <1>1, <2>1 DEF LiveInv, new
    <2>3. ASSUME NEW k \in 0..nsig, Live(k)
          PROVE  signals[k] \in 1..new /\ signals[k] # new /\ handled[signals[k]] = 0
      BY <1>1, <2>1, <2>3 DEF LiveInv, Deliveries, new
    <2>4. handled[new] = 0
      BY <1>1, <1>2, <2>1 DEF LiveInv, new
    <2>5. ASSUME NEW f \in 1..L + 1
          PROVE  /\ handled[frames'[f].id] = 0
                 /\ \A k \in 0..nsig : Live(k) /\ signals[k] = frames'[f].id =>
                      frames'[f].at = "count" /\ frames'[f].n = k
      <3>1. CASE f \in 1..L
        BY <1>3, <2>1, <3>1 DEF LiveInv, L
      <3>2. CASE f = L + 1
        BY <1>3, <2>3, <2>4, <3>2
      <3> QED BY <1>6, <3>1, <3>2
    <2>6. Top'.at = "test"
      BY <1>3 DEF Top
    <2>7. \A j, k \in 0..nsig : Live(j) /\ Live(k) /\ j # k => signals[j] # signals[k]
      BY <2>1 DEF LiveInv
    <2> HIDE DEF Live
    <2>8. /\ \A d \in 1..MaxArrivals : handled'[d] <= 1 /\ (d > Len(arrived') => handled'[d] = 0)
          /\ \A k \in 0..nsig' : Live(k)' => signals'[k] \in Deliveries' /\ handled'[signals'[k]] = 0
          /\ \A j, k \in 0..nsig' : Live(j)' /\ Live(k)' /\ j # k => signals'[j] # signals'[k]
      BY <1>2, <1>4, <1>8, <2>2, <2>3, <2>7 DEF Deliveries
    <2>9. /\ \A f \in 1..Len(frames') : handled'[frames'[f].id] = 0
          /\ \A f \in 1..Len(frames') : \A k \in 0..nsig' : Live(k)' /\ signals'[k] = frames'[f].id =>
               frames'[f].at = "count" /\ frames'[f].n = k
      BY <1>3, <1>4, <1>8, <2>5
    <2> QED BY <2>6, <2>8, <2>9 DEF LiveInv
  <1>14. ArmedInv'
    <2>1. lost' \cap {"error", "overrun"} = {} => lost \cap {"error", "overrun"} = {}
      BY <1>5
    <2>2. \A k \in 1..L + 1 : frames'[k].at \in Armed => k \in 1..L
      BY <1>7 DEF Armed, HasRead
    <2> QED BY <1>3, <1>4, <2>1, <2>2 DEF SigInv, ArmedInv, L
  <1>15. KeptInv'
    <2> SUFFICES ASSUME lost' = {}, NEW d \in 1..new
                 PROVE  Running(d)' \/ Called(d)' \/ \E k \in 0..nsig' : Live(k)' /\ signals'[k] = d
      BY <1>2 DEF KeptInv, Deliveries
    <2>1. lost = {}
      BY <1>5
    <2>2. CASE d = new
      BY <1>1, <1>3, <2>2 DEF Running
    <2>3. CASE d # new
      <3>1. Running(d) \/ Called(d) \/ \E k \in 0..nsig : Live(k) /\ signals[k] = d
        BY <1>1, <2>1, <2>3 DEF SigInv, KeptInv, Deliveries, new
      <3>2. Running(d) => Running(d)'
        BY <1>3, <1>7 DEF Running, L
      <3>3. Called(d) => Called(d)'
        BY <1>4 DEF Called
      <3> QED BY <1>4, <1>8, <3>1, <3>2, <3>3
    <2> QED BY <2>2, <2>3
  <1> QED BY <1>9, <1>10, <1>11, <1>12, <1>13, <1>14, <1>15 DEF SigInv

(* A step of the innermost handler up to its reading of nsig as the index. *)
LEMMA MoveKeeps ==
    ASSUME SigInv, frames # <<>>, Top.at \notin HasRead,
           NEW step \in Steps \ {"count", "entry"}, NEW n \in Nat, Goto(step, n),
           UNCHANGED <<arrived, nsig, signals, handlers, hookAt, idx, thread, handled, lost>>,
           hook' \in BOOLEAN, Hsig' \in BOOLEAN, hook => hook',
           step \in Armed => hook' \/ nsig > 0 \/ Top.at \in Armed,
           step = "store" => n = nsig
    PROVE  SigInv'
  <1> DEFINE L == Len(frames)
  <1>1. frames \in Seq(Frame) /\ step \in Steps /\ nsig \in Nat /\ idx \in Nat
    BY DEF SigInv, TypeInv, SigTypeOK
  <1>2. /\ frames' \in Seq(Frame) /\ Len(frames') = L /\ L \in Nat \ {0} /\ frames' # <<>>
        /\ \A k \in 1..L :
             /\ frames'[k].id = frames[k].id
             /\ frames'[k].n = IF k = L THEN n ELSE frames[k].n
             /\ frames'[k].at = IF k = L THEN step ELSE frames[k].at
    BY <1>1, GotoFacts
  <1>3. Top = frames[L] /\ frames[L].at \notin HasRead /\ L \in 1..L
    BY <1>2 DEF Top
  <1> HIDE DEF L
  <1>4. /\ \A k \in 1..L : frames'[k].at \in {"count", "entry"} => k # L /\ frames[k].at = frames'[k].at
        /\ \A k \in 1..L : frames[k].at \in {"count", "entry"} => k # L /\ frames'[k].at = frames[k].at
    BY <1>2, <1>3 DEF HasRead
  <1>5. \A k \in 0..nsig : Live(k)' <=> Live(k)
    <2>1. ASSUME NEW k \in 0..nsig PROVE Unwritten(k)' <=> Unwritten(k)
      BY <1>2, <1>4 DEF Unwritten, L
    <2> QED BY <2>1 DEF Live
  <1>6. TypeInv' /\ IdInv'
    BY <1>2 DEF SigInv, TypeInv, SigTypeOK, IdInv, Deliveries, L
  <1>7. FrameInv'
    <2> SUFFICES ASSUME "overrun" \notin lost PROVE FrameInv'
      BY DEF FrameInv
    <2>1. FrameInv
      BY DEF SigInv
    <2>2. ASSUME NEW k \in 1..L
          PROVE  /\ frames'[k].at \in HasRead => frames'[k].n \in idx..nsig
                 /\ frames'[k].at \in {"count", "entry"} => frames'[k].n < MAX_PENDING_SIGNALS
                 /\ frames'[k].at = "entry" => frames'[k].n < nsig
      <3>1. CASE k = L
        <4>1. frames'[k].at = step /\ frames'[k].n = n /\ idx <= nsig
          BY <1>2, <2>1, <3>1 DEF FrameInv
        <4>2. step \in HasRead => step = "store"
          BY DEF HasRead
        <4> QED BY <1>1, <4>1, <4>2
      <3>2. CASE k # L
        BY <1>2, <2>1, <3>2 DEF FrameInv, L
      <3> QED BY <3>1, <3>2
    <2>3. ASSUME NEW j \in 1..L, NEW k \in 1..L, j < k, frames'[j].at \in HasRead, frames'[k].at \in HasRead
          PROVE  frames'[j].n <= frames'[k].n /\ (frames'[j].at = "entry" => frames'[j].n < frames'[k].n)
      <3>1. frames'[j].at = frames[j].at /\ frames'[j].n = frames[j].n
        BY <1>2, <2>3
      <3>2. CASE k = L
        <4>1. frames'[k].n = nsig
          BY <1>2, <2>3, <3>2 DEF HasRead
        <4>2. frames[j].n \in idx..nsig /\ (frames[j].at = "entry" => frames[j].n < nsig)
          BY <2>1, <2>3, <3>1 DEF FrameInv, L
        <4> QED BY <1>1, <3>1, <4>1, <4>2
      <3>3. CASE k # L
        BY <1>2, <2>1, <2>3, <3>1, <3>3 DEF FrameInv, L
      <3> QED BY <3>2, <3>3
    <2> QED BY <1>2, <2>1, <2>2, <2>3 DEF FrameInv
  <1>8. ExactInv'
    <2>1. step \in {"store", "count"} => n = nsig
      OBVIOUS
    <2> QED BY <1>2, <1>4, <2>1 DEF SigInv, ExactInv, L
  <1>9. LiveInv'
    <2> SUFFICES ASSUME lost \cap {"error", "overrun"} = {} PROVE LiveInv'
      BY DEF LiveInv
    <2>1. LiveInv
      BY DEF SigInv
    <2>2. Top'.at # "count"
      BY <1>2, <1>3 DEF Top
    <2> HIDE DEF Live
    <2>3. /\ \A k \in 0..nsig' : Live(k)' => signals'[k] \in Deliveries' /\ handled'[signals'[k]] = 0
          /\ \A j, k \in 0..nsig' : Live(j)' /\ Live(k)' /\ j # k => signals'[j] # signals'[k]
      BY <1>5, <2>1 DEF LiveInv, Deliveries
    <2>4. ASSUME NEW f \in 1..L, NEW k \in 0..nsig, Live(k)', signals'[k] = frames'[f].id
          PROVE  frames'[f].at = "count" /\ frames'[f].n = k
      <3>1. frames[f].at = "count" /\ frames[f].n = k
        BY <1>2, <1>5, <2>1, <2>4 DEF LiveInv, L
      <3> QED BY <1>2, <1>4, <3>1
    <2>5. \A f \in 1..L : handled'[frames'[f].id] = 0
      BY <1>2, <2>1 DEF LiveInv, L
    <2> QED BY <1>2, <2>1, <2>2, <2>3, <2>4, <2>5 DEF LiveInv
  <1>10. ArmedInv'
    <2> SUFFICES ASSUME lost' \cap {"error", "overrun"} = {}, hookAt' = "off"
                 PROVE  /\ nsig' > 0 => hook'
                        /\ \A k \in 1..Len(frames') : frames'[k].at \in Armed => hook'
      BY DEF ArmedInv
    <2>1. nsig > 0 => hook
      BY DEF SigInv, ArmedInv
    <2>2. ASSUME NEW k \in 1..L, frames'[k].at \in Armed PROVE hook'
      <3>1. CASE k = L
        <4>1. Top.at \in Armed => hook
          BY <1>3 DEF SigInv, ArmedInv, L
        <4> QED BY <1>2, <2>1, <2>2, <3>1, <4>1
      <3>2. CASE k # L
        BY <1>2, <2>2, <3>2 DEF SigInv, ArmedInv, L
      <3> QED BY <3>1, <3>2
    <2> QED BY <1>2, <2>1, <2>2
  <1>11. KeptInv'
    <2>1. \A d \in Deliveries : (Running(d)' <=> Running(d)) /\ (Called(d)' <=> Called(d))
      BY <1>2 DEF Running, Called, L
    <2> HIDE DEF Live
    <2> QED BY <1>5, <2>1 DEF SigInv, KeptInv, Deliveries
  <1> QED BY <1>6, <1>7, <1>8, <1>9, <1>10, <1>11 DEF SigInv

(* The innermost handler finds the table full and returns. *)
LEMMA FullKeeps ==
    ASSUME SigInv, frames # <<>>, Top.at \notin HasRead, nsig >= MAX_PENDING_SIGNALS, Pop,
           lost' = lost \cup {"overflow"},
           UNCHANGED <<arrived, nsig, signals, hook, Hsig, handlers, hookAt, idx, thread, handled>>
    PROVE  SigInv'
  <1> DEFINE L == Len(frames)
  <1>1. frames \in Seq(Frame) /\ nsig \in Nat /\ idx \in Nat /\ MAX_PENDING_SIGNALS \in Nat
    BY SignalsAssumption DEF SigInv, TypeInv, SigTypeOK
  <1>2. /\ frames' \in Seq(Frame) /\ Len(frames') = L - 1 /\ L \in Nat \ {0}
        /\ \A k \in 1..L - 1 : frames'[k] = frames[k]
    BY <1>1, PopFacts
  <1>3. /\ \A k \in 1..L - 1 : k \in 1..L
        /\ \A k \in 1..L : frames[k].at \in HasRead => k \in 1..L - 1
    <2>1. \A k \in 1..L : k = L \/ k \in 1..L - 1
      BY <1>2
    <2>2. frames[L].at \notin HasRead
      BY DEF Top
    <2> QED BY <1>2, <2>1, <2>2
  <1>4. lost \cap {"error", "overrun"} = lost' \cap {"error", "overrun"} /\ lost' # {}
    OBVIOUS
  <1> HIDE DEF L
  <1>5. \A k \in 0..nsig : Live(k)' <=> Live(k)
    <2>1. ASSUME NEW k \in 0..nsig PROVE Unwritten(k)' <=> Unwritten(k)
      BY <1>2, <1>3 DEF Unwritten, HasRead, L
    <2> QED BY <2>1 DEF Live
  <1>6. TypeInv' /\ IdInv'
    BY <1>2, <1>3 DEF SigInv, TypeInv, SigTypeOK, IdInv, Deliveries, L
  <1>7. FrameInv'
    <2>1. FrameInv
      BY DEF SigInv
    <2> QED BY <1>2, <1>3, <2>1 DEF FrameInv, L
  <1>8. LiveInv'
    <2> SUFFICES ASSUME lost \cap {"error", "overrun"} = {} PROVE LiveInv'
      BY <1>4 DEF LiveInv
    <2>1. LiveInv /\ FrameInv /\ "overrun" \notin lost
      BY DEF SigInv
    <2>2. frames' # <<>> => ~(Top'.at = "count" /\ Top'.n = nsig)
      <3> SUFFICES ASSUME frames' # <<>>, Top'.at = "count" PROVE Top'.n # nsig
        OBVIOUS
      <3>1. L - 1 \in 1..L - 1
        BY <1>2, EmptySeq
      <3>2. Top' = frames[L - 1]
        BY <1>2, <3>1 DEF Top
      <3>3. frames[L - 1].n \in idx..nsig /\ frames[L - 1].n < MAX_PENDING_SIGNALS
        BY <1>3, <2>1, <3>1, <3>2 DEF FrameInv, HasRead, L
      <3> QED BY <1>1, <3>2, <3>3
    <2> HIDE DEF Live
    <2>3. /\ \A k \in 0..nsig' : Live(k)' => signals'[k] \in Deliveries' /\ handled'[signals'[k]] = 0
          /\ \A j, k \in 0..nsig' : Live(j)' /\ Live(k)' /\ j # k => signals'[j] # signals'[k]
      BY <1>5, <2>1 DEF LiveInv, Deliveries
    <2>4. \A f \in 1..L - 1 : handled'[frames'[f].id] = 0
      BY <1>2, <1>3, <2>1 DEF LiveInv, L
    <2>5. ASSUME NEW f \in 1..L - 1, NEW k \in 0..nsig, Live(k)', signals'[k] = frames'[f].id
          PROVE  frames'[f].at = "count" /\ frames'[f].n = k
      <3>1. f \in 1..L /\ frames'[f] = frames[f] /\ Live(k) /\ signals[k] = frames[f].id
        BY <1>2, <1>3, <1>5, <2>5
      <3> QED BY <2>1, <3>1 DEF LiveInv, L
    <2> QED BY <1>2, <2>1, <2>2, <2>3, <2>4, <2>5 DEF LiveInv
  <1>9. ArmedInv'
    BY <1>2, <1>3, <1>4 DEF SigInv, ArmedInv, L
  <1> QED BY <1>4, <1>6, <1>7, <1>8, <1>9 DEF SigInv, ExactInv, KeptInv

(* What the innermost handler does with the nsig it read. *)
LEMMA CompareKeeps ==
    ASSUME SigInv, frames # <<>>, Top.at \notin HasRead, nsig > 0 \/ Top.at \in Armed, Compare(nsig),
           UNCHANGED <<arrived, nsig, signals, hook, Hsig, handlers, hookAt, idx, thread, handled>>
    PROVE  SigInv'
  <1>1. nsig \in Nat /\ hook \in BOOLEAN /\ Hsig \in BOOLEAN
    BY DEF SigInv, TypeInv, SigTypeOK
  <1>2. "store" \in Steps \ {"count", "entry"} /\ "index" \in Steps \ {"count", "entry"}
    BY DEF Steps, Armed, HasRead
  <1>3. CASE Goto("store", nsig) /\ UNCHANGED lost
    BY <1>1, <1>2, <1>3, MoveKeeps
  <1>4. CASE Goto("index", nsig) /\ UNCHANGED lost
    BY <1>1, <1>2, <1>4, MoveKeeps
  <1>5. CASE nsig >= MAX_PENDING_SIGNALS /\ Pop /\ lost' = lost \cup {"overflow"}
    BY <1>5, FullKeeps
  <1> QED BY <1>3, <1>4, <1>5 DEF Compare

(* handle looks whether signals are pending already (signal.c:191). *)
LEMMA HandleTestKeeps ==
    ASSUME SigInv, HandleTest
    PROVE  SigInv'
  <1>1. nsig \in Nat /\ hook \in BOOLEAN /\ Hsig \in BOOLEAN
    BY DEF SigInv, TypeInv, SigTypeOK
  <1>2. {"save", "room"} \subseteq Steps \ {"count", "entry"} /\ "save" \notin Armed /\ "test" \notin HasRead
    BY DEF Steps, Armed, HasRead
  <1>3. CASE nsig = 0 /\ Goto("save", 0) /\ UNCHANGED lost
    BY <1>1, <1>2, <1>3, MoveKeeps DEF HandleTest
  <1>4. CASE nsig # 0 /\ Goto("room", 0) /\ UNCHANGED lost
    BY <1>1, <1>2, <1>4, MoveKeeps DEF HandleTest
  <1>5. CASE nsig # 0 /\ Compare(nsig)
    BY <1>1, <1>2, <1>5, CompareKeeps DEF HandleTest
  <1> QED BY <1>3, <1>4, <1>5 DEF HandleTest

(* handle saves the hook in force, or installs its own. *)
LEMMA HandleHookKeeps ==
    ASSUME SigInv, HandleHook
    PROVE  SigInv'
  <1>1. hook \in BOOLEAN /\ Hsig \in BOOLEAN
    BY DEF SigInv, TypeInv, SigTypeOK
  <1>2. {"set", "room"} \subseteq Steps \ {"count", "entry"} /\ "set" \notin Armed
        /\ "set" \notin HasRead /\ "save" \notin HasRead
    BY DEF Steps, Armed, HasRead
  <1>3. CASE Top.at = "save" /\ Hsig' = hook /\ Goto("set", 0) /\ UNCHANGED hook
    BY <1>1, <1>2, <1>3, MoveKeeps DEF HandleHook
  <1>4. CASE Top.at = "set" /\ hook' = TRUE /\ Goto("room", 0) /\ UNCHANGED Hsig
    BY <1>1, <1>2, <1>4, MoveKeeps DEF HandleHook
  <1> QED BY <1>3, <1>4 DEF HandleHook

(* handle compares nsig with the size of the table, or reads it again for   *)
(* the index (signal.c:201-202).                                            *)
LEMMA HandleRoomKeeps ==
    ASSUME SigInv, HandleRoom
    PROVE  SigInv'
  <1>1. nsig \in Nat /\ hook \in BOOLEAN /\ Hsig \in BOOLEAN
    BY DEF SigInv, TypeInv, SigTypeOK
  <1>2. "store" \in Steps \ {"count", "entry"} /\ {"room", "index"} \subseteq Armed
        /\ {"room", "index"} \cap HasRead = {}
    BY DEF Steps, Armed, HasRead
  <1>3. CASE Top.at = "room" /\ Compare(nsig)
    BY <1>2, <1>3, CompareKeeps DEF HandleRoom
  <1>4. CASE Top.at = "index" /\ Goto("store", nsig) /\ UNCHANGED lost
    BY <1>1, <1>2, <1>4, MoveKeeps DEF HandleRoom
  <1> QED BY <1>3, <1>4 DEF HandleRoom

(* Once the table was overrun nothing but types and numbers is promised. *)
LEMMA OverrunKeeps ==
    ASSUME "overrun" \in lost', TypeInv', IdInv'
    PROVE  SigInv'
  BY DEF SigInv, FrameInv, ExactInv, LiveInv, ArmedInv, KeptInv

(* What is known of the innermost handler, once it has read nsig. *)
LEMMA TopFacts ==
    ASSUME SigInv, frames # <<>>, Top.at \in HasRead
    PROVE  /\ frames \in Seq(Frame) /\ Len(frames) \in Nat \ {0} /\ Len(frames) \in 1..Len(frames)
           /\ \A k \in 1..Len(frames) : k = Len(frames) \/ k \in 1..Len(frames) - 1
           /\ \A k \in 1..Len(frames) - 1 : k \in 1..Len(frames) /\ k # Len(frames) /\ k < Len(frames)
           /\ Top = frames[Len(frames)] /\ Top.n \in Nat
           /\ Top.id \in 1..Len(arrived) /\ Top.id \in 1..MaxArrivals
           /\ \A k \in 1..Len(frames) : k # Len(frames) => frames[k].id # Top.id
  <1>1. frames \in Seq(Frame) /\ Len(arrived) \in Nat /\ Len(arrived) <= MaxArrivals /\ MaxArrivals \in Nat
    BY SignalsAssumption DEF SigInv, TypeInv, SigTypeOK
  <1>2. Len(frames) \in Nat \ {0} /\ Len(frames) \in 1..Len(frames)
    BY <1>1, EmptySeq, LenProperties
  <1>3. Top = frames[Len(frames)] /\ Top \in Frame
    BY <1>1, <1>2 DEF Top
  <1>4. Top.n \in Nat /\ Top.id \in 1..Len(arrived)
    BY <1>2, <1>3 DEF Frame, SigInv, IdInv, Deliveries
  <1>5. Top.id \in 1..MaxArrivals
    BY <1>3 DEF Frame
  <1>6. \A k \in 1..Len(frames) : k # Len(frames) => frames[k].id # Top.id
    BY <1>2, <1>3 DEF SigInv, IdInv
  <1> QED BY <1>1, <1>2, <1>3, <1>4, <1>5, <1>6

(* Its place in the table, as long as the table was not overrun. *)
LEMMA PlaceFacts ==
    ASSUME SigInv, frames # <<>>, Top.at \in HasRead, "overrun" \notin lost
    PROVE  /\ idx \in Nat /\ nsig \in Nat /\ idx <= Top.n /\ Top.n <= nsig /\ nsig <= MAX_PENDING_SIGNALS
           /\ MAX_PENDING_SIGNALS \in Nat /\ Top.n \in Nat
           /\ Top.at \in {"count", "entry"} => Top.n < MAX_PENDING_SIGNALS
           /\ Top.at = "entry" => Top.n < nsig
           /\ \A k \in 1..Len(frames) - 1 : frames[k].at \in HasRead =>
                 /\ frames[k].n \in idx..nsig /\ frames[k].n <= Top.n
                 /\ frames[k].at = "entry" => frames[k].n < Top.n
  <1>1. idx \in Nat /\ nsig \in Nat /\ nsig <= MAX_PENDING_SIGNALS /\ MAX_PENDING_SIGNALS \in Nat
    BY SignalsAssumption DEF SigInv, TypeInv, SigTypeOK
  <1>2. FrameInv
    BY DEF SigInv
  <1>3. /\ Top.n \in idx..nsig /\ Top.n \in Nat
        /\ Top.at \in {"count", "entry"} => Top.n < MAX_PENDING_SIGNALS
        /\ Top.at = "entry" => Top.n < nsig
    BY <1>2, TopFacts DEF FrameInv
  <1>4. ASSUME NEW k \in 1..Len(frames) - 1, frames[k].at \in HasRead
        PROVE  /\ frames[k].n \in idx..nsig /\ frames[k].n <= Top.n
               /\ frames[k].at = "entry" => frames[k].n < Top.n
    BY <1>2, <1>4, TopFacts DEF FrameInv
  <1> QED BY <1>1, <1>3, <1>4

(* The innermost handler writes its entry, and has yet to count it. *)
LEMMA EntryFirstKeeps ==
    ASSUME SigInv, frames # <<>>, Top.at = "store", Top.n < MAX_PENDING_SIGNALS, Goto("count", Top.n),
           signals' = [signals EXCEPT ![Top.n] = Top.id],
           lost' = lost \cup (IF hookAt = "reset" THEN {"window"} ELSE {}),
           UNCHANGED <<arrived, nsig, hook, Hsig, handlers, hookAt, idx, thread, handled>>
    PROVE  SigInv'
  <1> DEFINE L == Len(frames)
             n == Top.n
             id == Top.id
  <1>1. Top.at \in HasRead /\ "count" \in Steps
    BY DEF HasRead, Steps, Armed
  <1>2. /\ nsig \in Nat /\ idx \in Nat /\ signals \in [0..MAX_PENDING_SIGNALS - 1 -> 0..MaxArrivals]
        /\ MAX_PENDING_SIGNALS \in Nat /\ MaxArrivals \in Nat
    BY SignalsAssumption DEF SigInv, TypeInv, SigTypeOK
  <1>3. /\ frames' \in Seq(Frame) /\ Len(frames') = L /\ L \in Nat \ {0} /\ frames' # <<>>
        /\ \A k \in 1..L :
             /\ frames'[k].id = frames[k].id /\ frames'[k].n = frames[k].n
             /\ frames'[k].at = IF k = L THEN "count" ELSE frames[k].at
    BY <1>1, TopFacts, GotoFacts
  <1>4. /\ L \in 1..L /\ Top = frames[L] /\ n \in Nat /\ id \in 1..Len(arrived) /\ id \in 1..MaxArrivals
        /\ \A k \in 1..L : k # L => frames[k].id # id
    BY <1>1, TopFacts
  <1>5. n \in 0..MAX_PENDING_SIGNALS - 1 /\ \A k \in 0..MAX_PENDING_SIGNALS - 1 : signals'[k] = IF k = n THEN id ELSE signals[k]
    BY <1>2, <1>4
  <1>6. frames[L].n = n /\ frames[L].id = id /\ frames[L].at = "store"
    BY <1>4
  <1>7. lost \subseteq lost' /\ lost' \subseteq lost \cup {"window"} /\ (lost' = {} => lost = {} /\ hookAt # "reset")
    OBVIOUS
  <1>8. TypeInv' /\ IdInv'
    <2>1. signals' \in [0..MAX_PENDING_SIGNALS - 1 -> 0..MaxArrivals]
      BY <1>2, <1>4
    <2> HIDE DEF L, n, id
    <2>2. TypeInv'
      BY <1>3, <1>7, <2>1 DEF SigInv, TypeInv, SigTypeOK
    <2>3. IdInv'
      BY <1>3 DEF SigInv, IdInv, Deliveries, L
    <2> QED BY <2>2, <2>3
  <1> SUFFICES ASSUME "overrun" \notin lost PROVE SigInv'
    BY <1>7, <1>8, OverrunKeeps
  <1>9. idx <= n /\ n <= nsig /\ nsig <= MAX_PENDING_SIGNALS
    BY <1>1, PlaceFacts
  <1> HIDE DEF L, n, id
  <1>10. \A k \in 0..nsig : Live(k)' <=> Live(k)
    <2>1. \A k \in 1..L : frames'[k].at = "entry" <=> frames[k].at = "entry"
      BY <1>3, <1>6
    <2>2. ASSUME NEW k \in 0..nsig PROVE Unwritten(k)' <=> Unwritten(k)
      BY <1>3, <2>1 DEF Unwritten, L
    <2> QED BY <2>2 DEF Live
  <1>11. \A k \in 0..nsig : Live(k) => k \in 0..MAX_PENDING_SIGNALS - 1 /\ k < nsig
    BY <1>2, <1>9 DEF Live
  <1>12. FrameInv'
    <2>1. \A k \in 1..L : (frames'[k].at \in HasRead <=> frames[k].at \in HasRead)
                          /\ (frames'[k].at = "entry" <=> frames[k].at = "entry")
      BY <1>3, <1>6 DEF HasRead
    <2>2. ASSUME NEW k \in 1..L
          PROVE  /\ frames'[k].at \in HasRead => frames'[k].n \in idx..nsig
                 /\ frames'[k].at \in {"count", "entry"} => frames'[k].n < MAX_PENDING_SIGNALS
                 /\ frames'[k].at = "entry" => frames'[k].n < nsig
      <3>1. CASE k = L
        BY <1>2, <1>3, <1>4, <1>5, <1>6, <1>9, <3>1
      <3>2. CASE k # L
        BY <1>3, <3>2 DEF SigInv, FrameInv, L
      <3> QED BY <3>1, <3>2
    <2>3. \A j, k \in 1..L :
             j < k /\ frames[j].at \in HasRead /\ frames[k].at \in HasRead =>
                 frames[j].n <= frames[k].n /\ (frames[j].at = "entry" => frames[j].n < frames[k].n)
      BY DEF SigInv, FrameInv, L
    <2>4. idx <= nsig
      BY <1>2, <1>4, <1>9
    <2> QED BY <1>3, <2>1, <2>2, <2>3, <2>4 DEF FrameInv
  <1>13. ExactInv'
    BY <1>3, <1>6, <1>7 DEF SigInv, ExactInv, L
  <1>14. LiveInv'
    <2> SUFFICES ASSUME lost \cap {"error", "overrun"} = {} PROVE LiveInv'
      BY <1>7 DEF LiveInv
    <2>1. LiveInv /\ id \in Deliveries
      BY <1>4 DEF SigInv, Deliveries
    <2>2. handled[id] = 0 /\ \A k \in 0..nsig : Live(k) => signals[k] # id
      BY <1>4, <1>6, <2>1 DEF LiveInv, L
    <2> HIDE DEF Live
    <2>3. \A k \in 0..nsig : Live(k)' => signals'[k] \in Deliveries' /\ handled'[signals'[k]] = 0
      BY <1>5, <1>10, <1>11, <2>1, <2>2 DEF LiveInv, Deliveries
    <2>4. \A j, k \in 0..nsig : Live(j)' /\ Live(k)' /\ j # k => signals'[j] # signals'[k]
      BY <1>5, <1>10, <1>11, <2>1, <2>2 DEF LiveInv
    <2>5. \A f \in 1..L : handled'[frames'[f].id] = 0
      BY <1>3, <2>1 DEF LiveInv, L
    <2>6. ASSUME NEW f \in 1..L, NEW k \in 0..nsig, Live(k)', signals'[k] = frames'[f].id
          PROVE  frames'[f].at = "count" /\ frames'[f].n = k
      <3>1. CASE k = n
        <4>1. f = L
          BY <1>3, <1>4, <1>5, <2>6, <3>1
        <4> QED BY <1>3, <1>6, <3>1, <4>1
      <3>2. CASE k # n
        <4>1. Live(k) /\ signals[k] = frames[f].id
          BY <1>3, <1>5, <1>10, <1>11, <2>6, <3>2
        <4>2. frames[f].at = "count" /\ frames[f].n = k
          BY <2>1, <4>1 DEF LiveInv, L
        <4> QED BY <1>3, <1>6, <4>2
      <3> QED BY <3>1, <3>2
    <2>7. Top'.id = id /\ Top'.n = n /\ signals'[n] = id
      BY <1>3, <1>4, <1>5, <1>6 DEF Top
    <2> QED BY <1>3, <2>1, <2>3, <2>4, <2>5, <2>6, <2>7 DEF LiveInv
  <1>15. ArmedInv'
    <2>1. \A k \in 1..L : frames'[k].at \in Armed => frames[k].at \in Armed
      BY <1>3, <1>6 DEF Armed, HasRead
    <2> QED BY <1>3, <1>7, <2>1 DEF SigInv, ArmedInv, L
  <1>16. KeptInv'
    <2> SUFFICES ASSUME lost' = {} PROVE KeptInv'
      BY DEF KeptInv
    <2>1. lost = {} /\ n = nsig
      BY <1>4, <1>6, <1>7 DEF SigInv, ExactInv, L
    <2>2. \A d \in Deliveries : (Running(d)' <=> Running(d)) /\ (Called(d)' <=> Called(d))
      BY <1>3 DEF Running, Called, L
    <2> HIDE DEF Live
    <2>3. \A k \in 0..nsig : Live(k) => signals'[k] = signals[k]
      BY <1>5, <1>11, <2>1
    <2> QED BY <1>10, <2>1, <2>2, <2>3 DEF SigInv, KeptInv, Deliveries
  <1> QED BY <1>8, <1>12, <1>13, <1>14, <1>15, <1>16 DEF SigInv

(* The innermost handler counts its entry, and has yet to write it. *)
LEMMA CountFirstKeeps ==
    ASSUME SigInv, frames # <<>>, Top.at = "store", Goto("entry", Top.n),
           nsig' = Top.n + 1, signals' = signals,
           lost' = lost \cup (IF Top.n < MAX_PENDING_SIGNALS THEN {} ELSE {"overrun"})
                        \cup (IF hookAt = "reset" THEN {"window"} ELSE {}),
           UNCHANGED <<arrived, hook, Hsig, handlers, hookAt, idx, thread, handled>>
    PROVE  SigInv'
  <1> DEFINE L == Len(frames)
             n == Top.n
  <1>1. Top.at \in HasRead /\ "entry" \in Steps
    BY DEF HasRead, Steps, Armed
  <1>2. nsig \in Nat /\ idx \in Nat /\ MAX_PENDING_SIGNALS \in Nat
    BY SignalsAssumption DEF SigInv, TypeInv, SigTypeOK
  <1>3. /\ frames' \in Seq(Frame) /\ Len(frames') = L /\ L \in Nat \ {0} /\ frames' # <<>>
        /\ \A k \in 1..L :
             /\ frames'[k].id = frames[k].id /\ frames'[k].n = frames[k].n
             /\ frames'[k].at = IF k = L THEN "entry" ELSE frames[k].at
    BY <1>1, TopFacts, GotoFacts
  <1>4. /\ L \in 1..L /\ Top = frames[L] /\ n \in Nat /\ \A k \in 1..L : k = L \/ k \in 1..L - 1
    BY <1>1, TopFacts
  <1>5. frames[L].n = n /\ frames[L].at = "store" /\ nsig' = n + 1 /\ nsig' \in Nat /\ nsig' > 0
    BY <1>4
  <1>6. /\ lost \subseteq lost' /\ lost' \subseteq lost \cup {"window", "overrun"}
        /\ lost' = {} => lost = {} /\ hookAt # "reset"
        /\ "overrun" \notin lost' => n < MAX_PENDING_SIGNALS
    OBVIOUS
  <1> HIDE DEF L, n
  <1>7. TypeInv' /\ IdInv'
    <2>1. "overrun" \notin lost' => nsig' <= MAX_PENDING_SIGNALS
      BY <1>2, <1>4, <1>5, <1>6
    <2>2. TypeInv'
      BY <1>3, <1>5, <1>6, <2>1 DEF SigInv, TypeInv, SigTypeOK
    <2>3. IdInv'
      BY <1>3 DEF SigInv, IdInv, Deliveries, L
    <2> QED BY <2>2, <2>3
  <1> SUFFICES ASSUME "overrun" \notin lost' PROVE SigInv'
    BY <1>7, OverrunKeeps
  <1>8. /\ "overrun" \notin lost /\ idx <= n /\ n <= nsig /\ nsig <= MAX_PENDING_SIGNALS /\ n < MAX_PENDING_SIGNALS
        /\ \A k \in 1..L - 1 : frames[k].at \in HasRead =>
              /\ frames[k].n \in idx..nsig /\ frames[k].n <= n
              /\ frames[k].at = "entry" => frames[k].n < n
    BY <1>1, <1>6, PlaceFacts DEF L, n
  <1>9. \A k \in 0..nsig' : Live(k)' => Live(k) /\ k \in 0..nsig /\ k < n
    <2> SUFFICES ASSUME NEW k \in 0..nsig', Live(k)' PROVE Live(k) /\ k \in 0..nsig /\ k < n
      OBVIOUS
    <2>1. k \in idx..n /\ ~Unwritten(k)'
      BY <1>2, <1>4, <1>5 DEF Live
    <2>2. k # n
      BY <1>3, <1>4, <1>5, <2>1 DEF Unwritten
    <2>3. ~Unwritten(k)
      BY <1>3, <1>5, <2>1 DEF Unwritten, L
    <2> QED BY <1>2, <1>4, <1>8, <2>1, <2>2, <2>3 DEF Live
  <1>10. FrameInv'
    <2>1. ASSUME NEW k \in 1..L
          PROVE  /\ frames'[k].at \in HasRead => frames'[k].n \in idx..nsig'
                 /\ frames'[k].at \in {"count", "entry"} => frames'[k].n < MAX_PENDING_SIGNALS
                 /\ frames'[k].at = "entry" => frames'[k].n < nsig'
      <3>1. CASE k = L
        BY <1>2, <1>3, <1>4, <1>5, <1>8, <3>1
      <3>2. CASE k # L
        <4>1. k \in 1..L - 1 /\ frames'[k].at = frames[k].at /\ frames'[k].n = frames[k].n
          BY <1>3, <1>4, <3>2
        <4>2. frames[k].at \in HasRead => frames[k].n \in idx..n
          BY <1>2, <1>4, <1>8, <4>1
        <4>3. frames[k].at = "entry" => frames[k].n < n /\ frames[k].n \in Nat
          BY <1>2, <1>8, <4>1 DEF HasRead
        <4>4. frames[k].at \in {"count", "entry"} => frames[k].n < MAX_PENDING_SIGNALS
          BY <1>8 DEF SigInv, FrameInv, L
        <4> QED BY <1>2, <1>4, <1>5, <4>1, <4>2, <4>3, <4>4
      <3> QED BY <3>1, <3>2
    <2>2. ASSUME NEW j \in 1..L, NEW k \in 1..L, j < k, frames'[j].at \in HasRead, frames'[k].at \in HasRead
          PROVE  frames'[j].n <= frames'[k].n /\ (frames'[j].at = "entry" => frames'[j].n < frames'[k].n)
      <3>1. j # L
        BY <1>3, <2>2
      <3>2. frames[j].at \in HasRead /\ frames[k].at \in HasRead
        BY <1>1, <1>3, <1>4, <2>2, <3>1
      <3>3. frames[j].n <= frames[k].n /\ (frames[j].at = "entry" => frames[j].n < frames[k].n)
        BY <1>8, <2>2, <3>2 DEF SigInv, FrameInv, L
      <3> QED BY <1>3, <3>1, <3>3
    <2>3. idx <= nsig'
      BY <1>2, <1>4, <1>5, <1>8
    <2> QED BY <1>3, <2>1, <2>2, <2>3 DEF FrameInv
  <1>11. ExactInv'
    <2> SUFFICES ASSUME lost' = {} PROVE \A k \in 1..L : frames'[k].at \notin {"store", "count"}
      BY <1>3, <1>6 DEF ExactInv
    <2>1. \A k \in 1..L : frames[k].at \in {"store", "count"} => k = L
      BY <1>6 DEF SigInv, ExactInv, L
    <2> QED BY <1>3, <2>1
  <1>12. LiveInv'
    <2> SUFFICES ASSUME lost \cap {"error", "overrun"} = {} PROVE LiveInv'
      BY <1>6 DEF LiveInv
    <2>1. LiveInv
      BY DEF SigInv
    <2> HIDE DEF Live
    <2>2. /\ \A k \in 0..nsig' : Live(k)' => signals'[k] \in Deliveries' /\ handled'[signals'[k]] = 0
          /\ \A j, k \in 0..nsig' : Live(j)' /\ Live(k)' /\ j # k => signals'[j] # signals'[k]
      BY <1>9, <2>1 DEF LiveInv, Deliveries
    <2>3. \A f \in 1..L : handled'[frames'[f].id] = 0
      BY <1>3, <2>1 DEF LiveInv, L
    <2>4. ASSUME NEW f \in 1..L, NEW k \in 0..nsig', Live(k)', signals'[k] = frames'[f].id
          PROVE  frames'[f].at = "count" /\ frames'[f].n = k
      <3>1. frames[f].at = "count" /\ frames[f].n = k
        BY <1>3, <1>9, <2>1, <2>4 DEF LiveInv, L
      <3> QED BY <1>3, <1>5, <3>1
    <2>5. Top'.at = "entry"
      BY <1>3, <1>4 DEF Top
    <2> QED BY <1>3, <2>1, <2>2, <2>3, <2>4, <2>5 DEF LiveInv
  <1>13. ArmedInv'
    <2>1. \A k \in 1..L : frames'[k].at \in Armed => frames[k].at \in Armed
      BY <1>3, <1>5 DEF Armed, HasRead
    <2>2. frames[L].at \in Armed
      BY <1>5 DEF Armed, HasRead
    <2> QED BY <1>3, <1>4, <1>6, <2>1, <2>2 DEF SigInv, ArmedInv, L
  <1>14. KeptInv'
    <2> SUFFICES ASSUME lost' = {} PROVE KeptInv'
      BY DEF KeptInv
    <2>1. lost = {} /\ n = nsig
      BY <1>4, <1>5, <1>6 DEF SigInv, ExactInv, L
    <2>2. \A d \in Deliveries : (Running(d)' <=> Running(d)) /\ (Called(d)' <=> Called(d))
      BY <1>3 DEF Running, Called, L
    <2>3. ASSUME NEW k \in 0..nsig, Live(k) PROVE k \in 0..nsig' /\ Live(k)'
      <3>1. k \in idx..nsig - 1 /\ ~Unwritten(k)
        BY <2>3 DEF Live
      <3>2. ~Unwritten(k)'
        BY <1>2, <1>3, <1>4, <1>5, <2>1, <3>1 DEF Unwritten, L
      <3> QED BY <1>2, <1>5, <2>1, <3>1, <3>2 DEF Live
    <2> HIDE DEF Live
    <2> QED BY <2>1, <2>2, <2>3 DEF SigInv, KeptInv, Deliveries
  <1> QED BY <1>7, <1>10, <1>11, <1>12, <1>13, <1>14 DEF SigInv

(* The innermost handler has counted its entry, writes it and returns. *)
LEMMA EntryLastKeeps ==
    ASSUME SigInv, frames # <<>>, Top.at = "entry", Top.n < MAX_PENDING_SIGNALS, Pop,
           signals' = [signals EXCEPT ![Top.n] = Top.id],
           UNCHANGED <<arrived, nsig, hook, Hsig, handlers, hookAt, idx, thread, handled, lost>>
    PROVE  SigInv'
  <1> DEFINE L == Len(frames)
             n == Top.n
             id == Top.id
  <1>1. Top.at \in HasRead
    BY DEF HasRead
  <1>2. /\ nsig \in Nat /\ idx \in Nat /\ signals \in [0..MAX_PENDING_SIGNALS - 1 -> 0..MaxArrivals]
        /\ MAX_PENDING_SIGNALS \in Nat /\ MaxArrivals \in Nat /\ frames \in Seq(Frame)
    BY SignalsAssumption DEF SigInv, TypeInv, SigTypeOK
  <1>3. /\ frames' \in Seq(Frame) /\ Len(frames') = L - 1 /\ L \in Nat \ {0}
        /\ \A k \in 1..L - 1 : frames'[k] = frames[k]
    BY <1>2, PopFacts
  <1>4. /\ L \in 1..L /\ Top = frames[L] /\ n \in Nat /\ id \in 1..Len(arrived) /\ id \in 1..MaxArrivals
        /\ \A k \in 1..L : k # L => frames[k].id # id
        /\ \A k \in 1..L : k = L \/ k \in 1..L - 1
        /\ \A k \in 1..L - 1 : k \in 1..L /\ k # L
    BY <1>1, TopFacts
  <1>5. n \in 0..MAX_PENDING_SIGNALS - 1 /\ \A k \in 0..MAX_PENDING_SIGNALS - 1 : signals'[k] = IF k = n THEN id ELSE signals[k]
    BY <1>2, <1>4
  <1>6. frames[L].n = n /\ frames[L].id = id /\ frames[L].at = "entry"
    BY <1>4
  <1>7. TypeInv' /\ IdInv'
    <2>1. signals' \in [0..MAX_PENDING_SIGNALS - 1 -> 0..MaxArrivals]
      <3>1. id \in 0..MaxArrivals /\ signals' = [signals EXCEPT ![n] = id]
        BY <1>2, <1>4
      <3> HIDE DEF n, id
      <3> QED BY <1>2, <1>5, <3>1
    <2> HIDE DEF L, n, id
    <2>2. TypeInv'
      BY <1>3, <2>1 DEF SigInv, TypeInv, SigTypeOK
    <2>3. IdInv'
      BY <1>3, <1>4 DEF SigInv, IdInv, Deliveries, L
    <2> QED BY <2>2, <2>3
  <1> SUFFICES ASSUME "overrun" \notin lost PROVE SigInv'
    BY <1>7, OverrunKeeps
  <1>8. /\ idx <= n /\ n < nsig /\ nsig <= MAX_PENDING_SIGNALS
        /\ \A k \in 1..L - 1 : frames[k].at \in HasRead =>
              /\ frames[k].n \in idx..nsig /\ frames[k].n <= n
              /\ frames[k].at = "entry" => frames[k].n < n
    BY <1>1, PlaceFacts
  <1> HIDE DEF L, n, id
  <1>9. \A k \in 0..nsig : (Live(k)' <=> (Live(k) \/ k = n)) /\ (k = n => ~Live(k))
    <2>1. ASSUME NEW k \in 0..nsig, k = n PROVE ~Unwritten(k)'
      <3> SUFFICES ASSUME NEW f \in 1..L - 1, frames[f].at = "entry", frames[f].n = n PROVE FALSE
        BY <1>3, <2>1 DEF Unwritten
      <3> QED BY <1>4, <1>8 DEF HasRead
    <2>2. Unwritten(n)
      BY <1>4, <1>6 DEF Unwritten, L
    <2>3. ASSUME NEW k \in 0..nsig, k # n PROVE Unwritten(k)' <=> Unwritten(k)
      BY <1>3, <1>4, <1>6, <2>3 DEF Unwritten, L
    <2>4. n \in idx..nsig - 1
      BY <1>2, <1>4, <1>8
    <2>5. ASSUME NEW k \in 0..nsig PROVE (Live(k)' <=> (Live(k) \/ k = n)) /\ (k = n => ~Live(k))
      <3>1. CASE k = n
        BY <2>1, <2>2, <2>4, <3>1 DEF Live
      <3>2. CASE k # n
        BY <2>3, <3>2 DEF Live
      <3> QED BY <3>1, <3>2
    <2> QED BY <2>5
  <1>10. \A k \in 0..nsig : Live(k) => k \in 0..MAX_PENDING_SIGNALS - 1
    BY <1>2, <1>8 DEF Live
  <1>11. FrameInv'
    BY <1>3, <1>4 DEF SigInv, FrameInv, L
  <1>12. ExactInv'
    <2> SUFFICES ASSUME lost = {} PROVE ExactInv'
      BY DEF ExactInv
    <2>1. \A k \in 1..L : /\ frames[k].at \in {"store", "count"} => k = L
                          /\ hookAt = "reset" => idx = nsig /\ frames[k].at \notin {"count", "entry"}
      BY DEF SigInv, ExactInv, L
    <2>2. hookAt # "reset"
      BY <1>4, <1>6, <2>1
    <2> QED BY <1>3, <1>4, <2>1, <2>2 DEF ExactInv
  <1>13. LiveInv'
    <2> SUFFICES ASSUME lost \cap {"error", "overrun"} = {} PROVE LiveInv'
      BY DEF LiveInv
    <2>1. LiveInv /\ id \in Deliveries
      BY <1>4 DEF SigInv, Deliveries
    <2>2. handled[id] = 0 /\ \A k \in 0..nsig : Live(k) => signals[k] # id
      BY <1>4, <1>6, <2>1 DEF LiveInv, L
    <2> HIDE DEF Live
    <2>3. \A k \in 0..nsig : Live(k)' => signals'[k] \in Deliveries' /\ handled'[signals'[k]] = 0
      BY <1>5, <1>9, <1>10, <2>1, <2>2 DEF LiveInv, Deliveries
    <2>4. \A j, k \in 0..nsig : Live(j)' /\ Live(k)' /\ j # k => signals'[j] # signals'[k]
      BY <1>5, <1>9, <1>10, <2>1, <2>2 DEF LiveInv
    <2>5. \A f \in 1..L - 1 : handled'[frames'[f].id] = 0
      BY <1>3, <1>4, <2>1 DEF LiveInv, L
    <2>6. ASSUME NEW f \in 1..L - 1, NEW k \in 0..nsig, Live(k)', signals'[k] = frames'[f].id
          PROVE  frames'[f].at = "count" /\ frames'[f].n = k
      <3>1. frames'[f] = frames[f] /\ frames[f].id # id /\ f \in 1..L
        BY <1>3, <1>4
      <3>2. k # n
        BY <1>5, <2>6, <3>1
      <3>3. Live(k) /\ signals[k] = frames[f].id
        BY <1>5, <1>9, <1>10, <2>6, <3>1, <3>2
      <3> QED BY <2>1, <3>1, <3>3 DEF LiveInv, L
    <2>7. frames' # <<>> => ~(Top'.at = "count" /\ Top'.n = nsig)
      <3> SUFFICES ASSUME frames' # <<>>, Top'.at = "count" PROVE Top'.n # nsig
        OBVIOUS
      <3>1. L - 1 \in 1..L - 1
        BY <1>3, EmptySeq
      <3>2. Top' = frames[L - 1]
        BY <1>3, <3>1 DEF Top
      <3> QED BY <1>2, <1>4, <1>8, <3>1, <3>2 DEF HasRead
    <2> QED BY <1>3, <2>1, <2>3, <2>4, <2>5, <2>6, <2>7 DEF LiveInv
  <1>14. ArmedInv'
    BY <1>3, <1>4 DEF SigInv, ArmedInv, L
  <1>15. KeptInv'
    <2> SUFFICES ASSUME lost = {}, NEW d \in Deliveries
                 PROVE  Running(d)' \/ Called(d) \/ \E k \in 0..nsig : Live(k)' /\ signals'[k] = d
      BY DEF KeptInv, Deliveries, Called
    <2>0. n \in 0..nsig
      BY <1>2, <1>4, <1>8
    <2>1. \A k \in 0..nsig : k = n => Live(k)' /\ signals'[k] = id
      BY <1>5, <1>9
    <2>2. Running(d) => Running(d)' \/ d = id
      BY <1>3, <1>4, <1>6 DEF Running, L
    <2> HIDE DEF Live
    <2>3. \A k \in 0..nsig : Live(k) => Live(k)' /\ signals'[k] = signals[k]
      BY <1>5, <1>9, <1>10
    <2>4. Running(d) \/ Called(d) \/ \E k \in 0..nsig : Live(k) /\ signals[k] = d
      BY DEF SigInv, KeptInv
    <2> QED BY <2>0, <2>1, <2>2, <2>3, <2>4
  <1> QED BY <1>7, <1>11, <1>12, <1>13, <1>14, <1>15 DEF SigInv

(* The innermost handler has written its entry, counts it and returns. *)
LEMMA CountLastKeeps ==
    ASSUME SigInv, frames # <<>>, Top.at = "count", Pop, nsig' = Top.n + 1,
           UNCHANGED <<arrived, signals, hook, Hsig, handlers, hookAt, idx, thread, handled, lost>>
    PROVE  SigInv'
  <1> DEFINE L == Len(frames)
             n == Top.n
             id == Top.id
  <1>1. Top.at \in HasRead
    BY DEF HasRead
  <1>2. /\ nsig \in Nat /\ idx \in Nat /\ MAX_PENDING_SIGNALS \in Nat /\ MaxArrivals \in Nat
        /\ frames \in Seq(Frame)
    BY SignalsAssumption DEF SigInv, TypeInv, SigTypeOK
  <1>3. /\ frames' \in Seq(Frame) /\ Len(frames') = L - 1 /\ L \in Nat \ {0}
        /\ \A k \in 1..L - 1 : frames'[k] = frames[k]
    BY <1>2, PopFacts
  <1>4. /\ L \in 1..L /\ Top = frames[L] /\ n \in Nat /\ id \in 1..Len(arrived) /\ id \in 1..MaxArrivals
        /\ \A k \in 1..L : k # L => frames[k].id # id
        /\ \A k \in 1..L : k = L \/ k \in 1..L - 1
        /\ \A k \in 1..L - 1 : k \in 1..L /\ k # L
    BY <1>1, TopFacts
  <1>5. frames[L].n = n /\ frames[L].id = id /\ frames[L].at = "count" /\ nsig' = n + 1 /\ nsig' \in Nat
    BY <1>4
  <1>6. "overrun" \notin lost =>
          /\ idx <= n /\ n <= nsig /\ n < MAX_PENDING_SIGNALS
          /\ \A k \in 1..L - 1 : frames[k].at \in HasRead =>
                /\ frames[k].n \in idx..nsig /\ frames[k].n <= n
                /\ frames[k].at = "entry" => frames[k].n < n
    BY <1>1, PlaceFacts
  <1> HIDE DEF L, n, id
  <1>7. TypeInv' /\ IdInv'
    <2>1. "overrun" \notin lost => nsig' <= MAX_PENDING_SIGNALS
      BY <1>2, <1>4, <1>5, <1>6
    <2>2. TypeInv'
      BY <1>3, <1>5, <2>1 DEF SigInv, TypeInv, SigTypeOK
    <2>3. IdInv'
      BY <1>3, <1>4 DEF SigInv, IdInv, Deliveries, L
    <2> QED BY <2>2, <2>3
  <1> SUFFICES ASSUME "overrun" \notin lost PROVE SigInv'
    BY <1>7, OverrunKeeps
  <1>8. \A k \in 0..nsig' : Live(k)' => k \in 0..nsig /\ (Live(k) \/ (k = n /\ n = nsig))
    <2> SUFFICES ASSUME NEW k \in 0..nsig', Live(k)' PROVE k \in 0..nsig /\ (Live(k) \/ (k = n /\ n = nsig))
      OBVIOUS
    <2>1. k \in idx..n /\ ~Unwritten(k)'
      BY <1>2, <1>4, <1>5 DEF Live
    <2>2. ~Unwritten(k)
      BY <1>3, <1>4, <1>5, <2>1 DEF Unwritten, L
    <2> QED BY <1>2, <1>4, <1>6, <2>1, <2>2 DEF Live
  <1>9. FrameInv'
    <2>1. ASSUME NEW k \in 1..L - 1
          PROVE  /\ frames[k].at \in HasRead => frames[k].n \in idx..nsig'
                 /\ frames[k].at \in {"count", "entry"} => frames[k].n < MAX_PENDING_SIGNALS
                 /\ frames[k].at = "entry" => frames[k].n < nsig'
      <3>1. frames[k].at \in HasRead => frames[k].n \in idx..n
        BY <1>2, <1>4, <1>6
      <3>2. frames[k].at \in {"count", "entry"} => frames[k].n < MAX_PENDING_SIGNALS
        BY <1>4 DEF SigInv, FrameInv, L
      <3> QED BY <1>2, <1>4, <1>5, <3>1, <3>2 DEF HasRead
    <2>2. \A j, k \in 1..L - 1 :
             j < k /\ frames[j].at \in HasRead /\ frames[k].at \in HasRead =>
                 frames[j].n <= frames[k].n /\ (frames[j].at = "entry" => frames[j].n < frames[k].n)
      BY <1>4 DEF SigInv, FrameInv, L
    <2>3. idx <= nsig'
      BY <1>2, <1>4, <1>5, <1>6
    <2> QED BY <1>3, <2>1, <2>2, <2>3 DEF FrameInv
  <1>10. ExactInv'
    <2> SUFFICES ASSUME lost = {} PROVE ExactInv'
      BY DEF ExactInv
    <2>1. \A k \in 1..L : /\ frames[k].at \in {"store", "count"} => k = L
                          /\ hookAt = "reset" => frames[k].at \notin {"count", "entry"}
      BY DEF SigInv, ExactInv, L
    <2>2. hookAt # "reset"
      BY <1>4, <1>5, <2>1
    <2> QED BY <1>3, <1>4, <2>1, <2>2 DEF ExactInv
  <1>11. LiveInv'
    <2> SUFFICES ASSUME lost \cap {"error", "overrun"} = {} PROVE LiveInv'
      BY DEF LiveInv
    <2>1. LiveInv /\ id \in Deliveries
      BY <1>4 DEF SigInv, Deliveries
    <2>2. /\ handled[id] = 0 /\ (n = nsig => signals[n] = id)
          /\ \A k \in 0..nsig : Live(k) /\ signals[k] = id => k = n
      BY <1>4, <1>5, <2>1 DEF LiveInv, L, n, id
    <2>3. n = nsig => ~Live(n)
      BY <1>2 DEF Live
    <2> HIDE DEF Live
    <2>4. \A k \in 0..nsig' : Live(k)' => signals'[k] \in Deliveries' /\ handled'[signals'[k]] = 0
      BY <1>8, <2>1, <2>2 DEF LiveInv, Deliveries
    <2>5. ASSUME NEW j \in 0..nsig', NEW k \in 0..nsig', Live(j)', Live(k)', j # k
          PROVE  signals'[j] # signals'[k]
      <3>1. /\ j \in 0..nsig /\ (Live(j) \/ (j = n /\ n = nsig))
            /\ k \in 0..nsig /\ (Live(k) \/ (k = n /\ n = nsig))
        BY <1>8, <2>5
      <3>2. CASE Live(j) /\ Live(k)
        BY <2>1, <2>5, <3>1, <3>2 DEF LiveInv
      <3>3. CASE j = n /\ n = nsig
        BY <2>2, <2>5, <3>1, <3>3
      <3>4. CASE k = n /\ n = nsig
        BY <2>2, <2>5, <3>1, <3>4
      <3> QED BY <3>1, <3>2, <3>3, <3>4
    <2>6. \A f \in 1..L - 1 : handled'[frames'[f].id] = 0
      BY <1>3, <1>4, <2>1 DEF LiveInv, L
    <2>7. ASSUME NEW f \in 1..L - 1, NEW k \in 0..nsig', Live(k)', signals'[k] = frames'[f].id
          PROVE  frames'[f].at = "count" /\ frames'[f].n = k
      <3>1. frames'[f] = frames[f] /\ frames[f].id # id /\ f \in 1..L
        BY <1>3, <1>4
      <3>2. k \in 0..nsig /\ Live(k) /\ signals[k] = frames[f].id
        BY <1>8, <2>2, <2>7, <3>1
      <3> QED BY <2>1, <3>1, <3>2 DEF LiveInv, L
    <2>8. frames' # <<>> => ~(Top'.at = "count" /\ Top'.n = nsig')
      <3> SUFFICES ASSUME frames' # <<>>, Top'.at = "count" PROVE Top'.n # nsig'
        OBVIOUS
      <3>1. L - 1 \in 1..L - 1
        BY <1>3, EmptySeq
      <3>2. Top' = frames[L - 1]
        BY <1>3, <3>1 DEF Top
      <3>3. frames[L - 1].n \in idx..nsig /\ frames[L - 1].n <= n
        BY <1>6, <3>1, <3>2 DEF HasRead
      <3> QED BY <1>2, <1>4, <1>5, <3>2, <3>3
    <2> QED BY <1>3, <2>1, <2>4, <2>5, <2>6, <2>7, <2>8 DEF LiveInv
  <1>12. ArmedInv'
    <2>1. frames[L].at \in Armed
      BY <1>5 DEF Armed, HasRead
    <2> QED BY <1>3, <1>4, <2>1 DEF SigInv, ArmedInv, L
  <1>13. KeptInv'
    <2> SUFFICES ASSUME lost = {}, NEW d \in Deliveries
                 PROVE  Running(d)' \/ Called(d) \/ \E k \in 0..nsig' : Live(k)' /\ signals[k] = d
      BY DEF KeptInv, Deliveries, Called
    <2>1. n = nsig
      BY <1>4, <1>5 DEF SigInv, ExactInv, L
    <2>2. ASSUME NEW k \in 0..nsig, Live(k) \/ k = n PROVE k \in 0..nsig' /\ Live(k)'
      <3>1. ~Unwritten(k)'
        <4>1. CASE k = n
          BY <1>2, <1>3, <1>4, <1>6, <4>1 DEF Unwritten, HasRead
        <4>2. CASE k # n
          BY <1>3, <1>4, <2>2, <4>2 DEF Live, Unwritten, L
        <4> QED BY <4>1, <4>2
      <3>2. k \in idx..n
        BY <1>2, <1>4, <1>6, <2>1, <2>2 DEF Live
      <3> QED BY <1>2, <1>4, <1>5, <2>1, <3>1, <3>2 DEF Live
    <2>3. signals[n] = id
      BY <2>1 DEF SigInv, LiveInv, n, id
    <2>4. Running(d) => Running(d)' \/ d = id
      BY <1>3, <1>4, <1>5 DEF Running, L
    <2>5. n \in 0..nsig
      BY <1>2, <2>1
    <2> HIDE DEF Live
    <2> QED BY <2>2, <2>3, <2>4, <2>5 DEF SigInv, KeptInv
  <1> QED BY <1>7, <1>9, <1>10, <1>11, <1>12, <1>13 DEF SigInv

(* A write past the end of the table, or of the counter that leads there.  *)
LEMMA BeyondKeeps ==
    ASSUME SigInv, frames # <<>>, Top.at \in HasRead, "overrun" \in lost',
           lost' \subseteq lost \cup {"overrun", "window"}, nsig' \in Nat, signals' = signals,
           Pop \/ Goto("count", Top.n),
           UNCHANGED <<arrived, hook, Hsig, handlers, hookAt, idx, thread, handled>>
    PROVE  SigInv'
  <1>1. frames \in Seq(Frame) /\ Top.n \in Nat /\ "count" \in Steps
    BY TopFacts DEF Steps, Armed, HasRead
  <1>2. CASE Pop
    <2>1. /\ frames' \in Seq(Frame) /\ Len(frames') = Len(frames) - 1 /\ Len(frames) \in Nat \ {0}
          /\ \A k \in 1..Len(frames) - 1 : frames'[k] = frames[k]
      BY <1>1, <1>2, PopFacts
    <2>2. TypeInv'
      BY <2>1 DEF SigInv, TypeInv, SigTypeOK
    <2>3. \A k \in 1..Len(frames) - 1 : k \in 1..Len(frames)
      BY <2>1
    <2>4. IdInv'
      BY <2>1, <2>3 DEF SigInv, IdInv, Deliveries
    <2> QED BY <2>2, <2>4, OverrunKeeps
  <1>3. CASE Goto("count", Top.n)
    <2>1. /\ frames' \in Seq(Frame) /\ Len(frames') = Len(frames)
          /\ \A k \in 1..Len(frames) : frames'[k].id = frames[k].id
      BY <1>1, <1>3, GotoFacts
    <2>2. TypeInv' /\ IdInv'
      BY <2>1 DEF SigInv, TypeInv, SigTypeOK, IdInv, Deliveries
    <2> QED BY <2>2, OverrunKeeps
  <1> QED BY <1>2, <1>3

(* handle writes the counter and the entry, with whatever other handlers do *)
(* before and between (signal.c:202).                                       *)
LEMMA HandleCountKeeps ==
    ASSUME SigInv, HandleCount
    PROVE  SigInv'
  <1>1. /\ frames # <<>> /\ nsig \in Nat /\ MAX_PENDING_SIGNALS \in Nat
        /\ UNCHANGED <<arrived, hook, Hsig, handlers, hookAt, idx, thread, handled>>
    BY SignalsAssumption DEF HandleCount, SigInv, TypeInv, SigTypeOK
  <1>2. {"store", "count", "entry"} \subseteq HasRead
    BY DEF HasRead
  <1>3. ASSUME Top.at \in HasRead PROVE Top.n \in Nat /\ SigNumber[arrived[Top.id]] \in Nat
    <2>1. Top.n \in Nat /\ Top.id \in 1..Len(arrived)
      BY <1>1, <1>3, TopFacts
    <2>2. arrived[Top.id] \in Sigs
      BY <2>1 DEF SigInv, TypeInv, SigTypeOK
    <2> QED BY <2>1, <2>2, SignalsAssumption
  <1>4. ASSUME Top.at \in {"count", "entry"}, Top.n >= MAX_PENDING_SIGNALS PROVE "overrun" \in lost
    <2>1. Top.n \in Nat /\ Len(frames) \in 1..Len(frames) /\ Top = frames[Len(frames)]
      BY <1>1, <1>2, <1>4, TopFacts
    <2> QED BY <1>1, <1>4, <2>1 DEF SigInv, FrameInv
  <1>5. CASE Top.at = "store"
    <2>1. lost' = lost \cup (IF Top.n < MAX_PENDING_SIGNALS THEN {} ELSE {"overrun"})
                       \cup (IF hookAt = "reset" THEN {"window"} ELSE {})
      BY <1>5 DEF HandleCount
    <2>2. CASE WriteCount /\ Goto("entry", Top.n)
      BY <1>1, <1>5, <2>1, <2>2, CountFirstKeeps DEF WriteCount
    <2>3. CASE WriteEntry /\ Goto("count", Top.n) /\ Top.n < MAX_PENDING_SIGNALS
      <3>1. nsig' = nsig /\ signals' = [signals EXCEPT ![Top.n] = Top.id]
        BY <1>1, <1>2, <1>3, <1>5, <2>3 DEF WriteEntry
      <3>2. lost' = lost \cup (IF hookAt = "reset" THEN {"window"} ELSE {})
        BY <2>1, <2>3
      <3> QED BY <1>1, <1>5, <2>3, <3>1, <3>2, EntryFirstKeeps
    <2>4. CASE WriteEntry /\ Goto("count", Top.n) /\ ~(Top.n < MAX_PENDING_SIGNALS)
      <3>1. nsig' \in Nat /\ signals' = signals
        BY <1>1, <1>2, <1>3, <1>5, <2>4 DEF WriteEntry
      <3>2. "overrun" \in lost' /\ lost' \subseteq lost \cup {"overrun", "window"}
        BY <2>1, <2>4
      <3> QED BY <1>1, <1>2, <1>5, <2>4, <3>1, <3>2, BeyondKeeps
    <2> QED BY <1>5, <2>2, <2>3, <2>4 DEF HandleCount
  <1>6. CASE Top.at = "count"
    BY <1>1, <1>6, CountLastKeeps DEF HandleCount, WriteCount
  <1>7. CASE Top.at = "entry"
    <2>1. CASE Top.n < MAX_PENDING_SIGNALS
      <3>1. nsig' = nsig /\ signals' = [signals EXCEPT ![Top.n] = Top.id]
        BY <1>1, <1>2, <1>3, <1>7, <2>1 DEF HandleCount, WriteEntry
      <3> QED BY <1>1, <1>7, <2>1, <3>1, EntryLastKeeps DEF HandleCount
    <2>2. CASE ~(Top.n < MAX_PENDING_SIGNALS)
      <3>1. Top.n >= MAX_PENDING_SIGNALS
        BY <1>1, <1>2, <1>3, <1>7, <2>2
      <3>2. Pop /\ lost' = lost /\ nsig' \in Nat /\ signals' = signals
        BY <1>1, <1>2, <1>3, <1>7, <2>2 DEF HandleCount, WriteEntry
      <3> QED BY <1>1, <1>2, <1>4, <1>7, <3>1, <3>2, BeyondKeeps
    <2> QED BY <2>1, <2>2
  <1> QED BY <1>1, <1>5, <1>6, <1>7 DEF HandleCount

(* sighook begins: it puts the program's own hook back. *)
LEMMA HookStartsKeeps ==
    ASSUME SigInv, HookStarts
    PROVE  SigInv'
  <1>1. /\ Len(frames) = 0 /\ hookAt = "off" /\ hookAt' = "loop" /\ idx' = 0
        /\ hook' = Hsig
        /\ UNCHANGED <<arrived, nsig, signals, Hsig, handlers, frames, thread, handled, lost>>
    BY EmptySeq DEF HookStarts, NoSignal
  <1>2. TypeInv' /\ IdInv'
    BY <1>1 DEF SigInv, TypeInv, SigTypeOK, IdInv
  <1>3. idx = 0
    BY <1>1 DEF SigInv, TypeInv
  <1>4. FrameInv' /\ ExactInv' /\ ArmedInv'
    BY <1>1, <1>3 DEF SigInv, FrameInv, ExactInv, ArmedInv
  <1>5. LiveInv' /\ KeptInv'
    BY <1>1, <1>3 DEF SigInv, LiveInv, KeptInv, Live, Unwritten, Top, Deliveries, Running, Called
  <1> QED BY <1>2, <1>4, <1>5 DEF SigInv

(* sighook forgets the table when it has gone through it. *)
LEMMA HookEndsKeeps ==
    ASSUME SigInv, HookEnds
    PROVE  SigInv'
  <1>1. /\ Len(frames) = 0 /\ frames = <<>> /\ nsig \in Nat /\ idx \in Nat
        /\ UNCHANGED <<arrived, signals, hook, Hsig, handlers, frames, thread, handled, lost>>
    BY EmptySeq DEF SigInv, TypeInv, SigTypeOK, HookEnds, NoSignal
  <1>2. \A k : ~Unwritten(k) /\ ~Unwritten(k)'
    BY <1>1 DEF Unwritten
  <1>3. CASE hookAt = "loop" /\ idx >= nsig /\ hookAt' = "reset" /\ UNCHANGED <<nsig, idx>>
    <2>1. "overrun" \notin lost => idx = nsig
      BY <1>1, <1>3 DEF SigInv, FrameInv
    <2>2. TypeInv' /\ IdInv'
      BY <1>1, <1>3 DEF SigInv, TypeInv, SigTypeOK, IdInv, Deliveries
    <2>3. FrameInv' /\ ExactInv' /\ ArmedInv'
      BY <1>1, <1>3, <2>1 DEF SigInv, FrameInv, ExactInv, ArmedInv
    <2>4. LiveInv' /\ KeptInv'
      BY <1>1, <1>3 DEF SigInv, LiveInv, KeptInv, Live, Unwritten, Deliveries, Running, Called
    <2> QED BY <2>2, <2>3, <2>4 DEF SigInv
  <1>4. CASE hookAt = "reset" /\ nsig' = 0 /\ hookAt' = "off" /\ idx' = 0
    <2>1. \A k : ~Live(k)'
      BY <1>4 DEF Live
    <2>2. TypeInv' /\ IdInv'
      BY <1>1, <1>4, SignalsAssumption DEF SigInv, TypeInv, SigTypeOK, IdInv, Deliveries
    <2>3. FrameInv' /\ ExactInv' /\ ArmedInv'
      BY <1>1, <1>4 DEF FrameInv, ExactInv, ArmedInv
    <2> HIDE DEF Live
    <2>4. LiveInv'
      BY <1>1, <2>1 DEF SigInv, LiveInv, Deliveries
    <2>5. KeptInv'
      <3> SUFFICES ASSUME lost = {}, NEW d \in Deliveries PROVE Called(d)
        BY <1>1 DEF KeptInv, Deliveries, Called
      <3>1. idx = nsig
        BY <1>4 DEF SigInv, ExactInv
      <3>2. \A k \in 0..nsig : ~Live(k)
        BY <1>1, <3>1 DEF Live
      <3>3. ~Running(d)
        BY <1>1 DEF Running
      <3> QED BY <3>2, <3>3 DEF SigInv, KeptInv
    <2> QED BY <2>2, <2>3, <2>4, <2>5 DEF SigInv
  <1> QED BY <1>3, <1>4 DEF HookEnds

(* sighook calls the handler of one more signal. *)
LEMMA HookCallsKeeps ==
    ASSUME SigInv, HookCalls
    PROVE  SigInv'
  <1>1. PICK d \in EntryAt(idx) :
          \/ HasHandler(d) /\ handled' = Again(d) /\ idx' = idx + 1 /\ UNCHANGED <<hookAt, lost>>
          \/ /\ HasHandler(d) => "error" \in SigFeatures
             /\ hookAt' = "off" /\ idx' = 0 /\ lost' = lost \cup {"error"}
             /\ handled' = IF HasHandler(d) THEN Again(d) ELSE handled
    BY DEF HookCalls
  <1>2. /\ Len(frames) = 0 /\ frames = <<>> /\ nsig \in Nat /\ idx \in Nat /\ idx < nsig /\ hookAt = "loop"
        /\ MAX_PENDING_SIGNALS \in Nat /\ MaxArrivals \in Nat
        /\ Len(arrived) \in Nat /\ Len(arrived) <= MaxArrivals
        /\ signals \in [0..MAX_PENDING_SIGNALS - 1 -> 0..MaxArrivals]
        /\ handled \in [1..MaxArrivals -> 0..2]
        /\ UNCHANGED <<arrived, nsig, signals, hook, Hsig, handlers, frames, thread>>
    BY EmptySeq, SignalsAssumption DEF SigInv, TypeInv, SigTypeOK, HookCalls, NoSignal
  <1>3. \A k : ~Unwritten(k) /\ ~Unwritten(k)'
    BY <1>2 DEF Unwritten
  <1>4. /\ Again(d) \in [1..MaxArrivals -> 0..2]
        /\ \A e \in 1..MaxArrivals : /\ e = d => Again(d)[e] > 0 /\ (handled[e] = 0 => Again(d)[e] = 1)
                                     /\ e # d => Again(d)[e] = handled[e]
    <2>1. \A e \in 1..MaxArrivals : handled[e] \in 0..2
      BY <1>2
    <2>2. /\ Again(d) = [e \in 1..MaxArrivals |-> IF e = d THEN Again(d)[d] ELSE handled[e]]
          /\ \A e \in 1..MaxArrivals : e = d => Again(d)[d] = IF handled[e] = 2 THEN 2 ELSE handled[e] + 1
      <3> DEFINE v == IF handled[d] = 2 THEN 2 ELSE handled[d] + 1
      <3>1. Again(d) = [handled EXCEPT ![d] = v] /\ handled = [e \in 1..MaxArrivals |-> handled[e]]
        BY <1>2 DEF Again
      <3>2. v = IF handled[d] = 2 THEN 2 ELSE handled[d] + 1
        OBVIOUS
      <3> HIDE DEF v
      <3>3. Again(d) = [e \in 1..MaxArrivals |-> IF e = d THEN v ELSE handled[e]]
        BY ONLY <1>2, <3>1
      <3>4. \A e \in 1..MaxArrivals : e = d => Again(d)[d] = v
        BY ONLY <3>3
      <3>5. \A e \in 1..MaxArrivals : (IF e = d THEN Again(d)[d] ELSE handled[e]) = IF e = d THEN v ELSE handled[e]
        BY ONLY <3>4
      <3> QED BY ONLY <3>2, <3>3, <3>4, <3>5
    <2>3. \A e \in 1..MaxArrivals : Again(d)[e] = IF e = d THEN Again(d)[d] ELSE handled[e]
      BY ONLY <2>2
    <2>4. \A e \in 1..MaxArrivals : e = d => Again(d)[d] \in 1..2 /\ (handled[e] = 0 => Again(d)[d] = 1)
      BY ONLY <2>1, <2>2
    <2>5. \A e \in 1..MaxArrivals : (IF e = d THEN Again(d)[d] ELSE handled[e]) \in 0..2
      BY ONLY <2>1, <2>4
    <2>6. Again(d) \in [1..MaxArrivals -> 0..2]
      BY ONLY <2>2, <2>5
    <2> QED BY ONLY <2>3, <2>4, <2>6
  <1>5. handled' \in [1..MaxArrivals -> 0..2] /\ idx' \in Nat /\ hookAt' \in {"loop", "off"}
    BY <1>1, <1>2, <1>4
  <1>6. TypeInv' /\ IdInv'
    <2>1. hookAt' = "off" => idx' = 0
      BY <1>1, <1>2
    <2>2. lost' \subseteq lost \cup {"error"} /\ lost \subseteq lost'
      BY <1>1
    <2> QED BY <1>2, <1>5, <2>1, <2>2 DEF SigInv, TypeInv, SigTypeOK, IdInv, Deliveries
  <1>7. CASE HasHandler(d) /\ handled' = Again(d) /\ idx' = idx + 1 /\ UNCHANGED <<hookAt, lost>>
    <2>1. FrameInv' /\ ExactInv' /\ ArmedInv'
      BY <1>2, <1>7 DEF SigInv, FrameInv, ExactInv, ArmedInv
    <2> SUFFICES ASSUME lost \cap {"error", "overrun"} = {} PROVE LiveInv' /\ KeptInv'
      BY <1>6, <1>7, <2>1 DEF SigInv, LiveInv, KeptInv
    <2>2. LiveInv /\ nsig <= MAX_PENDING_SIGNALS
      BY DEF SigInv, TypeInv, SigTypeOK
    <2>3. idx \in 0..nsig /\ Live(idx)
      BY <1>2, <1>3 DEF Live
    <2>4. d = signals[idx]
      BY <1>1, <1>2, <2>2 DEF EntryAt
    <2>5. d \in 1..Len(arrived) /\ d \in 1..MaxArrivals /\ handled[d] = 0
      <3>1. d \in 1..Len(arrived) /\ handled[d] = 0
        BY <2>2, <2>3, <2>4 DEF LiveInv, Deliveries
      <3> QED BY <1>2, <3>1
    <2>6. \A k \in 0..nsig : (Live(k) <=> Live(k)' \/ k = idx) /\ (Live(k)' => k # idx)
      BY <1>2, <1>3, <1>7 DEF Live
    <2> HIDE DEF Live
    <2>7. ASSUME NEW e \in 1..MaxArrivals PROVE handled'[e] <= 1 /\ (e > Len(arrived) => handled'[e] = 0)
      <3>1. handled[e] <= 1 /\ (e > Len(arrived) => handled[e] = 0)
        BY <2>2 DEF LiveInv
      <3>2. CASE e = d
        BY <1>2, <1>4, <1>7, <2>5, <3>2
      <3>3. CASE e # d
        BY <1>4, <1>7, <3>1, <3>3
      <3> QED BY <3>2, <3>3
    <2>8. ASSUME NEW k \in 0..nsig, Live(k)' PROVE signals[k] \in Deliveries /\ handled'[signals[k]] = 0
      <3>1. Live(k) /\ k # idx
        BY <2>6, <2>8
      <3>2. signals[k] \in Deliveries /\ handled[signals[k]] = 0 /\ signals[k] # d
        BY <2>2, <2>3, <2>4, <3>1 DEF LiveInv
      <3>3. signals[k] \in 1..MaxArrivals
        BY <1>2, <3>2 DEF Deliveries
      <3> QED BY <1>4, <1>7, <3>2, <3>3
    <2>9. \A j, k \in 0..nsig : Live(j)' /\ Live(k)' /\ j # k => signals[j] # signals[k]
      BY <2>2, <2>6 DEF LiveInv
    <2>10. LiveInv'
      BY <1>2, <2>7, <2>8, <2>9 DEF LiveInv, Deliveries
    <2>11. ASSUME lost = {}, NEW e \in Deliveries
           PROVE  Called(e)' \/ \E k \in 0..nsig : Live(k)' /\ signals[k] = e
      <3>1. e \in 1..MaxArrivals
        BY <1>2 DEF Deliveries
      <3>2. Called(e) \/ \E k \in 0..nsig : Live(k) /\ signals[k] = e
        BY <1>2, <2>11 DEF SigInv, KeptInv, Running
      <3>3. e = d => Called(e)'
        BY <1>4, <1>7, <3>1 DEF Called
      <3>4. e # d /\ Called(e) => Called(e)'
        BY <1>4, <1>7, <3>1 DEF Called
      <3> QED BY <2>4, <2>6, <3>2, <3>3, <3>4
    <2>12. KeptInv'
      BY <1>2, <1>7, <2>11 DEF KeptInv, Deliveries
    <2> QED BY <2>10, <2>12
  <1>8. CASE hookAt' = "off" /\ idx' = 0 /\ lost' = lost \cup {"error"}
    <2>1. FrameInv'
      BY <1>2, <1>8 DEF FrameInv
    <2>2. "error" \in lost'
      BY <1>8
    <2> QED BY <1>6, <2>1, <2>2 DEF SigInv, ExactInv, LiveInv, ArmedInv, KeptInv
  <1> QED BY <1>1, <1>7, <1>8

(* Steps that touch neither the table nor the hook. *)
LEMMA OtherKeeps ==
    ASSUME SigInv, handlers' \subseteq Sigs,
           UNCHANGED <<arrived, nsig, signals, hook, Hsig, frames, hookAt, idx, handled, lost>>
    PROVE  SigInv'
  <1>1. TypeInv' /\ IdInv'
    BY DEF SigInv, TypeInv, SigTypeOK, IdInv, Deliveries
  <1>2. FrameInv' /\ ExactInv' /\ ArmedInv'
    BY DEF SigInv, FrameInv, ExactInv, ArmedInv
  <1>3. LiveInv' /\ KeptInv'
    BY DEF SigInv, LiveInv, KeptInv, Live, Unwritten, Top, Deliveries, Running, Called
  <1> QED BY <1>1, <1>2, <1>3 DEF SigInv

(* Wherever signals interrupt the hook and each other's handlers, and      *)
(* however many of them nest: no signal is forgotten or has its handler    *)
(* called twice, the table holds no more than its size and recorded        *)
(* signals have a hook to come, except for the losses the properties name, *)
(* an overrun of the table among them (signal.c:162-204).                  *)
THEOREM SignalsSoundHolds == SigSpec => []SignalsSound
  <1>1. SigInit => SigInv
    <2> SUFFICES ASSUME SigInit PROVE SigInv
      OBVIOUS
    <2>1. Len(arrived) = 0 /\ Len(frames) = 0 /\ arrived \in Seq(Sigs) /\ frames \in Seq(Frame)
      BY EmptySeq DEF SigInit
    <2>2. TypeInv /\ IdInv
      BY <2>1, SignalsAssumption DEF SigInit, TypeInv, SigTypeOK, IdInv
    <2>3. FrameInv /\ ExactInv /\ ArmedInv
      BY <2>1 DEF SigInit, FrameInv, ExactInv, ArmedInv
    <2>4. LiveInv /\ KeptInv
      BY <2>1 DEF SigInit, LiveInv, KeptInv, Live, Deliveries
    <2> QED BY <2>2, <2>3, <2>4 DEF SigInv
  <1>2. SigInv /\ [SigNext]_sigVars => SigInv'
    <2> SUFFICES ASSUME SigInv, [SigNext]_sigVars PROVE SigInv'
      OBVIOUS
    <2>1. ASSUME NEW sig \in Sigs, l_kill(sig) \/ l_raise(sig) PROVE SigInv'
      BY <2>1, DeliverKeeps DEF l_kill, l_raise
    <2>2. ASSUME NEW sig \in Sigs, l_signal(sig) PROVE SigInv'
      <3>1. handlers' \subseteq Sigs
        BY <2>2 DEF l_signal, SigInv, TypeInv, SigTypeOK
      <3> QED BY <2>2, <3>1, OtherKeeps DEF l_signal
    <2>3. CASE HandleTest \/ HandleHook \/ HandleRoom \/ HandleCount
      BY <2>3, HandleTestKeeps, HandleHookKeeps, HandleRoomKeeps, HandleCountKeeps
    <2>4. CASE HookStarts \/ HookCalls \/ HookEnds
      BY <2>4, HookStartsKeeps, HookCallsKeeps, HookEndsKeeps
    <2>5. CASE Turn \/ UNCHANGED sigVars
      <3>1. UNCHANGED <<arrived, nsig, signals, hook, Hsig, handlers, frames, hookAt, idx, handled, lost>>
        BY <2>5 DEF Turn, sigVars
      <3>2. handlers' \subseteq Sigs
        BY <3>1 DEF SigInv, TypeInv, SigTypeOK
      <3> QED BY <3>1, <3>2, OtherKeeps
    <2> QED BY <2>1, <2>2, <2>3, <2>4, <2>5 DEF SigNext
  <1>3. SigInv => SignalsSound
    <2> SUFFICES ASSUME SigInv PROVE SignalsSound
      OBVIOUS
    <2>1. Len(arrived) \in Nat /\ Len(arrived) <= MaxArrivals /\ nsig \in Nat /\ idx \in Nat /\ MaxArrivals \in Nat
      BY SignalsAssumption DEF SigInv, TypeInv, SigTypeOK
    <2>2. SignalOnce
      <3>1. \A d \in Deliveries : d \in 1..MaxArrivals
        BY <2>1 DEF Deliveries
      <3> QED BY <3>1 DEF SigInv, LiveInv, SignalOnce
    <2>3. SignalArmed
      BY DEF SigInv, ArmedInv, SignalArmed
    <2>4. SignalKept
      <3>1. \A k \in 0..nsig : Live(k) => k \in 0..nsig - 1 /\ k >= idx
        BY <2>1 DEF Live
      <3> HIDE DEF Live
      <3> QED BY <3>1 DEF SigInv, KeptInv, SignalKept, Recorded
    <2> QED BY <2>2, <2>3, <2>4 DEF SigInv, TypeInv, SignalsSound
  <1> QED BY <1>1, <1>2, <1>3, PTL DEF SigSpec
-----------------------------------------------------------------------------
(* The states the handlers work on.                                        *)
PollState ==
    [backend : Backends, all : SUBSET Fds, wantread : SUBSET Fds, wantwrite : SUBSET Fds,
     events : Seq([fd : Fds, r : BOOLEAN, w : BOOLEAN]),
     readable : SUBSET Fds, writable : SUBSET Fds, err : SUBSET Fds, processed : -1..FD_SETSIZE]
Conn ==
    [live : BOOLEAN, fd : Fds \cup {-1}, wantread : BOOLEAN, wantwrite : BOOLEAN, told : BOOLEAN,
     buf : BOOLEAN, dirty : BOOLEAN, closing : BOOLEAN, wtimer : BOOLEAN, ptimer : BOOLEAN,
     misled : BOOLEAN]
Sock == [st : {"none", "listen", "connecting", "up", "full", "bad"}, in : BOOLEAN]

(* LoopSound as a predicate of the values, so that it can be said of the    *)
(* states between two calls of one handler too.                             *)
Agree(p, k, f) ==
    /\ \A c \in Objects : k[c].live <=> k[c].fd \in Fds
    /\ \A c \in Objects : k[c].live =>
        /\ f[k[c].fd] = c
        /\ k[c].wantread <=> k[c].fd \in p.wantread
        /\ k[c].wantwrite <=> k[c].fd \in p.wantwrite
    /\ \A fd \in Fds : f[fd] # None => k[f[fd]].live /\ k[f[fd]].fd = fd
    /\ \A fd \in Fds : fd \in p.all <=> f[fd] # None
    /\ p.wantread \cup p.wantwrite \subseteq p.all
State == [poll : PollState, conn : [Objects -> Conn], fds : [Fds -> Objects \cup {None}],
          sock : [Objects -> Sock], stale : SUBSET Fds]

Good(s) == s \in State /\ Agree(s.poll, s.conn, s.fds)

Batch(p) == <<p.backend, p.events, p.readable, p.writable, p.err, p.processed>>

Wants(k, r, w) == [k EXCEPT !.wantread = r, !.wantwrite = w]

(* interface:set keeps the agreement; of the fields of a connection it     *)
(* changes two.                                                            *)
LEMMA SetKeeps ==
    ASSUME NEW s, Good(s), NEW c \in Objects, s.conn[c].live, NEW r \in BOOLEAN, NEW w \in BOOLEAN,
           NEW t, t = IfSet(s, c, r, w)
    PROVE  /\ Good(t) /\ t.fds = s.fds /\ t.sock = s.sock /\ t.stale = s.stale
           /\ Batch(t.poll) = Batch(s.poll)
           /\ \A d \in Objects : t.conn[d] = IF d = c THEN Wants(s.conn[c], r, w) ELSE s.conn[d]
  <1> DEFINE fd == s.conn[c].fd
             p == [s.poll EXCEPT !.wantread = With(@, fd, r), !.wantwrite = With(@, fd, w)]
             k == [s.conn EXCEPT ![c] = [@ EXCEPT !.wantread = r, !.wantwrite = w]]
  <1>1. s \in State /\ Agree(s.poll, s.conn, s.fds)
    BY DEF Good
  <1>2. fd \in Fds /\ s.fds[fd] = c /\ fd \in s.poll.all
    BY <1>1, LoopAssumption DEF Agree, Objects, State
  <1>3. t = [s EXCEPT !.poll = p, !.conn = k]
    BY <1>1, <1>2 DEF IfSet, Lset, Exists, State
  <1>4. s.conn[c] \in Conn /\ s.poll \in PollState
    BY <1>1 DEF State
  <1>5. p \in PollState /\ p.all = s.poll.all /\ Batch(p) = Batch(s.poll)
        /\ p.wantread = With(s.poll.wantread, fd, r) /\ p.wantwrite = With(s.poll.wantwrite, fd, w)
    BY <1>2, <1>4 DEF PollState, With, Batch
  <1> DEFINE kc == [s.conn[c] EXCEPT !.wantread = r, !.wantwrite = w]
  <1>6. kc \in Conn /\ kc.live = s.conn[c].live /\ kc.fd = fd /\ kc.wantread = r /\ kc.wantwrite = w
    BY <1>4 DEF Conn
  <1>7. k = [s.conn EXCEPT ![c] = kc]
    OBVIOUS
  <1> HIDE DEF p, kc
  <1>8. k \in [Objects -> Conn] /\ k[c] = kc /\ \A d \in Objects : d # c => k[d] = s.conn[d]
    BY <1>1, <1>6, <1>7 DEF State
  <1> HIDE DEF k
  <1>9. t \in State /\ t.poll = p /\ t.conn = k /\ t.fds = s.fds /\ t.sock = s.sock /\ t.stale = s.stale
    BY <1>1, <1>3, <1>5, <1>8 DEF State
  <1>10. \A d \in Objects : k[d].live <=> s.conn[d].live
    BY <1>6, <1>8
  <1>11. \A d \in Objects : k[d].fd = s.conn[d].fd
    BY <1>6, <1>8
  <1>12. Agree(p, k, s.fds)
    <2>1. \A d \in Objects : k[d].live =>
             /\ s.fds[k[d].fd] = d
             /\ k[d].wantread <=> k[d].fd \in p.wantread
             /\ k[d].wantwrite <=> k[d].fd \in p.wantwrite
      <3> SUFFICES ASSUME NEW d \in Objects, k[d].live
                   PROVE  /\ s.fds[k[d].fd] = d
                          /\ k[d].wantread <=> k[d].fd \in p.wantread
                          /\ k[d].wantwrite <=> k[d].fd \in p.wantwrite
        OBVIOUS
      <3>1. s.fds[s.conn[d].fd] = d /\ s.conn[d].live
        BY <1>1, <1>10 DEF Agree
      <3>2. CASE d = c
        BY <3>1, <3>2, <1>5, <1>6, <1>8, <1>2 DEF With
      <3>3. CASE d # c
        <4>1. s.conn[d].fd # fd
          BY <3>1, <3>3, <1>2
        <4>2. k[d] = s.conn[d]
          BY <3>3, <1>8
        <4> QED BY <4>1, <4>2, <3>1, <1>1, <1>5 DEF With, Agree
      <3> QED BY <3>2, <3>3
    <2>2. p.wantread \cup p.wantwrite \subseteq p.all
      BY <1>1, <1>2, <1>5 DEF With, Agree
    <2>3. \A e \in Fds : s.fds[e] # None => k[s.fds[e]].live /\ k[s.fds[e]].fd = e
      BY <1>1, <1>10, <1>11 DEF Agree, State
    <2> QED BY <2>1, <2>2, <2>3, <1>1, <1>5, <1>10, <1>11 DEF Agree
  <1>13. \A d \in Objects : t.conn[d] = IF d = c THEN Wants(s.conn[c], r, w) ELSE s.conn[d]
    BY <1>8, <1>9 DEF kc, Wants
  <1> QED BY <1>5, <1>9, <1>12, <1>13 DEF Good

(* What does not touch a registration keeps the agreement.                 *)
LEMMA RestKeeps ==
    ASSUME NEW s, Good(s), NEW t \in State, t.fds = s.fds, t.poll.all = s.poll.all,
           t.poll.wantread = s.poll.wantread, t.poll.wantwrite = s.poll.wantwrite,
           \A d \in Objects : /\ t.conn[d].live = s.conn[d].live /\ t.conn[d].fd = s.conn[d].fd
                              /\ t.conn[d].wantread = s.conn[d].wantread
                              /\ t.conn[d].wantwrite = s.conn[d].wantwrite
    PROVE  Good(t)
  <1>1. s \in State /\ Agree(s.poll, s.conn, s.fds)
    BY DEF Good
  <1>2. Agree(t.poll, t.conn, t.fds)
    BY <1>1 DEF Agree, State
  <1> QED BY <1>2 DEF Good

(* interface:destroy: the connection is gone from all three tables.        *)
LEMMA DestroyKeeps ==
    ASSUME NEW s, Good(s), NEW c \in Objects, s.conn[c].live, NEW t, t = IfDestroy(s, c)
    PROVE  /\ Good(t)
           /\ \A e \in Fds : t.fds[e] = IF e = s.conn[c].fd THEN None ELSE s.fds[e]
           /\ \A d \in Objects : t.sock[d] = IF d = c THEN NoSock ELSE s.sock[d]
           /\ t.stale = s.stale \cup {s.conn[c].fd}
           /\ t.poll.backend = s.poll.backend /\ t.poll.events = s.poll.events
           /\ t.poll.readable \subseteq s.poll.readable /\ t.poll.writable \subseteq s.poll.writable
           /\ t.poll.err \subseteq s.poll.err
           /\ \A d \in Objects : t.conn[d] = IF d = c THEN Closed(s.conn[c].ptimer) ELSE s.conn[d]
  <1> DEFINE fd == s.conn[c].fd
             p == Forget(s.poll, {fd})
             k == [s.conn EXCEPT ![c] = Closed(s.conn[c].ptimer)]
             f == [s.fds EXCEPT ![fd] = None]
             q == [s.sock EXCEPT ![c] = NoSock]
  <1>1. s \in State /\ Agree(s.poll, s.conn, s.fds)
    BY DEF Good
  <1>2. fd \in Fds /\ s.fds[fd] = c /\ fd \in s.poll.all
    BY <1>1, LoopAssumption DEF Agree, Objects, State
  <1>3. s.conn[c] \in Conn /\ s.poll \in PollState
    BY <1>1 DEF State
  <1>5. /\ p \in PollState /\ p.all = s.poll.all \ {fd} /\ p.wantread = s.poll.wantread \ {fd}
        /\ p.wantwrite = s.poll.wantwrite \ {fd}
        /\ p.backend = s.poll.backend /\ p.events = s.poll.events
        /\ p.readable \subseteq s.poll.readable /\ p.writable \subseteq s.poll.writable
        /\ p.err \subseteq s.poll.err
    BY <1>3 DEF PollState, Forget
  <1>4. [p EXCEPT !.all = IF p.backend = "epoll" THEN @ \ {fd} ELSE @] = p
    <2>1. (IF p.backend = "epoll" THEN p.all \ {fd} ELSE p.all) = p.all
      BY <1>5
    <2> QED BY <1>5, <2>1 DEF PollState
  <1> DEFINE u == [s EXCEPT !.poll = p, !.fds = f,
                            !.conn = [s.conn EXCEPT ![c] = [@ EXCEPT !.wantread = FALSE, !.wantwrite = FALSE]]]
  <1>6. IfDel(s, c) = u
    BY <1>1, <1>2, ZenonT(60) DEF IfDel, Ldel, State
  <1>7. t = [u EXCEPT !.conn[c] = Closed(@.ptimer), !.sock[c] = NoSock, !.stale = @ \cup {fd},
                      !.poll.all = IF u.poll.backend = "epoll" THEN @ \ {fd} ELSE @]
    BY <1>6 DEF IfDestroy
  <1>8. u.poll = p /\ u.fds = f /\ u.sock = s.sock /\ u.stale = s.stale /\ u.conn[c].ptimer = s.conn[c].ptimer
        /\ DOMAIN u = DOMAIN s
    BY <1>1, <1>3 DEF State, Conn
  <1>9. [u.conn EXCEPT ![c] = Closed(u.conn[c].ptimer)] = k
    BY <1>1, <1>8 DEF State
  <1> HIDE DEF p
  <1>10. t.poll = p /\ t.conn = k /\ t.fds = f /\ t.sock = q /\ t.stale = s.stale \cup {fd}
    BY <1>1, <1>4, <1>7, <1>8, <1>9 DEF State
  <1>11. Closed(s.conn[c].ptimer) \in Conn /\ ~Closed(s.conn[c].ptimer).live /\ Closed(s.conn[c].ptimer).fd \notin Fds
    BY <1>3, PollAssumption DEF Closed, Conn
  <1>12. NoSock \in Sock
    BY DEF NoSock, Sock
  <1>13. k \in [Objects -> Conn] /\ \A d \in Objects : k[d] = IF d = c THEN Closed(s.conn[c].ptimer) ELSE s.conn[d]
    BY <1>1, <1>11 DEF State
  <1>14. f \in [Fds -> Objects \cup {None}] /\ \A e \in Fds : f[e] = IF e = fd THEN None ELSE s.fds[e]
    BY <1>1 DEF State
  <1>15. t \in State
    <2>1. q \in [Objects -> Sock] /\ s.stale \cup {fd} \in SUBSET Fds
      BY <1>1, <1>2, <1>12 DEF State
    <2>2. t = [poll |-> p, conn |-> k, fds |-> f, sock |-> q, stale |-> s.stale \cup {fd}]
      <3>1. DOMAIN u = {"poll", "conn", "fds", "sock", "stale"}
        BY <1>1, <1>8 DEF State
      <3> QED BY <3>1, <1>7, <1>10
    <2> QED BY <2>1, <2>2, <1>5, <1>13, <1>14 DEF State
  <1> HIDE DEF k, f, q, u, fd
  <1>16. \A d \in Objects : d # c /\ s.conn[d].live => s.conn[d].fd # fd
    BY <1>1, <1>2 DEF Agree
  <1>17. Agree(p, k, f)
    <2>1. \A d \in Objects : k[d].live <=> k[d].fd \in Fds
      BY <1>1, <1>11, <1>13 DEF Agree
    <2>2. \A d \in Objects : k[d].live =>
             /\ f[k[d].fd] = d
             /\ k[d].wantread <=> k[d].fd \in p.wantread
             /\ k[d].wantwrite <=> k[d].fd \in p.wantwrite
      BY <1>1, <1>5, <1>11, <1>13, <1>14, <1>16 DEF Agree
    <2>3. \A e \in Fds : f[e] # None => k[f[e]].live /\ k[f[e]].fd = e
      <3> SUFFICES ASSUME NEW e \in Fds, f[e] # None PROVE k[f[e]].live /\ k[f[e]].fd = e
        OBVIOUS
      <3>1. e # fd /\ f[e] = s.fds[e] /\ f[e] \in Objects
        BY <1>14
      <3>2. s.conn[f[e]].live /\ s.conn[f[e]].fd = e
        BY <1>1, <3>1 DEF Agree
      <3>3. f[e] # c
        BY <3>1, <3>2 DEF fd
      <3> QED BY <3>1, <3>2, <3>3, <1>13
    <2>4. \A e \in Fds : e \in p.all <=> f[e] # None
      BY <1>1, <1>5, <1>14 DEF Agree
    <2>5. p.wantread \cup p.wantwrite \subseteq p.all
      BY <1>1, <1>5 DEF Agree
    <2> QED BY <2>1, <2>2, <2>3, <2>4, <2>5 DEF Agree
  <1>18. /\ \A e \in Fds : t.fds[e] = IF e = s.conn[c].fd THEN None ELSE s.fds[e]
         /\ \A d \in Objects : t.sock[d] = IF d = c THEN NoSock ELSE s.sock[d]
         /\ t.stale = s.stale \cup {s.conn[c].fd}
    BY <1>1, <1>10, <1>14 DEF q, fd, State
  <1> QED BY <1>5, <1>10, <1>13, <1>15, <1>17, <1>18 DEF Good

Fits(s, c, K) == ~s.conn[c].live /\ K.live /\ K.fd \in Fds /\ \A d \in Objects : s.conn[d].fd # K.fd
Opened(s, c, K, Q) == [s EXCEPT !.conn[c] = K, !.sock[c] = Q]

(* wrapsocket and interface:add: a descriptor that nobody has is registered*)
(* for an object that was not open.                                        *)
LEMMA AddKeeps ==
    ASSUME NEW s, Good(s), NEW c \in Objects, NEW K \in Conn, Fits(s, c, K), NEW Q \in Sock, NEW r \in BOOLEAN, NEW w \in BOOLEAN,
           NEW t, t = IfAdd(Opened(s, c, K, Q), c, r, w)
    PROVE  /\ Good(t)
           /\ \A e \in Fds : t.fds[e] = IF e = K.fd THEN c ELSE s.fds[e]
           /\ \A d \in Objects : t.sock[d] = IF d = c THEN Q ELSE s.sock[d]
           /\ t.stale = s.stale
           /\ t.poll.backend = s.poll.backend /\ t.poll.events = s.poll.events
           /\ t.poll.readable \subseteq s.poll.readable /\ t.poll.writable \subseteq s.poll.writable
           /\ t.poll.err \subseteq s.poll.err
           /\ \A d \in Objects : t.conn[d] = IF d = c THEN Wants(K, r, w) ELSE s.conn[d]
  <1> DEFINE fd == K.fd
             p == Ladd(s.poll, fd, r, w)
             kc == [K EXCEPT !.wantread = r, !.wantwrite = w]
             k == [s.conn EXCEPT ![c] = kc]
             f == [s.fds EXCEPT ![fd] = c]
             q == [s.sock EXCEPT ![c] = Q]
             u == [s EXCEPT !.conn[c] = K, !.sock[c] = Q]
  <1>0. ~s.conn[c].live /\ K.live /\ K.fd \in Fds /\ \A d \in Objects : s.conn[d].fd # K.fd
    BY DEF Fits
  <1>1. s \in State /\ Agree(s.poll, s.conn, s.fds) /\ s.poll \in PollState
    BY DEF Good, State
  <1>2. s.fds[fd] = None /\ fd \notin s.poll.all
    BY <1>0, <1>1 DEF Agree, State
  <1>3. u.poll = s.poll /\ u.fds = s.fds /\ u.stale = s.stale /\ u.sock = q /\ u.conn = [s.conn EXCEPT ![c] = K]
        /\ u.conn[c] = K /\ DOMAIN u = {"poll", "conn", "fds", "sock", "stale"}
    BY <1>1 DEF State
  <1>5. [u.conn EXCEPT ![c] = kc] = k
    BY <1>1, <1>3 DEF State
  <1>4. t = [u EXCEPT !.poll = p, !.fds = f, !.conn = k]
    <2>1. u.conn[c].fd = fd /\ ~Exists(u.poll, fd) /\ u.poll = s.poll
      BY <1>2, <1>3 DEF Exists
    <2>2. u.conn[c] = K /\ u.fds = s.fds
      BY <1>3
    <2>3. t = IfAdd(u, c, r, w)
      BY DEF Opened
    <2>5. u.conn \in [Objects -> Conn]
      BY <1>1, <1>3 DEF State
    <2>6. [u.conn EXCEPT ![c] = [[u.conn[c] EXCEPT !.wantread = r] EXCEPT !.wantwrite = w]] = k
      BY <2>2, <1>5
    <2> HIDE DEF u
    <2>4. t = [u EXCEPT !.poll = Ladd(u.poll, fd, r, w), !.fds[fd] = c,
                       !.conn[c].wantread = r, !.conn[c].wantwrite = w]
      BY <2>1, <2>3 DEF IfAdd
    <2>7. [[u.conn EXCEPT ![c].wantread = r] EXCEPT ![c].wantwrite = w] = k
      BY <2>5, <2>6
    <2> HIDE DEF k, p, f
    <2>8. Ladd(u.poll, fd, r, w) = p /\ [u.fds EXCEPT ![fd] = c] = f
      BY <2>1, <2>2 DEF p, f
    <2> QED BY <2>4, <2>7, <2>8
  <1>6. t = [poll |-> p, conn |-> k, fds |-> f, sock |-> q, stale |-> s.stale]
    <2> HIDE DEF u, p, k, q
    <2>1. t.poll = p /\ t.conn = k /\ t.fds = f /\ t.sock = q /\ t.stale = s.stale
      BY <1>3, <1>4, <1>5
    <2>2. t = [x \in {"poll", "conn", "fds", "sock", "stale"} |-> t[x]]
      BY <1>3, <1>4
    <2> QED BY <2>1, <2>2
  <1>7. kc \in Conn /\ kc.live = K.live /\ kc.fd = fd /\ kc.wantread = r /\ kc.wantwrite = w
    BY DEF Conn
  <1>8. /\ p \in PollState /\ p.all = s.poll.all \cup {fd} /\ p.wantread = With(s.poll.wantread, fd, r)
        /\ p.wantwrite = With(s.poll.wantwrite, fd, w)
        /\ p.backend = s.poll.backend /\ p.events = s.poll.events
        /\ p.readable \subseteq s.poll.readable /\ p.writable \subseteq s.poll.writable
        /\ p.err \subseteq s.poll.err
    BY <1>0, <1>1, <1>2 DEF PollState, Ladd, Exists, With
  <1> HIDE DEF p, kc
  <1>9. k \in [Objects -> Conn] /\ \A d \in Objects : k[d] = IF d = c THEN kc ELSE s.conn[d]
    BY <1>1, <1>7 DEF State
  <1>10. f \in [Fds -> Objects \cup {None}] /\ \A e \in Fds : f[e] = IF e = fd THEN c ELSE s.fds[e]
    BY <1>1 DEF State
  <1>11. q \in [Objects -> Sock] /\ s.stale \in SUBSET Fds
    BY <1>1 DEF State
  <1>12. t.poll = p /\ t.conn = k /\ t.fds = f /\ t.sock = q /\ t.stale = s.stale
    BY <1>6
  <1>13. t \in State
    BY <1>6, <1>8, <1>9, <1>10, <1>11 DEF State
  <1> HIDE DEF k, f, q, u
  <1>14. Agree(p, k, f)
    <2>1. \A d \in Objects : k[d].live <=> k[d].fd \in Fds
      BY <1>0, <1>1, <1>7, <1>9 DEF Agree
    <2>2. \A d \in Objects : k[d].live =>
             /\ f[k[d].fd] = d
             /\ k[d].wantread <=> k[d].fd \in p.wantread
             /\ k[d].wantwrite <=> k[d].fd \in p.wantwrite
      <3> SUFFICES ASSUME NEW d \in Objects, k[d].live
                   PROVE  /\ f[k[d].fd] = d
                          /\ k[d].wantread <=> k[d].fd \in p.wantread
                          /\ k[d].wantwrite <=> k[d].fd \in p.wantwrite
        OBVIOUS
      <3>1. CASE d = c
        BY <3>1, <1>0, <1>7, <1>8, <1>9, <1>10 DEF With
      <3>2. CASE d # c
        <4>1. k[d] = s.conn[d] /\ s.conn[d].fd # fd
          BY <3>2, <1>0, <1>9
        <4> QED BY <4>1, <1>1, <1>8, <1>10 DEF With, Agree
      <3> QED BY <3>1, <3>2
    <2>3. \A e \in Fds : f[e] # None => k[f[e]].live /\ k[f[e]].fd = e
      <3> SUFFICES ASSUME NEW e \in Fds, f[e] # None PROVE k[f[e]].live /\ k[f[e]].fd = e
        OBVIOUS
      <3>1. CASE e = fd
        BY <3>1, <1>0, <1>7, <1>9, <1>10
      <3>2. CASE e # fd
        <4>1. f[e] = s.fds[e] /\ f[e] \in Objects
          BY <3>2, <1>10
        <4>2. s.conn[f[e]].live /\ s.conn[f[e]].fd = e
          BY <1>1, <4>1 DEF Agree
        <4>3. f[e] # c
          BY <4>2, <1>0
        <4> QED BY <4>1, <4>2, <4>3, <1>9
      <3> QED BY <3>1, <3>2
    <2>4. \A e \in Fds : e \in p.all <=> f[e] # None
      BY <1>0, <1>1, <1>8, <1>10, LoopAssumption DEF Agree, Objects
    <2>5. p.wantread \cup p.wantwrite \subseteq p.all
      BY <1>1, <1>8 DEF Agree, With
    <2> QED BY <2>1, <2>2, <2>3, <2>4, <2>5 DEF Agree
  <1>15. /\ \A e \in Fds : t.fds[e] = IF e = K.fd THEN c ELSE s.fds[e]
         /\ \A d \in Objects : t.sock[d] = IF d = c THEN Q ELSE s.sock[d]
    BY <1>1, <1>12 DEF f, q, State
  <1>16. \A d \in Objects : t.conn[d] = IF d = c THEN Wants(K, r, w) ELSE s.conn[d]
    BY <1>9, <1>12 DEF kc, Wants
  <1> QED BY <1>8, <1>12, <1>13, <1>14, <1>15, <1>16 DEF Good

Flushing(k) == [k EXCEPT !.wantread = FALSE, !.wantwrite = TRUE, !.closing = TRUE]

(* closeall: every object in fds is destroyed or, with something left to   *)
(* write, closes when it is sent.                                          *)
LEMMA CloseAllKeeps ==
    ASSUME NEW s, Good(s), NEW t, t = CloseAll(s)
    PROVE  /\ Good(t) /\ s.stale \subseteq t.stale
           /\ t.poll.backend = s.poll.backend /\ t.poll.events = s.poll.events
           /\ t.poll.readable \subseteq s.poll.readable /\ t.poll.writable \subseteq s.poll.writable
           /\ t.poll.err \subseteq s.poll.err
           /\ \A e \in Fds : t.fds[e] = s.fds[e] \/ e \in t.stale
           /\ \A d \in Objects :
                \/ t.conn[d] = Closed(s.conn[d].ptimer) /\ s.conn[d].fd \in t.stale /\ ~s.conn[d].buf
                \/ t.sock[d] = s.sock[d] /\ ~s.conn[d].live /\ t.conn[d] = s.conn[d]
                \/ /\ t.sock[d] = s.sock[d] /\ s.conn[d].live /\ s.conn[d].buf
                   /\ t.conn[d] = Flushing(s.conn[d])
           /\ \A d \in Objects : t.conn[d].live => t.fds[t.conn[d].fd] = d
  <1> DEFINE known == {c \in Objects : s.conn[c].live /\ s.fds[s.conn[c].fd] = c}
             now == {c \in known : CloseNow(s, c)}
             gone == {s.conn[c].fd : c \in now}
             kept == {s.conn[c].fd : c \in known \ now}
             p0 == Forget(s.poll, gone)
             p == [p0 EXCEPT !.wantread = @ \ {s.conn[c].fd : c \in known}, !.wantwrite = @ \cup kept]
             C(c) == [s.conn[c] EXCEPT !.wantread = FALSE, !.wantwrite = TRUE, !.closing = TRUE]
             k == [c \in Objects |-> IF c \in now THEN Closed(s.conn[c].ptimer)
                                     ELSE IF c \in known THEN C(c) ELSE s.conn[c]]
             f == [fd \in Fds |-> IF fd \in gone THEN None ELSE s.fds[fd]]
             q == [c \in Objects |-> IF c \in now THEN NoSock ELSE s.sock[c]]
  <1>1. s \in State /\ Agree(s.poll, s.conn, s.fds) /\ s.poll \in PollState
    BY DEF Good, State
  <1>2. t = [poll |-> p, conn |-> k, fds |-> f, sock |-> q, stale |-> s.stale \cup gone]
    BY DEF CloseAll
  <1>3. known = {c \in Objects : s.conn[c].live}
    BY <1>1 DEF Agree
  <1>4. gone \subseteq Fds /\ kept \subseteq Fds
    BY <1>1, <1>3 DEF Agree
  <1>5. /\ p \in PollState /\ p.all = s.poll.all \ gone
        /\ p.wantread \subseteq s.poll.wantread /\ p.wantread = (s.poll.wantread \ gone) \ {s.conn[c].fd : c \in known}
        /\ p.wantwrite = (s.poll.wantwrite \ gone) \cup kept
        /\ p.backend = s.poll.backend /\ p.events = s.poll.events
        /\ p.readable \subseteq s.poll.readable /\ p.writable \subseteq s.poll.writable
        /\ p.err \subseteq s.poll.err
    <2> HIDE DEF gone, kept
    <2>1. p0 \in PollState /\ p0.all = s.poll.all \ gone /\ p0.wantread = s.poll.wantread \ gone
          /\ p0.wantwrite = s.poll.wantwrite \ gone
          /\ p0.backend = s.poll.backend /\ p0.events = s.poll.events
          /\ p0.readable \subseteq s.poll.readable /\ p0.writable \subseteq s.poll.writable
          /\ p0.err \subseteq s.poll.err
      BY <1>1, <1>4 DEF PollState, Forget
    <2> HIDE DEF p0
    <2> QED BY <2>1, <1>4 DEF PollState
  <1>6. \A c \in Objects : /\ C(c) \in Conn /\ C(c).live = s.conn[c].live /\ C(c).fd = s.conn[c].fd
                           /\ ~C(c).wantread /\ C(c).wantwrite
    <2> SUFFICES ASSUME NEW c \in Objects
                 PROVE  /\ C(c) \in Conn /\ C(c).live = s.conn[c].live /\ C(c).fd = s.conn[c].fd
                        /\ ~C(c).wantread /\ C(c).wantwrite
      OBVIOUS
    <2>1. s.conn[c] \in Conn
      BY <1>1 DEF State
    <2> QED BY <2>1 DEF Conn
  <1>7. \A c \in Objects : Closed(s.conn[c].ptimer) \in Conn /\ ~Closed(s.conn[c].ptimer).live
                           /\ Closed(s.conn[c].ptimer).fd \notin Fds
    BY <1>1, PollAssumption DEF Closed, Conn, State
  <1> HIDE DEF p, C
  <1>8. k \in [Objects -> Conn]
    BY <1>1, <1>6, <1>7 DEF State
  <1>9. f \in [Fds -> Objects \cup {None}] /\ q \in [Objects -> Sock]
    BY <1>1 DEF State, Sock, NoSock
  <1>10. t \in State
    <2>1. s.stale \cup gone \in SUBSET Fds
      BY <1>1, <1>4 DEF State
    <2> HIDE DEF gone, k, f, q
    <2> QED BY ONLY <1>2, <1>5, <1>8, <1>9, <2>1 DEF State
  <1>11. t.poll = p /\ t.conn = k /\ t.fds = f /\ t.sock = q /\ t.stale = s.stale \cup gone
    BY <1>2
  <1>12. \A d \in Objects : k[d] = IF d \in now THEN Closed(s.conn[d].ptimer)
                                   ELSE IF s.conn[d].live THEN C(d) ELSE s.conn[d]
    BY <1>3
  <1>13. \A d \in Objects : d \in now <=> s.conn[d].live /\ ~s.conn[d].buf
    BY <1>3 DEF CloseNow
  <1>14. \A d \in Objects : s.conn[d].live => (s.conn[d].fd \in gone <=> d \in now)
    BY <1>1, <1>3 DEF Agree
  <1>15. \A d \in Objects : s.conn[d].live /\ d \notin now => s.conn[d].fd \in kept
    BY <1>3
  <1>16. \A e \in Fds : e \in gone => s.fds[e] \in now /\ s.fds[e] \in Objects
    BY <1>1, <1>3 DEF Agree
  <1>17. \A e \in kept : e \in s.poll.all /\ e \notin gone
    <2> SUFFICES ASSUME NEW c \in known \ now PROVE s.conn[c].fd \in s.poll.all /\ s.conn[c].fd \notin gone
      OBVIOUS
    <2> QED BY <1>1, <1>3, <1>14, LoopAssumption DEF Agree, Objects, State
  <1>18. \A d \in Objects : s.conn[d].live => s.conn[d].fd \in {s.conn[c].fd : c \in known}
    BY <1>3
  <1>19. \A e \in Fds : f[e] = IF e \in gone THEN None ELSE s.fds[e]
    OBVIOUS
  <1>20. \A d \in Objects : q[d] = IF d \in now THEN NoSock ELSE s.sock[d]
    OBVIOUS
  <1> HIDE DEF k, f, q, now, gone, kept, known
  <1>21. Agree(p, k, f)
    <2>1. \A d \in Objects : k[d].live <=> k[d].fd \in Fds
      BY <1>1, <1>6, <1>7, <1>12 DEF Agree
    <2>2. \A d \in Objects : k[d].live =>
             /\ f[k[d].fd] = d
             /\ k[d].wantread <=> k[d].fd \in p.wantread
             /\ k[d].wantwrite <=> k[d].fd \in p.wantwrite
      <3> SUFFICES ASSUME NEW d \in Objects, k[d].live
                   PROVE  /\ f[k[d].fd] = d
                          /\ k[d].wantread <=> k[d].fd \in p.wantread
                          /\ k[d].wantwrite <=> k[d].fd \in p.wantwrite
        OBVIOUS
      <3>1. d \notin now /\ s.conn[d].live /\ k[d] = C(d)
        BY <1>7, <1>12
      <3>2. k[d].fd = s.conn[d].fd /\ s.conn[d].fd \in Fds
        BY <1>1, <1>6, <3>1 DEF Agree
      <3>3. s.conn[d].fd \notin gone /\ s.conn[d].fd \in kept
        BY <3>1, <1>14, <1>15
      <3>4. f[k[d].fd] = d
        BY <3>1, <3>2, <3>3, <1>1, <1>19 DEF Agree
      <3>5. k[d].fd \notin p.wantread /\ k[d].fd \in p.wantwrite
        BY <3>1, <3>2, <3>3, <1>5, <1>18
      <3> QED BY <3>1, <3>4, <3>5, <1>6
    <2>3. \A e \in Fds : f[e] # None => k[f[e]].live /\ k[f[e]].fd = e
      <3> SUFFICES ASSUME NEW e \in Fds, f[e] # None PROVE k[f[e]].live /\ k[f[e]].fd = e
        OBVIOUS
      <3>1. e \notin gone /\ f[e] = s.fds[e] /\ f[e] \in Objects
        BY <1>19, <1>9
      <3>2. s.conn[f[e]].live /\ s.conn[f[e]].fd = e
        BY <1>1, <3>1 DEF Agree
      <3>3. f[e] \notin now
        BY <3>1, <3>2, <1>14
      <3> QED BY <3>1, <3>2, <3>3, <1>6, <1>12
    <2>4. \A e \in Fds : e \in p.all <=> f[e] # None
      BY <1>1, <1>5, <1>19 DEF Agree
    <2>5. p.wantread \cup p.wantwrite \subseteq p.all
      BY <1>1, <1>5, <1>17 DEF Agree
    <2> QED BY <2>1, <2>2, <2>3, <2>4, <2>5 DEF Agree
  <1>22. \A e \in Fds : f[e] = s.fds[e] \/ e \in t.stale
    BY <1>11, <1>19
  <1>23. \A d \in Objects :
                \/ k[d] = Closed(s.conn[d].ptimer) /\ s.conn[d].fd \in t.stale /\ ~s.conn[d].buf
                \/ q[d] = s.sock[d] /\ ~s.conn[d].live /\ k[d] = s.conn[d]
                \/ q[d] = s.sock[d] /\ s.conn[d].live /\ s.conn[d].buf /\ k[d] = C(d)
    BY <1>11, <1>12, <1>13, <1>14, <1>20
  <1>24. \A d \in Objects : k[d].live => f[k[d].fd] = d
    BY <1>21 DEF Agree
  <1> QED BY <1>5, <1>10, <1>11, <1>21, <1>22, <1>23, <1>24 DEF Good, C, Flushing

(* Fields that are no registration are set.                                 *)
Same(K, L) == K.live = L.live /\ K.fd = L.fd /\ K.wantread = L.wantread /\ K.wantwrite = L.wantwrite
Put(s, c, K, Q) == [s EXCEPT !.conn = [s.conn EXCEPT ![c] = K], !.sock = [s.sock EXCEPT ![c] = Q]]

(* Fields of an object and of its socket that are no registration are set: *)
(* everything else stays.                                                  *)
LEMMA FieldsKeep ==
    ASSUME NEW s, Good(s), NEW c \in Objects, NEW K \in Conn, NEW Q \in Sock,
           Same(K, s.conn[c]),
           NEW t, t = Put(s, c, K, Q)
    PROVE  /\ Good(t) /\ t.fds = s.fds /\ t.stale = s.stale /\ t.poll = s.poll
           /\ \A d \in Objects : t.conn[d] = IF d = c THEN K ELSE s.conn[d]
           /\ \A d \in Objects : t.sock[d] = IF d = c THEN Q ELSE s.sock[d]
  <1> DEFINE k == [s.conn EXCEPT ![c] = K]
             q == [s.sock EXCEPT ![c] = Q]
  <1>1. s \in State
    BY DEF Good
  <1>2. k \in [Objects -> Conn] /\ q \in [Objects -> Sock]
        /\ \A d \in Objects : k[d] = (IF d = c THEN K ELSE s.conn[d]) /\ q[d] = (IF d = c THEN Q ELSE s.sock[d])
    BY <1>1 DEF State
  <1> HIDE DEF k, q
  <1>3. t = [s EXCEPT !.conn = k, !.sock = q]
    BY DEF k, q, Put
  <1>4. t \in State /\ t.fds = s.fds /\ t.stale = s.stale /\ t.poll = s.poll /\ t.conn = k /\ t.sock = q
    BY <1>1, <1>2, <1>3 DEF State
  <1>5. \A d \in Objects : /\ t.conn[d].live = s.conn[d].live /\ t.conn[d].fd = s.conn[d].fd
                           /\ t.conn[d].wantread = s.conn[d].wantread
                           /\ t.conn[d].wantwrite = s.conn[d].wantwrite
    BY <1>2, <1>4 DEF Same
  <1>6. t.poll.all = s.poll.all /\ t.poll.wantread = s.poll.wantread /\ t.poll.wantwrite = s.poll.wantwrite
    BY <1>4
  <1>7. Good(t)
    BY ONLY Good(s), <1>4, <1>5, <1>6, RestKeeps
  <1> QED BY <1>2, <1>4, <1>7

(* The same, and then interface:set.                                       *)
LEMMA FieldsSet ==
    ASSUME NEW s, Good(s), NEW c \in Objects, NEW K \in Conn, s.conn[c].live,
           Same(K, s.conn[c]),
           NEW r \in BOOLEAN, NEW w \in BOOLEAN,
           NEW t, t = IfSet(Put(s, c, K, s.sock[c]), c, r, w)
    PROVE  /\ Good(t) /\ t.fds = s.fds /\ t.stale = s.stale
           /\ Batch(t.poll) = Batch(s.poll)
           /\ \A d \in Objects : t.conn[d] = IF d = c THEN Wants(K, r, w) ELSE s.conn[d]
           /\ \A d \in Objects : t.sock[d] = s.sock[d]
  <1>1. s \in State
    BY DEF Good
  <1>2. PICK Q \in Sock : Q = s.sock[c]
    BY <1>1 DEF State
  <1>3. PICK u : u = Put(s, c, K, Q)
    OBVIOUS
  <1>4. /\ Good(u) /\ u.fds = s.fds /\ u.stale = s.stale /\ u.poll = s.poll
        /\ \A d \in Objects : u.conn[d] = IF d = c THEN K ELSE s.conn[d]
        /\ \A d \in Objects : u.sock[d] = IF d = c THEN Q ELSE s.sock[d]
    BY <1>3, FieldsKeep
  <1>5. u.conn[c] = K /\ u.conn[c].live
    BY <1>4 DEF Same
  <1>6. t = IfSet(u, c, r, w)
    BY <1>2, <1>3
  <1>7. /\ Good(t) /\ t.fds = u.fds /\ t.sock = u.sock /\ t.stale = u.stale
        /\ Batch(t.poll) = Batch(u.poll)
        /\ \A d \in Objects : t.conn[d] = IF d = c THEN Wants(u.conn[c], r, w) ELSE u.conn[d]
    BY <1>4, <1>5, <1>6, SetKeeps
  <1> QED BY <1>2, <1>4, <1>5, <1>7
-----------------------------------------------------------------------------
Tags == {"read", "write", "listener", "tail", "send", "destroy", "resume"}

Has(todo, tag) == \E i \in 1..Len(todo) : todo[i] = tag

(* The handler that runs will come to one of the steps in T for c.          *)
Due(c, T) == pc.self = c /\ \E tag \in T : Has(pc.todo, tag)

Watch(k, q) ==
    /\ k.buf => k.wantwrite /\ k.wtimer
    /\ q.st = "connecting" /\ ~k.misled => k.wantwrite /\ k.wtimer
    /\ k.closing => k.buf

(* An open connection; destroyed, looked and written are what is due. *)
Sound(k, q, destroyed, looked, written) ==
    k.live =>
        /\ k.told /\ q.st = "connecting" => k.misled
        /\ q.in \/ k.dirty => q.st # "connecting"
        /\ destroyed \/ Watch(k, q)
        /\ k.dirty => k.ptimer \/ looked
        /\ written => q.st # "connecting" \/ k.misled

(* Events that are fetched and not handed out yet: a descriptor found       *)
(* writable has been closed since, or belongs to a connection that is there.*)
Reported(p, fd) ==
    \/ \E i \in 1..Len(p.events) : p.events[i].fd = fd /\ p.events[i].w
    \/ fd \in p.writable
Fetched(p, f, q, old, intr) ==
    /\ p.backend = "epoll" => p.readable = {} /\ p.writable = {} /\ p.err = {}
    /\ p.backend = "select" => p.events = <<>>
    /\ intr \/ \A fd \in Fds : Reported(p, fd) =>
                  fd \in old \/ (f[fd] # None /\ q[f[fd]].st # "connecting")

PcInv ==
    /\ pc \in [self : Objects \cup {None}, todo : Seq(Tags)]
    /\ pc.self = None => \A tag \in Tags : Has(pc.todo, tag) => tag = "listener"

ConnInv ==
    \A c \in Conns :
        Sound(conn[c], sock[c], Due(c, {"destroy"}), Due(c, {"read", "tail"}), Due(c, {"write", "send"}))

LoopInv ==
    /\ Good(S0) /\ PcInv /\ ConnInv
    /\ quitting \in BOOLEAN /\ interrupted \in BOOLEAN
    /\ Fetched(poll, fds, sock, stale, interrupted)

(* What is in a list of steps that is written down.                        *)
LEMMA HasShort ==
    ASSUME NEW a, NEW b, NEW tag
    PROVE  /\ ~Has(<<>>, tag)
           /\ Has(<<a>>, tag) <=> tag = a
           /\ Has(<<a, b>>, tag) <=> tag = a \/ tag = b
  <1>1. ~Has(<<>>, tag)
    BY DEF Has
  <1>2. Has(<<a>>, tag) <=> tag = a
    BY DEF Has
  <1>3. Has(<<a, b>>, tag) <=> tag = a \/ tag = b
    <2>1. 1..Len(<<a, b>>) = {1, 2} /\ <<a, b>>[1] = a /\ <<a, b>>[2] = b
      OBVIOUS
    <2> QED BY ONLY <2>1 DEF Has
  <1> QED BY <1>1, <1>2, <1>3

(* What is in two lists one after the other.                               *)
LEMMA HasJoined ==
    ASSUME NEW S, NEW s \in Seq(S), NEW t \in Seq(S), NEW tag
    PROVE  Has(s \o t, tag) <=> Has(s, tag) \/ Has(t, tag)
  <1>1. Len(s) \in Nat /\ Len(t) \in Nat /\ Len(s \o t) = Len(s) + Len(t)
    OBVIOUS
  <1>2. \A i \in 1..Len(s) : (s \o t)[i] = s[i]
    OBVIOUS
  <1>3. \A i \in 1..Len(t) : (s \o t)[Len(s) + i] = t[i]
    OBVIOUS
  <1>4. ASSUME Has(s \o t, tag) PROVE Has(s, tag) \/ Has(t, tag)
    <2>1. PICK i \in 1..Len(s) + Len(t) : (s \o t)[i] = tag
      BY <1>1, <1>4 DEF Has
    <2>2. CASE i <= Len(s)
      BY <2>1, <2>2, <1>1, <1>2 DEF Has
    <2>3. CASE i > Len(s)
      <3>1. i - Len(s) \in 1..Len(t) /\ Len(s) + (i - Len(s)) = i
        BY <2>1, <2>3, <1>1
      <3> QED BY <3>1, <2>1, <1>3 DEF Has
    <2> QED BY <2>1, <2>2, <2>3, <1>1
  <1>5. ASSUME Has(s, tag) PROVE Has(s \o t, tag)
    <2>1. PICK i \in 1..Len(s) : s[i] = tag
      BY <1>5 DEF Has
    <2>2. i \in 1..Len(s \o t) /\ (s \o t)[i] = tag
      BY <2>1, <1>1, <1>2
    <2> QED BY ONLY <2>2 DEF Has
  <1>6. ASSUME Has(t, tag) PROVE Has(s \o t, tag)
    <2>1. PICK i \in 1..Len(t) : t[i] = tag
      BY <1>6 DEF Has
    <2>2. Len(s) + i \in 1..Len(s \o t) /\ (s \o t)[Len(s) + i] = tag
      BY <2>1, <1>1, <1>3
    <2> QED BY ONLY <2>2 DEF Has
  <1> QED BY <1>4, <1>5, <1>6

(* The step at the head of the list is replaced by others; what was to be  *)
(* done after it still is.                                                 *)
LEMMA ThenFacts ==
    ASSUME PcInv, NEW now \in Tags, At(now), NEW tags \in Seq(Tags), Then(tags)
    PROVE  /\ pc' \in [self : Objects \cup {None}, todo : Seq(Tags)] /\ pc'.self = pc.self
           /\ \A tag : Has(pc'.todo, tag) <=> Has(tags, tag) \/ Has(Tail(pc.todo), tag)
           /\ \A tag : Has(pc.todo, tag) <=> tag = now \/ Has(Tail(pc.todo), tag)
           /\ now # "listener" => pc.self \in Objects
  <1>1. pc \in [self : Objects \cup {None}, todo : Seq(Tags)] /\ pc.todo # <<>> /\ Head(pc.todo) = now
    BY DEF PcInv, At, Idle
  <1>2. pc.todo \in Seq(Tags) /\ Tail(pc.todo) \in Seq(Tags)
    BY <1>1
  <1>3. pc'.todo = tags \o Tail(pc.todo) /\ pc'.self = pc.self /\ pc' \in [self : Objects \cup {None}, todo : Seq(Tags)]
    <2>1. tags \o Tail(pc.todo) \in Seq(Tags)
      BY <1>2, ConcatProperties
    <2> DEFINE new == tags \o Tail(pc.todo)
    <2>2. pc' = [pc EXCEPT !.todo = new]
      BY DEF Then
    <2> HIDE DEF new
    <2>3. pc'.todo = new /\ pc'.self = pc.self /\ pc' \in [self : Objects \cup {None}, todo : Seq(Tags)]
      BY <1>1, <2>1, <2>2 DEF new
    <2> QED BY <2>3 DEF new
  <1>4. \A tag : Has(pc'.todo, tag) <=> Has(tags, tag) \/ Has(Tail(pc.todo), tag)
    <2> SUFFICES ASSUME NEW tag PROVE Has(tags \o Tail(pc.todo), tag) <=> Has(tags, tag) \/ Has(Tail(pc.todo), tag)
      BY <1>3
    <2> QED BY <1>2, HasJoined
  <1>5. pc.todo = <<now>> \o Tail(pc.todo) /\ <<now>> \in Seq(Tags)
    BY <1>1, <1>2
  <1>6. \A tag : Has(pc.todo, tag) <=> tag = now \/ Has(Tail(pc.todo), tag)
    <2> SUFFICES ASSUME NEW tag PROVE Has(pc.todo, tag) <=> tag = now \/ Has(Tail(pc.todo), tag)
      OBVIOUS
    <2>1. Has(<<now>> \o Tail(pc.todo), tag) <=> Has(<<now>>, tag) \/ Has(Tail(pc.todo), tag)
      BY <1>2, <1>5, HasJoined
    <2> QED BY <2>1, <1>5, HasShort
  <1> QED BY <1>1, <1>3, <1>4, <1>6 DEF PcInv
-----------------------------------------------------------------------------
(* What no call of an interface does: bring back an event, or take a        *)
(* registered descriptor away without leaving it among the stale ones.      *)
Later(s, t) ==
    /\ t.poll.backend = s.poll.backend /\ t.poll.events = s.poll.events
    /\ t.poll.readable \subseteq s.poll.readable /\ t.poll.writable \subseteq s.poll.writable
    /\ t.poll.err \subseteq s.poll.err
    /\ s.stale \subseteq t.stale
    /\ \A e \in Fds : s.fds[e] # None /\ e \notin t.stale =>
          /\ t.fds[e] = s.fds[e]
          /\ s.sock[s.fds[e]].st # "connecting" => t.sock[s.fds[e]].st # "connecting"

(* No call of an interface makes an event that was fetched unaccounted for.*)
LEMMA FetchedKeeps ==
    ASSUME NEW s, NEW t, s \in State, t \in State, Later(s, t), NEW intr \in BOOLEAN,
           Fetched(s.poll, s.fds, s.sock, s.stale, intr)
    PROVE  Fetched(t.poll, t.fds, t.sock, t.stale, intr)
  <1>1. t.poll.backend = "epoll" => t.poll.readable = {} /\ t.poll.writable = {} /\ t.poll.err = {}
    BY DEF Fetched, Later
  <1>2. t.poll.backend = "select" => t.poll.events = <<>>
    BY DEF Fetched, Later
  <1>3. ASSUME ~intr, NEW fd \in Fds, Reported(t.poll, fd)
        PROVE  fd \in t.stale \/ (t.fds[fd] # None /\ t.sock[t.fds[fd]].st # "connecting")
    <2>1. Reported(s.poll, fd)
      BY <1>3 DEF Reported, Later
    <2>2. fd \in s.stale \/ (s.fds[fd] # None /\ s.sock[s.fds[fd]].st # "connecting")
      BY <1>3, <2>1 DEF Fetched
    <2> QED BY <2>2 DEF Later
  <1> QED BY <1>1, <1>2, <1>3 DEF Fetched

(* The state a handler has made becomes the state.                         *)
LEMMA BecomeFacts ==
    ASSUME NEW t, Good(t), Become(t)
    PROVE  /\ poll' = t.poll /\ conn' = t.conn /\ fds' = t.fds /\ sock' = t.sock /\ stale' = t.stale
           /\ Good(S0')
  <1>1. t \in State
    BY DEF Good
  <1>2. t = [poll |-> t.poll, conn |-> t.conn, fds |-> t.fds, sock |-> t.sock, stale |-> t.stale]
    BY <1>1 DEF State
  <1>3. t = S0'
    BY <1>2 DEF Become, S0
  <1> QED BY <1>3 DEF Become

(* One step of a handler, a listener or a timer keeps the invariant when it*)
(* leaves a good state, from which no event was forged, and each connection*)
(* sound with what is then due for it.                                     *)
LEMMA StepKeeps ==
    ASSUME LoopInv, NEW t, Good(t), Later(S0, t), Become(t),
           PcInv', quitting' \in BOOLEAN, interrupted' = interrupted,
           \A c \in Conns : Sound(t.conn[c], t.sock[c], Due(c, {"destroy"})', Due(c, {"read", "tail"})',
                                  Due(c, {"write", "send"})')
    PROVE  LoopInv'
  <1>1. /\ poll' = t.poll /\ conn' = t.conn /\ fds' = t.fds /\ sock' = t.sock /\ stale' = t.stale
        /\ Good(S0')
    BY BecomeFacts
  <1>2. ConnInv'
    BY <1>1 DEF ConnInv
  <1>3. Fetched(t.poll, t.fds, t.sock, t.stale, interrupted)
    <2>1. Fetched(S0.poll, S0.fds, S0.sock, S0.stale, interrupted) /\ interrupted \in BOOLEAN
      BY DEF LoopInv, S0
    <2>2. S0 \in State /\ t \in State
      BY DEF LoopInv, Good
    <2> QED BY <2>1, <2>2, FetchedKeeps
  <1>4. interrupted \in BOOLEAN
    BY DEF LoopInv
  <1> QED BY <1>1, <1>2, <1>3, <1>4 DEF LoopInv

(* What the invariant says of the state the handlers work on.              *)
LEMMA StepsFacts ==
    ASSUME LoopInv
    PROVE  /\ S0.poll = poll /\ S0.conn = conn /\ S0.fds = fds /\ S0.sock = sock /\ S0.stale = stale
           /\ Good(S0) /\ S0 \in State /\ conn \in [Objects -> Conn] /\ sock \in [Objects -> Sock]
           /\ Later(S0, S0)
  <1>1. /\ S0.poll = poll /\ S0.conn = conn /\ S0.fds = fds /\ S0.sock = sock /\ S0.stale = stale
    BY DEF S0
  <1>2. Good(S0) /\ S0 \in State
    BY DEF LoopInv, Good
  <1>3. conn \in [Objects -> Conn] /\ sock \in [Objects -> Sock]
    BY <1>1, <1>2 DEF State
  <1> QED BY <1>1, <1>2, <1>3 DEF Later

(* Sound, when the steps in tags and then the rest of the handler are to be *)
(* done for the connection.                                                 *)
Left(tag) == Has(Tail(pc.todo), tag)
SoundWith(k, q, tags) ==
    Sound(k, q, Has(tags, "destroy") \/ Left("destroy"),
          Has(tags, "read") \/ Has(tags, "tail") \/ Left("read") \/ Left("tail"),
          Has(tags, "write") \/ Has(tags, "send") \/ Left("write") \/ Left("send"))

(* Sound with each of the lists a handler can leave at the head.           *)
LEMMA SoundLists ==
    ASSUME NEW k, NEW q
    PROVE  LET d == Left("destroy")
               r == Left("read") \/ Left("tail")
               w == Left("write") \/ Left("send")
           IN  /\ \A tags \in {<<>>, <<"listener">>, <<"resume">>} : SoundWith(k, q, tags) <=> Sound(k, q, d, r, w)
               /\ \A tags \in {<<"read">>, <<"tail">>, <<"listener", "tail">>} :
                        SoundWith(k, q, tags) <=> Sound(k, q, d, TRUE, w)
               /\ \A tags \in {<<"destroy">>, <<"listener", "destroy">>} :
                        SoundWith(k, q, tags) <=> Sound(k, q, TRUE, r, w)
               /\ \A tags \in {<<"write">>, <<"send">>, <<"listener", "send">>} :
                        SoundWith(k, q, tags) <=> Sound(k, q, d, r, TRUE)
  <1>1. \A tag : ~Has(<<>>, tag)
    BY HasShort
  <1>2. \A a, tag : Has(<<a>>, tag) <=> tag = a
    BY HasShort
  <1>3. \A a, b, tag : Has(<<a, b>>, tag) <=> tag = a \/ tag = b
    BY HasShort
  <1>4. \A tags \in {<<>>, <<"listener">>, <<"resume">>} :
           SoundWith(k, q, tags) <=> Sound(k, q, Left("destroy"), Left("read") \/ Left("tail"), Left("write") \/ Left("send"))
    BY <1>1, <1>2 DEF Sound, SoundWith
  <1>5. \A tags \in {<<"read">>, <<"tail">>, <<"listener", "tail">>} :
           SoundWith(k, q, tags) <=> Sound(k, q, Left("destroy"), TRUE, Left("write") \/ Left("send"))
    BY <1>2, <1>3 DEF Sound, SoundWith
  <1>6. \A tags \in {<<"destroy">>, <<"listener", "destroy">>} :
           SoundWith(k, q, tags) <=> Sound(k, q, TRUE, Left("read") \/ Left("tail"), Left("write") \/ Left("send"))
    BY <1>2, <1>3 DEF Sound, SoundWith
  <1>7. \A tags \in {<<"write">>, <<"send">>, <<"listener", "send">>} :
           SoundWith(k, q, tags) <=> Sound(k, q, Left("destroy"), Left("read") \/ Left("tail"), TRUE)
    BY <1>2, <1>3 DEF Sound, SoundWith
  <1> QED BY <1>4, <1>5, <1>6, <1>7

(* The object of the handler that runs: only a listener may run for no     *)
(* object, and the object is sound with the step at the head due.          *)
LEMMA SelfFacts ==
    ASSUME LoopInv, NEW now \in Tags, At(now)
    PROVE  /\ now # "listener" => pc.self \in Objects
           /\ pc.self \in Conns => SoundWith(conn[pc.self], sock[pc.self], <<now>>)
           /\ \A tag : Has(pc.todo, tag) <=> tag = now \/ Left(tag)
  <1>1. PcInv /\ ConnInv
    BY DEF LoopInv
  <1>2. pc.todo # <<>> /\ Head(pc.todo) = now /\ pc.todo \in Seq(Tags)
    BY <1>1 DEF PcInv, At, Idle
  <1>3. Tail(pc.todo) \in Seq(Tags) /\ <<now>> \in Seq(Tags) /\ pc.todo = <<now>> \o Tail(pc.todo)
    BY <1>2
  <1>4. ASSUME NEW tag PROVE Has(pc.todo, tag) <=> Has(<<now>>, tag) \/ Left(tag)
    <2>1. Has(<<now>> \o Tail(pc.todo), tag) <=> Has(<<now>>, tag) \/ Has(Tail(pc.todo), tag)
      BY <1>3, HasJoined
    <2> QED BY <2>1, <1>3 DEF Left
  <1>5. \A tag : Has(pc.todo, tag) <=> tag = now \/ Left(tag)
    BY <1>4, HasShort
  <1>6. ASSUME now # "listener" PROVE pc.self \in Objects
    BY <1>1, <1>5, <1>6 DEF PcInv
  <1>7. ASSUME pc.self \in Conns PROVE SoundWith(conn[pc.self], sock[pc.self], <<now>>)
    <2>1. Sound(conn[pc.self], sock[pc.self], Due(pc.self, {"destroy"}), Due(pc.self, {"read", "tail"}),
                Due(pc.self, {"write", "send"}))
      BY <1>1, <1>7 DEF ConnInv
    <2>2. Due(pc.self, {"destroy"}) <=> Has(<<now>>, "destroy") \/ Left("destroy")
      BY <1>4 DEF Due
    <2>3. Due(pc.self, {"read", "tail"}) <=>
            Has(<<now>>, "read") \/ Has(<<now>>, "tail") \/ Left("read") \/ Left("tail")
      BY <1>4 DEF Due
    <2>4. Due(pc.self, {"write", "send"}) <=>
            Has(<<now>>, "write") \/ Has(<<now>>, "send") \/ Left("write") \/ Left("send")
      BY <1>4 DEF Due
    <2> QED BY <2>1, <2>2, <2>3, <2>4 DEF Sound, SoundWith
  <1> QED BY <1>5, <1>6, <1>7

(* The step at the head is done, others take its place, and only the object*)
(* of the handler is changed.                                              *)
LEMMA HandlerKeeps ==
    ASSUME LoopInv, NEW now \in Tags, At(now), NEW tags \in Seq(Tags), Then(tags), Skip, now # "listener",
           NEW t, Good(t), Later(S0, t), Become(t),
           \A d \in Conns : d # pc.self => t.conn[d] = conn[d] /\ t.sock[d] = sock[d],
           pc.self \in Conns => SoundWith(t.conn[pc.self], t.sock[pc.self], tags)
    PROVE  LoopInv'
  <1>1. PcInv /\ ConnInv /\ quitting \in BOOLEAN
    BY DEF LoopInv
  <1>2. /\ pc' \in [self : Objects \cup {None}, todo : Seq(Tags)] /\ pc'.self = pc.self
        /\ \A tag : Has(pc'.todo, tag) <=> Has(tags, tag) \/ Left(tag)
        /\ pc.self \in Objects
    BY <1>1, ThenFacts DEF Left
  <1>3. PcInv'
    <2>1. pc'.self # None
      BY <1>2, LoopAssumption DEF Objects
    <2> QED BY <1>2, <2>1 DEF PcInv
  <1>4. ASSUME NEW c \in Conns
        PROVE Sound(t.conn[c], t.sock[c], Due(c, {"destroy"})', Due(c, {"read", "tail"})', Due(c, {"write", "send"})')
    <2>1. CASE c = pc.self
      <3>1. \A T : Due(c, T)' <=> \E tag \in T : Has(tags, tag) \/ Left(tag)
        BY <1>2, <2>1 DEF Due
      <3> QED BY <2>1, <3>1 DEF Sound, SoundWith
    <2>2. CASE c # pc.self
      <3>1. \A T : ~Due(c, T)' /\ ~Due(c, T)
        BY <1>2, <2>2 DEF Due
      <3>2. Sound(conn[c], sock[c], Due(c, {"destroy"}), Due(c, {"read", "tail"}), Due(c, {"write", "send"}))
        BY <1>1 DEF ConnInv
      <3> QED BY <2>2, <3>1, <3>2 DEF Sound
    <2> QED BY <2>1, <2>2
  <1> QED BY <1>1, <1>3, <1>4, StepKeeps DEF Skip

(* Later holds of the calls that register and forget nothing: set, and the *)
(* fields.                                                                 *)
LEMMA FieldsLater ==
    ASSUME NEW s, Good(s), NEW t, t.fds = s.fds, t.stale = s.stale, Batch(t.poll) = Batch(s.poll),
           NEW c \in Objects, \A d \in Objects : d # c => t.sock[d].st = s.sock[d].st,
           s.sock[c].st # "connecting" => t.sock[c].st # "connecting"
    PROVE  Later(s, t)
  <1>1. s \in State
    BY DEF Good
  <1>2. \A e \in Fds : s.fds[e] # None => s.fds[e] \in Objects
    BY <1>1 DEF State
  <1> QED BY <1>2 DEF Later, Batch

(* Later holds of interface:destroy: the number it frees is among the stale*)
(* ones.                                                                   *)
LEMMA DestroyLater ==
    ASSUME NEW s, Good(s), NEW c \in Objects, s.conn[c].live, NEW t, t = IfDestroy(s, c)
    PROVE  Later(s, t)
  <1>1. s \in State /\ Agree(s.poll, s.conn, s.fds)
    BY DEF Good
  <1>2. /\ \A e \in Fds : t.fds[e] = IF e = s.conn[c].fd THEN None ELSE s.fds[e]
        /\ \A d \in Objects : t.sock[d] = IF d = c THEN NoSock ELSE s.sock[d]
        /\ t.stale = s.stale \cup {s.conn[c].fd}
        /\ t.poll.backend = s.poll.backend /\ t.poll.events = s.poll.events
        /\ t.poll.readable \subseteq s.poll.readable /\ t.poll.writable \subseteq s.poll.writable
        /\ t.poll.err \subseteq s.poll.err
    BY DestroyKeeps
  <1>3. ASSUME NEW e \in Fds, s.fds[e] # None, e \notin t.stale
        PROVE  t.fds[e] = s.fds[e] /\ t.sock[s.fds[e]] = s.sock[s.fds[e]]
    <2>1. e # s.conn[c].fd /\ s.fds[e] \in Objects
      BY <1>1, <1>2, <1>3 DEF State
    <2>2. s.fds[e] # c
      BY <1>1, <1>3, <2>1 DEF Agree
    <2> QED BY <1>1, <1>2, <2>1, <2>2 DEF State
  <1> QED BY <1>2, <1>3 DEF Later

(* Later holds of interface:add: the number it registers belonged to       *)
(* nobody.                                                                 *)
LEMMA AddLater ==
    ASSUME NEW s, Good(s), NEW c \in Objects, NEW K \in Conn, Fits(s, c, K), NEW Q \in Sock, NEW r \in BOOLEAN, NEW w \in BOOLEAN,
           NEW t, t = IfAdd(Opened(s, c, K, Q), c, r, w)
    PROVE  Later(s, t)
  <1>1. s \in State /\ Agree(s.poll, s.conn, s.fds)
    BY DEF Good
  <1>2. /\ \A e \in Fds : t.fds[e] = IF e = K.fd THEN c ELSE s.fds[e]
        /\ \A d \in Objects : t.sock[d] = IF d = c THEN Q ELSE s.sock[d]
        /\ t.stale = s.stale
        /\ t.poll.backend = s.poll.backend /\ t.poll.events = s.poll.events
        /\ t.poll.readable \subseteq s.poll.readable /\ t.poll.writable \subseteq s.poll.writable
        /\ t.poll.err \subseteq s.poll.err
    BY AddKeeps
  <1>3. ASSUME NEW e \in Fds, s.fds[e] # None
        PROVE  t.fds[e] = s.fds[e] /\ t.sock[s.fds[e]] = s.sock[s.fds[e]]
    <2>1. s.fds[e] \in Objects /\ s.conn[s.fds[e]].live /\ s.conn[s.fds[e]].fd = e
      BY <1>1, <1>3 DEF State, Agree
    <2>2. s.fds[e] # c /\ e # K.fd
      BY <2>1 DEF Fits
    <2> QED BY <1>1, <1>2, <2>1, <2>2 DEF State
  <1> QED BY <1>2, <1>3 DEF Later

(* Later holds of closeall.                                                *)
LEMMA CloseAllLater ==
    ASSUME NEW s, Good(s), NEW t, t = CloseAll(s)
    PROVE  Later(s, t)
  <1>1. s \in State /\ Agree(s.poll, s.conn, s.fds)
    BY DEF Good
  <1>2. /\ s.stale \subseteq t.stale
        /\ t.poll.backend = s.poll.backend /\ t.poll.events = s.poll.events
        /\ t.poll.readable \subseteq s.poll.readable /\ t.poll.writable \subseteq s.poll.writable
        /\ t.poll.err \subseteq s.poll.err
        /\ \A e \in Fds : t.fds[e] = s.fds[e] \/ e \in t.stale
    BY CloseAllKeeps
  <1>3. \A d \in Objects : s.conn[d].fd \in t.stale \/ t.sock[d] = s.sock[d]
    BY CloseAllKeeps
  <1>4. ASSUME NEW e \in Fds, s.fds[e] # None, e \notin t.stale
        PROVE  t.fds[e] = s.fds[e] /\ t.sock[s.fds[e]] = s.sock[s.fds[e]]
    <2>1. s.fds[e] \in Objects /\ s.conn[s.fds[e]].fd = e
      BY <1>1, <1>4 DEF State, Agree
    <2> QED BY <1>2, <1>3, <1>4, <2>1
  <1> QED BY <1>2, <1>4 DEF Later

(* The lists of steps that are ever put in place of one.                   *)
LEMMA ListsTyped ==
    /\ <<>> \in Seq(Tags) /\ <<"tail">> \in Seq(Tags) /\ <<"listener", "tail">> \in Seq(Tags)
    /\ <<"listener", "destroy">> \in Seq(Tags) /\ <<"send">> \in Seq(Tags) /\ <<"listener", "send">> \in Seq(Tags)
    /\ <<"read">> \in Seq(Tags) /\ <<"write">> \in Seq(Tags) /\ <<"resume">> \in Seq(Tags)
    /\ <<"read", "resume">> \in Seq(Tags) /\ <<"listener">> \in Seq(Tags)
  BY DEF Tags

(* The step is done without any change, and the connection can do without  *)
(* it.                                                                     *)
LEMMA NothingKeeps ==
    ASSUME LoopInv, NEW now \in Tags, At(now), NEW tags \in Seq(Tags), Then(tags), Skip, now # "listener",
           Become(S0), pc.self \in Conns => SoundWith(conn[pc.self], sock[pc.self], tags)
    PROVE  LoopInv'
  BY HandlerKeeps, StepsFacts

(* A step of a handler sets fields of its object or of its socket.         *)
LEMMA PutKeeps ==
    ASSUME LoopInv, NEW now \in Tags, At(now), NEW tags \in Seq(Tags), Then(tags), Skip, now # "listener",
           NEW K \in Conn, NEW Q \in Sock, Same(K, conn[pc.self]), Q.st = sock[pc.self].st,
           Become(Put(S0, pc.self, K, Q)), pc.self \in Conns => SoundWith(K, Q, tags)
    PROVE  LoopInv'
  <1>1. pc.self \in Objects
    BY SelfFacts
  <1>2. PICK t : t = Put(S0, pc.self, K, Q)
    OBVIOUS
  <1>3. /\ Good(t) /\ t.fds = S0.fds /\ t.stale = S0.stale /\ t.poll = S0.poll
        /\ \A d \in Objects : t.conn[d] = IF d = pc.self THEN K ELSE S0.conn[d]
        /\ \A d \in Objects : t.sock[d] = IF d = pc.self THEN Q ELSE S0.sock[d]
    BY <1>1, <1>2, FieldsKeep, StepsFacts
  <1>4. Later(S0, t)
    <2>1. Batch(t.poll) = Batch(S0.poll)
      BY <1>3
    <2>2. \A d \in Objects : d # pc.self => t.sock[d].st = S0.sock[d].st
      BY <1>3
    <2>3. t.sock[pc.self].st = S0.sock[pc.self].st
      BY <1>1, <1>3, StepsFacts
    <2> QED BY <1>1, <1>3, <2>1, <2>2, <2>3, FieldsLater, StepsFacts
  <1>5. \A d \in Conns : d # pc.self => t.conn[d] = conn[d] /\ t.sock[d] = sock[d]
    BY <1>3, StepsFacts DEF Objects
  <1>6. t.conn[pc.self] = K /\ t.sock[pc.self] = Q
    BY <1>1, <1>3
  <1> QED BY <1>2, <1>3, <1>4, <1>5, <1>6, HandlerKeeps

(* onreadable: after a read the rest of onreadable is due, after an error  *)
(* destroy.                                                                *)
LEMMA OnReadableKeeps ==
    ASSUME LoopInv, OnReadable
    PROVE  LoopInv'
  <1> DEFINE c == pc.self
  <1>0. "read" \in Tags /\ At("read") /\ c # Server /\ Skip
    BY DEF OnReadable, Tags
  <1>1. c \in Conns /\ SoundWith(conn[c], sock[c], <<"read">>)
    BY <1>0, SelfFacts DEF Objects
  <1>2. conn[c] \in Conn /\ sock[c] \in Sock
    BY <1>1, StepsFacts DEF Objects
  <1>3. Sound(conn[c], sock[c], Left("destroy"), TRUE, Left("write") \/ Left("send"))
    BY <1>1, SoundLists
  <1>5. CASE ~conn[c].live /\ Then(<<>>) /\ Become(S0)
    <2>1. SoundWith(conn[c], sock[c], <<>>)
      BY <1>5 DEF SoundWith, Sound
    <2> QED BY <1>5, <1>0, <2>1, ListsTyped, NothingKeeps
  <1>6. CASE /\ conn[c].live /\ (sock[c].in \/ conn[c].dirty)
             /\ \E more \in BOOLEAN : Become([S0 EXCEPT !.conn[c].told = TRUE, !.conn[c].dirty = more,
                                                        !.sock[c].in = FALSE])
             /\ Then(<<"listener", "tail">>)
    <2>1. PICK more \in BOOLEAN : Become([S0 EXCEPT !.conn[c].told = TRUE, !.conn[c].dirty = more,
                                                    !.sock[c].in = FALSE])
      BY <1>6
    <2> DEFINE K == [conn[c] EXCEPT !.told = TRUE, !.dirty = more]
               Q == [sock[c] EXCEPT !.in = FALSE]
    <2>2. K \in Conn /\ Q \in Sock /\ Same(K, conn[c]) /\ Q.st = sock[c].st /\ K.live = conn[c].live /\ ~Q.in
          /\ K.buf = conn[c].buf /\ K.wtimer = conn[c].wtimer /\ K.wantwrite = conn[c].wantwrite
          /\ K.closing = conn[c].closing /\ K.misled = conn[c].misled
      BY <1>2 DEF Conn, Sock, Same
    <2>3. [S0 EXCEPT !.conn[c].told = TRUE, !.conn[c].dirty = more, !.sock[c].in = FALSE] = Put(S0, c, K, Q)
      <3>1. [[conn EXCEPT ![c].told = TRUE] EXCEPT ![c].dirty = more] = [conn EXCEPT ![c] = K]
        BY <1>1, StepsFacts DEF Objects
      <3>2. [sock EXCEPT ![c].in = FALSE] = [sock EXCEPT ![c] = Q]
        BY <1>1, StepsFacts DEF Objects
      <3> HIDE DEF K, Q
      <3> QED BY <3>1, <3>2, StepsFacts DEF Put, S0
    <2>4. Become(Put(S0, c, K, Q))
      BY <2>1, <2>3
    <2> HIDE DEF K, Q
    <2>7. Sound(K, Q, Left("destroy"), TRUE, Left("write") \/ Left("send"))
      BY <1>3, <1>6, <2>2 DEF Sound, Watch
    <2>8. SoundWith(K, Q, <<"listener", "tail">>)
      BY <2>7, SoundLists
    <2> QED BY <1>0, <1>6, <2>2, <2>4, <2>8, ListsTyped, PutKeeps
  <1>7. CASE conn[c].live /\ ~conn[c].dirty /\ Then(<<"tail">>) /\ Become(S0)
    <2>1. SoundWith(conn[c], sock[c], <<"tail">>)
      BY <1>3, SoundLists
    <2> QED BY <1>0, <1>7, <2>1, ListsTyped, NothingKeeps
  <1>8. CASE conn[c].live /\ ~conn[c].dirty /\ Then(<<"listener", "destroy">>) /\ Become(S0)
    <2>1. Sound(conn[c], sock[c], TRUE, Left("read") \/ Left("tail"), Left("write") \/ Left("send"))
      BY <1>3, <1>8 DEF Sound
    <2>2. SoundWith(conn[c], sock[c], <<"listener", "destroy">>)
      BY <2>1, SoundLists
    <2> QED BY <1>0, <1>8, <2>2, ListsTyped, NothingKeeps
  <1> QED BY <1>5, <1>6, <1>7, <1>8 DEF OnReadable

(* A step of a handler sets fields of its object and then calls            *)
(* interface:set.                                                          *)
LEMMA PutSetKeeps ==
    ASSUME LoopInv, NEW now \in Tags, At(now), NEW tags \in Seq(Tags), Then(tags), Skip, now # "listener",
           conn[pc.self].live, NEW K \in Conn, Same(K, conn[pc.self]), NEW r \in BOOLEAN, NEW w \in BOOLEAN,
           Become(IfSet(Put(S0, pc.self, K, sock[pc.self]), pc.self, r, w)),
           pc.self \in Conns => SoundWith(Wants(K, r, w), sock[pc.self], tags)
    PROVE  LoopInv'
  <1>1. pc.self \in Objects
    BY SelfFacts
  <1>2. PICK t : t = IfSet(Put(S0, pc.self, K, S0.sock[pc.self]), pc.self, r, w)
    OBVIOUS
  <1>3. /\ Good(t) /\ t.fds = S0.fds /\ t.stale = S0.stale
        /\ Batch(t.poll) = Batch(S0.poll)
        /\ \A d \in Objects : t.conn[d] = IF d = pc.self THEN Wants(K, r, w) ELSE S0.conn[d]
        /\ \A d \in Objects : t.sock[d] = S0.sock[d]
    <2>1. Good(S0) /\ S0.conn[pc.self].live /\ Same(K, S0.conn[pc.self])
      BY StepsFacts
    <2> QED BY <1>1, <1>2, <2>1, FieldsSet
  <1>4. Later(S0, t)
    <2>1. \A d \in Objects : d # pc.self => t.sock[d].st = S0.sock[d].st
      BY <1>3
    <2>2. t.sock[pc.self].st = S0.sock[pc.self].st
      BY <1>1, <1>3
    <2> QED BY <1>1, <1>3, <2>1, <2>2, FieldsLater, StepsFacts
  <1>5. \A d \in Conns : d # pc.self => t.conn[d] = conn[d] /\ t.sock[d] = sock[d]
    BY <1>3, StepsFacts DEF Objects
  <1>6. t.conn[pc.self] = Wants(K, r, w) /\ t.sock[pc.self] = sock[pc.self]
    BY <1>1, <1>3, StepsFacts
  <1>7. Become(t)
    BY <1>2, StepsFacts
  <1> QED BY <1>3, <1>4, <1>5, <1>6, <1>7, HandlerKeeps

(* What interface:set leaves of a connection. *)
OnlyWants(W, K, w) ==
    /\ W.wantwrite = w /\ W.live = K.live
    /\ W.told = K.told /\ W.buf = K.buf /\ W.dirty = K.dirty /\ W.closing = K.closing
    /\ W.wtimer = K.wtimer /\ W.ptimer = K.ptimer /\ W.misled = K.misled

(* interface:set changes two fields.                                       *)
LEMMA WantsFacts ==
    ASSUME NEW K \in Conn, NEW r \in BOOLEAN, NEW w \in BOOLEAN
    PROVE  Wants(K, r, w) \in Conn /\ OnlyWants(Wants(K, r, w), K, w)
  BY DEF Wants, Conn, OnlyWants

PutConn(s, c, K) == [s EXCEPT !.conn = [s.conn EXCEPT ![c] = K]]
PutSock(s, c, Q) == [s EXCEPT !.sock = [s.sock EXCEPT ![c] = Q]]

(* Only fields of the object, or of its socket, are set.                   *)
LEMMA PutForms ==
    ASSUME NEW s \in State, NEW c \in Objects, NEW K \in Conn, NEW Q \in Sock
    PROVE  Put(s, c, K, s.sock[c]) = PutConn(s, c, K) /\ Put(s, c, s.conn[c], Q) = PutSock(s, c, Q)
  <1>1. s.conn \in [Objects -> Conn] /\ s.sock \in [Objects -> Sock]
    BY DEF State
  <1>2. [s.sock EXCEPT ![c] = s.sock[c]] = s.sock /\ [s.conn EXCEPT ![c] = s.conn[c]] = s.conn
    BY <1>1
  <1>3. [s EXCEPT !.conn = [s.conn EXCEPT ![c] = K], !.sock = s.sock] = [s EXCEPT !.conn = [s.conn EXCEPT ![c] = K]]
    BY DEF State
  <1>4. [s EXCEPT !.conn = s.conn, !.sock = [s.sock EXCEPT ![c] = Q]] = [s EXCEPT !.sock = [s.sock EXCEPT ![c] = Q]]
    BY DEF State
  <1>5. Put(s, c, K, s.sock[c]) = [s EXCEPT !.conn = [s.conn EXCEPT ![c] = K]]
    BY <1>2, <1>3 DEF Put
  <1>6. Put(s, c, s.conn[c], Q) = [s EXCEPT !.sock = [s.sock EXCEPT ![c] = Q]]
    BY <1>2, <1>4 DEF Put
  <1> QED BY <1>5, <1>6 DEF PutConn, PutSock

(* interface:pausefor as a change of fields and interface:set.             *)
LEMMA PauseForm ==
    ASSUME LoopInv, NEW c \in Objects
    PROVE  IfPauseFor(S0, c) =
             IfSet(Put(S0, c, [conn[c] EXCEPT !.ptimer = TRUE], sock[c]), c, FALSE, conn[c].wantwrite)
  <1>0. PICK s \in State : s = S0 /\ s.conn = conn /\ s.sock = sock
    BY StepsFacts
  <1> DEFINE K == [s.conn[c] EXCEPT !.ptimer = TRUE]
             u == [s EXCEPT !.conn[c].ptimer = TRUE]
  <1>1. s.conn[c] \in Conn /\ s.conn \in [Objects -> Conn] /\ s.sock[c] \in Sock
    BY DEF State
  <1>2. [s.conn EXCEPT ![c].ptimer = TRUE] = [s.conn EXCEPT ![c] = K]
    BY <1>1
  <1>3. K \in Conn
    BY <1>1 DEF Conn
  <1>4. K.wantwrite = s.conn[c].wantwrite
    BY <1>1 DEF Conn
  <1> HIDE DEF K
  <1>5. u = [s EXCEPT !.conn = [s.conn EXCEPT ![c] = K]]
    BY <1>2
  <1>6. u = Put(s, c, K, s.sock[c])
    <2>1. u = PutConn(s, c, K)
      BY <1>5 DEF PutConn
    <2>2. PutConn(s, c, K) = Put(s, c, K, s.sock[c])
      BY <1>1, <1>3, PutForms
    <2> QED BY <2>1, <2>2
  <1>7. u.conn[c].wantwrite = s.conn[c].wantwrite
    <2>1. u.conn = [s.conn EXCEPT ![c] = K]
      BY <1>5 DEF State
    <2> QED BY <2>1, <1>1, <1>4
  <1> HIDE DEF u
  <1>8. IfPauseFor(s, c) = IfSet(u, c, FALSE, u.conn[c].wantwrite)
    BY DEF IfPauseFor, SetRead, u
  <1> QED BY <1>0, <1>6, <1>7, <1>8 DEF K

(* The end of onreadable: a connection left with data in the socket library*)
(* gets the timer of a pause.                                              *)
LEMMA OnReadableTailKeeps ==
    ASSUME LoopInv, OnReadableTail
    PROVE  LoopInv'
  <1> DEFINE c == pc.self
  <1>0. "tail" \in Tags /\ At("tail") /\ Then(<<>>) /\ Skip
    BY DEF OnReadableTail, Tags
  <1>1. c \in Objects /\ (c \in Conns => SoundWith(conn[c], sock[c], <<"tail">>))
    BY <1>0, SelfFacts
  <1>2. conn[c] \in Conn /\ sock[c] \in Sock
    BY <1>1, StepsFacts
  <1>3. c \in Conns => Sound(conn[c], sock[c], Left("destroy"), TRUE, Left("write") \/ Left("send"))
    BY <1>1, SoundLists
  <1>4. CASE conn[c].live /\ conn[c].dirty
    <2> DEFINE K == [conn[c] EXCEPT !.ptimer = TRUE]
    <2>1. K \in Conn /\ Same(K, conn[c]) /\ K.live = conn[c].live
          /\ K.buf = conn[c].buf /\ K.wtimer = conn[c].wtimer /\ K.wantwrite = conn[c].wantwrite
          /\ K.closing = conn[c].closing /\ K.misled = conn[c].misled /\ K.told = conn[c].told /\ K.ptimer
          /\ K.dirty = conn[c].dirty
      BY <1>2 DEF Conn, Same
    <2>2. Become(IfSet(Put(S0, c, K, sock[c]), c, FALSE, conn[c].wantwrite))
      BY <1>1, <1>4, PauseForm DEF OnReadableTail
    <2>3. PICK w \in BOOLEAN : w = conn[c].wantwrite
      BY <1>2 DEF Conn
    <2> HIDE DEF K
    <2>4. ASSUME c \in Conns PROVE SoundWith(Wants(K, FALSE, w), sock[c], <<>>)
      <3> DEFINE W == Wants(K, FALSE, w)
      <3>1. W.wantwrite = conn[c].wantwrite /\ W.live = K.live
            /\ W.told = K.told /\ W.buf = K.buf /\ W.dirty = K.dirty /\ W.closing = K.closing
            /\ W.wtimer = K.wtimer /\ W.ptimer = K.ptimer /\ W.misled = K.misled
        <4>1. PICK no \in BOOLEAN : no = FALSE
          OBVIOUS
        <4>2. PICK X : X = Wants(K, no, w)
          OBVIOUS
        <4>3. OnlyWants(X, K, w)
          <5>1. K \in Conn
            BY <2>1
          <5> QED BY ONLY <5>1, <4>2, no \in BOOLEAN, w \in BOOLEAN, WantsFacts
        <4> QED BY <4>1, <4>2, <4>3, <2>3 DEF OnlyWants
      <3> HIDE DEF W
      <3>2. Sound(W, sock[c], Left("destroy"), Left("read") \/ Left("tail"), Left("write") \/ Left("send"))
        BY <1>3, <2>1, <2>4, <3>1 DEF Sound, Watch
      <3>3. SoundWith(W, sock[c], <<>>)
        BY <3>2, SoundLists
      <3> QED BY <3>3 DEF W
    <2>5. Become(IfSet(Put(S0, c, K, sock[c]), c, FALSE, w))
      BY <2>2, <2>3
    <2> QED BY <1>0, <1>4, <2>1, <2>4, <2>5, ListsTyped, PutSetKeeps
  <1>5. CASE ~(conn[c].live /\ conn[c].dirty)
    <2>1. Become(S0)
      BY <1>5 DEF OnReadableTail
    <2>2. c \in Conns => Sound(conn[c], sock[c], Left("destroy"), Left("read") \/ Left("tail"), Left("write") \/ Left("send"))
      BY <1>3, <1>5 DEF Sound
    <2>3. c \in Conns => SoundWith(conn[c], sock[c], <<>>)
      BY <2>2, SoundLists
    <2> QED BY <1>0, <2>1, <2>3, ListsTyped, NothingKeeps
  <1> QED BY <1>4, <1>5

(* A set of numbers that is not empty has a least one.                     *)
LEMMA LeastExists ==
    ASSUME NEW S \in SUBSET Nat, S # {}
    PROVE  Min(S) \in S
  <1> DEFINE R == OpToRel(<, Nat)
  <1>1. IsWellFoundedOn(R, Nat)
    BY NatLessThanWellFounded
  <1>2. \A x, y \in Nat : x < y => <<x, y>> \in R
    BY DEF OpToRel
  <1> HIDE DEF R
  <1>3. PICK x \in S : \A y \in S : ~(<<y, x>> \in R)
    BY <1>1, WFMin
  <1>4. ASSUME NEW y \in S PROVE x <= y
    <2>1. x \in Nat /\ y \in Nat
      OBVIOUS
    <2>2. ~(y < x)
      BY <2>1, <1>2, <1>3
    <2> QED BY <2>1, <2>2
  <1> QED BY <1>3, <1>4 DEF Min

CanOpen(s, c) == ~s.conn[c].live /\ FreeFds(s) # {}
Fresh(k, q) == \A D, R \in BOOLEAN : Sound(k, q, D, R, FALSE)

(* A new connection: nobody has its number, and it is watched from the     *)
(* start.                                                                  *)
LEMMA OpenKeeps ==
    ASSUME NEW s, Good(s), NEW c \in Conns, CanOpen(s, c), NEW st \in {"up", "connecting"},
           NEW t, t = OpenConn(s, c, st)
    PROVE  /\ Good(t) /\ Later(s, t)
           /\ \A d \in Objects : d # c => t.conn[d] = s.conn[d] /\ t.sock[d] = s.sock[d]
           /\ Fresh(t.conn[c], t.sock[c])
  <1> DEFINE fd == Min(FreeFds(s))
             K == [Closed(FALSE) EXCEPT !.live = TRUE, !.fd = fd, !.wtimer = TRUE]
             Q == [st |-> st, in |-> FALSE]
  <1>0. s \in State /\ c \in Objects
    BY DEF Good, Objects
  <1>1. fd \in Fds /\ \A d \in Objects : s.conn[d].fd # fd
    <2>0. Fds \subseteq Nat
      BY PollAssumption
    <2>1. FreeFds(s) \in SUBSET Nat
      BY <2>0 DEF FreeFds
    <2>2. fd \in FreeFds(s)
      BY <2>1, LeastExists DEF CanOpen
    <2> QED BY <2>2 DEF FreeFds
  <1> HIDE DEF fd
  <1>2. K \in Conn /\ K.live /\ K.fd = fd /\ ~K.told /\ ~K.dirty /\ ~K.buf /\ ~K.closing /\ K.wtimer
    BY <1>1 DEF Conn, Closed
  <1>3. Q \in Sock /\ ~Q.in
    BY DEF Sock
  <1>4. Fits(s, c, K)
    BY <1>1, <1>2 DEF Fits, CanOpen
  <1>5. t = IfAdd(Opened(s, c, K, Q), c, TRUE, TRUE)
    BY DEF OpenConn, Opened, fd
  <1> HIDE DEF K, Q
  <1>10. PICK yes \in BOOLEAN : yes = TRUE
    OBVIOUS
  <1>6. /\ Good(t)
        /\ \A d \in Objects : t.sock[d] = IF d = c THEN Q ELSE s.sock[d]
        /\ \A d \in Objects : t.conn[d] = IF d = c THEN Wants(K, yes, yes) ELSE s.conn[d]
    <2>1. t = IfAdd(Opened(s, c, K, Q), c, yes, yes)
      BY <1>5, <1>10
    <2>2. K \in Conn /\ Q \in Sock
      BY <1>2, <1>3
    <2> QED BY ONLY Good(s), yes \in BOOLEAN, <1>0, <1>4, <2>1, <2>2, AddKeeps
  <1>7. Later(s, t)
    BY <1>0, <1>2, <1>3, <1>4, <1>5, AddLater
  <1>9. Fresh(t.conn[c], t.sock[c])
    <2>1. PICK W : W = Wants(K, yes, yes)
      OBVIOUS
    <2>2. K \in Conn
      BY <1>2
    <2>3. OnlyWants(W, K, yes)
      BY ONLY <2>1, <2>2, yes \in BOOLEAN, WantsFacts
    <2>4. t.conn[c] = W /\ t.sock[c] = Q
      BY <1>0, <1>6, <2>1
    <2> QED BY <1>2, <1>3, <1>10, <2>3, <2>4 DEF Fresh, Sound, Watch, OnlyWants
  <1> QED BY <1>6, <1>7, <1>9

(* onacceptable: a connection is opened under a free number, or the server *)
(* pauses.                                                                 *)
LEMMA OnAcceptableKeeps ==
    ASSUME LoopInv, OnAcceptable
    PROVE  LoopInv'
  <1>0. "read" \in Tags /\ At("read") /\ Then(<<>>) /\ Skip /\ pc.self = Server /\ Server \notin Conns /\ Server \in Objects
    BY LoopAssumption DEF OnAcceptable, Tags, Objects
  <1>1. conn[Server] \in Conn /\ sock[Server] \in Sock
    BY <1>0, StepsFacts
  <1>2. CASE Become(S0)
    BY <1>0, <1>2, ListsTyped, NothingKeeps
  <1>3. CASE conn[Server].live /\ Become(IfPauseFor(S0, Server))
    <2> DEFINE K == [conn[Server] EXCEPT !.ptimer = TRUE]
    <2>1. K \in Conn /\ Same(K, conn[Server])
      BY <1>1 DEF Conn, Same
    <2>2. PICK w \in BOOLEAN : w = conn[Server].wantwrite
      BY <1>1 DEF Conn
    <2>3. Become(IfSet(Put(S0, Server, K, sock[Server]), Server, FALSE, w))
      BY <1>0, <1>3, <2>2, PauseForm
    <2> HIDE DEF K
    <2> QED BY <1>0, <1>3, <2>1, <2>3, ListsTyped, PutSetKeeps
  <1>4. ASSUME FreeFds(S0) # {}, NEW c \in FreeObjects(S0),
               Become(OpenConn([S0 EXCEPT !.sock[Server].in = FALSE], c, "up"))
        PROVE  LoopInv'
    <2> DEFINE Q == [sock[Server] EXCEPT !.in = FALSE]
    <2>1. Q \in Sock /\ Q.st = sock[Server].st
      BY <1>1 DEF Sock
    <2>2. [S0 EXCEPT !.sock[Server].in = FALSE] = Put(S0, Server, conn[Server], Q)
      <3>1. [sock EXCEPT ![Server].in = FALSE] = [sock EXCEPT ![Server] = Q]
        BY <1>0, StepsFacts
      <3>2. Q \in Sock
        BY <2>1
      <3> HIDE DEF Q
      <3>3. PICK s \in State : s = S0 /\ s.conn = conn /\ s.sock = sock
        BY StepsFacts
      <3>4. [s EXCEPT !.sock[Server].in = FALSE] = PutSock(s, Server, Q)
        BY <3>1, <3>3 DEF PutSock
      <3>5. Put(s, Server, s.conn[Server], Q) = PutSock(s, Server, Q)
        BY <1>0, <1>1, <3>2, PutForms
      <3> QED BY <3>3, <3>4, <3>5
    <2>3. PICK s : s = Put(S0, Server, conn[Server], Q)
      OBVIOUS
    <2> HIDE DEF Q
    <2>4. Same(conn[Server], conn[Server])
      BY DEF Same
    <2>5. /\ Good(s) /\ s.fds = S0.fds /\ s.stale = S0.stale /\ s.poll = S0.poll
          /\ \A d \in Objects : s.conn[d] = IF d = Server THEN conn[Server] ELSE S0.conn[d]
          /\ \A d \in Objects : s.sock[d] = IF d = Server THEN Q ELSE S0.sock[d]
      BY <1>0, <1>1, <2>1, <2>3, <2>4, FieldsKeep, StepsFacts
    <2>6. \A d \in Objects : s.conn[d] = conn[d]
      BY <2>5, StepsFacts
    <2>7. c \in Conns /\ c \in Objects /\ ~s.conn[c].live /\ c # Server
      BY <1>0, <2>6, StepsFacts DEF FreeObjects, Objects
    <2>8. CanOpen(s, c)
      BY <1>4, <2>6, <2>7, StepsFacts DEF FreeFds, CanOpen
    <2>0. PICK st \in {"up", "connecting"} : st = "up"
      OBVIOUS
    <2>9. PICK t : t = OpenConn(s, c, st)
      OBVIOUS
    <2>10. /\ Good(t) /\ Later(s, t)
           /\ \A d \in Objects : d # c => t.conn[d] = s.conn[d] /\ t.sock[d] = s.sock[d]
           /\ Fresh(t.conn[c], t.sock[c])
      BY ONLY <2>5, <2>7, <2>8, <2>9, st \in {"up", "connecting"}, OpenKeeps
    <2>11. Become(t)
      BY <1>4, <2>0, <2>2, <2>3, <2>9
    <2>12. Later(S0, t)
      <3>1. \A d \in Objects : s.sock[d].st = S0.sock[d].st
        BY <2>1, <2>5, StepsFacts
      <3>2. \A e \in Fds : S0.fds[e] # None => S0.fds[e] \in Objects
        BY StepsFacts DEF State
      <3> QED BY <3>1, <3>2, <2>5, <2>10 DEF Later
    <2>13. PcInv' /\ pc'.self = Server
      <3>1. PcInv
        BY DEF LoopInv
      <3>2. pc' \in [self : Objects \cup {None}, todo : Seq(Tags)] /\ pc'.self = Server
        BY <1>0, <3>1, ListsTyped, ThenFacts
      <3> QED BY <3>2, LoopAssumption DEF PcInv, Objects
    <2>14. ASSUME NEW d \in Conns
           PROVE Sound(t.conn[d], t.sock[d], Due(d, {"destroy"})', Due(d, {"read", "tail"})', Due(d, {"write", "send"})')
      <3>1. \A T : ~Due(d, T) /\ ~Due(d, T)'
        BY <1>0, <2>13 DEF Due
      <3>2. CASE d = c
        <4>1. Sound(t.conn[d], t.sock[d], FALSE, FALSE, FALSE)
          BY <2>10, <3>2 DEF Fresh
        <4> QED BY <3>1, <4>1 DEF Sound
      <3>3. CASE d # c
        <4>1. d \in Objects /\ d # Server
          BY <1>0 DEF Objects
        <4>2. t.conn[d] = conn[d] /\ t.sock[d] = sock[d]
          BY <2>5, <2>6, <2>10, <3>3, <4>1, StepsFacts
        <4>3. Sound(conn[d], sock[d], Due(d, {"destroy"}), Due(d, {"read", "tail"}), Due(d, {"write", "send"}))
          BY DEF LoopInv, ConnInv
        <4> QED BY <4>2, <4>3, <3>1 DEF Sound
      <3> QED BY <3>2, <3>3
    <2>15. quitting' \in BOOLEAN /\ interrupted' = interrupted
      BY <1>0 DEF Skip, LoopInv
    <2> QED BY <2>10, <2>11, <2>12, <2>13, <2>14, <2>15, StepKeeps
  <1> QED BY <1>2, <1>3, <1>4 DEF OnAcceptable

(* onwritable up to onconnect: the event was a writable one, so what is    *)
(* told is true or the connection was misled.                              *)
LEMMA OnWritableKeeps ==
    ASSUME LoopInv, OnWritable
    PROVE  LoopInv'
  <1> DEFINE c == pc.self
  <1>0. "write" \in Tags /\ At("write") /\ Skip
    BY DEF OnWritable, Tags
  <1>1. c \in Objects /\ (c \in Conns => SoundWith(conn[c], sock[c], <<"write">>))
    BY <1>0, SelfFacts
  <1>2. conn[c] \in Conn /\ sock[c] \in Sock
    BY <1>1, StepsFacts
  <1>3. c \in Conns => Sound(conn[c], sock[c], Left("destroy"), Left("read") \/ Left("tail"), TRUE)
    BY <1>1, SoundLists
  <1>4. CASE ~conn[c].live /\ Then(<<>>) /\ Become(S0)
    <2>1. SoundWith(conn[c], sock[c], <<>>)
      BY <1>4 DEF SoundWith, Sound
    <2> QED BY <1>4, <1>0, <2>1, ListsTyped, NothingKeeps
  <1>5. CASE conn[c].live /\ conn[c].told /\ Then(<<"send">>) /\ Become(S0)
    <2>1. c \in Conns => SoundWith(conn[c], sock[c], <<"send">>)
      BY <1>3, SoundLists
    <2> QED BY <1>0, <1>5, <2>1, ListsTyped, NothingKeeps
  <1>6. CASE /\ conn[c].live /\ ~conn[c].told
             /\ Then(<<"listener", "send">>) /\ Become([S0 EXCEPT !.conn[c].told = TRUE])
    <2> DEFINE K == [conn[c] EXCEPT !.told = TRUE]
    <2>1. K \in Conn /\ Same(K, conn[c]) /\ K.live = conn[c].live /\ K.dirty = conn[c].dirty /\ K.ptimer = conn[c].ptimer
          /\ K.buf = conn[c].buf /\ K.wtimer = conn[c].wtimer /\ K.wantwrite = conn[c].wantwrite
          /\ K.closing = conn[c].closing /\ K.misled = conn[c].misled
      BY <1>2 DEF Conn, Same
    <2>2. [conn EXCEPT ![c].told = TRUE] = [conn EXCEPT ![c] = K]
      BY <1>1, StepsFacts
    <2>3. PICK s \in State : s = S0 /\ s.conn = conn /\ s.sock = sock
      BY StepsFacts
    <2>4. PICK Q \in Sock : Q = sock[c]
      BY <1>2
    <2> HIDE DEF K
    <2>5. [s EXCEPT !.conn[c].told = TRUE] = PutConn(s, c, K)
      BY <2>2, <2>3 DEF PutConn
    <2>6. K \in Conn
      BY <2>1
    <2>7. PutConn(s, c, K) = Put(s, c, K, s.sock[c])
      BY <1>1, <2>4, <2>6, PutForms
    <2>8. Become(Put(S0, c, K, Q))
      BY <1>6, <2>3, <2>4, <2>5, <2>7
    <2>9. c \in Conns => Sound(K, Q, Left("destroy"), Left("read") \/ Left("tail"), TRUE)
      BY <1>3, <1>6, <2>1, <2>4 DEF Sound, Watch
    <2>10. c \in Conns => SoundWith(K, Q, <<"listener", "send">>)
      BY <2>9, SoundLists
    <2>11. Same(K, conn[c]) /\ Q.st = sock[c].st
      BY <2>1, <2>4
    <2> QED BY <1>0, <1>6, <2>6, <2>8, <2>10, <2>11, ListsTyped, PutKeeps
  <1> QED BY <1>4, <1>5, <1>6 DEF OnWritable

(* Fields of the write side are set, and interface:set is called.          *)
LEMMA WriteForms ==
    ASSUME LoopInv, NEW c \in Objects, NEW b \in BOOLEAN, NEW x \in BOOLEAN, NEW w \in BOOLEAN
    PROVE  /\ SetWrite([S0 EXCEPT !.conn[c].buf = b, !.conn[c].wtimer = x], c, w) =
                IfSet(Put(S0, c, [conn[c] EXCEPT !.buf = b, !.wtimer = x], sock[c]), c, conn[c].wantread, w)
           /\ SetWrite([S0 EXCEPT !.conn[c].wtimer = x], c, w) =
                IfSet(Put(S0, c, [conn[c] EXCEPT !.wtimer = x], sock[c]), c, conn[c].wantread, w)
  <1>0. PICK s \in State : s = S0 /\ s.conn = conn /\ s.sock = sock
    BY StepsFacts
  <1>1. s.conn[c] \in Conn /\ s.conn \in [Objects -> Conn] /\ s.sock[c] \in Sock
    BY DEF State
  <1>2. ASSUME NEW K \in Conn, K.wantread = s.conn[c].wantread, NEW u, u = [s EXCEPT !.conn = [s.conn EXCEPT ![c] = K]]
        PROVE  SetWrite(u, c, w) = IfSet(Put(s, c, K, s.sock[c]), c, s.conn[c].wantread, w)
    <2>1. u = PutConn(s, c, K)
      BY <1>2 DEF PutConn
    <2>2. u = Put(s, c, K, s.sock[c])
      BY <2>1, <1>1, PutForms
    <2>3. u.conn = [s.conn EXCEPT ![c] = K]
      BY <1>2 DEF State
    <2>4. u.conn[c].wantread = s.conn[c].wantread
      BY <1>1, <1>2, <2>3
    <2> QED BY <2>2, <2>4 DEF SetWrite
  <1>3. SetWrite([s EXCEPT !.conn[c].buf = b, !.conn[c].wtimer = x], c, w) =
           IfSet(Put(s, c, [s.conn[c] EXCEPT !.buf = b, !.wtimer = x], s.sock[c]), c, s.conn[c].wantread, w)
    <2> DEFINE K == [s.conn[c] EXCEPT !.buf = b, !.wtimer = x]
    <2>1. K \in Conn /\ K.wantread = s.conn[c].wantread
      BY <1>1 DEF Conn
    <2>2. [[s.conn EXCEPT ![c].buf = b] EXCEPT ![c].wtimer = x] = [s.conn EXCEPT ![c] = K]
      BY <1>1
    <2> HIDE DEF K
    <2>3. PICK u : u = [s EXCEPT !.conn[c].buf = b, !.conn[c].wtimer = x]
      OBVIOUS
    <2>4. u = [s EXCEPT !.conn = [s.conn EXCEPT ![c] = K]]
      BY <2>2, <2>3
    <2>5. SetWrite(u, c, w) = IfSet(Put(s, c, K, s.sock[c]), c, s.conn[c].wantread, w)
      BY <1>2, <2>1, <2>4
    <2> QED BY <2>3, <2>5 DEF K
  <1>4. SetWrite([s EXCEPT !.conn[c].wtimer = x], c, w) =
           IfSet(Put(s, c, [s.conn[c] EXCEPT !.wtimer = x], s.sock[c]), c, s.conn[c].wantread, w)
    <2> DEFINE K == [s.conn[c] EXCEPT !.wtimer = x]
    <2>1. K \in Conn /\ K.wantread = s.conn[c].wantread
      BY <1>1 DEF Conn
    <2>2. [s.conn EXCEPT ![c].wtimer = x] = [s.conn EXCEPT ![c] = K]
      BY <1>1
    <2> HIDE DEF K
    <2>3. PICK u : u = [s EXCEPT !.conn[c].wtimer = x]
      OBVIOUS
    <2>4. u = [s EXCEPT !.conn = [s.conn EXCEPT ![c] = K]]
      BY <2>2, <2>3
    <2>5. SetWrite(u, c, w) = IfSet(Put(s, c, K, s.sock[c]), c, s.conn[c].wantread, w)
      BY <1>2, <2>1, <2>4
    <2> QED BY <2>3, <2>5 DEF K
  <1> QED BY <1>0, <1>3, <1>4

(* The rest of onwritable: what is sent is watched no more, what is not    *)
(* sent keeps its timer, and a close that has drained is due for destroy.  *)
LEMMA OnSendKeeps ==
    ASSUME LoopInv, OnSend
    PROVE  LoopInv'
  <1> DEFINE c == pc.self
  <1>0. "send" \in Tags /\ At("send") /\ Skip
    BY DEF OnSend, Tags
  <1>1. c \in Objects /\ (c \in Conns => SoundWith(conn[c], sock[c], <<"send">>))
    BY <1>0, SelfFacts
  <1>2. conn[c] \in Conn /\ sock[c] \in Sock
    BY <1>1, StepsFacts
  <1>3. c \in Conns => Sound(conn[c], sock[c], Left("destroy"), Left("read") \/ Left("tail"), TRUE)
    BY <1>1, SoundLists
  <1>20. PICK no \in BOOLEAN : no = FALSE
    OBVIOUS
  <1>21. PICK yes \in BOOLEAN : yes = TRUE
    OBVIOUS
  <1>22. PICK r \in BOOLEAN : r = conn[c].wantread
    BY <1>2 DEF Conn
  <1>4. CASE ~conn[c].live /\ Then(<<>>) /\ Become(S0)
    <2>1. SoundWith(conn[c], sock[c], <<>>)
      BY <1>4 DEF SoundWith, Sound
    <2> QED BY <1>4, <1>0, <2>1, ListsTyped, NothingKeeps
  <1>5. CASE /\ conn[c].live /\ (sock[c].st = "up" \/ ~conn[c].buf)
             /\ Become(SetWrite([S0 EXCEPT !.conn[c].buf = FALSE, !.conn[c].wtimer = FALSE], c, FALSE))
             /\ Then(IF conn[c].closing THEN <<"listener", "destroy">> ELSE <<>>)
    <2> DEFINE K == [conn[c] EXCEPT !.buf = no, !.wtimer = no]
    <2>1. K \in Conn /\ Same(K, conn[c]) /\ K.live = conn[c].live /\ K.dirty = conn[c].dirty /\ K.ptimer = conn[c].ptimer
          /\ ~K.buf /\ K.closing = conn[c].closing /\ K.misled = conn[c].misled /\ K.told = conn[c].told
      BY <1>2, <1>20 DEF Conn, Same
    <2>2. SetWrite([S0 EXCEPT !.conn[c].buf = no, !.conn[c].wtimer = no], c, no) =
             IfSet(Put(S0, c, K, sock[c]), c, conn[c].wantread, no)
      BY <1>1, WriteForms
    <2>3. K \in Conn
      BY <2>1
    <2>9. Same(K, conn[c])
      BY <2>1
    <2> HIDE DEF K
    <2>4. Become(IfSet(Put(S0, c, K, sock[c]), c, r, no))
      BY <1>5, <1>20, <1>22, <2>2
    <2>5. PICK W : W = Wants(K, r, no)
      OBVIOUS
    <2>6. OnlyWants(W, K, no)
      BY ONLY <2>3, <2>5, r \in BOOLEAN, no \in BOOLEAN, WantsFacts
    <2>7. CASE conn[c].closing
      <3>1. c \in Conns => Sound(W, sock[c], TRUE, Left("read") \/ Left("tail"), Left("write") \/ Left("send"))
        BY <1>3, <1>5, <2>1, <2>6 DEF Sound, OnlyWants
      <3>2. c \in Conns => SoundWith(W, sock[c], <<"listener", "destroy">>)
        BY <3>1, SoundLists
      <3>3. Then(<<"listener", "destroy">>)
        BY <1>5, <2>7
      <3> QED BY <1>0, <1>5, <2>3, <2>4, <2>5, <2>9, <3>2, <3>3, ListsTyped, PutSetKeeps
    <2>8. CASE ~conn[c].closing
      <3>1. c \in Conns => Sound(W, sock[c], Left("destroy"), Left("read") \/ Left("tail"), Left("write") \/ Left("send"))
        BY <1>3, <1>5, <2>1, <2>6, <2>8 DEF Sound, Watch, OnlyWants
      <3>2. c \in Conns => SoundWith(W, sock[c], <<>>)
        BY <3>1, SoundLists
      <3>3. Then(<<>>)
        BY <1>5, <2>8
      <3> QED BY <1>0, <1>5, <2>3, <2>4, <2>5, <2>9, <3>2, <3>3, ListsTyped, PutSetKeeps
    <2> QED BY <2>7, <2>8
  <1>6. CASE /\ conn[c].live /\ conn[c].buf /\ Then(<<>>)
             /\ Become(SetWrite([S0 EXCEPT !.conn[c].wtimer = TRUE], c, TRUE))
    <2> DEFINE K == [conn[c] EXCEPT !.wtimer = yes]
    <2>1. K \in Conn /\ Same(K, conn[c]) /\ K.live = conn[c].live /\ K.dirty = conn[c].dirty /\ K.ptimer = conn[c].ptimer
          /\ K.buf = conn[c].buf /\ K.wtimer /\ K.closing = conn[c].closing /\ K.misled = conn[c].misled
          /\ K.told = conn[c].told
      BY <1>2, <1>21 DEF Conn, Same
    <2>2. SetWrite([S0 EXCEPT !.conn[c].wtimer = yes], c, yes) =
             IfSet(Put(S0, c, K, sock[c]), c, conn[c].wantread, yes)
      BY <1>1, WriteForms
    <2>3. K \in Conn
      BY <2>1
    <2>9. Same(K, conn[c])
      BY <2>1
    <2> HIDE DEF K
    <2>4. Become(IfSet(Put(S0, c, K, sock[c]), c, r, yes))
      BY <1>6, <1>21, <1>22, <2>2
    <2>5. PICK W : W = Wants(K, r, yes)
      OBVIOUS
    <2>6. OnlyWants(W, K, yes)
      BY ONLY <2>3, <2>5, r \in BOOLEAN, yes \in BOOLEAN, WantsFacts
    <2>7. c \in Conns => Sound(W, sock[c], Left("destroy"), Left("read") \/ Left("tail"), Left("write") \/ Left("send"))
      BY <1>3, <1>6, <1>21, <2>1, <2>6 DEF Sound, Watch, OnlyWants
    <2>8. c \in Conns => SoundWith(W, sock[c], <<>>)
      BY <2>7, SoundLists
    <2> QED BY <1>0, <1>6, <2>3, <2>4, <2>5, <2>8, <2>9, ListsTyped, PutSetKeeps
  <1>7. CASE conn[c].live /\ Become(S0) /\ Then(<<"listener", "destroy">>)
    <2>1. c \in Conns => Sound(conn[c], sock[c], TRUE, Left("read") \/ Left("tail"), Left("write") \/ Left("send"))
      BY <1>3 DEF Sound
    <2>2. c \in Conns => SoundWith(conn[c], sock[c], <<"listener", "destroy">>)
      BY <2>1, SoundLists
    <2> QED BY <1>0, <1>7, <2>2, ListsTyped, NothingKeeps
  <1> QED BY <1>4, <1>5, <1>6, <1>7 DEF OnSend

(* interface:destroy as the last step of a handler.                        *)
LEMMA DestroyStepKeeps ==
    ASSUME LoopInv, Destroy
    PROVE  LoopInv'
  <1> DEFINE c == pc.self
  <1>0. "destroy" \in Tags /\ At("destroy") /\ Skip /\ Then(<<>>) /\ Become(IfDestroy(S0, c))
    BY DEF Destroy, Tags
  <1>1. c \in Objects
    BY <1>0, SelfFacts
  <1>2. CASE ~conn[c].live
    <2>1. SoundWith(conn[c], sock[c], <<>>)
      BY <1>2 DEF SoundWith, Sound
    <2>2. Become(S0)
      BY <1>0, <1>2, StepsFacts DEF IfDestroy
    <2> QED BY <1>0, <2>1, <2>2, ListsTyped, NothingKeeps
  <1>3. CASE conn[c].live
    <2>1. PICK t : t = IfDestroy(S0, c)
      OBVIOUS
    <2>2. S0.conn[c].live /\ Good(S0)
      BY <1>3, StepsFacts
    <2>3. /\ Good(t) /\ Later(S0, t)
          /\ \A d \in Objects : t.sock[d] = IF d = c THEN NoSock ELSE S0.sock[d]
          /\ \A d \in Objects : t.conn[d] = IF d = c THEN Closed(S0.conn[c].ptimer) ELSE S0.conn[d]
      <3>1. Later(S0, t)
        BY ONLY <1>1, <2>1, <2>2, DestroyLater
      <3> QED BY ONLY <1>1, <2>1, <2>2, <3>1, DestroyKeeps
    <2>4. \A d \in Conns : d # c => t.conn[d] = conn[d] /\ t.sock[d] = sock[d]
      BY <2>3, StepsFacts DEF Objects
    <2>5. t.conn[c] = Closed(conn[c].ptimer)
      BY <1>1, <2>3, StepsFacts
    <2>6. SoundWith(t.conn[c], t.sock[c], <<>>)
      BY <2>5 DEF SoundWith, Sound, Closed
    <2>7. Become(t)
      BY <1>0, <2>1
    <2> QED BY <1>0, <2>3, <2>4, <2>6, <2>7, ListsTyped, HandlerKeeps
  <1> QED BY <1>2, <1>3

(* interface:set without any field before.                                 *)
LEMMA ReadForm ==
    ASSUME LoopInv, NEW c \in Objects, NEW r
    PROVE  SetRead(S0, c, r) = IfSet(Put(S0, c, conn[c], sock[c]), c, r, conn[c].wantwrite)
  <1>1. PICK s \in State : s = S0 /\ s.conn = conn /\ s.sock = sock
    BY StepsFacts
  <1>2. [s.conn EXCEPT ![c] = s.conn[c]] = s.conn /\ [s.sock EXCEPT ![c] = s.sock[c]] = s.sock
    BY DEF State
  <1>3. Put(s, c, s.conn[c], s.sock[c]) = s
    BY <1>2 DEF Put, State
  <1> QED BY <1>1, <1>3 DEF SetRead

(* The end of a pause: reading is asked for again.                         *)
LEMMA ResumeKeeps ==
    ASSUME LoopInv, Resume
    PROVE  LoopInv'
  <1> DEFINE c == pc.self
  <1>0. "resume" \in Tags /\ At("resume") /\ Skip /\ Then(<<>>) /\ Become(SetRead(S0, c, TRUE))
    BY DEF Resume, Tags
  <1>1. c \in Objects /\ (c \in Conns => SoundWith(conn[c], sock[c], <<"resume">>))
    BY <1>0, SelfFacts
  <1>2. conn[c] \in Conn /\ sock[c] \in Sock /\ Same(conn[c], conn[c])
    BY <1>1, StepsFacts DEF Same
  <1>3. c \in Conns => Sound(conn[c], sock[c], Left("destroy"), Left("read") \/ Left("tail"), Left("write") \/ Left("send"))
    BY <1>1, SoundLists
  <1>4. CASE ~conn[c].live
    <2>1. SoundWith(conn[c], sock[c], <<>>)
      BY <1>4 DEF SoundWith, Sound
    <2>2. Become(S0)
      BY <1>0, <1>4, StepsFacts DEF SetRead, IfSet
    <2> QED BY <1>0, <2>1, <2>2, ListsTyped, NothingKeeps
  <1>5. CASE conn[c].live
    <2>1. PICK w \in BOOLEAN : w = conn[c].wantwrite
      BY <1>2 DEF Conn
    <2>2. PICK yes \in BOOLEAN : yes = TRUE
      OBVIOUS
    <2>3. PICK K \in Conn : K = conn[c]
      BY <1>2
    <2>4. PICK W : W = Wants(K, yes, w)
      OBVIOUS
    <2>5. OnlyWants(W, K, w)
      BY ONLY <2>4, K \in Conn, w \in BOOLEAN, yes \in BOOLEAN, WantsFacts
    <2>6. c \in Conns => Sound(W, sock[c], Left("destroy"), Left("read") \/ Left("tail"), Left("write") \/ Left("send"))
      BY <1>3, <2>1, <2>3, <2>5 DEF Sound, Watch, OnlyWants
    <2>7. c \in Conns => SoundWith(W, sock[c], <<>>)
      BY <2>6, SoundLists
    <2>8. Become(IfSet(Put(S0, c, K, sock[c]), c, yes, w))
      BY <1>0, <1>1, <2>1, <2>2, <2>3, ReadForm
    <2>9. Same(K, conn[c])
      BY <1>2, <2>3
    <2> QED BY <1>0, <1>5, <2>4, <2>7, <2>8, <2>9, ListsTyped, PutSetKeeps
  <1> QED BY <1>4, <1>5

(* What a listener calls changes one connection, and nothing of the handler. *)
DueSound(k, q, c) ==
    Sound(k, q, Due(c, {"destroy"}), Due(c, {"read", "tail"}), Due(c, {"write", "send"}))

(* What a listener calls changes one connection, and leaves it sound with  *)
(* what is already due for it.                                             *)
LEMMA CallKeeps ==
    ASSUME LoopInv, UNCHANGED <<pc, quitting, interrupted>>, NEW c \in Conns,
           NEW t, Good(t), Later(S0, t), Become(t),
           \A d \in Conns : d # c => t.conn[d] = conn[d] /\ t.sock[d] = sock[d],
           DueSound(t.conn[c], t.sock[c], c)
    PROVE  LoopInv'
  <1>1. PcInv' /\ quitting' \in BOOLEAN
    BY DEF LoopInv, PcInv
  <1>2. ASSUME NEW d \in Conns
        PROVE Sound(t.conn[d], t.sock[d], Due(d, {"destroy"})', Due(d, {"read", "tail"})', Due(d, {"write", "send"})')
    <2>1. \A T : Due(d, T)' <=> Due(d, T)
      BY DEF Due
    <2>2. DueSound(t.conn[d], t.sock[d], d)
      <3>1. CASE d = c
        BY <3>1
      <3>2. CASE d # c
        BY <3>2 DEF LoopInv, ConnInv, DueSound
      <3> QED BY <3>1, <3>2
    <2> QED BY <2>1, <2>2 DEF DueSound, Sound
  <1> QED BY <1>1, <1>2, StepKeeps

(* A listener's call sets fields of one connection and calls interface:set.*)
LEMMA PutSetCall ==
    ASSUME LoopInv, UNCHANGED <<pc, quitting, interrupted>>, NEW c \in Conns, conn[c].live,
           NEW K \in Conn, Same(K, conn[c]), NEW r \in BOOLEAN, NEW w \in BOOLEAN,
           Become(IfSet(Put(S0, c, K, sock[c]), c, r, w)), DueSound(Wants(K, r, w), sock[c], c)
    PROVE  LoopInv'
  <1>1. c \in Objects
    BY DEF Objects
  <1>2. PICK t : t = IfSet(Put(S0, c, K, S0.sock[c]), c, r, w)
    OBVIOUS
  <1>3. /\ Good(t) /\ t.fds = S0.fds /\ t.stale = S0.stale
        /\ Batch(t.poll) = Batch(S0.poll)
        /\ \A d \in Objects : t.conn[d] = IF d = c THEN Wants(K, r, w) ELSE S0.conn[d]
        /\ \A d \in Objects : t.sock[d] = S0.sock[d]
    <2>1. Good(S0) /\ S0.conn[c].live /\ Same(K, S0.conn[c])
      BY StepsFacts
    <2> QED BY <1>1, <1>2, <2>1, FieldsSet
  <1>4. Later(S0, t)
    <2>1. \A d \in Objects : d # c => t.sock[d].st = S0.sock[d].st
      BY <1>3
    <2>2. t.sock[c].st = S0.sock[c].st
      BY <1>1, <1>3
    <2> QED BY <1>1, <1>3, <2>1, <2>2, FieldsLater, StepsFacts
  <1>5. \A d \in Conns : d # c => t.conn[d] = conn[d] /\ t.sock[d] = sock[d]
    BY <1>3, StepsFacts DEF Objects
  <1>6. DueSound(t.conn[c], t.sock[c], c)
    BY <1>1, <1>3, StepsFacts
  <1>7. Become(t)
    BY <1>2, StepsFacts
  <1> QED BY <1>3, <1>4, <1>5, <1>6, <1>7, CallKeeps

(* interface:write: what is put in the buffer is watched and has a timer.  *)
LEMMA WriteKeeps ==
    ASSUME LoopInv, UNCHANGED <<pc, quitting, interrupted>>, NEW c \in Conns,
           conn[c].live, ~conn[c].closing, Become(IfWrite(S0, c))
    PROVE  LoopInv'
  <1>1. c \in Objects /\ conn[c] \in Conn /\ DueSound(conn[c], sock[c], c)
    BY StepsFacts DEF Objects, LoopInv, ConnInv, DueSound
  <1>2. PICK yes \in BOOLEAN : yes = TRUE
    OBVIOUS
  <1>3. PICK r \in BOOLEAN : r = conn[c].wantread
    BY <1>1 DEF Conn
  <1> DEFINE K == [conn[c] EXCEPT !.buf = yes, !.wtimer = yes]
  <1>4. K \in Conn /\ Same(K, conn[c]) /\ K.live = conn[c].live /\ K.dirty = conn[c].dirty /\ K.ptimer = conn[c].ptimer
        /\ K.buf /\ K.wtimer /\ K.closing = conn[c].closing /\ K.misled = conn[c].misled /\ K.told = conn[c].told
    BY <1>1, <1>2 DEF Conn, Same
  <1>5. SetWrite([S0 EXCEPT !.conn[c].buf = yes, !.conn[c].wtimer = yes], c, yes) =
             IfSet(Put(S0, c, K, sock[c]), c, conn[c].wantread, yes)
    BY <1>1, WriteForms
  <1>6. IfWrite(S0, c) = SetWrite([S0 EXCEPT !.conn[c].buf = yes, !.conn[c].wtimer = yes], c, yes)
    BY <1>2, StepsFacts DEF IfWrite
  <1>7. K \in Conn
    BY <1>4
  <1>8. Same(K, conn[c])
    BY <1>4
  <1> HIDE DEF K
  <1>9. Become(IfSet(Put(S0, c, K, sock[c]), c, r, yes))
    BY <1>3, <1>5, <1>6
  <1>10. PICK W : W = Wants(K, r, yes)
    OBVIOUS
  <1>11. OnlyWants(W, K, yes)
    BY ONLY <1>7, <1>10, r \in BOOLEAN, yes \in BOOLEAN, WantsFacts
  <1>12. DueSound(W, sock[c], c)
    BY <1>1, <1>2, <1>4, <1>11 DEF DueSound, Sound, Watch, OnlyWants
  <1> QED BY <1>7, <1>8, <1>9, <1>10, <1>12, PutSetCall

(* A pause set or taken back by a listener.                                *)
LEMMA ReadCall ==
    ASSUME LoopInv, UNCHANGED <<pc, quitting, interrupted>>, NEW c \in Conns, conn[c].live,
           NEW r \in BOOLEAN, Become(SetRead(S0, c, r))
    PROVE  LoopInv'
  <1>1. c \in Objects /\ conn[c] \in Conn /\ DueSound(conn[c], sock[c], c) /\ Same(conn[c], conn[c])
    BY StepsFacts DEF Objects, LoopInv, ConnInv, DueSound, Same
  <1>2. PICK w \in BOOLEAN : w = conn[c].wantwrite
    BY <1>1 DEF Conn
  <1>3. PICK K \in Conn : K = conn[c]
    BY <1>1
  <1>4. PICK W : W = Wants(K, r, w)
    OBVIOUS
  <1>5. OnlyWants(W, K, w)
    BY ONLY <1>4, K \in Conn, w \in BOOLEAN, r \in BOOLEAN, WantsFacts
  <1>6. DueSound(W, sock[c], c)
    BY <1>1, <1>2, <1>3, <1>5 DEF DueSound, Sound, Watch, OnlyWants
  <1>7. Become(IfSet(Put(S0, c, K, sock[c]), c, r, w))
    BY <1>1, <1>2, <1>3, ReadForm
  <1>8. Same(K, conn[c])
    BY <1>1, <1>3
  <1> QED BY <1>4, <1>6, <1>7, <1>8, PutSetCall

(* interface:close, at once or when the buffer has drained.                *)
LEMMA CloseKeeps ==
    ASSUME LoopInv, UNCHANGED <<pc, quitting, interrupted>>, NEW c \in Conns,
           conn[c].live, Become(IfClose(S0, c))
    PROVE  LoopInv'
  <1>1. c \in Objects /\ conn[c] \in Conn /\ sock[c] \in Sock /\ DueSound(conn[c], sock[c], c)
    BY StepsFacts DEF Objects, LoopInv, ConnInv, DueSound
  <1>2. S0.conn[c].live /\ Good(S0)
    BY StepsFacts
  <1>3. CASE ~conn[c].buf
    <2>1. PICK t : t = IfDestroy(S0, c)
      OBVIOUS
    <2>2. Become(t)
      BY <1>2, <1>3, <2>1, StepsFacts DEF IfClose, CloseNow
    <2>3. Later(S0, t)
      BY ONLY <1>1, <1>2, <2>1, DestroyLater
    <2>4. /\ Good(t)
          /\ \A d \in Objects : t.sock[d] = IF d = c THEN NoSock ELSE S0.sock[d]
          /\ \A d \in Objects : t.conn[d] = IF d = c THEN Closed(S0.conn[c].ptimer) ELSE S0.conn[d]
      BY ONLY <1>1, <1>2, <2>1, DestroyKeeps
    <2>5. \A d \in Conns : d # c => t.conn[d] = conn[d] /\ t.sock[d] = sock[d]
      BY <2>4, StepsFacts DEF Objects
    <2>6. DueSound(t.conn[c], t.sock[c], c)
      <3>1. t.conn[c] = Closed(S0.conn[c].ptimer)
        BY <1>1, <2>4
      <3> QED BY <3>1 DEF DueSound, Sound, Closed
    <2> QED BY <2>2, <2>3, <2>4, <2>5, <2>6, CallKeeps
  <1>4. CASE conn[c].buf
    <2>1. PICK no \in BOOLEAN : no = FALSE
      OBVIOUS
    <2>2. PICK yes \in BOOLEAN : yes = TRUE
      OBVIOUS
    <2>3. PICK u : u = IfSet(S0, c, no, yes)
      OBVIOUS
    <2>4. /\ Good(u) /\ u.fds = S0.fds /\ u.sock = S0.sock /\ u.stale = S0.stale
          /\ Batch(u.poll) = Batch(S0.poll)
          /\ \A d \in Objects : u.conn[d] = IF d = c THEN Wants(S0.conn[c], no, yes) ELSE S0.conn[d]
      BY ONLY <1>1, <1>2, <2>3, no \in BOOLEAN, yes \in BOOLEAN, SetKeeps
    <2>5. PICK t : t = [u EXCEPT !.conn[c].closing = TRUE]
      OBVIOUS
    <2>6. Become(t)
      BY <1>2, <1>4, <2>1, <2>2, <2>3, <2>5, StepsFacts DEF IfClose, CloseNow
    <2>7. u \in State /\ u.conn \in [Objects -> Conn] /\ u.conn[c] \in Conn
      BY <1>1, <2>4 DEF Good, State
    <2> DEFINE K == [u.conn[c] EXCEPT !.closing = TRUE]
    <2>8. K \in Conn /\ Same(K, u.conn[c]) /\ K.live = u.conn[c].live /\ K.dirty = u.conn[c].dirty
          /\ K.ptimer = u.conn[c].ptimer /\ K.wantwrite = u.conn[c].wantwrite
          /\ K.buf = u.conn[c].buf /\ K.wtimer = u.conn[c].wtimer /\ K.misled = u.conn[c].misled /\ K.told = u.conn[c].told
      BY <2>7 DEF Conn, Same
    <2>9. [u.conn EXCEPT ![c].closing = TRUE] = [u.conn EXCEPT ![c] = K]
      BY <1>1, <2>7
    <2> HIDE DEF K
    <2>10. PICK Q \in Sock : Q = u.sock[c]
      BY <1>1, <2>7 DEF State
    <2>11. t = PutConn(u, c, K)
      BY <2>5, <2>9 DEF PutConn
    <2>12. K \in Conn
      BY <2>8
    <2>13. t = Put(u, c, K, Q)
      <3>1. Put(u, c, K, u.sock[c]) = PutConn(u, c, K)
        BY ONLY <1>1, <2>7, <2>12, Q \in Sock, PutForms
      <3> QED BY <2>10, <2>11, <3>1
    <2>14. /\ Good(t) /\ t.fds = u.fds /\ t.stale = u.stale /\ t.poll = u.poll
           /\ \A d \in Objects : t.conn[d] = IF d = c THEN K ELSE u.conn[d]
           /\ \A d \in Objects : t.sock[d] = IF d = c THEN Q ELSE u.sock[d]
      <3>1. Same(K, u.conn[c]) /\ Good(u)
        BY <2>4, <2>8
      <3> QED BY ONLY <1>1, <2>12, <2>13, <3>1, Q \in Sock, FieldsKeep
    <2>15. \A d \in Objects : t.sock[d] = S0.sock[d]
      BY <2>4, <2>10, <2>14
    <2>16. Later(S0, t)
      <3>1. t.fds = S0.fds /\ t.stale = S0.stale /\ Batch(t.poll) = Batch(S0.poll)
        BY <2>4, <2>14
      <3>2. \A d \in Objects : d # c => t.sock[d].st = S0.sock[d].st
        BY <2>15
      <3>3. t.sock[c].st = S0.sock[c].st
        BY <1>1, <2>15
      <3> QED BY <1>1, <1>2, <3>1, <3>2, <3>3, FieldsLater
    <2>17. \A d \in Conns : d # c => t.conn[d] = conn[d] /\ t.sock[d] = sock[d]
      BY <2>4, <2>14, <2>15, StepsFacts DEF Objects
    <2>18. PICK k \in Conn : k = conn[c]
      BY <1>1
    <2>19. u.conn[c] = Wants(k, no, yes)
      BY <1>1, <2>4, <2>18, StepsFacts
    <2>20. OnlyWants(u.conn[c], k, yes)
      <3>1. OnlyWants(Wants(k, no, yes), k, yes)
        BY ONLY k \in Conn, no \in BOOLEAN, yes \in BOOLEAN, WantsFacts
      <3> QED BY <2>19, <3>1
    <2>21. DueSound(K, sock[c], c)
      BY <1>1, <1>4, <2>2, <2>8, <2>18, <2>20 DEF DueSound, Sound, Watch, OnlyWants
    <2>22. DueSound(t.conn[c], t.sock[c], c)
      BY <1>1, <2>14, <2>15, <2>21, StepsFacts
    <2> QED BY <2>6, <2>14, <2>16, <2>17, <2>22, CallKeeps
  <1> QED BY <1>3, <1>4, <1>1 DEF Conn

(* A listener writes to, closes, pauses or opens a connection.             *)
LEMMA ListenerCallsKeep ==
    ASSUME LoopInv, ListenerCalls
    PROVE  LoopInv'
  <1>1. UNCHANGED <<pc, quitting, interrupted>>
    BY DEF ListenerCalls
  <1>2. PICK c \in Conns :
        \/ conn[c].live /\ ~conn[c].closing /\ Become(IfWrite(S0, c))
        \/ conn[c].live /\ Become(IfClose(S0, c))
        \/ conn[c].live /\ \E r \in BOOLEAN : Become(SetRead(S0, c, r))
        \/ c \in FreeObjects(S0) /\ FreeFds(S0) # {} /\ Become(OpenConn(S0, c, "connecting"))
    BY DEF ListenerCalls
  <1>3. CASE conn[c].live /\ ~conn[c].closing /\ Become(IfWrite(S0, c))
    BY <1>1, <1>3, WriteKeeps
  <1>4. CASE conn[c].live /\ Become(IfClose(S0, c))
    BY <1>1, <1>4, CloseKeeps
  <1>5. CASE conn[c].live /\ \E r \in BOOLEAN : Become(SetRead(S0, c, r))
    BY <1>1, <1>5, ReadCall
  <1>6. CASE c \in FreeObjects(S0) /\ FreeFds(S0) # {} /\ Become(OpenConn(S0, c, "connecting"))
    <2>1. PICK st \in {"up", "connecting"} : st = "connecting"
      OBVIOUS
    <2>2. PICK t : t = OpenConn(S0, c, st)
      OBVIOUS
    <2>3. CanOpen(S0, c) /\ c # pc.self /\ Good(S0)
      BY <1>6, StepsFacts DEF CanOpen, FreeObjects
    <2>4. /\ Good(t) /\ Later(S0, t)
          /\ \A d \in Objects : d # c => t.conn[d] = S0.conn[d] /\ t.sock[d] = S0.sock[d]
          /\ Fresh(t.conn[c], t.sock[c])
      BY ONLY <2>2, <2>3, c \in Conns, st \in {"up", "connecting"}, OpenKeeps
    <2>5. \A d \in Conns : d # c => t.conn[d] = conn[d] /\ t.sock[d] = sock[d]
      BY <2>4, StepsFacts DEF Objects
    <2>6. \A T : ~Due(c, T)
      BY <2>3 DEF Due
    <2>7. Sound(t.conn[c], t.sock[c], FALSE, FALSE, FALSE)
      BY <2>4 DEF Fresh
    <2>8. DueSound(t.conn[c], t.sock[c], c)
      BY <2>6, <2>7 DEF DueSound, Sound
    <2>9. Become(t)
      BY <1>6, <2>1, <2>2
    <2> QED BY <1>1, <2>4, <2>5, <2>8, <2>9, CallKeeps
  <1> QED BY <1>2, <1>3, <1>4, <1>5, <1>6

(* What closing later changes of a connection.                             *)
LEMMA FlushingFacts ==
    ASSUME NEW K \in Conn
    PROVE  LET W == Flushing(K)
           IN  /\ W.wantwrite /\ W.closing /\ W.live = K.live /\ W.told = K.told /\ W.buf = K.buf
               /\ W.dirty = K.dirty /\ W.wtimer = K.wtimer /\ W.ptimer = K.ptimer /\ W.misled = K.misled
  BY DEF Flushing, Conn

(* setquitting(true): a connection that still has something to write was   *)
(* watched for it already.                                                 *)
LEMMA SetQuittingKeeps ==
    ASSUME LoopInv, SetQuitting
    PROVE  LoopInv'
  <1>1. PICK t : t = CloseAll(S0)
    OBVIOUS
  <1>2. Become(t) /\ pc' = pc /\ quitting' \in BOOLEAN /\ interrupted' = interrupted
    BY <1>1 DEF SetQuitting
  <1>3. Good(S0)
    BY StepsFacts
  <1>4. /\ Good(t)
        /\ \A d \in Objects :
                \/ t.conn[d] = Closed(S0.conn[d].ptimer) /\ S0.conn[d].fd \in t.stale /\ ~S0.conn[d].buf
                \/ t.sock[d] = S0.sock[d] /\ ~S0.conn[d].live /\ t.conn[d] = S0.conn[d]
                \/ /\ t.sock[d] = S0.sock[d] /\ S0.conn[d].live /\ S0.conn[d].buf
                   /\ t.conn[d] = Flushing(S0.conn[d])
    BY ONLY <1>1, <1>3, CloseAllKeeps
  <1>5. Later(S0, t)
    BY ONLY <1>1, <1>3, CloseAllLater
  <1>6. PcInv'
    BY <1>2 DEF LoopInv, PcInv
  <1>7. ASSUME NEW c \in Conns
        PROVE Sound(t.conn[c], t.sock[c], Due(c, {"destroy"})', Due(c, {"read", "tail"})', Due(c, {"write", "send"})')
    <2>1. \A T : Due(c, T)' <=> Due(c, T)
      BY <1>2 DEF Due
    <2>2. DueSound(conn[c], sock[c], c) /\ c \in Objects /\ conn[c] \in Conn
      BY StepsFacts DEF LoopInv, ConnInv, DueSound, Objects
    <2>3. DueSound(t.conn[c], t.sock[c], c)
      <3>1. CASE t.conn[c] = Closed(conn[c].ptimer)
        BY <3>1 DEF DueSound, Sound, Closed
      <3>2. CASE t.conn[c] = conn[c] /\ t.sock[c] = sock[c]
        BY <3>2, <2>2
      <3>3. CASE t.conn[c] = Flushing(conn[c]) /\ t.sock[c] = sock[c] /\ conn[c].live /\ conn[c].buf
        <4>1. PICK W : W = Flushing(conn[c])
          OBVIOUS
        <4>2. /\ W.wantwrite /\ W.closing /\ W.live = conn[c].live /\ W.told = conn[c].told /\ W.buf = conn[c].buf
              /\ W.dirty = conn[c].dirty /\ W.wtimer = conn[c].wtimer /\ W.ptimer = conn[c].ptimer
              /\ W.misled = conn[c].misled
          BY ONLY <2>2, <4>1, FlushingFacts
        <4>3. DueSound(W, sock[c], c)
          BY <2>2, <3>3, <4>2 DEF DueSound, Sound, Watch
        <4> QED BY <3>3, <4>1, <4>3
      <3> QED BY <1>4, <2>2, <3>1, <3>2, <3>3, StepsFacts
    <2> QED BY <2>1, <2>3 DEF DueSound, Sound
  <1> QED BY <1>2, <1>4, <1>5, <1>6, <1>7, StepKeeps

(* A listener returns: what was due after it still is.                     *)
LEMMA ListenerReturnsKeep ==
    ASSUME LoopInv, ListenerReturns
    PROVE  LoopInv'
  <1>1. "listener" \in Tags /\ At("listener") /\ Then(<<>>) /\ Become(S0) /\ Skip
    BY DEF ListenerReturns, Tags
  <1>2. PcInv /\ ConnInv /\ quitting \in BOOLEAN
    BY DEF LoopInv
  <1>3. /\ pc' \in [self : Objects \cup {None}, todo : Seq(Tags)] /\ pc'.self = pc.self
        /\ \A tag : Has(pc'.todo, tag) <=> Has(<<>>, tag) \/ Has(Tail(pc.todo), tag)
        /\ \A tag : Has(pc.todo, tag) <=> tag = "listener" \/ Has(Tail(pc.todo), tag)
    BY <1>1, <1>2, ListsTyped, ThenFacts
  <1>4. \A tag : Has(pc'.todo, tag) => Has(pc.todo, tag)
    BY <1>3, HasShort
  <1>5. \A tag : tag # "listener" /\ Has(pc.todo, tag) => Has(pc'.todo, tag)
    BY <1>3
  <1>6. PcInv'
    BY <1>2, <1>3, <1>4 DEF PcInv
  <1>7. ASSUME NEW c \in Conns
        PROVE Sound(conn[c], sock[c], Due(c, {"destroy"})', Due(c, {"read", "tail"})', Due(c, {"write", "send"})')
    <2>1. \A T : "listener" \notin T => (Due(c, T)' <=> Due(c, T))
      BY <1>3, <1>4, <1>5 DEF Due
    <2>2. Sound(conn[c], sock[c], Due(c, {"destroy"}), Due(c, {"read", "tail"}), Due(c, {"write", "send"}))
      BY <1>2 DEF ConnInv
    <2> QED BY <2>1, <2>2 DEF Sound
  <1>8. Good(S0) /\ Later(S0, S0) /\ S0.conn = conn /\ S0.sock = sock
    BY StepsFacts
  <1>9. quitting' \in BOOLEAN /\ interrupted' = interrupted
    BY <1>1, <1>2 DEF Skip
  <1> QED BY <1>1, <1>6, <1>7, <1>8, <1>9, StepKeeps
-----------------------------------------------------------------------------
(* A timer fires, or the poll object is asked: nothing is under way.       *)
LEMMA IdleFacts ==
    ASSUME LoopInv, Idle
    PROVE  /\ \A c, T : ~Due(c, T)
           /\ \A c \in Conns : Sound(conn[c], sock[c], FALSE, FALSE, FALSE)
  <1>0. \A tag : ~Has(<<>>, tag)
    BY HasShort
  <1>1. \A c, T : ~Due(c, T)
    BY <1>0 DEF Due, Idle
  <1>2. ASSUME NEW c \in Conns PROVE Sound(conn[c], sock[c], FALSE, FALSE, FALSE)
    <2>1. Sound(conn[c], sock[c], Due(c, {"destroy"}), Due(c, {"read", "tail"}), Due(c, {"write", "send"}))
      BY DEF LoopInv, ConnInv
    <2> QED BY <1>1, <2>1 DEF Sound
  <1> QED BY <1>1, <1>2

(* A handler is started, with the steps in tags to do. *)
Begun(k, q, tags) ==
    Sound(k, q, Has(tags, "destroy"), Has(tags, "read") \/ Has(tags, "tail"),
          Has(tags, "write") \/ Has(tags, "send"))

(* Begun with each of the lists a timer starts.                            *)
LEMMA BegunLists ==
    ASSUME NEW k, NEW q
    PROVE  /\ Begun(k, q, <<"listener", "destroy">>) <=> Sound(k, q, TRUE, FALSE, FALSE)
           /\ Begun(k, q, <<"read", "resume">>) <=> Sound(k, q, FALSE, TRUE, FALSE)
           /\ Begun(k, q, <<"resume">>) <=> Sound(k, q, FALSE, FALSE, FALSE)
  <1>1. \A a, tag : Has(<<a>>, tag) <=> tag = a
    BY HasShort
  <1>2. \A a, b, tag : Has(<<a, b>>, tag) <=> tag = a \/ tag = b
    BY HasShort
  <1> QED BY <1>1, <1>2 DEF Begun, Sound

(* A handler is started for an object: the steps in its list, and no       *)
(* others, are due.                                                        *)
LEMMA StartFacts ==
    ASSUME NEW c \in Objects, NEW tags \in Seq(Tags), Start(c, tags)
    PROVE  /\ PcInv' /\ \A d, T : d # c => ~Due(d, T)'
           /\ \A T : Due(c, T)' <=> \E tag \in T : Has(tags, tag)
  <1>1. pc' = [self |-> c, todo |-> tags] /\ c # None
    BY LoopAssumption DEF Start, Objects
  <1> QED BY <1>1 DEF PcInv, Due

(* A timer of an object fires: its field is cleared and its handler is     *)
(* started.                                                                *)
LEMMA TimerKeeps ==
    ASSUME LoopInv, Idle, NEW c \in Objects, NEW tags \in Seq(Tags), Start(c, tags), Skip,
           NEW K \in Conn, Same(K, conn[c]), Become(Put(S0, c, K, sock[c])),
           c \in Conns => Begun(K, sock[c], tags)
    PROVE  LoopInv'
  <1>1. PICK Q \in Sock : Q = sock[c]
    BY StepsFacts
  <1>2. PICK t : t = Put(S0, c, K, Q)
    OBVIOUS
  <1>3. Good(S0) /\ Same(K, S0.conn[c])
    BY StepsFacts
  <1>4. /\ Good(t) /\ t.fds = S0.fds /\ t.stale = S0.stale /\ t.poll = S0.poll
        /\ \A d \in Objects : t.conn[d] = IF d = c THEN K ELSE S0.conn[d]
        /\ \A d \in Objects : t.sock[d] = IF d = c THEN Q ELSE S0.sock[d]
    BY ONLY <1>2, <1>3, c \in Objects, K \in Conn, Q \in Sock, FieldsKeep
  <1>5. \A d \in Objects : t.sock[d] = S0.sock[d]
    BY <1>1, <1>4, StepsFacts
  <1>6. Later(S0, t)
    <2>1. Batch(t.poll) = Batch(S0.poll) /\ t.sock[c].st = S0.sock[c].st
      BY <1>4, <1>5
    <2>2. \A d \in Objects : d # c => t.sock[d].st = S0.sock[d].st
      BY <1>5
    <2> QED BY <1>3, <1>4, <2>1, <2>2, FieldsLater
  <1>7. /\ PcInv' /\ \A d, T : d # c => ~Due(d, T)'
        /\ \A T : Due(c, T)' <=> \E tag \in T : Has(tags, tag)
    BY StartFacts
  <1>8. ASSUME NEW d \in Conns
        PROVE Sound(t.conn[d], t.sock[d], Due(d, {"destroy"})', Due(d, {"read", "tail"})', Due(d, {"write", "send"})')
    <2>0. d \in Objects
      BY DEF Objects
    <2>1. CASE d = c
      <3>1. Begun(t.conn[d], t.sock[d], tags)
        BY <1>4, <1>5, <2>0, <2>1, StepsFacts
      <3> QED BY <1>7, <2>1, <3>1 DEF Begun, Sound
    <2>2. CASE d # c
      <3>1. t.conn[d] = conn[d] /\ t.sock[d] = sock[d]
        BY <1>4, <1>5, <2>0, <2>2, StepsFacts
      <3>2. Sound(conn[d], sock[d], FALSE, FALSE, FALSE)
        BY IdleFacts
      <3> QED BY <1>7, <2>2, <3>1, <3>2 DEF Sound
    <2> QED BY <2>1, <2>2
  <1>9. quitting' \in BOOLEAN /\ interrupted' = interrupted /\ Become(t)
    BY <1>1, <1>2 DEF Skip, LoopInv
  <1> QED BY <1>4, <1>6, <1>7, <1>8, <1>9, StepKeeps

(* A field of the object alone is set.                                     *)
LEMMA FieldForm ==
    ASSUME LoopInv, NEW c \in Objects, NEW K \in Conn, NEW t, t.conn = [conn EXCEPT ![c] = K],
           t = [S0 EXCEPT !.conn = t.conn]
    PROVE  t = Put(S0, c, K, sock[c])
  <1>1. PICK s \in State : s = S0 /\ s.conn = conn /\ s.sock = sock
    BY StepsFacts
  <1>2. PICK Q \in Sock : Q = sock[c]
    BY StepsFacts
  <1>3. t = PutConn(s, c, K)
    BY <1>1 DEF PutConn
  <1>4. Put(s, c, K, s.sock[c]) = PutConn(s, c, K)
    BY ONLY s \in State, c \in Objects, K \in Conn, Q \in Sock, PutForms
  <1> QED BY <1>1, <1>3, <1>4

(* The write timeout: destroy is due.                                      *)
LEMMA WriteTimeoutKeeps ==
    ASSUME LoopInv, NEW c \in Objects, WriteTimeout(c)
    PROVE  LoopInv'
  <1>1. Idle /\ Start(c, <<"listener", "destroy">>) /\ Skip
    BY DEF WriteTimeout, Looping
  <1>2. conn[c] \in Conn /\ conn \in [Objects -> Conn]
    BY StepsFacts
  <1> DEFINE K == [conn[c] EXCEPT !.wtimer = FALSE]
  <1>3. /\ K \in Conn /\ Same(K, conn[c]) /\ K.live = conn[c].live /\ K.dirty = conn[c].dirty
        /\ K.ptimer = conn[c].ptimer /\ K.misled = conn[c].misled /\ K.told = conn[c].told
    BY <1>2 DEF Conn, Same
  <1>4. [conn EXCEPT ![c].wtimer = FALSE] = [conn EXCEPT ![c] = K]
    BY <1>2
  <1> HIDE DEF K
  <1>5. [S0 EXCEPT !.conn[c].wtimer = FALSE] = Put(S0, c, K, sock[c])
    <2>0. PICK s \in State : s = S0 /\ s.conn = conn
      BY StepsFacts
    <2>1. PICK t : t = [s EXCEPT !.conn[c].wtimer = FALSE]
      OBVIOUS
    <2>2. t = [s EXCEPT !.conn = [conn EXCEPT ![c] = K]]
      BY <1>4, <2>0, <2>1
    <2>3. t.conn = [conn EXCEPT ![c] = K]
      BY <2>2 DEF State
    <2>4. t = [S0 EXCEPT !.conn = t.conn] /\ K \in Conn
      BY <1>3, <2>0, <2>2, <2>3
    <2>5. t = Put(S0, c, K, sock[c])
      BY ONLY LoopInv, c \in Objects, <2>3, <2>4, FieldForm
    <2> QED BY <2>0, <2>1, <2>5
  <1>6. c \in Conns => Sound(K, sock[c], TRUE, FALSE, FALSE)
    BY <1>1, <1>3, IdleFacts DEF Sound
  <1>7. c \in Conns => Begun(K, sock[c], <<"listener", "destroy">>)
    BY <1>6, BegunLists
  <1>8. Become(Put(S0, c, K, sock[c]))
    BY <1>5 DEF WriteTimeout
  <1> QED BY <1>1, <1>3, <1>7, <1>8, ListsTyped, TimerKeeps

(* The timer of a pause: data left in the socket library is due to be read.*)
LEMMA PauseEndsKeeps ==
    ASSUME LoopInv, NEW c \in Objects, PauseEnds(c)
    PROVE  LoopInv'
  <1>1. Idle /\ Skip
    BY DEF PauseEnds, Looping
  <1>2. conn[c] \in Conn /\ conn \in [Objects -> Conn]
    BY StepsFacts
  <1> DEFINE K == [conn[c] EXCEPT !.ptimer = FALSE]
  <1>3. /\ K \in Conn /\ Same(K, conn[c]) /\ K.live = conn[c].live /\ K.dirty = conn[c].dirty
        /\ K.buf = conn[c].buf /\ K.wtimer = conn[c].wtimer /\ K.wantwrite = conn[c].wantwrite
        /\ K.closing = conn[c].closing /\ K.misled = conn[c].misled /\ K.told = conn[c].told
    BY <1>2 DEF Conn, Same
  <1>4. [conn EXCEPT ![c].ptimer = FALSE] = [conn EXCEPT ![c] = K]
    BY <1>2
  <1> HIDE DEF K
  <1>5. [S0 EXCEPT !.conn[c].ptimer = FALSE] = Put(S0, c, K, sock[c])
    <2>0. PICK s \in State : s = S0 /\ s.conn = conn
      BY StepsFacts
    <2>1. PICK t : t = [s EXCEPT !.conn[c].ptimer = FALSE]
      OBVIOUS
    <2>2. t = [s EXCEPT !.conn = [conn EXCEPT ![c] = K]]
      BY <1>4, <2>0, <2>1
    <2>3. t.conn = [conn EXCEPT ![c] = K]
      BY <2>2 DEF State
    <2>4. t = [S0 EXCEPT !.conn = t.conn] /\ K \in Conn
      BY <1>3, <2>0, <2>2, <2>3
    <2>5. t = Put(S0, c, K, sock[c])
      BY ONLY LoopInv, c \in Objects, <2>3, <2>4, FieldForm
    <2> QED BY <2>0, <2>1, <2>5
  <1>6. Become(Put(S0, c, K, sock[c]))
    BY <1>5 DEF PauseEnds
  <1>7. CASE conn[c].live /\ conn[c].dirty
    <2>1. Start(c, <<"read", "resume">>)
      BY <1>7 DEF PauseEnds
    <2>2. c \in Conns => Sound(K, sock[c], FALSE, TRUE, FALSE)
      BY <1>1, <1>3, IdleFacts DEF Sound, Watch
    <2>3. c \in Conns => Begun(K, sock[c], <<"read", "resume">>)
      BY <2>2, BegunLists
    <2> QED BY <1>1, <1>3, <1>6, <2>1, <2>3, ListsTyped, TimerKeeps
  <1>8. CASE ~(conn[c].live /\ conn[c].dirty)
    <2>1. Start(c, <<"resume">>)
      BY <1>8 DEF PauseEnds
    <2>2. c \in Conns => Sound(K, sock[c], FALSE, FALSE, FALSE)
      BY <1>1, <1>3, <1>8, IdleFacts DEF Sound, Watch
    <2>3. c \in Conns => Begun(K, sock[c], <<"resume">>)
      BY <2>2, BegunLists
    <2> QED BY <1>1, <1>3, <1>6, <2>1, <2>3, ListsTyped, TimerKeeps
  <1> QED BY <1>7, <1>8

(* A timer of a module: a listener for no object.                          *)
LEMMA ModuleTimerKeeps ==
    ASSUME LoopInv, ModuleTimer
    PROVE  LoopInv'
  <1>1. Idle /\ pc' = [self |-> None, todo |-> <<"listener">>] /\ Become(S0) /\ Skip
    BY DEF ModuleTimer, Looping, Start
  <1>2. PcInv'
    <2>1. \A tag : Has(<<"listener">>, tag) => tag = "listener"
      BY HasShort
    <2> QED BY <1>1, <2>1, ListsTyped DEF PcInv
  <1>3. \A T : \A c \in Conns : ~Due(c, T)'
    BY <1>1, LoopAssumption DEF Due
  <1>4. \A c \in Conns :
          Sound(conn[c], sock[c], Due(c, {"destroy"})', Due(c, {"read", "tail"})', Due(c, {"write", "send"})')
    BY <1>1, <1>3, IdleFacts DEF Sound
  <1>5. Good(S0) /\ Later(S0, S0) /\ S0.conn = conn /\ S0.sock = sock
    BY StepsFacts
  <1>6. quitting' \in BOOLEAN /\ interrupted' = interrupted
    BY <1>1 DEF Skip, LoopInv
  <1> QED BY <1>1, <1>2, <1>4, <1>5, <1>6, StepKeeps

(* Two poll states with the same registrations.                            *)
Regs(p, o) ==
    p.backend = o.backend /\ p.all = o.all /\ p.wantread = o.wantread /\ p.wantwrite = o.wantwrite

(* What changes only the events of the poll object, and fields that are no *)
(* registration, keeps the agreement.                                      *)
LEMMA PollKeeps ==
    ASSUME LoopInv, poll' \in PollState, Regs(poll', poll), UNCHANGED <<fds, sock>>, stale' \in SUBSET Fds,
           conn' \in [Objects -> Conn], \A d \in Objects : Same(conn'[d], conn[d])
    PROVE  Good(S0')
  <1>1. PICK s \in State : s = S0 /\ s.conn = conn /\ s.sock = sock /\ s.fds = fds /\ s.poll = poll
    BY StepsFacts
  <1>2. PICK t : t = S0'
    OBVIOUS
  <1>3. t = [poll |-> poll', conn |-> conn', fds |-> fds, sock |-> sock, stale |-> stale']
    BY <1>2 DEF S0
  <1>4. t \in State
    BY <1>1, <1>3 DEF State
  <1>5. /\ t.fds = s.fds /\ t.poll.all = s.poll.all
        /\ t.poll.wantread = s.poll.wantread /\ t.poll.wantwrite = s.poll.wantwrite
        /\ \A d \in Objects : /\ t.conn[d].live = s.conn[d].live /\ t.conn[d].fd = s.conn[d].fd
                              /\ t.conn[d].wantread = s.conn[d].wantread
                              /\ t.conn[d].wantwrite = s.conn[d].wantwrite
    BY <1>1, <1>3 DEF Regs, Same
  <1>6. Good(s)
    BY <1>1, StepsFacts
  <1>7. Good(t)
    BY ONLY <1>4, <1>5, <1>6, RestKeeps
  <1> QED BY <1>2, <1>7

(* What wait hands out is an event of a descriptor; a writable one has been*)
(* reported by the kernel.                                                 *)
LEMMA EventFacts ==
    ASSUME NEW p \in PollState, Pending(p), NEW f, NEW q, NEW old, NEW intr, Fetched(p, f, q, old, intr)
    PROVE  /\ Lpushevent(p).fd \in Fds /\ Lpushevent(p).r \in BOOLEAN /\ Lpushevent(p).w \in BOOLEAN
           /\ Lpushevent(p).w => Reported(p, Lpushevent(p).fd)
           /\ Pushed(p) \in PollState /\ Regs(Pushed(p), p)
           /\ \A fd \in Fds : Reported(Pushed(p), fd) => Reported(p, fd)
           /\ Fetched(Pushed(p), f, q, old, intr)
  <1>1. CASE p.backend = "epoll"
    <2>1. Unreported(p) = {}
      BY <1>1 DEF Unreported, Fetched
    <2>0. PICK E : E = [fd : Fds, r : BOOLEAN, w : BOOLEAN]
      OBVIOUS
    <2>2. p.events # <<>> /\ p.events \in Seq(E)
      BY <2>0, <2>1 DEF Pending, PollState
    <2>3. Len(p.events) \in Nat /\ Len(p.events) > 0
      BY <2>2
    <2> DEFINE n == Len(p.events)
               rest == SubSeq(p.events, 1, n - 1)
    <2>4. p.events[n] \in [fd : Fds, r : BOOLEAN, w : BOOLEAN]
      <3>1. n \in 1..Len(p.events)
        BY <2>3
      <3>2. p.events[n] \in E
        BY <2>2, <3>1, ElementOfSeq
      <3> QED BY <2>0, <3>2
    <2>5. Lpushevent(p) = p.events[n]
      BY <1>1 DEF Lpushevent
    <2>6. rest \in Seq(E) /\ Len(rest) = n - 1
          /\ \A i \in 1..n - 1 : rest[i] = p.events[i]
      BY <2>2, <2>3
    <2>7. Pushed(p) = [p EXCEPT !.events = rest]
      BY <1>1 DEF Pushed
    <2> HIDE DEF rest
    <2>8. /\ Pushed(p) \in PollState /\ Pushed(p).events = rest /\ Regs(Pushed(p), p)
          /\ Pushed(p).readable = p.readable /\ Pushed(p).writable = p.writable /\ Pushed(p).err = p.err
      BY <2>0, <2>6, <2>7 DEF PollState, Regs
    <2>9. \A fd \in Fds : Reported(Pushed(p), fd) => Reported(p, fd)
      <3> SUFFICES ASSUME NEW fd \in Fds, Reported(Pushed(p), fd) PROVE Reported(p, fd)
        OBVIOUS
      <3>1. CASE fd \in p.writable
        BY <3>1 DEF Reported
      <3>2. CASE \E i \in 1..Len(rest) : rest[i].fd = fd /\ rest[i].w
        <4>1. PICK i \in 1..n - 1 : rest[i].fd = fd /\ rest[i].w
          BY <3>2, <2>6
        <4>2. i \in 1..Len(p.events) /\ p.events[i].fd = fd /\ p.events[i].w
          BY <4>1, <2>3, <2>6
        <4> QED BY <4>2 DEF Reported
      <3> QED BY <3>1, <3>2, <2>8 DEF Reported
    <2>10. Lpushevent(p).w => Reported(p, Lpushevent(p).fd)
      <3>1. n \in 1..Len(p.events)
        BY <2>3
      <3> QED BY <2>5, <3>1 DEF Reported
    <2>11. Fetched(Pushed(p), f, q, old, intr)
      BY <1>1, <2>8, <2>9 DEF Fetched, Regs
    <2> QED BY <2>4, <2>5, <2>8, <2>9, <2>10, <2>11
  <1>2. CASE p.backend = "select"
    <2> DEFINE fd == Min(Unreported(p))
    <2>1. p.events = <<>>
      BY <1>2 DEF Fetched
    <2>2. Unreported(p) # {} /\ Unreported(p) \subseteq Fds /\ Fds \subseteq Nat
      BY <2>1, PollAssumption DEF Pending, Unreported, PollState
    <2>3. fd \in Unreported(p)
      <3>1. Unreported(p) \in SUBSET Nat
        BY <2>2
      <3> QED BY ONLY <2>2, <3>1, LeastExists
    <2>4. fd \in Fds /\ fd \in -1..FD_SETSIZE
      <3>1. fd \in 0..FD_SETSIZE - 1 /\ fd \in Fds /\ FD_SETSIZE \in Nat
        BY <2>2, <2>3, PollAssumption
      <3> HIDE DEF fd
      <3> QED BY <3>1
    <2>5. Lpushevent(p) = [fd |-> fd, r |-> fd \in p.readable \cup p.err, w |-> fd \in p.writable]
      BY <1>2 DEF Lpushevent
    <2>6. Pushed(p) = [p EXCEPT !.readable = @ \ {fd}, !.writable = @ \ {fd}, !.err = @ \ {fd}, !.processed = fd]
      BY <1>2 DEF Pushed
    <2> HIDE DEF fd
    <2>7. /\ Pushed(p) \in PollState /\ Pushed(p).events = p.events /\ Regs(Pushed(p), p)
          /\ Pushed(p).writable \subseteq p.writable
      BY <2>4, <2>6 DEF PollState, Regs
    <2>8. \A e \in Fds : Reported(Pushed(p), e) => Reported(p, e)
      BY <2>7 DEF Reported
    <2>9. Lpushevent(p).w => Reported(p, Lpushevent(p).fd)
      <3>1. PICK b : b = (fd \in p.writable)
        OBVIOUS
      <3>2. Lpushevent(p).w = b /\ Lpushevent(p).fd = fd
        BY <2>5, <3>1
      <3> QED BY <3>1, <3>2 DEF Reported
    <2>10. Fetched(Pushed(p), f, q, old, intr)
      BY <1>2, <2>7, <2>8, <2>1 DEF Fetched, Regs
    <2> QED BY <2>4, <2>5, <2>7, <2>8, <2>9, <2>10
  <1> QED BY <1>1, <1>2 DEF PollState, Backends

(* The body of the loop: the object under the descriptor of the event gets *)
(* its handler; an event that is not true of it is one of the two          *)
(* exceptions, and the connection is marked as misled.                     *)
LEMMA DispatchKeeps ==
    ASSUME LoopInv, Idle, NEW p \in PollState, Regs(p, poll), Pending(p), NEW intr \in BOOLEAN,
           NEW old \in SUBSET Fds, Fetched(p, fds, sock, old, intr), Dispatch(p, intr, old)
    PROVE  LoopInv'
  <1> DEFINE e == Lpushevent(p)
             P == Pushed(p)
             tags == (IF e.r THEN <<"read">> ELSE <<>>) \o (IF e.w THEN <<"write">> ELSE <<>>)
  <1>1. /\ e.fd \in Fds /\ e.r \in BOOLEAN /\ e.w \in BOOLEAN
        /\ e.w => Reported(p, e.fd)
        /\ P \in PollState /\ Regs(P, p)
        /\ Fetched(P, fds, sock, old, intr)
    BY ONLY p \in PollState, Pending(p), Fetched(p, fds, sock, old, intr), EventFacts
  <1>2. UNCHANGED <<fds, sock, quitting>> /\ stale' = old /\ interrupted' = intr
    BY DEF Dispatch
  <1>0. PICK c : c = fds[e.fd]
    OBVIOUS
  <1>3. /\ c = None => poll' = Ldel(P, e.fd) /\ UNCHANGED <<conn, pc>>
        /\ c # None => /\ poll' = P /\ Start(c, tags)
                       /\ conn' = [conn EXCEPT ![c].misled = @ \/ intr \/ e.fd \in old]
    BY <1>0 DEF Dispatch
  <1> HIDE DEF P, tags, e
  <1>4. /\ Good(S0) /\ conn \in [Objects -> Conn] /\ sock \in [Objects -> Sock]
        /\ fds \in [Fds -> Objects \cup {None}] /\ quitting \in BOOLEAN /\ PcInv
        /\ Agree(poll, conn, fds)
    BY StepsFacts DEF LoopInv, State, Good
  <1>5. \A d \in Objects : Same(conn[d], conn[d])
    BY DEF Same
  <1>6. CASE c = None
    <2>1. poll' = Forget(P, {e.fd}) /\ conn' = conn /\ pc' = pc
      BY <1>3, <1>6 DEF Ldel
    <2>2. e.fd \notin poll.all
      BY <1>0, <1>1, <1>4, <1>6 DEF Agree
    <2>3. e.fd \notin P.all /\ e.fd \notin P.wantread /\ e.fd \notin P.wantwrite
      BY <1>1, <1>4, <2>2 DEF Regs, Agree
    <2>4. /\ poll' \in PollState /\ Regs(poll', poll) /\ poll'.events = P.events
          /\ poll'.readable \subseteq P.readable /\ poll'.writable \subseteq P.writable /\ poll'.err \subseteq P.err
      <3>1. PICK f : f = Forget(P, {e.fd})
        OBVIOUS
      <3>2. P \in PollState /\ Regs(P, poll)
        BY <1>1, Zenon DEF Regs
      <3>3. /\ f \in PollState /\ f.events = P.events /\ f.backend = P.backend
            /\ f.all = P.all \ {e.fd} /\ f.wantread = P.wantread \ {e.fd}
            /\ f.wantwrite = P.wantwrite \ {e.fd}
            /\ f.readable = P.readable \ {e.fd} /\ f.writable = P.writable \ {e.fd}
            /\ f.err = P.err \ {e.fd}
        BY ONLY <3>1, <3>2 DEF Forget, PollState
      <3>4. Regs(f, poll)
        BY ONLY <2>3, <3>2, <3>3 DEF Regs
      <3> QED BY ONLY <2>1, <3>1, <3>3, <3>4
    <2>5. Good(S0')
      BY <1>2, <1>4, <1>5, <2>1, <2>4, PollKeeps
    <2>6. \A fd \in Fds : Reported(poll', fd) => Reported(P, fd)
      BY <2>4 DEF Reported
    <2>7. Fetched(poll', fds, sock, old, intr)
      BY <1>1, <2>4, <2>6 DEF Fetched, Regs
    <2>8. ConnInv' /\ PcInv'
      BY <1>2, <2>1 DEF LoopInv, ConnInv, PcInv, Due
    <2> QED BY <1>2, <1>4, <2>5, <2>7, <2>8 DEF LoopInv
  <1>7. CASE c # None
    <2>1. c \in Objects
      BY <1>0, <1>1, <1>4, <1>7
    <2> DEFINE x == conn[c].misled \/ intr \/ e.fd \in old
               K == [conn[c] EXCEPT !.misled = x]
    <2>2. conn[c] \in Conn /\ conn[c].misled \in BOOLEAN
      BY <1>4, <2>1 DEF Conn
    <2>3. conn' = [conn EXCEPT ![c] = K]
      BY <1>3, <1>7
    <2>4. x \in BOOLEAN /\ (conn[c].misled => x)
      BY <2>2
    <2> HIDE DEF x
    <2>5. /\ K \in Conn /\ Same(K, conn[c]) /\ K.live = conn[c].live /\ K.dirty = conn[c].dirty
          /\ K.buf = conn[c].buf /\ K.wtimer = conn[c].wtimer /\ K.wantwrite = conn[c].wantwrite
          /\ K.closing = conn[c].closing /\ K.misled = x /\ K.told = conn[c].told /\ K.ptimer = conn[c].ptimer
      BY <2>2, <2>4 DEF Conn, Same
    <2> HIDE DEF K
    <2>6. conn' \in [Objects -> Conn] /\ conn'[c] = K /\ \A d \in Objects : d # c => conn'[d] = conn[d]
      BY <1>4, <2>1, <2>3, <2>5
    <2>7. poll' = P
      BY <1>3, <1>7
    <2>8. Good(S0')
      <3>1. \A d \in Objects : Same(conn'[d], conn[d])
        BY <1>5, <2>5, <2>6
      <3>2. poll' \in PollState /\ Regs(poll', poll)
        BY <1>1, <2>7 DEF Regs
      <3>3. UNCHANGED <<fds, sock>> /\ stale' \in SUBSET Fds
        BY <1>2
      <3> QED BY <2>6, <3>1, <3>2, <3>3, PollKeeps
    <2>9. tags \in Seq(Tags) /\ \A tag : Has(tags, tag) <=> (e.r /\ tag = "read") \/ (e.w /\ tag = "write")
      <3> DEFINE rd == IF e.r THEN <<"read">> ELSE <<>>
                 wr == IF e.w THEN <<"write">> ELSE <<>>
      <3>1. rd \in Seq(Tags) /\ wr \in Seq(Tags) /\ tags = rd \o wr
        BY ListsTyped DEF tags
      <3>2. \A tag : ~Has(<<>>, tag)
        BY HasShort
      <3>3. \A a, tag : Has(<<a>>, tag) <=> tag = a
        BY HasShort
      <3>4. \A tag : Has(rd, tag) <=> e.r /\ tag = "read"
        BY <3>2, <3>3
      <3>5. \A tag : Has(wr, tag) <=> e.w /\ tag = "write"
        BY <3>2, <3>3
      <3> HIDE DEF rd, wr
      <3>6. rd \o wr \in Seq(Tags)
        BY <3>1, ConcatProperties
      <3>7. \A tag : Has(rd \o wr, tag) <=> Has(rd, tag) \/ Has(wr, tag)
        BY <3>1, HasJoined
      <3> QED BY <3>1, <3>4, <3>5, <3>6, <3>7
    <2>10. /\ PcInv' /\ \A d, T : d # c => ~Due(d, T)'
           /\ \A T : Due(c, T)' <=> \E tag \in T : Has(tags, tag)
      <3>1. Start(c, tags)
        BY <1>3, <1>7
      <3> QED BY <2>1, <2>9, <3>1, StartFacts
    <2>11. e.w => x \/ sock[c].st # "connecting"
      <3>1. CASE intr \/ e.fd \in old
        BY <3>1 DEF x
      <3>2. CASE ~intr /\ e.fd \notin old
        BY <3>2, <1>0, <1>1 DEF Fetched
      <3> QED BY <3>1, <3>2
    <2>12. ConnInv'
      <3> SUFFICES ASSUME NEW d \in Conns
                   PROVE Sound(conn'[d], sock[d], Due(d, {"destroy"})', Due(d, {"read", "tail"})',
                               Due(d, {"write", "send"})')
        BY <1>2 DEF ConnInv
      <3>0. d \in Objects /\ Sound(conn[d], sock[d], FALSE, FALSE, FALSE)
        BY IdleFacts DEF Objects
      <3>1. CASE d = c
        <4>1. ~Due(c, {"destroy"})'
          BY <2>9, <2>10
        <4>2. Due(c, {"write", "send"})' => e.w
          BY <2>9, <2>10
        <4>3. conn'[d] = K /\ Sound(conn[c], sock[c], FALSE, FALSE, FALSE)
          BY <2>6, <3>0, <3>1
        <4>4. \A R, W \in BOOLEAN : (W => e.w) => Sound(K, sock[c], FALSE, R, W)
          BY <2>4, <2>5, <2>11, <4>3 DEF Sound, Watch
        <4> QED BY <3>1, <4>1, <4>2, <4>3, <4>4 DEF Sound
      <3>2. CASE d # c
        BY <2>6, <2>10, <3>0, <3>2 DEF Sound
      <3> QED BY <3>1, <3>2
    <2> QED BY <1>1, <1>2, <1>4, <2>7, <2>8, <2>10, <2>12 DEF LoopInv
  <1> QED BY <1>6, <1>7

(* The next event of the batch.                                            *)
LEMMA NextEventKeeps ==
    ASSUME LoopInv, NextEvent
    PROVE  LoopInv'
  <1>1. Idle /\ Pending(poll) /\ Dispatch(poll, interrupted, stale)
    BY DEF NextEvent, Looping
  <1>2. poll \in PollState /\ stale \in SUBSET Fds
    BY StepsFacts DEF State
  <1>3. interrupted \in BOOLEAN /\ Fetched(poll, fds, sock, stale, interrupted)
    BY DEF LoopInv
  <1>4. Regs(poll, poll)
    BY DEF Regs
  <1> QED BY <1>1, <1>2, <1>3, <1>4, DispatchKeeps

(* The kernel is asked only when every event of the last batch has been    *)
(* handed out.                                                             *)
LEMMA QuietFacts ==
    ASSUME LoopInv, ~Pending(poll)
    PROVE  /\ poll \in PollState /\ poll.events = <<>>
           /\ poll.backend = "epoll" => poll.readable = {} /\ poll.writable = {} /\ poll.err = {}
           /\ poll.backend \in {"epoll", "select"}
           /\ poll.wantread \subseteq poll.all /\ poll.wantwrite \subseteq poll.all /\ poll.all \subseteq Fds
           /\ \A c \in Objects : conn[c].live => conn[c].fd \in Fds /\ fds[conn[c].fd] = c
           /\ \A fd \in Fds : fd \in poll.all => fds[fd] # None
  <1>1. Good(S0) /\ S0.poll = poll /\ S0.conn = conn /\ S0.fds = fds /\ S0 \in State
    BY StepsFacts
  <1>2. poll \in PollState /\ Agree(poll, conn, fds)
    BY <1>1 DEF Good, State
  <1> QED BY <1>2 DEF LoopInv, Fetched, Pending, Agree, PollState, Backends

(* The descriptors the kernel finds ready; those with room for output      *)
(* belong to connections that are established or have failed.              *)
LEMMA ReadyFacts ==
    ASSUME LoopInv, ~Pending(poll)
    PROVE  /\ ReadyFds(poll, Kernel) \subseteq Fds /\ Cardinality(ReadyFds(poll, Kernel)) \in Nat
           /\ ReadyFds(poll, Kernel) # {} => Cardinality(ReadyFds(poll, Kernel)) # 0
           /\ Kernel.in \subseteq Fds /\ Kernel.out \subseteq Fds /\ Kernel.hup \subseteq Fds
           /\ \A fd \in Kernel.out : fds[fd] # None /\ sock[fds[fd]].st # "connecting"
  <1>1. /\ poll.backend \in {"epoll", "select"}
        /\ poll.wantread \subseteq poll.all /\ poll.wantwrite \subseteq poll.all /\ poll.all \subseteq Fds
        /\ \A c \in Objects : conn[c].live => conn[c].fd \in Fds /\ fds[conn[c].fd] = c
    BY QuietFacts
  <1> DEFINE Of(C) == {conn[c].fd : c \in {d \in C : conn[d].live}}
             bad == {c \in Objects : sock[c].st = "bad"}
             up == {c \in Objects : sock[c].st = "up"}
             has == {c \in Objects : sock[c].in}
  <1>2. Kernel.in = Of(bad \cup has) /\ Kernel.out = Of(bad \cup up) /\ Kernel.hup = Of(bad)
    BY DEF Kernel
  <1>3. Kernel.in \subseteq Fds /\ Kernel.out \subseteq Fds /\ Kernel.hup \subseteq Fds
    BY <1>1, <1>2
  <1>4. ASSUME NEW fd \in Kernel.out PROVE fds[fd] # None /\ sock[fds[fd]].st # "connecting"
    <2>1. PICK c \in bad \cup up : conn[c].live /\ fd = conn[c].fd
      BY <1>2, <1>4
    <2> QED BY <1>1, <2>1, LoopAssumption DEF Objects
  <1>5. ReadyFds(poll, Kernel) \subseteq Fds
    BY <1>1, <1>3 DEF ReadyFds
  <1>6. IsFiniteSet(Fds)
    <2>1. IsFiniteSet(0..FD_SETSIZE - 1)
      BY PollAssumption, FS_Interval
    <2> QED BY <2>1, PollAssumption, FS_Subset
  <1>7. IsFiniteSet(ReadyFds(poll, Kernel))
    BY <1>5, <1>6, FS_Subset
  <1> QED BY <1>3, <1>4, <1>5, <1>7, FS_EmptySet, FS_CardinalityType

(* The batch that is fetched: each writable event in it is true of the     *)
(* connection under the descriptor.                                        *)
LEMMA ReadyKeeps ==
    ASSUME LoopInv, ~Pending(poll), ReadyFds(poll, Kernel) # {}, NEW p \in LwaitReady(poll, Kernel)
    PROVE  p \in PollState /\ Regs(p, poll) /\ Pending(p) /\ Fetched(p, fds, sock, {}, FALSE)
  <1>1. /\ poll \in PollState /\ poll.events = <<>>
        /\ poll.backend = "epoll" => poll.readable = {} /\ poll.writable = {} /\ poll.err = {}
        /\ poll.backend \in {"epoll", "select"}
        /\ poll.wantread \subseteq poll.all /\ poll.wantwrite \subseteq poll.all /\ poll.all \subseteq Fds
        /\ \A fd \in Fds : fd \in poll.all => fds[fd] # None
    BY QuietFacts
  <1>2. /\ ReadyFds(poll, Kernel) \subseteq Fds /\ Cardinality(ReadyFds(poll, Kernel)) \in Nat
        /\ Cardinality(ReadyFds(poll, Kernel)) # 0
        /\ \A fd \in Kernel.out : fds[fd] # None /\ sock[fds[fd]].st # "connecting"
        /\ Kernel.in \subseteq Fds /\ Kernel.out \subseteq Fds
    BY ReadyFacts
  <1>3. CASE poll.backend = "epoll"
    <2> DEFINE n == Min({MAX_EVENTS, Cardinality(ReadyFds(poll, Kernel))})
    <2>1. n \in Nat /\ n # 0
      <3>1. PICK m : m = Cardinality(ReadyFds(poll, Kernel))
        OBVIOUS
      <3>2. {MAX_EVENTS, m} \in SUBSET Nat /\ {MAX_EVENTS, m} # {}
        BY <1>2, <3>1, PollAssumption
      <3>3. Min({MAX_EVENTS, m}) \in {MAX_EVENTS, m}
        BY ONLY <3>2, LeastExists
      <3> QED BY <1>2, <3>1, <3>3, PollAssumption
    <2>2. PICK s \in [1..n -> ReadyFds(poll, Kernel)] :
             p = [poll EXCEPT !.events = [i \in 1..n |-> EpollEvent(poll, Kernel, s[i])]]
      BY <1>3 DEF LwaitReady
    <2> HIDE DEF n
    <2> DEFINE ev == [i \in 1..n |-> EpollEvent(poll, Kernel, s[i])]
    <2>3. \A i \in 1..n : s[i] \in Fds
      BY <1>2
    <2>4. \A fd \in Fds : EpollEvent(poll, Kernel, fd) \in [fd : Fds, r : BOOLEAN, w : BOOLEAN]
      <3> SUFFICES ASSUME NEW fd \in Fds
                   PROVE EpollEvent(poll, Kernel, fd) \in [fd : Fds, r : BOOLEAN, w : BOOLEAN]
        OBVIOUS
      <3>1. PICK r \in BOOLEAN : r = ((fd \in poll.wantread /\ fd \in Kernel.in) \/ fd \in Kernel.hup)
        OBVIOUS
      <3>2. PICK w \in BOOLEAN : w = (fd \in poll.wantwrite /\ fd \in Kernel.out)
        OBVIOUS
      <3>3. EpollEvent(poll, Kernel, fd) = [fd |-> fd, r |-> r, w |-> w]
        BY <3>1, <3>2 DEF EpollEvent
      <3> QED BY <3>3
    <2>5. \A fd \in Fds : EpollEvent(poll, Kernel, fd).fd = fd /\ (EpollEvent(poll, Kernel, fd).w => fd \in Kernel.out)
      <3> SUFFICES ASSUME NEW fd \in Fds
                   PROVE EpollEvent(poll, Kernel, fd).fd = fd /\ (EpollEvent(poll, Kernel, fd).w => fd \in Kernel.out)
        OBVIOUS
      <3>1. PICK r \in BOOLEAN : r = ((fd \in poll.wantread /\ fd \in Kernel.in) \/ fd \in Kernel.hup)
        OBVIOUS
      <3>2. PICK w \in BOOLEAN : w = (fd \in poll.wantwrite /\ fd \in Kernel.out)
        OBVIOUS
      <3>3. EpollEvent(poll, Kernel, fd) = [fd |-> fd, r |-> r, w |-> w]
        BY <3>1, <3>2 DEF EpollEvent
      <3>4. EpollEvent(poll, Kernel, fd).fd = fd /\ EpollEvent(poll, Kernel, fd).w = w
        BY <3>3
      <3> QED BY <3>2, <3>4
    <2>6. PICK E : E = [fd : Fds, r : BOOLEAN, w : BOOLEAN]
      OBVIOUS
    <2>7. ev \in Seq(E) /\ Len(ev) = n /\ \A i \in 1..n : ev[i] = EpollEvent(poll, Kernel, s[i])
      <3>1. \A i \in 1..n : EpollEvent(poll, Kernel, s[i]) \in E
        BY <2>3, <2>4, <2>6
      <3> QED BY <2>1, <3>1
    <2>8. p = [poll EXCEPT !.events = ev]
      BY <2>2
    <2> HIDE DEF ev
    <2>9. /\ p \in PollState /\ Regs(p, poll) /\ p.events = ev
          /\ p.readable = {} /\ p.writable = {} /\ p.err = {} /\ p.backend = "epoll"
      BY <1>1, <1>3, <2>6, <2>7, <2>8 DEF PollState, Regs
    <2>10. p.events # <<>>
      BY <2>1, <2>7, <2>9
    <2>11. ASSUME NEW fd \in Fds, Reported(p, fd) PROVE fds[fd] # None /\ sock[fds[fd]].st # "connecting"
      <3>1. PICK i \in 1..n : ev[i].fd = fd /\ ev[i].w
        BY <2>7, <2>9, <2>11 DEF Reported
      <3>2. s[i] = fd /\ fd \in Kernel.out
        BY <2>3, <2>5, <2>7, <3>1
      <3> QED BY <1>2, <3>2
    <2> QED BY <2>9, <2>10, <2>11 DEF Pending, Fetched
  <1>4. CASE poll.backend = "select"
    <2>1. p = [poll EXCEPT !.readable = poll.wantread \cap Kernel.in, !.writable = poll.wantwrite \cap Kernel.out,
                           !.err = {}, !.processed = -1]
      BY <1>4 DEF LwaitReady
    <2>2. -1 \in -1..FD_SETSIZE
      BY PollAssumption
    <2>3. /\ p \in PollState /\ Regs(p, poll) /\ p.events = <<>> /\ p.backend = "select"
          /\ p.readable = poll.wantread \cap Kernel.in /\ p.writable = poll.wantwrite \cap Kernel.out
          /\ p.err = {} /\ p.processed = -1
      BY <1>1, <1>2, <1>4, <2>1, <2>2 DEF PollState, Regs
    <2>4. Pending(p)
      <3>1. PICK fd : fd \in p.readable \cup p.writable
        BY <1>4, <2>3 DEF ReadyFds
      <3>2. fd \in Fds
        BY <1>2, <2>3, <3>1
      <3>3. fd > -1 /\ fd < FD_SETSIZE
        <4>1. fd \in 0..FD_SETSIZE - 1 /\ FD_SETSIZE \in Nat
          BY <3>2, PollAssumption
        <4> QED BY <4>1
      <3> QED BY <2>3, <3>1, <3>3 DEF Pending, Unreported
    <2>5. ASSUME NEW fd \in Fds, Reported(p, fd) PROVE fds[fd] # None /\ sock[fds[fd]].st # "connecting"
      <3>1. fd \in Kernel.out
        BY <2>3, <2>5 DEF Reported
      <3> QED BY <1>2, <3>1
    <2> QED BY <2>3, <2>4, <2>5 DEF Fetched
  <1> QED BY <1>1, <1>3, <1>4

(* wait returns the first event of a new batch.                            *)
LEMMA WaitKeeps ==
    ASSUME LoopInv, Wait
    PROVE  LoopInv'
  <1>1. PICK p \in LwaitReady(poll, Kernel) : Dispatch(p, FALSE, {})
    BY DEF Wait
  <1>2. Idle /\ ~Pending(poll) /\ ReadyFds(poll, Kernel) # {}
    BY DEF Wait, Looping
  <1>3. p \in PollState /\ Regs(p, poll) /\ Pending(p) /\ Fetched(p, fds, sock, {}, FALSE)
    BY <1>2, ReadyKeeps
  <1>4. PICK no \in BOOLEAN : no = FALSE
    OBVIOUS
  <1>5. PICK old \in SUBSET Fds : old = {}
    OBVIOUS
  <1>6. Dispatch(p, no, old) /\ Fetched(p, fds, sock, old, no)
    BY <1>1, <1>3, <1>4, <1>5
  <1> QED BY <1>2, <1>3, <1>6, DispatchKeeps

(* wait returns without an event, at the timeout or because a signal came; *)
(* then select has left its copies of the interest sets.                   *)
LEMMA QuietKeeps ==
    ASSUME LoopInv, ~Pending(poll), UNCHANGED <<conn, fds, sock, pc, quitting>>, stale' = {},
           \/ poll' = LwaitTimeout(poll) /\ interrupted' = FALSE
           \/ poll' = LwaitSignal(poll) /\ interrupted' = (poll.backend = "select")
    PROVE  LoopInv'
  <1>1. /\ poll \in PollState /\ poll.events = <<>>
        /\ poll.backend = "epoll" => poll.readable = {} /\ poll.writable = {} /\ poll.err = {}
        /\ poll.backend \in {"epoll", "select"}
    BY QuietFacts
  <1>2. poll' \in PollState /\ Regs(poll', poll) /\ poll'.events = <<>>
    <2>1. CASE poll.backend = "epoll"
      BY <1>1, <2>1 DEF LwaitTimeout, LwaitSignal, Regs
    <2>2. CASE poll.backend = "select" /\ poll' = LwaitTimeout(poll)
      BY <1>1, <2>2 DEF LwaitTimeout, PollState, Regs
    <2>3. CASE poll.backend = "select" /\ poll' = LwaitSignal(poll)
      <3>1. poll' = [poll EXCEPT !.readable = poll.wantread, !.writable = poll.wantwrite, !.err = poll.all]
        BY <2>3 DEF LwaitSignal
      <3> QED BY <1>1, <3>1 DEF PollState, Regs
    <2> QED BY <1>1, <2>1, <2>2, <2>3
  <1>3. /\ poll.backend = "epoll" => poll' = poll
        /\ poll.backend = "select" /\ interrupted' = FALSE => poll'.writable = {}
        /\ interrupted' \in BOOLEAN /\ poll'.backend = poll.backend
    BY <1>1 DEF LwaitTimeout, LwaitSignal, PollState
  <1>4. Fetched(poll', fds, sock, {}, interrupted')
    <2>1. ASSUME ~interrupted', NEW fd \in Fds PROVE ~Reported(poll', fd)
      BY <1>1, <1>2, <1>3, <2>1 DEF Reported
    <2> QED BY <1>1, <1>2, <1>3, <2>1 DEF Fetched
  <1>5. conn \in [Objects -> Conn] /\ \A d \in Objects : Same(conn[d], conn[d])
    BY StepsFacts DEF Same
  <1>6. Good(S0')
    BY <1>2, <1>5, PollKeeps
  <1>7. PcInv' /\ ConnInv' /\ quitting' \in BOOLEAN
    BY DEF LoopInv, PcInv, ConnInv, Due
  <1> QED BY <1>3, <1>4, <1>6, <1>7 DEF LoopInv

(* The network changes a socket: a connection that was established does not*)
(* go back to being one that is tried.                                     *)
LEMMA NetworkKeeps ==
    ASSUME LoopInv, Network
    PROVE  LoopInv'
  <1>1. UNCHANGED <<poll, conn, fds, pc, quitting, stale, interrupted>>
    BY DEF Network
  <1>2. PICK c \in Objects :
        \/ sock[c].st = "connecting" /\ \E st \in {"up", "bad"} : sock' = [sock EXCEPT ![c].st = st]
        \/ sock[c].st \in {"up", "full", "listen"} /\ sock' = [sock EXCEPT ![c].in = TRUE]
        \/ \E st \in {"up", "full", "bad"} : sock' = [sock EXCEPT ![c].st = st]
    BY DEF Network
  <1>3. sock \in [Objects -> Sock] /\ sock[c] \in Sock
    BY StepsFacts
  <1>4. PICK Q \in Sock : /\ sock' = [sock EXCEPT ![c] = Q] /\ (Q.st = "connecting" => sock[c].st = "connecting" /\ Q.in = sock[c].in)
                          /\ Q.st # "connecting" \/ Q = sock[c]
    <2>1. ASSUME NEW st \in {"up", "full", "bad"}, sock' = [sock EXCEPT ![c].st = st]
          PROVE \E Q \in Sock : sock' = [sock EXCEPT ![c] = Q] /\ Q.st # "connecting"
      <3> DEFINE Q == [sock[c] EXCEPT !.st = st]
      <3>1. Q \in Sock /\ Q.st # "connecting"
        BY <1>3 DEF Sock
      <3>2. sock' = [sock EXCEPT ![c] = Q]
        BY <2>1
      <3> QED BY <3>1, <3>2
    <2>2. ASSUME sock[c].st \in {"up", "full", "listen"}, sock' = [sock EXCEPT ![c].in = TRUE]
          PROVE \E Q \in Sock : sock' = [sock EXCEPT ![c] = Q] /\ Q.st # "connecting"
      <3> DEFINE Q == [sock[c] EXCEPT !.in = TRUE]
      <3>1. Q \in Sock /\ Q.st # "connecting"
        BY <1>3, <2>2 DEF Sock
      <3>2. sock' = [sock EXCEPT ![c] = Q]
        BY <2>2
      <3> QED BY <3>1, <3>2
    <2> QED BY <1>2, <2>1, <2>2
  <1>5. sock' \in [Objects -> Sock] /\ sock'[c] = Q /\ \A d \in Objects : d # c => sock'[d] = sock[d]
    BY <1>3, <1>4
  <1>6. \A d \in Objects : sock'[d].st = "connecting" => sock'[d] = sock[d]
    BY <1>4, <1>5
  <1>7. PICK s \in State : s = S0 /\ s.conn = conn /\ s.sock = sock /\ s.fds = fds /\ s.poll = poll /\ s.stale = stale
    BY StepsFacts
  <1>8. Good(S0')
    <2>1. PICK t : t = S0'
      OBVIOUS
    <2>2. t = [poll |-> poll, conn |-> conn, fds |-> fds, sock |-> sock', stale |-> stale]
      BY <1>1, <2>1 DEF S0
    <2>3. t \in State /\ t.poll = poll /\ t.conn = conn /\ t.fds = fds
      BY <1>5, <1>7, <2>2 DEF State
    <2>4. Good(s)
      BY <1>7, StepsFacts
    <2> QED BY <1>7, <2>1, <2>3, <2>4 DEF Good
  <1>9. ConnInv' /\ PcInv'
    <2>1. ASSUME NEW d \in Conns
          PROVE Sound(conn[d], sock'[d], Due(d, {"destroy"})', Due(d, {"read", "tail"})', Due(d, {"write", "send"})')
      <3>1. d \in Objects /\ Sound(conn[d], sock[d], Due(d, {"destroy"}), Due(d, {"read", "tail"}), Due(d, {"write", "send"}))
        BY DEF LoopInv, ConnInv, Objects
      <3>2. \A T : Due(d, T)' <=> Due(d, T)
        BY <1>1 DEF Due
      <3>3. CASE sock'[d].st = "connecting"
        BY <1>6, <3>1, <3>2, <3>3 DEF Sound
      <3>4. CASE sock'[d].st # "connecting"
        BY <3>1, <3>2, <3>4 DEF Sound, Watch
      <3> QED BY <3>3, <3>4
    <2> QED BY <1>1, <2>1 DEF ConnInv, PcInv, LoopInv
  <1>10. Fetched(poll, fds, sock', stale, interrupted)
    <2>1. Fetched(poll, fds, sock, stale, interrupted)
      BY DEF LoopInv
    <2>2. \A fd \in Fds : fds[fd] # None => fds[fd] \in Objects
      BY <1>7 DEF State
    <2>3. \A fd \in Fds : fds[fd] # None /\ sock[fds[fd]].st # "connecting" => sock'[fds[fd]].st # "connecting"
      BY <1>6, <2>2
    <2> QED BY <2>1, <2>3 DEF Fetched
  <1> QED BY <1>1, <1>8, <1>9, <1>10 DEF LoopInv

(* At the start the server alone is registered, and listens.               *)
LEMMA InitHolds == LoopInit => LoopInv
  <1> SUFFICES ASSUME LoopInit PROVE LoopInv
    OBVIOUS
  <1>1. pc = [self |-> None, todo |-> <<>>] /\ quitting = FALSE /\ stale = {} /\ interrupted = FALSE
    BY DEF LoopInit
  <1>2. PICK b \in LoopBackends :
          LET s == [poll |-> Lnew(b), conn |-> [c \in Objects |-> Closed(FALSE)],
                    fds |-> [fd \in Fds |-> None], sock |-> [c \in Objects |-> NoSock], stale |-> {}]
              t == IfAdd([s EXCEPT !.conn[Server].live = TRUE, !.conn[Server].fd = Min(Fds),
                                   !.sock[Server].st = "listen"], Server, TRUE, FALSE)
          IN  poll = t.poll /\ conn = t.conn /\ fds = t.fds /\ sock = t.sock
    BY DEF LoopInit
  <1> DEFINE s == [poll |-> Lnew(b), conn |-> [c \in Objects |-> Closed(FALSE)],
                   fds |-> [fd \in Fds |-> None], sock |-> [c \in Objects |-> NoSock], stale |-> {}]
             K == [Closed(FALSE) EXCEPT !.live = TRUE, !.fd = Min(Fds)]
             Q == [NoSock EXCEPT !.st = "listen"]
  <1>3. Server \in Objects /\ b \in Backends
    BY LoopAssumption DEF Objects
  <1>4. Closed(FALSE) \in Conn /\ ~Closed(FALSE).live /\ Closed(FALSE).fd = -1 /\ -1 \notin Fds
    BY PollAssumption DEF Closed, Conn
  <1>5. Min(Fds) \in Fds
    <2>1. Fds \in SUBSET Nat /\ Fds # {}
      BY PollAssumption, LoopAssumption
    <2> QED BY ONLY <2>1, LeastExists
  <1>6. Lnew(b) \in PollState /\ Lnew(b).all = {} /\ Lnew(b).wantread = {} /\ Lnew(b).wantwrite = {}
        /\ Lnew(b).events = <<>> /\ Lnew(b).readable = {} /\ Lnew(b).writable = {} /\ Lnew(b).err = {}
    <2>1. <<>> \in Seq([fd : Fds, r : BOOLEAN, w : BOOLEAN]) /\ FD_SETSIZE \in -1..FD_SETSIZE
      BY PollAssumption
    <2> QED BY <1>3, <2>1 DEF Lnew, PollState
  <1>7. NoSock \in Sock
    BY DEF NoSock, Sock
  <1>8. s \in State
    BY <1>4, <1>6, <1>7 DEF State
  <1>9. /\ \A d \in Objects : s.conn[d] = Closed(FALSE) /\ s.sock[d] = NoSock
        /\ \A fd \in Fds : s.fds[fd] = None
        /\ s.poll = Lnew(b) /\ s.stale = {}
    OBVIOUS
  <1>10. K \in Conn /\ K.live /\ K.fd = Min(Fds)
    BY <1>4, <1>5 DEF Conn
  <1>11. Q \in Sock
    BY DEF NoSock, Sock
  <1>12. [s EXCEPT !.conn[Server].live = TRUE, !.conn[Server].fd = Min(Fds), !.sock[Server].st = "listen"]
           = Opened(s, Server, K, Q)
    <2>1. s.conn \in [Objects -> Conn] /\ s.sock \in [Objects -> Sock] /\ s.conn[Server] = Closed(FALSE)
          /\ s.sock[Server] = NoSock
      BY <1>3, <1>8, <1>9 DEF State
    <2> HIDE DEF s
    <2>2. [[s.conn EXCEPT ![Server].live = TRUE] EXCEPT ![Server].fd = Min(Fds)] = [s.conn EXCEPT ![Server] = K]
      BY <1>3, <2>1
    <2>3. [s.sock EXCEPT ![Server].st = "listen"] = [s.sock EXCEPT ![Server] = Q]
      BY <1>3, <2>1
    <2> HIDE DEF K, Q
    <2> QED BY <2>2, <2>3 DEF Opened
  <1>13. PICK t : t = IfAdd(Opened(s, Server, K, Q), Server, TRUE, FALSE)
    OBVIOUS
  <1>14. poll = t.poll /\ conn = t.conn /\ fds = t.fds /\ sock = t.sock
    BY <1>2, <1>12, <1>13
  <1> HIDE DEF s, K, Q
  <1>15. Good(s)
    <2>1. Agree(s.poll, s.conn, s.fds)
      BY <1>4, <1>6, <1>9 DEF Agree
    <2> QED BY <1>8, <2>1 DEF Good
  <1>16. Fits(s, Server, K)
    BY <1>3, <1>4, <1>5, <1>9, <1>10 DEF Fits
  <1>17. PICK yes \in BOOLEAN : yes = TRUE
    OBVIOUS
  <1>18. PICK no \in BOOLEAN : no = FALSE
    OBVIOUS
  <1>19. /\ Good(t)
         /\ t.stale = s.stale
         /\ t.poll.backend = s.poll.backend /\ t.poll.events = s.poll.events
         /\ t.poll.readable \subseteq s.poll.readable /\ t.poll.writable \subseteq s.poll.writable
         /\ t.poll.err \subseteq s.poll.err
         /\ \A d \in Objects : t.conn[d] = IF d = Server THEN Wants(K, yes, no) ELSE s.conn[d]
    <2>1. t = IfAdd(Opened(s, Server, K, Q), Server, yes, no)
      BY <1>13, <1>17, <1>18
    <2>2. K \in Conn
      BY <1>10
    <2> QED BY ONLY <1>3, <1>11, <1>15, <1>16, <2>1, <2>2, yes \in BOOLEAN, no \in BOOLEAN, AddKeeps
  <1>20. t.poll.events = <<>> /\ t.poll.readable = {} /\ t.poll.writable = {} /\ t.poll.err = {} /\ t.stale = {}
    BY <1>6, <1>9, <1>19
  <1>21. Good(S0)
    <2>1. t \in State
      BY <1>19 DEF Good
    <2>2. t = S0
      BY <1>1, <1>14, <1>20, <2>1 DEF S0, State
    <2> QED BY <1>19, <2>2
  <1>22. ConnInv
    <2> SUFFICES ASSUME NEW c \in Conns PROVE ~conn[c].live
      BY DEF ConnInv, Sound
    <2>1. c \in Objects /\ c # Server
      BY LoopAssumption DEF Objects
    <2> QED BY <1>4, <1>9, <1>14, <1>19, <2>1
  <1>23. PcInv
    BY <1>1, HasShort, ListsTyped DEF PcInv
  <1>24. Fetched(poll, fds, sock, stale, interrupted)
    BY <1>14, <1>20 DEF Fetched, Reported
  <1> QED BY <1>1, <1>21, <1>22, <1>23, <1>24 DEF LoopInv

(* A step that changes nothing.                                            *)
LEMMA StutterKeeps ==
    ASSUME LoopInv, UNCHANGED loopVars
    PROVE  LoopInv'
  BY DEF LoopInv, loopVars, PcInv, ConnInv, S0, Due, Good, Agree, Fetched, Reported

(* Every step of the loop keeps the invariant.                             *)
LEMMA LoopInvHolds == LoopSpec => []LoopInv
  <1>1. LoopInv /\ [LoopNext]_loopVars => LoopInv'
    <2> SUFFICES ASSUME LoopInv, [LoopNext]_loopVars PROVE LoopInv'
      OBVIOUS
    <2>1. CASE Handler
      BY <2>1, OnReadableKeeps, OnReadableTailKeeps, OnAcceptableKeeps, OnWritableKeeps, OnSendKeeps,
         DestroyStepKeeps, ResumeKeeps DEF Handler
    <2>2. CASE ListenerCalls \/ SetQuitting \/ ListenerReturns
      BY <2>2, ListenerCallsKeep, SetQuittingKeeps, ListenerReturnsKeep
    <2>3. CASE NextEvent \/ Wait
      BY <2>3, NextEventKeeps, WaitKeeps
    <2>4. CASE WaitTimeout
      BY <2>4, QuietKeeps DEF WaitTimeout
    <2>5. CASE WaitSignal
      BY <2>5, QuietKeeps DEF WaitSignal
    <2>6. CASE \E c \in Objects : WriteTimeout(c) \/ PauseEnds(c)
      BY <2>6, WriteTimeoutKeeps, PauseEndsKeeps
    <2>7. CASE ModuleTimer
      BY <2>7, ModuleTimerKeeps
    <2>8. CASE Network
      BY <2>8, NetworkKeeps
    <2>9. CASE UNCHANGED loopVars
      BY <2>9, StutterKeeps
    <2> QED BY <2>1, <2>2, <2>3, <2>4, <2>5, <2>6, <2>7, <2>8, <2>9 DEF LoopNext
  <1> QED BY <1>1, InitHolds, PTL DEF LoopSpec

(* The poll object, the table fds and the fields of the objects agree after*)
(* every step of every handler, listener and timer, in whatever order they *)
(* come, for any number of connections, descriptors and events per batch   *)
(* and with both forms of util.poll: a registered descriptor belongs to    *)
(* exactly one open object, and what is asked of the kernel is what the    *)
(* object believes it asked for (poll.c:62-244, server_epoll.lua:271-451). *)
THEOREM LoopSoundHolds == LoopSpec => []LoopSound
  <1>1. LoopInv => LoopSound
    <2> SUFFICES ASSUME LoopInv PROVE LoopSound
      OBVIOUS
    <2>1. /\ poll \in PollState /\ conn \in [Objects -> Conn] /\ fds \in [Fds -> Objects \cup {None}]
          /\ Agree(poll, conn, fds)
      BY StepsFacts DEF State, Good
    <2>2. LoopTypeOK
      BY <2>1 DEF LoopTypeOK, PollState, Agree
    <2>3. \A c \in Objects : conn[c].live =>
            /\ fds[conn[c].fd] = c
            /\ conn[c].wantread = (conn[c].fd \in poll.wantread)
            /\ conn[c].wantwrite = (conn[c].fd \in poll.wantwrite)
      <3> SUFFICES ASSUME NEW c \in Objects, conn[c].live
                   PROVE  /\ fds[conn[c].fd] = c
                          /\ conn[c].wantread = (conn[c].fd \in poll.wantread)
                          /\ conn[c].wantwrite = (conn[c].fd \in poll.wantwrite)
        OBVIOUS
      <3>1. conn[c] \in Conn /\ conn[c].wantread \in BOOLEAN /\ conn[c].wantwrite \in BOOLEAN
        BY <2>1 DEF Conn
      <3> QED BY <2>1, <3>1 DEF Agree
    <2>4. poll.all = {conn[c].fd : c \in {d \in Objects : conn[d].live}}
      <3>1. ASSUME NEW fd \in poll.all PROVE fd \in {conn[c].fd : c \in {d \in Objects : conn[d].live}}
        <4>1. fd \in Fds
          BY <2>1 DEF PollState
        <4>2. fds[fd] \in Objects /\ conn[fds[fd]].live /\ conn[fds[fd]].fd = fd
          BY <2>1, <4>1 DEF Agree
        <4> QED BY <4>2
      <3>2. ASSUME NEW c \in Objects, conn[c].live PROVE conn[c].fd \in poll.all
        <4>1. conn[c].fd \in Fds /\ fds[conn[c].fd] = c /\ c # None
          BY <2>1, <3>2, LoopAssumption DEF Agree, Objects
        <4> QED BY <2>1, <4>1 DEF Agree
      <3> QED BY <3>1, <3>2
    <2>5. FdsAgree
      BY <2>1, <2>3, <2>4 DEF FdsAgree, Agree
    <2> QED BY <2>2, <2>5 DEF LoopSound
  <1> QED BY <1>1, LoopInvHolds, PTL

(* However the events of a batch, the calls of listeners, the timers and   *)
(* the network interleave: onconnect is called for a connection that is    *)
(* still being established only after an event that was marked as          *)
(* misleading, and those are the events of a descriptor closed within the  *)
(* batch and the sets of an interrupted select (poll.c:250, 303,           *)
(* server_epoll.lua:584-597).                                              *)
THEOREM ConnectedIsTrueHolds == LoopSpec => []ConnectedIsTrue
  <1>1. LoopInv => ConnectedIsTrue
    BY DEF LoopInv, ConnInv, Sound, ConnectedIsTrue
  <1> QED BY <1>1, LoopInvHolds, PTL

(* However they interleave, no connection is left without anything to come *)
(* back to it: what is to be written or established is polled for and has a*)
(* timer, a close that waits has something to send, and data that only the *)
(* socket library knows of has the timer of a pause                        *)
(* (server_epoll.lua:342-421, 584-597).                                    *)
THEOREM NothingForgottenHolds == LoopSpec => []NothingForgotten
  <1>1. LoopInv => NothingForgotten
    <2> SUFFICES ASSUME LoopInv, NEW c \in Conns, conn[c].live, ~(pc.self = c /\ ~Idle)
                 PROVE  /\ conn[c].buf => conn[c].wantwrite /\ conn[c].wtimer
                        /\ sock[c].st = "connecting" /\ ~conn[c].misled => conn[c].wantwrite /\ conn[c].wtimer
                        /\ conn[c].closing => conn[c].buf
                        /\ conn[c].dirty => conn[c].ptimer
      BY DEF NothingForgotten, Watched, DirtyHasTimer
    <2>1. \A T : ~Due(c, T)
      <3>1. \A tag : ~Has(<<>>, tag)
        BY HasShort
      <3> QED BY <3>1 DEF Due, Idle
    <2>2. Sound(conn[c], sock[c], Due(c, {"destroy"}), Due(c, {"read", "tail"}), Due(c, {"write", "send"}))
      BY DEF LoopInv, ConnInv
    <2> QED BY <2>1, <2>2 DEF Sound, Watch
  <1> QED BY <1>1, LoopInvHolds, PTL
=============================================================================
