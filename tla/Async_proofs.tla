---------------------------- MODULE Async_proofs ----------------------------
(***************************************************************************)
(* The safety invariants of util/async.lua, for any number of runners,     *)
(* items, waiters and nested calls.                                        *)
(***************************************************************************)
EXTENDS Async, SequenceTheorems, FiniteSetTheorems, TLAPS

RunnerRec == [state : States, notified_state : {"ready", "waiting"},
              thread : {"none", "idle", "running", "blocked"}, queue : Seq(1..MaxItems)]
FrameRec == [kind : {"run", "continue"}, runner : Runners, n : 0..MaxItems, i : 0..MaxItems]
WaiterRec == [num : 0..MaxDone, waiting : BOOLEAN]

TypeInv ==
    /\ TypeOK
    /\ input \in [Runners -> Seq(1..MaxItems)] /\ started \in [Runners -> Seq(1..MaxItems)]
    /\ \A r \in Runners : Len(input[r]) <= MaxItems

(* A coroutine has a frame exactly while it runs, and only one; the frame  *)
(* of a loop knows a part of the queue that is still there.                *)
StackInv ==
    /\ \A j, k \in 1..Len(stack) : stack[j].runner = stack[k].runner => j = k
    /\ \A k \in 1..Len(stack) :
          /\ runner[stack[k].runner].thread = "running"
          /\ stack[k].kind = "run" =>
                /\ runner[stack[k].runner].state = "running"
                /\ 1 <= stack[k].i /\ stack[k].i <= stack[k].n
                /\ stack[k].n <= Len(runner[stack[k].runner].queue)
          /\ stack[k].kind = "continue" => runner[stack[k].runner].state = "waiting"
    /\ \A r \in Runners : runner[r].thread = "running" =>
          \E k \in 1..Len(stack) : stack[k].runner = r
    /\ \A r \in Runners :
          /\ runner[r].state = "ready" <=> runner[r].thread \in {"none", "idle"}
          /\ runner[r].state = "running" => runner[r].thread = "running"
          /\ runner[r].thread = "blocked" => runner[r].state = "waiting"

(* Items are numbered as they are given, the queue holds the last of them, *)
(* and all before it, with those its loop began, were started.             *)
OrderInv ==
    /\ \A r \in Runners :
          /\ \A k \in 1..Len(input[r]) : input[r][k] = k
          /\ \A k \in 1..Len(started[r]) : started[r][k] = k
          /\ Len(runner[r].queue) <= Len(input[r])
          /\ \A k \in 1..Len(runner[r].queue) :
                runner[r].queue[k] = Len(input[r]) - Len(runner[r].queue) + k
          /\ runner[r].state # "running" =>
                Len(started[r]) = Len(input[r]) - Len(runner[r].queue)
    /\ \A k \in 1..Len(stack) : stack[k].kind = "run" =>
          Len(started[stack[k].runner]) =
              Len(input[stack[k].runner]) - Len(runner[stack[k].runner].queue) + stack[k].i

(* Who is registered somewhere is blocked, and is registered once.         *)
BlockInv ==
    /\ BlockedIsRegistered
    /\ \A r \in Runners : waiter[r].num > 0 /\ waiter[r].waiting => runner[r].thread = "blocked"
    /\ guards # NoGuard =>
          /\ \A k \in 1..Len(guards) :
                /\ runner[guards[k]].thread = "blocked"
                /\ ~(waiter[guards[k]].num > 0 /\ waiter[guards[k]].waiting)
          /\ \A j, k \in 1..Len(guards) : guards[j] = guards[k] => j = k

GuardInv ==
    /\ guards = NoGuard => inside = {}
    /\ \A r, s \in inside : r = s

WorkInv ==
    \A r \in Runners \ aside : runner[r].state = "ready" => runner[r].queue = << >>

AsyncInv == TypeInv /\ StackInv /\ OrderInv /\ BlockInv /\ GuardInv /\ WorkInv
-----------------------------------------------------------------------------
(* The typing facts that most steps need. *)
LEMMA Types ==
    ASSUME AsyncInv
    PROVE  /\ runner \in [Runners -> RunnerRec] /\ stack \in Seq(FrameRec)
           /\ waiter \in [Runners -> WaiterRec]
           /\ guards = NoGuard \/ guards \in Seq(Runners)
           /\ inside \subseteq Runners /\ aside \subseteq Runners
           /\ input \in [Runners -> Seq(1..MaxItems)] /\ started \in [Runners -> Seq(1..MaxItems)]
           /\ Len(stack) \in Nat
           /\ \A r \in Runners : /\ runner[r].queue \in Seq(1..MaxItems) /\ Len(runner[r].queue) \in Nat
                                 /\ Len(input[r]) \in Nat /\ Len(started[r]) \in Nat
                                 /\ Len(input[r]) <= MaxItems
  <1>1. TypeInv
    BY DEF AsyncInv
  <1>2. runner \in [Runners -> RunnerRec] /\ stack \in Seq(FrameRec)
    BY <1>1 DEF TypeInv, TypeOK, RunnerRec, FrameRec
  <1>3. /\ waiter \in [Runners -> WaiterRec]
        /\ guards = NoGuard \/ guards \in Seq(Runners)
        /\ inside \subseteq Runners /\ aside \subseteq Runners
        /\ input \in [Runners -> Seq(1..MaxItems)] /\ started \in [Runners -> Seq(1..MaxItems)]
        /\ \A r \in Runners : Len(input[r]) <= MaxItems
    BY <1>1 DEF TypeInv, TypeOK, WaiterRec
  <1>4. \A r \in Runners : runner[r].queue \in Seq(1..MaxItems)
    BY <1>2 DEF RunnerRec
  <1> QED BY <1>2, <1>3, <1>4, LenProperties

(* ... and TypeInv from them, after a step. *)
LEMMA NextTypes ==
    ASSUME runner' \in [Runners -> RunnerRec], stack' \in Seq(FrameRec),
           waiter' \in [Runners -> WaiterRec], guards' = NoGuard \/ guards' \in Seq(Runners),
           inside' \subseteq Runners, aside' \subseteq Runners,
           input' \in [Runners -> Seq(1..MaxItems)], started' \in [Runners -> Seq(1..MaxItems)],
           \A r \in Runners : Len(input'[r]) <= MaxItems
    PROVE  TypeInv'
  BY DEF TypeInv, TypeOK, RunnerRec, FrameRec, WaiterRec

(* The stack without its innermost frame, and that frame. *)
LEMMA PoppedFacts ==
    ASSUME AsyncInv, stack # << >>
    PROVE  /\ Popped \in Seq(FrameRec) /\ Len(Popped) = Len(stack) - 1 /\ Len(stack) \in Nat \ {0}
           /\ \A k \in 1..Len(stack) - 1 : Popped[k] = stack[k]
           /\ Top = stack[Len(stack)] /\ Top \in FrameRec
  <1>1. stack \in Seq(FrameRec) /\ Len(stack) \in Nat \ {0}
    BY Types, EmptySeq, LenProperties
  <1>2. Top = stack[Len(stack)] /\ Top \in FrameRec
    BY <1>1 DEF Top
  <1> DEFINE n == Len(stack) - 1
  <1>3. n \in Nat /\ \A k \in 1..n : stack[k] \in FrameRec
    BY <1>1
  <1>4. /\ Popped \in Seq(FrameRec) /\ Len(Popped) = (IF 1 <= n THEN n - 1 + 1 ELSE 0)
        /\ \A k \in 1..n - 1 + 1 : Popped[k] = stack[1 + k - 1]
    BY <1>3, SubSeqProperties DEF Popped
  <1> HIDE DEF n
  <1>5. Len(Popped) = n
    <2>1. n = IF 1 <= n THEN n - 1 + 1 ELSE 0
      BY ONLY <1>3
    <2> QED BY ONLY <1>4, <2>1
  <1>6. ASSUME NEW k \in 1..n PROVE Popped[k] = stack[k]
    <2>1. k \in 1..n - 1 + 1 /\ 1 + k - 1 = k
      BY ONLY <1>3
    <2> QED BY <1>4, <2>1
  <1> QED BY <1>1, <1>2, <1>4, <1>5, <1>6 DEF n

(* The queue that is left after c items of a loop over the first n are     *)
(* gone: what followed them, in order, those appended meanwhile included   *)
(* (async.lua:192-200).                                                    *)
LEMMA CompactedFacts ==
    ASSUME NEW S, NEW q \in Seq(S), NEW n \in 0..Len(q), NEW c \in 0..n
    PROVE  /\ Compacted(q, n, c) \in Seq(S) /\ Len(Compacted(q, n, c)) = Len(q) - c
           /\ \A k \in 1..Len(q) - c : Compacted(q, n, c)[k] = q[c + k]
  <1>1. Len(q) \in Nat /\ c \in 0..Len(q)
    BY LenProperties
  <1>2. (IF Len(q) > n THEN Len(q) ELSE n) = Len(q)
    BY <1>1
  <1>3. Compacted(q, n, c) = [k \in 1..Len(q) - c |-> q[c + k]]
    BY <1>2 DEF Compacted
  <1>4. \A k \in 1..Len(q) - c : q[c + k] \in S
    BY <1>1
  <1> QED BY <1>1, <1>3, <1>4

(* Where a runner's frame is, once its top frame is gone: nowhere. *)
LEMMA TopIsOnly ==
    ASSUME AsyncInv, NEW r \in Runners, Executes(r)
    PROVE  /\ stack # << >> /\ Top.runner = r /\ runner[r].thread = "running"
           /\ \A k \in 1..Len(Popped) : Popped[k] = stack[k] /\ Popped[k].runner # r /\ k \in 1..Len(stack)
           /\ \A k \in 1..Len(stack) : stack[k].runner # r => k \in 1..Len(Popped)
  <1>1. stack # << >> /\ Top.runner = r
    BY DEF Executes
  <1>2. /\ Len(Popped) = Len(stack) - 1 /\ Len(stack) \in Nat \ {0}
        /\ \A k \in 1..Len(stack) - 1 : Popped[k] = stack[k]
        /\ Top = stack[Len(stack)]
    BY <1>1, PoppedFacts
  <1>3. Len(stack) \in 1..Len(stack) /\ \A k \in 1..Len(stack) - 1 : k \in 1..Len(stack) /\ k # Len(stack)
    BY <1>2
  <1>4. \A k \in 1..Len(stack) : k # Len(stack) => k \in 1..Len(stack) - 1
    BY <1>2
  <1> QED BY <1>1, <1>2, <1>3, <1>4 DEF AsyncInv, StackInv

(* under is the stack without the frame of r. *)
Under(r, under) ==
    /\ under \in Seq(FrameRec)
    /\ \A k \in 1..Len(under) : under[k] = stack[k] /\ under[k].runner # r /\ k \in 1..Len(stack)
    /\ \A k \in 1..Len(stack) : stack[k].runner # r => k \in 1..Len(under)

(* The queue of R holds what of r's input, after the step, was not started. *)
Waits(r, R) ==
    /\ Len(R.queue) <= Len(input'[r])
    /\ \A k \in 1..Len(R.queue) : R.queue[k] = Len(input'[r]) - Len(R.queue) + k
    /\ Len(started[r]) = Len(input'[r]) - Len(R.queue)

(* Nobody but r gets an item, and items keep their numbers. *)
Gives(r) ==
    /\ input' \in [Runners -> Seq(1..MaxItems)]
    /\ \A s \in Runners : s # r => input'[s] = input[s]
    /\ Len(input'[r]) <= MaxItems
    /\ \A k \in 1..Len(input'[r]) : input'[r][k] = k

(* r is registered nowhere, and nobody else's registration changes. *)
Free(r) ==
    /\ waiter' \in [Runners -> WaiterRec]
    /\ \A s \in Runners : s # r => waiter'[s] = waiter[s]
    /\ ~(waiter'[r].num > 0 /\ waiter'[r].waiting)
    /\ runner[r].thread # "blocked"
    /\ guards' = guards /\ inside' \subseteq inside

(* r is B after the step: ready with nothing to do, or in its loop. *)
Settles(r, B, under) ==
    /\ runner' = [runner EXCEPT ![r] = B]
    /\ IF B.queue = << >>
       THEN /\ B.state = "ready" /\ B.thread \in {"none", "idle"}
            /\ stack' = under /\ started' = started
       ELSE /\ B.state = "running" /\ B.thread = "running"
            /\ stack' = Append(under, Frame("run", r, Len(B.queue), 1))
            /\ started' = [started EXCEPT ![r] = Append(@, B.queue[1])]

(* A runner that had no frame settles, whatever else its caller did to it. *)
LEMMA SettleKeeps ==
    ASSUME AsyncInv, NEW r \in Runners, NEW B \in RunnerRec, NEW under, Under(r, under),
           Settles(r, B, under), Waits(r, B), Gives(r), Free(r),
           aside' \subseteq aside, aside \subseteq aside' \cup {r}
    PROVE  AsyncInv'
  <1> DEFINE q == B.queue
             u == Len(under)
             f == Frame("run", r, Len(q), 1)
  <1>1. /\ runner \in [Runners -> RunnerRec] /\ stack \in Seq(FrameRec)
        /\ guards = NoGuard \/ guards \in Seq(Runners)
        /\ inside \subseteq Runners /\ aside \subseteq Runners
        /\ started \in [Runners -> Seq(1..MaxItems)]
        /\ Len(stack) \in Nat /\ MaxItems \in Nat
        /\ \A s \in Runners : Len(input[s]) <= MaxItems
    BY Types, BoundsAssumption
  <1>2. q \in Seq(1..MaxItems) /\ Len(q) \in Nat /\ Len(input'[r]) \in Nat /\ u \in Nat
        /\ (q # << >> => Len(q) > 0) /\ Len(q) <= MaxItems /\ under \in Seq(FrameRec)
    <2>1. q \in Seq(1..MaxItems)
      BY DEF RunnerRec
    <2>2. input'[r] \in Seq(1..MaxItems) /\ Len(input'[r]) <= MaxItems /\ Len(q) <= Len(input'[r])
      BY DEF Gives, Waits
    <2>3. under \in Seq(FrameRec)
      BY DEF Under
    <2>4. Len(q) \in Nat /\ Len(input'[r]) \in Nat /\ u \in Nat
      BY <2>1, <2>2, <2>3, LenProperties
    <2>5. q # << >> => Len(q) > 0
      BY <2>1, <2>4, EmptySeq
    <2>6. Len(q) <= MaxItems
      BY <1>1, <2>2, <2>4
    <2> QED BY <2>1, <2>3, <2>4, <2>5, <2>6
  <1>3. /\ B \in RunnerRec /\ B.queue = q
        /\ q = << >> => B.state = "ready" /\ B.thread \in {"none", "idle"}
        /\ q # << >> => B.state = "running" /\ B.thread = "running"
    BY DEF Settles
  <1>4. /\ runner' = [runner EXCEPT ![r] = B] /\ runner' \in [Runners -> RunnerRec]
        /\ runner'[r] = B /\ \A s \in Runners : s # r => runner'[s] = runner[s]
    BY <1>1, <1>3 DEF Settles
  <1>5. q # << >> => f \in FrameRec /\ f.kind = "run" /\ f.runner = r /\ f.n = Len(q) /\ f.i = 1
    <2>1. q # << >> => Len(q) \in 0..MaxItems /\ 1 \in 0..MaxItems
      BY <1>1, <1>2
    <2> QED BY <2>1 DEF Frame, FrameRec
  <1>6. /\ q = << >> => stack' = under /\ started' = started
        /\ q # << >> => stack' = Append(under, f) /\ started' = [started EXCEPT ![r] = Append(@, q[1])]
    BY DEF Settles
  <1> HIDE DEF f
  <1>7. /\ stack' \in Seq(FrameRec) /\ Len(stack') \in {u, u + 1}
        /\ q = << >> => Len(stack') = u
        /\ q # << >> => Len(stack') = u + 1 /\ stack'[u + 1] = f
        /\ \A k \in 1..u : stack'[k] = stack[k]
    <2>0. \A k \in 1..u : under[k] = stack[k]
      BY DEF Under
    <2>1. CASE q = << >>
      BY <1>2, <1>6, <2>0, <2>1
    <2>2. CASE q # << >>
      <3>1. stack' = Append(under, f) /\ f \in FrameRec
        BY <1>5, <1>6, <2>2
      <3>2. stack' \in Seq(FrameRec) /\ Len(stack') = u + 1 /\ stack'[u + 1] = f
            /\ \A k \in 1..u : stack'[k] = under[k]
        BY <1>2, <3>1, AppendProperties
      <3> QED BY <2>0, <2>2, <3>2
    <2> QED BY <2>1, <2>2
  <1>8. \A k \in 1..Len(stack') : \/ k \in 1..u /\ stack'[k] = stack[k] /\ k \in 1..Len(stack) /\ stack[k].runner # r
                                  \/ q # << >> /\ k = u + 1 /\ stack'[k] = f
    <2>1. \A k \in 1..u : k \in 1..Len(stack) /\ stack[k].runner # r
      BY DEF Under
    <2>2. \A k \in 1..Len(stack') : k \in 1..u \/ (q # << >> /\ k = u + 1)
      BY <1>2, <1>7
    <2> QED BY <1>7, <2>1, <2>2
  <1>9. /\ started' \in [Runners -> Seq(1..MaxItems)]
        /\ \A s \in Runners : s # r => started'[s] = started[s]
        /\ q = << >> => started'[r] = started[r]
        /\ q # << >> => /\ Len(started'[r]) = Len(started[r]) + 1
                        /\ \A k \in 1..Len(started'[r]) : started'[r][k] = k
    <2>1. started[r] \in Seq(1..MaxItems) /\ Len(started[r]) \in Nat
      BY <1>1, LenProperties
    <2>2. CASE q = << >>
      BY <1>1, <1>6, <2>2
    <2>3. CASE q # << >>
      <3>1. q[1] \in 1..MaxItems /\ q[1] = Len(started[r]) + 1
        <4>1. 1 \in 1..Len(q)
          BY <1>2, <2>3
        <4>2. q[1] \in 1..MaxItems
          BY <1>2, <4>1, ElementOfSeq
        <4>3. q[1] = Len(input'[r]) - Len(q) + 1 /\ Len(started[r]) = Len(input'[r]) - Len(q)
          BY <4>1 DEF Waits
        <4> QED BY <1>2, <4>2, <4>3
      <3>2. started'[r] = Append(started[r], q[1]) /\ \A s \in Runners : s # r => started'[s] = started[s]
        BY <1>1, <1>6, <2>3
      <3>3. Append(started[r], q[1]) \in Seq(1..MaxItems)
        BY <2>1, <3>1
      <3>4. started' \in [Runners -> Seq(1..MaxItems)]
        BY <1>1, <1>6, <2>3, <3>3
      <3>5. \A k \in 1..Len(started[r]) : started[r][k] = k
        BY DEF AsyncInv, OrderInv
      <3>6. /\ Len(started'[r]) = Len(started[r]) + 1
            /\ started'[r][Len(started[r]) + 1] = Len(started[r]) + 1
            /\ \A k \in 1..Len(started[r]) : started'[r][k] = k
        BY <2>1, <3>1, <3>2, <3>5
      <3> QED BY <2>1, <2>3, <3>2, <3>4, <3>6
    <2> QED BY <2>2, <2>3
  <1> HIDE DEF q, u
  <1>10. TypeInv'
    <2>1. input' \in [Runners -> Seq(1..MaxItems)] /\ \A s \in Runners : Len(input'[s]) <= MaxItems
      BY <1>1 DEF Gives
    <2>2. /\ waiter' \in [Runners -> WaiterRec]
          /\ guards' = NoGuard \/ guards' \in Seq(Runners)
          /\ inside' \subseteq Runners /\ aside' \subseteq Runners
      BY <1>1 DEF Free
    <2> QED BY <1>4, <1>7, <1>9, <2>1, <2>2, NextTypes
  <1>11. StackInv'
    <2>0. StackInv
      BY DEF AsyncInv
    <2>1. \A j, k \in 1..Len(stack') : stack'[j].runner = stack'[k].runner => j = k
      BY <1>5, <1>8, <2>0 DEF StackInv
    <2>2. ASSUME NEW k \in 1..Len(stack')
          PROVE  /\ runner'[stack'[k].runner].thread = "running"
                 /\ stack'[k].kind = "run" =>
                       /\ runner'[stack'[k].runner].state = "running"
                       /\ 1 <= stack'[k].i /\ stack'[k].i <= stack'[k].n
                       /\ stack'[k].n <= Len(runner'[stack'[k].runner].queue)
                 /\ stack'[k].kind = "continue" => runner'[stack'[k].runner].state = "waiting"
      <3>1. CASE stack'[k] = stack[k] /\ k \in 1..Len(stack) /\ stack[k].runner # r
        <4>1. stack[k].runner \in Runners
          <5>1. stack[k] \in FrameRec
            BY <1>1, <3>1
          <5> QED BY <5>1 DEF FrameRec
        <4>2. runner'[stack'[k].runner] = runner[stack[k].runner]
          BY <1>4, <3>1, <4>1
        <4> QED BY <2>0, <3>1, <4>2 DEF StackInv
      <3>2. CASE q # << >> /\ stack'[k] = f
        BY <1>2, <1>3, <1>4, <1>5, <3>2 DEF q
      <3> QED BY <1>8, <3>1, <3>2
    <2>3. ASSUME NEW s \in Runners, runner'[s].thread = "running"
          PROVE  \E k \in 1..Len(stack') : stack'[k].runner = s
      <3>1. CASE s = r
        <4>1. q # << >>
          BY <1>3, <1>4, <2>3, <3>1
        <4> QED BY <1>2, <1>5, <1>7, <3>1, <4>1
      <3>2. CASE s # r
        <4>1. PICK k \in 1..Len(stack) : stack[k].runner = s
          BY <1>4, <2>0, <2>3, <3>2 DEF StackInv
        <4>2. k \in 1..u
          BY <3>2, <4>1 DEF u, Under
        <4> QED BY <1>2, <1>7, <4>1, <4>2
      <3> QED BY <3>1, <3>2
    <2>4. \A s \in Runners :
            /\ runner'[s].state = "ready" <=> runner'[s].thread \in {"none", "idle"}
            /\ runner'[s].state = "running" => runner'[s].thread = "running"
            /\ runner'[s].thread = "blocked" => runner'[s].state = "waiting"
      BY <1>3, <1>4, <2>0 DEF StackInv
    <2> QED BY <2>1, <2>2, <2>3, <2>4 DEF StackInv
  <1>12. OrderInv'
    <2>0. OrderInv
      BY DEF AsyncInv
    <2>1. ASSUME NEW s \in Runners
          PROVE  /\ \A k \in 1..Len(input'[s]) : input'[s][k] = k
                 /\ \A k \in 1..Len(started'[s]) : started'[s][k] = k
                 /\ Len(runner'[s].queue) <= Len(input'[s])
                 /\ \A k \in 1..Len(runner'[s].queue) :
                       runner'[s].queue[k] = Len(input'[s]) - Len(runner'[s].queue) + k
                 /\ runner'[s].state # "running" =>
                       Len(started'[s]) = Len(input'[s]) - Len(runner'[s].queue)
      <3>1. CASE s = r
        <4>1. runner'[s].queue = q /\ \A k \in 1..Len(input'[s]) : input'[s][k] = k
          BY <1>3, <1>4, <3>1 DEF Gives
        <4>2. \A k \in 1..Len(started'[s]) : started'[s][k] = k
          BY <1>9, <2>0, <3>1 DEF OrderInv
        <4>3. runner'[s].state # "running" => started'[s] = started[s]
          BY <1>3, <1>4, <1>9, <3>1
        <4> QED BY <3>1, <4>1, <4>2, <4>3 DEF Waits, q
      <3>2. CASE s # r
        <4>1. runner'[s] = runner[s] /\ input'[s] = input[s] /\ started'[s] = started[s]
          BY <1>4, <1>9, <3>2 DEF Gives
        <4> QED BY <2>0, <4>1 DEF OrderInv
      <3> QED BY <3>1, <3>2
    <2>2. ASSUME NEW k \in 1..Len(stack'), stack'[k].kind = "run"
          PROVE  Len(started'[stack'[k].runner]) =
                   Len(input'[stack'[k].runner]) - Len(runner'[stack'[k].runner].queue) + stack'[k].i
      <3>1. CASE stack'[k] = stack[k] /\ k \in 1..Len(stack) /\ stack[k].runner # r
        <4>1. stack[k].runner \in Runners
          <5>1. stack[k] \in FrameRec
            BY <1>1, <3>1
          <5> QED BY <5>1 DEF FrameRec
        <4> DEFINE s == stack[k].runner
        <4>2. runner'[s] = runner[s] /\ input'[s] = input[s] /\ started'[s] = started[s]
          BY <1>4, <1>9, <3>1, <4>1 DEF Gives
        <4> QED BY <2>0, <2>2, <3>1, <4>2 DEF OrderInv
      <3>2. CASE q # << >> /\ stack'[k] = f
        <4>1. stack'[k].runner = r /\ stack'[k].i = 1 /\ runner'[r].queue = q
          BY <1>3, <1>4, <1>5, <3>2
        <4>2. Len(started'[r]) = Len(input'[r]) - Len(q) + 1
          BY <1>9, <3>2 DEF Waits, q
        <4> QED BY <4>1, <4>2
      <3> QED BY <1>8, <3>1, <3>2
    <2> QED BY <2>1, <2>2 DEF OrderInv
  <1>13. BlockInv'
    <2>0. BlockInv /\ runner'[r].thread # "blocked"
      BY <1>3, <1>4 DEF AsyncInv
    <2>1. BlockedIsRegistered'
      BY <1>4, <2>0 DEF BlockInv, BlockedIsRegistered, Free
    <2>2. \A s \in Runners : waiter'[s].num > 0 /\ waiter'[s].waiting => runner'[s].thread = "blocked"
      BY <1>4, <2>0 DEF BlockInv, Free
    <2>3. ASSUME guards # NoGuard, NEW k \in 1..Len(guards)
          PROVE  /\ runner'[guards[k]].thread = "blocked"
                 /\ ~(waiter'[guards[k]].num > 0 /\ waiter'[guards[k]].waiting)
      <3>1. guards[k] \in Runners /\ guards[k] # r
        BY <1>1, <2>0, <2>3 DEF BlockInv, Free
      <3> QED BY <1>4, <2>0, <2>3, <3>1 DEF BlockInv, Free
    <2> QED BY <2>0, <2>1, <2>2, <2>3 DEF BlockInv, Free
  <1>14. GuardInv'
    BY DEF AsyncInv, GuardInv, Free
  <1>15. WorkInv'
    BY <1>3, <1>4 DEF AsyncInv, WorkInv
  <1> QED BY <1>10, <1>11, <1>12, <1>13, <1>14, <1>15 DEF AsyncInv

(* run() of a runner that had no frame. *)
LEMMA RunKeeps ==
    ASSUME AsyncInv, NEW r \in Runners, NEW R \in RunnerRec, NEW under, Under(r, under),
           Run(r, R, under), R.thread \in {"none", "idle"}, Waits(r, R), Gives(r), Free(r),
           aside' \subseteq aside, aside \subseteq aside' \cup {r}
    PROVE  AsyncInv'
  <1> DEFINE B == Begun(R)
  <1>1. /\ B \in RunnerRec /\ B.queue = R.queue
        /\ R.queue = << >> => B.state = "ready" /\ B.thread \in {"none", "idle"}
        /\ R.queue # << >> => B.state = "running" /\ B.thread = "running"
    BY DEF Begun, RunnerRec, States
  <1> HIDE DEF B
  <1>2. Settles(r, B, under)
    BY <1>1 DEF Settles, Run, B
  <1>3. Waits(r, B)
    BY <1>1 DEF Waits
  <1> QED BY <1>1, <1>2, <1>3, SettleKeeps

(* The runner r with one more item in its queue. *)
More(r) == [runner[r] EXCEPT !.queue = Append(@, Count[r] + 1)]

(* What table.insert(self.queue, input) does to r. *)
LEMMA MoreFacts ==
    ASSUME AsyncInv, NEW r \in Runners, Count[r] < MaxItems,
           input' = [input EXCEPT ![r] = Append(@, Count[r] + 1)]
    PROVE  /\ Gives(r) /\ Len(input'[r]) = Len(input[r]) + 1
           /\ More(r) \in RunnerRec
           /\ More(r).state = runner[r].state /\ More(r).thread = runner[r].thread
           /\ Len(More(r).queue) = Len(runner[r].queue) + 1
           /\ Len(More(r).queue) <= Len(input'[r])
           /\ \A k \in 1..Len(More(r).queue) :
                 More(r).queue[k] = Len(input'[r]) - Len(More(r).queue) + k
  <1> DEFINE item == Len(input[r]) + 1
             q == runner[r].queue
  <1>1. /\ runner[r] \in RunnerRec /\ q \in Seq(1..MaxItems) /\ Len(q) \in Nat
        /\ input \in [Runners -> Seq(1..MaxItems)] /\ input[r] \in Seq(1..MaxItems)
        /\ Len(input[r]) \in Nat /\ MaxItems \in Nat
    BY Types, BoundsAssumption
  <1>2. Count[r] + 1 = item /\ item \in 1..MaxItems
    BY <1>1 DEF Count
  <1>3. /\ Append(q, item) \in Seq(1..MaxItems) /\ Len(Append(q, item)) = Len(q) + 1
        /\ Append(q, item)[Len(q) + 1] = item /\ \A k \in 1..Len(q) : Append(q, item)[k] = q[k]
    BY <1>1, <1>2, AppendProperties
  <1>4. /\ Append(input[r], item) \in Seq(1..MaxItems) /\ Len(Append(input[r], item)) = item
        /\ Append(input[r], item)[item] = item
        /\ \A k \in 1..Len(input[r]) : Append(input[r], item)[k] = input[r][k]
    BY <1>1, <1>2, AppendProperties
  <1>5. input'[r] = Append(input[r], item) /\ \A s \in Runners : s # r => input'[s] = input[s]
    BY <1>1, <1>2
  <1>6. /\ \A k \in 1..Len(input[r]) : input[r][k] = k
        /\ Len(q) <= Len(input[r])
        /\ \A k \in 1..Len(q) : q[k] = Len(input[r]) - Len(q) + k
    BY DEF AsyncInv, OrderInv
  <1>7. Gives(r)
    <2>1. input' \in [Runners -> Seq(1..MaxItems)]
      BY <1>1, <1>2, <1>4
    <2>2. \A k \in 1..item : k = item \/ k \in 1..Len(input[r])
      BY <1>1
    <2>3. \A k \in 1..Len(input'[r]) : input'[r][k] = k
      BY <1>4, <1>5, <1>6, <2>2
    <2>4. Len(input'[r]) <= MaxItems
      BY <1>2, <1>4, <1>5
    <2> QED BY <1>5, <2>1, <2>3, <2>4 DEF Gives
  <1>8. /\ More(r) \in RunnerRec /\ More(r).queue = Append(q, item)
        /\ More(r).state = runner[r].state /\ More(r).thread = runner[r].thread
    BY <1>1, <1>2, <1>3 DEF More, RunnerRec
  <1>9. Len(More(r).queue) = Len(q) + 1 /\ Len(input'[r]) = Len(input[r]) + 1
    BY <1>3, <1>4, <1>5, <1>8
  <1>10. \A k \in 1..Len(q) + 1 : More(r).queue[k] = Len(input[r]) - Len(q) + k
    <2>0. \A a, b \in Nat : a - b + (b + 1) = a + 1
      OBVIOUS
    <2>1. \A k \in 1..Len(q) + 1 : k = Len(q) + 1 \/ k \in 1..Len(q)
      <3>1. \A b \in Nat : \A k \in 1..b + 1 : k = b + 1 \/ k \in 1..b
        OBVIOUS
      <3> QED BY ONLY <1>1, <3>1
    <2>2. Len(input[r]) - Len(q) + (Len(q) + 1) = item
      BY ONLY <1>1, <2>0
    <2> QED BY <1>3, <1>6, <1>8, <2>1, <2>2
  <1>11. /\ Len(input[r]) + 1 - (Len(q) + 1) = Len(input[r]) - Len(q)
         /\ Len(q) + 1 <= Len(input[r]) + 1
    <2>1. \A a, b \in Nat : a + 1 - (b + 1) = a - b /\ (b <= a => b + 1 <= a + 1)
      OBVIOUS
    <2> QED BY ONLY <1>1, <1>6, <2>1
  <1> HIDE DEF q
  <1>12. \A k \in 1..Len(More(r).queue) :
             More(r).queue[k] = Len(input'[r]) - Len(More(r).queue) + k
    BY ONLY <1>9, <1>10, <1>11
  <1>13. Len(More(r).queue) <= Len(input'[r])
    BY ONLY <1>9, <1>11
  <1> QED BY ONLY <1>7, <1>8, <1>9, <1>12, <1>13 DEF q

(* An item is queued for a runner that is busy, or by enqueue(). *)
LEMMA QueueKeeps ==
    ASSUME AsyncInv, NEW r \in Runners, Count[r] < MaxItems,
           input' = [input EXCEPT ![r] = Append(@, Count[r] + 1)],
           runner' = [runner EXCEPT ![r] = More(r)],
           UNCHANGED <<stack, waiter, guards, inside, started>>,
           aside' \subseteq Runners, aside \subseteq aside' \cup {r},
           runner[r].state = "ready" => r \in aside'
    PROVE  AsyncInv'
  <1>1. /\ Gives(r) /\ Len(input'[r]) = Len(input[r]) + 1
        /\ More(r) \in RunnerRec
        /\ More(r).state = runner[r].state /\ More(r).thread = runner[r].thread
        /\ Len(More(r).queue) = Len(runner[r].queue) + 1
        /\ Len(More(r).queue) <= Len(input'[r])
        /\ \A k \in 1..Len(More(r).queue) :
              More(r).queue[k] = Len(input'[r]) - Len(More(r).queue) + k
    BY MoreFacts
  <1>2. /\ runner \in [Runners -> RunnerRec] /\ stack \in Seq(FrameRec)
        /\ \A s \in Runners : Len(runner[s].queue) \in Nat /\ Len(input[s]) \in Nat /\ Len(started[s]) \in Nat
    BY Types
  <1>3. /\ runner' \in [Runners -> RunnerRec] /\ runner'[r] = More(r)
        /\ \A s \in Runners : s # r => runner'[s] = runner[s] /\ input'[s] = input[s]
        /\ \A s \in Runners : runner'[s].state = runner[s].state /\ runner'[s].thread = runner[s].thread
    BY <1>1, <1>2 DEF Gives
  <1>4. \A k \in 1..Len(stack) : stack[k] \in FrameRec /\ stack[k].runner \in Runners
    <2>1. \A k \in 1..Len(stack) : stack[k] \in FrameRec
      BY <1>2
    <2> QED BY <2>1 DEF FrameRec
  <1>5. \A s \in Runners :
            /\ Len(input'[s]) - Len(runner'[s].queue) = Len(input[s]) - Len(runner[s].queue)
            /\ Len(runner[s].queue) <= Len(runner'[s].queue)
    <2>1. \A a, b \in Nat : a + 1 - (b + 1) = a - b /\ b <= b + 1 /\ b <= b
      OBVIOUS
    <2>2. \A s \in Runners : s # r => runner'[s] = runner[s] /\ input'[s] = input[s]
      BY <1>3
    <2>3. /\ Len(input'[r]) - Len(runner'[r].queue) = Len(input[r]) - Len(runner[r].queue)
          /\ Len(runner[r].queue) <= Len(runner'[r].queue)
      <3>1. Len(runner'[r].queue) = Len(runner[r].queue) + 1 /\ Len(input'[r]) = Len(input[r]) + 1
        BY <1>1, <1>3
      <3>2. Len(runner[r].queue) \in Nat /\ Len(input[r]) \in Nat
        BY <1>2
      <3> QED BY ONLY <2>1, <3>1, <3>2
    <2> QED BY ONLY <1>2, <2>1, <2>2, <2>3
  <1>6. \A s \in Runners : Len(runner'[s].queue) \in Nat
    BY <1>1, <1>2, <1>3
  <1>7. TypeInv'
    <2>1. \A s \in Runners : Len(input'[s]) <= MaxItems
      <3>1. Len(input'[r]) <= MaxItems /\ \A s \in Runners : Len(input[s]) <= MaxItems
        BY <1>1, Types DEF Gives
      <3> QED BY <1>3, <3>1
    <2>2. /\ waiter \in [Runners -> WaiterRec] /\ inside \subseteq Runners
          /\ guards = NoGuard \/ guards \in Seq(Runners)
          /\ started \in [Runners -> Seq(1..MaxItems)]
          /\ input' \in [Runners -> Seq(1..MaxItems)]
      BY <1>1, Types DEF Gives
    <2> QED BY <1>2, <1>3, <2>1, <2>2, NextTypes
  <1>8. StackInv'
    <2>0. StackInv
      BY DEF AsyncInv
    <2>1. ASSUME NEW k \in 1..Len(stack), stack[k].kind = "run"
          PROVE  stack[k].n <= Len(runner'[stack[k].runner].queue)
      <3>1. stack[k].n <= Len(runner[stack[k].runner].queue) /\ stack[k].n \in Nat
        BY <1>4, <2>0, <2>1, BoundsAssumption DEF StackInv, FrameRec
      <3> DEFINE s == stack[k].runner
      <3>2. /\ Len(runner[s].queue) <= Len(runner'[s].queue)
            /\ Len(runner[s].queue) \in Nat /\ Len(runner'[s].queue) \in Nat
        BY <1>2, <1>4, <1>5, <1>6
      <3>3. \A a, b, c \in Nat : a <= b /\ b <= c => a <= c
        OBVIOUS
      <3> HIDE DEF s
      <3>4. stack[k].n <= Len(runner'[s].queue)
        BY ONLY <3>1, <3>2, <3>3 DEF s
      <3> QED BY <3>4 DEF s
    <2> QED BY <1>3, <1>4, <2>0, <2>1 DEF StackInv
  <1>9. OrderInv'
    <2>0. OrderInv
      BY DEF AsyncInv
    <2>1. ASSUME NEW s \in Runners
          PROVE  /\ \A k \in 1..Len(input'[s]) : input'[s][k] = k
                 /\ Len(runner'[s].queue) <= Len(input'[s])
                 /\ \A k \in 1..Len(runner'[s].queue) :
                       runner'[s].queue[k] = Len(input'[s]) - Len(runner'[s].queue) + k
      <3>1. CASE s = r
        <4>1. \A k \in 1..Len(input'[r]) : input'[r][k] = k
          BY <1>1 DEF Gives
        <4> QED BY ONLY <1>1, <1>3, <3>1, <4>1
      <3>2. CASE s # r
        <4>1. runner'[s] = runner[s] /\ input'[s] = input[s]
          BY <1>3, <3>2
        <4>2. /\ \A k \in 1..Len(input[s]) : input[s][k] = k
              /\ Len(runner[s].queue) <= Len(input[s])
              /\ \A k \in 1..Len(runner[s].queue) :
                    runner[s].queue[k] = Len(input[s]) - Len(runner[s].queue) + k
          BY ONLY <2>0, <2>1 DEF OrderInv
        <4> QED BY ONLY <4>1, <4>2
      <3> QED BY <3>1, <3>2
    <2>2. ASSUME NEW s \in Runners
          PROVE  /\ \A k \in 1..Len(started[s]) : started[s][k] = k
                 /\ runner'[s].state # "running" =>
                       Len(started[s]) = Len(input'[s]) - Len(runner'[s].queue)
      BY <1>3, <1>5, <2>0 DEF OrderInv
    <2>3. ASSUME NEW k \in 1..Len(stack), stack[k].kind = "run"
          PROVE  Len(started[stack[k].runner]) =
                   Len(input'[stack[k].runner]) - Len(runner'[stack[k].runner].queue) + stack[k].i
      BY <1>4, <1>5, <2>0, <2>3 DEF OrderInv
    <2> QED BY <2>1, <2>2, <2>3 DEF OrderInv
  <1>10. BlockInv'
    <2>1. guards # NoGuard => \A k \in 1..Len(guards) : guards[k] \in Runners
      BY Types
    <2> QED BY <1>3, <2>1 DEF AsyncInv, BlockInv, BlockedIsRegistered
  <1>11. GuardInv'
    BY DEF AsyncInv, GuardInv
  <1>12. WorkInv'
    BY <1>3 DEF AsyncInv, WorkInv
  <1> QED BY <1>7, <1>8, <1>9, <1>10, <1>11, <1>12 DEF AsyncInv

(* enqueue() keeps AsyncInv: only the queue grows (async.lua:220-224). *)
LEMMA EnqueueKeeps ==
    ASSUME AsyncInv, NEW r \in Runners, Enqueue(r)
    PROVE  AsyncInv'
  <1>1. runner' = [runner EXCEPT ![r] = More(r)]
    BY Types DEF Enqueue, More
  <1>2. /\ aside' \subseteq Runners /\ aside \subseteq aside' \cup {r}
        /\ runner[r].state = "ready" => r \in aside'
    BY Types DEF Enqueue
  <1> QED BY <1>1, <1>2, QueueKeeps DEF Enqueue

(* run() keeps AsyncInv, both when the runner is busy, so that the item    *)
(* only waits, and when it starts its loop (async.lua:149-217).            *)
LEMMA CallKeeps ==
    ASSUME AsyncInv, NEW r \in Runners, Call(r)
    PROVE  AsyncInv'
  <1>1. /\ Count[r] < MaxItems /\ input' = [input EXCEPT ![r] = Append(@, Count[r] + 1)]
        /\ aside' = aside \ {r} /\ UNCHANGED <<waiter, guards, inside>>
    BY DEF Call
  <1>2. More(r).state = runner[r].state
    BY <1>1, MoreFacts
  <1>3. CASE runner[r].state # "ready"
    <2>1. runner' = [runner EXCEPT ![r] = More(r)] /\ UNCHANGED <<stack, started>>
      BY <1>2, <1>3 DEF Call, More
    <2>2. aside' \subseteq Runners /\ aside \subseteq aside' \cup {r}
      BY <1>1, Types
    <2> QED BY <1>1, <1>3, <2>1, <2>2, QueueKeeps
  <1>4. CASE runner[r].state = "ready"
    <2>1. Run(r, More(r), stack)
      BY <1>2, <1>4 DEF Call, More
    <2>2. runner[r].thread \in {"none", "idle"} /\ runner[r].thread # "running" /\ runner[r].thread # "blocked"
      BY <1>4 DEF AsyncInv, StackInv
    <2>3. Under(r, stack)
      BY <2>2, Types DEF Under, AsyncInv, StackInv
    <2>4. /\ Gives(r) /\ Len(input'[r]) = Len(input[r]) + 1
          /\ More(r) \in RunnerRec /\ More(r).thread = runner[r].thread
          /\ Len(More(r).queue) = Len(runner[r].queue) + 1
          /\ Len(More(r).queue) <= Len(input'[r])
          /\ \A k \in 1..Len(More(r).queue) :
                More(r).queue[k] = Len(input'[r]) - Len(More(r).queue) + k
      BY <1>1, MoreFacts
    <2>5. Len(started[r]) = Len(input[r]) - Len(runner[r].queue)
      BY <1>4 DEF AsyncInv, OrderInv
    <2>6. Waits(r, More(r))
      <3>1. Len(input[r]) \in Nat /\ Len(runner[r].queue) \in Nat
        BY Types
      <3>2. Len(started[r]) = Len(input'[r]) - Len(More(r).queue)
        BY <2>4, <2>5, <3>1
      <3> QED BY <2>4, <3>2 DEF Waits
    <2>7. Free(r)
      BY <1>1, <2>2, Types DEF Free, AsyncInv, BlockInv
    <2>8. aside' \subseteq aside /\ aside \subseteq aside' \cup {r}
      BY <1>1
    <2> QED BY <2>1, <2>2, <2>3, <2>4, <2>6, <2>7, <2>8, RunKeeps
  <1> QED BY <1>3, <1>4

(* A runner whose top frame goes, with the items of its queue after the    *)
(* first c, all of which were started.                                     *)
LEMMA TakenWaits ==
    ASSUME AsyncInv, NEW r \in Runners, input' = input, NEW R \in RunnerRec, NEW c \in Nat,
           c <= Len(runner[r].queue), Len(R.queue) = Len(runner[r].queue) - c,
           \A k \in 1..Len(R.queue) : R.queue[k] = runner[r].queue[c + k],
           Len(started[r]) = Len(input[r]) - Len(runner[r].queue) + c
    PROVE  Waits(r, R)
  <1> DEFINE a == Len(input[r])
             b == Len(runner[r].queue)
  <1>1. a \in Nat /\ b \in Nat
    BY Types
  <1>2. b <= a /\ \A k \in 1..b : runner[r].queue[k] = a - b + k
    BY DEF AsyncInv, OrderInv
  <1> HIDE DEF a, b
  <1>3. b - c <= a /\ a - b + c = a - (b - c)
    BY <1>1, <1>2 DEF b
  <1>4. ASSUME NEW k \in 1..b - c PROVE R.queue[k] = a - (b - c) + k
    <2>1. c + k \in 1..b /\ a - b + (c + k) = a - (b - c) + k
      BY <1>1 DEF b
    <2> QED BY <1>2, <2>1 DEF b
  <1> QED BY <1>3, <1>4 DEF Waits, a, b

(* A step that gives no item leaves the numbering of items alone. *)
LEMMA Unchanged ==
    ASSUME AsyncInv, NEW r \in Runners, input' = input
    PROVE  Gives(r)
  BY Types DEF AsyncInv, OrderInv, Gives

(* Facts about the frame of the item that executes. *)
LEMMA LoopFacts ==
    ASSUME AsyncInv, NEW r \in Runners, Executes(r), Top.kind = "run"
    PROVE  /\ Top.n \in 0..Len(runner[r].queue) /\ Top.i \in 1..Top.n
           /\ runner[r].state = "running"
           /\ Len(started[r]) = Len(input[r]) - Len(runner[r].queue) + Top.i
  <1>1. Top = stack[Len(stack)] /\ Len(stack) \in 1..Len(stack) /\ Top \in FrameRec /\ Top.runner = r
    BY PoppedFacts DEF Executes
  <1>2. Top.n \in Nat /\ Top.i \in Nat /\ Len(runner[r].queue) \in Nat
    <2>1. Top.n \in Nat /\ Top.i \in Nat
      BY ONLY <1>1, BoundsAssumption DEF FrameRec
    <2> QED BY <2>1, Types
  <1>3. /\ runner[r].state = "running" /\ 1 <= Top.i /\ Top.i <= Top.n /\ Top.n <= Len(runner[r].queue)
        /\ Len(started[r]) = Len(input[r]) - Len(runner[r].queue) + Top.i
    BY <1>1 DEF AsyncInv, StackInv, OrderInv
  <1> QED BY <1>2, <1>3

(* The item of a frame that runner_continue made still counts as waiting,  *)
(* and its loop has already taken it off the queue.                        *)
LEMMA ContinueFacts ==
    ASSUME AsyncInv, NEW r \in Runners, Executes(r), Top.kind = "continue"
    PROVE  /\ runner[r].state = "waiting"
           /\ Len(started[r]) = Len(input[r]) - Len(runner[r].queue)
  <1>1. Top = stack[Len(stack)] /\ Len(stack) \in 1..Len(stack) /\ Top.runner = r
    BY PoppedFacts DEF Executes
  <1> QED BY <1>1 DEF AsyncInv, StackInv, OrderInv

(* run() after the frame of r went. *)
LEMMA RunPopped ==
    ASSUME AsyncInv, NEW r \in Runners, Executes(r), NEW R \in RunnerRec,
           Run(r, R, Popped), R.thread \in {"none", "idle"}, Waits(r, R), input' = input,
           waiter' = [waiter EXCEPT ![r] = NoWaiter], guards' = guards,
           inside' \subseteq inside, aside' = aside
    PROVE  AsyncInv'
  <1>1. Under(r, Popped)
    BY TopIsOnly, PoppedFacts DEF Under, Executes
  <1>2. Gives(r)
    BY Unchanged
  <1>3. Free(r)
    <2>1. NoWaiter \in WaiterRec /\ NoWaiter.num = 0
      BY BoundsAssumption DEF NoWaiter, WaiterRec
    <2>2. waiter \in [Runners -> WaiterRec] /\ runner[r].thread = "running"
      BY Types, TopIsOnly
    <2> QED BY <2>1, <2>2 DEF Free
  <1> QED BY <1>1, <1>2, <1>3, RunKeeps

(* An item that had waited ends, by returning or by an error: its runner   *)
(* starts over with the items that came meanwhile (async.lua:39-66).       *)
LEMMA ReturnToContinueKeeps ==
    ASSUME AsyncInv, NEW r \in Runners, Executes(r), ReturnToContinue(r) \/ FailInContinue(r),
           input' = input, waiter' = [waiter EXCEPT ![r] = NoWaiter], guards' = guards,
           inside' \subseteq inside, aside' = aside
    PROVE  AsyncInv'
  <1>1. runner[r] \in RunnerRec /\ Len(runner[r].queue) \in Nat
    BY Types
  <1>2. Top.kind = "continue"
    BY DEF ReturnToContinue, FailInContinue
  <1>3. Len(started[r]) = Len(input[r]) - Len(runner[r].queue)
    BY <1>2, ContinueFacts
  <1>4. ASSUME NEW th \in {"none", "idle"},
               Run(r, [runner[r] EXCEPT !.state = "ready", !.thread = th], Popped)
        PROVE  AsyncInv'
    <2> DEFINE R == [runner[r] EXCEPT !.state = "ready", !.thread = th]
    <2>1. R \in RunnerRec /\ R.queue = runner[r].queue /\ R.thread = th
      BY <1>1, <1>4 DEF RunnerRec, States
    <2> HIDE DEF R
    <2>2. Waits(r, R)
      BY <1>3, <2>1 DEF Waits, AsyncInv, OrderInv
    <2> QED BY <1>4, <2>1, <2>2, RunPopped DEF R
  <1> QED BY <1>4 DEF ReturnToContinue, FailInContinue

(* The loop's frame goes, with a queue shortened by c items. *)
LEMMA ShortenedWaits ==
    ASSUME AsyncInv, NEW r \in Runners, Executes(r), Top.kind = "run", input' = input,
           NEW R \in RunnerRec, R.queue = Compacted(runner[r].queue, Top.n, Top.i)
    PROVE  Waits(r, R)
  <1>1. /\ Top.n \in 0..Len(runner[r].queue) /\ Top.i \in 1..Top.n
        /\ Len(started[r]) = Len(input[r]) - Len(runner[r].queue) + Top.i
    BY LoopFacts
  <1>2. runner[r].queue \in Seq(1..MaxItems) /\ Len(runner[r].queue) \in Nat
    BY Types
  <1>3. Top.i \in Nat /\ Top.i \in 0..Top.n /\ Top.i <= Len(runner[r].queue)
    BY <1>1, <1>2
  <1>4. /\ Len(R.queue) = Len(runner[r].queue) - Top.i
        /\ \A k \in 1..Len(R.queue) : R.queue[k] = runner[r].queue[Top.i + k]
    <2> DEFINE C == Compacted(runner[r].queue, Top.n, Top.i)
    <2>1. /\ Len(C) = Len(runner[r].queue) - Top.i
          /\ \A k \in 1..Len(runner[r].queue) - Top.i : C[k] = runner[r].queue[Top.i + k]
      <3>1. Top.n \in 0..Len(runner[r].queue) /\ Top.i \in 0..Top.n
        BY <1>1, <1>2, <1>3
      <3>2. PICK q, n, c : q = runner[r].queue /\ n = Top.n /\ c = Top.i
        OBVIOUS
      <3>3. q \in Seq(1..MaxItems) /\ n \in 0..Len(q) /\ c \in 0..n
        BY ONLY <1>2, <3>1, <3>2
      <3>4. /\ Len(Compacted(q, n, c)) = Len(q) - c
            /\ \A k \in 1..Len(q) - c : Compacted(q, n, c)[k] = q[c + k]
        BY ONLY <3>3, CompactedFacts
      <3> QED BY ONLY <3>2, <3>4
    <2> HIDE DEF C
    <2>2. R.queue = C
      BY DEF C
    <2> QED BY <2>1, <2>2
  <1> QED BY <1>1, <1>3, <1>4, TakenWaits

(* An error in the loop drops the coroutine and the item, and the loop     *)
(* goes on with what is left of the queue (async.lua:172-216).             *)
LEMMA FailInLoopKeeps ==
    ASSUME AsyncInv, NEW r \in Runners, Executes(r), FailInLoop(r),
           input' = input, waiter' = [waiter EXCEPT ![r] = NoWaiter], guards' = guards,
           inside' \subseteq inside, aside' = aside
    PROVE  AsyncInv'
  <1> DEFINE left == Compacted(runner[r].queue, Top.n, Top.i)
             R == [runner[r] EXCEPT !.queue = left, !.state = "ready", !.thread = "none"]
  <1>1. Top.kind = "run"
    BY DEF FailInLoop
  <1>2. /\ Top.n \in 0..Len(runner[r].queue) /\ Top.i \in 0..Top.n
        /\ runner[r] \in RunnerRec /\ runner[r].queue \in Seq(1..MaxItems)
    BY <1>1, LoopFacts, Types
  <1>3. left \in Seq(1..MaxItems)
    BY <1>2, CompactedFacts
  <1> HIDE DEF left
  <1>4. R \in RunnerRec /\ R.queue = left /\ R.state = "ready" /\ R.thread = "none"
    BY <1>2, <1>3 DEF RunnerRec, States
  <1>5. Waits(r, R)
    BY <1>1, <1>4, ShortenedWaits DEF left
  <1>6. CASE left = << >>
    <2>1. Settles(r, R, Popped)
      BY <1>4, <1>6 DEF Settles, FailInLoop, left
    <2>2. Under(r, Popped)
      BY TopIsOnly, PoppedFacts DEF Under, Executes
    <2>3. Gives(r)
      BY Unchanged
    <2>4. Free(r)
      <3>1. NoWaiter \in WaiterRec /\ NoWaiter.num = 0
        BY BoundsAssumption DEF NoWaiter, WaiterRec
      <3>2. waiter \in [Runners -> WaiterRec] /\ runner[r].thread = "running"
        BY Types, TopIsOnly
      <3> QED BY <3>1, <3>2 DEF Free
    <2> HIDE DEF R
    <2> QED BY <1>4, <1>5, <2>1, <2>2, <2>3, <2>4, SettleKeeps
  <1>7. CASE left # << >>
    <2>1. Run(r, R, Popped)
      BY <1>7 DEF FailInLoop, left
    <2> HIDE DEF R
    <2> QED BY <1>4, <1>5, <2>1, RunPopped
  <1> QED BY <1>6, <1>7

(* The item returned and the loop takes the next one. *)
LEMMA NextItemKeeps ==
    ASSUME AsyncInv, NEW r \in Runners, Executes(r), Top.kind = "run", Top.i < Top.n,
           stack' = Append(Popped, Frame("run", r, Top.n, Top.i + 1)),
           started' = [started EXCEPT ![r] = Append(@, runner[r].queue[Top.i + 1])],
           UNCHANGED <<runner, input, guards, aside>>, inside' \subseteq inside,
           waiter' = [waiter EXCEPT ![r] = NoWaiter]
    PROVE  AsyncInv'
  <1> DEFINE L == Len(stack)
             i == Top.i
             q == runner[r].queue
             f == Frame("run", r, Top.n, i + 1)
  <1>1. /\ runner \in [Runners -> RunnerRec] /\ stack \in Seq(FrameRec) /\ q \in Seq(1..MaxItems)
        /\ started \in [Runners -> Seq(1..MaxItems)] /\ waiter \in [Runners -> WaiterRec]
        /\ Len(q) \in Nat /\ Len(input[r]) \in Nat /\ Len(started[r]) \in Nat
    BY Types
  <1>2. /\ Top.n \in 0..Len(q) /\ i \in 1..Top.n /\ runner[r].state = "running"
        /\ Len(started[r]) = Len(input[r]) - Len(q) + i
    BY LoopFacts
  <1>3. /\ Popped \in Seq(FrameRec) /\ Len(Popped) = L - 1 /\ L \in Nat \ {0}
        /\ \A k \in 1..L - 1 : Popped[k] = stack[k]
        /\ Top = stack[L] /\ Top \in FrameRec /\ stack[L].runner = r /\ L \in 1..L
    BY PoppedFacts DEF Executes
  <1>4. i + 1 \in 1..Len(q) /\ i + 1 \in 1..Top.n /\ i \in Nat /\ Top.n \in Nat
    BY <1>1, <1>2
  <1>5. f \in FrameRec /\ f.kind = "run" /\ f.runner = r /\ f.n = Top.n /\ f.i = i + 1
    <2>1. Top.n \in 0..MaxItems /\ MaxItems \in Nat
      BY <1>3, BoundsAssumption DEF FrameRec
    <2>2. i + 1 \in 0..MaxItems
      BY <1>4, <2>1
    <2> QED BY <2>1, <2>2 DEF Frame, FrameRec
  <1>6. /\ stack' \in Seq(FrameRec) /\ Len(stack') = L /\ stack'[L] = f
        /\ \A k \in 1..L - 1 : stack'[k] = stack[k]
    <2>1. /\ stack' \in Seq(FrameRec) /\ Len(stack') = Len(Popped) + 1 /\ stack'[Len(Popped) + 1] = f
          /\ \A k \in 1..Len(Popped) : stack'[k] = Popped[k]
      BY <1>3, <1>5, AppendProperties
    <2>2. L - 1 + 1 = L
      BY <1>3
    <2> QED BY <1>3, <2>1, <2>2
  <1>7. \A k \in 1..L : k = L \/ (k \in 1..L - 1 /\ stack[k].runner # r)
    <2>1. \A k \in 1..L : k = L \/ k \in 1..L - 1
      BY <1>3
    <2> QED BY <1>3, <2>1, TopIsOnly
  <1>8. q[i + 1] \in 1..MaxItems /\ q[i + 1] = Len(started[r]) + 1
    <2>1. q[i + 1] = Len(input[r]) - Len(q) + (i + 1)
      BY <1>4 DEF AsyncInv, OrderInv
    <2>2. q[i + 1] \in 1..MaxItems
      BY <1>1, <1>4, ElementOfSeq
    <2>3. \A a, b, c \in Nat : a - b + (c + 1) = (a - b + c) + 1
      OBVIOUS
    <2> HIDE DEF i, q
    <2>4. Len(input[r]) - Len(q) + (i + 1) = (Len(input[r]) - Len(q) + i) + 1
      BY ONLY <1>1, <1>4, <2>3
    <2> QED BY ONLY <1>2, <2>1, <2>2, <2>4
  <1> HIDE DEF L, i, q, f
  <1>9. /\ started' \in [Runners -> Seq(1..MaxItems)]
        /\ \A s \in Runners : s # r => started'[s] = started[s]
        /\ Len(started'[r]) = Len(started[r]) + 1
        /\ \A k \in 1..Len(started'[r]) : started'[r][k] = k
    <2> DEFINE t == Append(started[r], q[i + 1])
    <2>1. /\ t \in Seq(1..MaxItems) /\ Len(t) = Len(started[r]) + 1
          /\ t[Len(started[r]) + 1] = q[i + 1] /\ \A k \in 1..Len(started[r]) : t[k] = started[r][k]
      BY <1>1, <1>8, AppendProperties
    <2>2. started' = [started EXCEPT ![r] = t]
      BY DEF q, i
    <2> HIDE DEF t
    <2>3. started'[r] = t /\ started' \in [Runners -> Seq(1..MaxItems)]
          /\ \A s \in Runners : s # r => started'[s] = started[s]
      BY <1>1, <2>1, <2>2
    <2>4. \A k \in 1..Len(started[r]) : started[r][k] = k
      BY DEF AsyncInv, OrderInv
    <2>5. \A k \in 1..Len(started[r]) + 1 : k = Len(started[r]) + 1 \/ k \in 1..Len(started[r])
      BY <1>1
    <2> QED BY <1>8, <2>1, <2>3, <2>4, <2>5
  <1>10. /\ waiter' \in [Runners -> WaiterRec] /\ waiter'[r].num = 0
         /\ \A s \in Runners : s # r => waiter'[s] = waiter[s]
    <2>1. NoWaiter \in WaiterRec /\ NoWaiter.num = 0
      BY BoundsAssumption DEF NoWaiter, WaiterRec
    <2> QED BY <1>1, <2>1
  <1>11. TypeInv'
    BY <1>6, <1>9, <1>10, Types, NextTypes
  <1>12. StackInv'
    <2>0. StackInv
      BY DEF AsyncInv
    <2>1. \A k \in 1..L : stack'[k].runner = stack[k].runner
      BY <1>3, <1>5, <1>6, <1>7
    <2>2. \A k \in 1..L : k # L => stack'[k] = stack[k]
      BY <1>6, <1>7
    <2>3. runner[r].thread = "running" /\ 1 <= i + 1 /\ i + 1 <= Top.n /\ Top.n <= Len(q)
      BY <1>1, <1>2, <1>4, TopIsOnly
    <2>4. ASSUME NEW k \in 1..L
          PROVE  /\ runner[stack'[k].runner].thread = "running"
                 /\ stack'[k].kind = "run" =>
                       /\ runner[stack'[k].runner].state = "running"
                       /\ 1 <= stack'[k].i /\ stack'[k].i <= stack'[k].n
                       /\ stack'[k].n <= Len(runner[stack'[k].runner].queue)
                 /\ stack'[k].kind = "continue" => runner[stack'[k].runner].state = "waiting"
      <3>1. CASE k = L
        <4>1. /\ stack'[k].runner = r /\ stack'[k].kind = "run"
              /\ stack'[k].i = i + 1 /\ stack'[k].n = Top.n
          BY ONLY <1>5, <1>6, <3>1
        <4> QED BY ONLY <1>2, <2>3, <4>1 DEF q
      <3>2. CASE k # L
        <4>1. stack'[k] = stack[k] /\ k \in 1..Len(stack)
          BY <2>2, <3>2 DEF L
        <4> QED BY ONLY <2>0, <4>1 DEF StackInv
      <3> QED BY <3>1, <3>2
    <2>5. \A j, k \in 1..L : stack'[j].runner = stack'[k].runner => j = k
      <3>1. \A j, k \in 1..L : stack[j].runner = stack[k].runner => j = k
        BY <2>0 DEF StackInv, L
      <3> QED BY ONLY <2>1, <3>1
    <2>6. \A s \in Runners : runner[s].thread = "running" => \E k \in 1..L : stack'[k].runner = s
      <3>1. \A s \in Runners : runner[s].thread = "running" => \E k \in 1..L : stack[k].runner = s
        BY <2>0 DEF StackInv, L
      <3> QED BY ONLY <2>1, <3>1
    <2> QED BY <1>6, <2>0, <2>4, <2>5, <2>6 DEF StackInv
  <1>13. OrderInv'
    <2>0. OrderInv
      BY DEF AsyncInv
    <2>1. \A s \in Runners : \A k \in 1..Len(started'[s]) : started'[s][k] = k
      BY <1>9, <2>0 DEF OrderInv
    <2>2. \A s \in Runners : runner[s].state # "running" => started'[s] = started[s]
      BY <1>2, <1>9
    <2>3. ASSUME NEW k \in 1..L, stack'[k].kind = "run"
          PROVE  Len(started'[stack'[k].runner]) =
                   Len(input[stack'[k].runner]) - Len(runner[stack'[k].runner].queue) + stack'[k].i
      <3>1. CASE k = L
        <4>1. \A a, b, c \in Nat : a - b + (c + 1) = (a - b + c) + 1
          OBVIOUS
        <4>2. Len(started'[r]) = Len(input[r]) - Len(q) + (i + 1)
          <5>0. Len(input[r]) \in Nat /\ Len(q) \in Nat /\ i \in Nat
            BY <1>1, <1>4
          <5> HIDE DEF q, i
          <5>1. Len(input[r]) - Len(q) + (i + 1) = (Len(input[r]) - Len(q) + i) + 1
            BY ONLY <4>1, <5>0
          <5> QED BY ONLY <1>2, <1>9, <5>1
        <4> QED BY <1>5, <1>6, <3>1, <4>2 DEF q
      <3>2. CASE k # L
        <4>1. stack'[k] = stack[k] /\ stack[k].runner # r
          BY <1>6, <1>7, <3>2
        <4>2. stack[k] \in FrameRec
          BY <1>1 DEF L
        <4>3. stack[k].runner \in Runners
          BY <4>2 DEF FrameRec
        <4>4. started'[stack[k].runner] = started[stack[k].runner]
          BY <1>9, <4>1, <4>3
        <4>5. k \in 1..Len(stack) /\ stack[k].kind = "run"
          BY <2>3, <4>1 DEF L
        <4>6. Len(started[stack[k].runner]) =
                Len(input[stack[k].runner]) - Len(runner[stack[k].runner].queue) + stack[k].i
          BY ONLY <2>0, <4>5 DEF OrderInv
        <4> QED BY ONLY <4>1, <4>4, <4>6
      <3> QED BY <3>1, <3>2
    <2>4. UNCHANGED <<runner, input>> /\ Len(stack') = L
      BY <1>6
    <2> HIDE DEF L
    <2> QED BY ONLY <2>0, <2>1, <2>2, <2>3, <2>4 DEF OrderInv
  <1>14. BlockInv'
    <2>0. BlockInv /\ runner[r].thread # "blocked"
      BY TopIsOnly DEF AsyncInv
    <2>1. BlockedIsRegistered'
      BY <1>10, <2>0 DEF BlockInv, BlockedIsRegistered
    <2>2. \A s \in Runners : waiter'[s].num > 0 /\ waiter'[s].waiting => runner[s].thread = "blocked"
      BY <1>10, <2>0 DEF BlockInv
    <2>3. guards # NoGuard => \A k \in 1..Len(guards) : guards[k] \in Runners /\ guards[k] # r
      <3>1. guards # NoGuard => guards \in Seq(Runners)
        BY Types
      <3>2. guards # NoGuard => \A k \in 1..Len(guards) : guards[k] # r
        BY <2>0 DEF BlockInv
      <3> QED BY <3>1, <3>2, ElementOfSeq
    <2> QED BY <1>10, <2>0, <2>1, <2>2, <2>3 DEF BlockInv
  <1>15. GuardInv' /\ WorkInv'
    BY DEF AsyncInv, GuardInv, WorkInv
  <1> QED BY <1>11, <1>12, <1>13, <1>14, <1>15 DEF AsyncInv

(* The end of an item keeps AsyncInv, in the loop and after a wait. *)
LEMMA ReturnKeeps ==
    ASSUME AsyncInv, NEW r \in Runners, Return(r)
    PROVE  AsyncInv'
  <1>1. /\ Executes(r) /\ waiter' = [waiter EXCEPT ![r] = NoWaiter]
        /\ UNCHANGED <<guards, input, aside>> /\ inside' \subseteq inside
    BY DEF Return
  <1>2. CASE ReturnToContinue(r)
    BY <1>1, <1>2, ReturnToContinueKeeps
  <1>3. CASE ReturnToLoop(r)
    <2>1. Top.kind = "run"
      BY <1>3 DEF ReturnToLoop
    <2>2. CASE Top.i < Top.n
      <3>1. /\ stack' = Append(Popped, Frame("run", r, Top.n, Top.i + 1))
            /\ started' = [started EXCEPT ![r] = Append(@, runner[r].queue[Top.i + 1])]
            /\ UNCHANGED runner
        BY <1>3, <2>2 DEF ReturnToLoop
      <3> QED BY <1>1, <2>1, <2>2, <3>1, NextItemKeeps
    <2>3. CASE ~(Top.i < Top.n)
      <3> DEFINE R == [runner[r] EXCEPT !.queue = Compacted(runner[r].queue, Top.n, Top.n), !.thread = "idle"]
      <3>1. Run(r, R, Popped)
        BY <1>3, <2>3 DEF ReturnToLoop
      <3>2. Top.n \in 0..Len(runner[r].queue) /\ Top.i \in 1..Top.n
        BY <1>1, <2>1, LoopFacts
      <3>3. runner[r] \in RunnerRec /\ runner[r].queue \in Seq(1..MaxItems) /\ Len(runner[r].queue) \in Nat
        BY Types
      <3>4. Top.i = Top.n /\ Top.n \in 0..Top.n
        BY <2>3, <3>2, <3>3
      <3>5. Compacted(runner[r].queue, Top.n, Top.n) \in Seq(1..MaxItems)
        BY <3>2, <3>3, <3>4, CompactedFacts
      <3>6. /\ R \in RunnerRec /\ R.thread = "idle"
            /\ R.queue = Compacted(runner[r].queue, Top.n, Top.i)
        BY <3>3, <3>4, <3>5 DEF RunnerRec
      <3> HIDE DEF R
      <3>7. Waits(r, R)
        BY <1>1, <2>1, <3>6, ShortenedWaits
      <3> QED BY <1>1, <3>1, <3>6, <3>7, RunPopped
    <2> QED BY <2>2, <2>3
  <1> QED BY <1>2, <1>3 DEF Return

(* An error keeps AsyncInv, in the loop and after a wait. *)
LEMMA FailKeeps ==
    ASSUME AsyncInv, NEW r \in Runners, Fail(r)
    PROVE  AsyncInv'
  <1>1. /\ Executes(r) /\ waiter' = [waiter EXCEPT ![r] = NoWaiter]
        /\ UNCHANGED <<guards, input, aside>> /\ inside' \subseteq inside
    BY DEF Fail
  <1> QED BY <1>1, ReturnToContinueKeeps, FailInLoopKeeps DEF Fail

(* The runner that gives up control. *)
LEMMA BlockedFacts ==
    ASSUME AsyncInv, NEW r \in Runners, Executes(r), input' = input
    PROVE  LET B == Blocked(runner[r])
           IN  B \in RunnerRec /\ B.state = "waiting" /\ B.thread = "blocked" /\ Waits(r, B)
  <1> DEFINE B == Blocked(runner[r])
  <1>1. runner[r] \in RunnerRec /\ runner[r].queue \in Seq(1..MaxItems)
    BY Types
  <1>2. Top.kind \in {"run", "continue"}
    BY PoppedFacts DEF Executes, FrameRec
  <1>3. CASE Top.kind = "run"
    <2> DEFINE C == Compacted(runner[r].queue, Top.n, Top.i)
    <2>0. Top.n \in 0..Len(runner[r].queue) /\ Top.i \in 1..Top.n
      BY <1>3, LoopFacts
    <2>1. Top.n \in 0..Len(runner[r].queue) /\ Top.i \in 0..Top.n
      BY ONLY <2>0
    <2>2. C \in Seq(1..MaxItems)
      BY ONLY <1>1, <2>1, CompactedFacts
    <2> HIDE DEF C
    <2>3. B \in RunnerRec /\ B.state = "waiting" /\ B.thread = "blocked" /\ B.queue = C
      BY <1>1, <1>3, <2>2 DEF Blocked, RunnerRec, States, C
    <2> HIDE DEF B
    <2>4. Waits(r, B)
      BY <1>3, <2>3, ShortenedWaits DEF C
    <2> QED BY <2>3, <2>4 DEF B
  <1>4. CASE Top.kind = "continue"
    <2>1. runner[r].state = "waiting" /\ Len(started[r]) = Len(input[r]) - Len(runner[r].queue)
      BY <1>4, ContinueFacts
    <2>2. /\ B \in RunnerRec /\ B.state = "waiting" /\ B.thread = "blocked"
          /\ B.queue = runner[r].queue
      BY <1>1, <1>4, <2>1 DEF Blocked, RunnerRec
    <2> HIDE DEF B
    <2>3. Waits(r, B)
      BY <2>1, <2>2 DEF Waits, AsyncInv, OrderInv
    <2> QED BY <2>2, <2>3 DEF B
  <1> QED BY <1>2, <1>3, <1>4

(* A coroutine that registered somewhere gives up control. *)
LEMMA YieldKeeps ==
    ASSUME AsyncInv, NEW r \in Runners, Executes(r), Yield(r),
           UNCHANGED <<input, started, aside, inside>>,
           waiter' \in [Runners -> WaiterRec], guards' = NoGuard \/ guards' \in Seq(Runners),
           BlockInv', GuardInv'
    PROVE  AsyncInv'
  <1> DEFINE B == Blocked(runner[r])
             u == Len(Popped)
  <1>1. B \in RunnerRec /\ B.state = "waiting" /\ B.thread = "blocked" /\ Waits(r, B)
    BY BlockedFacts
  <1>2. runner \in [Runners -> RunnerRec] /\ stack \in Seq(FrameRec)
    BY Types
  <1>3. /\ runner' \in [Runners -> RunnerRec] /\ runner'[r] = B
        /\ \A s \in Runners : s # r => runner'[s] = runner[s]
    BY <1>1, <1>2 DEF Yield
  <1>4. stack' = Popped /\ Popped \in Seq(FrameRec)
    BY PoppedFacts DEF Yield, Executes
  <1>5. /\ \A k \in 1..u : Popped[k] = stack[k] /\ Popped[k].runner # r /\ k \in 1..Len(stack)
        /\ \A k \in 1..Len(stack) : stack[k].runner # r => k \in 1..u
    BY TopIsOnly
  <1>6. \A k \in 1..u : stack[k].runner \in Runners
    <2>1. \A k \in 1..u : stack[k] \in FrameRec
      BY <1>2, <1>5
    <2> QED BY <2>1 DEF FrameRec
  <1>7. \A k \in 1..u : runner'[stack[k].runner] = runner[stack[k].runner]
    BY <1>3, <1>5, <1>6
  <1> HIDE DEF B, u
  <1>8. TypeInv'
    BY <1>3, <1>4, Types, NextTypes
  <1>9. StackInv'
    <2>0. StackInv
      BY DEF AsyncInv
    <2>1. \A j, k \in 1..u : Popped[j].runner = Popped[k].runner => j = k
      BY <1>5, <2>0 DEF StackInv
    <2>2. ASSUME NEW k \in 1..u
          PROVE  /\ runner'[Popped[k].runner].thread = "running"
                 /\ Popped[k].kind = "run" =>
                       /\ runner'[Popped[k].runner].state = "running"
                       /\ 1 <= Popped[k].i /\ Popped[k].i <= Popped[k].n
                       /\ Popped[k].n <= Len(runner'[Popped[k].runner].queue)
                 /\ Popped[k].kind = "continue" => runner'[Popped[k].runner].state = "waiting"
      <3>1. Popped[k] = stack[k] /\ k \in 1..Len(stack) /\ runner'[stack[k].runner] = runner[stack[k].runner]
        BY <1>5, <1>7
      <3> QED BY ONLY <2>0, <3>1 DEF StackInv
    <2>3. ASSUME NEW s \in Runners, runner'[s].thread = "running"
          PROVE  \E k \in 1..u : Popped[k].runner = s
      <3>1. s # r
        BY <1>1, <1>3, <2>3
      <3>2. PICK k \in 1..Len(stack) : stack[k].runner = s
        BY <1>3, <2>0, <2>3, <3>1 DEF StackInv
      <3> QED BY <1>5, <3>1, <3>2
    <2>4. \A s \in Runners :
            /\ runner'[s].state = "ready" <=> runner'[s].thread \in {"none", "idle"}
            /\ runner'[s].state = "running" => runner'[s].thread = "running"
            /\ runner'[s].thread = "blocked" => runner'[s].state = "waiting"
      BY <1>1, <1>3, <2>0 DEF StackInv
    <2> QED BY <1>4, <2>1, <2>2, <2>3, <2>4 DEF StackInv, u
  <1>10. OrderInv'
    <2>0. OrderInv
      BY DEF AsyncInv
    <2>1. ASSUME NEW s \in Runners
          PROVE  /\ Len(runner'[s].queue) <= Len(input[s])
                 /\ \A k \in 1..Len(runner'[s].queue) :
                       runner'[s].queue[k] = Len(input[s]) - Len(runner'[s].queue) + k
                 /\ runner'[s].state # "running" =>
                       Len(started[s]) = Len(input[s]) - Len(runner'[s].queue)
      <3>1. CASE s = r
        BY <1>1, <1>3, <3>1 DEF Waits
      <3>2. CASE s # r
        <4>1. runner'[s] = runner[s]
          BY <1>3, <3>2
        <4> QED BY <2>0, <4>1 DEF OrderInv
      <3> QED BY <3>1, <3>2
    <2>2. ASSUME NEW k \in 1..u, Popped[k].kind = "run"
          PROVE  Len(started[Popped[k].runner]) =
                   Len(input[Popped[k].runner]) - Len(runner'[Popped[k].runner].queue) + Popped[k].i
      <3>1. Popped[k] = stack[k] /\ k \in 1..Len(stack) /\ runner'[stack[k].runner] = runner[stack[k].runner]
        BY <1>5, <1>7
      <3> QED BY ONLY <2>0, <2>2, <3>1 DEF OrderInv
    <2> QED BY <1>4, <2>0, <2>1, <2>2 DEF OrderInv, u
  <1>11. WorkInv'
    BY <1>1, <1>3 DEF AsyncInv, WorkInv
  <1> QED BY <1>8, <1>9, <1>10, <1>11 DEF AsyncInv

(* A coroutine that is registered nowhere any more goes on. *)
LEMMA ContinueKeeps ==
    ASSUME AsyncInv, NEW r \in Runners, runner[r].thread = "blocked", Continue(r),
           UNCHANGED <<input, started, aside>>, inside' \subseteq Runners,
           waiter' \in [Runners -> WaiterRec], guards' = NoGuard \/ guards' \in Seq(Runners),
           BlockInv', GuardInv'
    PROVE  AsyncInv'
  <1> DEFINE L == Len(stack)
             f == Frame("continue", r, 0, 0)
  <1>1. runner \in [Runners -> RunnerRec] /\ stack \in Seq(FrameRec) /\ L \in Nat
    BY Types
  <1>2. f \in FrameRec /\ f.kind = "continue" /\ f.runner = r
    BY BoundsAssumption DEF Frame, FrameRec
  <1>3. /\ stack' \in Seq(FrameRec) /\ Len(stack') = L + 1 /\ stack'[L + 1] = f
        /\ \A k \in 1..L : stack'[k] = stack[k]
    BY <1>1, <1>2, AppendProperties DEF Continue
  <1>4. /\ runner' \in [Runners -> RunnerRec] /\ runner'[r].thread = "running"
        /\ runner'[r].queue = runner[r].queue /\ runner'[r].state = runner[r].state
        /\ \A s \in Runners : s # r => runner'[s] = runner[s]
    BY <1>1 DEF Continue, RunnerRec
  <1>5. runner[r].state = "waiting" /\ \A k \in 1..L : stack[k].runner # r
    BY DEF AsyncInv, StackInv
  <1>6. \A k \in 1..L : stack[k].runner \in Runners
    <2>1. \A k \in 1..L : stack[k] \in FrameRec
      BY <1>1
    <2> QED BY <2>1 DEF FrameRec
  <1>7. \A k \in 1..L : runner'[stack[k].runner] = runner[stack[k].runner]
    BY <1>4, <1>5, <1>6
  <1>8. \A k \in 1..L + 1 : k = L + 1 \/ k \in 1..L
    BY <1>1
  <1> HIDE DEF f, L
  <1>9. TypeInv'
    BY <1>3, <1>4, Types, NextTypes
  <1>10. StackInv'
    <2>0. StackInv
      BY DEF AsyncInv
    <2>1. \A j, k \in 1..L + 1 : stack'[j].runner = stack'[k].runner => j = k
      <3>1. \A j, k \in 1..L : stack[j].runner = stack[k].runner => j = k
        BY <2>0 DEF StackInv, L
      <3> QED BY ONLY <1>2, <1>3, <1>5, <1>8, <3>1
    <2>2. ASSUME NEW k \in 1..L + 1
          PROVE  /\ runner'[stack'[k].runner].thread = "running"
                 /\ stack'[k].kind = "run" =>
                       /\ runner'[stack'[k].runner].state = "running"
                       /\ 1 <= stack'[k].i /\ stack'[k].i <= stack'[k].n
                       /\ stack'[k].n <= Len(runner'[stack'[k].runner].queue)
                 /\ stack'[k].kind = "continue" => runner'[stack'[k].runner].state = "waiting"
      <3>1. CASE k = L + 1
        BY ONLY <1>2, <1>3, <1>4, <1>5, <3>1
      <3>2. CASE k \in 1..L
        <4>1. stack'[k] = stack[k] /\ k \in 1..Len(stack) /\ runner'[stack[k].runner] = runner[stack[k].runner]
          BY <1>3, <1>7, <3>2 DEF L
        <4> QED BY ONLY <2>0, <4>1 DEF StackInv
      <3> QED BY <1>8, <3>1, <3>2
    <2>3. ASSUME NEW s \in Runners, runner'[s].thread = "running"
          PROVE  \E k \in 1..L + 1 : stack'[k].runner = s
      <3>1. CASE s = r
        <4>1. L + 1 \in 1..L + 1
          BY <1>1
        <4> QED BY <1>2, <1>3, <3>1, <4>1
      <3>2. CASE s # r
        <4>1. PICK k \in 1..L : stack[k].runner = s
          BY <1>4, <2>0, <2>3, <3>2 DEF StackInv, L
        <4>2. k \in 1..L + 1
          BY <1>1
        <4> QED BY <1>3, <4>1, <4>2
      <3> QED BY <3>1, <3>2
    <2>4. \A s \in Runners :
            /\ runner'[s].state = "ready" <=> runner'[s].thread \in {"none", "idle"}
            /\ runner'[s].state = "running" => runner'[s].thread = "running"
            /\ runner'[s].thread = "blocked" => runner'[s].state = "waiting"
      BY <1>4, <1>5, <2>0 DEF StackInv
    <2> QED BY <1>3, <2>1, <2>2, <2>3, <2>4 DEF StackInv
  <1>11. OrderInv'
    <2>0. OrderInv
      BY DEF AsyncInv
    <2>1. \A s \in Runners : runner'[s].queue = runner[s].queue /\ runner'[s].state = runner[s].state
      BY <1>4
    <2>2. ASSUME NEW k \in 1..L + 1, stack'[k].kind = "run"
          PROVE  Len(started[stack'[k].runner]) =
                   Len(input[stack'[k].runner]) - Len(runner'[stack'[k].runner].queue) + stack'[k].i
      <3>1. k \in 1..L
        BY <1>2, <1>3, <1>8, <2>2
      <3>2. stack'[k] = stack[k] /\ k \in 1..Len(stack) /\ runner'[stack[k].runner] = runner[stack[k].runner]
        BY <1>3, <1>7, <3>1 DEF L
      <3> QED BY ONLY <2>0, <2>2, <3>2 DEF OrderInv
    <2>3. ASSUME NEW s \in Runners
          PROVE  /\ \A k \in 1..Len(input[s]) : input[s][k] = k
                 /\ \A k \in 1..Len(started[s]) : started[s][k] = k
                 /\ Len(runner'[s].queue) <= Len(input[s])
                 /\ \A k \in 1..Len(runner'[s].queue) :
                       runner'[s].queue[k] = Len(input[s]) - Len(runner'[s].queue) + k
                 /\ runner'[s].state # "running" =>
                       Len(started[s]) = Len(input[s]) - Len(runner'[s].queue)
      <3>1. runner'[s].queue = runner[s].queue /\ runner'[s].state = runner[s].state
        BY <2>1
      <3>2. /\ \A k \in 1..Len(input[s]) : input[s][k] = k
            /\ \A k \in 1..Len(started[s]) : started[s][k] = k
            /\ Len(runner[s].queue) <= Len(input[s])
            /\ \A k \in 1..Len(runner[s].queue) :
                  runner[s].queue[k] = Len(input[s]) - Len(runner[s].queue) + k
            /\ runner[s].state # "running" => Len(started[s]) = Len(input[s]) - Len(runner[s].queue)
        BY <2>0 DEF OrderInv
      <3> QED BY ONLY <3>1, <3>2
    <2> QED BY <1>3, <2>2, <2>3 DEF OrderInv
  <1>12. WorkInv'
    BY <1>4, <1>5 DEF AsyncInv, WorkInv
  <1> QED BY <1>9, <1>10, <1>11, <1>12 DEF AsyncInv

(* Steps that move no coroutine. *)
LEMMA SameRunners ==
    ASSUME AsyncInv, UNCHANGED <<runner, stack, input, started, aside>>
    PROVE  StackInv' /\ OrderInv' /\ WorkInv'
  <1>1. StackInv'
    BY DEF AsyncInv, StackInv
  <1>2. OrderInv'
    <2>1. OrderInv
      BY DEF AsyncInv
    <2> QED BY <2>1 DEF OrderInv
  <1>3. WorkInv'
    BY DEF AsyncInv, WorkInv
  <1> QED BY <1>1, <1>2, <1>3

(* waiter() keeps AsyncInv: nobody waits on it yet (async.lua:68-84). *)
LEMMA MakeWaiterKeeps ==
    ASSUME AsyncInv, NEW r \in Runners, MakeWaiter(r)
    PROVE  AsyncInv'
  <1>1. /\ Executes(r) /\ UNCHANGED <<runner, stack, guards, inside, input, started, aside>>
        /\ \E num \in 1..MaxDone : waiter' = [waiter EXCEPT ![r] = [num |-> num, waiting |-> FALSE]]
    BY DEF MakeWaiter
  <1>2. PICK num \in 1..MaxDone : waiter' = [waiter EXCEPT ![r] = [num |-> num, waiting |-> FALSE]]
    BY <1>1
  <1>3. [num |-> num, waiting |-> FALSE] \in WaiterRec
    BY BoundsAssumption DEF WaiterRec
  <1>4. waiter \in [Runners -> WaiterRec]
    BY Types
  <1>5. /\ waiter' \in [Runners -> WaiterRec] /\ waiter'[r].waiting = FALSE
        /\ \A s \in Runners : s # r => waiter'[s] = waiter[s]
    BY <1>2, <1>3, <1>4
  <1>6. TypeInv'
    BY <1>1, <1>5, Types, NextTypes
  <1>7. StackInv' /\ OrderInv' /\ GuardInv' /\ WorkInv'
    BY <1>1, SameRunners DEF AsyncInv, GuardInv
  <1>8. BlockInv'
    <2>0. BlockInv /\ runner[r].thread # "blocked"
      BY <1>1, TopIsOnly DEF AsyncInv
    <2>1. BlockedIsRegistered'
      BY <1>1, <1>5, <2>0 DEF BlockInv, BlockedIsRegistered
    <2>2. guards # NoGuard => \A k \in 1..Len(guards) : guards[k] \in Runners
      BY Types, ElementOfSeq
    <2> QED BY <1>1, <1>5, <2>0, <2>1, <2>2 DEF BlockInv
  <1> QED BY <1>6, <1>7, <1>8 DEF AsyncInv

(* wait() keeps AsyncInv: an item that yields is registered with the       *)
(* waiter that will wake it up, and one that need not yield goes on.       *)
LEMMA WaitKeeps ==
    ASSUME AsyncInv, NEW r \in Runners, Wait(r)
    PROVE  AsyncInv'
  <1>1. /\ Executes(r) /\ Yield(r) /\ waiter[r].num > 0
        /\ waiter' = [waiter EXCEPT ![r].waiting = TRUE]
        /\ UNCHANGED <<guards, inside, input, started, aside>>
    BY DEF Wait
  <1>2. /\ waiter \in [Runners -> WaiterRec] /\ runner \in [Runners -> RunnerRec]
        /\ guards = NoGuard \/ guards \in Seq(Runners)
    BY Types
  <1>3. /\ waiter' \in [Runners -> WaiterRec] /\ waiter'[r].waiting /\ waiter'[r].num > 0
        /\ \A s \in Runners : s # r => waiter'[s] = waiter[s]
    BY <1>1, <1>2 DEF WaiterRec
  <1>4. runner[r].thread # "blocked"
    BY <1>1, TopIsOnly
  <1>5. runner'[r].thread = "blocked" /\ \A s \in Runners : s # r => runner'[s] = runner[s]
    BY <1>1, <1>2, BlockedFacts DEF Yield
  <1>6. BlockInv'
    <2>0. BlockInv
      BY DEF AsyncInv
    <2>1. BlockedIsRegistered'
      BY <1>1, <1>3, <1>5, <2>0 DEF BlockInv, BlockedIsRegistered
    <2>2. \A s \in Runners : waiter'[s].num > 0 /\ waiter'[s].waiting => runner'[s].thread = "blocked"
      BY <1>3, <1>5, <2>0 DEF BlockInv
    <2>3. guards # NoGuard => \A k \in 1..Len(guards) : guards[k] \in Runners /\ guards[k] # r
      <3>1. guards # NoGuard => \A k \in 1..Len(guards) : guards[k] # r
        BY <1>4, <2>0 DEF BlockInv
      <3> QED BY <1>2, <3>1, ElementOfSeq
    <2> QED BY <1>1, <1>3, <1>5, <2>0, <2>1, <2>2, <2>3 DEF BlockInv
  <1>7. GuardInv'
    BY <1>1 DEF AsyncInv, GuardInv
  <1> QED BY <1>1, <1>2, <1>3, <1>6, <1>7, YieldKeeps

(* done() keeps AsyncInv: whom the last call wakes up is registered        *)
(* nowhere else, so that it is resumed once.                               *)
LEMMA DoneKeeps ==
    ASSUME AsyncInv, NEW r \in Runners, Done(r)
    PROVE  AsyncInv'
  <1>1. /\ waiter[r].num > 0 /\ waiter' = [waiter EXCEPT ![r].num = @ - 1]
        /\ UNCHANGED <<guards, inside, input, started, aside>>
    BY DEF Done
  <1>2. /\ waiter \in [Runners -> WaiterRec] /\ runner \in [Runners -> RunnerRec]
        /\ (guards = NoGuard \/ guards \in Seq(Runners)) /\ inside \subseteq Runners
    BY Types
  <1>3. waiter[r] \in WaiterRec /\ waiter[r].num \in 1..MaxDone
    BY <1>1, <1>2, BoundsAssumption DEF WaiterRec
  <1>4. /\ waiter'[r].num = waiter[r].num - 1 /\ waiter'[r].waiting = waiter[r].waiting
        /\ \A s \in Runners : s # r => waiter'[s] = waiter[s]
        /\ waiter' \in [Runners -> WaiterRec]
    <2>1. waiter[r].num - 1 \in 0..MaxDone
      BY <1>3, BoundsAssumption
    <2> QED BY <1>1, <1>2, <1>3, <2>1 DEF WaiterRec
  <1>5. BlockInv
    BY DEF AsyncInv
  <1>6. guards # NoGuard => \A k \in 1..Len(guards) : guards[k] \in Runners
    BY <1>2, ElementOfSeq
  <1>7. GuardInv'
    BY <1>1 DEF AsyncInv, GuardInv
  <1>8. CASE Releases(r)
    <2>1. Continue(r) /\ waiter[r].num = 1 /\ waiter[r].waiting
      BY <1>8 DEF Done, Releases
    <2>2. runner[r].thread = "blocked"
      BY <1>1, <1>5, <2>1 DEF BlockInv
    <2>3. /\ runner'[r].thread = "running" /\ \A s \in Runners : s # r => runner'[s] = runner[s]
          /\ waiter'[r].num = 0
      BY <1>2, <1>4, <2>1 DEF Continue, RunnerRec
    <2>4. BlockInv'
      <3>1. BlockedIsRegistered'
        BY <1>1, <1>4, <1>5, <2>3 DEF BlockInv, BlockedIsRegistered
      <3>2. \A s \in Runners : waiter'[s].num > 0 /\ waiter'[s].waiting => runner'[s].thread = "blocked"
        BY <1>4, <1>5, <2>3 DEF BlockInv
      <3>3. guards # NoGuard => \A k \in 1..Len(guards) : guards[k] # r
        BY <1>1, <1>5, <2>1 DEF BlockInv
      <3> QED BY <1>1, <1>4, <1>5, <1>6, <2>3, <3>1, <3>2, <3>3 DEF BlockInv
    <2> QED BY <1>1, <1>2, <1>4, <1>7, <2>1, <2>2, <2>4, ContinueKeeps
  <1>9. CASE ~Releases(r)
    <2>1. UNCHANGED <<runner, stack>>
      BY <1>9 DEF Done
    <2>2. waiter[r].waiting => waiter'[r].num > 0
      BY <1>3, <1>4, <1>9 DEF Releases
    <2>3. TypeInv'
      BY <1>1, <1>4, <2>1, Types, NextTypes
    <2>4. StackInv' /\ OrderInv' /\ WorkInv'
      BY <1>1, <2>1, SameRunners
    <2>5. BlockInv'
      <3>1. BlockedIsRegistered'
        BY <1>1, <1>4, <1>5, <2>1, <2>2 DEF BlockInv, BlockedIsRegistered
      <3>2. \A s \in Runners : waiter'[s].num > 0 /\ waiter'[s].waiting => runner'[s].thread = "blocked"
        BY <1>1, <1>4, <1>5, <2>1 DEF BlockInv
      <3>3. \A s \in Runners : waiter'[s].num > 0 /\ waiter'[s].waiting
                                   => waiter[s].num > 0 /\ waiter[s].waiting
        BY <1>1, <1>4
      <3> QED BY <1>1, <1>5, <1>6, <2>1, <3>1, <3>2, <3>3 DEF BlockInv
    <2> QED BY <1>7, <2>3, <2>4, <2>5 DEF AsyncInv
  <1> QED BY <1>8, <1>9

(* NoGuard is not a queue of runners. *)
LEMMA NoGuardApart == NoGuard \notin Seq(Runners)
  <1> SUFFICES ASSUME NoGuard \in Seq(Runners) PROVE FALSE
    OBVIOUS
  <1>1. Len(NoGuard) = 1 /\ NoGuard[1] = "off duty"
    BY DEF NoGuard
  <1>2. NoGuard[1] \in Runners
    <2>0. 1 \in 1..1
      OBVIOUS
    <2>1. 1 \in 1..Len(NoGuard)
      BY ONLY <1>1, <2>0
    <2> QED BY <2>1, ElementOfSeq
  <1> QED BY <1>1, <1>2, NameAssumption

(* Entering the guard keeps AsyncInv: the item gets in, or its runner is   *)
(* the last in the queue (guarder in async.lua).                           *)
LEMMA EnterGuardKeeps ==
    ASSUME AsyncInv, NEW r \in Runners, EnterGuard(r)
    PROVE  AsyncInv'
  <1>1. Executes(r) /\ UNCHANGED <<waiter, input, started, aside>>
    BY DEF EnterGuard
  <1>2. /\ waiter \in [Runners -> WaiterRec] /\ runner \in [Runners -> RunnerRec]
        /\ guards = NoGuard \/ guards \in Seq(Runners)
        /\ inside \subseteq Runners
    BY Types
  <1>3. BlockInv /\ GuardInv
    BY DEF AsyncInv
  <1>4. CASE guards = NoGuard
    <2>1. /\ guards' = << >> /\ inside' = inside \cup {r} /\ UNCHANGED <<runner, stack>>
          /\ inside = {}
      BY <1>3, <1>4 DEF EnterGuard, GuardInv
    <2>2. << >> \in Seq(Runners) /\ Len(<< >>) = 0 /\ << >> # NoGuard
      BY EmptySeq, NoGuardApart
    <2>3. TypeInv'
      BY <1>1, <2>1, <2>2, Types, NextTypes
    <2>4. StackInv' /\ OrderInv' /\ WorkInv'
      BY <1>1, <2>1, SameRunners
    <2>5. GuardInv'
      BY <2>1, <2>2 DEF GuardInv
    <2>6. BlockInv'
      BY <1>1, <1>3, <1>4, <2>1, <2>2 DEF BlockInv, BlockedIsRegistered
    <2> QED BY <2>3, <2>4, <2>5, <2>6 DEF AsyncInv
  <1>5. CASE guards # NoGuard
    <2>1. guards' = Append(guards, r) /\ Yield(r) /\ UNCHANGED inside
      BY <1>5 DEF EnterGuard
    <2> DEFINE g == Len(guards)
    <2>2. /\ guards \in Seq(Runners) /\ g \in Nat /\ guards' \in Seq(Runners) /\ Len(guards') = g + 1
          /\ guards'[g + 1] = r /\ \A k \in 1..g : guards'[k] = guards[k] /\ guards[k] \in Runners
      BY <1>2, <1>5, <2>1, AppendProperties, LenProperties
    <2>3. guards' # NoGuard
      BY <2>2, NoGuardApart
    <2>4. runner'[r].thread = "blocked" /\ \A s \in Runners : s # r => runner'[s] = runner[s]
      BY <1>1, <1>2, <2>1, BlockedFacts DEF Yield
    <2>5. runner[r].thread # "blocked" /\ ~(waiter[r].num > 0 /\ waiter[r].waiting)
      BY <1>1, <1>3, TopIsOnly DEF BlockInv
    <2>6. \A k \in 1..g : guards[k] # r
      BY <1>3, <1>5, <2>5 DEF BlockInv
    <2>7. \A k \in 1..g + 1 : k = g + 1 \/ k \in 1..g
      BY <2>2
    <2>8. g + 1 \in 1..g + 1 /\ \A k \in 1..g : k \in 1..g + 1
      BY <2>2
    <2> HIDE DEF g
    <2>9. BlockInv'
      <3>1. BlockedIsRegistered'
        <4> SUFFICES ASSUME NEW s \in Runners, runner'[s].thread = "blocked"
                     PROVE  \/ waiter[s].num > 0 /\ waiter[s].waiting
                            \/ \E k \in 1..g + 1 : guards'[k] = s
          BY <1>1, <2>2, <2>3 DEF BlockedIsRegistered
        <4>1. CASE s = r
          BY <2>2, <2>8, <4>1
        <4>2. CASE s # r
          <5>1. \/ waiter[s].num > 0 /\ waiter[s].waiting
                \/ \E k \in 1..g : guards[k] = s
            BY <1>3, <2>4, <4>2 DEF BlockInv, BlockedIsRegistered, g
          <5> QED BY <2>2, <2>8, <5>1
        <4> QED BY <4>1, <4>2
      <3>2. \A s \in Runners : waiter[s].num > 0 /\ waiter[s].waiting => runner'[s].thread = "blocked"
        BY <1>3, <2>4, <2>5 DEF BlockInv
      <3>3. \A k \in 1..g + 1 : /\ runner'[guards'[k]].thread = "blocked"
                                /\ ~(waiter[guards'[k]].num > 0 /\ waiter[guards'[k]].waiting)
        <4>1. \A k \in 1..g : /\ runner[guards[k]].thread = "blocked"
                              /\ ~(waiter[guards[k]].num > 0 /\ waiter[guards[k]].waiting)
          BY <1>3, <1>5 DEF BlockInv, g
        <4> QED BY ONLY <2>2, <2>4, <2>5, <2>6, <2>7, <4>1
      <3>4. \A j, k \in 1..g + 1 : guards'[j] = guards'[k] => j = k
        <4>1. \A j, k \in 1..g : guards[j] = guards[k] => j = k
          BY <1>3, <1>5 DEF BlockInv, g
        <4> QED BY ONLY <2>2, <2>6, <2>7, <4>1
      <3> QED BY <1>1, <2>2, <3>1, <3>2, <3>3, <3>4 DEF BlockInv
    <2>10. GuardInv'
      BY <1>3, <2>1, <2>3 DEF GuardInv
    <2> QED BY <1>1, <1>2, <2>1, <2>2, <2>9, <2>10, YieldKeeps
  <1> QED BY <1>4, <1>5

(* Leaving the guard keeps AsyncInv: the first of the queue is let in and  *)
(* removed in the same step, or the guard is off duty.                     *)
LEMMA ExitGuardKeeps ==
    ASSUME AsyncInv, NEW r \in Runners, ExitGuard(r)
    PROVE  AsyncInv'
  <1>1. Executes(r) /\ r \in inside /\ UNCHANGED <<waiter, input, started, aside>>
    BY DEF ExitGuard
  <1>2. /\ waiter \in [Runners -> WaiterRec] /\ runner \in [Runners -> RunnerRec]
        /\ guards = NoGuard \/ guards \in Seq(Runners)
        /\ inside \subseteq Runners
    BY Types
  <1>3. BlockInv /\ GuardInv
    BY DEF AsyncInv
  <1>4. guards # NoGuard /\ guards \in Seq(Runners) /\ inside \ {r} = {}
    BY <1>1, <1>2, <1>3 DEF GuardInv
  <1>5. CASE guards = << >>
    <2>1. guards' = NoGuard /\ inside' = inside \ {r} /\ UNCHANGED <<runner, stack>>
      BY <1>5 DEF ExitGuard
    <2>2. \A k \in 1..Len(guards) : FALSE
      BY <1>5
    <2>3. TypeInv'
      BY <1>1, <2>1, Types, NextTypes
    <2>4. StackInv' /\ OrderInv' /\ WorkInv'
      BY <1>1, <2>1, SameRunners
    <2>5. GuardInv'
      BY <1>4, <2>1 DEF GuardInv
    <2>6. BlockInv'
      BY <1>1, <1>3, <2>1, <2>2 DEF BlockInv, BlockedIsRegistered
    <2> QED BY <2>3, <2>4, <2>5, <2>6 DEF AsyncInv
  <1>6. CASE guards # << >>
    <2> DEFINE h == Head(guards)
               g == Len(guards)
    <2>1. guards' = Tail(guards) /\ inside' = (inside \ {r}) \cup {h} /\ Continue(h)
      BY <1>6 DEF ExitGuard
    <2>2. /\ g \in Nat \ {0} /\ h = guards[1] /\ h \in Runners
          /\ guards' \in Seq(Runners) /\ Len(guards') = g - 1
          /\ \A k \in 1..g - 1 : guards'[k] = guards[k + 1]
      BY <1>4, <1>6, <2>1, HeadTailProperties, EmptySeq, LenProperties
    <2>3. guards' # NoGuard
      BY <2>2, NoGuardApart
    <2>4. 1 \in 1..g /\ \A k \in 1..g - 1 : k + 1 \in 1..g /\ k + 1 # 1
      BY <2>2
    <2>5. \A k \in 1..g : k = 1 \/ (k - 1 \in 1..g - 1 /\ (k - 1) + 1 = k)
      BY <2>2
    <2>6. /\ \A k \in 1..g : /\ runner[guards[k]].thread = "blocked" /\ guards[k] \in Runners
                             /\ ~(waiter[guards[k]].num > 0 /\ waiter[guards[k]].waiting)
          /\ \A j, k \in 1..g : guards[j] = guards[k] => j = k
      BY <1>3, <1>4, ElementOfSeq DEF BlockInv
    <2>7. /\ runner[h].thread = "blocked" /\ ~(waiter[h].num > 0 /\ waiter[h].waiting)
          /\ \A k \in 1..g - 1 : guards'[k] # h /\ guards'[k] \in Runners
      BY ONLY <2>2, <2>4, <2>6
    <2> HIDE DEF h, g
    <2>8. runner'[h].thread = "running" /\ \A s \in Runners : s # h => runner'[s] = runner[s]
      BY <1>2, <2>1, <2>2 DEF Continue, RunnerRec
    <2>9. BlockInv'
      <3>1. BlockedIsRegistered'
        <4> SUFFICES ASSUME NEW s \in Runners, runner'[s].thread = "blocked"
                     PROVE  \/ waiter[s].num > 0 /\ waiter[s].waiting
                            \/ \E k \in 1..g - 1 : guards'[k] = s
          BY <1>1, <2>2, <2>3 DEF BlockedIsRegistered
        <4>1. s # h /\ runner[s].thread = "blocked"
          BY <2>8
        <4>2. \/ waiter[s].num > 0 /\ waiter[s].waiting
              \/ \E k \in 1..g : guards[k] = s
          BY <1>3, <4>1 DEF BlockInv, BlockedIsRegistered, g
        <4> QED BY ONLY <2>2, <2>5, <4>1, <4>2
      <3>2. \A s \in Runners : waiter[s].num > 0 /\ waiter[s].waiting => runner'[s].thread = "blocked"
        BY <1>3, <2>7, <2>8 DEF BlockInv
      <3>3. \A k \in 1..g - 1 : /\ runner'[guards'[k]].thread = "blocked"
                                /\ ~(waiter[guards'[k]].num > 0 /\ waiter[guards'[k]].waiting)
        <4> SUFFICES ASSUME NEW k \in 1..g - 1
                     PROVE  /\ runner'[guards'[k]].thread = "blocked"
                            /\ ~(waiter[guards'[k]].num > 0 /\ waiter[guards'[k]].waiting)
          OBVIOUS
        <4>1. guards'[k] = guards[k + 1] /\ k + 1 \in 1..g /\ guards'[k] # h
          BY ONLY <2>2, <2>4, <2>7, k \in 1..g - 1
        <4>2. runner[guards[k + 1]].thread = "blocked" /\ guards[k + 1] \in Runners
              /\ ~(waiter[guards[k + 1]].num > 0 /\ waiter[guards[k + 1]].waiting)
          BY ONLY <2>6, <4>1
        <4>3. runner'[guards'[k]] = runner[guards[k + 1]]
          BY ONLY <2>8, <4>1, <4>2
        <4> QED BY ONLY <4>1, <4>2, <4>3
      <3>4. \A j, k \in 1..g - 1 : guards'[j] = guards'[k] => j = k
        <4> SUFFICES ASSUME NEW j \in 1..g - 1, NEW k \in 1..g - 1, guards'[j] = guards'[k] PROVE j = k
          OBVIOUS
        <4>1. j + 1 = k + 1
          <5>1. guards[j + 1] = guards[k + 1] /\ j + 1 \in 1..g /\ k + 1 \in 1..g
            BY <2>2, <2>4
          <5> QED BY ONLY <2>6, <5>1
        <4> QED BY <4>1
      <3> QED BY <1>1, <2>2, <3>1, <3>2, <3>3, <3>4 DEF BlockInv
    <2>10. GuardInv'
      BY <1>4, <2>1, <2>3 DEF GuardInv
    <2>11. inside' \subseteq Runners
      BY <1>4, <2>1, <2>2
    <2> QED BY <1>1, <1>2, <2>1, <2>2, <2>7, <2>9, <2>10, <2>11, ContinueKeeps
  <1> QED BY <1>5, <1>6
-----------------------------------------------------------------------------
(* The invariant of which the properties are parts or consequences. *)
LEMMA AsyncInvHolds == Spec => []AsyncInv
  <1>1. Init => AsyncInv
    <2> SUFFICES ASSUME Init PROVE AsyncInv
      OBVIOUS
    <2>1. << >> \in Seq(1..MaxItems) /\ << >> \in Seq(FrameRec) /\ Len(<< >>) = 0
      BY EmptySeq
    <2>2. NewRunner \in RunnerRec /\ NoWaiter \in WaiterRec /\ NewRunner.queue = << >>
          /\ NewRunner.state = "ready" /\ NewRunner.thread = "none" /\ NoWaiter.num = 0
      BY <2>1, BoundsAssumption DEF NewRunner, NoWaiter, RunnerRec, WaiterRec, States
    <2>3. /\ Len(stack) = 0 /\ guards = NoGuard /\ inside = {} /\ aside = {}
          /\ \A r \in Runners : /\ runner[r] = NewRunner /\ waiter[r] = NoWaiter
                                /\ input[r] = << >> /\ started[r] = << >>
      BY <2>1 DEF Init
    <2>4. TypeInv
      <3>1. /\ runner \in [Runners -> RunnerRec] /\ stack \in Seq(FrameRec)
            /\ waiter \in [Runners -> WaiterRec]
            /\ input \in [Runners -> Seq(1..MaxItems)] /\ started \in [Runners -> Seq(1..MaxItems)]
        BY <2>1, <2>2 DEF Init
      <3>2. \A r \in Runners : Len(input[r]) <= MaxItems
        BY <2>1, <2>3, BoundsAssumption
      <3> QED BY <2>3, <3>1, <3>2 DEF TypeInv, TypeOK, RunnerRec, FrameRec, WaiterRec
    <2>5. StackInv
      BY <2>2, <2>3 DEF StackInv
    <2>6. OrderInv
      <3>1. \A k : k \notin 1..0
        OBVIOUS
      <3>2. \A r \in Runners : Len(input[r]) = 0 /\ Len(started[r]) = 0 /\ Len(runner[r].queue) = 0
        BY ONLY <2>1, <2>2, <2>3
      <3>3. 0 <= 0 /\ 0 = 0 - 0
        OBVIOUS
      <3>4. \A k : k \notin 1..Len(stack)
        BY ONLY <2>3, <3>1
      <3>5. ASSUME NEW r \in Runners
            PROVE  /\ \A k \in 1..Len(input[r]) : input[r][k] = k
                   /\ \A k \in 1..Len(started[r]) : started[r][k] = k
                   /\ Len(runner[r].queue) <= Len(input[r])
                   /\ \A k \in 1..Len(runner[r].queue) :
                         runner[r].queue[k] = Len(input[r]) - Len(runner[r].queue) + k
                   /\ Len(started[r]) = Len(input[r]) - Len(runner[r].queue)
        BY ONLY <3>1, <3>2, <3>3, <3>5
      <3> QED BY ONLY <3>4, <3>5 DEF OrderInv
    <2>7. BlockInv /\ GuardInv /\ WorkInv
      BY <2>2, <2>3 DEF BlockInv, BlockedIsRegistered, GuardInv, WorkInv
    <2> QED BY <2>4, <2>5, <2>6, <2>7 DEF AsyncInv
  <1>2. AsyncInv /\ [Next]_vars => AsyncInv'
    <2> SUFFICES ASSUME AsyncInv, [Next]_vars PROVE AsyncInv'
      OBVIOUS
    <2>1. ASSUME NEW r \in Runners,
                 \/ Call(r) \/ Enqueue(r) \/ Return(r) \/ Fail(r) \/ MakeWaiter(r)
                 \/ Wait(r) \/ Done(r) \/ EnterGuard(r) \/ ExitGuard(r)
          PROVE  AsyncInv'
      BY <2>1, CallKeeps, EnqueueKeeps, ReturnKeeps, FailKeeps, MakeWaiterKeeps, WaitKeeps,
         DoneKeeps, EnterGuardKeeps, ExitGuardKeeps
    <2>2. CASE UNCHANGED vars
      <3>1. UNCHANGED <<runner, stack, input, started, aside, waiter, guards, inside>>
        BY <2>2 DEF vars
      <3>2. TypeInv'
        BY <3>1, Types, NextTypes
      <3>3. BlockInv' /\ GuardInv'
        BY <3>1 DEF AsyncInv, BlockInv, BlockedIsRegistered, GuardInv
      <3> QED BY <3>1, <3>2, <3>3, SameRunners DEF AsyncInv
    <2> QED BY <2>1, <2>2 DEF Next
  <1> QED BY <1>1, <1>2, PTL DEF Spec

(* At most one frame, so as many as none or one. *)
LEMMA FramesFacts ==
    ASSUME AsyncInv, NEW r \in Runners
    PROVE  /\ \A j, k \in FramesOf(r) : j = k
           /\ Cardinality(FramesOf(r)) <= 1
           /\ \A k \in FramesOf(r) : stack[k].kind = "run" => Begins(r) = stack[k].i
           /\ (\A k \in FramesOf(r) : stack[k].kind # "run") => Begins(r) = 0
  <1>1. \A j, k \in FramesOf(r) : j = k
    BY DEF AsyncInv, StackInv, FramesOf
  <1>2. Cardinality(FramesOf(r)) <= 1
    <2>1. CASE FramesOf(r) = {}
      BY <2>1, FS_EmptySet
    <2>2. CASE FramesOf(r) # {}
      <3>1. PICK k \in FramesOf(r) : TRUE
        BY <2>2
      <3>2. FramesOf(r) = {k}
        BY <1>1, <3>1
      <3>3. Cardinality({k}) = 1
        BY FS_Singleton
      <3> QED BY <3>2, <3>3
    <2> QED BY <2>1, <2>2
  <1>3. ASSUME NEW k \in FramesOf(r), stack[k].kind = "run" PROVE Begins(r) = stack[k].i
    <2> DEFINE loops == {j \in FramesOf(r) : stack[j].kind = "run"}
    <2>1. loops = {k}
      BY <1>1, <1>3
    <2>2. (CHOOSE j \in loops : TRUE) = k /\ loops # {}
      BY <2>1
    <2> HIDE DEF loops
    <2>3. Begins(r) = stack[CHOOSE j \in loops : TRUE].i
      BY <2>2 DEF Begins, loops
    <2> QED BY <2>2, <2>3
  <1>4. ASSUME \A k \in FramesOf(r) : stack[k].kind # "run" PROVE Begins(r) = 0
    <2>1. {j \in FramesOf(r) : stack[j].kind = "run"} = {}
      BY <1>4
    <2> QED BY <2>1 DEF Begins
  <1> QED BY <1>1, <1>2, <1>3, <1>4

(* The states of the runners are true, who is blocked is registered where  *)
(* it is released, and no ready runner is left with work, whatever calls,  *)
(* waits, errors and releases are nested in each other (async.lua:39-217). *)
THEOREM RunnersSoundHolds == Spec => []RunnersSound
  <1>1. AsyncInv => RunnersSound
    <2> SUFFICES ASSUME AsyncInv PROVE RunnersSound
      OBVIOUS
    <2>1. TypeOK /\ BlockedIsRegistered
      BY DEF AsyncInv, TypeInv, BlockInv
    <2>2. NoIdleWork
      BY DEF AsyncInv, WorkInv, NoIdleWork
    <2>3. StateIsTrue
      <3> SUFFICES ASSUME NEW r \in Runners
                   PROVE  /\ Cardinality(FramesOf(r)) <= 1
                          /\ runner[r].state = "running" <=>
                                \E k \in FramesOf(r) : stack[k].kind = "run"
                          /\ runner[r].state = "waiting" <=>
                                \/ runner[r].thread = "blocked"
                                \/ \E k \in FramesOf(r) : stack[k].kind = "continue"
                          /\ runner[r].thread = "running" <=> FramesOf(r) # {}
        BY DEF StateIsTrue
      <3>1. StackInv
        BY DEF AsyncInv
      <3>2. \A k \in FramesOf(r) : /\ stack[k].kind \in {"run", "continue"}
                                   /\ stack[k].kind = "run" => runner[r].state = "running"
                                   /\ stack[k].kind = "continue" => runner[r].state = "waiting"
                                   /\ runner[r].thread = "running"
        <4>1. \A k \in 1..Len(stack) : stack[k] \in FrameRec
          BY Types, ElementOfSeq
        <4>2. \A k \in 1..Len(stack) : stack[k].kind \in {"run", "continue"}
          BY <4>1 DEF FrameRec
        <4> QED BY <3>1, <4>2 DEF StackInv, FramesOf
      <3>3. runner[r].thread = "running" <=> FramesOf(r) # {}
        BY <3>1, <3>2 DEF StackInv, FramesOf
      <3>4. runner[r].state \in States /\ runner[r].thread \in {"none", "idle", "running", "blocked"}
        BY Types DEF RunnerRec
      <3>5. /\ runner[r].state = "running" => runner[r].thread = "running"
            /\ runner[r].state = "waiting" => runner[r].thread \in {"running", "blocked"}
            /\ runner[r].thread = "blocked" => runner[r].state = "waiting"
        BY <3>1, <3>4 DEF StackInv
      <3>6. Cardinality(FramesOf(r)) <= 1
        BY FramesFacts
      <3>7. runner[r].state = "running" <=> \E k \in FramesOf(r) : stack[k].kind = "run"
        BY <3>2, <3>3, <3>5
      <3>8. runner[r].state = "waiting" <=>
                \/ runner[r].thread = "blocked"
                \/ \E k \in FramesOf(r) : stack[k].kind = "continue"
        BY <3>2, <3>3, <3>5
      <3> QED BY <3>3, <3>6, <3>7, <3>8
    <2> QED BY <2>1, <2>2, <2>3 DEF RunnersSound
  <1> QED BY <1>1, AsyncInvHolds, PTL

(* Never two items between a guard and its exit (async.lua:86-119). *)
THEOREM OneInsideHolds == Spec => []OneInside
  <1>1. AsyncInv => OneInside
    <2> SUFFICES ASSUME AsyncInv PROVE Cardinality(inside) <= 1
      BY DEF OneInside
    <2>1. CASE inside = {}
      BY <2>1, FS_EmptySet
    <2>2. CASE inside # {}
      <3>1. PICK r \in inside : TRUE
        BY <2>2
      <3>2. inside = {r}
        BY <3>1 DEF AsyncInv, GuardInv
      <3>3. Cardinality({r}) = 1
        BY FS_Singleton
      <3> QED BY <3>2, <3>3
    <2> QED BY <2>1, <2>2
  <1> QED BY <1>1, AsyncInvHolds, PTL

(* Every item is handed to the function once and in the order it was given *)
(* (async.lua:149-217).                                                    *)
THEOREM InOrderOnceHolds == Spec => []InOrderOnce
  <1>1. AsyncInv => InOrderOnce
    <2> SUFFICES ASSUME AsyncInv, NEW r \in Runners
                 PROVE  input[r] = started[r] \o SubSeq(runner[r].queue, Begins(r) + 1, Len(runner[r].queue))
      BY DEF InOrderOnce
    <2> DEFINE a == Len(input[r])
               q == runner[r].queue
               b == Begins(r)
               n == Len(q)
               m == Len(started[r])
               rest == SubSeq(q, b + 1, n)
    <2>1. /\ input[r] \in Seq(1..MaxItems) /\ started[r] \in Seq(1..MaxItems) /\ q \in Seq(1..MaxItems)
          /\ a \in Nat /\ n \in Nat /\ m \in Nat
      BY Types
    <2>2. /\ \A k \in 1..a : input[r][k] = k
          /\ \A k \in 1..m : started[r][k] = k
          /\ n <= a /\ \A k \in 1..n : q[k] = a - n + k
      BY DEF AsyncInv, OrderInv
    <2>3. b \in 0..n /\ m = a - n + b
      <3>1. CASE \E k \in FramesOf(r) : stack[k].kind = "run"
        <4>1. PICK k \in FramesOf(r) : stack[k].kind = "run"
          BY <3>1
        <4>2. b = stack[k].i
          BY <4>1, FramesFacts
        <4>3. k \in 1..Len(stack) /\ stack[k].runner = r
          BY DEF FramesOf
        <4>4. stack[k] \in FrameRec
          BY <4>3, Types, ElementOfSeq
        <4>5. stack[k].i \in Nat /\ stack[k].n \in Nat
          BY <4>4, BoundsAssumption DEF FrameRec
        <4>6. 1 <= stack[k].i /\ stack[k].i <= stack[k].n /\ stack[k].n <= n /\ m = a - n + stack[k].i
          BY <4>1, <4>3 DEF AsyncInv, StackInv, OrderInv
        <4> HIDE DEF b, n, m, a
        <4> QED BY <2>1, <4>2, <4>5, <4>6
      <3>2. CASE \A k \in FramesOf(r) : stack[k].kind # "run"
        <4>1. b = 0
          BY <3>2, FramesFacts
        <4>2. runner[r].state # "running"
          <5> SUFFICES ASSUME runner[r].state = "running" PROVE FALSE
            OBVIOUS
          <5>1. runner[r].thread = "running"
            BY DEF AsyncInv, StackInv
          <5>2. PICK k \in 1..Len(stack) : stack[k].runner = r
            BY <5>1 DEF AsyncInv, StackInv
          <5>3. stack[k] \in FrameRec /\ k \in FramesOf(r)
            BY <5>2, Types, ElementOfSeq DEF FramesOf
          <5>4. stack[k].kind = "continue"
            BY <3>2, <5>3 DEF FrameRec
          <5> QED BY <5>2, <5>4 DEF AsyncInv, StackInv
        <4>3. m = a - n
          BY <4>2 DEF AsyncInv, OrderInv
        <4> HIDE DEF b, n, m, a
        <4> QED BY <2>1, <4>1, <4>3
      <3> QED BY <3>1, <3>2
    <2> HIDE DEF a, b, n, m, q
    <2>4. rest \in Seq(1..MaxItems) /\ Len(rest) = n - b /\ \A k \in 1..n - b : rest[k] = q[b + k]
      <3>1. b \in Nat /\ \A k \in b + 1..n : q[k] \in 1..MaxItems
        <4>1. \A k \in b + 1..n : k \in 1..n
          BY ONLY <2>1, <2>3
        <4>2. \A k \in 1..n : q[k] \in 1..MaxItems
          BY ONLY <2>1, ElementOfSeq DEF n
        <4>3. b \in Nat
          BY ONLY <2>1, <2>3
        <4> QED BY ONLY <4>1, <4>2, <4>3
      <3>2. /\ rest \in Seq(1..MaxItems)
            /\ Len(rest) = IF b + 1 <= n THEN n - (b + 1) + 1 ELSE 0
            /\ \A k \in 1..n - (b + 1) + 1 : rest[k] = q[b + 1 + k - 1]
        BY <2>1, <3>1, SubSeqProperties
      <3>3. n - (b + 1) + 1 = n - b /\ (~(b + 1 <= n) => n - b = 0)
        BY ONLY <2>1, <2>3
      <3>4. \A k \in 1..n - b : b + 1 + k - 1 = b + k
        BY ONLY <2>1, <2>3
      <3> QED BY ONLY <3>2, <3>3, <3>4
    <2> HIDE DEF rest
    <2>5. /\ started[r] \o rest \in Seq(1..MaxItems) /\ Len(started[r] \o rest) = m + (n - b)
          /\ \A k \in 1..m + (n - b) :
                (started[r] \o rest)[k] = IF k <= m THEN started[r][k] ELSE rest[k - m]
      <3>1. /\ started[r] \o rest \in Seq(1..MaxItems)
            /\ Len(started[r] \o rest) = Len(started[r]) + Len(rest)
            /\ \A k \in 1..Len(started[r]) + Len(rest) : (started[r] \o rest)[k] =
                  IF k <= Len(started[r]) THEN started[r][k] ELSE rest[k - Len(started[r])]
        BY ONLY <2>1, <2>4, ConcatProperties
      <3>2. Len(started[r]) = m /\ Len(rest) = n - b
        BY ONLY <2>4 DEF m
      <3> QED BY ONLY <3>1, <3>2
    <2>6. m + (n - b) = a
      BY ONLY <2>1, <2>3
    <2>7. ASSUME NEW k \in 1..a PROVE input[r][k] = (started[r] \o rest)[k]
      <3>1. CASE k <= m
        <4>1. k \in 1..m
          BY <2>1, <3>1
        <4> QED BY <2>2, <2>5, <2>6, <3>1, <4>1
      <3>2. CASE ~(k <= m)
        <4>1. k - m \in 1..n - b /\ b + (k - m) \in 1..n /\ a - n + (b + (k - m)) = k
          BY <2>1, <2>3, <2>6, <3>2
        <4>2. (started[r] \o rest)[k] = q[b + (k - m)]
          BY <2>4, <2>5, <2>6, <3>2, <4>1
        <4> QED BY <2>2, <4>1, <4>2
      <3> QED BY <3>1, <3>2
    <2>8. input[r] = started[r] \o rest
      BY <2>1, <2>5, <2>6, <2>7, SeqEqual DEF a
    <2> QED BY <2>8 DEF rest, q, b, n
  <1> QED BY <1>1, AsyncInvHolds, PTL
====
