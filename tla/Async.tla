------------------------------- MODULE Async -------------------------------
(***************************************************************************)
(* util/async.lua: runners, waiters and guards.                            *)
(*                                                                         *)
(* A runner feeds queued items, one after another, to a coroutine.  The    *)
(* function that handles an item may call into any runner, block on a      *)
(* waiter or a guard, release others that are blocked, or raise an error.  *)
(* All of this is one operating system thread: a call runs to its end      *)
(* before the caller goes on, so the program's position is a call stack of *)
(*   "run"       a runner's main loop that resumed its coroutine, and      *)
(*   "continue"  a runner_continue that did.                               *)
(* The coroutine of the topmost frame is the code that executes; with an   *)
(* empty stack it is the event loop.  The watchers of mod_c2s and mod_s2s  *)
(* are assumed: they pause and resume a connection and log errors, and do  *)
(* not call back into the runner.                                          *)
(***************************************************************************)
EXTENDS Integers, Sequences, FiniteSets

CONSTANTS
    Runners,    \* the runners
    Features,   \* "error", "wait", "guard": what items do besides returning;
                \* "enqueue": items are also queued without run()
    MaxItems,   \* bound: items queued in a behaviour
    MaxDone     \* bound: calls of done() that a waiter may need

ASSUME FeaturesAssumption == Features \subseteq {"error", "wait", "guard", "enqueue"}
ASSUME BoundsAssumption == MaxItems \in Nat /\ MaxDone \in Nat \ {0}
ASSUME NameAssumption == "off duty" \notin Runners   \* no runner is NoGuard's mark

VARIABLES
    runner,     \* runner objects
    stack,      \* frames of the call stack, innermost last
    waiter,     \* the waiter that each runner's item made last
    guards,     \* guards[id] of one guarder for one id: NoGuard, or the queue
    inside,     \* history: runners whose item passed the guard
    input,      \* history: items given to each runner, in order
    started,    \* history: items each runner's function was called with
    aside       \* history: ready runners to whom enqueue() gave an item

vars == <<runner, stack, waiter, guards, inside, input, started, aside>>

NoGuard == <<"off duty">>

(* A runner as runner() makes it.  Its thread is "none" before it has a    *)
(* coroutine and after an error, "idle" between items, "running" while it  *)
(* is on the stack and "blocked" after it yielded "wait".                  *)
NewRunner ==
    [state |-> "ready", notified_state |-> "ready", thread |-> "none",
     queue |-> << >>]

NoWaiter == [num |-> 0, waiting |-> FALSE]

Init ==
    /\ runner = [r \in Runners |-> NewRunner]
    /\ stack = << >>
    /\ waiter = [r \in Runners |-> NoWaiter]
    /\ guards = NoGuard
    /\ inside = {}
    /\ input = [r \in Runners |-> << >>]
    /\ started = [r \in Runners |-> << >>]
    /\ aside = {}

Count == [r \in Runners |-> Len(input[r])]

Top == stack[Len(stack)]
Popped == SubSeq(stack, 1, Len(stack) - 1)
Frame(kind, r, n, i) == [kind |-> kind, runner |-> r, n |-> n, i |-> i]

(* The item of runner r executes right now. *)
Executes(r) == stack # << >> /\ Top.runner = r

----------------------------------------------------------------------------
(***************************************************************************)
(* The main loop of run().                                                 *)
(***************************************************************************)

(* Mutant: the queue is not measured again before consumed items go. *)
Mut_Compacted(q, n, consumed) ==
    LET at(k) == IF k <= n /\ consumed + k <= Len(q) THEN q[consumed + k] ELSE q[k]
        left == IF Len(q) > n THEN Len(q) ELSE n - consumed
    IN  [k \in 1..left |-> at(k)]

(* What is left of the queue when the loop over its first n items stopped  *)
(* after consumed of them; items may have been appended meanwhile.         *)
Compacted(q, n, consumed) ==
    LET measured == IF Len(q) > n THEN Len(q) ELSE n
    IN  [k \in 1..(measured - consumed) |-> q[consumed + k]]

(* A ready runner R when run() was called: it processes the queue, or, if  *)
(* that is empty, only reports a state it has not reported yet.            *)
Begun(R) ==
    IF R.queue = << >>
    THEN [R EXCEPT !.state = "ready", !.notified_state = "ready",
                   !.thread = IF @ = "none" THEN "idle" ELSE @]
    ELSE [R EXCEPT !.state = "running", !.thread = "running"]

(* run() of ready runner r, whose object is R, called with the stack under. *)
Run(r, R, under) ==
    /\ runner' = [runner EXCEPT ![r] = Begun(R)]
    /\ stack' = IF R.queue = << >> THEN under
                ELSE Append(under, Frame("run", r, Len(R.queue), 1))
    /\ started' = IF R.queue = << >> THEN started
                  ELSE [started EXCEPT ![r] = Append(@, R.queue[1])]

(* Somebody calls r:run(item). *)
Call(r) ==
    LET item == Count[r] + 1
        R == [runner[r] EXCEPT !.queue = Append(@, item)]
    IN  /\ Count[r] < MaxItems
        /\ input' = [input EXCEPT ![r] = Append(@, item)]
        /\ IF R.state # "ready"
           THEN /\ runner' = [runner EXCEPT ![r] = R]
                /\ UNCHANGED <<stack, started>>
           ELSE Run(r, R, stack)
        /\ aside' = aside \ {r}
        /\ UNCHANGED <<waiter, guards, inside>>

(* Somebody calls r:enqueue(item): if r is idle it stays so. *)
Enqueue(r) ==
    LET item == Count[r] + 1
    IN  /\ "enqueue" \in Features
        /\ Count[r] < MaxItems
        /\ input' = [input EXCEPT ![r] = Append(@, item)]
        /\ runner' = [runner EXCEPT ![r].queue = Append(@, item)]
        /\ aside' = IF runner[r].state = "ready" THEN aside \cup {r} ELSE aside
        /\ UNCHANGED <<stack, waiter, guards, inside, started>>

----------------------------------------------------------------------------
(***************************************************************************)
(* How the execution of an item ends, for now or for good.                 *)
(***************************************************************************)

(* The item's function returned to the main loop: next item, or next round. *)
ReturnToLoop(r) ==
    LET n == Top.n
        i == Top.i
        R == runner[r]
    IN  /\ Top.kind = "run"
        /\ IF i < n
           THEN /\ stack' = Append(Popped, Frame("run", r, n, i + 1))
                /\ started' = [started EXCEPT ![r] = Append(@, R.queue[i + 1])]
                /\ UNCHANGED runner
           ELSE Run(r, [R EXCEPT !.queue = Compacted(R.queue, n, n),
                                 !.thread = "idle"], Popped)

(* Mutant: a released runner does not look at what was queued meanwhile. *)
Mut_ReturnToContinue(r) ==
    /\ Top.kind = "continue"
    /\ runner' = [runner EXCEPT ![r].state = "ready", ![r].thread = "idle",
                                ![r].notified_state = "ready"]
    /\ stack' = Popped
    /\ UNCHANGED started

(* The function returned after it had been released: the coroutine yields  *)
(* "ready" to runner_continue, which runs what was queued meanwhile.       *)
ReturnToContinue(r) ==
    /\ Top.kind = "continue"
    /\ Run(r, [runner[r] EXCEPT !.state = "ready", !.thread = "idle"], Popped)

(* An item may return without having called exit: the guard stays taken. *)
Return(r) ==
    /\ Executes(r)
    /\ ReturnToLoop(r) \/ ReturnToContinue(r)
    /\ inside' = inside \ {r}
    /\ waiter' = [waiter EXCEPT ![r] = NoWaiter]
    /\ UNCHANGED <<guards, input, aside>>

(* An error in the main loop.  The error watcher is called in place of the *)
(* watcher of the new state, and notified_state stays as it was.           *)
FailInLoop(r) ==
    LET left == Compacted(runner[r].queue, Top.n, Top.i)
        R == [runner[r] EXCEPT !.queue = left, !.state = "ready",
                               !.thread = "none"]
    IN  /\ Top.kind = "run"
        /\ IF left = << >>
           THEN /\ runner' = [runner EXCEPT ![r] = R]
                /\ stack' = Popped
                /\ UNCHANGED started
           ELSE Run(r, R, Popped)

(* An error in a coroutine that runner_continue resumed. *)
FailInContinue(r) ==
    /\ Top.kind = "continue"
    /\ Run(r, [runner[r] EXCEPT !.state = "ready", !.thread = "none"], Popped)

(* The function raises an error.  A guard it is inside of is not left. *)
Fail(r) ==
    /\ Executes(r)
    /\ "error" \in Features
    /\ FailInLoop(r) \/ FailInContinue(r)
    /\ inside' = inside \ {r}
    /\ waiter' = [waiter EXCEPT ![r] = NoWaiter]
    /\ UNCHANGED <<guards, input, aside>>

(* The runner R after its coroutine yielded "wait": the main loop stops    *)
(* and calls the waiting watcher; runner_continue just returns.            *)
Blocked(R) ==
    IF Top.kind = "run"
    THEN [R EXCEPT !.queue = Compacted(@, Top.n, Top.i),
                   !.state = "waiting", !.notified_state = "waiting",
                   !.thread = "blocked"]
    ELSE [R EXCEPT !.thread = "blocked"]

Yield(r) ==
    /\ runner' = [runner EXCEPT ![r] = Blocked(runner[r])]
    /\ stack' = Popped

(* runner_continue(thread) of a blocked coroutine. *)
Continue(r) ==
    /\ runner' = [runner EXCEPT ![r].thread = "running"]
    /\ stack' = Append(stack, Frame("continue", r, 0, 0))

----------------------------------------------------------------------------
(***************************************************************************)
(* waiter(num) returns wait and done.  An item has one waiter at a time    *)
(* and waits only on its own; done() may be called by anybody, before or   *)
(* after wait(), and is of no effect once the item has ended.              *)
(***************************************************************************)
MakeWaiter(r) ==
    /\ Executes(r)
    /\ "wait" \in Features
    /\ waiter[r].num = 0
    /\ \E num \in 1..MaxDone :
          waiter' = [waiter EXCEPT ![r] = [num |-> num, waiting |-> FALSE]]
    /\ UNCHANGED <<runner, stack, guards, inside, input, started, aside>>

(* wait() blocks, unless every done() was called already. *)
Wait(r) ==
    /\ Executes(r)
    /\ waiter[r].num > 0
    /\ ~waiter[r].waiting
    /\ waiter' = [waiter EXCEPT ![r].waiting = TRUE]
    /\ Yield(r)
    /\ UNCHANGED <<guards, inside, input, started, aside>>

(* Mutant: the last done() does not check that somebody waits. *)
Mut_Releases(r) == waiter[r].num = 1

(* This done() releases the coroutine. *)
Releases(r) == waiter[r].num = 1 /\ waiter[r].waiting

(* Anybody calls done() of r's waiter; one call too many is an error. *)
Done(r) ==
    /\ waiter[r].num > 0
    /\ waiter' = [waiter EXCEPT ![r].num = @ - 1]
    /\ IF Releases(r) THEN Continue(r) ELSE UNCHANGED <<runner, stack>>
    /\ UNCHANGED <<guards, inside, input, started, aside>>

----------------------------------------------------------------------------
(***************************************************************************)
(* guarder(): the first to come passes, the others queue up, the holder    *)
(* included when it comes again.  exit() is called by the item that passed *)
(* the guard, once, or not at all: the code has no user of guarder() yet.  *)
(***************************************************************************)
EnterGuard(r) ==
    /\ Executes(r)
    /\ "guard" \in Features
    /\ IF guards = NoGuard
       THEN /\ guards' = << >>
            /\ inside' = inside \cup {r}
            /\ UNCHANGED <<runner, stack>>
       ELSE /\ guards' = Append(guards, r)
            /\ Yield(r)
            /\ UNCHANGED inside
    /\ UNCHANGED <<waiter, input, started, aside>>

(* Mutant: the guard goes off duty although it lets the next one in. *)
Mut_ExitGuard(r) ==
    /\ Executes(r)
    /\ r \in inside
    /\ IF guards = << >>
       THEN inside' = inside \ {r} /\ UNCHANGED <<runner, stack>>
       ELSE inside' = (inside \ {r}) \cup {Head(guards)} /\ Continue(Head(guards))
    /\ guards' = NoGuard
    /\ UNCHANGED <<waiter, input, started, aside>>

(* exit(): the next in the queue runs before exit() returns. *)
ExitGuard(r) ==
    /\ Executes(r)
    /\ r \in inside
    /\ IF guards = << >>
       THEN /\ guards' = NoGuard
            /\ inside' = inside \ {r}
            /\ UNCHANGED <<runner, stack>>
       ELSE /\ guards' = Tail(guards)
            /\ inside' = (inside \ {r}) \cup {Head(guards)}
            /\ Continue(Head(guards))
    /\ UNCHANGED <<waiter, input, started, aside>>

Ends(r) == Return(r) \/ Fail(r)

Next ==
    \E r \in Runners :
        \/ Call(r)
        \/ Enqueue(r)
        \/ Return(r)
        \/ Fail(r)
        \/ MakeWaiter(r)
        \/ Wait(r)
        \/ Done(r)
        \/ EnterGuard(r)
        \/ ExitGuard(r)

Spec == Init /\ [][Next]_vars

(* An item that runs, or is released again and again, ends some time, what *)
(* a waiter waits for happens, and an item inside the guard leaves it or   *)
(* ends, by an error or by returning without exit().                       *)
FairSpec ==
    /\ Spec
    /\ \A r \in Runners :
          SF_vars(Ends(r)) /\ SF_vars(ExitGuard(r)) /\ WF_vars(Done(r))

----------------------------------------------------------------------------
States == {"ready", "running", "waiting"}

TypeOK ==
    /\ runner \in [Runners ->
                     [state : States, notified_state : {"ready", "waiting"},
                      thread : {"none", "idle", "running", "blocked"},
                      queue : Seq(1..MaxItems)]]
    /\ stack \in Seq([kind : {"run", "continue"}, runner : Runners,
                      n : 0..MaxItems, i : 0..MaxItems])
    /\ waiter \in [Runners -> [num : 0..MaxDone, waiting : BOOLEAN]]
    /\ guards = NoGuard \/ guards \in Seq(Runners)
    /\ inside \subseteq Runners
    /\ aside \subseteq Runners

(* The position of runner r on the stack, if it is there. *)
FramesOf(r) == {k \in 1..Len(stack) : stack[k].runner = r}

(* Items of the queue that the loop on the stack has begun already. *)
Begins(r) ==
    LET loops == {k \in FramesOf(r) : stack[k].kind = "run"}
    IN  IF loops = {} THEN 0 ELSE stack[CHOOSE k \in loops : TRUE].i

(* Each item is handed to the function once and in the order it was        *)
(* queued, although items are appended to the queue while the loop shifts  *)
(* it, and although errors and waits leave the loop in the middle.         *)
InOrderOnce ==
    \A r \in Runners :
        input[r] = started[r] \o SubSeq(runner[r].queue, Begins(r) + 1,
                                        Len(runner[r].queue))

(* runner.state tells the truth: "running" while its loop is on the stack, *)
(* "waiting" while its item is blocked or resumed by runner_continue, and  *)
(* a coroutine is never on the stack twice.                                *)
StateIsTrue ==
    \A r \in Runners :
        LET R == runner[r]
        IN  /\ Cardinality(FramesOf(r)) <= 1
            /\ R.state = "running" <=> \E k \in FramesOf(r) : stack[k].kind = "run"
            /\ R.state = "waiting" <=>
                  \/ R.thread = "blocked"
                  \/ \E k \in FramesOf(r) : stack[k].kind = "continue"
            /\ R.thread = "running" <=> FramesOf(r) # {}

(* When control is back in the event loop no runner that is ready has work *)
(* left, since nothing else would start it: only what enqueue() gave to an *)
(* idle runner waits for the next run().                                   *)
NoIdleWork ==
    stack = << >> =>
        \A r \in Runners \ aside :
            runner[r].state = "ready" => runner[r].queue = << >>

(* At most one item is between a guard and its exit. *)
OneInside == Cardinality(inside) <= 1

(* Who is blocked can be released: a waiter still needs done(), or the     *)
(* coroutine stands in the guard's queue, once.                            *)
BlockedIsRegistered ==
    \A r \in Runners : runner[r].thread = "blocked" =>
        \/ waiter[r].num > 0 /\ waiter[r].waiting
        \/ guards # NoGuard /\ \E k \in 1..Len(guards) : guards[k] = r

(* What every step of every runner keeps: the states are true, nobody is   *)
(* blocked for nothing and no ready runner is left with work               *)
(* (async.lua:39-65, 68-117, 160-217).                                     *)
RunnersSound == TypeOK /\ StateIsTrue /\ BlockedIsRegistered /\ NoIdleWork

(* Back in the event loop, a runner that is ready has told so whoever      *)
(* watches it: mod_c2s and mod_s2s pause the connection of a waiting       *)
(* runner, and only the ready watcher resumes it.                          *)
ReadyIsNotified ==
    stack = << >> =>
        \A r \in Runners :
            runner[r].state = "ready" => runner[r].notified_state = "ready"

(* Nobody will ever leave the guard: the item that passed it ended without *)
(* exit(), by an error or by returning, or entered it again and now waits  *)
(* for itself.                                                             *)
Abandoned ==
    /\ guards # NoGuard
    /\ \A r \in inside : \E k \in 1..Len(guards) : guards[k] = r

(* Every item that run() was called for, or that was queued for a busy     *)
(* runner, is handed to its runner's function at last, if items end and    *)
(* what they wait for happens.  With one guard, what stops a runner for    *)
(* good is a guard nobody leaves: its holder failed, or returned without   *)
(* exit(), or entered it a second time (async.lua:91-117).                 *)
EverythingStarts ==
    \A r \in Runners :
        []<>(Len(started[r]) = Len(input[r]) \/ r \in aside \/ Abandoned)

=============================================================================
