------------------------------ MODULE Signals -------------------------------
(***************************************************************************)
(* util-src/signal.c: a C signal handler records the signal and plants a   *)
(* debug hook in the Lua state that registered the handlers; the hook, run *)
(* by the interpreter before its next instruction, calls the Lua handlers. *)
(* The handler may interrupt any step of the hook, and a handler for one   *)
(* signal may interrupt the handler for another, between any two of its    *)
(* reads and writes of nsig and signals, which are plain C variables: the  *)
(* compiler may keep nsig in a register or read it again.                  *)
(*                                                                         *)
(* Every delivery has a number, its place in arrived.                      *)
(***************************************************************************)
EXTENDS Naturals, Sequences

CONSTANTS Sigs,                  \* signals with a Lua handler
          MAX_PENDING_SIGNALS,
          SigNumber,             \* their numbers in C
          MaxArrivals,           \* bound on deliveries
          SigFeatures            \* "error", "clear", "nest": what may happen

ASSUME SignalsAssumption ==
    MAX_PENDING_SIGNALS \in Nat \ {0} /\ MaxArrivals \in Nat /\ SigNumber \in [Sigs -> Nat]

VARIABLES arrived,    \* the signal of each delivery
          nsig,
          signals,    \* signals[0..nsig-1] wait for the hook
          hook,       \* the hook of Lsig is sighook
          Hsig,       \* the saved hook was sighook
          handlers,   \* signals whose Lua handler is set
          frames,     \* running C handlers, the innermost last
          hookAt, idx,      \* where sighook is, and its loop counter
          thread,     \* what the process runs: Lsig, a coroutine, a C call
          handled,    \* how often the Lua handler of a delivery was called, up to 2
          lost      \* what happened that loses signals

sigVars == <<arrived, nsig, signals, hook, Hsig, handlers, frames, hookAt, idx, thread, handled, lost>>

Deliveries == 1..Len(arrived)
Top == frames[Len(frames)]
Pop == frames' = SubSeq(frames, 1, Len(frames) - 1)

(* The innermost handler goes on to step, with nsig read as n. *)
Goto(step, n) == frames' = [frames EXCEPT ![Len(frames)] = [@ EXCEPT !.at = step, !.n = n]]
-----------------------------------------------------------------------------
(* A signal interrupts whatever runs and enters handle; signal(2) keeps the *)
(* same signal blocked while its handler runs.                              *)
Deliver(sig) ==
    /\ Len(arrived) < MaxArrivals /\ sig \in handlers
    /\ \A k \in 1..Len(frames) : arrived[frames[k].id] # sig
    /\ frames = <<>> \/ "nest" \in SigFeatures
    /\ arrived' = Append(arrived, sig)
    /\ frames' = Append(frames, [id |-> Len(arrived) + 1, at |-> "test", n |-> 0])
    /\ lost' = IF frames # <<>> /\ Top.at \in {"store", "count"} THEN lost \cup {"nested"} ELSE lost
    /\ UNCHANGED <<nsig, signals, hook, Hsig, handlers, hookAt, idx, thread, handled>>

(* The kernel or another process, for instance prosodyctl with its own      *)
(* l_kill, sends the signal at any moment.                                  *)
l_kill(sig) == Deliver(sig)

(* Lua code sends it to its own process: it arrives before l_raise returns. *)
l_raise(sig) ==
    /\ frames = <<>> /\ hookAt \in {"off", "loop"} /\ thread # "C"
    /\ Deliver(sig)

(* if(nsig < MAX_PENDING_SIGNALS), with nsig read as n: the index of the    *)
(* entry is n as well, or nsig is read once more.                           *)
Compare(n) ==
    \/ n < MAX_PENDING_SIGNALS /\ (Goto("store", n) \/ Goto("index", n)) /\ UNCHANGED lost
    \/ n >= MAX_PENDING_SIGNALS /\ Pop /\ lost' = lost \cup {"overflow"}

(* if(nsig == 0); what it read may serve the next comparison too. *)
HandleTest ==
    /\ frames # <<>> /\ Top.at = "test"
    /\ \/ nsig = 0 /\ Goto("save", 0) /\ UNCHANGED lost
       \/ nsig # 0 /\ Goto("room", 0) /\ UNCHANGED lost
       \/ nsig # 0 /\ Compare(nsig)
    /\ UNCHANGED <<arrived, nsig, signals, hook, Hsig, handlers, hookAt, idx, thread, handled>>

Mut_HandleHook ==
    /\ frames # <<>> /\ Top.at = "save" /\ hook' = TRUE /\ Goto("gone", 0)
    /\ UNCHANGED <<arrived, nsig, signals, Hsig, handlers, hookAt, idx, thread, handled, lost>>
HandleHook ==
    /\ frames # <<>>
    /\ \/ Top.at = "save" /\ Hsig' = hook /\ Goto("set", 0) /\ UNCHANGED hook
       \/ Top.at = "set" /\ hook' = TRUE /\ Goto("room", 0) /\ UNCHANGED Hsig
    /\ UNCHANGED <<arrived, nsig, signals, handlers, hookAt, idx, thread, handled, lost>>

HandleRoom ==
    /\ frames # <<>>
    /\ \/ Top.at = "room" /\ Compare(nsig)
       \/ Top.at = "index" /\ Goto("store", nsig) /\ UNCHANGED lost
    /\ UNCHANGED <<arrived, nsig, signals, hook, Hsig, handlers, hookAt, idx, thread, handled>>

WriteCount == nsig' = Top.n + 1 /\ UNCHANGED signals

(* Behind the table there may be nsig itself, or memory of nobody here. *)
WriteEntry ==
    \/ /\ Top.n < MAX_PENDING_SIGNALS
       /\ signals' = [signals EXCEPT ![Top.n] = Top.id] /\ UNCHANGED nsig
    \/ /\ Top.n >= MAX_PENDING_SIGNALS
       /\ nsig' \in {nsig, SigNumber[arrived[Top.id]]} /\ UNCHANGED signals

(* signals[nsig++] = sig: two writes, in the order the compiler likes. *)
HandleCount ==
    /\ frames # <<>>
    /\ \/ /\ Top.at = "store"
          /\ (WriteEntry /\ Goto("count", Top.n)) \/ (WriteCount /\ Goto("entry", Top.n))
          /\ lost' = lost \cup (IF Top.n < MAX_PENDING_SIGNALS THEN {} ELSE {"overrun"})
                          \cup (IF hookAt = "reset" THEN {"window"} ELSE {})
       \/ Top.at = "count" /\ WriteCount /\ Pop /\ UNCHANGED lost
       \/ Top.at = "entry" /\ WriteEntry /\ Pop /\ UNCHANGED lost
    /\ UNCHANGED <<arrived, hook, Hsig, handlers, hookAt, idx, thread, handled>>
-----------------------------------------------------------------------------
NoSignal == frames = <<>>

(* The interpreter runs the hook of Lsig, which puts the saved hook back.   *)
Mut_HookStarts ==
    /\ NoSignal /\ thread = "lua" /\ hookAt = "off" /\ hook
    /\ hook' = TRUE /\ hookAt' = "loop" /\ idx' = 1
    /\ UNCHANGED <<arrived, nsig, signals, Hsig, handlers, frames, thread, handled, lost>>
HookStarts ==
    /\ NoSignal /\ thread = "lua" /\ hookAt = "off" /\ hook
    /\ hook' = Hsig /\ hookAt' = "loop" /\ idx' = 0
    /\ UNCHANGED <<arrived, nsig, signals, Hsig, handlers, frames, thread, handled, lost>>

Again(d) == [handled EXCEPT ![d] = IF @ = 2 THEN 2 ELSE @ + 1]

(* The delivery an entry stands for; an overrun makes the loop read entries *)
(* never written (0), old ones, or anything that lies behind the table.     *)
EntryAt(k) == IF k < MAX_PENDING_SIGNALS THEN {signals[k]} ELSE Deliveries \cup {0}
HasHandler(d) == d # 0 /\ arrived[d] \in handlers

(* One turn of the loop: the handler, looked up now, returns or raises an   *)
(* error that leaves the hook for good.                                     *)
HookCalls ==
    /\ NoSignal /\ hookAt = "loop" /\ idx < nsig
    /\ \E d \in EntryAt(idx) :
          \/ /\ HasHandler(d)
             /\ handled' = Again(d) /\ idx' = idx + 1
             /\ UNCHANGED <<hookAt, lost>>
          \/ /\ HasHandler(d) => "error" \in SigFeatures
             /\ hookAt' = "off" /\ idx' = 0 /\ lost' = lost \cup {"error"}
             /\ handled' = IF HasHandler(d) THEN Again(d) ELSE handled
    /\ UNCHANGED <<arrived, nsig, signals, hook, Hsig, handlers, frames, thread>>

HookEnds ==
    /\ NoSignal
    /\ \/ hookAt = "loop" /\ idx >= nsig /\ hookAt' = "reset" /\ UNCHANGED <<nsig, idx>>
       \/ hookAt = "reset" /\ nsig' = 0 /\ hookAt' = "off" /\ idx' = 0
    /\ UNCHANGED <<arrived, signals, hook, Hsig, handlers, frames, thread, handled, lost>>

(* The process turns to another coroutine, to a C call such as the wait of  *)
(* the event loop, or back to the Lua code of Lsig; the interpreter looks   *)
(* at the hook before it executes the call.                                 *)
Turn ==
    /\ NoSignal /\ hookAt = "off"
    /\ thread = "lua" => ~hook
    /\ thread' \in IF thread = "lua" THEN {"coroutine", "C"} ELSE {"lua"}
    /\ UNCHANGED <<arrived, nsig, signals, hook, Hsig, handlers, frames, hookAt, idx, handled, lost>>

(* l_signal from Lua code, a Lua handler included: set or clear a handler.  *)
l_signal(sig) ==
    /\ NoSignal
    /\ hookAt = "loop" \/ (hookAt = "off" /\ thread = "lua" /\ ~hook)
    /\ \/ sig \notin handlers /\ handlers' = handlers \cup {sig}
       \/ sig \in handlers /\ "clear" \in SigFeatures /\ handlers' = handlers \ {sig}
    /\ UNCHANGED <<arrived, nsig, signals, hook, Hsig, frames, hookAt, idx, thread, handled, lost>>
-----------------------------------------------------------------------------
SigInit ==
    /\ arrived = <<>> /\ nsig = 0 /\ signals = [k \in 0..MAX_PENDING_SIGNALS - 1 |-> 0]
    /\ hook = FALSE /\ Hsig = FALSE /\ handlers = {} /\ frames = <<>>
    /\ hookAt = "off" /\ idx = 0 /\ thread = "lua" /\ handled = [d \in 1..MaxArrivals |-> 0] /\ lost = {}

SigNext ==
    \/ \E sig \in Sigs : l_kill(sig) \/ l_raise(sig) \/ l_signal(sig)
    \/ HandleTest \/ HandleHook \/ HandleRoom \/ HandleCount
    \/ HookStarts \/ HookCalls \/ HookEnds \/ Turn

SigSpec == SigInit /\ [][SigNext]_sigVars

(* C code and hooks run to their end, and the loop's wait returns.          *)
SigFairness ==
    /\ WF_sigVars(HandleTest \/ HandleHook \/ HandleRoom \/ HandleCount)
    /\ WF_sigVars(HookStarts \/ HookCalls \/ HookEnds)
    /\ WF_sigVars(Turn /\ thread # "lua")
-----------------------------------------------------------------------------
Recorded(d) == \E k \in 0..nsig - 1 : signals[k] = d /\ (hookAt # "off" => k >= idx)
Running(d) == \E k \in 1..Len(frames) : frames[k].id = d
Called(d) == handled[d] > 0

(* The table is never fuller than its size, unless it was overrun: with one *)
(* entry left, a handler that passed the comparison was interrupted by      *)
(* another that took the entry, and read nsig again (signal.c:201-202).     *)
SigTypeOK ==
    /\ arrived \in Seq(Sigs) /\ nsig \in Nat
    /\ "overrun" \notin lost => nsig <= MAX_PENDING_SIGNALS
    /\ signals \in [0..MAX_PENDING_SIGNALS - 1 -> 0..MaxArrivals]
    /\ hook \in BOOLEAN /\ Hsig \in BOOLEAN /\ handlers \subseteq Sigs
    /\ lost \subseteq {"error", "overflow", "overrun", "nested", "window"}

(* A delivered signal is being recorded, waits for the hook, or has had its *)
(* handler called, unless one of five things happened: it came between the  *)
(* hook's last look at nsig and the reset; it interrupted another handler   *)
(* that had read the index and not yet stored it back, which loses one of   *)
(* the two; the table was full; it was overrun; or a Lua handler raised an  *)
(* error (signal.c:178-184, 201-202).                                       *)
SignalKept ==
    lost = {} => \A d \in Deliveries : Running(d) \/ Recorded(d) \/ Called(d)

(* Waiting signals have a hook that will run: a recorded signal without one *)
(* is the end of signal handling, as no later signal plants the hook again. *)
SignalArmed ==
    lost \cap {"error", "overrun"} = {} /\ NoSignal /\ hookAt = "off" /\ nsig > 0 => hook

(* No delivery has its handler called twice, unless a Lua handler failed or *)
(* the table was overrun.                                                   *)
SignalOnce ==
    lost \cap {"error", "overrun"} = {} => \A d \in Deliveries : handled[d] <= 1

(* What every interruption of hook and handlers leaves behind               *)
(* (signal.c:162-204).                                                      *)
SignalsSound == SigTypeOK /\ SignalKept /\ SignalArmed /\ SignalOnce

(* Every delivered signal gets its handler called, with the same exceptions. *)
SignalHandled ==
    \A d \in 1..MaxArrivals : (d <= Len(arrived)) ~> (Called(d) \/ lost # {})
=============================================================================
