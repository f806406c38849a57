----------------------------- MODULE EventLoop ------------------------------
(***************************************************************************)
(* net/server_epoll.lua over util-src/poll.c: one thread that runs timers, *)
(* waits for one event, and calls the handlers of the connection it finds  *)
(* under the descriptor.  Handlers call listeners, and listeners may write *)
(* to, pause, close or open any connection, all within the same event.     *)
(*                                                                         *)
(* pc is the rest of the current event: what the code still has to do when *)
(* the listener it is in (tag "listener") returns.                         *)
(***************************************************************************)
EXTENDS Poll

CONSTANTS Conns,        \* interface objects of clients
          Server,       \* the interface object of the listening socket
          None,
          LoopFeatures, \* which of the optional inputs happen
          LoopBackends  \* which builds of util.poll are looked at

ASSUME LoopAssumption ==
    /\ Server \notin Conns /\ None \notin Conns \cup {Server}
    /\ LoopBackends \subseteq Backends /\ Fds # {}

VARIABLES poll,         \* the util.poll object
          conn,         \* fields of the interface objects
          fds,          \* descriptor -> interface object
          sock,         \* the sockets, as the kernel has them
          pc,           \* [self, todo] of the event being handled
          quitting,
          stale,        \* descriptors closed since the batch was fetched
          interrupted   \* the last call of select was interrupted

loopVars == <<poll, conn, fds, sock, pc, quitting, stale, interrupted>>

Objects == Conns \cup {Server}

(* An interface object that is not, or no longer, open: only the timer that *)
(* ends a pause may outlive it.                                             *)
Closed(timer) ==
    [live |-> FALSE, fd |-> -1, wantread |-> FALSE, wantwrite |-> FALSE, told |-> FALSE,
     buf |-> FALSE, dirty |-> FALSE, closing |-> FALSE, wtimer |-> FALSE, ptimer |-> timer, misled |-> FALSE]

NoSock == [st |-> "none", in |-> FALSE]

(* The state the handlers work on. *)
S0 == [poll |-> poll, conn |-> conn, fds |-> fds, sock |-> sock, stale |-> stale]

Become(s) ==
    /\ poll' = s.poll /\ conn' = s.conn /\ fds' = s.fds /\ sock' = s.sock /\ stale' = s.stale
-----------------------------------------------------------------------------
(* interface:set; a nil argument keeps the field.                           *)
IfSet(s, c, r, w) ==
    IF ~s.conn[c].live THEN s
    ELSE LET p == Lset(s.poll, s.conn[c].fd, r, w)
         IN  IF s.poll.backend = "epoll" /\ ~Exists(s.poll, s.conn[c].fd) THEN s
             ELSE [s EXCEPT !.poll = p, !.conn[c].wantread = r, !.conn[c].wantwrite = w]

SetRead(s, c, r) == IfSet(s, c, r, s.conn[c].wantwrite)
SetWrite(s, c, w) == IfSet(s, c, s.conn[c].wantread, w)

(* interface:add; on EEXIST only the flags change, fds keeps its entry. *)
IfAdd(s, c, r, w) ==
    LET fd == s.conn[c].fd
    IN  IF Exists(s.poll, fd) THEN IfSet(s, c, r, w)
        ELSE [s EXCEPT !.poll = Ladd(@, fd, r, w), !.fds[fd] = c,
                       !.conn[c].wantread = r, !.conn[c].wantwrite = w]

Mut_IfDel(s, c) ==
    LET fd == s.conn[c].fd
    IN  IF ~s.conn[c].live \/ s.fds[fd] # c THEN s
        ELSE [s EXCEPT !.poll = Ldel(@, fd)]
IfDel(s, c) ==
    LET fd == s.conn[c].fd
    IN  IF ~s.conn[c].live \/ s.fds[fd] # c THEN s
        ELSE [s EXCEPT !.poll = Ldel(@, fd), !.fds[fd] = None,
                       !.conn[c].wantread = FALSE, !.conn[c].wantwrite = FALSE]

(* interface:destroy: unregister, stop the timers, close the socket.  The   *)
(* number is free at once, and epoll forgets a socket that is closed.       *)
IfDestroy(s, c) ==
    IF ~s.conn[c].live THEN s
    ELSE LET fd == s.conn[c].fd
             t == IfDel(s, c)
         IN  [t EXCEPT !.conn[c] = Closed(@.ptimer), !.sock[c] = NoSock,
                       !.stale = @ \cup {fd},
                       !.poll.all = IF t.poll.backend = "epoll" THEN @ \ {fd} ELSE @]

(* The first half of close when nothing is left to write. *)
CloseNow(s, c) == s.conn[c].live /\ ~s.conn[c].buf

(* interface:close: now, or when the buffer has drained. *)
IfClose(s, c) ==
    IF CloseNow(s, c) THEN IfDestroy(s, c)
    ELSE LET t == IfSet(s, c, FALSE, TRUE)
         IN  IF s.conn[c].live THEN [t EXCEPT !.conn[c].closing = TRUE] ELSE s

(* closeall: interface:close of every object in fds, in any order.          *)
CloseAll(s) ==
    LET known == {c \in Objects : s.conn[c].live /\ s.fds[s.conn[c].fd] = c}
        now == {c \in known : CloseNow(s, c)}
        Numbers(C) == {s.conn[c].fd : c \in C}
    IN  [poll |-> [Forget(s.poll, Numbers(now)) EXCEPT !.wantread = @ \ Numbers(known),
                                                       !.wantwrite = @ \cup Numbers(known \ now)],
         conn |-> [c \in Objects |->
                     IF c \in now THEN Closed(s.conn[c].ptimer)
                     ELSE IF c \in known THEN [s.conn[c] EXCEPT !.wantread = FALSE, !.wantwrite = TRUE,
                                                               !.closing = TRUE]
                     ELSE s.conn[c]],
         fds |-> [fd \in Fds |-> IF fd \in Numbers(now) THEN None ELSE s.fds[fd]],
         sock |-> [c \in Objects |-> IF c \in now THEN NoSock ELSE s.sock[c]],
         stale |-> s.stale \cup Numbers(now)]

(* interface:write, a noop once the connection is closing. *)
Mut_IfWrite(s, c) ==
    IF ~s.conn[c].live \/ s.conn[c].closing THEN s
    ELSE SetWrite([s EXCEPT !.conn[c].buf = TRUE], c, TRUE)
IfWrite(s, c) ==
    IF ~s.conn[c].live \/ s.conn[c].closing THEN s
    ELSE SetWrite([s EXCEPT !.conn[c].buf = TRUE, !.conn[c].wtimer = TRUE], c, TRUE)

(* interface:pausefor *)
IfPauseFor(s, c) == SetRead([s EXCEPT !.conn[c].ptimer = TRUE], c, FALSE)

(* A new socket gets the lowest free number; wrapsocket and interface:init. *)
FreeFds(s) == Fds \ {s.conn[d].fd : d \in Objects}
FreeObjects(s) == {c \in Conns : ~s.conn[c].live /\ ~s.conn[c].ptimer /\ c # pc.self}

OpenConn(s, c, st) ==
    IfAdd([s EXCEPT !.conn[c] = [Closed(FALSE) EXCEPT !.live = TRUE, !.fd = Min(FreeFds(s)),
                                                      !.wtimer = TRUE],
                    !.sock[c] = [st |-> st, in |-> FALSE]],
          c, TRUE, TRUE)
-----------------------------------------------------------------------------
Idle == pc.todo = <<>>

(* next(fds) == nil *)
Ended == quitting /\ \A fd \in Fds : fds[fd] = None

At(tag) == ~Idle /\ Head(pc.todo) = tag

(* Replace the step just done by the steps in tags. *)
Then(tags) == pc' = [pc EXCEPT !.todo = tags \o Tail(@)]

Start(c, tags) == pc' = [self |-> c, todo |-> tags]

Skip == UNCHANGED <<quitting, interrupted>>

(* onreadable of a client: conn:receive gives data, from the socket or from *)
(* what the socket library has buffered, nothing yet, or an error.          *)
OnReadable ==
    LET c == pc.self IN
    /\ At("read") /\ c # Server /\ Skip
    /\ \/ /\ ~conn[c].live
          /\ Then(<<>>) /\ Become(S0)
       \/ /\ conn[c].live /\ (sock[c].in \/ conn[c].dirty)
          /\ \E more \in IF "dirty" \in LoopFeatures THEN BOOLEAN ELSE {FALSE} :
                Become([S0 EXCEPT !.conn[c].told = TRUE, !.conn[c].dirty = more,
                                  !.sock[c].in = FALSE])
          /\ Then(<<"listener", "tail">>)
       \/ /\ conn[c].live /\ ~sock[c].in /\ ~conn[c].dirty /\ sock[c].st # "bad"
          /\ Then(<<"tail">>) /\ Become(S0)
       \/ /\ conn[c].live /\ ~sock[c].in /\ ~conn[c].dirty /\ sock[c].st = "bad"
          /\ Then(<<"listener", "destroy">>) /\ Become(S0)

(* The end of onreadable: data the kernel no longer has is read by a timer. *)
Mut_OnReadableTail ==
    At("tail") /\ Then(<<>>) /\ Skip /\ Become(S0)
OnReadableTail ==
    LET c == pc.self IN
    /\ At("tail") /\ Then(<<>>) /\ Skip
    /\ Become(IF conn[c].live /\ conn[c].dirty THEN IfPauseFor(S0, c) ELSE S0)

(* onacceptable: without a connection to accept, or a descriptor for it,    *)
(* the server stops listening for a while.                                  *)
OnAcceptable ==
    /\ At("read") /\ pc.self = Server /\ Then(<<>>) /\ Skip
    /\ LET s == [S0 EXCEPT !.sock[Server].in = FALSE] IN
       \/ ~conn[Server].live /\ Become(S0)
       \/ /\ conn[Server].live /\ sock[Server].in /\ FreeFds(S0) # {}
          /\ \E c \in FreeObjects(S0) : Become(OpenConn(s, c, "up"))
       \/ /\ conn[Server].live /\ (~sock[Server].in \/ FreeFds(S0) = {})
          /\ Become(IfPauseFor(S0, Server))

OnWritable ==
    LET c == pc.self IN
    /\ At("write") /\ Skip
    /\ \/ ~conn[c].live /\ Then(<<>>) /\ Become(S0)
       \/ conn[c].live /\ conn[c].told /\ Then(<<"send">>) /\ Become(S0)
       \/ /\ conn[c].live /\ ~conn[c].told
          /\ Then(<<"listener", "send">>) /\ Become([S0 EXCEPT !.conn[c].told = TRUE])

(* The rest of onwritable.  Sending an empty buffer succeeds without asking *)
(* the kernel; ondrain may be the rest of a close.                          *)
OnSend ==
    LET c == pc.self
        sent == SetWrite([S0 EXCEPT !.conn[c].buf = FALSE, !.conn[c].wtimer = FALSE], c, FALSE)
    IN
    /\ At("send") /\ Skip
    /\ \/ ~conn[c].live /\ Then(<<>>) /\ Become(S0)
       \/ /\ conn[c].live /\ (sock[c].st = "up" \/ ~conn[c].buf)
          /\ Become(sent)
          /\ Then(IF conn[c].closing THEN <<"listener", "destroy">> ELSE <<>>)
       \/ /\ conn[c].live /\ conn[c].buf /\ sock[c].st \in {"up", "full", "connecting"}
          /\ Become(SetWrite([S0 EXCEPT !.conn[c].wtimer = TRUE], c, TRUE)) /\ Then(<<>>)
       \/ /\ conn[c].live /\ conn[c].buf /\ sock[c].st = "bad"
          /\ Become(S0) /\ Then(<<"listener", "destroy">>)

Destroy == At("destroy") /\ Become(IfDestroy(S0, pc.self)) /\ Then(<<>>) /\ Skip

Resume == At("resume") /\ Become(SetRead(S0, pc.self, TRUE)) /\ Then(<<>>) /\ Skip

Handler ==
    OnReadable \/ OnReadableTail \/ OnAcceptable \/ OnWritable \/ OnSend \/ Destroy \/ Resume
-----------------------------------------------------------------------------
(* What a listener, a timer of a module or a signal handler does. *)
ListenerCalls ==
    /\ At("listener") /\ UNCHANGED <<pc, quitting, interrupted>>
    /\ \E c \in Conns :
        \/ conn[c].live /\ ~conn[c].closing /\ Become(IfWrite(S0, c))
        \/ conn[c].live /\ Become(IfClose(S0, c))
        \/ /\ "pause" \in LoopFeatures /\ conn[c].live
           /\ \E r \in BOOLEAN : Become(SetRead(S0, c, r))
        \/ /\ c \in FreeObjects(S0) /\ FreeFds(S0) # {}
           /\ Become(OpenConn(S0, c, "connecting"))

(* setquitting(true); what the listeners do that closeall tells of the end  *)
(* of a connection is done before or after it, in the same event.           *)
SetQuitting ==
    /\ At("listener") /\ ~quitting
    /\ quitting' = TRUE
    /\ Become(CloseAll(S0))
    /\ UNCHANGED <<pc, interrupted>>

ListenerReturns == At("listener") /\ Then(<<>>) /\ Become(S0) /\ Skip
-----------------------------------------------------------------------------
Kernel ==
    LET Of(C) == {conn[c].fd : c \in {d \in C : conn[d].live}}
        bad == {c \in Objects : sock[c].st = "bad"}
    IN  [in  |-> Of(bad \cup {c \in Objects : sock[c].in}),
         out |-> Of(bad \cup {c \in Objects : sock[c].st = "up"}),
         hup |-> Of(bad)]

(* The body of the loop for the event wait returned, p the poll state then. *)
Dispatch(p, intr, old) ==
    LET e == Lpushevent(p)
        c == fds[e.fd]
        tags == (IF e.r THEN <<"read">> ELSE <<>>) \o (IF e.w THEN <<"write">> ELSE <<>>)
    IN  /\ UNCHANGED <<fds, sock, quitting>>
        /\ stale' = old /\ interrupted' = intr
        /\ IF c = None
           THEN poll' = Ldel(Pushed(p), e.fd) /\ UNCHANGED <<conn, pc>>
           ELSE /\ poll' = Pushed(p)
                /\ conn' = [conn EXCEPT ![c].misled = @ \/ intr \/ e.fd \in old]
                /\ Start(c, tags)

Looping == Idle /\ ~Ended

NextEvent == Looping /\ Pending(poll) /\ Dispatch(poll, interrupted, stale)

Wait ==
    /\ Looping /\ ~Pending(poll) /\ ReadyFds(poll, Kernel) # {}
    /\ \E p \in LwaitReady(poll, Kernel) : Dispatch(p, FALSE, {})

WaitTimeout ==
    /\ Looping /\ ~Pending(poll) /\ ReadyFds(poll, Kernel) = {}
    /\ poll' = LwaitTimeout(poll) /\ interrupted' = FALSE /\ stale' = {}
    /\ UNCHANGED <<conn, fds, sock, pc, quitting>>

WaitSignal ==
    /\ Looping /\ ~Pending(poll) /\ ReadyFds(poll, Kernel) = {}
    /\ "signal" \in LoopFeatures
    /\ poll' = LwaitSignal(poll) /\ interrupted' = (poll.backend = "select") /\ stale' = {}
    /\ UNCHANGED <<conn, fds, sock, pc, quitting>>

(* runtimers: the timers of the interface objects and those of modules. *)
WriteTimeout(c) ==
    /\ Looping /\ conn[c].wtimer
    /\ Become([S0 EXCEPT !.conn[c].wtimer = FALSE])
    /\ Start(c, <<"listener", "destroy">>) /\ Skip

PauseEnds(c) ==
    /\ Looping /\ conn[c].ptimer
    /\ Become([S0 EXCEPT !.conn[c].ptimer = FALSE])
    /\ Start(c, IF conn[c].live /\ conn[c].dirty THEN <<"read", "resume">> ELSE <<"resume">>)
    /\ Skip

ModuleTimer ==
    /\ Looping /\ "timer" \in LoopFeatures
    /\ Start(None, <<"listener">>) /\ Become(S0) /\ Skip
-----------------------------------------------------------------------------
(* The network: connections arrive, are established or refused, bring data, *)
(* end, and are "full" while the peer does not read.  Only wait, receive    *)
(* and send look at a socket, so what happens to it during any other step   *)
(* may as well happen just before one of those.                             *)
Network ==
    /\ Idle \/ At("read") \/ At("send")
    /\ \E c \in Objects :
        \/ sock[c].st = "connecting" /\ \E st \in {"up", "bad"} : sock' = [sock EXCEPT ![c].st = st]
        \/ /\ sock[c].st \in {"up", "full", "listen"} /\ ~sock[c].in
           /\ sock' = [sock EXCEPT ![c].in = TRUE]
        \/ /\ sock[c].st \in {"up", "full"}
           /\ \E st \in {"up", "bad"} \cup ({"full"} \cap LoopFeatures) : sock' = [sock EXCEPT ![c].st = st]
    /\ UNCHANGED <<poll, conn, fds, pc, quitting, stale, interrupted>>

LoopInit ==
    /\ pc = [self |-> None, todo |-> <<>>] /\ quitting = FALSE
    /\ stale = {} /\ interrupted = FALSE
    /\ \E b \in LoopBackends :
        LET s == [poll |-> Lnew(b), conn |-> [c \in Objects |-> Closed(FALSE)],
                  fds |-> [fd \in Fds |-> None], sock |-> [c \in Objects |-> NoSock], stale |-> {}]
            t == IfAdd([s EXCEPT !.conn[Server].live = TRUE, !.conn[Server].fd = Min(Fds),
                                 !.sock[Server].st = "listen"], Server, TRUE, FALSE)
        IN  poll = t.poll /\ conn = t.conn /\ fds = t.fds /\ sock = t.sock

LoopNext ==
    \/ Handler \/ ListenerCalls \/ SetQuitting \/ ListenerReturns
    \/ NextEvent \/ Wait \/ WaitTimeout \/ WaitSignal
    \/ \E c \in Objects : WriteTimeout(c) \/ PauseEnds(c)
    \/ ModuleTimer \/ Network

LoopSpec == LoopInit /\ [][LoopNext]_loopVars

(* A send that the kernel took a part of puts off the deadline of a write.  *)
PutOff(c) == OnSend /\ pc.self = c /\ sock[c].st = "up" /\ conn'[c].buf

(* What is left to write of a connection that takes no more writes is sent. *)
SendRest(c) == OnSend /\ pc.self = c /\ sock[c].st = "up" /\ conn[c].closing /\ ~conn'[c].buf

(* Handlers and listeners return and the loop goes on waiting.  Writing to  *)
(* a connection being closed is a noop, so only sends put off its deadline: *)
(* it passes or that happens for ever, and a peer that takes a part of what *)
(* is left again and again has taken it all in the end.  (Sends after an    *)
(* interrupted select, which move nothing and put off the deadline too, are *)
(* taken not to happen for ever.)                                           *)
LoopFairness ==
    /\ WF_loopVars(Handler) /\ WF_loopVars(ListenerReturns)
    /\ WF_loopVars(NextEvent \/ Wait)
    /\ \A c \in Conns : /\ SF_loopVars(conn[c].closing /\ (WriteTimeout(c) \/ PutOff(c)))
                       /\ SF_loopVars(SendRest(c))

LoopFairSpec == LoopSpec /\ LoopFairness
-----------------------------------------------------------------------------
LoopTypeOK ==
    /\ poll.backend \in Backends
    /\ poll.all \subseteq Fds /\ poll.processed \in -1..FD_SETSIZE
    /\ fds \in [Fds -> Objects \cup {None}]
    /\ \A c \in Objects : conn[c].live <=> conn[c].fd \in Fds

(* The poll object, the table of the event loop and the fields of the       *)
(* connections tell the same story, whatever handlers and listeners did: a  *)
(* registered descriptor belongs to exactly one open connection, and what   *)
(* is asked of the kernel is what the connection believes it asked for.     *)
FdsAgree ==
    /\ poll.all = {conn[c].fd : c \in {d \in Objects : conn[d].live}}
    /\ \A c \in Objects : conn[c].live =>
        /\ fds[conn[c].fd] = c
        /\ conn[c].wantread = (conn[c].fd \in poll.wantread)
        /\ conn[c].wantwrite = (conn[c].fd \in poll.wantwrite)
    /\ \A fd \in Fds : fds[fd] # None => conn[fds[fd]].live /\ conn[fds[fd]].fd = fd
    /\ poll.wantread \cup poll.wantwrite \subseteq poll.all

(* What every handler leaves behind (poll.c:62-244, server_epoll.lua:271-451). *)
LoopSound == LoopTypeOK /\ FdsAgree

(* A listener is told that its connection is established (onconnect) only   *)
(* when it is, with two exceptions that the code does not exclude: an epoll *)
(* event of a descriptor that was closed and given to a new connection      *)
(* within the batch, and the copies of the interest sets that select leaves *)
(* behind when a signal interrupts it (poll.c:250, 303).                    *)
ConnectedIsTrue ==
    \A c \in Conns :
        conn[c].live /\ conn[c].told /\ sock[c].st = "connecting" => conn[c].misled

(* Data waiting to be written, and a connection being established, are      *)
(* always watched: the descriptor is polled for writing and a write timeout *)
(* is armed, so the connection cannot be forgotten.                         *)
Watched ==
    \A c \in Conns : conn[c].live /\ ~(pc.self = c /\ ~Idle) =>
        /\ conn[c].buf => conn[c].wantwrite /\ conn[c].wtimer
        /\ sock[c].st = "connecting" /\ ~conn[c].misled => conn[c].wantwrite /\ conn[c].wtimer
        /\ conn[c].closing => conn[c].buf

(* Data in the socket library's buffer, which no poll can see, has a timer. *)
DirtyHasTimer ==
    \A c \in Conns : conn[c].live /\ conn[c].dirty /\ ~(pc.self = c /\ ~Idle) => conn[c].ptimer

(* No connection is left with work that nothing will come back to           *)
(* (server_epoll.lua:342-421, 584-597).                                     *)
NothingForgotten == Watched /\ DirtyHasTimer

(* Opened, or still open, although everything known was closed to quit.     *)
OpenedLate == \E c \in Conns : conn[c].live /\ ~conn[c].closing

(* After setquitting the loop ends: every connection that could not be      *)
(* closed at once is drained or timed out.  The exception: nothing keeps    *)
(* listeners and timers from opening connections while the loop is quitting *)
(* (server_epoll.lua:640, 653, 729), and those nobody else closes.          *)
QuitEnds == quitting ~> (Idle /\ Ended) \/ OpenedLate
=============================================================================
