-------------------------------- MODULE Poll --------------------------------
(***************************************************************************)
(* util-src/poll.c: the object net.server waits with, in the two forms the *)
(* file can be compiled to.  With "epoll" the interest list is the         *)
(* kernel's and a batch of at most MAX_EVENTS events is handed out one per *)
(* call, last first.  With "select" three interest sets are kept, copied   *)
(* for the kernel to overwrite, and scanned upwards from the descriptor    *)
(* reported last.                                                          *)
(*                                                                         *)
(* A poll state is a record, each function of the library an operator on   *)
(* it, so that a caller can make several calls in one step.                *)
(***************************************************************************)
EXTENDS Integers, Sequences, FiniteSetsExt

CONSTANTS Fds,          \* descriptor numbers sockets can get
          FD_SETSIZE,   \* numbers from here on do not fit a select set
          MAX_EVENTS

ASSUME PollAssumption ==
    /\ FD_SETSIZE \in Nat /\ Fds \subseteq 0..FD_SETSIZE - 1
    /\ MAX_EVENTS \in Nat \ {0}

Backends == {"epoll", "select"}

With(S, x, b) == IF b THEN S \cup {x} ELSE S \ {x}

(* all, wantread and wantwrite are the select sets or what epoll_ctl told   *)
(* the kernel.  events is events[0..processed-1] of epoll; readable,        *)
(* writable, err and processed (the last descriptor reported) are select's. *)
Lnew(backend) ==
    [backend |-> backend, all |-> {}, wantread |-> {}, wantwrite |-> {},
     events |-> <<>>, readable |-> {}, writable |-> {}, err |-> {},
     processed |-> FD_SETSIZE]

(* TRUE if Ladd fails with EEXIST. *)
Exists(p, fd) == fd \in p.all

Ladd(p, fd, r, w) ==
    IF Exists(p, fd) THEN p
    ELSE [p EXCEPT !.readable = @ \ {fd}, !.writable = @ \ {fd}, !.err = @ \ {fd},
                   !.all = @ \cup {fd},
                   !.wantread = With(@, fd, r), !.wantwrite = With(@, fd, w)]

(* With select an unknown descriptor is reported and then set all the same. *)
Lset(p, fd, r, w) ==
    IF p.backend = "epoll" /\ ~Exists(p, fd) THEN p
    ELSE [p EXCEPT !.wantread = With(@, fd, r), !.wantwrite = With(@, fd, w)]

(* Events of fd that were already fetched stay in the epoll batch. *)
Forget(p, F) ==
    [p EXCEPT !.all = @ \ F, !.wantread = @ \ F, !.wantwrite = @ \ F,
              !.readable = @ \ F, !.writable = @ \ F, !.err = @ \ F]
Ldel(p, fd) == Forget(p, {fd})
-----------------------------------------------------------------------------
(* Descriptors of a select scan still to be reported. *)
Unreported(p) ==
    {fd \in p.readable \cup p.writable \cup p.err : fd > p.processed /\ fd < FD_SETSIZE}

Pending(p) == p.events # <<>> \/ Unreported(p) # {}

(* The event the next call of wait returns without asking the kernel. *)
Lpushevent(p) ==
    IF p.backend = "epoll" THEN p.events[Len(p.events)]
    ELSE LET fd == Min(Unreported(p))
         IN  [fd |-> fd, r |-> fd \in p.readable \cup p.err, w |-> fd \in p.writable]

Pushed(p) ==
    IF p.backend = "epoll" THEN [p EXCEPT !.events = SubSeq(@, 1, Len(@) - 1)]
    ELSE LET fd == Min(Unreported(p))
         IN  [p EXCEPT !.readable = @ \ {fd}, !.writable = @ \ {fd}, !.err = @ \ {fd},
                       !.processed = fd]

(* What the kernel finds: descriptors with input, with room for output, and *)
(* those in error or hung up, which have both and which epoll reports       *)
(* whether they were asked for or not.                                      *)
Mut_EpollEvent(p, k, fd) ==
    [fd |-> fd, r |-> (fd \in p.wantread /\ fd \in k.in) \/ fd \in k.hup, w |-> fd \in p.wantwrite]
EpollEvent(p, k, fd) ==
    [fd |-> fd, r |-> (fd \in p.wantread /\ fd \in k.in) \/ fd \in k.hup,
                w |-> fd \in p.wantwrite /\ fd \in k.out]

ReadyFds(p, k) ==
    IF p.backend = "epoll"
    THEN {fd \in p.all : EpollEvent(p, k, fd).r \/ EpollEvent(p, k, fd).w}
    ELSE (p.wantread \cap k.in) \cup (p.wantwrite \cap k.out)

(* The poll states after a call that reached the kernel and returned        *)
(* because some descriptor was ready, the time was up, or a signal came.    *)
(* select leaves its sets, here copies of the interest sets, as they were   *)
(* when it is interrupted.                                                  *)
LwaitReady(p, k) ==
    LET n == Min({MAX_EVENTS, Cardinality(ReadyFds(p, k))})
    IN  IF p.backend = "epoll"
        THEN {[p EXCEPT !.events = [i \in 1..n |-> EpollEvent(p, k, s[i])]] :
                 s \in {t \in [1..n -> ReadyFds(p, k)] : \A i, j \in 1..n : t[i] = t[j] => i = j}}
        ELSE {[p EXCEPT !.readable = p.wantread \cap k.in,
                        !.writable = p.wantwrite \cap k.out,
                        !.err = {}, !.processed = -1]}

LwaitTimeout(p) ==
    IF p.backend = "epoll" THEN p
    ELSE [p EXCEPT !.readable = {}, !.writable = {}, !.err = {}]

LwaitSignal(p) ==
    IF p.backend = "epoll" THEN p
    ELSE [p EXCEPT !.readable = p.wantread, !.writable = p.wantwrite, !.err = p.all]
=============================================================================
