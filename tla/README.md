# Prosody in TLA+

Prosody is an XMPP server: Lua, with a little C under `util-src/`. This
directory models the parts of it that carry its own logic, checks the models
with TLC on small instances, and proves the central invariants with TLAPS for
every instance. `PROJECT.json` says for each definition which lines it models,
and lists runs, mutants, findings, hazards and theorems.

## 1. The system

**How it runs.** One operating system thread runs an event loop
(`net/server.lua` picks `server_select`, `server_epoll` or `server_event`), over
libraries in C (`util-src/`: polling, signals, POSIX calls, encodings, hashes).
Everything that happens is a callback: a connection, data, a disconnect, a
timer, a DNS answer, an operator's command. A callback runs to its end before
the next one, so in the models **one callback is one action**. The exception is
`util/async`: a handler may suspend itself in a coroutine, and a stanza
dispatched to a session whose handler is on the stack is queued. That is one
place where sequential reasoning about the code fails, and Async models it step
by step. The others lie below the callbacks: a C signal handler interrupts Lua
and itself (Signals), the loop works through a batch of events while handlers
close and open descriptors (EventLoop), and the server, `prosodyctl` and a
second server share files and locks (DataManager, Instance).

**The parts.** State, operations, and what makes each correct:

| part | state | operations | must hold | here |
|---|---|---|---|---|
| client sessions (`core/sessionmanager`, `mod_c2s`, `mod_saslauth`, `mod_legacyauth`) | session objects; `full_sessions`, `bare_sessions`, `hosts[h].sessions` | connect, stream, authenticate, bind (four conflict policies), close with and without grace, timers, shutdown | three tables and the objects agree; no two sessions under one JID; timers end what hangs | C2S |
| availability and delivery (`mod_presence`, `util/presence`, `mod_message`, `mod_offline`) | presence, priority, `top_resources`, the offline store | presence, directed presence, message to a bare or full JID | contacts see who is online; the cached top resources are current; messages are stored only if nobody can take them | C2S |
| accounts (`core/usermanager`, `mod_user_account_management`) | accounts | delete, change password | deletion leaves nothing behind | C2S, Roster |
| rosters and subscriptions (`core/rostermanager`, `mod_roster`, `mod_presence`) | items, pending requests, the store, what clients were pushed | subscribe, approve, cancel, deny, probe, get, set, remove, delete | no subscription without consent; both sides agree; store and clients are current | Roster |
| asynchronous runners (`util/async`) | queue, state, coroutine; waiters; guards | run, enqueue, wait, done, guard, error | each item once and in order; nobody forgotten; one inside a guard | Async |
| outgoing server links (`mod_s2s`, `s2sout.lib`, `core/s2smanager`, initiating side of `mod_dialback`, `mod_tls`, `mod_saslauth`) | `hosts[f].s2sout`, the queue, DNS state, stream state | route, look up, attempt, retry, TLS, SASL, dialback, time out, close | one session per pair; each stanza sent or answered once, in order, on a stream that is ready | S2SOut |
| incoming links, dialback's receiving and authoritative side | incoming sessions, `dialback_requests` | result, verify | an authenticated name was verified; no mutual waiting | planned |
| BOSH, WebSocket | held requests, `rid`, cached responses, two timers | request, response, close | each stanza processed once, in order of `rid` | planned |
| multi-user chat | rooms, occupants, affiliations | join, part, change nickname, kick, ban, configure | occupants and nicknames correspond; roles follow affiliations | planned |
| publish-subscribe, PEP | nodes, items, subscribers | publish, retract, subscribe, configure | subscribers get what they may see | planned |
| polling and the event loop (`poll.c`, `net/server_epoll`) | kernel interest sets, `fds`, per connection: buffer, interest, timers | add, set, del, wait; read, write, accept, pause, close, time out, quit | the three records of a descriptor agree; nothing waits for an event nobody polls for; a listener is told the truth | Poll, EventLoop |
| signals (`signal.c`) | pending table `signals[nsig]`, the saved hook, handler table | handle, sighook, signal, raise, kill | no signal lost or handled twice | Signals |
| file storage (`util/datamanager`, `lc_atomic_append`) | files, scratch files | store, list_store, list_append | a table is old or new, an acknowledged item stays | DataManager |
| starting (`lc_daemonize`, `mod_posix`, `prosodyctl`) | processes, pidfile, its lock | fork twice, write and remove the pidfile, status | one process goes on, one server runs, and `prosodyctl` finds it | Instance |
| process attributes (`pposix.c`, `util/startup`, `mod_posix`) | credentials, syslog, limits, umask | switch user, open and mask the log, set limits, nest umasks | root is really given up; each is what was asked for | Posix |
| ring buffer (`ringbuffer.c`) | block, two positions, length | write, read, peek, discard, find, readuntil | a bounded queue of bytes | RingBuffer, BoundedQueue |
| encodings, hashes, random (`encodings.c`, `hashes.c`, `crand.c`) | | base64, UTF-8, stringprep, IDNA; HMAC, Hi; random bytes | what the standards say | Encodings, Hashes |
| modules, hosts, ports, events | loaded modules, handlers | load, reload, unload, activate | nothing of an unloaded module remains | planned |
| data structures (`util/cache`, `queue`, `promise`, `indexedbheap`) | | | agree with a reference | planned |
| other network servers, DNS, HTTP, `net.c`, `table.c`, `time.c` | buffers, timers, caches | | | used through their interface |
| parsers, formats, SASL mechanisms, administration, the rest of startup, migrators | | | | not planned |

**How they interact.** A stanza read by mod_c2s goes through the session's
runner (Async) to `core_process_stanza`, which raises an event. mod_presence
and mod_message answer it from the session tables (C2S) and the roster
(Roster), and `core_post_stanza` delivers to a local session by a direct call,
or to another server through the event `route/remote` (S2SOut). Destroying a
session raises `resource-unbind`, whose handler sends presence through the very
session that is being destroyed. The session tables are shared by all plugins.
All of them are called from the loop (EventLoop), which a signal interrupts
through the hook of Signals; a roster save ends in `datamanager.store`
(DataManager; Roster sees only whether it succeeded), SCRAM in `hashes.c`, and
every JID passes through stringprep (Encodings).

**What is hard.** Handlers that close the session they run in; caches that
outlive what they were computed from; timers armed long before they fire;
answers to lookups made by sessions that are gone; stanzas crossing between
servers; saves that fail halfway; a crash between two system calls; a signal
between two instructions; counters and lengths that wrap. `hazards` in PROJECT.json lists them by line.

## 2. The modules

Each component module has CONSTANTS with named assumptions, one action per
callback (or per system call or instruction where the component is interrupted
there), and its properties at the end. `MC_*` gives the symmetry set. `Mut_*`
definitions are the mutated forms PROJECT.json refers to; nothing uses them.

**C2S.** `session`, `sock` and the three tables are the code's; Lua tables are
functions on their present keys. A resource is a base name with the suffixes
that `bind_resource` appends. `contact` and `stranger` are what the recipients
of broadcast and directed presence have last been told. Actions that run in
several places are operators: `destroy_session(C, run)` is the effect of
destroying the sessions in C while the runners of the connections in `run` are
on the call stack. A presence dispatched to one of those is queued, finds a
destroyed session, and is dropped. `Environment` switches two sources of
trouble on and off, so that each can be seen alone: "selfclose" (a session
closed from inside its own handler) and "linger" (`session_close` without a
reason, which keeps a bound session for `c2s_close_timeout`).

**Roster.** Two users, each with an item about the other; the item carries
`roster[false].pending[jid]`. The functions of rostermanager are operators from
items to items; a handler is an *effect* (new item, whether it saves, whether
it pushes, what it sends), applied by `Stores`, `Pushes` and `Sends`. If `set_keys`
fails, the item is lost unless the user is online, as `load_roster` returns a
fresh object for users who are not. `Link` distinguishes one server ("local": a
stanza is handled before the sender's call returns), two servers ("remote"),
and two servers whose users change a subscription only when the earlier change
has settled ("patient", for properties that crossing requests really break).

**Async.** An explicit call stack with frames "run" (the main loop, with its `n`
and `i`) and "continue" (`runner_continue`). The top frame's item may do
anything the interface allows: call or enqueue into any runner, make a waiter,
wait, call anyone's `done`, enter a guard, the one it is in included, leave it or not,
fail, return. `Compacted` is the in-place removal of the consumed items. Of a guarder one
id is modelled; nothing in the repository uses `guarder` yet.

**S2SOut.** One local host, one remote domain, a pool of session objects.
Lookups are answered in any order, also after the session that made them is
gone. The remote server sends any element at any time. `accepted`, `ready` and
`past` are history: whether the peer accepted us on *this* connection, whether
`mark_connected` ran on it, and whether a write failed or SASL EXTERNAL
succeeded on it.

**Poll** is the state of a `util.poll` object as operators from poll objects to
poll objects or errors: `Ladd`, `Lset`, `Ldel`, `Lpushevent` and the three ways
`Lwait` returns (ready, timeout, interrupted), in the build with epoll (a batch
of at most `MAX_EVENTS`, kept while it is consumed) and the one with select (the
sets are copied, and scanned up to `FD_SETSIZE`).

**EventLoop** is `net/server_epoll` over Poll. A handler is a list `pc.todo` of
what it still has to do with a connection, since each part may call a listener,
and a listener may call anything (`ListenerCalls`). The operators `IfAdd`,
`IfDel`, `IfSet`, `IfClose`, `IfDestroy`, `IfWrite`, `IfPauseFor` are the methods of an
interface. Closed descriptors are free at once and the lowest free number is
given out next, as by the operating system. A socket is "full" while its peer does not
read. Listeners and module timers open connections whether or not the loop is quitting. `told` and `misled` are history:
whether `onconnect` was called, and whether that was on one of the two stale
events that section 4 describes.

**Signals** takes the C code of `handle` and `sighook` apart at every read and write
of `nsig`, `signals`, `Hsig` and the hook; whether the compiler reads `nsig` again for the
index of `signals[nsig++]`, and which of the two writes comes first, is left open. `frames` is the stack of interrupted
handlers, `hookAt` and `idx` the position of the hook, `thread` what it runs on (a
hook planted on the main Lua state does not fire in a coroutine or in C).
`lost` records the five ways of losing or corrupting a signal: "window", "nested",
"overflow", "overrun" and "error" (section 4).

**DataManager** models files as sequences of pieces under inode numbers; a table or
an item is two pieces, so that half of one can be seen. Each process makes one
call at a time, system call by system call: scratch file, writes, close, rename;
or `fallocate`, writes, truncation. Every call may fail, and a process may die
between any two. `flaw` records what properties exempt: a shared scratch file, a
torn append, a list that could not be opened.

**Instance** runs two starts and one `prosodyctl status`. A start is three processes
(`role`), a position in `write_pidfile`, a mode and a file handle; locks belong to a
file and go with any close by their owner, as POSIX record locks do.

**Posix** has one action per call of pposix that changes the process, and
`switch_user`, `load_mod_posix` and `server_started` as their callers compose them,
with any subset of calls failing. `log.ptr` is the pointer libc keeps of the last
ident: "live", "null" after `closelog`, "freed" if the ident is freed under it (`FreeIdent`); limits are unsigned of width `RlimWord`; umask texts are digits.

**RingBuffer, BoundedQueue.** `rpos`, `wpos`, `blen` and the block of `ringbuffer.c`,
whose bytes are never cleared, with `size_t` arithmetic modulo `Word`. BoundedQueue
is what the library promises: a sequence, a capacity, and for each call
the reply, or, for a search for a pattern longer than the content, perhaps none, ever.
RingBuffer implements it under `content <- Content`, the `blen` bytes
from `rpos` on.

**Encodings, Hashes** hold functions, checked on every short input. UTF-8 is read
from memory that ends with a NUL, and the position of the last byte read is part of
the result. For stringprep and IDNA the characters are classes (kept, mapped to
two, mapped to nothing, forbidden, invalid, NUL, and a label in its ASCII form, of which
`to_unicode` makes a longer one), as the question is what the
callers do with lengths, NULs and refusals. HMAC works over an ideal hash: a
digest is an uninterpreted value of its input, a byte the set of terms whose
exclusive or it is. `Lrandom` is a loop whose `getrandom` returns any part.

**MC_Process, MC_Library** put these modules side by side for TLC; `unit` says which
one a behaviour is about.

**The proofs** (section 5) have modules of their own: C2S_proofs, Roster_proofs, Async_proofs,
S2SOut_proofs, Loop_proofs (Signals and EventLoop), Process_proofs (Posix and Instance),
Store_proofs (DataManager) and Library_proofs (RingBuffer, Encodings, Hashes).

## 3. The runs

Deadlock is not checked anywhere: connections, stanzas and items are bounded,
so every behaviour may come to an end, as a server with nothing to do does.

| run | instance | shows |
|---|---|---|
| c2s_sessions | 3 connections, 1 user, 1 resource asked for, priorities of both signs, kick_old, lingering | `TopFresh`, `StoredOnlyIfAway`, `NoGhost` |
| c2s_increment | 2 connections, increment, self-closing and lingering; `generate_identifier` may collide | `SessionsConsistent`, `DeletedIsGone`; under fairness `TimersEnd` |
| c2s_ghost | self-closing | `NoGhost` **violated** |
| roster_local | one server, every operation but removal | `ItemsSound`, `CopiesCurrent`, `ConsentGiven`, `Settled` |
| roster_patient | two servers, 3 stanzas per stream, with removal | `RequestShown`, `Served`, `PresenceAccurate` |
| async_runners | 2 runners, 3 items, two calls of `done`, everything an item may do | `RunnersSound`, `OneInside`, `InOrderOnce`; under fairness `EverythingStarts` |
| async_notified | 2 runners | `ReadyIsNotified` **violated** |
| s2s_queue | 2 sessions, 2 stanzas, both address families, 2 SRV records, 2 addresses, encryption required | `OneSession`, `StanzasAccounted`, `SentWhenReady`; under fairness `QueueEmpties` |
| s2s_external | the same, encryption optional | `ReadyForStanzas` **violated** |
| process | loop: 2 connections and a listening socket, 2 descriptors, both builds of `util.poll`; store: 2 processes, 3 tables, 3 items; 2 starts and prosodyctl; process attributes | `LoopSound`, `TableWhole`, `ListKept`, `OneServer`, `ServerFound`, `RootDropped`, `AsAsked` |
| wakeups | signals: 2 numbers, 3 deliveries, a table of 2; loop: 1 connection and the listening socket, with pauses, data the socket library buffered, peers that stop reading, module timers, interrupted waits | `SignalsSound`, `ConnectedIsTrue`, `NothingForgotten`; under fairness `SignalHandled`, `QuitEnds` |
| library | ring buffers of 1 to 3 bytes; inputs of up to 5 characters; keys of up to twice the block | `RingPositions`, `Base64Right`, `Utf8IsUnicode`, `PrepWhole`, `ScramRight`, `RandomFilled`, and the refinement `RingIsQueue` |

Several properties are conjunctions of named parts, each stated and explained
where it is defined:

| property | parts |
|---|---|
| `SessionsConsistent` | types; `FullSessionsExact`: `full_sessions` holds exactly the bound sessions; `TablesAgree`: the three tables list the same; `RosterShared`: one roster object per user; `LiveHasConnection` |
| `TimersEnd` | `UnauthedEnds`, `LingerEnds`: what the two timers of mod_c2s are for |
| `ItemsSound` | types; `WellFormed`: no subscription together with a request for the same direction |
| `CopiesCurrent` | `StoredIsCurrent`, `ViewIsCurrent`: the store, and what clients were pushed |
| `Settled` | `Agreement` of the two rosters once nothing is in flight; `DeletedForgotten` |
| `RunnersSound` | types; `StateIsTrue`; `BlockedIsRegistered`: whoever waits for a guard is on its list; `NoIdleWork` |
| `StanzasAccounted` | types; `OnceEach`: queued, written, answered or lost, one of them; `InOrder` |
| `LoopSound` | types; `FdsAgree`: kernel, `fds` and connections agree |
| `NothingForgotten` | `Watched`: pending output is polled for and has a timeout; `DirtyHasTimer` |
| `SignalsSound` | types; `SignalKept`, `SignalArmed`, `SignalOnce` |
| `ListKept` | `AckedKept`, `ListReadable` |
| `OneServer` | types and lock ownership; `OneContinues` of the processes of a start; `OneInstance` |
| `ServerFound` | `Findable`, `CtlIsRight` |
| `RootDropped` | `SwitchedWhollyOrNot`, `NotRootByAccident` |
| `AsAsked` | `SyslogAsAsked`, `RlimitAsAsked`, `UmaskRestored` |

**Why the bounds are enough.** *C2S*: a conflict needs two connections; the third
binds while the first is being replaced by the second or lingers. One user
suffices because users meet only through presence, which `contact` stands for
(the proof is for any number). *Roster*: the code treats each pair of users
separately; a stream of length 2 or 3 lets a request, its answer and the
presence that follows be under way together (`MaxNet` limits clients, not the
answers of servers, so streams get longer than it). *Async*: two runners can
continue each other and contend for a guard; three items are needed for the
queue to be shifted while one has been consumed, one is running and one has
just arrived. *S2SOut*: two sessions give
a successor to each, two stanzas an order, and two records and two addresses
both branches of every retry. *EventLoop*: two connections beside the listening
socket and one descriptor fewer than sockets, so that `accept` finds none free and that one is
closed and its number given to another within one batch of two events; both
connections are open, and in one batch, once `closeall` has closed the listening socket. *Signals*: one delivery more than the
table holds, and nested handlers. *DataManager*: the second process is needed for
a shared scratch file, the third item for an append after a failed one.
*Instance*: two starts and the one observer the code has. *RingBuffer*: sizes
up to 3 wrap at every offset, strings of length 3 fill and exceed each, and with `Word` 8
the subtraction in `find` wraps, as in the code, while no sum of lengths does.
*Encodings*: five bytes are a full base64 group and each remainder, four are the
longest UTF-8 sequence, with every boundary of the Unicode table among the bytes;
a buffer of four lets mapped names outgrow it. *Hashes*: a key shorter than, equal
to and longer than the block, and with `IntWord` 16 lengths on both sides of where an
`int` turns negative.

**Fairness.** *C2S*: the event loop runs timers that are due (`AuthTimeout`,
`CloseTimeout`); clients owe nothing. *S2SOut*: a lookup is answered or, after
`dns_timeout`, given up (`net/dns.lua:873-890`), and the connect timer fires; the
remote server and the connections owe nothing. *Async*: an item that runs ends,
also when it is interrupted again and again (strong fairness), and what a
waiter waits for happens (weak fairness of `Done`); without that the code
promises nothing. An item inside a guard leaves it or ends (strong fairness of
`ExitGuard`); a guard whose holder ends without `exit()`, or asks for it again, is abandoned, and
`EverythingStarts` excepts what follows.
*Signals*: C code and the hook run to their end, and the process returns
from a coroutine or from C to the main Lua state (the loop's wait has a timeout,
`server_epoll.lua:749`). *EventLoop*: handlers and listeners return and the loop goes round. The deadline
of a write is put off by each send that leaves a rest (`interface:setwritetimeout`), so a
connection that is closing again and again meets its deadline or puts it off
(strong fairness of `WriteTimeout \/ PutOff`; `runtimers` is called in
every round), and one that sends again and again sends the last of its
buffer at some time, as nothing is added to it while it closes (strong fairness of
`SendRest`). The peers owe nothing, and the timers of pauses and modules need not fire.
One thing is taken not to happen for ever: that interrupted waits of `select` report the
connection as writable, each time before its deadline, when the kernel takes nothing.

**Conditions inside properties.** `Agreement`, `Served`, `PresenceAccurate` and
`DeletedForgotten` speak of moments at which nothing is in flight. `OneSession`
and `InOrder` exclude histories in which a write has failed, and `InOrder`,
`SentWhenReady` and `QueueEmpties` streams that SASL EXTERNAL has authenticated,
because the code does not satisfy them there (section 4). A failed write is thus named, not caught.
`QuitEnds` excepts connections opened after `closeall` has been there, `EverythingStarts` abandoned guards. `StoredOnlyIfAway`,
`ConnectedIsTrue`, `SignalsSound`, `SignalHandled`, `OneServer`, `ServerFound`, `TableWhole`,
`ListKept`, `RootDropped` and `AsAsked` name their exceptions in the formula or through a
history variable (`misled`, `lost`, `mishap`, `flaw`): what they say is that these are the
*only* ways to go wrong, and each is an entry of section 4. Failing saves of rosters
are in the theorems about Roster, not in its runs, and those about store and views assume
that saves succeed. The run of `SessionsConsistent` uses increment, so what a kick in the
middle of `bind_resource` does to it is in the theorem only.

## 4. Findings and observations

The three violations:

* **c2s_ghost.** `resource-unbind` is to "send unavailable presence"
  (`mod_presence.lua:342`), but dispatches it to the session's own runner. If
  the session was closed by one of its own handlers the runner is busy, and the
  presence is later handled for a session of type `c2s_destroyed`: dropped.
  Contacts see the resource online until something else corrects them.
* **async_notified.** A runner that fails on an item queued while it waited calls
  the error watcher and not the ready watcher. mod_c2s and mod_s2s pause a
  waiting runner's connection and resume it only from the ready watcher.
* **s2s_external.** The type becomes `s2sout` at SASL success, the stream is ready
  only after the next features. Stanzas routed in between are written at once.

Further things the code and so the models do; where a property would forbid one,
it names it as an exception:

* "No resources are online" (`mod_message.lua:47`) also covers an online user whose top
  resource lingers: its `send` returns false, and the next best one is not tried.
  `StoredOnlyIfAway` shows that nothing else makes a message go astray this way.
* A session that is authenticated and not bound survives the deletion of its
  account, and can still bind.
* Offline messages are deleted after sends whose results are ignored.
* `is_contact_subscribed` answers from the *other* user's roster if only that
  user is online. With failing saves the two differ, and a user is then served
  without having consented; `LocalSubscribersWereAccepted` therefore assumes saves that succeed.
* A request repeated at login that crosses its denial leaves the contact with a
  request nobody waits for (so `Agreement` is checked for one server, and the
  one-sided `Served` for two).
* A probe from a contact whose request is pending is answered with
  `unsubscribed`, which denies the request.
* If the first save of an outgoing request fails, `item.ask` stays set in
  memory, and the retry returns true without saving.
* An item that fails inside a guard, or returns without calling its `exit`, never releases it;
  one that asks for the guard it is in waits for itself.
* After a write that fails, `route_to_new_session` replaces the session of the
  pair; destroying the old one then removes the new one's entry.
* The connect timer does nothing once the type is `s2sout`, so after SASL
  EXTERNAL a queue may wait as long as the connection lives.
* `route_to_new_session` returns false after the stanza has been answered by
  `destroy_session`, and the router answers it again.
* `poll.c`: an event of the batch names a descriptor that an earlier handler closed and
  a new connection got; and after `EINTR` `select` leaves the copied interest sets, which
  are then reported as events. Either tells a connecting socket that it is connected.
  `poll.c:98` lets a descriptor equal to `FD_SETSIZE` through.
* `signal.c`: a signal is lost when it comes between the hook's last look at `nsig` and
  the reset, when its handler interrupts one that has read `nsig`, or when the table is
  full. With one entry left, a handler that interrupts another between the test of `nsig` (line 201)
  and `signals[nsig++]` (202) makes that one write behind the table; the hook then
  also reads what lies there. An error in a Lua handler leaves the hook unplanted with signals pending, and no
  later signal plants it.
* `atomic_store` gives the server and `prosodyctl` the same scratch name; writing at the
  same time they can rename half a table into place.
* `write_pidfile` gives its lock up while it reopens the file, and an instance that stops
  removes whatever has the name: two servers may run, or one that `prosodyctl` cannot find.
* A second `fork` that fails ends the child when the parent has already reported success.
* The check of the `setuid` option at load time does not see "0" as text, a name other
  than root with user id 0, or a value that is neither name nor number.
* "Any negative limit will be replace with the current limit", says the comment at
  `pposix.c:498`. `arg_to_rlimit` casts it to an unsigned `rlim_t`, so -1 asks for "unlimited" and
  other negative numbers for very large limits; only nil keeps the current one. The model does
  as the code does, and `RlimitAsAsked` says nothing of negative limits.
* The names "syslog", "user" and "uucp"
  select the neighbouring facility, as one of the two tables lacks "news".
* `find` takes a full buffer for an empty one, and for a pattern longer than the content
  `blen - l` wraps and it scans bytes that are not content. If the pattern is one byte longer
  and nothing matches, `i <= SIZE_MAX` holds for ever and the call never returns.
  BoundedQueue leaves the answer open in these cases, and whether there is one in the second. `rb_new(0)` makes a buffer
  whose modulus divides by zero.
* `hashes.c` uses blocks of 64 bytes for every hash, so `hmac_sha512` is not RFC 2104's.
* `idna.to_unicode` with libidn ignores what follows a NUL and is given what is not UTF-8.
* A listener or timer that opens a connection while the loop quits keeps it from ending:
  nothing closes that connection.
* `Lrandom` with a length beyond `int` returns before the buffer is filled.

## 5. The proofs

Every theorem is about the component's own specification, with its constants left
open, and is proved by an invariant that is inductive. The named assumptions of
the modules are all that is assumed of the constants; most only keep marks such as
`None` apart from the names they stand beside. The others are these.

| assumption | what it asks | why the code justifies it |
|---|---|---|
| `C2SAssumption` | priorities are in -128..127 | `handle_normal_presence` clips them |
| `LoopAssumption` | the server socket is no connection, some descriptor exists | `server_epoll` makes an object per socket |
| `PollAssumption` | descriptors are below `FD_SETSIZE` | `Ladd` of the build with select refuses others |
| `RingAssumption` | `Word` exceeds a capacity and an argument together, and is at least twice a capacity | `size_t` is wider than any block that `lua_newuserdata` returns; `modpos` adds two positions |
| `PosixAssumption` | user and group numbers are naturals, "root" is user 0; a text given to `umask` is a sequence of digits | the passwd and group files; `strtoul` stops at anything else |
| `StoreAssumption`, `InstAssumption` | the processes and the starts are finitely many | they are processes |
| `UsersAssumption` | there are exactly two users | an item is between two parties; no other changes it |

**C2S_proofs.** `Consistency`: `Spec => []SessionsConsistent` for any sets of
connections, users, messages and resources, every policy and every environment.
None of the conjuncts is inductive by itself: that an insertion does not
overwrite another session's entry (`FullSessionsExact`) needs the user object to
list what `full_sessions` holds (`TablesAgree`), because `bind_resource` looks
for conflicts in the former and writes both; and that the session which binds has
a user name and is in no table yet is `LiveHasConnection`. The conjunction is inductive. Its table part is the
predicate `Consistent` of four values, so that lemma `Destroyed` (any set of
sessions is destroyed) and lemma `Inserted` (one is added) compose as
`bind_resource` composes them: kick, and then insert into tables that only exist
in between. `AssignedFacts` shows that the resource chosen is free by then.

`TopFreshHolds`, `NoGhostHolds` and `StoredOnlyIfAwayHolds` assume that "selfclose"
is not in `Environment`, and c2s_ghost shows that they are false with it: while a
session's runner is on the call stack, the unavailable presence that its destruction
sends is queued and dropped. Without it every destruction sends that presence at
once, and `KInv` is inductive: the tables are consistent, each user's cached top
resources are what `select_top_resources` returns of the current sessions, and
contacts and strangers know exactly those bound sessions that sent them presence
(`Known`, again a predicate of values, so that it can be followed through a kick
and an insertion). `DeletedIsGoneHolds` is about steps, and has no condition.

**Roster_proofs.** `ItemsWellFormed`: `Spec => []ItemsSound`
for every link, every set of operations and any save that fails. Each operator
of rostermanager keeps an item well formed (`OperationsPreserve`), hence so
does each handler's effect (`OutboundEffects`, `InboundEffects`), in memory and
in the store (`StoresPreserves`).
`SubscribersWereAccepted`: `Link # "local"` implies
`Spec => []ConsentGiven`. Only `subscribed` can make an item grant a subscription
(`OperationsGrantNothing`); inbound handlers never do (`InboundGrantsNothing`);
and a failed save can only bring back what the store held, for which consent
was given (`StoredGrants`). The induction is over `TypeOK /\ WellFormed /\
ConsentGiven`: an inbound approval makes of any item with `ask` whose subscription
is not "none" a "both", and only `WellFormed` says that it then was "from" before.
On one server the handlers ask `is_contact_subscribed`, which may read the contact's roster
(`AsksRight`); `LocalSubscribersWereAccepted` has the invariant `LocalInv` below to say that the two rosters
agree on this whenever a request or a probe arrives.

`CopiesStayCurrent` and `RequestsAreShown` are about every link and all operations and assume
`SaveOutcomes \subseteq {TRUE}`, as both runs of Roster have it: a save that fails leaves the
roster of a connected user ahead of the store, which then has to be judged by
`ConsentGiven`. The invariant is `CopyInv`: the items are well formed, what the
store and the interested client hold is the roster, requests were shown, and
only who is connected has a view. Lemmas show that each effect of a handler
is `Faithful`: what it changes it saves, and what a client can see of the change it pushes
(`OperationsHide` lists what none can see). A request begins to wait
by `set_contact_pending_in` alone, whose handler shows it to a client that is available;
later it is shown to the client that becomes available.

`SubscribersAreServed` and `PresenceIsAccurate` are about two servers with patient clients
(`Link = "patient"`, which the run has as well: without it stanzas that cross leave rosters which
disagree, as RFC 6121 has it) and saves that succeed, for every set of operations and streams of any
length. Both properties speak of quiet moments only, so the invariant has to say what stanzas
under way will do. `PairInv` treats each user's subscription to the other as a `Direction` of its own, because
each operation changes only one half of an item (`OperationHalves`: `SameOwn`, `SameContact`).
`Pair` relates the two items and both streams: who has a subscription is served, or the cancellation
is on its way; who waits has a request there or on its way, or an answer on its way. `Seen` relates what the
client believes to what it will have heard (`Hears`: the last presence in its stream, or else what it
believes now): an available subscriber will have heard the truth, or has a probe or a request on its way whose
answer will say it; and while a request waits at the other side, the subscriber will have heard that
the contact is unavailable. The last is what makes an approval safe: it is followed by presence only where the
contact is available. Each kind of step has a lemma for the subscriber's side and one for the contact's
(`SubscriberActs`, `ContactReads` and so on); `OutboundSends` and `InboundAnswers` show that the handlers are
steps of these kinds.

`RostersSettle` is `Spec => []Settled` on one server, with saves that succeed and no removal of items,
as roster_local has it (a removal keeps `roster[false].pending`, so the rosters may then disagree). Clients act
only when both streams are empty there, but the answers run inside each other, and each of
them may leave the rosters apart. `LocalInv` says what lies between two users at each moment (`Between`). While both
exist, at most one signal is under way, or a "subscribed" that a probe follows (`Carries`: presence may be mixed
in anywhere), and `Holds` says for each what the rosters still disagree on: exactly the half that this signal is about.
`LocalReads` and `LocalActs` show that reading it settles that half, and that what a handler answers is again
the only signal. Once one account is gone (`Parted`), whatever the other roster still says of it has its cancellation
under way, nothing else is coming, and the account that is gone answers with unavailable presence at
most, because it is only written to after the other's own subscription has ended.

**Async_proofs.** `RunnersSoundHolds`, `OneInsideHolds` and `InOrderOnceHolds`, for any
number of runners and items and any depth of nested calls, from `AsyncInv`:
- `StackInv`: a coroutine has a frame exactly while it runs, and only one; the `i` and
  `n` of a frame of the main loop point into a queue that has not shrunk below them.
- `OrderInv`: the queue is the end of what was given, and the number of items started is the
  number given, less the queue, plus the `i` of the loop that is under way. This is what
  makes `Compacted`, which shifts the queue while items add to it, right.
- `BlockInv`: who waits is registered with one waiter or one guard, never both, never
  twice, so that a release wakes it once.
- `GuardInv` and `WorkInv`: one runner inside at most, and no idle runner with work.

A release of a guard resumes a runner that may enqueue, wait or fail again
before the release returns; the frames make that a push, and each action disturbs
the top of the stack only.

**S2SOut_proofs.** `OneSessionHolds`, `SentWhenReadyHolds` and `StanzasAccountedHolds`, for
any pool of sessions, stanzas, addresses and targets. The first two are inductive together
with the types. The third needs `PlaceInv` (a stanza that was routed is in exactly
one of: one queue, the wire, lost, bounced once) and `OrderInv` (each queue is in the order
of routing, and what was written precedes what waits): flushing a queue is in order only
because nothing is written past a queue that is not empty.

**Loop_proofs**, first part: `SignalsSoundHolds` for any size of the table and depth of nesting. `FrameInv`
says that handlers which have read `nsig` read values that never
decrease inwards and that the table has not fallen below, until an overrun; `ExactInv` that, unless a
loss has been recorded, only the innermost handler has read it and it has not
changed since; `LiveInv` that what the hook has yet to look at was not handled;
`ArmedInv` that a table which is not empty has a hook to come.

Second part: `LoopSoundHolds`, `ConnectedIsTrueHolds` and `NothingForgottenHolds`, for both
forms of `util.poll`, any batch size, and any order of handlers, listeners, timers and
network events. The invariant `LoopInv` has four parts.
- `Good(S0)`: the state of poll, table and objects agrees. It is a predicate of one
  record, and each interface method has a lemma that it keeps it (`SetKeeps`, `FieldsKeep`,
  and so on up to `closeall`), so that a listener, which may call any of them,
  is one appeal to those lemmas.
- `ConnInv`: each open connection is watched, unless the handler that runs will
  still come to it (`Due`). A listener may destroy or pause the connection
  whose event is being handled, and what is due says which obligations are open.
- `Fetched`: an event of the batch that says "writable" is of a connection which is
  not connecting, or of a number closed within the batch (`stale`), or the sets are those of an
  interrupted select. This is what `ConnectedIsTrue` rests on: it is why these are the
  only two ways to mislead `onconnect`.
- `PcInv`: the types of what is to do.

**Process_proofs.** `RootDroppedHolds` for any user and group file, any options and any calls that
fail. `AsAskedHolds`, for any sequence of calls, from three invariants that no action of another part
touches. For the mask it is `MaskInv`: each text kept is the mask of its time, written out.
`strtoul8` is defined by recursion over the digits; that the function exists and is a number is
`OctalIsNumber`, by a least counterexample, and `FormatIsRead` says that `strtoul` reads what "%03o"
wrote. `OneServerHolds` and `ServerFoundHolds`, for any number of starts: `InstInv` says
which process of a start may be alive at each place (`RolesOK`), who has the pidfile
open and who can have locked it, that as long as nothing went wrong everyone who has a
pidfile open has the one under the name, and that what prosodyctl remembers of who
was up is still so, or over (`FilesOK`).

**Store_proofs.** `TableWholeHolds`, for any number of processes, failures and crashes, from
`StoreInv`: unless two processes had the scratch file open at once, names have
distinct inodes, at most one process is between opening the scratch file and renaming it,
what that file holds is the part of the table its writer has got to, and the table
under the name is whole. A list shares no inode with the table, although lists are
written in place. `ListKeptHolds` rests on an invariant of its own, `ListInv`, which holds even
when tables share a scratch file: no process that stores a table has a file of the list
open (`Clean`); where an append is under way, the file is what it was up to the position
the append started from, and beyond it the pieces written so far (`AppendOK`); what is
in the list's scratch file is a prefix of what is to be stored (`ScratchOK`); and up to that
position, or the end when there is no append, the file holds what was acknowledged and can be
read (`ContentOK`). So `truncate` and a crash before the first byte give back exactly the list
of before, and a crash after the last one leaves a list that can be read. The lemmas
`HoldsOn`, `HoldsNext`, `ReadableOn` and `ReadableNext` say when that carries over
to a longer file or one more item.

**Library_proofs**, first part: `PositionsHold`, and the refinement `RingRefinesQueue`:
`RingSpec => Queue!Spec` under `content <- Content`. Each call has a lemma: the window of
`blen` bytes from `rpos` of the new state is the content that BoundedQueue gives for that call,
and the answer is the same, or there is none, exactly for a search that `Endless` describes. Both rest on lemmas about positions modulo the
capacity and about windows of a block (a copy in two parts is one window).

Second part, what the functions in C compute, for inputs of every length. The library's
induction theorems cannot be used, but a claim about all naturals can be proved by its least
counterexample (`NatLessThanWellFounded` states for sets that `Nat` is well ordered, and so does
`IntervalInduction` here, with a set in the place of a predicate), and a recursive function over an interval exists and is unique by that argument.
- `PrepWholeHolds`: for every name and size of the buffer. `Prep` is a concatenation of what the
  profile makes of each character; the lemmas say what a NUL or a character that is refused
  does to it, and that the length which is compared with the buffer is that of the whole. Nothing is
  claimed of `to_unicode` of libidn for a name with a NUL or not in UTF-8, which the code hands on unchecked.
- `Utf8Holds`: for every string of bytes. For one character, `Counts` and the lemmas after it compare
  the arithmetic of `utf8_decode` with the nine rows of the Unicode table, lead byte by lead byte; for a
  string, the loop of `check_utf8` and the recursive definition of well-formedness stop at the same place.
- `Base64Holds`: for every string of bytes and every text. Encoding: `EncodeIsRfc` compares each group
  with the bits of the string (`ByteBitIs`, `GroupIs`), a byte being the sum of its digits. Decoding is
  proved as the run of a machine (`Runs`), which exists and is unique: blanks change nothing (`BlanksAreSkipped`),
  a character that does not belong stops it for good (`EndedStays`, `TextSpoilt`), and otherwise after i
  characters it has put out the bytes of the closed runs and of the groups of four in the open one, and holds
  the rest (`Decoded`, `TextDecoded`). Going back is `GroupBytes`, group by group, with a blank put anywhere.
- `ScramHolds`: `hmac` is that of RFC 2104 for each key length, block size and message, and the
  loop of `LscramHi` XORs in place what RFC 5802 adds up at the end, for each count of iterations.
- `RandomFilledHolds`: what has been written and what is still asked for add up to the length as
  the `int` has it (`RndInv`); a length that an `int` cannot hold becomes negative or smaller.

**Only model-checked.**
- Liveness (`TimersEnd`, `EverythingStarts`, `QueueEmpties`, `SignalHandled`, `QuitEnds`): the
  prover has no fairness.

Writing the proofs changed a few definitions. `closeall` is one operator (`CloseAll`) now, used by
the handler of quitting and by listeners; what `Ldel` forgets is `Forget`; `RlimitAsAsked`, a CASE
with overlapping arms, has disjoint ones, and `DecodeStep` is a chain of IF; base64 takes its powers from a table
and `Lbase64_decode` is a recursive function over the text, no fold; `Whole` of Store, what
`list_store` writes, is a function of the position and no fold; and the assumptions `NameAssumption` and
`Word >= 2 * n` are new.

## 6. What is not modelled

*Within the modelled parts.* Several hosts, and `c2s_unbound` resumption by
plugins that the repository does not contain. Handlers that wait: C2S runs them
to the end, and Async has no sessions. Headline, groupchat and error messages.
The TLS handshake, UDP and file descriptors of plugins in EventLoop.
Directories, paths and `stat` in DataManager; `mkdir`, `uname`, `meminfo`, `abort` and the
environment calls of pposix. What a stringprep profile does to a character, what a
hash computes, and the builds of crand with `arc4random` or OpenSSL.
Names, groups and versions of roster items; more than one resource per user in
Roster. Two remote domains at once, and stanzas that cannot be answered with an
error, in S2SOut.

*Whole parts.* See the table in section 1. Text formats and SASL mechanisms are
functions on strings, and cryptography; administration, most of startup and
migration are input and output; `net.c`, `table.c`, `time.c` and `windows.c` keep no state.

*Hazards seen and not covered.* A ready watcher that uses the connection of a destroyed
session (`mod_c2s.lua:228`); offline messages deleted after sends that nobody looks at
(`mod_offline.lua:41`); a host deactivated while a link is being resolved
(`hostmanager.lua:134`); the answer to `db:verify` after the session it was asked for is gone
(`mod_dialback.lua:155`); callbacks of a promise that run before its value is stored
(`promise.lua:49`); BOSH closing a list of held requests that it changes while walking
it (`mod_bosh.lua:252`). They belong to the modules of the plan.

## 7. Plan

1. **Dialback**: incoming sessions, the receiving and the authoritative side; two
   servers composed. Each authenticated name was verified for that session;
   simultaneous dialback does not deadlock; late `verify` answers do no harm.
2. **DataStructures**: `cache`, `queue`, `promise` and `indexedbheap` against reference
   definitions.
3. **Bosh**: the window of request identifiers, held requests, the cache of
   responses, the inactivity and wait timers.
4. **MUC**: occupants, nicknames, roles, affiliations; the room cache.
5. **Pubsub**, then **Modules** (events, load, reload, unload, host activation).
6. An abstract specification of message routing (a stanza is delivered, stored,
   answered, or lost with its connection), implemented by S2SOut.
