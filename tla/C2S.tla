-------------------------------- MODULE C2S --------------------------------
(***************************************************************************)
(* Client sessions of one local host: core/sessionmanager.lua and the      *)
(* plugins that drive it (mod_c2s, mod_saslauth, mod_legacyauth,           *)
(* mod_presence for availability, mod_message and mod_offline for          *)
(* delivery, mod_user_account_management).                                 *)
(*                                                                         *)
(* Prosody is one thread running an event loop, so every callback (data    *)
(* from a socket, a disconnect, a timer, an administrator's command) is    *)
(* one action.  The one thing that is not plain sequential code is the     *)
(* session's runner (util.async): a stanza dispatched to a runner that is  *)
(* already executing is queued until the executing handler has returned.   *)
(* `run' is the set of connections whose runner is on the call stack.      *)
(***************************************************************************)
EXTENDS Integers, Sequences, FiniteSets

CONSTANTS
    Conns,        \* client connections; a connection is never reused
    Users,        \* user names of the host
    Msgs,         \* chat messages sent to the host's users
    Requested,    \* resources a client may ask for
    Generated,    \* what generate_identifier() may return
    Priorities,   \* presence priorities
    Policy,       \* the option conflict_resolve
    Environment,  \* which of "selfclose" and "linger" happen
    None          \* Lua's nil

(***************************************************************************)
(* A resource is a base name with the "#n" suffixes bind_resource adds.    *)
(***************************************************************************)
Resource == [base : Requested \cup Generated, suffix : Seq(Nat)]
Plain(b) == [base |-> b, suffix |-> << >>]
Suffixed(r, n) == [base |-> r.base, suffix |-> Append(r.suffix, n)]
JIDs == Users \X Resource

ASSUME C2SAssumption ==
    /\ Priorities \subseteq -128..127      \* as handle_normal_presence clips them
    /\ Policy \in {"kick_old", "kick_new", "increment", "random"}
    /\ Environment \subseteq {"selfclose", "linger"}
    /\ None \notin Conns /\ None \notin Users
    /\ None \notin Resource /\ None \notin Int

VARIABLES
    session,        \* the session object of each connection
    sock,           \* the connection object under it
    full_sessions,  \* full JID -> session
    host_sessions,  \* hosts[host].sessions: user name -> user object
    bare_sessions,  \* the users with an entry in bare_sessions
    accounts,       \* accounts known to the authentication provider
    msg,            \* what became of each message
    contact,        \* full JIDs a contact of every user believes available
    stranger,       \* full JIDs a target of directed presence believes available
    up              \* FALSE once server-stopping has fired

tables == <<full_sessions, host_sessions, bare_sessions>>
vars == <<session, sock, tables, accounts, msg, contact, stranger, up>>

Session ==
    [type     : {"none", "c2s_unauthed", "c2s_unbound", "c2s", "c2s_destroyed"},
     username : Users \cup {None},
     resource : Resource \cup {None},
     notopen  : BOOLEAN,
     send     : BOOLEAN,                    \* FALSE once send() only returns false
     presence : Priorities \cup {None},     \* priority of the last presence, or nil
     directed : BOOLEAN,                    \* has sent directed presence
     roster   : Conns \cup {None}]          \* which load produced the roster object

Blank(t, o, s) ==
    [type |-> t, username |-> None, resource |-> None, notopen |-> o,
     send |-> s, presence |-> None, directed |-> FALSE, roster |-> None]

\* No connection yet.
Absent == Blank("none", FALSE, FALSE)
new_session == Blank("c2s_unauthed", TRUE, TRUE)
\* What retire_session leaves: every field cleared, type from resting_session.
retire_session == Blank("c2s_destroyed", FALSE, FALSE)

MsgState == {"new", "stored", "delivered", "bounced", "purged", "lost"}

Init ==
    /\ session = [c \in Conns |-> Absent]
    /\ sock = [c \in Conns |-> "none"]
    /\ full_sessions = [j \in {} |-> None]
    /\ host_sessions = [u \in {} |-> None]
    /\ bare_sessions = {}
    /\ accounts = Users
    /\ msg = [m \in Msgs |-> [state |-> "new", user |-> None]]
    /\ contact = {}
    /\ stranger = {}
    /\ up = TRUE

----------------------------------------------------------------------------
(* Lua tables as functions whose domain is the set of present keys. *)

EmptyTable == [x \in {} |-> None]
Put(f, k, v) == [x \in DOMAIN f \cup {k} |-> IF x = k THEN v ELSE f[x]]
Without(f, K) == [x \in DOMAIN f \ K |-> f[x]]
Values(f) == {f[x] : x \in DOMAIN f}

Bound(c) == session[c].resource # None
Jid(c) == <<session[c].username, session[c].resource>>
SessionsOf(u) == {c \in Conns : Bound(c) /\ session[c].username = u}
Live(c) == session[c].type \in {"c2s_unauthed", "c2s_unbound", "c2s"}

\* The available sessions of non-negative priority that no other one exceeds.
select_top_resources(C, ses) ==
    LET eligible == {c \in C : ses[c].presence # None /\ ses[c].presence >= 0}
    IN {c \in eligible : \A d \in eligible : ses[d].presence <= ses[c].presence}

----------------------------------------------------------------------------
(***************************************************************************)
(* session:close(reason) with a reason, and destroy_session: the tables    *)
(* after the sessions in C have been destroyed, one after the other, while *)
(* the runners in `run' are executing.  resource-unbind dispatches an      *)
(* unavailable presence to the session's own runner: executed at once when *)
(* the runner is idle, and otherwise queued and later discarded because    *)
(* the session has been retired by then.                                   *)
(***************************************************************************)
UnboundJids(C) == {Jid(c) : c \in {d \in C : Bound(d)}}
Announced(C, run) == {c \in C \ run : Bound(c) /\ session[c].presence # None}

SessionAfter(C) == [c \in Conns |-> IF c \in C THEN retire_session ELSE session[c]]
FullAfter(C) == Without(full_sessions, UnboundJids(C))

Remaining(u, C) ==
    {r \in DOMAIN host_sessions[u].sessions : <<u, r>> \notin UnboundJids(C)}
Emptied(C) ==
    {u \in DOMAIN host_sessions :
        Remaining(u, C) = {} /\ \E c \in C : Bound(c) /\ session[c].username = u}
UserAfter(u, C, run) ==
    LET left == Without(host_sessions[u].sessions,
                        DOMAIN host_sessions[u].sessions \ Remaining(u, C))
    IN [sessions |-> left,
        roster   |-> host_sessions[u].roster,
        top      |-> IF \E c \in Announced(C, run) : session[c].username = u
                     THEN select_top_resources(Values(left), session)
                     ELSE host_sessions[u].top]
HostAfter(C, run) ==
    [u \in DOMAIN host_sessions \ Emptied(C) |-> UserAfter(u, C, run)]
BareAfter(C) == bare_sessions \ Emptied(C)

\* Mutation: a session that has sent directed presence only takes that back.
Mut_ContactAfter(C, run) ==
    contact \ {Jid(c) : c \in {d \in Announced(C, run) : ~session[d].directed}}
ContactAfter(C, run) == contact \ {Jid(c) : c \in Announced(C, run)}
StrangerAfter(C, run) ==
    stranger \ {Jid(c) : c \in {d \in C : /\ Bound(d) /\ session[d].directed
                                          /\ d \in run => session[d].presence = None}}

destroy_session(C, run) ==
    /\ session' = SessionAfter(C)
    /\ full_sessions' = FullAfter(C)
    /\ host_sessions' = HostAfter(C, run)
    /\ bare_sessions' = BareAfter(C)
    /\ contact' = ContactAfter(C, run)
    /\ stranger' = StrangerAfter(C, run)

\* conn:close() flushes what is buffered; the disconnect event follows.
Closing(C) == [c \in Conns |-> IF c \in C THEN "draining" ELSE sock[c]]

\* session_close with an error condition (or false: closed by the client).
session_close(C, run) ==
    /\ destroy_session(C, run)
    /\ sock' = Closing(C)

\* session_close without a reason: a bound session lingers, able to send
\* us stanzas but not to receive any, until the peer closes its stream.
session_close_nil(c) ==
    /\ session' = [session EXCEPT ![c].send = FALSE]
    /\ UNCHANGED <<sock, tables, contact, stranger>>

----------------------------------------------------------------------------
(* mod_c2s: connections and streams. *)

onconnect(c) ==
    /\ up /\ sock[c] = "none"
    /\ sock' = [sock EXCEPT ![c] = "open"]
    /\ session' = [session EXCEPT ![c] = new_session]
    /\ UNCHANGED <<tables, accounts, msg, contact, stranger, up>>

streamopened(c) ==
    /\ sock[c] = "open" /\ session[c].notopen
    /\ session' = [session EXCEPT ![c].notopen = FALSE]
    /\ UNCHANGED <<sock, tables, accounts, msg, contact, stranger, up>>

\* A refused stream header, invalid XML, or the client's </stream:stream>:
\* the session is closed by the parser's callback, outside its runner.
StreamEnded(c) ==
    /\ sock[c] = "open"
    /\ session_close({c}, {})
    /\ UNCHANGED <<accounts, msg, up>>

\* The client sent <stream:error>; before binding this is StreamEnded.
StreamError(c) ==
    /\ "linger" \in Environment
    /\ sock[c] = "open" /\ session[c].type = "c2s"
    /\ session_close_nil(c)
    /\ UNCHANGED <<accounts, msg, up>>

ondisconnect(c) ==
    /\ sock[c] \in {"open", "draining"}
    /\ IF Live(c)
       THEN destroy_session({c}, {})
       ELSE UNCHANGED <<session, tables, contact, stranger>>
    /\ sock' = [sock EXCEPT ![c] = "gone"]
    /\ UNCHANGED <<accounts, msg, up>>

\* The c2s_timeout timer set by onconnect.
AuthTimeout(c) ==
    /\ session[c].type = "c2s_unauthed"
    /\ session_close({c}, {})
    /\ UNCHANGED <<accounts, msg, up>>

\* The stream_close_timeout timer set by session_close_nil.
\* Mutation: the timer spares a session that is still available.
Mut_CloseTimeout(c) ==
    /\ session[c].type = "c2s" /\ ~session[c].send /\ session[c].presence = None
    /\ session_close({c}, {})
    /\ UNCHANGED <<accounts, msg, up>>
CloseTimeout(c) ==
    /\ session[c].type = "c2s" /\ ~session[c].send
    /\ session_close({c}, {})
    /\ UNCHANGED <<accounts, msg, up>>

\* A stanza from the client reaches its handler, executed by the runner.
Receives(c) == sock[c] = "open" /\ ~session[c].notopen

\* A stream element nobody handles (a second <auth/>, say): the session is
\* closed from inside its own handler.
handle_unhandled_stanza(c) ==
    /\ "selfclose" \in Environment
    /\ Receives(c)
    /\ session_close({c}, {c})
    /\ UNCHANGED <<accounts, msg, up>>

----------------------------------------------------------------------------
(* Authentication and resource binding. *)

\* SASL success: make_authenticated, then the stream is reset.
sasl_success(c, u) ==
    /\ Receives(c) /\ session[c].type = "c2s_unauthed"
    /\ u \in accounts
    /\ session' = [session EXCEPT ![c].type = "c2s_unbound", ![c].username = u,
                                  ![c].notopen = TRUE]
    /\ UNCHANGED <<sock, tables, accounts, msg, contact, stranger, up>>

Taken(u) == IF u \in DOMAIN host_sessions
            THEN DOMAIN host_sessions[u].sessions ELSE {}

\* The first of r#1, r#2, ... that is free.
NextFree(u, r, name) ==
    \E n \in 1 .. Cardinality(Taken(u)) + 1 :
        /\ name = Suffixed(r, n) /\ name \notin Taken(u)
        /\ \A k \in 1 .. n - 1 : Suffixed(r, k) \in Taken(u)
\* Mutation: a taken name is handed out again.
Mut_Incremented(u, r) == {r}
Incremented(u, r) ==
    {name \in {r} \cup {Suffixed(r, n) : n \in 1 .. Cardinality(Taken(u)) + 1} :
        IF r \in Taken(u) THEN NextFree(u, r, name) ELSE name = r}

\* The name a session asking for r is given.
Assigned(u, r) ==
    IF r \notin Taken(u) THEN {r}
    ELSE CASE Policy = "random"    -> UNION {Incremented(u, Plain(g)) : g \in Generated}
           [] Policy = "increment" -> Incremented(u, r)
           [] Policy = "kick_new"  -> {}
           [] Policy = "kick_old"  -> {r}
\* The session it replaces.
Kicked(u, name) ==
    IF Policy = "kick_old" /\ name \in Taken(u)
    THEN {host_sessions[u].sessions[name]} ELSE {}

NewUser == [sessions |-> EmptyTable, roster |-> None, top |-> {}]
\* The user object, created (again, when the last session was kicked) if absent.
UserObject(u, K, c) ==
    IF u \in DOMAIN HostAfter(K, {c}) THEN HostAfter(K, {c})[u] ELSE NewUser
LoadedRoster(obj, c) == IF obj.roster = None THEN c ELSE obj.roster

\* bind_resource up to and including the insertion, and the roster loaded.
bind_ok(c, u, name, send) ==
    LET K == Kicked(u, name)
        obj == UserObject(u, K, c)
        ros == LoadedRoster(obj, c)
    IN /\ session' = [SessionAfter(K) EXCEPT
                        ![c].type = "c2s", ![c].username = u,
                        ![c].resource = name, ![c].roster = ros, ![c].send = send]
       /\ sock' = Closing(K)
       /\ full_sessions' = Put(FullAfter(K), <<u, name>>, c)
       /\ host_sessions' = Put(HostAfter(K, {c}), u,
                               [sessions |-> Put(obj.sessions, name, c),
                                roster |-> ros, top |-> obj.top])
       /\ bare_sessions' = BareAfter(K) \cup {u}
       /\ contact' = ContactAfter(K, {c})
       /\ stranger' = StrangerAfter(K, {c})

\* The roster cannot be loaded: everything but the kick is rolled back.
bind_rollback(c, u, name) ==
    LET K == Kicked(u, name)
        obj == UserObject(u, K, c)
        empty == DOMAIN obj.sessions = {}
    IN /\ obj.roster = None
       /\ session' = SessionAfter(K)
       /\ sock' = Closing(K)
       /\ full_sessions' = FullAfter(K)
       /\ host_sessions' = IF empty THEN Without(HostAfter(K, {c}), {u})
                           ELSE Put(HostAfter(K, {c}), u, [obj EXCEPT !.roster = c])
       /\ bare_sessions' = IF empty THEN BareAfter(K) \ {u} ELSE BareAfter(K)
       /\ contact' = ContactAfter(K, {c})
       /\ stranger' = StrangerAfter(K, {c})

\* What the client asked for, or an identifier when it asked for nothing.
Wanted == {Plain(b) : b \in Requested \cup Generated}

bind_resource(c, r) ==
    /\ Receives(c) /\ session[c].type = "c2s_unbound"
    /\ \E name \in Assigned(session[c].username, r) :
          \/ bind_ok(c, session[c].username, name, session[c].send)
          \/ bind_rollback(c, session[c].username, name)
    /\ UNCHANGED <<accounts, msg, up>>

\* jabber:iq:auth: authentication and binding in one request.  A failure
\* leaves the session unauthenticated; a session that was given another
\* name than it asked for is closed without a reason.
legacy_auth(c, u, b) ==
    /\ Receives(c) /\ session[c].type = "c2s_unauthed"
    /\ u \in accounts
    /\ \E name \in Assigned(u, Plain(b)) :
          \/ bind_ok(c, u, name, name = Plain(b))
          \/ bind_rollback(c, u, name)
    /\ UNCHANGED <<accounts, msg, up>>

----------------------------------------------------------------------------
(* Presence. *)

StoredFor(u) == {m \in Msgs : msg[m].state = "stored" /\ msg[m].user = u}
Marked(M, u, state) ==
    [m \in Msgs |-> IF m \in M THEN [state |-> state, user |-> u] ELSE msg[m]]

\* The top_resources of user u, once session[c].presence has become p.
\* Mutation: top_resources is recalculated before session.presence changes.
Mut_Recalculated(u, c, p) ==
    [host_sessions EXCEPT ![u].top =
        select_top_resources(Values(host_sessions[u].sessions), session)]
Recalculated(u, c, p) ==
    [host_sessions EXCEPT ![u].top =
        select_top_resources(Values(host_sessions[u].sessions),
                             [session EXCEPT ![c].presence = p])]

\* handle_normal_presence, available: broadcast, hand over the stored
\* messages on initial presence, recalculate the top resources.
presence_available(c, p) ==
    LET u == session[c].username
        initial == session[c].presence = None
    IN /\ Receives(c) /\ session[c].type = "c2s"
       /\ session' = [session EXCEPT ![c].presence = p]
       /\ contact' = contact \cup {Jid(c)}
       /\ msg' = IF initial /\ p >= 0
                 THEN Marked(StoredFor(u), u, IF session[c].send THEN "delivered" ELSE "lost")
                 ELSE msg
       /\ host_sessions' = IF session[c].presence # p
                           THEN Recalculated(u, c, p) ELSE host_sessions
       /\ UNCHANGED <<sock, full_sessions, bare_sessions, accounts, stranger, up>>

\* handle_normal_presence, unavailable.
presence_unavailable(c) ==
    /\ Receives(c) /\ session[c].type = "c2s"
    /\ session' = [session EXCEPT ![c].presence = None, ![c].directed = FALSE]
    /\ contact' = contact \ {Jid(c)}
    /\ stranger' = IF session[c].directed THEN stranger \ {Jid(c)} ELSE stranger
    /\ host_sessions' = IF session[c].presence # None
                        THEN Recalculated(session[c].username, c, None)
                        ELSE host_sessions
    /\ UNCHANGED <<sock, full_sessions, bare_sessions, accounts, msg, up>>

\* Presence addressed to someone outside the roster.
outbound_presence(c, available) ==
    /\ Receives(c) /\ session[c].type = "c2s"
    /\ session' = [session EXCEPT ![c].directed = available]
    /\ stranger' = IF available THEN stranger \cup {Jid(c)} ELSE stranger \ {Jid(c)}
    /\ UNCHANGED <<sock, tables, accounts, msg, contact, up>>

----------------------------------------------------------------------------
(* Messages. *)

user_exists(u) == u \in DOMAIN host_sessions \/ u \in accounts

\* To the top resources; if none of them takes it, to the offline store.
process_to_bare(u) ==
    IF u \in DOMAIN host_sessions /\ \E c \in host_sessions[u].top : session[c].send
    THEN "delivered"
    ELSE IF user_exists(u) THEN "stored" ELSE "bounced"

MessageToBare(m, u) ==
    /\ up /\ msg[m].state = "new"
    /\ msg' = Marked({m}, u, process_to_bare(u))
    /\ UNCHANGED <<session, sock, tables, accounts, contact, stranger, up>>

MessageToFull(m, j) ==
    /\ up /\ msg[m].state = "new"
    /\ msg' = Marked({m}, j[1], IF session[full_sessions[j]].send THEN "delivered"
                                ELSE process_to_bare(j[1]))
    /\ UNCHANGED <<session, sock, tables, accounts, contact, stranger, up>>

----------------------------------------------------------------------------
(* Accounts and administration. *)

\* Mutation: only the available sessions are closed.
Mut_delete_user(u, run) ==
    /\ u \in accounts
    /\ accounts' = accounts \ {u}
    /\ session_close({c \in SessionsOf(u) : session[c].presence # None}, run)
    /\ msg' = Marked(StoredFor(u), u, "purged")
    /\ UNCHANGED up

\* usermanager.delete_user: user-deleted closes the sessions, then every
\* store of the user is purged.
delete_user(u, run) ==
    /\ u \in accounts
    /\ accounts' = accounts \ {u}
    /\ session_close(SessionsOf(u), run)
    /\ msg' = Marked(StoredFor(u), u, "purged")
    /\ UNCHANGED up

\* The user removes the account over one of its sessions.
RemoveAccount(c) ==
    /\ "selfclose" \in Environment
    /\ Receives(c) /\ session[c].type = "c2s"
    /\ delete_user(session[c].username, {c})

AdminDeleteUser(u) == up /\ delete_user(u, {})

\* usermanager.set_password: user-password-changed closes the sessions of
\* the user, but for the one with the given resource.
set_password(u, keep, run) ==
    /\ u \in accounts
    /\ session_close({c \in SessionsOf(u) : session[c].resource # keep}, run)
    /\ UNCHANGED <<accounts, msg, up>>

ChangePassword(c) ==
    /\ Receives(c) /\ session[c].type = "c2s"
    /\ set_password(session[c].username, session[c].resource, {c})

AdminSetPassword(u) == up /\ set_password(u, None, {})

\* c2s:close() of the console and "End User Session" of mod_admin_adhoc.
AdminCloseSession(c) ==
    /\ "linger" \in Environment
    /\ session[c].type = "c2s"
    /\ session_close_nil(c)
    /\ UNCHANGED <<accounts, msg, up>>

\* server-stopping: every session is closed.
server_stopping ==
    /\ up
    /\ up' = FALSE
    /\ session_close({c \in Conns : Live(c)}, {})
    /\ UNCHANGED <<accounts, msg>>

----------------------------------------------------------------------------
ConnNext(c) ==
    \/ onconnect(c) \/ streamopened(c) \/ StreamEnded(c) \/ StreamError(c)
    \/ ondisconnect(c) \/ AuthTimeout(c) \/ CloseTimeout(c)
    \/ handle_unhandled_stanza(c)
    \/ \E u \in Users : sasl_success(c, u)
    \/ \E r \in Wanted : bind_resource(c, r)
    \/ \E u \in Users, b \in Requested : legacy_auth(c, u, b)
    \/ \E p \in Priorities : presence_available(c, p)
    \/ presence_unavailable(c)
    \/ \E a \in BOOLEAN : outbound_presence(c, a)
    \/ RemoveAccount(c) \/ ChangePassword(c) \/ AdminCloseSession(c)

HostNext ==
    \/ \E m \in Msgs, u \in Users : MessageToBare(m, u)
    \/ \E m \in Msgs, j \in DOMAIN full_sessions : MessageToFull(m, j)
    \/ \E u \in Users : AdminDeleteUser(u)
    \/ \E u \in Users : AdminSetPassword(u)
    \/ server_stopping

Next == HostNext \/ \E c \in Conns : ConnNext(c)

Spec == Init /\ [][Next]_vars

\* The event loop runs every timer that is due.
Fairness == \A c \in Conns : WF_vars(AuthTimeout(c)) /\ WF_vars(CloseTimeout(c))
FairSpec == Spec /\ Fairness

----------------------------------------------------------------------------
(* Properties. *)

UserRecord(o) ==
    /\ o = [sessions |-> o.sessions, roster |-> o.roster, top |-> o.top]
    /\ DOMAIN o.sessions \subseteq Resource
    /\ o.sessions = [r \in DOMAIN o.sessions |-> o.sessions[r]]
    /\ \A r \in DOMAIN o.sessions : o.sessions[r] \in Conns
    /\ o.roster \in Conns \cup {None}
    /\ o.top \subseteq Conns

(* Every variable holds a value of its kind; the tables are partial. *)
TypeOK ==
    /\ session \in [Conns -> Session]
    /\ sock \in [Conns -> {"none", "open", "draining", "gone"}]
    /\ DOMAIN full_sessions \subseteq JIDs
    /\ full_sessions = [j \in DOMAIN full_sessions |-> full_sessions[j]]
    /\ \A j \in DOMAIN full_sessions : full_sessions[j] \in Conns
    /\ DOMAIN host_sessions \subseteq Users
    /\ host_sessions = [u \in DOMAIN host_sessions |-> host_sessions[u]]
    /\ \A u \in DOMAIN host_sessions : UserRecord(host_sessions[u])
    /\ bare_sessions \subseteq Users
    /\ accounts \subseteq Users
    /\ msg \in [Msgs -> [state : MsgState, user : Users \cup {None}]]
    /\ contact \subseteq JIDs
    /\ stranger \subseteq JIDs
    /\ up \in BOOLEAN

(* full_sessions holds exactly the sessions that have a resource: an entry's
   session has that very JID, and a bound session is found under its JID
   (so two live sessions never share one). *)
FullSessionsExact ==
    /\ \A j \in DOMAIN full_sessions : Bound(full_sessions[j]) /\ Jid(full_sessions[j]) = j
    /\ \A c \in Conns : Bound(c) => Jid(c) \in DOMAIN full_sessions /\ full_sessions[Jid(c)] = c

(* hosts[host].sessions, bare_sessions and full_sessions tell the same story:
   a user has an entry in the first two exactly when it has a session in the
   third, and the user object lists exactly those sessions. *)
TablesAgree ==
    /\ bare_sessions = DOMAIN host_sessions
    /\ \A u \in DOMAIN host_sessions :
          /\ DOMAIN host_sessions[u].sessions # {}
          /\ \A r \in DOMAIN host_sessions[u].sessions :
                /\ <<u, r>> \in DOMAIN full_sessions
                /\ full_sessions[<<u, r>>] = host_sessions[u].sessions[r]
    /\ \A j \in DOMAIN full_sessions :
          j[1] \in DOMAIN host_sessions /\ j[2] \in DOMAIN host_sessions[j[1]].sessions

(* Every bound session of a user works on the user object's one roster. *)
RosterShared ==
    \A c \in Conns : Bound(c) =>
        /\ session[c].roster # None
        /\ session[c].username \in DOMAIN host_sessions
        /\ host_sessions[session[c].username].roster = session[c].roster

(* A session is live exactly as long as its connection is open, it has a
   user name once authenticated, and a resource exactly when its type says
   that it is bound. *)
LiveHasConnection ==
    \A c \in Conns :
        /\ Live(c) <=> sock[c] = "open"
        /\ Bound(c) <=> session[c].type = "c2s"
        /\ session[c].type = "c2s" => ~session[c].notopen
        /\ session[c].type \in {"c2s_unbound", "c2s"} => session[c].username # None

(* The session tables and the session objects are consistent: what follows
   every callback, with whichever conflict policy, from all of the above
   (sessionmanager.lua:56-233).  No part is inductive without the others. *)
SessionsConsistent ==
    /\ TypeOK /\ FullSessionsExact /\ TablesAgree /\ RosterShared /\ LiveHasConnection

(* A user's top_resources are what select_top_resources would return now. *)
TopFresh ==
    \A u \in DOMAIN host_sessions :
        host_sessions[u].top =
            select_top_resources(Values(host_sessions[u].sessions), session)

(* Contacts and targets of directed presence believe a full JID available
   exactly when a bound session of that JID has announced itself to them. *)
NoGhost ==
    /\ contact = {Jid(c) : c \in {d \in Conns : Bound(d) /\ session[d].presence # None}}
    /\ stranger = {Jid(c) : c \in {d \in Conns : Bound(d) /\ session[d].directed}}

(* A message to the bare JID is stored (or bounced) although an available
   session with a non-negative priority could have taken it only when a
   lingering session, which answers false to every send, is a top resource
   of the user and hides it. *)
StoredOnlyIfAway ==
    \A u \in Users : \A c \in SessionsOf(u) :
        /\ process_to_bare(u) # "delivered"
        /\ session[c].send /\ session[c].presence # None /\ session[c].presence >= 0
        => \E d \in host_sessions[u].top : ~session[d].send

(* Deleting an account leaves no bound session, user object or stored
   message of it behind. *)
DeletedIsGone ==
    [][\A u \in accounts \ accounts' :
          /\ u \notin DOMAIN host_sessions' /\ u \notin bare_sessions'
          /\ \A j \in DOMAIN full_sessions' : j[1] # u
          /\ ~\E m \in Msgs : msg'[m].state = "stored" /\ msg'[m].user = u]_vars

(* A client that never authenticates is disconnected. *)
UnauthedEnds == \A c \in Conns :
    session[c].type = "c2s_unauthed" ~> session[c].type # "c2s_unauthed"

(* A session closed without an error, which lingers so that the client may
   finish, is destroyed in the end whatever the client does. *)
LingerEnds == \A c \in Conns :
    session[c].type = "c2s" /\ ~session[c].send ~> session[c].type = "c2s_destroyed"

(* Both timers end what they were armed for, whatever happens to the
   session before they fire (mod_c2s.lua:188, 294). *)
TimersEnd == UnauthedEnds /\ LingerEnds

============================================================================
