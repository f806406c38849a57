------------------------------ MODULE S2SOut ------------------------------
(***************************************************************************)
(* Outgoing server-to-server sessions from one local host to one remote    *)
(* domain: plugins/mod_s2s (routing, the stanza queue, authentication and  *)
(* closing), its s2sout library (SRV and address lookups, one attempt      *)
(* after another), core/s2smanager, and the parts of mod_tls, mod_saslauth *)
(* and mod_dialback that answer the remote server.                         *)
(*                                                                         *)
(* Each callback of the event loop is one action.  The remote server is    *)
(* free to send any element in any order; the resolver to find any number  *)
(* of records; connections may fail at any time.  Only stanzas that can be *)
(* answered with an error are routed here.                                 *)
(***************************************************************************)
EXTENDS Integers, Sequences, FiniteSets, SequencesExt

CONSTANTS
    Sessions,           \* session objects; each is used once
    Stanzas,            \* stanzas local users send to the domain, once each
    Families,           \* address lookups made: those of "A", "AAAA" the host has
    RequireEncryption,  \* s2s_require_encryption
    MaxSRV,             \* bound: SRV records of the domain
    MaxIPs,             \* bound: addresses of one target
    None

ASSUME FamiliesAssumption == Families # {} /\ Families \subseteq {"A", "AAAA"}
ASSUME PolicyAssumption == RequireEncryption \in BOOLEAN
ASSUME BoundsAssumption == MaxSRV \in Nat /\ MaxIPs \in Nat
ASSUME NoneAssumption == None \notin Sessions

VARIABLES
    session,    \* session objects
    s2sout,     \* hosts[from].s2sout[to]
    routed,     \* history: stanzas given to route/remote, in order
    wire,       \* history: stanzas written, each with the state of its stream
    bounced,    \* history: error replies made by bounce_sendq
    refused,    \* history: stanzas core_route_stanza answered with not-allowed
    lost        \* history: queued stanzas whose write failed

vars == <<session, s2sout, routed, wire, bounced, refused, lost>>

NoList == -1    \* ip_hosts = nil

(* A session.  lookups are the DNS queries under way; srv counts the       *)
(* untried SRV records and ips the untried addresses; conn is "full" when  *)
(* its send buffer has overflowed, until the event loop closes it; armed   *)
(* says that a connect_timeout timer was started.  The rest is history:    *)
(* accepted and ready say that on the present connection the peer accepted *)
(* our identity and mark_connected was called; past remembers whether a    *)
(* write failed and whether SASL EXTERNAL succeeded.                       *)
Unused ==
    [type |-> "none", lookups |-> {}, srv |-> 0, ips |-> NoList,
     conn |-> "none", notopen |-> TRUE, secure |-> "nil", external_auth |-> "nil",
     dialback_key |-> FALSE, armed |-> FALSE, sendq |-> << >>,
     accepted |-> FALSE, ready |-> FALSE, past |-> {}]

new_outgoing(m) ==
    [Unused EXCEPT !.type = "s2sout_unauthed", !.sendq = <<m>>, !.lookups = {"SRV"}]

(* Everything is forgotten but the connection; callbacks of lookups under  *)
(* way will still come.                                                    *)
retire_session(r) ==
    [Unused EXCEPT !.type = "s2s_destroyed", !.lookups = r.lookups, !.conn = "closed",
                   !.past = r.past]

Init ==
    /\ session = [s \in Sessions |-> Unused]
    /\ s2sout = None
    /\ routed = << >>
    /\ wire = << >>
    /\ bounced = [m \in Stanzas |-> 0]
    /\ refused = {}
    /\ lost = {}

Live(s) == session[s].type \in {"s2sout_unauthed", "s2sout"}
Copies(m, q) == Cardinality({i \in DOMAIN q : q[i] = m})

----------------------------------------------------------------------------
(* Effects.  r is the session as the handler has changed it so far. *)

Becomes(s, r) ==
    /\ session' = [session EXCEPT ![s] = r]
    /\ UNCHANGED <<s2sout, wire, bounced, lost>>

\* bounce_sendq: one error reply for each stanza in the queue.
bounce_sendq(q) == [m \in Stanzas |-> bounced[m] + Copies(m, q)]

\* Mutation: the session stays in the table of its host.
Mut_destroy_session_kept(s, r) ==
    /\ session' = [session EXCEPT ![s] = retire_session(r)]
    /\ bounced' = bounce_sendq(r.sendq)
    /\ UNCHANGED <<s2sout, wire, lost>>
\* Mutation: a session is dropped without answering for its queue.
Mut_destroy_session(s, r) ==
    /\ session' = [session EXCEPT ![s] = retire_session(r)]
    /\ s2sout' = None
    /\ UNCHANGED <<wire, bounced, lost>>
destroy_session(s, r) ==
    /\ session' = [session EXCEPT ![s] = retire_session(r)]
    /\ s2sout' = None
    /\ bounced' = bounce_sendq(r.sendq)
    /\ UNCHANGED <<wire, lost>>

(* session_close of an outgoing session, whatever the reason: destroyed at *)
(* once, then its connection is closed.                                    *)
session_close(s, r) == r.conn # "none" /\ destroy_session(s, r)

\* What wire records of a stanza written on the session.
Written(m, r) == [stanza |-> m, accepted |-> r.accepted, ready |-> r.ready,
                  secure |-> r.secure = "true", past |-> r.past]

(* mark_connected: the queue is written without looking at what send       *)
(* returns; the first k writes succeed.                                    *)
mark_connected(s, r0) ==
    LET r == [r0 EXCEPT !.ready = TRUE]
        n == Len(r.sendq)
    IN  \E k \in {j \in 0 .. n : r.conn = "full" => j = 0} :
          /\ wire' = wire \o [i \in 1 .. k |-> Written(r.sendq[i], r)]
          /\ lost' = lost \cup {r.sendq[i] : i \in k + 1 .. n}
          /\ session' = [session EXCEPT ![s] =
                [r EXCEPT !.sendq = << >>, !.srv = 0, !.ips = NoList,
                          !.conn = IF k < n THEN "full" ELSE @,
                          !.past = IF k < n THEN @ \cup {"failed"} ELSE @]]
          /\ UNCHANGED <<s2sout, bounced>>

----------------------------------------------------------------------------
(* Connecting. *)

(* make_connect: a new connection and, by register_outgoing, a new stream, *)
(* sends2s and timer.                                                      *)
Connecting(r, left) ==
    [r EXCEPT !.secure = "nil", !.conn = "pending", !.notopen = TRUE, !.armed = TRUE,
              !.ips = left, !.accepted = FALSE, !.ready = FALSE]

\* try_connect without an error: look up the addresses of a target.
Resolving(r, left) ==
    [r EXCEPT !.srv = left, !.ips = 0, !.lookups = Families,
              !.conn = IF @ = "none" THEN @ ELSE "closed"]

(* attempt_connection after an error, with the functions it calls and is   *)
(* called by: the next address whose connect() does not fail at once, else *)
(* the next SRV target, else the end.  A destroyed session has no to_host. *)
\* Mutation: a connection is registered without starting its timer.
Mut_attempt_connection(s, r) ==
    \/ \E left \in 0 .. r.ips - 1 : Becomes(s, [Connecting(r, left) EXCEPT !.armed = r.armed])
    \/ r.srv > 0 /\ Becomes(s, Resolving(r, r.srv - 1))
    \/ r.srv = 0 /\ destroy_session(s, r)
attempt_connection(s, r) ==
    \/ \E left \in 0 .. r.ips - 1 : Becomes(s, Connecting(r, left))
    \/ r.srv > 0 /\ Becomes(s, Resolving(r, r.srv - 1))
    \/ r.srv = 0 /\ destroy_session(s, r)

\* The callback of the SRV lookup; a target "." means there is no service.
SRVReply(s) ==
    LET r == [session[s] EXCEPT !.lookups = @ \ {"SRV"}]
    IN  /\ "SRV" \in session[s].lookups
        /\ \/ ~Live(s) /\ Becomes(s, r)
           \/ Live(s) /\ \E n \in 0 .. MaxSRV : Becomes(s, Resolving(r, IF n = 0 THEN 0 ELSE n - 1))
           \/ Live(s) /\ MaxSRV > 0 /\ destroy_session(s, r)
        /\ UNCHANGED <<routed, refused>>

(* The callback of an address lookup.  The first of two only collects. *)
AddressReply(s, f) ==
    LET r == [session[s] EXCEPT !.lookups = @ \ {f}]
    IN  /\ f \in session[s].lookups
        /\ \/ ~Live(s) /\ Becomes(s, r)
           \/ /\ Live(s)
              /\ \E total \in session[s].ips .. MaxIPs :
                    \/ r.lookups # {} /\ Becomes(s, [r EXCEPT !.ips = total])
                    \/ /\ r.lookups = {}
                       /\ attempt_connection(s, [r EXCEPT !.ips = IF total = 0 THEN NoList ELSE total])
        /\ UNCHANGED <<routed, refused>>

\* listener.onconnect: open_stream.
onconnect(s) ==
    /\ session[s].conn = "pending"
    /\ Becomes(s, [session[s] EXCEPT !.conn = "open"])
    /\ UNCHANGED <<routed, refused>>

(* listener.ondisconnect: while no stream is open, an error means the next *)
(* attempt.                                                                *)
ondisconnect(s, err) ==
    /\ Live(s) /\ session[s].conn \in {"pending", "open", "full"}
    /\ IF err /\ session[s].notopen THEN attempt_connection(s, session[s])
       ELSE destroy_session(s, session[s])
    /\ UNCHANGED <<routed, refused>>

\* The timer of initialize_session.
ConnectTimeout(s) ==
    /\ session[s].armed /\ session[s].type = "s2sout_unauthed"
    /\ session_close(s, session[s])
    /\ UNCHANGED <<routed, refused>>

----------------------------------------------------------------------------
(* What the remote server sends.  Only a stream header is understood while *)
(* no stream is open.                                                      *)

Hears(s) == Live(s) /\ session[s].conn \in {"open", "full"}
Receives(s) == Hears(s) /\ ~session[s].notopen

initiate_dialback(s) == Becomes(s, [session[s] EXCEPT !.dialback_key = TRUE])

(* _streamopened: refused without a stream id or with a certificate the    *)
(* policy forbids; a server older than 1.0 sends no features.              *)
streamopened(s) ==
    LET r == [session[s] EXCEPT !.notopen = FALSE,
                                !.secure = IF @ = "false" THEN "true" ELSE @]
    IN  /\ Hears(s) /\ session[s].notopen
        /\ \/ session_close(s, r)
           \/ Becomes(s, r)
           \/ Becomes(s, [r EXCEPT !.dialback_key = TRUE])
        /\ UNCHANGED <<routed, refused>>

\* </stream:stream>, a stream error or data that is not well-formed.
StreamEnds(s) == Hears(s) /\ session_close(s, session[s]) /\ UNCHANGED <<routed, refused>>

(* The hooks of <stream:features/> in the order of their priority: what    *)
(* makes mod_tls, mod_saslauth and mod_dialback answer.                    *)
offers_tls(r, starttls) == starttls /\ r.secure = "nil"
offers_external(r, external) == external /\ r.type = "s2sout_unauthed" /\ r.secure = "true"
wants_dialback(r) == r.external_auth \in {"nil", "failed"}

(* <stream:features/>: an offer of STARTTLS is taken up without a change   *)
(* of state; a stream authenticated by SASL is now complete.               *)
features(s, starttls, external) ==
    LET r == session[s]
    IN  /\ Receives(s) /\ ~offers_tls(r, starttls)
        /\ IF offers_external(r, external) THEN Becomes(s, [r EXCEPT !.external_auth = "attempting"])
           ELSE IF wants_dialback(r) THEN initiate_dialback(s)
           ELSE IF r.type = "s2sout" THEN mark_connected(s, r)
           ELSE session_close(s, r)
        /\ UNCHANGED <<routed, refused>>

\* reset_stream, after which the peer has to send a new header.
ResetStream(r) == [r EXCEPT !.notopen = TRUE, !.ready = FALSE]

\* <proceed/>, to a <starttls/> or unasked.
proceed(s) ==
    LET r == session[s]
    IN  /\ Receives(s)
        /\ IF r.type = "s2sout_unauthed" /\ r.secure = "nil"
           THEN Becomes(s, [ResetStream(r) EXCEPT !.secure = "false"])
           ELSE session_close(s, r)
        /\ UNCHANGED <<routed, refused>>

(* make_authenticated: without the encryption the policy wants the session *)
(* is closed, after which it has no type that could be raised; one that is *)
(* authenticated already is left alone.                                    *)
\* Mutation: the session is not closed for lack of encryption.
Mut_make_authenticated(s, r) ==
    LET authed == [r EXCEPT !.type = "s2sout", !.accepted = TRUE]
    IN  /\ r.type = "s2sout_unauthed"
        /\ \/ r.external_auth # "succeeded" /\ mark_connected(s, authed)
           \/ r.external_auth = "succeeded" /\ Becomes(s, authed)
make_authenticated(s, r) ==
    LET authed == [r EXCEPT !.type = "s2sout", !.accepted = TRUE]
    IN  \/ r.secure # "true" /\ RequireEncryption /\ session_close(s, r)
        \/ /\ r.secure = "true" \/ ~RequireEncryption
           /\ r.type = "s2sout_unauthed"
           /\ \/ r.external_auth # "succeeded" /\ mark_connected(s, authed)
              \/ r.external_auth = "succeeded" /\ Becomes(s, authed)

\* <success/>: the stream is restarted; its features will complete it.
success(s) ==
    LET r == session[s]
    IN  /\ Receives(s)
        /\ IF r.type = "s2sout_unauthed" /\ r.external_auth = "attempting"
           THEN make_authenticated(s, [ResetStream(r) EXCEPT !.external_auth = "succeeded",
                                                             !.past = @ \cup {"external"}])
           ELSE session_close(s, r)
        /\ UNCHANGED <<routed, refused>>

\* <failure/>: dialback is tried instead.
failure(s) ==
    LET r == session[s]
    IN  /\ Receives(s)
        /\ IF (r.type = "s2sout_unauthed" /\ r.external_auth = "attempting") \/ r.external_auth = "failed"
           THEN Becomes(s, [r EXCEPT !.external_auth = "failed", !.dialback_key = TRUE])
           ELSE session_close(s, r)
        /\ UNCHANGED <<routed, refused>>

\* <db:result/>: the peer's verdict on our dialback key.
dialback_result(s, valid) ==
    LET r == session[s]
    IN  /\ Receives(s)
        /\ IF s2sout # s \/ ~valid THEN session_close(s, r)
           ELSE make_authenticated(s, r)
        /\ UNCHANGED <<routed, refused>>

----------------------------------------------------------------------------
(* Routing. *)

\* sends2s of an authenticated session: what it writes, if it can.
sends2s(s, m) ==
    /\ session[s].conn \in {"pending", "open"}
    /\ wire' = Append(wire, Written(m, session[s]))
    /\ UNCHANGED <<session, s2sout, bounced, refused, lost>>

(* route_to_new_session for the session table as sess; the lookup may be   *)
(* impossible to send, and then the session fails before the function      *)
(* returns: its queue is bounced and the router answers as well.           *)
route_to_new_session(m, sess) ==
    \E s \in Sessions :
        /\ session[s].type = "none"
        /\ \/ /\ session' = [sess EXCEPT ![s] = new_outgoing(m)]
              /\ s2sout' = s
              /\ UNCHANGED <<bounced, refused>>
           \/ /\ session' = [sess EXCEPT ![s] = [retire_session(new_outgoing(m)) EXCEPT !.lookups = {}]]
              /\ s2sout' = None
              /\ bounced' = bounce_sendq(<<m>>)
              /\ refused' = refused \cup {m}
        /\ UNCHANGED <<wire, lost>>

(* route_to_existing_session, and the next handler if that one could not   *)
(* write the stanza.                                                       *)
RouteToExisting(s, m) ==
    \/ /\ session[s].type = "s2sout_unauthed"
       /\ Becomes(s, [session[s] EXCEPT !.sendq = Append(@, m)])
       /\ UNCHANGED refused
    \/ session[s].type = "s2sout" /\ sends2s(s, m)
    \/ /\ session[s].type = "s2sout"
       /\ route_to_new_session(m, [session EXCEPT ![s].past = @ \cup {"failed"},
                                   ![s].conn = IF @ = "closed" THEN @ ELSE "full"])

Route(m) ==
    /\ m \notin ToSet(routed)
    /\ routed' = Append(routed, m)
    /\ IF s2sout = None THEN route_to_new_session(m, session)
       ELSE RouteToExisting(s2sout, m)

(* A telnet administrator or server-stopping closes the session; both find *)
(* it by its connection.                                                   *)
AdminClose(s) ==
    /\ Live(s) /\ session[s].conn \in {"pending", "open", "full"}
    /\ session_close(s, session[s])
    /\ UNCHANGED <<routed, refused>>

SessionNext(s) ==
    \/ SRVReply(s)
    \/ \E f \in Families : AddressReply(s, f)
    \/ onconnect(s)
    \/ \E err \in BOOLEAN : ondisconnect(s, err)
    \/ ConnectTimeout(s)
    \/ streamopened(s)
    \/ StreamEnds(s)
    \/ \E starttls, external \in BOOLEAN : features(s, starttls, external)
    \/ proceed(s)
    \/ success(s)
    \/ failure(s)
    \/ \E valid \in BOOLEAN : dialback_result(s, valid)
    \/ AdminClose(s)

Next ==
    \/ \E m \in Stanzas : Route(m)
    \/ \E s \in Sessions : SessionNext(s)

Spec == Init /\ [][Next]_vars

(* A lookup is answered or given up after dns_timeout, and a timer fires.  *)
(* Nothing is assumed of connections and of the remote server.             *)
Fairness ==
    \A s \in Sessions :
        /\ WF_vars(SRVReply(s))
        /\ \A f \in Families : WF_vars(AddressReply(s, f))
        /\ WF_vars(ConnectTimeout(s))

FairSpec == Spec /\ Fairness

----------------------------------------------------------------------------
(* Properties. *)

Session ==
    [type : {"none", "s2sout_unauthed", "s2sout", "s2s_destroyed"},
     lookups : SUBSET ({"SRV"} \cup Families), srv : 0 .. MaxSRV, ips : NoList .. MaxIPs,
     conn : {"none", "pending", "open", "full", "closed"}, notopen : BOOLEAN,
     secure : {"nil", "false", "true"},
     external_auth : {"nil", "attempting", "succeeded", "failed"},
     dialback_key : BOOLEAN, armed : BOOLEAN, sendq : Seq(Stanzas),
     accepted : BOOLEAN, ready : BOOLEAN, past : SUBSET {"failed", "external"}]

(* Types; in particular the queue of a destroyed session is gone. *)
TypeOK ==
    /\ session \in [Sessions -> Session]
    /\ s2sout \in Sessions \cup {None}
    /\ \A s \in Sessions : ~Live(s) => session[s].sendq = << >>
    /\ bounced \in [Stanzas -> Nat]
    /\ refused \subseteq Stanzas /\ lost \subseteq Stanzas

Smooth == \A s \in Sessions : "failed" \notin session[s].past

(* As long as no write has failed, hosts[from].s2sout[to] is the one live  *)
(* session, through every failed attempt, timeout and late lookup.  (After *)
(* a failed write route_to_new_session replaces the entry, and destroying  *)
(* the old session then removes the new one's.)                            *)
OneSession == Smooth => \A s \in Sessions : Live(s) <=> s2sout = s

(* A routed stanza is in exactly one place: in the queue of one session,   *)
(* written, answered by bounce_sendq, or lost in a write that failed.      *)
OnceEach ==
    \A m \in ToSet(routed) :
        LET queued(s) == Copies(m, session[s].sendq)
            holders == {s \in Sessions : queued(s) > 0}
        IN  /\ \A s \in holders : queued(s) = 1
            /\ Cardinality(holders) + bounced[m] + (IF m \in lost THEN 1 ELSE 0)
                 + Cardinality({i \in DOMAIN wire : wire[i].stanza = m}) = 1

Position(m) == CHOOSE i \in DOMAIN routed : routed[i] = m

(* Stanzas leave in the order in which they were routed, those that waited *)
(* in the queue and those that did not, unless a write failed or a stream  *)
(* was authenticated by SASL EXTERNAL.                                     *)
InOrder ==
    Smooth /\ (\A i \in DOMAIN wire : wire[i].past = {})
      => \A i, j \in DOMAIN wire : i < j => Position(wire[i].stanza) < Position(wire[j].stanza)

(* Every routed stanza is accounted for once, and in its place             *)
(* (mod_s2s.lua:100-245).                                                  *)
StanzasAccounted == TypeOK /\ OnceEach /\ InOrder

(* A stanza is only written on a connection on which the peer has accepted *)
(* us, which is ready for stanzas and, if required, encrypted; whatever    *)
(* earlier attempts of the same session had reached.  (SASL EXTERNAL       *)
(* streams: see ReadyForStanzas.)                                          *)
Accepted(w) == w.accepted /\ w.ready /\ (RequireEncryption => w.secure)
SentWhenReady == \A i \in DOMAIN wire : "external" \in wire[i].past \/ Accepted(wire[i])

(* No stanza waits for ever: it is sent or answered, without any help of   *)
(* the remote server, except behind a stream that SASL EXTERNAL has        *)
(* authenticated, for which no timer runs.                                 *)
QueueEmpties ==
    \A s \in Sessions :
        session[s].sendq # << >> ~> (session[s].sendq = << >> \/ "external" \in session[s].past)

(* What the comments of mod_s2s say of every stream: only after            *)
(* mark_connected is it "ready for stanzas".                               *)
ReadyForStanzas == \A i \in DOMAIN wire : wire[i].ready
=============================================================================
