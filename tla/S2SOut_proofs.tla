--------------------------- MODULE S2SOut_proofs ---------------------------
(***************************************************************************)
(* The safety invariants of S2SOut, for any number of sessions, stanzas,   *)
(* SRV records and addresses, with and without required encryption.        *)
(***************************************************************************)
EXTENDS S2SOut, SequenceTheorems, FiniteSetTheorems, TLAPS

LiveTypes == {"s2sout_unauthed", "s2sout"}
Connected == {"pending", "open", "full"}
WireRec == [stanza : Stanzas, accepted : BOOLEAN, ready : BOOLEAN, secure : BOOLEAN,
            past : SUBSET {"failed", "external"}]

Plain(r) == "external" \notin r.past

(* What holds of every session object.  An authenticated one that owes its *)
(* authentication to dialback is on the connection on which it got it, and *)
(* its queue was written; while it has a connection no lookup is under way,*)
(* whose reply would replace the connection.                               *)
Sound(r) ==
    /\ r \in Session
    /\ r.type \notin LiveTypes => r.sendq = << >>
    /\ r.type = "none" => r.past = {}
    /\ r.type = "s2sout" => r.conn # "none"
    /\ r.type \in LiveTypes /\ r.conn \in Connected => r.lookups = {}
    /\ r.external_auth = "succeeded" => ~Plain(r)
    /\ r.type = "s2sout" /\ Plain(r) =>
          /\ r.conn \in Connected /\ ~r.notopen /\ r.accepted /\ r.ready /\ r.sendq = << >>
          /\ RequireEncryption => r.secure = "true"

-----------------------------------------------------------------------------
(* What a callback may do to its session: change it, *)
Kept(s, r) ==
    /\ Sound(r) /\ r.sendq = session[s].sendq /\ session[s].past \subseteq r.past
    /\ r.type \in LiveTypes <=> Live(s)

(* ... end it, *)
Ended(s, r) ==
    /\ Live(s) /\ r \in Session /\ r.sendq = session[s].sendq /\ session[s].past \subseteq r.past

(* ... or open it for stanzas. *)
Opened(s, r) ==
    /\ Ended(s, r) /\ r.type = "s2sout" /\ r.lookups = {} /\ ~r.notopen /\ r.conn \in {"open", "full"}
    /\ r.external_auth = "succeeded" => ~Plain(r)
    /\ Plain(r) => r.accepted /\ (RequireEncryption => r.secure = "true")

Effect(s) ==
    \/ \E r : Kept(s, r) /\ Becomes(s, r)
    \/ \E r : Ended(s, r) /\ destroy_session(s, r)
    \/ \E r : Opened(s, r) /\ mark_connected(s, r)

(* make_connect keeps what the session is and has queued. *)
LEMMA ConnectingFacts ==
    ASSUME NEW r \in Session, NEW left \in 0 .. r.ips - 1
    PROVE  LET c == Connecting(r, left)
           IN  /\ c \in Session /\ c.type = r.type /\ c.sendq = r.sendq /\ c.past = r.past
               /\ c.lookups = r.lookups /\ c.external_auth = r.external_auth /\ c.conn = "pending"
  <1>1. r.ips \in NoList .. MaxIPs
    BY DEF Session
  <1>2. left \in NoList .. MaxIPs
    BY <1>1, BoundsAssumption DEF NoList
  <1> QED BY <1>2 DEF Session, Connecting

(* try_connect too; a connection it had is given up. *)
LEMMA ResolvingFacts ==
    ASSUME NEW r \in Session, NEW left \in 0 .. MaxSRV
    PROVE  LET c == Resolving(r, left)
           IN  /\ c \in Session /\ c.type = r.type /\ c.sendq = r.sendq /\ c.past = r.past
               /\ c.conn = (IF r.conn = "none" THEN "none" ELSE "closed")
               /\ c.external_auth = r.external_auth
  <1>1. 0 \in NoList .. MaxIPs
    BY BoundsAssumption DEF NoList
  <1> QED BY <1>1 DEF Session, Resolving

(* The next attempt keeps the session or ends it. *)
LEMMA AttemptEffect ==
    ASSUME NEW s \in Sessions, Live(s), NEW r, Sound(r), r.lookups = {},
           r.type = session[s].type, r.sendq = session[s].sendq, r.past = session[s].past,
           r.type = "s2sout" => ~Plain(r),
           attempt_connection(s, r)
    PROVE  Effect(s)
  <1>1. CASE \E left \in 0 .. r.ips - 1 : Becomes(s, Connecting(r, left))
    <2>1. PICK left \in 0 .. r.ips - 1 : Becomes(s, Connecting(r, left))
      BY <1>1
    <2>2. Kept(s, Connecting(r, left))
      BY ConnectingFacts DEF Kept, Sound, Live, LiveTypes, Plain
    <2> QED BY <2>1, <2>2 DEF Effect
  <1>2. CASE r.srv > 0 /\ Becomes(s, Resolving(r, r.srv - 1))
    <2>0. r.srv - 1 \in 0 .. MaxSRV
      <3>1. r.srv \in 0 .. MaxSRV
        BY DEF Sound, Session
      <3> QED BY <1>2, <3>1, BoundsAssumption
    <2>1. Kept(s, Resolving(r, r.srv - 1))
      BY <2>0, ResolvingFacts DEF Kept, Sound, Live, LiveTypes, Connected, Plain
    <2> QED BY <1>2, <2>1 DEF Effect
  <1>3. CASE r.srv = 0 /\ destroy_session(s, r)
    BY <1>3 DEF Effect, Ended, Sound
  <1> QED BY <1>1, <1>2, <1>3 DEF attempt_connection

(* The callback of the SRV lookup looks up the addresses of a target, ends *)
(* the session when there is no service, and does nothing to one that was  *)
(* destroyed meanwhile.                                                    *)
LEMMA SRVEffect ==
    ASSUME NEW s \in Sessions, Sound(session[s]), SRVReply(s)
    PROVE  Effect(s)
  <1> DEFINE r == [session[s] EXCEPT !.lookups = @ \ {"SRV"}]
  <1>1. r \in Session /\ r.sendq = session[s].sendq /\ r.past = session[s].past
    BY DEF Sound, Session
  <1>2. CASE ~Live(s) /\ Becomes(s, r)
    <2>1. Kept(s, r)
      BY <1>1, <1>2 DEF Kept, Sound, Live, LiveTypes, Plain, Session
    <2> QED BY <1>2, <2>1 DEF Effect
  <1>3. CASE Live(s) /\ \E n \in 0 .. MaxSRV : Becomes(s, Resolving(r, IF n = 0 THEN 0 ELSE n - 1))
    <2>1. PICK n \in 0 .. MaxSRV : Becomes(s, Resolving(r, IF n = 0 THEN 0 ELSE n - 1))
      BY <1>3
    <2> DEFINE left == IF n = 0 THEN 0 ELSE n - 1
    <2>2. Kept(s, Resolving(r, left))
      <3>1. left \in 0 .. MaxSRV
        BY BoundsAssumption
      <3>2. r.type = session[s].type /\ r.external_auth = session[s].external_auth /\ r.conn = session[s].conn
        BY DEF Sound, Session
      <3>3. session[s].lookups # {}
        BY DEF SRVReply
      <3> HIDE DEF r, left
      <3>4. PICK c : c = Resolving(r, left)
        OBVIOUS
      <3>5. /\ c \in Session /\ c.type = r.type /\ c.sendq = r.sendq /\ c.past = r.past
            /\ c.conn = (IF r.conn = "none" THEN "none" ELSE "closed")
            /\ c.external_auth = r.external_auth
        BY ONLY <1>1, <3>1, <3>4, ResolvingFacts
      <3>6. Kept(s, c)
        BY <1>1, <1>3, <3>2, <3>3, <3>5 DEF Kept, Sound, Live, LiveTypes, Connected, Plain
      <3> QED BY ONLY <3>4, <3>6
    <2> QED BY <2>1, <2>2 DEF Effect
  <1>4. CASE Live(s) /\ MaxSRV > 0 /\ destroy_session(s, r)
    BY <1>1, <1>4 DEF Effect, Ended
  <1> QED BY <1>2, <1>3, <1>4 DEF SRVReply

(* The callback of an address lookup collects addresses; the last one goes *)
(* on to the next attempt.  None can come for a session with a connection. *)
LEMMA AddressEffect ==
    ASSUME NEW s \in Sessions, NEW f \in Families, Sound(session[s]), AddressReply(s, f)
    PROVE  Effect(s)
  <1> DEFINE r == [session[s] EXCEPT !.lookups = @ \ {f}]
  <1>0. session[s].ips \in NoList .. MaxIPs /\ session[s].lookups # {}
    BY DEF AddressReply, Sound, Session
  <1>1. /\ r \in Session /\ r.sendq = session[s].sendq /\ r.past = session[s].past /\ r.type = session[s].type
        /\ r.conn = session[s].conn /\ r.external_auth = session[s].external_auth
    BY DEF Sound, Session
  <1>2. CASE ~Live(s) /\ Becomes(s, r)
    <2>1. Kept(s, r)
      BY <1>1, <1>2 DEF Kept, Sound, Live, LiveTypes, Plain, Session
    <2> QED BY <1>2, <2>1 DEF Effect
  <1>3. ASSUME Live(s), NEW total \in session[s].ips .. MaxIPs, r.lookups # {},
               Becomes(s, [r EXCEPT !.ips = total])
        PROVE  Effect(s)
    <2> DEFINE q == [r EXCEPT !.ips = total]
    <2>1. Kept(s, q)
      <3>1. total \in NoList .. MaxIPs
        BY <1>0, <1>3, BoundsAssumption DEF NoList
      <3>2. q \in Session /\ q.type = session[s].type /\ q.sendq = session[s].sendq
            /\ q.past = session[s].past /\ q.conn = session[s].conn /\ q.external_auth = session[s].external_auth
        BY <1>1, <1>3, <3>1 DEF Session
      <3>3. session[s].conn \notin Connected
        BY <1>3, <1>0 DEF Sound, Live, LiveTypes
      <3> HIDE DEF r, q
      <3> QED BY <1>3, <3>2, <3>3 DEF Kept, Sound, Live, LiveTypes, Plain
    <2> QED BY <1>3, <2>1 DEF Effect
  <1>4. ASSUME Live(s), NEW total \in session[s].ips .. MaxIPs, r.lookups = {},
               attempt_connection(s, [r EXCEPT !.ips = IF total = 0 THEN NoList ELSE total])
        PROVE  Effect(s)
    <2> DEFINE q == [r EXCEPT !.ips = IF total = 0 THEN NoList ELSE total]
    <2>1. /\ Sound(q) /\ q.lookups = {} /\ q.type = session[s].type /\ q.sendq = session[s].sendq
          /\ q.past = session[s].past /\ (q.type = "s2sout" => ~Plain(q))
      <3>1. (IF total = 0 THEN NoList ELSE total) \in NoList .. MaxIPs
        BY <1>0, <1>4, BoundsAssumption DEF NoList
      <3>2. q \in Session /\ q.lookups = {} /\ q.type = session[s].type /\ q.sendq = session[s].sendq
            /\ q.past = session[s].past /\ q.conn = session[s].conn /\ q.external_auth = session[s].external_auth
        BY <1>1, <1>4, <3>1 DEF Session
      <3>3. session[s].conn \notin Connected
        BY <1>4, <1>0 DEF Sound, Live, LiveTypes
      <3> HIDE DEF r, q
      <3> QED BY <1>4, <3>2, <3>3 DEF Sound, Live, LiveTypes, Plain
    <2> HIDE DEF q
    <2>2. attempt_connection(s, q)
      BY <1>4 DEF q
    <2> QED BY <1>4, <2>1, <2>2, AttemptEffect
  <1> QED BY <1>2, <1>3, <1>4 DEF AddressReply

(* onconnect sends our stream header. *)
LEMMA ConnectEffect ==
    ASSUME NEW s \in Sessions, Sound(session[s]), onconnect(s)
    PROVE  Effect(s)
  <1> DEFINE r == [session[s] EXCEPT !.conn = "open"]
  <1>1. /\ r \in Session /\ r.type = session[s].type /\ r.sendq = session[s].sendq /\ r.past = session[s].past
        /\ r.conn = "open" /\ r.lookups = session[s].lookups /\ r.notopen = session[s].notopen
        /\ r.external_auth = session[s].external_auth /\ r.accepted = session[s].accepted
        /\ r.ready = session[s].ready /\ r.secure = session[s].secure
    BY DEF Sound, Session
  <1>2. session[s].conn = "pending" /\ Becomes(s, r)
    BY DEF onconnect
  <1> HIDE DEF r
  <1>3. Kept(s, r)
    BY <1>1, <1>2 DEF Kept, Sound, Live, LiveTypes, Connected, Plain
  <1> QED BY <1>2, <1>3 DEF Effect

(* ondisconnect goes on to the next attempt or ends the session; an        *)
(* authenticated session goes on only if SASL EXTERNAL restarted its       *)
(* stream.                                                                 *)
LEMMA DisconnectEffect ==
    ASSUME NEW s \in Sessions, NEW err \in BOOLEAN, Sound(session[s]), ondisconnect(s, err)
    PROVE  Effect(s)
  <1>1. Live(s) /\ session[s].conn \in Connected
    BY DEF ondisconnect, Connected
  <1>2. CASE err /\ session[s].notopen /\ attempt_connection(s, session[s])
    BY <1>1, <1>2, AttemptEffect DEF Sound, Live, LiveTypes
  <1>3. CASE destroy_session(s, session[s])
    BY <1>1, <1>3 DEF Effect, Ended, Sound
  <1> QED BY <1>2, <1>3 DEF ondisconnect

(* session_close ends the session, with what the callback changed before. *)
LEMMA CloseEffect ==
    ASSUME NEW s \in Sessions, Sound(session[s]), Live(s), NEW r \in Session,
           r.sendq = session[s].sendq, session[s].past \subseteq r.past, session_close(s, r)
    PROVE  Effect(s)
  BY DEF session_close, Effect, Ended

(* The peer's stream header. *)
LEMMA StreamOpenedEffect ==
    ASSUME NEW s \in Sessions, Sound(session[s]), streamopened(s)
    PROVE  Effect(s)
  <1> DEFINE r == [session[s] EXCEPT !.notopen = FALSE, !.secure = IF @ = "false" THEN "true" ELSE @]
             q == [r EXCEPT !.dialback_key = TRUE]
  <1>1. Live(s) /\ session[s].notopen /\ session[s].conn \in Connected
    BY DEF streamopened, Hears, Connected
  <1>2. /\ r \in Session /\ r.type = session[s].type /\ r.sendq = session[s].sendq /\ r.past = session[s].past
        /\ r.conn = session[s].conn /\ r.lookups = session[s].lookups
        /\ r.external_auth = session[s].external_auth
    BY DEF Sound, Session
  <1>3. /\ q \in Session /\ q.type = session[s].type /\ q.sendq = session[s].sendq /\ q.past = session[s].past
        /\ q.conn = session[s].conn /\ q.lookups = session[s].lookups
        /\ q.external_auth = session[s].external_auth
    BY DEF Sound, Session
  <1>4. session_close(s, r) \/ Becomes(s, r) \/ Becomes(s, q)
    BY DEF streamopened
  <1> HIDE DEF r, q
  <1>5. Kept(s, r) /\ Kept(s, q)
    BY <1>1, <1>2, <1>3 DEF Kept, Sound, Live, LiveTypes, Plain
  <1>6. CASE session_close(s, r)
    BY <1>1, <1>2, <1>6, CloseEffect
  <1> QED BY <1>4, <1>5, <1>6 DEF Effect

(* Timeout, end of stream and an administrator end the session. *)
LEMMA ClosingEffect ==
    ASSUME NEW s \in Sessions, Sound(session[s]), ConnectTimeout(s) \/ StreamEnds(s) \/ AdminClose(s)
    PROVE  Effect(s)
  BY CloseEffect DEF ConnectTimeout, StreamEnds, AdminClose, Hears, Live, Sound

(* An element that only changes how far authentication has come. *)
LEMMA ProgressEffect ==
    ASSUME NEW s \in Sessions, Sound(session[s]), Live(s), NEW r \in Session, Becomes(s, r),
           r.type = session[s].type, r.sendq = session[s].sendq, r.past = session[s].past,
           r.conn = session[s].conn, r.lookups = session[s].lookups,
           r.external_auth = "succeeded" => session[s].external_auth = "succeeded",
           \/ r.type # "s2sout"
           \/ /\ r.notopen = session[s].notopen /\ r.accepted = session[s].accepted
              /\ r.ready = session[s].ready /\ r.secure = session[s].secure
    PROVE  Effect(s)
  <1>1. Kept(s, r)
    BY DEF Kept, Sound, Live, LiveTypes, Plain
  <1> QED BY <1>1 DEF Effect

(* Features start SASL EXTERNAL or dialback, complete a stream that SASL   *)
(* authenticated, or end the session.                                      *)
LEMMA FeaturesEffect ==
    ASSUME NEW s \in Sessions, NEW starttls \in BOOLEAN, NEW external \in BOOLEAN,
           Sound(session[s]), features(s, starttls, external)
    PROVE  Effect(s)
  <1>1. Live(s) /\ session[s].conn \in {"open", "full"} /\ ~session[s].notopen
    BY DEF features, Receives, Hears
  <1> DEFINE r == [session[s] EXCEPT !.external_auth = "attempting"]
             q == [session[s] EXCEPT !.dialback_key = TRUE]
  <1>2. ASSUME Becomes(s, r), offers_external(session[s], external) PROVE Effect(s)
    <2>1. session[s].type # "s2sout"
      BY <1>2 DEF offers_external
    <2>2. /\ r \in Session /\ r.type = session[s].type /\ r.sendq = session[s].sendq /\ r.past = session[s].past
          /\ r.conn = session[s].conn /\ r.lookups = session[s].lookups /\ r.external_auth = "attempting"
      BY DEF Sound, Session
    <2> HIDE DEF r
    <2> QED BY <1>1, <1>2, <2>1, <2>2, ProgressEffect
  <1>3. ASSUME Becomes(s, q) PROVE Effect(s)
    <2>1. /\ q \in Session /\ q.type = session[s].type /\ q.sendq = session[s].sendq /\ q.past = session[s].past
          /\ q.conn = session[s].conn /\ q.lookups = session[s].lookups
          /\ q.external_auth = session[s].external_auth /\ q.notopen = session[s].notopen
          /\ q.accepted = session[s].accepted /\ q.ready = session[s].ready /\ q.secure = session[s].secure
      BY DEF Sound, Session
    <2> HIDE DEF q
    <2> QED BY <1>1, <1>3, <2>1, ProgressEffect
  <1>4. ASSUME session[s].type = "s2sout", mark_connected(s, session[s]) PROVE Effect(s)
    <2>1. Opened(s, session[s])
      BY <1>1, <1>4 DEF Opened, Ended, Sound, LiveTypes, Connected
    <2> QED BY <1>4, <2>1 DEF Effect
  <1>5. ASSUME session_close(s, session[s]) PROVE Effect(s)
    BY <1>1, <1>5, CloseEffect DEF Sound
  <1>6. \/ Becomes(s, r) /\ offers_external(session[s], external)
        \/ Becomes(s, q)
        \/ session[s].type = "s2sout" /\ mark_connected(s, session[s])
        \/ session_close(s, session[s])
    BY DEF features, initiate_dialback
  <1> HIDE DEF r, q
  <1> QED BY <1>2, <1>3, <1>4, <1>5, <1>6

(* STARTTLS restarts the stream of a session not yet authenticated. *)
LEMMA ProceedEffect ==
    ASSUME NEW s \in Sessions, Sound(session[s]), proceed(s)
    PROVE  Effect(s)
  <1>1. Live(s)
    BY DEF proceed, Receives, Hears
  <1> DEFINE r == [ResetStream(session[s]) EXCEPT !.secure = "false"]
  <1>2. CASE session[s].type = "s2sout_unauthed" /\ Becomes(s, r)
    <2>1. /\ r \in Session /\ r.type = session[s].type /\ r.sendq = session[s].sendq /\ r.past = session[s].past
          /\ r.conn = session[s].conn /\ r.lookups = session[s].lookups
          /\ r.external_auth = session[s].external_auth
      BY DEF Sound, Session, ResetStream
    <2> HIDE DEF r
    <2> QED BY <1>1, <1>2, <2>1, ProgressEffect
  <1>3. CASE session_close(s, session[s])
    BY <1>1, <1>3, CloseEffect DEF Sound
  <1> QED BY <1>2, <1>3 DEF proceed

(* After a failed SASL EXTERNAL dialback is tried. *)
LEMMA FailureEffect ==
    ASSUME NEW s \in Sessions, Sound(session[s]), failure(s)
    PROVE  Effect(s)
  <1>1. Live(s)
    BY DEF failure, Receives, Hears
  <1> DEFINE r == [session[s] EXCEPT !.external_auth = "failed", !.dialback_key = TRUE]
  <1>2. CASE Becomes(s, r)
    <2>1. /\ r \in Session /\ r.type = session[s].type /\ r.sendq = session[s].sendq /\ r.past = session[s].past
          /\ r.conn = session[s].conn /\ r.lookups = session[s].lookups
          /\ r.external_auth = "failed" /\ r.notopen = session[s].notopen
          /\ r.accepted = session[s].accepted /\ r.ready = session[s].ready /\ r.secure = session[s].secure
      BY DEF Sound, Session
    <2> HIDE DEF r
    <2> QED BY <1>1, <1>2, <2>1, ProgressEffect
  <1>3. CASE session_close(s, session[s])
    BY <1>1, <1>3, CloseEffect DEF Sound
  <1> QED BY <1>2, <1>3 DEF failure

(* make_authenticated opens the session, leaves that to the features of    *)
(* the restarted stream after SASL, or ends it for lack of encryption.     *)
LEMMA AuthenticatedEffect ==
    ASSUME NEW s \in Sessions, Sound(session[s]), Receives(s), NEW r \in Session,
           r.type = session[s].type, r.sendq = session[s].sendq, session[s].past \subseteq r.past,
           r.conn = session[s].conn, r.lookups = session[s].lookups,
           r.external_auth = "succeeded" => ~Plain(r),
           r.external_auth # "succeeded" => r = session[s],
           make_authenticated(s, r)
    PROVE  Effect(s)
  <1>1. Live(s) /\ session[s].conn \in {"open", "full"} /\ ~session[s].notopen
    BY DEF Receives, Hears
  <1> DEFINE a == [r EXCEPT !.type = "s2sout", !.accepted = TRUE]
  <1>2. /\ a \in Session /\ a.type = "s2sout" /\ a.accepted /\ a.sendq = r.sendq /\ a.past = r.past
        /\ a.conn = r.conn /\ a.lookups = r.lookups /\ a.external_auth = r.external_auth
        /\ a.notopen = r.notopen /\ a.secure = r.secure
    BY DEF Session
  <1>3. session[s].lookups = {}
    BY <1>1 DEF Sound, Live, LiveTypes, Connected
  <1>4. CASE session_close(s, r)
    BY <1>1, <1>4, CloseEffect
  <1>5. ASSUME r.secure = "true" \/ ~RequireEncryption, r.external_auth # "succeeded", mark_connected(s, a)
        PROVE  Effect(s)
    <2> HIDE DEF a
    <2>1. Opened(s, a)
      BY <1>1, <1>2, <1>3, <1>5 DEF Opened, Ended, Sound
    <2> QED BY <1>5, <2>1 DEF Effect
  <1>6. ASSUME r.external_auth = "succeeded", Becomes(s, a)
        PROVE  Effect(s)
    <2> HIDE DEF a
    <2>1. Kept(s, a)
      BY <1>1, <1>2, <1>3, <1>6 DEF Kept, Sound, Live, LiveTypes, Plain
    <2> QED BY <1>6, <2>1 DEF Effect
  <1>7. \/ session_close(s, r)
        \/ (r.secure = "true" \/ ~RequireEncryption) /\ r.external_auth # "succeeded" /\ mark_connected(s, a)
        \/ r.external_auth = "succeeded" /\ Becomes(s, a)
    BY DEF make_authenticated
  <1> HIDE DEF a
  <1> QED BY <1>4, <1>5, <1>6, <1>7

(* SASL EXTERNAL succeeded. *)
LEMMA SuccessEffect ==
    ASSUME NEW s \in Sessions, Sound(session[s]), success(s)
    PROVE  Effect(s)
  <1>1. Live(s) /\ Receives(s)
    BY DEF success, Receives, Hears
  <1> DEFINE r == [ResetStream(session[s]) EXCEPT !.external_auth = "succeeded", !.past = @ \cup {"external"}]
  <1>2. CASE make_authenticated(s, r)
    <2>1. /\ r \in Session /\ r.type = session[s].type /\ r.sendq = session[s].sendq
          /\ r.past = session[s].past \cup {"external"}
          /\ r.conn = session[s].conn /\ r.lookups = session[s].lookups /\ r.external_auth = "succeeded"
      BY DEF Sound, Session, ResetStream
    <2> HIDE DEF r
    <2>2. ~Plain(r)
      BY <2>1 DEF Plain
    <2> QED BY <1>1, <1>2, <2>1, <2>2, AuthenticatedEffect
  <1>3. CASE session_close(s, session[s])
    BY <1>1, <1>3, CloseEffect DEF Sound
  <1> QED BY <1>2, <1>3 DEF success

(* The peer's verdict on our key. *)
LEMMA DialbackEffect ==
    ASSUME NEW s \in Sessions, NEW valid \in BOOLEAN, Sound(session[s]), dialback_result(s, valid)
    PROVE  Effect(s)
  <1>1. Live(s) /\ Receives(s)
    BY DEF dialback_result, Receives, Hears
  <1>2. CASE make_authenticated(s, session[s])
    BY <1>1, <1>2, AuthenticatedEffect DEF Sound
  <1>3. CASE session_close(s, session[s])
    BY <1>1, <1>3, CloseEffect DEF Sound
  <1> QED BY <1>2, <1>3 DEF dialback_result

(* Every callback keeps its session, ends it or opens it, and routes       *)
(* nothing.                                                                *)
LEMMA SessionEffect ==
    ASSUME NEW s \in Sessions, Sound(session[s]), SessionNext(s)
    PROVE  Effect(s) /\ UNCHANGED <<routed, refused>>
  <1>1. Effect(s)
    BY SRVEffect, AddressEffect, ConnectEffect, DisconnectEffect, ClosingEffect, StreamOpenedEffect,
       FeaturesEffect, ProceedEffect, SuccessEffect, FailureEffect, DialbackEffect DEF SessionNext
  <1>2. UNCHANGED <<routed, refused>>
    BY DEF SessionNext, SRVReply, AddressReply, onconnect, ondisconnect, ConnectTimeout, streamopened,
           StreamEnds, features, proceed, success, failure, dialback_result, AdminClose
  <1> QED BY <1>1, <1>2

-----------------------------------------------------------------------------
(* The inductive invariant.                                                *)

HasIn(q, m) == \E i \in 1..Len(q) : q[i] = m
Queued(f, m) == \E s \in Sessions : HasIn(f[s].sendq, m)
OnWire(w, m) == \E i \in 1..Len(w) : w[i].stanza = m
Before(q, a, b) == \E i, j \in 1..Len(q) : i < j /\ q[i] = a /\ q[j] = b

TypeInv ==
    /\ session \in [Sessions -> Session]
    /\ \A s \in Sessions : Sound(session[s])
    /\ s2sout \in Sessions \cup {None}
    /\ routed \in Seq(Stanzas) /\ wire \in Seq(WireRec)
    /\ bounced \in [Stanzas -> Nat] /\ refused \subseteq Stanzas /\ lost \subseteq Stanzas

(* A stanza is in at most one place, and is routed exactly if it is in one. *)
PlaceInv ==
    /\ \A i, j \in 1..Len(wire) : wire[i].stanza = wire[j].stanza => i = j
    /\ \A m \in Stanzas :
          /\ \A s, t \in Sessions : HasIn(session[s].sendq, m) /\ HasIn(session[t].sendq, m) => s = t
          /\ bounced[m] \in {0, 1}
          /\ HasIn(routed, m) <=> Queued(session, m) \/ OnWire(wire, m) \/ m \in lost \/ bounced[m] = 1
          /\ Queued(session, m) => ~OnWire(wire, m) /\ m \notin lost /\ bounced[m] = 0
          /\ OnWire(wire, m) => m \notin lost /\ bounced[m] = 0
          /\ m \in lost => bounced[m] = 0

Regular == Smooth /\ \A i \in 1..Len(wire) : wire[i].past = {}

(* Queues are in the order of routing; and what was written came before    *)
(* what waits.                                                             *)
OrderInv ==
    /\ \A i, j \in 1..Len(routed) : routed[i] = routed[j] => i = j
    /\ \A s \in Sessions : \A i, j \in 1..Len(session[s].sendq) :
          i < j => Before(routed, session[s].sendq[i], session[s].sendq[j])
    /\ Regular =>
          /\ \A i, j \in 1..Len(wire) : i < j => Before(routed, wire[i].stanza, wire[j].stanza)
          /\ \A s \in Sessions : \A i \in 1..Len(wire), j \in 1..Len(session[s].sendq) :
                Before(routed, wire[i].stanza, session[s].sendq[j])

S2SInv == TypeInv /\ OneSession /\ SentWhenReady /\ PlaceInv /\ OrderInv

(* The typing facts that most steps need. *)
LEMMA Types ==
    ASSUME S2SInv
    PROVE  /\ session \in [Sessions -> Session] /\ \A s \in Sessions : Sound(session[s])
           /\ s2sout \in Sessions \cup {None}
           /\ routed \in Seq(Stanzas) /\ wire \in Seq(WireRec)
           /\ Len(routed) \in Nat /\ Len(wire) \in Nat
           /\ bounced \in [Stanzas -> Nat] /\ refused \subseteq Stanzas /\ lost \subseteq Stanzas
           /\ \A s \in Sessions : session[s].sendq \in Seq(Stanzas) /\ Len(session[s].sendq) \in Nat
  <1>1. /\ session \in [Sessions -> Session] /\ \A s \in Sessions : Sound(session[s])
        /\ s2sout \in Sessions \cup {None}
        /\ routed \in Seq(Stanzas) /\ wire \in Seq(WireRec)
        /\ bounced \in [Stanzas -> Nat] /\ refused \subseteq Stanzas /\ lost \subseteq Stanzas
    BY DEF S2SInv, TypeInv
  <1>2. \A s \in Sessions : session[s].sendq \in Seq(Stanzas)
    BY <1>1 DEF Session
  <1> QED BY <1>1, <1>2, LenProperties

(* A queue holds no stanza twice, ... *)
LEMMA Distinct ==
    ASSUME S2SInv, NEW s \in Sessions,
           NEW i \in 1..Len(session[s].sendq), NEW j \in 1..Len(session[s].sendq),
           session[s].sendq[i] = session[s].sendq[j]
    PROVE  i = j
  <1> DEFINE q == session[s].sendq
  <1>1. q \in Seq(Stanzas) /\ Len(q) \in Nat /\ Len(routed) \in Nat
    BY Types
  <1>2. ASSUME NEW k \in 1..Len(q), NEW l \in 1..Len(q), k < l, q[k] = q[l] PROVE FALSE
    <2>1. Before(routed, q[k], q[k])
      BY <1>2 DEF S2SInv, OrderInv
    <2>2. PICK a, b \in 1..Len(routed) : a < b /\ routed[a] = q[k] /\ routed[b] = q[k]
      BY <2>1 DEF Before
    <2>3. a = b
      BY <2>2 DEF S2SInv, OrderInv
    <2> QED BY ONLY <1>1, <2>2, <2>3
  <1> HIDE DEF q
  <1>3. i \in 1..Len(q) /\ j \in 1..Len(q) /\ q[i] = q[j]
    BY DEF q
  <1>4. i < j \/ j < i \/ i = j
    BY ONLY <1>1, <1>3
  <1> QED BY <1>2, <1>3, <1>4

(* ... so that bounce_sendq answers each once. *)
LEMMA CopiesFacts ==
    ASSUME S2SInv, NEW s \in Sessions, NEW m \in Stanzas
    PROVE  Copies(m, session[s].sendq) = IF HasIn(session[s].sendq, m) THEN 1 ELSE 0
  <1> DEFINE q == session[s].sendq
             at == {i \in DOMAIN q : q[i] = m}
  <1>1. DOMAIN q = 1..Len(q)
    BY Types, LenProperties
  <1>2. ASSUME NEW i \in at, NEW j \in at PROVE i = j
    BY <1>1, <1>2, Distinct
  <1>3. CASE at = {}
    <2>1. ~HasIn(q, m)
      BY <1>1, <1>3 DEF HasIn
    <2> QED BY <1>3, <2>1, FS_EmptySet DEF Copies
  <1>4. CASE at # {}
    <2>1. PICK i : i \in at
      BY <1>4
    <2>2. at = {i}
      BY <1>2, <2>1
    <2>3. HasIn(q, m)
      BY <1>1, <2>1 DEF HasIn
    <2>4. Cardinality(at) = 1
      BY <2>2, FS_Singleton
    <2> QED BY <2>3, <2>4 DEF Copies
  <1> QED BY <1>3, <1>4

(* A failed write is not forgotten. *)
LEMMA PastKept ==
    ASSUME S2SInv, \A s \in Sessions : session[s].past \subseteq session'[s].past, Smooth'
    PROVE  Smooth
  BY DEF Smooth

(* A callback that keeps its session. *)
LEMMA KeptKeeps ==
    ASSUME S2SInv, NEW s \in Sessions, NEW r, Kept(s, r), Becomes(s, r), UNCHANGED <<routed, refused>>
    PROVE  S2SInv'
  <1>1. /\ session' = [session EXCEPT ![s] = r] /\ UNCHANGED <<s2sout, wire, bounced, lost>>
        /\ Sound(r) /\ r \in Session /\ r.sendq = session[s].sendq /\ session[s].past \subseteq r.past
        /\ (r.type \in LiveTypes <=> Live(s))
    BY DEF Becomes, Kept, Sound
  <1>2. /\ session' \in [Sessions -> Session]
        /\ \A t \in Sessions : session'[t] = IF t = s THEN r ELSE session[t]
    BY <1>1, Types
  <1>3. \A t \in Sessions : /\ session'[t].sendq = session[t].sendq
                            /\ session[t].past \subseteq session'[t].past
                            /\ Live(t)' <=> Live(t)
    BY <1>1, <1>2 DEF Live, LiveTypes
  <1>4. TypeInv'
    BY <1>1, <1>2, Types DEF TypeInv
  <1>5. OneSession'
    BY <1>1, <1>3, PastKept DEF S2SInv, OneSession
  <1>6. SentWhenReady'
    BY <1>1 DEF S2SInv, SentWhenReady, Accepted
  <1>7. PlaceInv'
    <2>1. \A m : Queued(session', m) <=> Queued(session, m)
      BY <1>3 DEF Queued
    <2> QED BY <1>1, <1>3, <2>1 DEF S2SInv, PlaceInv
  <1>8. OrderInv'
    <2>1. Regular' => Regular
      BY <1>1, <1>3, PastKept DEF Regular
    <2> QED BY <1>1, <1>3, <2>1 DEF S2SInv, OrderInv
  <1> QED BY <1>4, <1>5, <1>6, <1>7, <1>8 DEF S2SInv

(* retire_session forgets the queue. *)
LEMMA RetiredFacts ==
    ASSUME NEW r \in Session
    PROVE  LET d == retire_session(r)
           IN  Sound(d) /\ d.type = "s2s_destroyed" /\ d.sendq = << >> /\ d.past = r.past
  <1>1. NoList \in NoList..MaxIPs /\ 0 \in 0..MaxSRV /\ << >> \in Seq(Stanzas)
    BY BoundsAssumption, EmptySeq DEF NoList
  <1>2. /\ retire_session(r) \in Session /\ retire_session(r).type = "s2s_destroyed"
        /\ retire_session(r).sendq = << >> /\ retire_session(r).past = r.past
        /\ retire_session(r).external_auth = "nil"
    BY <1>1 DEF retire_session, Unused, Session
  <1> QED BY <1>2 DEF Sound, LiveTypes

(* destroy_session moves every stanza of the queue to the bounced ones. *)
LEMMA EndedKeeps ==
    ASSUME S2SInv, NEW s \in Sessions, NEW r, Ended(s, r), destroy_session(s, r), UNCHANGED <<routed, refused>>
    PROVE  S2SInv'
  <1> DEFINE d == retire_session(r)
             q == session[s].sendq
  <1>1. /\ session' = [session EXCEPT ![s] = d] /\ s2sout' = None /\ UNCHANGED <<wire, lost>>
        /\ r \in Session /\ r.sendq = q /\ session[s].past \subseteq r.past /\ Live(s)
        /\ bounced' = [m \in Stanzas |-> bounced[m] + Copies(m, q)]
    BY DEF destroy_session, Ended, bounce_sendq
  <1>2. Sound(d) /\ d \in Session /\ d.type = "s2s_destroyed" /\ d.sendq = << >> /\ d.past = r.past
    BY <1>1, RetiredFacts DEF Sound
  <1> HIDE DEF d
  <1>3. /\ session' \in [Sessions -> Session]
        /\ \A t \in Sessions : session'[t] = IF t = s THEN d ELSE session[t]
    BY <1>1, <1>2, Types
  <1>4. \A t \in Sessions : /\ session'[t].sendq = IF t = s THEN << >> ELSE session[t].sendq
                            /\ session[t].past \subseteq session'[t].past
                            /\ Live(t)' <=> Live(t) /\ t # s
    BY <1>1, <1>2, <1>3 DEF Live
  <1>5. \A m \in Stanzas : bounced'[m] = IF HasIn(q, m) THEN bounced[m] + 1 ELSE bounced[m]
    <2> SUFFICES ASSUME NEW m \in Stanzas
                 PROVE  bounced'[m] = IF HasIn(q, m) THEN bounced[m] + 1 ELSE bounced[m]
      OBVIOUS
    <2>1. Copies(m, q) = IF HasIn(q, m) THEN 1 ELSE 0
      BY CopiesFacts
    <2>2. bounced'[m] = bounced[m] + Copies(m, q) /\ bounced[m] \in Nat
      BY <1>1, Types
    <2> QED BY <2>1, <2>2
  <1>6. bounced' \in [Stanzas -> Nat]
    <2>1. \A m \in Stanzas : bounced'[m] \in Nat
      BY <1>5, Types
    <2> QED BY <1>1, <2>1
  <1>7. TypeInv'
    BY <1>1, <1>2, <1>3, <1>6, Types DEF TypeInv
  <1>8. OneSession'
    BY <1>1, <1>4, PastKept, NoneAssumption DEF S2SInv, OneSession
  <1>9. SentWhenReady'
    BY <1>1 DEF S2SInv, SentWhenReady, Accepted
  <1>10. Len(<< >>) = 0
    OBVIOUS
  <1>11. PlaceInv'
    <2>1. ASSUME NEW m PROVE ~HasIn(<< >>, m)
      BY <1>10 DEF HasIn
    <2>2. ASSUME NEW m, NEW t \in Sessions
          PROVE  HasIn(session'[t].sendq, m) <=> t # s /\ HasIn(session[t].sendq, m)
      BY <1>4, <2>1
    <2>3. ASSUME NEW m \in Stanzas
          PROVE  Queued(session', m) <=> Queued(session, m) /\ ~HasIn(q, m)
      BY <2>2 DEF Queued, S2SInv, PlaceInv
    <2>4. \A m \in Stanzas : HasIn(q, m) => Queued(session, m)
      BY DEF Queued
    <2> HIDE DEF q
    <2>5. \A m \in Stanzas : HasIn(q, m) => bounced'[m] = 1 /\ bounced[m] = 0
      BY <1>5, <2>4 DEF S2SInv, PlaceInv
    <2>6. \A m \in Stanzas : ~HasIn(q, m) => bounced'[m] = bounced[m]
      BY <1>5
    <2> QED BY <1>1, <2>2, <2>3, <2>4, <2>5, <2>6 DEF S2SInv, PlaceInv
  <1>12. OrderInv'
    <2>1. Regular' => Regular
      BY <1>1, <1>4, PastKept DEF Regular
    <2>2. \A t \in Sessions : \A i \in 1..Len(session'[t].sendq) : t # s
      BY <1>4, <1>10
    <2> QED BY <1>1, <1>4, <2>1, <2>2 DEF S2SInv, OrderInv
  <1> QED BY <1>7, <1>8, <1>9, <1>11, <1>12 DEF S2SInv

(* mark_connected writes the first k stanzas of the queue; the rest is lost. *)
LEMMA OpenedKeeps ==
    ASSUME S2SInv, NEW s \in Sessions, NEW r0, Opened(s, r0), mark_connected(s, r0), UNCHANGED <<routed, refused>>
    PROVE  S2SInv'
  <1> DEFINE r == [r0 EXCEPT !.ready = TRUE]
             q == session[s].sendq
             n == Len(q)
  <1>1. /\ Live(s) /\ r0 \in Session /\ r0.sendq = q /\ session[s].past \subseteq r0.past /\ r0.type = "s2sout"
        /\ r0.lookups = {} /\ ~r0.notopen /\ r0.conn \in {"open", "full"}
        /\ (r0.external_auth = "succeeded" => ~Plain(r0))
        /\ (Plain(r0) => r0.accepted /\ (RequireEncryption => r0.secure = "true"))
    BY DEF Opened, Ended
  <1>2. /\ r \in Session /\ r.sendq = q /\ r.past = r0.past /\ r.type = "s2sout" /\ r.ready
        /\ r.lookups = {} /\ ~r.notopen /\ r.conn = r0.conn /\ r.external_auth = r0.external_auth
        /\ r.accepted = r0.accepted /\ r.secure = r0.secure
    BY <1>1 DEF Session
  <1>3. PICK k \in 0 .. Len(r.sendq) :
          /\ wire' = wire \o [i \in 1 .. k |-> Written(r.sendq[i], r)]
          /\ lost' = lost \cup {r.sendq[i] : i \in k + 1 .. Len(r.sendq)}
          /\ session' = [session EXCEPT ![s] =
                [r EXCEPT !.sendq = << >>, !.srv = 0, !.ips = NoList,
                          !.conn = IF k < Len(r.sendq) THEN "full" ELSE @,
                          !.past = IF k < Len(r.sendq) THEN @ \cup {"failed"} ELSE @]]
          /\ UNCHANGED <<s2sout, bounced>>
    BY DEF mark_connected
  <1> DEFINE d == [r EXCEPT !.sendq = << >>, !.srv = 0, !.ips = NoList,
                            !.conn = IF k < n THEN "full" ELSE @,
                            !.past = IF k < n THEN @ \cup {"failed"} ELSE @]
             new == [i \in 1 .. k |-> Written(q[i], r)]
             l == Len(wire)
  <1>4. q \in Seq(Stanzas) /\ n \in Nat /\ l \in Nat /\ k \in 0..n /\ wire \in Seq(WireRec)
    BY <1>2, <1>3, Types
  <1>5. /\ d \in Session /\ d.sendq = << >> /\ d.type = "s2sout" /\ d.lookups = {} /\ ~d.notopen /\ d.ready
        /\ d.conn \in {"open", "full"} /\ d.external_auth = r0.external_auth
        /\ d.accepted = r0.accepted /\ d.secure = r0.secure
        /\ d.past = IF k < n THEN r0.past \cup {"failed"} ELSE r0.past
    <2>1. NoList \in NoList..MaxIPs /\ 0 \in 0..MaxSRV /\ << >> \in Seq(Stanzas)
      BY BoundsAssumption, EmptySeq DEF NoList
    <2> HIDE DEF r, n
    <2> QED BY <1>1, <1>2, <2>1 DEF Session
  <1>6. /\ session' = [session EXCEPT ![s] = d] /\ UNCHANGED <<s2sout, bounced>>
        /\ wire' = wire \o new /\ lost' = lost \cup {q[i] : i \in k + 1 .. n}
    <2>1. r.sendq = q
      BY <1>2
    <2> HIDE DEF r, q
    <2> QED BY <1>3, <2>1
  <1> HIDE DEF d
  <1>7. Sound(d)
    BY <1>1, <1>5 DEF Sound, LiveTypes, Connected, Plain
  <1>8. \A i \in 1..k : /\ i \in 1..n /\ q[i] \in Stanzas
                        /\ new[i] \in WireRec /\ new[i].stanza = q[i] /\ new[i].past = r0.past
                        /\ "external" \in new[i].past \/ Accepted(new[i])
    <2>1. \A i \in 1..k : i \in 1..n
      BY ONLY <1>4
    <2>2. \A i \in 1..k : q[i] \in Stanzas
      BY <1>4, <2>1, ElementOfSeq
    <2>3. r.accepted \in BOOLEAN /\ r.ready \in BOOLEAN /\ r.past \in SUBSET {"failed", "external"}
          /\ (r.secure = "true") \in BOOLEAN
      BY <1>2 DEF Session
    <2>4. \A i \in 1..k : new[i] = Written(q[i], r)
      OBVIOUS
    <2> HIDE DEF r, new
    <2>5. \A m \in Stanzas : Written(m, r) \in WireRec /\ Written(m, r).stanza = m /\ Written(m, r).past = r.past
      BY <2>3 DEF Written, WireRec
    <2>6. \A m \in Stanzas : "external" \in Written(m, r).past \/ Accepted(Written(m, r))
      BY <1>1, <1>2 DEF Written, Accepted, Plain
    <2> QED BY <1>2, <2>1, <2>2, <2>4, <2>5, <2>6
  <1>9. wire' \in Seq(WireRec) /\ Len(wire') = l + k
        /\ \A i \in 1..l + k : wire'[i] = IF i <= l THEN wire[i] ELSE new[i - l]
    <2>1. new \in Seq(WireRec) /\ Len(new) = k
      <3>1. \A i \in 1..k : Written(q[i], r) \in WireRec
        BY <1>8
      <3> HIDE DEF r, q, n
      <3> QED BY <1>4, <3>1
    <2>2. wire' = wire \o new
      BY <1>6
    <2> HIDE DEF new, n, q
    <2> QED BY <1>4, <2>1, <2>2, ConcatProperties
  <1>10. lost' = lost \cup {q[i] : i \in k + 1 .. n}
    BY <1>6
  <1> HIDE DEF r, new
  <1>11. /\ session' \in [Sessions -> Session]
         /\ \A t \in Sessions : session'[t] = IF t = s THEN d ELSE session[t]
    BY <1>5, <1>6, Types
  <1>12. \A t \in Sessions : /\ session'[t].sendq = IF t = s THEN << >> ELSE session[t].sendq
                             /\ session[t].past \subseteq session'[t].past
                             /\ Live(t)' <=> Live(t)
    BY <1>1, <1>5, <1>11 DEF Live
  <1>13. {q[i] : i \in k + 1 .. n} \subseteq Stanzas
    <2>1. \A i \in k + 1 .. n : i \in 1..n
      BY ONLY <1>4
    <2> QED BY <1>4, <2>1, ElementOfSeq
  <1>14. TypeInv'
    BY <1>6, <1>7, <1>9, <1>10, <1>11, <1>13, Types DEF TypeInv
  <1>15. OneSession'
    BY <1>6, <1>12, PastKept DEF S2SInv, OneSession
  <1> HIDE DEF n, l
  <1>16. /\ \A i \in 1..l + k : i <= l => i \in 1..l
         /\ \A i \in 1..l + k : ~(i <= l) => i - l \in 1..k
         /\ \A i \in 1..l : i <= l /\ i \in 1..l + k
         /\ \A i \in 1..k : l + i \in 1..l + k /\ ~(l + i <= l) /\ l + i - l = i
    BY ONLY <1>4
  <1>0. /\ \A i \in 1..l : wire'[i] = wire[i] /\ i \in 1..Len(wire')
        /\ \A b \in 1..k : wire'[l + b] = new[b] /\ wire'[l + b].stanza = q[b] /\ l + b \in 1..Len(wire')
        /\ \A i \in 1..Len(wire') : i \in 1..l \/ \E b \in 1..k : i = l + b
    <2>1. \A i \in 1..l : wire'[i] = wire[i] /\ i \in 1..Len(wire')
      BY <1>9, <1>16
    <2>2. ASSUME NEW b \in 1..k PROVE wire'[l + b] = new[b] /\ wire'[l + b].stanza = q[b] /\ l + b \in 1..Len(wire')
      <3>1. l + b \in 1..l + k /\ ~(l + b <= l) /\ l + b - l = b
        BY <1>16
      <3>2. wire'[l + b] = new[b]
        <4>0. k \in Nat /\ b \in 1..k
          BY <1>4, <2>2
        <4>1. PICK j \in Nat : j = l + b
          BY ONLY <1>4, <4>0
        <4>2. j \in 1..l + k /\ ~(j <= l) /\ j - l = b
          BY ONLY <1>4, <4>0, <4>1
        <4>3. wire'[j] = new[j - l]
          BY ONLY <1>9, <4>2
        <4> QED BY ONLY <4>1, <4>2, <4>3
      <3> QED BY <1>8, <1>9, <3>1, <3>2
    <2>3. ASSUME NEW i \in 1..Len(wire') PROVE i \in 1..l \/ \E b \in 1..k : i = l + b
      <3>1. i \in 1..l + k
        BY <1>9, <2>3
      <3>2. i \in 1..l \/ (i - l \in 1..k /\ i = l + (i - l))
        BY ONLY <1>4, <3>1
      <3> QED BY ONLY <3>2
    <2> QED BY <2>1, <2>2, <2>3
  <1>17. SentWhenReady'
    <2> SUFFICES ASSUME NEW i \in DOMAIN wire' PROVE "external" \in wire'[i].past \/ Accepted(wire'[i])
      BY DEF SentWhenReady, Accepted
    <2>1. i \in 1..l + k /\ DOMAIN wire = 1..l
      BY <1>4, <1>9, LenProperties DEF l
    <2>2. CASE i <= l
      BY <1>9, <1>16, <2>1, <2>2 DEF S2SInv, SentWhenReady
    <2>3. CASE ~(i <= l)
      BY <1>8, <1>9, <1>16, <2>1, <2>3
    <2> QED BY <2>2, <2>3
  <1> DEFINE sent(m) == \E i \in 1..k : q[i] = m
             fell(m) == \E i \in k + 1 .. n : q[i] = m
  <1>18. /\ \A m : HasIn(q, m) <=> sent(m) \/ fell(m)
         /\ \A m \in Stanzas : ~(sent(m) /\ fell(m))
         /\ \A i, j \in 1..k : q[i] = q[j] => i = j
    <2>1. \A i, j \in 1..n : q[i] = q[j] /\ q[i] \in Stanzas => i = j
      BY Distinct DEF n
    <2>2. \A i : i \in 1..n <=> i \in 1..k \/ i \in k + 1 .. n
      BY ONLY <1>4
    <2>3. \A i \in 1..k, j \in k + 1 .. n : i # j
      BY ONLY <1>4
    <2>4. \A m : HasIn(q, m) <=> \E i \in 1..n : q[i] = m
      BY DEF HasIn, n
    <2> HIDE DEF q
    <2>5. \A m : HasIn(q, m) <=> sent(m) \/ fell(m)
      BY <2>2, <2>4
    <2> QED BY <1>8, <2>1, <2>2, <2>3, <2>5
  <1>19. \A m : OnWire(wire', m) <=> OnWire(wire, m) \/ sent(m)
    <2> SUFFICES ASSUME NEW m PROVE OnWire(wire', m) <=> OnWire(wire, m) \/ sent(m)
      OBVIOUS
    <2>1. ASSUME OnWire(wire', m) PROVE OnWire(wire, m) \/ sent(m)
      <3>1. PICK i \in 1..l + k : wire'[i].stanza = m
        BY <1>9, <2>1 DEF OnWire
      <3> QED BY <1>8, <1>9, <1>16, <3>1 DEF OnWire, l
    <2>2. ASSUME OnWire(wire, m) PROVE OnWire(wire', m)
      BY <1>9, <1>16, <2>2 DEF OnWire, l
    <2>3. ASSUME sent(m) PROVE OnWire(wire', m)
      <3>1. PICK i \in 1..k : q[i] = m
        BY <2>3
      <3>2. wire'[l + i].stanza = m /\ l + i \in 1..Len(wire')
        BY <1>0, <3>1
      <3> QED BY <3>2 DEF OnWire
    <2> QED BY <2>1, <2>2, <2>3
  <1>20. \A m : m \in lost' <=> m \in lost \/ fell(m)
    BY <1>10
  <1>21. Len(<< >>) = 0
    OBVIOUS
  <1>22. PlaceInv'
    <2>1. ASSUME NEW m PROVE ~HasIn(<< >>, m)
      BY <1>21 DEF HasIn
    <2>2. ASSUME NEW m, NEW t \in Sessions
          PROVE  HasIn(session'[t].sendq, m) <=> t # s /\ HasIn(session[t].sendq, m)
      BY <1>12, <2>1
    <2>3. ASSUME NEW m \in Stanzas
          PROVE  Queued(session', m) <=> Queued(session, m) /\ ~HasIn(q, m)
      BY <2>2 DEF Queued, S2SInv, PlaceInv
    <2>4. \A m \in Stanzas : HasIn(q, m) => Queued(session, m)
      BY DEF Queued
    <2>5. ASSUME NEW i \in 1..Len(wire'), NEW j \in 1..Len(wire'), wire'[i].stanza = wire'[j].stanza
          PROVE  i = j
      <3>1. ASSUME NEW a \in 1..l, NEW b \in 1..k, wire[a].stanza = q[b] PROVE FALSE
        <4>1. OnWire(wire, q[b]) /\ q[b] \in Stanzas /\ HasIn(q, q[b])
          BY <1>8, <1>18, <3>1 DEF OnWire, l
        <4> QED BY <2>4, <4>1 DEF S2SInv, PlaceInv
      <3>2. CASE i \in 1..l /\ j \in 1..l
        BY <1>0, <2>5, <3>2 DEF S2SInv, PlaceInv, l
      <3>3. ASSUME NEW a \in 1..k, NEW b \in 1..k, i = l + a, j = l + b PROVE i = j
        BY <1>0, <1>18, <2>5, <3>3
      <3>4. ASSUME i \in 1..l, NEW b \in 1..k, j = l + b PROVE FALSE
        BY <1>0, <2>5, <3>1, <3>4
      <3>5. ASSUME j \in 1..l, NEW b \in 1..k, i = l + b PROVE FALSE
        BY <1>0, <2>5, <3>1, <3>5
      <3> QED BY <1>0, <3>2, <3>3, <3>4, <3>5
    <2> HIDE DEF q, sent, fell
    <2>6. ASSUME NEW m \in Stanzas
          PROVE  /\ HasIn(routed, m) <=> Queued(session', m) \/ OnWire(wire', m) \/ m \in lost' \/ bounced[m] = 1
                 /\ Queued(session', m) => ~OnWire(wire', m) /\ m \notin lost' /\ bounced[m] = 0
                 /\ OnWire(wire', m) => m \notin lost' /\ bounced[m] = 0
                 /\ m \in lost' => bounced[m] = 0
      BY <1>18, <1>19, <1>20, <2>3, <2>4 DEF S2SInv, PlaceInv
    <2> QED BY <1>6, <2>2, <2>5, <2>6 DEF S2SInv, PlaceInv
  <1>23. OrderInv'
    <2>1. \A t \in Sessions : \A i \in 1..Len(session'[t].sendq) : t # s
      BY <1>12, <1>21
    <2>2. ASSUME Regular' PROVE Regular /\ k = n
      <3>1. Smooth
        BY <1>12, <2>2, PastKept DEF Regular
      <3>2. \A i \in 1..l : wire'[i] = wire[i] /\ i \in 1..Len(wire')
        BY <1>9, <1>16
      <3>3. \A i \in 1..l : wire[i].past = {}
        BY <2>2, <3>2 DEF Regular
      <3>4. "failed" \notin d.past
        BY <1>11, <2>2 DEF Regular, Smooth
      <3>5. ~(k < n)
        BY <1>5, <3>4
      <3>6. k = n
        BY ONLY <1>4, <3>5
      <3> QED BY <3>1, <3>3, <3>6 DEF Regular, l
    <2>3. ASSUME Regular', NEW i \in 1..Len(wire'), NEW j \in 1..Len(wire'), i < j
          PROVE  Before(routed, wire'[i].stanza, wire'[j].stanza)
      <3>1. i \in 1..l + k /\ j \in 1..l + k
        BY <1>9
      <3>2. CASE i <= l /\ j <= l
        BY <1>9, <1>16, <2>2, <2>3, <3>1, <3>2 DEF S2SInv, OrderInv, l
      <3>3. CASE i <= l /\ ~(j <= l)
        <4>1. i \in 1..l /\ j - l \in 1..k /\ wire'[i] = wire[i] /\ wire'[j].stanza = q[j - l]
              /\ j - l \in 1..n
          BY <1>8, <1>9, <1>16, <3>1, <3>3
        <4> QED BY <2>2, <2>3, <4>1 DEF S2SInv, OrderInv, l, n
      <3>4. CASE ~(i <= l) /\ ~(j <= l)
        <4>1. i - l \in 1..k /\ j - l \in 1..k /\ wire'[i].stanza = q[i - l] /\ wire'[j].stanza = q[j - l]
              /\ i - l \in 1..n /\ j - l \in 1..n
          BY <1>8, <1>9, <1>16, <3>1, <3>4
        <4>2. i - l < j - l
          BY ONLY <1>4, <2>3, <3>1
        <4> QED BY <4>1, <4>2 DEF S2SInv, OrderInv, n
      <3>5. CASE ~(i <= l) /\ j <= l
        BY ONLY <1>4, <2>3, <3>1, <3>5
      <3> QED BY <3>2, <3>3, <3>4, <3>5
    <2>4. ASSUME Regular', NEW t \in Sessions, NEW i \in 1..Len(wire'), NEW j \in 1..Len(session'[t].sendq)
          PROVE  Before(routed, wire'[i].stanza, session'[t].sendq[j])
      <3>1. t # s /\ session'[t].sendq = session[t].sendq /\ ~Live(t)
        <4>1. t # s /\ session'[t].sendq = session[t].sendq
          BY <1>12, <2>1, <2>4
        <4>2. Smooth
          BY <2>2, <2>4 DEF Regular
        <4> QED BY <1>1, <4>1, <4>2 DEF S2SInv, OneSession
      <3>2. session[t].sendq = << >>
        BY <3>1, Types DEF Sound, Live, LiveTypes
      <3> QED BY <1>21, <2>4, <3>1, <3>2
    <2> QED BY <1>12, <2>1, <2>3, <2>4 DEF S2SInv, OrderInv
  <1> QED BY <1>14, <1>15, <1>17, <1>22, <1>23 DEF S2SInv

(* Routing: the new stanza comes after all others, ... *)
LEMMA RoutedFacts ==
    ASSUME S2SInv, NEW m \in Stanzas, m \notin ToSet(routed), routed' = Append(routed, m)
    PROVE  /\ routed' \in Seq(Stanzas)
           /\ \A i, j \in 1..Len(routed') : routed'[i] = routed'[j] => i = j
           /\ ~HasIn(routed, m)
           /\ \A x : HasIn(routed', x) <=> HasIn(routed, x) \/ x = m
           /\ \A a, b : Before(routed, a, b) => Before(routed', a, b)
           /\ \A a : HasIn(routed, a) => Before(routed', a, m)
  <1> DEFINE n == Len(routed)
  <1>1. n \in Nat /\ routed \in Seq(Stanzas) /\ DOMAIN routed = 1..n
    BY Types, LenProperties
  <1>2. /\ routed' \in Seq(Stanzas) /\ Len(routed') = n + 1
        /\ \A i \in 1..n : routed'[i] = routed[i]
        /\ routed'[n + 1] = m
    BY <1>1, AppendProperties
  <1>3. \A i \in 1..n : routed[i] # m
    BY <1>1 DEF ToSet
  <1>4. \A i \in 1..n : i \in 1..Len(routed') /\ i < n + 1
    BY <1>1, <1>2
  <1>5. n + 1 \in 1..Len(routed')
    BY <1>1, <1>2
  <1>6. \A i \in 1..Len(routed') : i \in 1..n \/ i = n + 1
    BY <1>1, <1>2
  <1>7. \A i, j \in 1..n : routed[i] = routed[j] => i = j
    BY DEF S2SInv, OrderInv
  <1>8. \A i, j \in 1..Len(routed') : routed'[i] = routed'[j] => i = j
    BY <1>2, <1>3, <1>6, <1>7
  <1>9. \A x : HasIn(routed, x) <=> \E i \in 1..n : routed[i] = x
    BY DEF HasIn
  <1>10. \A x : HasIn(routed', x) <=> \E i \in 1..Len(routed') : routed'[i] = x
    BY DEF HasIn
  <1>11. \A a, b : Before(routed, a, b) => Before(routed', a, b)
    BY <1>2, <1>4 DEF Before
  <1> HIDE DEF n
  <1>12. \A x : HasIn(routed', x) <=> HasIn(routed, x) \/ x = m
    BY <1>2, <1>4, <1>5, <1>6, <1>9, <1>10
  <1>13. \A a : HasIn(routed, a) => Before(routed', a, m)
    <2> SUFFICES ASSUME NEW a, HasIn(routed, a) PROVE Before(routed', a, m)
      OBVIOUS
    <2>1. PICK i \in 1..n : routed[i] = a
      BY <1>9
    <2>2. PICK j : j = n + 1
      OBVIOUS
    <2>3. i \in 1..Len(routed') /\ j \in 1..Len(routed') /\ i < j /\ routed'[i] = a /\ routed'[j] = m
      BY <1>2, <1>4, <1>5, <2>1, <2>2
    <2> QED BY <2>3 DEF Before
  <1> QED BY <1>2, <1>3, <1>8, <1>9, <1>11, <1>12, <1>13

(* ... and is nowhere yet. *)
LEMMA NewFacts ==
    ASSUME S2SInv, NEW m \in Stanzas, ~HasIn(routed, m)
    PROVE  ~Queued(session, m) /\ ~OnWire(wire, m) /\ m \notin lost /\ bounced[m] = 0
  BY DEF S2SInv, PlaceInv

(* Whatever waits or was written has been routed. *)
LEMMA PlacedFacts ==
    ASSUME S2SInv
    PROVE  /\ \A s \in Sessions : \A i \in 1..Len(session[s].sendq) :
                 session[s].sendq[i] \in Stanzas /\ HasIn(routed, session[s].sendq[i])
           /\ \A i \in 1..Len(wire) : wire[i].stanza \in Stanzas /\ HasIn(routed, wire[i].stanza)
  <1>1. ASSUME NEW s \in Sessions, NEW i \in 1..Len(session[s].sendq)
        PROVE  session[s].sendq[i] \in Stanzas /\ HasIn(routed, session[s].sendq[i])
    <2>1. session[s].sendq[i] \in Stanzas
      BY Types, ElementOfSeq
    <2>2. Queued(session, session[s].sendq[i])
      BY DEF Queued, HasIn
    <2> QED BY <2>1, <2>2 DEF S2SInv, PlaceInv
  <1>2. ASSUME NEW i \in 1..Len(wire)
        PROVE  wire[i].stanza \in Stanzas /\ HasIn(routed, wire[i].stanza)
    <2>1. wire[i] \in WireRec
      BY Types, ElementOfSeq
    <2>2. wire[i].stanza \in Stanzas
      BY <2>1 DEF WireRec
    <2>3. OnWire(wire, wire[i].stanza)
      BY DEF OnWire
    <2> QED BY <2>2, <2>3 DEF S2SInv, PlaceInv
  <1> QED BY <1>1, <1>2

(* The new stanza is last in the queue of a session. *)
LEMMA AppendedKeeps ==
    ASSUME S2SInv, NEW m \in Stanzas, m \notin ToSet(routed), routed' = Append(routed, m),
           NEW s \in Sessions,
           \A t \in Sessions :
              session'[t].sendq = IF t = s THEN Append(session[s].sendq, m) ELSE session[t].sendq,
           UNCHANGED <<wire, bounced, lost>>, Regular' => Regular
    PROVE  PlaceInv' /\ OrderInv'
  <1> DEFINE q == session[s].sendq
             p == Append(q, m)
             n == Len(q)
  <1>1. n \in Nat /\ q \in Seq(Stanzas)
    BY Types
  <1>2. /\ Len(p) = n + 1 /\ p[n + 1] = m
        /\ \A i \in 1..n : p[i] = q[i]
    BY <1>1, AppendProperties
  <1>3. \A t \in Sessions : session'[t].sendq = IF t = s THEN p ELSE session[t].sendq
    OBVIOUS
  <1> HIDE DEF p
  <1>4. \A i \in 1..Len(p) : i \in 1..n \/ i = n + 1
    BY ONLY <1>1, <1>2
  <1>5. \A i \in 1..n : i \in 1..Len(p)
    BY ONLY <1>1, <1>2
  <1>6. n + 1 \in 1..Len(p)
    BY ONLY <1>1, <1>2
  <1>7. \A x : HasIn(p, x) <=> HasIn(q, x) \/ x = m
    <2>1. \A x : HasIn(p, x) <=> \E i \in 1..Len(p) : p[i] = x
      BY DEF HasIn
    <2>2. \A x : HasIn(q, x) <=> \E i \in 1..n : q[i] = x
      BY DEF HasIn
    <2> HIDE DEF q, n
    <2> QED BY ONLY <1>2, <1>4, <1>5, <1>6, <2>1, <2>2
  <1>8. /\ ~HasIn(routed, m) /\ \A x : HasIn(routed', x) <=> HasIn(routed, x) \/ x = m
        /\ \A i, j \in 1..Len(routed') : routed'[i] = routed'[j] => i = j
        /\ \A a, b : Before(routed, a, b) => Before(routed', a, b)
        /\ \A a : HasIn(routed, a) => Before(routed', a, m)
    BY RoutedFacts
  <1>9. ~Queued(session, m) /\ ~OnWire(wire, m) /\ m \notin lost /\ bounced[m] = 0
    BY <1>8, NewFacts
  <1>10. PlaceInv'
    <2>1. \A t \in Sessions : \A x : HasIn(session'[t].sendq, x) <=> HasIn(session[t].sendq, x) \/ (t = s /\ x = m)
      BY <1>3, <1>7
    <2>2. \A x : Queued(session', x) <=> Queued(session, x) \/ x = m
      BY <2>1 DEF Queued
    <2>3. \A t \in Sessions : ~HasIn(session[t].sendq, m)
      BY <1>9 DEF Queued
    <2>4. \A x \in Stanzas : \A t, u \in Sessions :
             HasIn(session'[t].sendq, x) /\ HasIn(session'[u].sendq, x) => t = u
      BY <2>1, <2>3 DEF S2SInv, PlaceInv
    <2>5. ASSUME NEW x \in Stanzas
          PROVE  /\ HasIn(routed', x) <=> Queued(session', x) \/ OnWire(wire, x) \/ x \in lost \/ bounced[x] = 1
                 /\ Queued(session', x) => ~OnWire(wire, x) /\ x \notin lost /\ bounced[x] = 0
      BY <1>8, <1>9, <2>2 DEF S2SInv, PlaceInv
    <2> QED BY <2>4, <2>5 DEF S2SInv, PlaceInv
  <1>11. OrderInv'
    <2>1. ASSUME NEW t \in Sessions, NEW i \in 1..Len(session'[t].sendq), NEW j \in 1..Len(session'[t].sendq), i < j
          PROVE  Before(routed', session'[t].sendq[i], session'[t].sendq[j])
      <3>1. CASE t # s
        BY <1>3, <1>8, <2>1, <3>1 DEF S2SInv, OrderInv
      <3>2. CASE t = s
        <4>1. i \in 1..Len(p) /\ j \in 1..Len(p) /\ session'[t].sendq = p
          BY <1>3, <2>1, <3>2
        <4>2. i \in 1..n
          BY ONLY <1>1, <1>2, <2>1, <4>1
        <4>3. CASE j \in 1..n
          <5>1. Before(routed, q[i], q[j])
            BY <2>1, <4>2, <4>3 DEF S2SInv, OrderInv
          <5> QED BY <1>2, <1>8, <4>1, <4>2, <4>3, <5>1
        <4>4. CASE j = n + 1
          <5>1. HasIn(routed, q[i])
            BY <4>2, PlacedFacts
          <5> QED BY <1>2, <1>8, <4>1, <4>2, <4>4, <5>1
        <4> QED BY <1>4, <4>1, <4>3, <4>4
      <3> QED BY <3>1, <3>2
    <2>2. ASSUME Regular', NEW t \in Sessions, NEW i \in 1..Len(wire), NEW j \in 1..Len(session'[t].sendq)
          PROVE  Before(routed', wire[i].stanza, session'[t].sendq[j])
      <3>1. HasIn(routed, wire[i].stanza)
        BY PlacedFacts
      <3>2. CASE t # s
        BY <1>3, <1>8, <2>2, <3>2 DEF S2SInv, OrderInv
      <3>3. CASE t = s
        <4>1. j \in 1..Len(p) /\ session'[t].sendq = p
          BY <1>3, <2>2, <3>3
        <4>2. CASE j \in 1..n
          <5>1. Before(routed, wire[i].stanza, q[j])
            BY <2>2, <4>2 DEF S2SInv, OrderInv
          <5> QED BY <1>2, <1>8, <4>1, <4>2, <5>1
        <4>3. CASE j = n + 1
          BY <1>2, <1>8, <3>1, <4>1, <4>3
        <4> QED BY <1>4, <4>1, <4>2, <4>3
      <3> QED BY <3>2, <3>3
    <2>3. Regular' => \A i, j \in 1..Len(wire) : i < j => Before(routed', wire[i].stanza, wire[j].stanza)
      BY <1>8 DEF S2SInv, OrderInv
    <2> QED BY <1>8, <2>1, <2>2, <2>3 DEF OrderInv
  <1> QED BY <1>10, <1>11

(* route_to_existing_session, to a session that is not yet authenticated. *)
LEMMA RouteQueueKeeps ==
    ASSUME S2SInv, NEW m \in Stanzas, m \notin ToSet(routed), routed' = Append(routed, m),
           NEW s \in Sessions, session[s].type = "s2sout_unauthed",
           Becomes(s, [session[s] EXCEPT !.sendq = Append(@, m)]), UNCHANGED refused
    PROVE  S2SInv'
  <1> DEFINE p == Append(session[s].sendq, m)
             r == [session[s] EXCEPT !.sendq = Append(@, m)]
  <1>1. session[s] \in Session /\ Sound(session[s]) /\ session[s].sendq \in Seq(Stanzas)
    BY Types
  <1>2. p \in Seq(Stanzas)
    BY <1>1, AppendProperties
  <1>3. /\ r \in Session /\ r.sendq = p /\ r.type = session[s].type /\ r.past = session[s].past
        /\ r.conn = session[s].conn /\ r.lookups = session[s].lookups
        /\ r.external_auth = session[s].external_auth
    BY <1>1, <1>2 DEF Session
  <1>4. session' = [session EXCEPT ![s] = r] /\ UNCHANGED <<s2sout, wire, bounced, lost>>
    BY DEF Becomes
  <1> HIDE DEF r
  <1>5. Sound(r)
    BY <1>1, <1>3 DEF Sound, LiveTypes, Plain
  <1>6. /\ session' \in [Sessions -> Session]
        /\ \A t \in Sessions : session'[t] = IF t = s THEN r ELSE session[t]
    BY <1>3, <1>4, Types
  <1>7. \A t \in Sessions : /\ session[t].past \subseteq session'[t].past
                            /\ Live(t)' <=> Live(t)
                            /\ session'[t].sendq = IF t = s THEN p ELSE session[t].sendq
    BY <1>3, <1>6 DEF Live
  <1>8. TypeInv'
    BY <1>4, <1>5, <1>6, Types, RoutedFacts DEF TypeInv
  <1>9. OneSession'
    BY <1>4, <1>7, PastKept DEF S2SInv, OneSession
  <1>10. SentWhenReady'
    BY <1>4 DEF S2SInv, SentWhenReady, Accepted
  <1>11. Regular' => Regular
    BY <1>4, <1>7, PastKept DEF Regular
  <1>12. PlaceInv' /\ OrderInv'
    BY <1>4, <1>7, <1>11, AppendedKeeps
  <1> QED BY <1>8, <1>9, <1>10, <1>12 DEF S2SInv

(* ... and to one that is: the stanza is written at once. *)
LEMMA RouteSendKeeps ==
    ASSUME S2SInv, NEW m \in Stanzas, m \notin ToSet(routed), routed' = Append(routed, m),
           NEW s \in Sessions, session[s].type = "s2sout", sends2s(s, m)
    PROVE  S2SInv'
  <1> DEFINE w == Written(m, session[s])
             l == Len(wire)
  <1>1. UNCHANGED <<session, s2sout, bounced, refused, lost>> /\ wire' = Append(wire, w)
    BY DEF sends2s
  <1>2. session[s] \in Session /\ Sound(session[s]) /\ Live(s)
    BY Types DEF Live
  <1>3. w \in WireRec /\ w.stanza = m /\ w.past = session[s].past
    BY <1>2 DEF Session, Written, WireRec
  <1>4. "external" \in w.past \/ Accepted(w)
    BY <1>2 DEF Written, Accepted, Sound, Plain
  <1> HIDE DEF w
  <1>5. wire \in Seq(WireRec) /\ l \in Nat
    BY Types
  <1>6. wire' \in Seq(WireRec) /\ Len(wire') = l + 1 /\ wire'[l + 1] = w
        /\ \A i \in 1..l : wire'[i] = wire[i]
    BY <1>1, <1>3, <1>5, AppendProperties
  <1>7. /\ \A i \in 1..Len(wire') : i \in 1..l \/ i = l + 1
        /\ \A i \in 1..l : i \in 1..Len(wire')
        /\ l + 1 \in 1..Len(wire') /\ \A i \in 1..l : ~(l + 1 < i)
    BY ONLY <1>5, <1>6
  <1>8. /\ ~HasIn(routed, m) /\ \A x : HasIn(routed', x) <=> HasIn(routed, x) \/ x = m
        /\ \A i, j \in 1..Len(routed') : routed'[i] = routed'[j] => i = j
        /\ \A a, b : Before(routed, a, b) => Before(routed', a, b)
        /\ \A a : HasIn(routed, a) => Before(routed', a, m)
        /\ routed' \in Seq(Stanzas)
    BY RoutedFacts
  <1>9. ~Queued(session, m) /\ ~OnWire(wire, m) /\ m \notin lost /\ bounced[m] = 0
    BY <1>8, NewFacts
  <1>10. TypeInv'
    BY <1>1, <1>6, <1>8, Types DEF TypeInv
  <1>11. OneSession'
    BY <1>1 DEF S2SInv, OneSession, Smooth, Live
  <1>12. SentWhenReady'
    <2> SUFFICES ASSUME NEW i \in DOMAIN wire' PROVE "external" \in wire'[i].past \/ Accepted(wire'[i])
      BY DEF SentWhenReady, Accepted
    <2>1. i \in 1..Len(wire') /\ DOMAIN wire = 1..l
      BY <1>5, <1>6, LenProperties
    <2> QED BY <1>4, <1>6, <1>7, <2>1 DEF S2SInv, SentWhenReady
  <1>13. PlaceInv'
    <2>1. \A x : OnWire(wire, x) <=> \E i \in 1..l : wire[i].stanza = x
      BY DEF OnWire
    <2>2. \A x : OnWire(wire', x) <=> \E i \in 1..Len(wire') : wire'[i].stanza = x
      BY DEF OnWire
    <2>3. \A i, j \in 1..l : wire[i].stanza = wire[j].stanza => i = j
      BY DEF S2SInv, PlaceInv
    <2> HIDE DEF l
    <2>4. \A x : OnWire(wire', x) <=> OnWire(wire, x) \/ x = m
      BY ONLY <1>3, <1>6, <1>7, <2>1, <2>2
    <2>5. \A i, j \in 1..Len(wire') : wire'[i].stanza = wire'[j].stanza => i = j
      BY ONLY <1>3, <1>6, <1>7, <1>9, <2>1, <2>3
    <2>6. ASSUME NEW x \in Stanzas
          PROVE  /\ HasIn(routed', x) <=> Queued(session, x) \/ OnWire(wire', x) \/ x \in lost \/ bounced[x] = 1
                 /\ Queued(session, x) => ~OnWire(wire', x) /\ x \notin lost /\ bounced[x] = 0
                 /\ OnWire(wire', x) => x \notin lost /\ bounced[x] = 0
      BY <1>8, <1>9, <2>4 DEF S2SInv, PlaceInv
    <2> QED BY <1>1, <2>5, <2>6 DEF S2SInv, PlaceInv
  <1>14. OrderInv'
    <2>1. ASSUME Regular' PROVE Regular /\ Smooth /\ session[s].past = {}
      <3>1. Smooth
        BY <1>1, <2>1 DEF Regular, Smooth
      <3>2. \A i \in 1..l : wire[i].past = {}
        BY <1>6, <1>7, <2>1 DEF Regular
      <3>3. session[s].past = {}
        BY <1>3, <1>6, <1>7, <2>1 DEF Regular
      <3> QED BY <3>1, <3>2, <3>3 DEF Regular
    <2>2. ASSUME Regular', NEW t \in Sessions PROVE session[t].sendq = << >>
      <3>1. CASE t = s
        BY <1>2, <2>1, <2>2, <3>1 DEF Sound, Plain
      <3>2. CASE t # s
        <4>1. ~Live(t)
          BY <1>2, <2>1, <2>2, <3>2 DEF S2SInv, OneSession
        <4> QED BY <4>1, Types DEF Sound, Live, LiveTypes
      <3> QED BY <3>1, <3>2
    <2>3. \A i \in 1..l : HasIn(routed, wire[i].stanza)
      BY PlacedFacts
    <2>4. Len(<< >>) = 0
      OBVIOUS
    <2>5. ASSUME Regular', NEW i \in 1..Len(wire'), NEW j \in 1..Len(wire'), i < j
          PROVE  Before(routed', wire'[i].stanza, wire'[j].stanza)
      <3>1. CASE j \in 1..l
        <4>1. i \in 1..l
          BY <1>7, <2>5, <3>1
        <4> QED BY <1>6, <1>8, <2>1, <2>5, <3>1, <4>1 DEF S2SInv, OrderInv
      <3>2. CASE j = l + 1
        <4>1. i \in 1..l
          BY ONLY <1>5, <1>7, <2>5, <3>2
        <4> QED BY <1>3, <1>6, <1>8, <2>3, <3>2, <4>1
      <3> QED BY <1>7, <2>5, <3>1, <3>2
    <2>6. \A t \in Sessions : \A i, j \in 1..Len(session[t].sendq) :
            i < j => Before(routed', session[t].sendq[i], session[t].sendq[j])
      BY <1>8 DEF S2SInv, OrderInv
    <2>7. Regular' => \A t \in Sessions : \A j \in 1..Len(session[t].sendq) : FALSE
      BY <2>2, <2>4
    <2> QED BY <1>1, <1>8, <2>5, <2>6, <2>7 DEF OrderInv
  <1> QED BY <1>10, <1>11, <1>12, <1>13, <1>14 DEF S2SInv

(* Sessions as route_to_new_session finds them: as they were, or with a    *)
(* write to the one in the table just failed.                              *)
Found(sess) ==
    /\ sess \in [Sessions -> Session]
    /\ \A t \in Sessions : /\ Sound(sess[t]) /\ sess[t].sendq = session[t].sendq
                           /\ session[t].past \subseteq sess[t].past /\ sess[t].type = session[t].type
    /\ s2sout = None \/ \E t \in Sessions : session[t].type # "none" /\ "failed" \in sess[t].past

(* The sessions route_to_new_session makes. *)
LEMMA NewSessionFacts ==
    ASSUME NEW m \in Stanzas
    PROVE  LET n == new_outgoing(m)
               d == [retire_session(new_outgoing(m)) EXCEPT !.lookups = {}]
           IN  /\ Sound(n) /\ n.type = "s2sout_unauthed" /\ n.sendq = <<m>> /\ n.past = {}
               /\ Sound(d) /\ d.type = "s2s_destroyed" /\ d.sendq = << >> /\ d.past = {}
  <1> DEFINE n == new_outgoing(m)
             d == [retire_session(n) EXCEPT !.lookups = {}]
  <1>1. NoList \in NoList..MaxIPs /\ 0 \in 0..MaxSRV /\ <<m>> \in Seq(Stanzas) /\ << >> \in Seq(Stanzas)
    BY BoundsAssumption, EmptySeq DEF NoList
  <1>2. /\ n \in Session /\ n.type = "s2sout_unauthed" /\ n.sendq = <<m>> /\ n.past = {}
        /\ n.conn = "none" /\ n.external_auth = "nil"
    BY <1>1 DEF new_outgoing, Unused, Session
  <1> HIDE DEF n
  <1>3. Sound(n)
    BY <1>2 DEF Sound, LiveTypes, Connected
  <1>4. /\ d \in Session /\ d.type = "s2s_destroyed" /\ d.sendq = << >> /\ d.past = {}
        /\ d.external_auth = "nil"
    BY <1>1, <1>2 DEF retire_session, Unused, Session
  <1> HIDE DEF d
  <1>5. Sound(d)
    BY <1>4 DEF Sound, LiveTypes
  <1> QED BY <1>2, <1>3, <1>4, <1>5 DEF n, d

(* A new session takes the free place and the entry of the table; or it    *)
(* fails at once, and its one stanza is bounced.                           *)
LEMMA RouteNewKeeps ==
    ASSUME S2SInv, NEW m \in Stanzas, m \notin ToSet(routed), routed' = Append(routed, m),
           NEW sess, Found(sess), route_to_new_session(m, sess)
    PROVE  S2SInv'
  <1>1. PICK s \in Sessions :
          /\ session[s].type = "none"
          /\ \/ /\ session' = [sess EXCEPT ![s] = new_outgoing(m)] /\ s2sout' = s
                /\ UNCHANGED <<bounced, refused>>
             \/ /\ session' = [sess EXCEPT ![s] = [retire_session(new_outgoing(m)) EXCEPT !.lookups = {}]]
                /\ s2sout' = None /\ bounced' = bounce_sendq(<<m>>) /\ refused' = refused \cup {m}
          /\ UNCHANGED <<wire, lost>>
    BY DEF route_to_new_session
  <1>2. PICK r : /\ session' = [sess EXCEPT ![s] = r] /\ Sound(r) /\ r.past = {}
                 /\ \/ /\ r.type = "s2sout_unauthed" /\ r.sendq = <<m>> /\ s2sout' = s
                       /\ UNCHANGED <<bounced, refused>>
                    \/ /\ r.type = "s2s_destroyed" /\ r.sendq = << >> /\ s2sout' = None
                       /\ bounced' = bounce_sendq(<<m>>) /\ refused' = refused \cup {m}
    BY <1>1, NewSessionFacts
  <1>3. /\ session' \in [Sessions -> Session]
        /\ \A t \in Sessions : session'[t] = IF t = s THEN r ELSE sess[t]
    BY <1>2 DEF Found, Sound
  <1>4. session[s].sendq = << >> /\ session[s].past = {} /\ ~Live(s)
    BY <1>1, Types DEF Sound, LiveTypes, Live
  <1>5. \A t \in Sessions :
          /\ session[t].past \subseteq session'[t].past
          /\ t # s => session'[t].sendq = session[t].sendq
          /\ t # s => (Live(t)' <=> Live(t))
    BY <1>3, <1>4 DEF Found, Live
  <1>6. Smooth' => s2sout = None
    <2>1. ASSUME NEW t \in Sessions, session[t].type # "none", "failed" \in sess[t].past PROVE ~Smooth'
      <3>1. session'[t] = sess[t]
        BY <1>1, <1>3, <2>1
      <3> QED BY <2>1, <3>1 DEF Smooth
    <2> QED BY <2>1 DEF Found
  <1>7. OneSession'
    <2> SUFFICES ASSUME Smooth', NEW t \in Sessions PROVE Live(t)' <=> s2sout' = t
      BY DEF OneSession
    <2>1. \A u \in Sessions : ~Live(u)
      BY <1>5, <1>6, PastKept, NoneAssumption DEF S2SInv, OneSession
    <2>2. Live(s)' <=> s2sout' = s
      BY <1>2, <1>3, NoneAssumption DEF Live
    <2>3. CASE t # s
      BY <1>2, <1>5, <2>1, <2>3, NoneAssumption
    <2> QED BY <2>2, <2>3
  <1>8. SentWhenReady'
    BY <1>1 DEF S2SInv, SentWhenReady, Accepted
  <1>9. Regular' => Regular
    BY <1>1, <1>5, PastKept DEF Regular
  <1>10. \A t \in Sessions : Sound(session'[t])
    BY <1>2, <1>3 DEF Found
  <1>11. CASE r.sendq = <<m>> /\ s2sout' = s /\ UNCHANGED <<bounced, refused>>
    <2>1. TypeInv'
      BY <1>1, <1>3, <1>10, <1>11, Types, RoutedFacts DEF TypeInv
    <2>2. Append(<< >>, m) = <<m>>
      OBVIOUS
    <2>3. \A t \in Sessions :
             session'[t].sendq = IF t = s THEN Append(session[s].sendq, m) ELSE session[t].sendq
      BY <1>3, <1>4, <1>5, <1>11, <2>2
    <2>4. PlaceInv' /\ OrderInv'
      BY <1>1, <1>9, <1>11, <2>3, AppendedKeeps
    <2> QED BY <1>7, <1>8, <2>1, <2>4 DEF S2SInv
  <1>12. CASE /\ r.sendq = << >> /\ s2sout' = None
              /\ bounced' = bounce_sendq(<<m>>) /\ refused' = refused \cup {m}
    <2>1. \A t \in Sessions : session'[t].sendq = session[t].sendq
      BY <1>3, <1>4, <1>5, <1>12
    <2>2. /\ ~HasIn(routed, m) /\ \A x : HasIn(routed', x) <=> HasIn(routed, x) \/ x = m
          /\ \A i, j \in 1..Len(routed') : routed'[i] = routed'[j] => i = j
          /\ \A a, b : Before(routed, a, b) => Before(routed', a, b)
          /\ routed' \in Seq(Stanzas)
      BY RoutedFacts
    <2>3. ~Queued(session, m) /\ ~OnWire(wire, m) /\ m \notin lost /\ bounced[m] = 0
      BY <2>2, NewFacts
    <2>4. \A x \in Stanzas : bounced'[x] = IF x = m THEN 1 ELSE bounced[x]
      <3> SUFFICES ASSUME NEW x \in Stanzas PROVE bounced'[x] = IF x = m THEN 1 ELSE bounced[x]
        OBVIOUS
      <3>1. bounced'[x] = bounced[x] + Copies(x, <<m>>) /\ bounced[x] \in Nat
        BY <1>12, Types DEF bounce_sendq
      <3>2. {i \in DOMAIN <<m>> : <<m>>[i] = x} = IF x = m THEN {1} ELSE {}
        OBVIOUS
      <3>3. Cardinality({1}) = 1 /\ Cardinality({}) = 0
        BY FS_EmptySet, FS_Singleton
      <3>4. Copies(x, <<m>>) = IF x = m THEN 1 ELSE 0
        BY <3>2, <3>3 DEF Copies
      <3> QED BY <2>3, <3>1, <3>4
    <2>5. bounced' \in [Stanzas -> Nat]
      <3>1. \A x \in Stanzas : bounced'[x] \in Nat
        BY <2>4, Types
      <3> QED BY <1>12, <3>1 DEF bounce_sendq
    <2>6. TypeInv'
      BY <1>1, <1>3, <1>10, <1>12, <2>2, <2>5, Types DEF TypeInv
    <2>7. PlaceInv'
      <3>1. \A x : Queued(session', x) <=> Queued(session, x)
        BY <2>1 DEF Queued
      <3>2. ASSUME NEW x \in Stanzas
            PROVE  /\ bounced'[x] \in {0, 1}
                   /\ HasIn(routed', x) <=> Queued(session, x) \/ OnWire(wire, x) \/ x \in lost \/ bounced'[x] = 1
                   /\ Queued(session, x) => ~OnWire(wire, x) /\ x \notin lost /\ bounced'[x] = 0
                   /\ OnWire(wire, x) => x \notin lost /\ bounced'[x] = 0
                   /\ x \in lost => bounced'[x] = 0
        BY <2>2, <2>3, <2>4 DEF S2SInv, PlaceInv
      <3> QED BY <1>1, <2>1, <3>1, <3>2 DEF S2SInv, PlaceInv
    <2>8. OrderInv'
      BY <1>1, <1>9, <2>1, <2>2 DEF S2SInv, OrderInv
    <2> QED BY <1>7, <1>8, <2>6, <2>7, <2>8 DEF S2SInv
  <1> QED BY <1>2, <1>11, <1>12

(* A write that fails leaves the session in place, with its buffer full or *)
(* its connection closed.                                                  *)
LEMMA FailedFacts ==
    ASSUME S2SInv, NEW s \in Sessions, session[s].type = "s2sout"
    PROVE  Found([session EXCEPT ![s].past = @ \cup {"failed"},
                                 ![s].conn = IF @ = "closed" THEN @ ELSE "full"])
  <1> DEFINE r == [session[s] EXCEPT !.past = @ \cup {"failed"}, !.conn = IF @ = "closed" THEN @ ELSE "full"]
             sess == [session EXCEPT ![s].past = @ \cup {"failed"}, ![s].conn = IF @ = "closed" THEN @ ELSE "full"]
  <1>1. session[s] \in Session /\ Sound(session[s]) /\ session \in [Sessions -> Session]
    BY Types
  <1>2. sess = [session EXCEPT ![s] = r]
    BY <1>1
  <1>3. /\ r \in Session /\ r.past = session[s].past \cup {"failed"} /\ r.type = "s2sout"
        /\ r.sendq = session[s].sendq /\ r.conn = (IF session[s].conn = "closed" THEN "closed" ELSE "full")
        /\ r.lookups = session[s].lookups /\ r.external_auth = session[s].external_auth
        /\ r.notopen = session[s].notopen /\ r.accepted = session[s].accepted
        /\ r.ready = session[s].ready /\ r.secure = session[s].secure
    BY <1>1 DEF Session
  <1> HIDE DEF r, sess
  <1>4. Sound(r)
    <2>1. session[s].conn \in {"none", "pending", "open", "full", "closed"}
      BY <1>1 DEF Session
    <2>2. r.conn # "closed" => session[s].conn \in Connected
      BY <1>1, <1>3, <2>1 DEF Sound, Connected
    <2>3. r.conn \in Connected => r.lookups = {}
      BY <1>1, <1>3, <2>2 DEF Sound, LiveTypes, Connected
    <2>4. Plain(r) => Plain(session[s]) /\ r.conn \in Connected
      BY <1>1, <1>3 DEF Sound, Connected, Plain
    <2> QED BY <1>1, <1>3, <2>3, <2>4 DEF Sound, LiveTypes, Plain
  <1>5. \A t \in Sessions : sess[t] = IF t = s THEN r ELSE session[t]
    BY <1>1, <1>2
  <1>6. sess \in [Sessions -> Session]
    BY <1>1, <1>2, <1>3
  <1>7. Found(sess)
    BY <1>3, <1>4, <1>5, <1>6, Types DEF Found
  <1> QED BY <1>7 DEF sess

(* Routing a stanza, in each of its three ways. *)
LEMMA RouteKeeps ==
    ASSUME S2SInv, NEW m \in Stanzas, Route(m)
    PROVE  S2SInv'
  <1>1. m \notin ToSet(routed) /\ routed' = Append(routed, m)
    BY DEF Route
  <1>2. CASE s2sout = None /\ route_to_new_session(m, session)
    <2>1. Found(session)
      BY <1>2, Types DEF Found
    <2> QED BY <1>1, <1>2, <2>1, RouteNewKeeps
  <1>3. CASE s2sout # None /\ RouteToExisting(s2sout, m)
    <2>1. s2sout \in Sessions
      BY <1>3, Types
    <2>2. PICK s \in Sessions : s = s2sout
      BY <2>1
    <2>3. \/ /\ session[s].type = "s2sout_unauthed"
             /\ Becomes(s, [session[s] EXCEPT !.sendq = Append(@, m)]) /\ UNCHANGED refused
          \/ session[s].type = "s2sout" /\ sends2s(s, m)
          \/ /\ session[s].type = "s2sout"
             /\ route_to_new_session(m, [session EXCEPT ![s].past = @ \cup {"failed"},
                                         ![s].conn = IF @ = "closed" THEN @ ELSE "full"])
      BY <1>3, <2>2 DEF RouteToExisting
    <2> QED BY <1>1, <2>3, RouteQueueKeeps, RouteSendKeeps, RouteNewKeeps, FailedFacts
  <1> QED BY <1>2, <1>3 DEF Route

(* The invariant of which the properties are parts or consequences. *)
LEMMA S2SInvHolds == Spec => []S2SInv
  <1>1. Init => S2SInv
    <2> SUFFICES ASSUME Init PROVE S2SInv
      OBVIOUS
    <2>1. NoList \in NoList..MaxIPs /\ 0 \in 0..MaxSRV /\ << >> \in Seq(Stanzas) /\ << >> \in Seq(WireRec)
          /\ Len(<< >>) = 0
      BY BoundsAssumption, EmptySeq DEF NoList
    <2>2. /\ Unused \in Session /\ Unused.type = "none" /\ Unused.sendq = << >> /\ Unused.past = {}
          /\ Unused.external_auth = "nil"
      BY <2>1 DEF Unused, Session
    <2>3. Sound(Unused)
      BY <2>2 DEF Sound, LiveTypes
    <2>4. /\ session = [s \in Sessions |-> Unused] /\ s2sout = None /\ routed = << >> /\ wire = << >>
          /\ bounced = [m \in Stanzas |-> 0] /\ refused = {} /\ lost = {}
          /\ \A s \in Sessions : session[s] = Unused
      BY DEF Init
    <2>5. TypeInv
      BY <2>1, <2>2, <2>3, <2>4 DEF TypeInv
    <2>6. OneSession
      BY <2>2, <2>4, NoneAssumption DEF OneSession, Live
    <2>7. \A k : k \notin 1..Len(<< >>)
      BY <2>1
    <2>8. SentWhenReady
      BY <2>4 DEF SentWhenReady
    <2>9. PlaceInv
      <3>1. \A m : ~HasIn(<< >>, m)
        BY <2>7 DEF HasIn
      <3>2. \A m : ~Queued(session, m)
        BY <2>2, <2>4, <3>1 DEF Queued
      <3>3. \A m : ~OnWire(wire, m)
        BY <2>4, <2>7 DEF OnWire
      <3> QED BY <2>4, <2>7, <3>1, <3>2, <3>3, <2>2 DEF PlaceInv
    <2>10. OrderInv
      BY <2>2, <2>4, <2>7 DEF OrderInv
    <2> QED BY <2>5, <2>6, <2>8, <2>9, <2>10 DEF S2SInv
  <1>2. S2SInv /\ [Next]_vars => S2SInv'
    <2> SUFFICES ASSUME S2SInv, [Next]_vars PROVE S2SInv'
      OBVIOUS
    <2>1. ASSUME NEW m \in Stanzas, Route(m) PROVE S2SInv'
      BY <2>1, RouteKeeps
    <2>2. ASSUME NEW s \in Sessions, SessionNext(s) PROVE S2SInv'
      <3>1. Effect(s) /\ UNCHANGED <<routed, refused>>
        BY <2>2, SessionEffect, Types
      <3> QED BY <3>1, KeptKeeps, EndedKeeps, OpenedKeeps DEF Effect
    <2>3. CASE UNCHANGED vars
      <3>1. UNCHANGED <<session, s2sout, routed, wire, bounced, refused, lost>>
        BY <2>3 DEF vars
      <3>2. TypeInv' /\ OneSession' /\ SentWhenReady'
        BY <3>1 DEF S2SInv, TypeInv, OneSession, SentWhenReady, Smooth, Live, Accepted
      <3>3. PlaceInv' /\ OrderInv'
        BY <3>1 DEF S2SInv, PlaceInv, OrderInv, Regular, Smooth
      <3> QED BY <3>2, <3>3 DEF S2SInv
    <2> QED BY <2>1, <2>2, <2>3 DEF Next
  <1> QED BY <1>1, <1>2, PTL DEF Spec

(* hosts[from].s2sout[to] is the one live session as long as no write has  *)
(* failed, through every failed attempt, timeout, late lookup and closing  *)
(* (mod_s2s.lua:98-162, s2smanager.lua:35-95).                             *)
THEOREM OneSessionHolds == Spec => []OneSession
  <1>1. S2SInv => OneSession
    BY DEF S2SInv
  <1> QED BY <1>1, S2SInvHolds, PTL

(* No stanza is written on a connection on which the peer has not accepted *)
(* us, or without the encryption the policy wants, whatever was reached on *)
(* an earlier connection of the same session and in whatever order the     *)
(* remote server sends its elements (mod_s2s.lua:194-273).                 *)
THEOREM SentWhenReadyHolds == Spec => []SentWhenReady
  <1>1. S2SInv => SentWhenReady
    BY DEF S2SInv
  <1> QED BY <1>1, S2SInvHolds, PTL

(* A queue holds at most one copy of a stanza, and at most one queue does. *)
LEMMA HolderFacts ==
    ASSUME S2SInv, NEW m \in Stanzas
    PROVE  LET holders == {s \in Sessions : Copies(m, session[s].sendq) > 0}
           IN  /\ \A s \in holders : Copies(m, session[s].sendq) = 1
               /\ Cardinality(holders) = IF Queued(session, m) THEN 1 ELSE 0
  <1> DEFINE holders == {s \in Sessions : Copies(m, session[s].sendq) > 0}
  <1>1. \A s \in Sessions : /\ s \in holders <=> HasIn(session[s].sendq, m)
                            /\ s \in holders => Copies(m, session[s].sendq) = 1
    <2> SUFFICES ASSUME NEW s \in Sessions
                 PROVE  /\ s \in holders <=> HasIn(session[s].sendq, m)
                        /\ s \in holders => Copies(m, session[s].sendq) = 1
      OBVIOUS
    <2>1. Copies(m, session[s].sendq) = IF HasIn(session[s].sendq, m) THEN 1 ELSE 0
      BY CopiesFacts
    <2> QED BY <2>1
  <1>2. CASE Queued(session, m)
    <2>1. PICK s \in Sessions : HasIn(session[s].sendq, m)
      BY <1>2 DEF Queued
    <2>2. \A t \in holders : t = s
      BY <1>1, <2>1 DEF S2SInv, PlaceInv
    <2>3. s \in holders
      BY <1>1, <2>1
    <2> HIDE DEF holders
    <2>4. holders = {s}
      BY <2>2, <2>3
    <2>5. Cardinality(holders) = 1
      BY <2>4, FS_Singleton
    <2> QED BY <1>1, <1>2, <2>5 DEF holders
  <1>3. CASE ~Queued(session, m)
    <2>1. holders = {}
      BY <1>1, <1>3 DEF Queued
    <2>2. Cardinality(holders) = 0
      BY <2>1, FS_EmptySet
    <2> QED BY <1>1, <1>3, <2>2
  <1> QED BY <1>2, <1>3

(* A stanza is written at most once. *)
LEMMA WrittenFacts ==
    ASSUME S2SInv, NEW m \in Stanzas
    PROVE  Cardinality({i \in DOMAIN wire : wire[i].stanza = m}) = IF OnWire(wire, m) THEN 1 ELSE 0
  <1> DEFINE at == {i \in DOMAIN wire : wire[i].stanza = m}
  <1>1. DOMAIN wire = 1..Len(wire)
    BY Types, LenProperties
  <1>2. CASE OnWire(wire, m)
    <2>1. PICK i \in 1..Len(wire) : wire[i].stanza = m
      BY <1>2 DEF OnWire
    <2>2. at = {i}
      BY <1>1, <2>1 DEF S2SInv, PlaceInv
    <2>3. Cardinality(at) = 1
      BY <2>2, FS_Singleton
    <2> QED BY <1>2, <2>3
  <1>3. CASE ~OnWire(wire, m)
    <2>1. at = {}
      BY <1>1, <1>3 DEF OnWire
    <2>2. Cardinality(at) = 0
      BY <2>1, FS_EmptySet
    <2> QED BY <1>3, <2>2
  <1> QED BY <1>2, <1>3

(* Position is where a stanza was routed. *)
LEMMA PositionFacts ==
    ASSUME S2SInv, NEW a, NEW b, Before(routed, a, b)
    PROVE  Position(a) < Position(b)
  <1>1. DOMAIN routed = 1..Len(routed) /\ Len(routed) \in Nat
    BY Types, LenProperties
  <1>2. PICK i, j \in 1..Len(routed) : i < j /\ routed[i] = a /\ routed[j] = b
    BY DEF Before
  <1>3. \A k, l \in DOMAIN routed : routed[k] = routed[l] => k = l
    BY <1>1 DEF S2SInv, OrderInv
  <1>4. Position(a) \in DOMAIN routed /\ routed[Position(a)] = a
    BY <1>1, <1>2 DEF Position
  <1>5. Position(b) \in DOMAIN routed /\ routed[Position(b)] = b
    BY <1>1, <1>2 DEF Position
  <1>6. Position(a) = i /\ Position(b) = j
    BY <1>1, <1>2, <1>3, <1>4, <1>5
  <1> QED BY <1>2, <1>6

(* Every stanza that was routed is in exactly one place: in the queue of   *)
(* one session, written, bounced, or lost in a write that failed; and if   *)
(* no write failed and SASL EXTERNAL was not used, stanzas are written in  *)
(* the order of routing, whether or not they had to wait                   *)
(* (mod_s2s.lua:66-273, s2smanager.lua:56-95).                             *)
THEOREM StanzasAccountedHolds == Spec => []StanzasAccounted
  <1>1. S2SInv => TypeOK
    BY Types DEF TypeOK, Live, LiveTypes, Sound
  <1>2. S2SInv => OnceEach
    <2> SUFFICES ASSUME S2SInv, NEW m \in ToSet(routed)
                 PROVE  LET queued(s) == Copies(m, session[s].sendq)
                            holders == {s \in Sessions : queued(s) > 0}
                        IN  /\ \A s \in holders : queued(s) = 1
                            /\ Cardinality(holders) + bounced[m] + (IF m \in lost THEN 1 ELSE 0)
                                 + Cardinality({i \in DOMAIN wire : wire[i].stanza = m}) = 1
      BY DEF OnceEach
    <2> DEFINE holders == {s \in Sessions : Copies(m, session[s].sendq) > 0}
               written == {i \in DOMAIN wire : wire[i].stanza = m}
    <2>1. routed \in Seq(Stanzas) /\ DOMAIN routed = 1..Len(routed)
      BY Types, LenProperties
    <2>2. PICK k \in 1..Len(routed) : routed[k] = m
      BY <2>1 DEF ToSet
    <2>3. m \in Stanzas /\ HasIn(routed, m)
      BY <2>1, <2>2, ElementOfSeq DEF HasIn
    <2>4. /\ \A s \in holders : Copies(m, session[s].sendq) = 1
          /\ Cardinality(holders) = IF Queued(session, m) THEN 1 ELSE 0
      BY <2>3, HolderFacts
    <2>5. Cardinality(written) = IF OnWire(wire, m) THEN 1 ELSE 0
      BY <2>3, WrittenFacts
    <2> HIDE DEF holders, written
    <2>6. /\ bounced[m] \in {0, 1}
          /\ Queued(session, m) \/ OnWire(wire, m) \/ m \in lost \/ bounced[m] = 1
          /\ Queued(session, m) => ~OnWire(wire, m) /\ m \notin lost /\ bounced[m] = 0
          /\ OnWire(wire, m) => m \notin lost /\ bounced[m] = 0
          /\ m \in lost => bounced[m] = 0
      BY <2>3 DEF S2SInv, PlaceInv
    <2>7. Cardinality(holders) + bounced[m] + (IF m \in lost THEN 1 ELSE 0) + Cardinality(written) = 1
      BY ONLY <2>4, <2>5, <2>6
    <2> QED BY <2>4, <2>7 DEF holders, written
  <1>3. S2SInv => InOrder
    <2> SUFFICES ASSUME S2SInv, Smooth, \A i \in DOMAIN wire : wire[i].past = {},
                        NEW i \in DOMAIN wire, NEW j \in DOMAIN wire, i < j
                 PROVE  Position(wire[i].stanza) < Position(wire[j].stanza)
      BY DEF InOrder
    <2>1. DOMAIN wire = 1..Len(wire)
      BY Types, LenProperties
    <2>2. Before(routed, wire[i].stanza, wire[j].stanza)
      BY <2>1 DEF S2SInv, OrderInv, Regular
    <2> QED BY <2>2, PositionFacts
  <1>4. S2SInv => StanzasAccounted
    BY <1>1, <1>2, <1>3 DEF StanzasAccounted
  <1> QED BY <1>4, S2SInvHolds, PTL
====
