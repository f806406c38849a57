----------------------------- MODULE C2S_proofs -----------------------------
(***************************************************************************)
(* The session tables stay consistent for any number of connections, users *)
(* and resources, under every conflict policy.  The inductive invariant is *)
(* IInv.  Its table part is stated as a predicate of four values, so that  *)
(* the effect of destroying sessions (lemma Destroyed) and of inserting    *)
(* one (lemma Inserted) can be composed the way bind_resource composes     *)
(* them when it replaces an old session.  The second half proves in the    *)
(* same way what others know of the sessions (KInv): cached top resources, *)
(* contacts, targets of directed presence.                                 *)
(***************************************************************************)
EXTENDS C2S, WellFoundedInduction, TLAPS

JidIn(ses, c) == <<ses[c].username, ses[c].resource>>

\* The types of the table values.
Shapes(ses, full, host, bare) ==
    /\ ses \in [Conns -> Session]
    /\ DOMAIN full \subseteq JIDs
    /\ full = [j \in DOMAIN full |-> full[j]]
    /\ \A j \in DOMAIN full : full[j] \in Conns
    /\ DOMAIN host \subseteq Users
    /\ host = [u \in DOMAIN host |-> host[u]]
    /\ \A u \in DOMAIN host : UserRecord(host[u])

\* FullSessionsExact, of arbitrary values.
Exact(ses, full) ==
    /\ \A j \in DOMAIN full : ses[full[j]].resource # None /\ JidIn(ses, full[j]) = j
    /\ \A c \in Conns : ses[c].resource # None =>
          JidIn(ses, c) \in DOMAIN full /\ full[JidIn(ses, c)] = c

\* TablesAgree, of arbitrary values.
Agree(full, host, bare) ==
    /\ bare = DOMAIN host
    /\ \A u \in DOMAIN host :
          /\ DOMAIN host[u].sessions # {}
          /\ \A r \in DOMAIN host[u].sessions :
                <<u, r>> \in DOMAIN full /\ full[<<u, r>>] = host[u].sessions[r]
    /\ \A j \in DOMAIN full :
          j[1] \in DOMAIN host /\ j[2] \in DOMAIN host[j[1]].sessions

\* RosterShared, of arbitrary values.
Shared(ses, host) ==
    \A c \in Conns : ses[c].resource # None =>
        /\ ses[c].roster # None
        /\ ses[c].username \in DOMAIN host
        /\ host[ses[c].username].roster = ses[c].roster

Consistent(ses, full, host, bare) ==
    /\ Shapes(ses, full, host, bare)
    /\ Exact(ses, full)
    /\ Agree(full, host, bare)
    /\ Shared(ses, host)

\* The inductive invariant.
IInv == TypeOK /\ FullSessionsExact /\ TablesAgree /\ RosterShared /\ LiveHasConnection

----------------------------------------------------------------------------
(* Invariance splits into the tables and the rest. *)
LEMMA IInvConsistent ==
    IInv => Consistent(session, full_sessions, host_sessions, bare_sessions)
BY DEF IInv, TypeOK, FullSessionsExact, TablesAgree, RosterShared, Consistent,
       Shapes, Exact, Agree, Shared, JidIn, Jid, Bound

(* The session values the specification builds are sessions. *)
LEMMA BlankSession ==
    /\ Absent \in Session /\ new_session \in Session /\ retire_session \in Session
    /\ retire_session.resource = None /\ retire_session.type = "c2s_destroyed"
    /\ Absent.resource = None /\ Absent.type = "none"
    /\ new_session.resource = None /\ new_session.type = "c2s_unauthed"
BY DEF Absent, new_session, retire_session, Blank, Session

(* Resources: a requested or generated name, with or without a suffix. *)
LEMMA ResourceNames ==
    /\ \A b \in Requested \cup Generated : Plain(b) \in Resource
    /\ \A r \in Resource, n \in Nat : Suffixed(r, n) \in Resource
BY DEF Plain, Suffixed, Resource

(* destroy_session and retire_session, for any set of sessions: whatever
   is removed from one table is removed from all of them. *)
LEMMA Destroyed ==
    ASSUME IInv, NEW C \in SUBSET Conns, NEW run
    PROVE  Consistent(SessionAfter(C), FullAfter(C), HostAfter(C, run), BareAfter(C))
<1> DEFINE ses == SessionAfter(C)
           full == FullAfter(C)
           host == HostAfter(C, run)
           bare == BareAfter(C)
<1> USE DEF IInv
<1>0. Consistent(session, full_sessions, host_sessions, bare_sessions)
  BY IInvConsistent
<1>1. /\ ses \in [Conns -> Session]
      /\ \A c \in Conns : ses[c].resource # None => c \notin C /\ ses[c] = session[c]
      /\ \A c \in Conns \ C : ses[c] = session[c]
  BY BlankSession DEF SessionAfter, TypeOK
<1>2. /\ DOMAIN full = DOMAIN full_sessions \ UnboundJids(C)
      /\ full = [j \in DOMAIN full |-> full[j]]
      /\ \A j \in DOMAIN full : full[j] = full_sessions[j]
  BY DEF FullAfter, Without
<1>3. \A j \in DOMAIN full : full[j] \notin C
  BY <1>2 DEF UnboundJids, FullSessionsExact
<1>4. Exact(ses, full)
  <2>1. ASSUME NEW j \in DOMAIN full
        PROVE  ses[full[j]].resource # None /\ JidIn(ses, full[j]) = j
    <3>1. full[j] = full_sessions[j] /\ j \in DOMAIN full_sessions /\ full[j] \notin C
      BY <1>2, <1>3
    <3>2. full_sessions[j] \in Conns /\ Bound(full_sessions[j]) /\ Jid(full_sessions[j]) = j
      BY <3>1 DEF FullSessionsExact, TypeOK
    <3>3. full_sessions[j] \in Conns \ C
      BY <3>1, <3>2
    <3>4. ses[full_sessions[j]] = session[full_sessions[j]]
      BY <3>3, <1>1
    <3> HIDE DEF full, ses
    <3> QED BY <3>1, <3>2, <3>4 DEF JidIn, Jid, Bound
  <2>2. ASSUME NEW c \in Conns, ses[c].resource # None
        PROVE  JidIn(ses, c) \in DOMAIN full /\ full[JidIn(ses, c)] = c
    <3>1. c \notin C /\ ses[c] = session[c]
      BY <1>1, <2>2
    <3>2. Jid(c) \in DOMAIN full_sessions /\ full_sessions[Jid(c)] = c
      BY <3>1, <2>2 DEF FullSessionsExact, Bound
    <3>3. Jid(c) \notin UnboundJids(C)
      BY <3>1, <3>2 DEF UnboundJids, FullSessionsExact, Bound
    <3> QED BY <3>1, <3>2, <3>3, <1>2 DEF JidIn, Jid
  <2> QED BY <2>1, <2>2 DEF Exact
<1>5. /\ DOMAIN host = DOMAIN host_sessions \ Emptied(C)
      /\ host = [u \in DOMAIN host |-> host[u]]
      /\ \A u \in DOMAIN host : host[u] = UserAfter(u, C, run)
  BY DEF HostAfter
<1>6. ASSUME NEW u \in DOMAIN host
      PROVE  /\ DOMAIN host[u].sessions = Remaining(u, C)
             /\ Remaining(u, C) \subseteq DOMAIN host_sessions[u].sessions
             /\ \A r \in Remaining(u, C) : host[u].sessions[r] = host_sessions[u].sessions[r]
             /\ host[u].roster = host_sessions[u].roster
             /\ UserRecord(host[u])
  <2>1. u \in DOMAIN host_sessions /\ UserRecord(host_sessions[u])
    BY <1>5 DEF TypeOK
  <2>2. host[u] = UserAfter(u, C, run)
    BY <1>5
  <2> DEFINE left == Without(host_sessions[u].sessions,
                             DOMAIN host_sessions[u].sessions \ Remaining(u, C))
             top == IF \E c \in Announced(C, run) : session[c].username = u
                    THEN select_top_resources(Values(left), session)
                    ELSE host_sessions[u].top
  <2>3. Remaining(u, C) \subseteq DOMAIN host_sessions[u].sessions
    BY DEF Remaining
  <2>4. /\ DOMAIN left = Remaining(u, C)
        /\ left = [r \in DOMAIN left |-> left[r]]
        /\ \A r \in Remaining(u, C) : left[r] = host_sessions[u].sessions[r]
    BY <2>3 DEF Without
  <2>5. host[u] = [sessions |-> left, roster |-> host_sessions[u].roster, top |-> top]
    BY <2>2 DEF UserAfter
  <2>6. top \subseteq Conns
    <3>1. Values(left) \subseteq Conns
      BY <2>1, <2>4, <2>3 DEF Values, UserRecord
    <3>2. select_top_resources(Values(left), session) \subseteq Values(left)
      BY DEF select_top_resources
    <3> QED BY <3>1, <3>2, <2>1 DEF UserRecord
  <2> HIDE DEF left, top
  <2>7. host[u].sessions = left /\ host[u].roster = host_sessions[u].roster /\ host[u].top = top
    BY <2>5
  <2>8. UserRecord(host[u])
    BY <2>1, <2>3, <2>4, <2>5, <2>6, <2>7 DEF UserRecord
  <2> QED BY <2>3, <2>4, <2>7, <2>8
<1>7. Shapes(ses, full, host, bare)
  BY <1>1, <1>2, <1>5, <1>6 DEF Shapes, TypeOK
<1>8. Agree(full, host, bare)
  <2>1. bare = DOMAIN host
    BY <1>5 DEF BareAfter, TablesAgree
  <2>2. ASSUME NEW u \in DOMAIN host
        PROVE  DOMAIN host[u].sessions # {}
    <3>1. u \in DOMAIN host_sessions /\ u \notin Emptied(C)
      BY <1>5
    <3>2. CASE \E c \in C : Bound(c) /\ session[c].username = u
      BY <3>1, <3>2, <1>6 DEF Emptied
    <3>3. CASE ~\E c \in C : Bound(c) /\ session[c].username = u
      <4>1. PICK r \in DOMAIN host_sessions[u].sessions : TRUE
        BY <3>1 DEF TablesAgree
      <4>2. <<u, r>> \notin UnboundJids(C)
        BY <3>3 DEF UnboundJids, Jid
      <4> QED BY <4>1, <4>2, <1>6 DEF Remaining
    <3> QED BY <3>2, <3>3
  <2>3. ASSUME NEW u \in DOMAIN host, NEW r \in DOMAIN host[u].sessions
        PROVE  <<u, r>> \in DOMAIN full /\ full[<<u, r>>] = host[u].sessions[r]
    <3>1. r \in Remaining(u, C) /\ u \in DOMAIN host_sessions
      BY <1>5, <1>6
    <3>2. <<u, r>> \notin UnboundJids(C) /\ r \in DOMAIN host_sessions[u].sessions
      BY <3>1 DEF Remaining
    <3>3. <<u, r>> \in DOMAIN full_sessions
          /\ full_sessions[<<u, r>>] = host_sessions[u].sessions[r]
      BY <3>1, <3>2 DEF TablesAgree
    <3> QED BY <3>1, <3>2, <3>3, <1>2, <1>6
  <2>4. ASSUME NEW j \in DOMAIN full
        PROVE  j[1] \in DOMAIN host /\ j[2] \in DOMAIN host[j[1]].sessions
    <3>1. j \in DOMAIN full_sessions /\ j \notin UnboundJids(C) /\ j \in JIDs
      BY <1>2 DEF TypeOK
    <3>2. j = <<j[1], j[2]>>
      BY <3>1 DEF JIDs
    <3>3. j[1] \in DOMAIN host_sessions /\ j[2] \in DOMAIN host_sessions[j[1]].sessions
      BY <3>1 DEF TablesAgree
    <3>4. j[2] \in Remaining(j[1], C)
      BY <3>1, <3>2, <3>3 DEF Remaining
    <3>5. j[1] \in DOMAIN host
      BY <3>3, <3>4, <1>5 DEF Emptied
    <3> QED BY <3>4, <3>5, <1>6
  <2> HIDE DEF full, host, bare
  <2> QED BY <2>1, <2>2, <2>3, <2>4 DEF Agree
<1>9. Shared(ses, host)
  <2> SUFFICES ASSUME NEW c \in Conns, ses[c].resource # None
               PROVE  /\ ses[c].roster # None
                      /\ ses[c].username \in DOMAIN host
                      /\ host[ses[c].username].roster = ses[c].roster
    BY DEF Shared
  <2>1. ses[c] = session[c] /\ JidIn(ses, c) \in DOMAIN full
    BY <1>1, <1>4 DEF Exact
  <2>2. ses[c].username \in DOMAIN host
    BY <2>1, <1>8 DEF Agree, JidIn
  <2> QED BY <2>1, <2>2, <1>6 DEF RosterShared, Bound
<1> QED BY <1>4, <1>7, <1>8, <1>9 DEF Consistent

(* bind_resource's insertion: a session that had no resource gets a JID no
   other session has, and the user object the other sessions share. *)
LEMMA Inserted ==
    ASSUME NEW ses, NEW full, NEW host, NEW bare,
           Consistent(ses, full, host, bare),
           NEW c \in Conns, ses[c].resource = None,
           NEW u \in Users, NEW name \in Resource, <<u, name>> \notin DOMAIN full,
           NEW obj, obj = (IF u \in DOMAIN host THEN host[u] ELSE NewUser),
           NEW one \in Session, one.username = u, one.resource = name,
           one.roster = LoadedRoster(obj, c)
    PROVE  Consistent([ses EXCEPT ![c] = one],
                      Put(full, <<u, name>>, c),
                      Put(host, u, [sessions |-> Put(obj.sessions, name, c),
                                    roster |-> LoadedRoster(obj, c), top |-> obj.top]),
                      bare \cup {u})
<1> DEFINE ros == LoadedRoster(obj, c)
           rec == [sessions |-> Put(obj.sessions, name, c), roster |-> ros, top |-> obj.top]
           ses1 == [ses EXCEPT ![c] = one]
           full1 == Put(full, <<u, name>>, c)
           host1 == Put(host, u, rec)
<1>0. /\ Shapes(ses, full, host, bare) /\ Exact(ses, full)
      /\ Agree(full, host, bare) /\ Shared(ses, host)
  BY DEF Consistent
<1>1. UserRecord(obj) /\ (u \notin DOMAIN host => DOMAIN obj.sessions = {} /\ obj.roster = None)
  <2>1. CASE u \in DOMAIN host
    BY <2>1, <1>0 DEF Shapes
  <2>2. CASE u \notin DOMAIN host
    BY <2>2 DEF NewUser, EmptyTable, UserRecord
  <2> QED BY <2>1, <2>2
<1>2. /\ ros \in Conns /\ ros # None
      /\ obj.roster # None => ros = obj.roster
  BY <1>1, C2SAssumption DEF LoadedRoster, UserRecord
<1>3. /\ ses1 \in [Conns -> Session]
      /\ ses1[c] = one
      /\ \A d \in Conns : d # c => ses1[d] = ses[d]
  BY <1>0 DEF Shapes
<1>4. /\ DOMAIN full1 = DOMAIN full \cup {<<u, name>>}
      /\ full1 = [j \in DOMAIN full1 |-> full1[j]]
      /\ full1[<<u, name>>] = c
      /\ \A j \in DOMAIN full : full1[j] = full[j]
  BY DEF Put
<1>5. /\ DOMAIN host1 = DOMAIN host \cup {u}
      /\ host1 = [v \in DOMAIN host1 |-> host1[v]]
      /\ host1[u] = rec
      /\ \A v \in DOMAIN host : v # u => host1[v] = host[v]
  BY DEF Put
<1>6. /\ rec.sessions = Put(obj.sessions, name, c) /\ rec.roster = ros /\ rec.top = obj.top
      /\ DOMAIN rec.sessions = DOMAIN obj.sessions \cup {name}
      /\ rec.sessions = [r \in DOMAIN rec.sessions |-> rec.sessions[r]]
      /\ rec.sessions[name] = c
      /\ \A r \in DOMAIN obj.sessions : r # name => rec.sessions[r] = obj.sessions[r]
  BY DEF Put
<1>7. UserRecord(rec)
  <2>1. rec = [sessions |-> rec.sessions, roster |-> rec.roster, top |-> rec.top]
    BY <1>6
  <2> HIDE DEF rec
  <2> QED BY <2>1, <1>1, <1>2, <1>6 DEF UserRecord
<1> HIDE DEF ros, rec, ses1, full1, host1
<1>8. \A j \in DOMAIN full : full[j] # c /\ full[j] \in Conns
  BY <1>0 DEF Exact, Shapes
<1>9. Shapes(ses1, full1, host1, bare \cup {u})
  BY <1>0, <1>3, <1>4, <1>5, <1>7, <1>8 DEF Shapes, JIDs
<1>10. one.resource # None
  BY C2SAssumption
<1>11. Exact(ses1, full1)
  <2>1. JidIn(ses1, c) = <<u, name>>
    BY <1>3 DEF JidIn
  <2>2. \A d \in Conns : d # c => JidIn(ses1, d) = JidIn(ses, d)
    BY <1>3 DEF JidIn
  <2>3. ASSUME NEW j \in DOMAIN full1
        PROVE  ses1[full1[j]].resource # None /\ JidIn(ses1, full1[j]) = j
    <3>1. CASE j = <<u, name>>
      BY <3>1, <2>1, <1>3, <1>4, <1>10
    <3>2. CASE j \in DOMAIN full
      BY <3>2, <2>2, <1>0, <1>3, <1>4, <1>8 DEF Exact
    <3> QED BY <3>1, <3>2, <1>4
  <2>4. ASSUME NEW d \in Conns, ses1[d].resource # None
        PROVE  JidIn(ses1, d) \in DOMAIN full1 /\ full1[JidIn(ses1, d)] = d
    <3>1. CASE d = c
      BY <3>1, <2>1, <1>4
    <3>2. CASE d # c
      BY <3>2, <2>4, <2>2, <1>0, <1>3, <1>4 DEF Exact
    <3> QED BY <3>1, <3>2
  <2> QED BY <2>3, <2>4 DEF Exact
<1>12. Agree(full1, host1, bare \cup {u})
  <2>1. bare \cup {u} = DOMAIN host1
    BY <1>0, <1>5 DEF Agree
  <2>2. ASSUME NEW v \in DOMAIN host1
        PROVE  /\ DOMAIN host1[v].sessions # {}
               /\ \A r \in DOMAIN host1[v].sessions :
                     <<v, r>> \in DOMAIN full1 /\ full1[<<v, r>>] = host1[v].sessions[r]
    <3>1. CASE v # u
      BY <3>1, <2>2, <1>0, <1>4, <1>5 DEF Agree
    <3>2. CASE v = u
      <4>1. host1[v] = rec /\ DOMAIN rec.sessions # {}
        BY <3>2, <1>5, <1>6
      <4>2. ASSUME NEW r \in DOMAIN rec.sessions
            PROVE  <<u, r>> \in DOMAIN full1 /\ full1[<<u, r>>] = rec.sessions[r]
        <5>1. CASE r = name
          BY <5>1, <1>4, <1>6
        <5>2. CASE r # name
          <6>1. r \in DOMAIN obj.sessions /\ u \in DOMAIN host /\ obj = host[u]
            BY <5>2, <4>2, <1>1, <1>6
          <6>2. <<u, r>> \in DOMAIN full /\ full[<<u, r>>] = obj.sessions[r]
            BY <6>1, <1>0 DEF Agree
          <6> QED BY <5>2, <6>1, <6>2, <1>4, <1>6
        <5> QED BY <5>1, <5>2
      <4> QED BY <3>2, <4>1, <4>2
    <3> QED BY <3>1, <3>2
  <2>3. ASSUME NEW j \in DOMAIN full1
        PROVE  j[1] \in DOMAIN host1 /\ j[2] \in DOMAIN host1[j[1]].sessions
    <3>1. CASE j = <<u, name>>
      BY <3>1, <1>5, <1>6
    <3>2. CASE j \in DOMAIN full
      <4>1. j[1] \in DOMAIN host /\ j[2] \in DOMAIN host[j[1]].sessions
        BY <3>2, <1>0 DEF Agree
      <4>2. CASE j[1] # u
        BY <4>1, <4>2, <1>5
      <4>3. CASE j[1] = u
        BY <4>1, <4>3, <1>5, <1>6
      <4> QED BY <4>2, <4>3
    <3> QED BY <3>1, <3>2, <1>4
  <2> QED BY <2>1, <2>2, <2>3 DEF Agree
<1>13. Shared(ses1, host1)
  <2> SUFFICES ASSUME NEW d \in Conns, ses1[d].resource # None
               PROVE  /\ ses1[d].roster # None
                      /\ ses1[d].username \in DOMAIN host1
                      /\ host1[ses1[d].username].roster = ses1[d].roster
    BY DEF Shared
  <2>1. CASE d = c
    BY <2>1, <1>2, <1>3, <1>5, <1>6 DEF ros
  <2>2. CASE d # c
    <3>1. /\ ses1[d] = ses[d] /\ ses[d].roster # None
          /\ ses[d].username \in DOMAIN host
          /\ host[ses[d].username].roster = ses[d].roster
      BY <2>2, <1>0, <1>3 DEF Shared
    <3>2. CASE ses[d].username = u
      BY <3>1, <3>2, <1>2, <1>5, <1>6
    <3>3. CASE ses[d].username # u
      BY <3>1, <3>3, <1>5
    <3> QED BY <3>2, <3>3
  <2> QED BY <2>1, <2>2
<1> QED BY <1>9, <1>11, <1>12, <1>13 DEF Consistent, ses1, full1, host1, rec, ros

----------------------------------------------------------------------------
(* What IInv says beyond the tables. *)
Rest ==
    /\ sock \in [Conns -> {"none", "open", "draining", "gone"}]
    /\ accounts \subseteq Users
    /\ msg \in [Msgs -> [state : MsgState, user : Users \cup {None}]]
    /\ contact \subseteq JIDs /\ stranger \subseteq JIDs
    /\ up \in BOOLEAN
    /\ LiveHasConnection

(* The invariant is put together again after a step. *)
LEMMA Reassembled ==
    ASSUME Consistent(session', full_sessions', host_sessions', bare_sessions'), Rest'
    PROVE  IInv'
BY DEF IInv, TypeOK, FullSessionsExact, TablesAgree, RosterShared, Consistent,
       Shapes, Exact, Agree, Shared, JidIn, Jid, Bound, Rest

(* Facts about one session that every action needs. *)
LEMMA SessionFacts ==
    ASSUME IInv, NEW c \in Conns
    PROVE  /\ session[c] \in Session
           /\ session[c].type = "c2s" <=> Bound(c)
           /\ Live(c) <=> sock[c] = "open"
           /\ session[c].type \in {"c2s_unbound", "c2s"} => session[c].username \in Users
           /\ Bound(c) => Jid(c) \in JIDs
<1>1. session[c] \in Session
  BY DEF IInv, TypeOK
<1>2. session[c].username \in Users \cup {None} /\ session[c].resource \in Resource \cup {None}
  BY <1>1 DEF Session
<1>3. /\ session[c].type = "c2s" <=> Bound(c)
      /\ Live(c) <=> sock[c] = "open"
      /\ session[c].type \in {"c2s_unbound", "c2s"} => session[c].username # None
  BY DEF IInv, LiveHasConnection
<1> QED BY <1>1, <1>2, <1>3 DEF Jid, JIDs, Bound

(* Sessions are only retired together with their connection. *)
LEMMA ClosedKeeps ==
    ASSUME IInv, NEW C \in SUBSET Conns, NEW run,
           destroy_session(C, run),
           sock' \in [Conns -> {"none", "open", "draining", "gone"}],
           \A c \in C : sock'[c] # "open",
           \A c \in Conns \ C : sock'[c] = sock[c],
           accounts' \subseteq Users,
           msg' \in [Msgs -> [state : MsgState, user : Users \cup {None}]],
           up' \in BOOLEAN
    PROVE  IInv'
<1>1. Consistent(session', full_sessions', host_sessions', bare_sessions')
  BY Destroyed DEF destroy_session
<1>2. contact' \subseteq JIDs /\ stranger' \subseteq JIDs
  BY DEF destroy_session, ContactAfter, StrangerAfter, IInv, TypeOK
<1>3. LiveHasConnection'
  <2> SUFFICES ASSUME NEW c \in Conns
               PROVE  /\ Live(c)' <=> sock'[c] = "open"
                      /\ Bound(c)' <=> session'[c].type = "c2s"
                      /\ session'[c].type = "c2s" => ~session'[c].notopen
                      /\ session'[c].type \in {"c2s_unbound", "c2s"} => session'[c].username # None
    BY DEF LiveHasConnection
  <2>1. session'[c] = IF c \in C THEN retire_session ELSE session[c]
    BY DEF destroy_session, SessionAfter
  <2>2. CASE c \in C
    BY <2>1, <2>2, BlankSession DEF Live, Bound
  <2>3. CASE c \notin C
    BY <2>1, <2>3 DEF Live, Bound, IInv, LiveHasConnection
  <2> QED BY <2>2, <2>3
<1> QED BY <1>1, <1>2, <1>3, Reassembled DEF Rest

(* The same for session_close, which closes the connections too. *)
LEMMA CloseKeeps ==
    ASSUME IInv, NEW C \in SUBSET Conns, NEW run, session_close(C, run),
           accounts' \subseteq Users,
           msg' \in [Msgs -> [state : MsgState, user : Users \cup {None}]],
           up' \in BOOLEAN
    PROVE  IInv'
<1>1. /\ sock' \in [Conns -> {"none", "open", "draining", "gone"}]
      /\ \A c \in C : sock'[c] # "open"
      /\ \A c \in Conns \ C : sock'[c] = sock[c]
  BY DEF session_close, Closing, IInv, TypeOK
<1> QED BY <1>1, ClosedKeeps DEF session_close

(* A step that leaves every session's identity alone, and the tables but
   for some user object's top_resources. *)
LEMMA QuietKeeps ==
    ASSUME IInv, UNCHANGED <<full_sessions, bare_sessions>>,
           Consistent(session, full_sessions, host_sessions', bare_sessions),
           session' \in [Conns -> Session],
           \A c \in Conns : /\ session'[c].resource = session[c].resource
                            /\ Bound(c) => /\ session'[c].username = session[c].username
                                           /\ session'[c].roster = session[c].roster,
           Rest'
    PROVE  IInv'
<1>1. Consistent(session, full_sessions, host_sessions', bare_sessions)
  OBVIOUS
<1>2. \A c \in Conns : session[c].resource # None =>
         JidIn(session', c) = JidIn(session, c) /\ session'[c].resource # None
  BY DEF JidIn, Bound
<1>3. Shapes(session', full_sessions', host_sessions', bare_sessions')
  BY <1>1 DEF Consistent, Shapes
<1>4. Exact(session', full_sessions')
  BY <1>1, <1>2 DEF Consistent, Exact, Shapes
<1>5. Agree(full_sessions', host_sessions', bare_sessions')
  BY <1>1 DEF Consistent, Agree
<1>6. Shared(session', host_sessions')
  BY <1>1 DEF Consistent, Shared, Bound
<1> QED BY <1>3, <1>4, <1>5, <1>6, Reassembled DEF Consistent

(* Only top_resources of one user object changes. *)
LEMMA TopKeeps ==
    ASSUME IInv, NEW u \in DOMAIN host_sessions, NEW T \in SUBSET Conns
    PROVE  LET host == [host_sessions EXCEPT ![u].top = T] IN
           Consistent(session, full_sessions, host, bare_sessions)
<1> DEFINE host == [host_sessions EXCEPT ![u].top = T]
<1>0. Consistent(session, full_sessions, host_sessions, bare_sessions)
  BY IInvConsistent
<1>1. UserRecord(host_sessions[u])
  BY DEF IInv, TypeOK
<1>2. /\ DOMAIN host = DOMAIN host_sessions
      /\ host = [v \in DOMAIN host |-> host[v]]
      /\ \A v \in DOMAIN host : v # u => host[v] = host_sessions[v]
      /\ host[u] = [host_sessions[u] EXCEPT !.top = T]
  BY DEF IInv, TypeOK
<1>3. host[u] = [sessions |-> host_sessions[u].sessions,
                 roster |-> host_sessions[u].roster, top |-> T]
  BY <1>1, <1>2 DEF UserRecord
<1> HIDE DEF host
<1>4. UserRecord(host[u])
  BY <1>1, <1>3 DEF UserRecord
<1>5. \A v \in DOMAIN host_sessions : /\ UserRecord(host[v])
                                     /\ host[v].sessions = host_sessions[v].sessions
                                     /\ host[v].roster = host_sessions[v].roster
  BY <1>0, <1>2, <1>3, <1>4 DEF Consistent, Shapes
<1>6. Shapes(session, full_sessions, host, bare_sessions)
  BY <1>0, <1>2, <1>5 DEF Consistent, Shapes
<1>7. Agree(full_sessions, host, bare_sessions)
  BY <1>0, <1>2, <1>5 DEF Consistent, Agree
<1>8. Shared(session, host)
  BY <1>0, <1>2, <1>5 DEF Consistent, Shared
<1> QED BY <1>0, <1>6, <1>7, <1>8 DEF Consistent, host

(* select_top_resources returns sessions of the user. *)
LEMMA TopInUser ==
    ASSUME IInv, NEW u \in DOMAIN host_sessions, NEW ses
    PROVE  select_top_resources(Values(host_sessions[u].sessions), ses) \in SUBSET Conns
<1>1. Values(host_sessions[u].sessions) \subseteq Conns
  BY DEF IInv, TypeOK, UserRecord, Values
<1> QED BY <1>1 DEF select_top_resources

(* bind_resource: the name assigned is a resource, a session that holds it
   is the one that is kicked, and the JID is free afterwards. *)
LEMMA AssignedFacts ==
    ASSUME IInv, NEW c \in Conns, ~Bound(c), NEW u \in Users,
           NEW r \in Resource, NEW name \in Assigned(u, r)
    PROVE  /\ name \in Resource
           /\ Kicked(u, name) \in SUBSET Conns
           /\ c \notin Kicked(u, name)
           /\ <<u, name>> \notin DOMAIN FullAfter(Kicked(u, name))
<1>1. ASSUME NEW q \in Resource
      PROVE  Incremented(u, q) \subseteq Resource
  BY ResourceNames DEF Incremented
<1>2. name \in Resource
  BY <1>1, ResourceNames, C2SAssumption DEF Assigned
<1>3. ASSUME NEW q \in Resource, NEW n \in Incremented(u, q)
      PROVE  n \notin Taken(u)
  BY DEF Incremented, NextFree
<1>4. name \in Taken(u) => Policy = "kick_old"
  BY <1>3, ResourceNames, C2SAssumption DEF Assigned
<1>5. CASE name \notin Taken(u)
  <2>1. <<u, name>> \notin DOMAIN full_sessions
    BY <1>5 DEF Taken, IInv, TablesAgree
  <2>2. Kicked(u, name) = {}
    BY <1>5 DEF Kicked
  <2> QED BY <1>2, <2>1, <2>2 DEF FullAfter, Without
<1>6. CASE name \in Taken(u)
  <2>1. u \in DOMAIN host_sessions /\ name \in DOMAIN host_sessions[u].sessions
    BY <1>6 DEF Taken
  <2> DEFINE d == host_sessions[u].sessions[name]
  <2>2. <<u, name>> \in DOMAIN full_sessions /\ full_sessions[<<u, name>>] = d
    BY <2>1 DEF IInv, TablesAgree
  <2>3. Bound(d) /\ Jid(d) = <<u, name>> /\ d \in Conns
    BY <2>2 DEF IInv, FullSessionsExact, TypeOK
  <2>4. Kicked(u, name) = {d}
    BY <1>6, <1>4 DEF Kicked
  <2> HIDE DEF d
  <2>5. <<u, name>> \in UnboundJids({d})
    BY <2>3 DEF UnboundJids
  <2> QED BY <1>2, <2>3, <2>4, <2>5 DEF FullAfter, Without
<1> QED BY <1>5, <1>6

(* The connections after a kick. *)
LEMMA ClosingFacts ==
    ASSUME IInv, NEW K \in SUBSET Conns
    PROVE  /\ Closing(K) \in [Conns -> {"none", "open", "draining", "gone"}]
           /\ \A d \in K : Closing(K)[d] = "draining"
           /\ \A d \in Conns \ K : Closing(K)[d] = sock[d]
BY DEF Closing, IInv, TypeOK

(* bind_resource succeeds. *)
LEMMA BindOkKeeps ==
    ASSUME IInv, NEW c \in Conns, ~Bound(c), Receives(c), NEW u \in Users,
           NEW r \in Resource, NEW name \in Assigned(u, r), NEW send \in BOOLEAN,
           bind_ok(c, u, name, send), UNCHANGED <<accounts, msg, up>>
    PROVE  IInv'
<1> DEFINE K == Kicked(u, name)
           obj == UserObject(u, K, c)
           ros == LoadedRoster(obj, c)
           one == [session[c] EXCEPT !.type = "c2s", !.username = u, !.resource = name,
                                     !.roster = ros, !.send = send]
<1>1. /\ name \in Resource /\ K \in SUBSET Conns /\ c \notin K
      /\ <<u, name>> \notin DOMAIN FullAfter(K)
  BY AssignedFacts
<1>2. Consistent(SessionAfter(K), FullAfter(K), HostAfter(K, {c}), BareAfter(K))
  BY <1>1, Destroyed
<1>3. SessionAfter(K) \in [Conns -> Session] /\ SessionAfter(K)[c] = session[c]
      /\ session[c] \in Session
  BY <1>1, <1>2 DEF Consistent, Shapes, SessionAfter
<1>4. ros \in Conns
  <2>1. \A v \in DOMAIN HostAfter(K, {c}) : UserRecord(HostAfter(K, {c})[v])
    BY <1>2 DEF Consistent, Shapes
  <2>2. obj.roster \in Conns \cup {None}
    BY <2>1 DEF UserObject, NewUser, UserRecord
  <2> QED BY <2>2 DEF LoadedRoster
<1> HIDE DEF K, obj, ros
<1>5. /\ one \in Session /\ one.username = u /\ one.resource = name /\ one.roster = ros
      /\ one.type = "c2s" /\ one.notopen = session[c].notopen
  BY <1>1, <1>3, <1>4 DEF Session
<1>6. session' = [SessionAfter(K) EXCEPT ![c] = one]
  BY <1>3 DEF bind_ok, K, obj, ros
<1>7. /\ full_sessions' = Put(FullAfter(K), <<u, name>>, c)
      /\ host_sessions' = Put(HostAfter(K, {c}), u,
                              [sessions |-> Put(obj.sessions, name, c),
                               roster |-> ros, top |-> obj.top])
      /\ bare_sessions' = BareAfter(K) \cup {u}
      /\ sock' = Closing(K)
      /\ contact' = ContactAfter(K, {c}) /\ stranger' = StrangerAfter(K, {c})
  BY DEF bind_ok, K, obj, ros
<1>8. obj = IF u \in DOMAIN HostAfter(K, {c}) THEN HostAfter(K, {c})[u] ELSE NewUser
  BY DEF UserObject, obj
<1>9. SessionAfter(K)[c].resource = None
  BY <1>3 DEF Bound
<1> HIDE DEF one
<1>10. Consistent(session', full_sessions', host_sessions', bare_sessions')
  BY <1>1, <1>2, <1>5, <1>6, <1>7, <1>8, <1>9, Inserted DEF ros
<1>11. contact' \subseteq JIDs /\ stranger' \subseteq JIDs
  BY <1>7 DEF ContactAfter, StrangerAfter, IInv, TypeOK
<1>12. /\ sock' \in [Conns -> {"none", "open", "draining", "gone"}]
       /\ \A d \in K : sock'[d] = "draining"
       /\ \A d \in Conns \ K : sock'[d] = sock[d]
  BY <1>1, <1>7, ClosingFacts
<1>13. LiveHasConnection'
  <2> SUFFICES ASSUME NEW d \in Conns
               PROVE  /\ Live(d)' <=> sock'[d] = "open"
                      /\ Bound(d)' <=> session'[d].type = "c2s"
                      /\ session'[d].type = "c2s" => ~session'[d].notopen
                      /\ session'[d].type \in {"c2s_unbound", "c2s"} => session'[d].username # None
    BY DEF LiveHasConnection
  <2>1. CASE d = c
    <3>1. session'[d] = one /\ sock'[d] = "open"
      BY <2>1, <1>1, <1>3, <1>6, <1>12 DEF Receives
    <3>2. ~one.notopen /\ one.resource # None /\ one.username # None
      BY <1>1, <1>5, C2SAssumption DEF Receives
    <3> QED BY <3>1, <3>2, <1>5 DEF Live, Bound
  <2>2. CASE d # c /\ d \in K
    <3>1. session'[d] = retire_session /\ sock'[d] = "draining"
      BY <2>2, <1>3, <1>6, <1>12 DEF SessionAfter
    <3> QED BY <3>1, BlankSession DEF Live, Bound
  <2>3. CASE d # c /\ d \notin K
    <3>1. session'[d] = session[d] /\ sock'[d] = sock[d]
      BY <2>3, <1>3, <1>6, <1>12 DEF SessionAfter
    <3> QED BY <3>1 DEF Live, Bound, IInv, LiveHasConnection
  <2> QED BY <2>1, <2>2, <2>3
<1> QED BY <1>10, <1>11, <1>12, <1>13, Reassembled DEF Rest, IInv, TypeOK

(* bind_resource fails after the insertion and rolls back: only the session
   it kicked is gone. *)
LEMMA RollbackDestroys ==
    ASSUME IInv, NEW c \in Conns, ~Bound(c), NEW u \in Users,
           NEW r \in Resource, NEW name \in Assigned(u, r), bind_rollback(c, u, name)
    PROVE  LET K == Kicked(u, name) IN
           destroy_session(K, {c}) /\ sock' = Closing(K) /\ K \in SUBSET Conns
<1> DEFINE K == Kicked(u, name)
           obj == UserObject(u, K, c)
<1>1. K \in SUBSET Conns
  BY AssignedFacts
<1>2. Consistent(SessionAfter(K), FullAfter(K), HostAfter(K, {c}), BareAfter(K))
  BY <1>1, Destroyed
<1>3. u \notin DOMAIN HostAfter(K, {c})
  <2> SUFFICES ASSUME u \in DOMAIN HostAfter(K, {c}) PROVE FALSE
    OBVIOUS
  <2> DEFINE host == HostAfter(K, {c})
  <2>1. obj = host[u] /\ host[u].roster = None
    BY DEF UserObject, bind_rollback
  <2> HIDE DEF host, K, obj
  <2>2. PICK q \in DOMAIN host[u].sessions : TRUE
    BY <1>2 DEF Consistent, Agree, host
  <2>3. <<u, q>> \in DOMAIN FullAfter(K)
    BY <1>2, <2>2 DEF Consistent, Agree, host
  <2>4. PICK d \in Conns : SessionAfter(K)[d].resource # None /\ SessionAfter(K)[d].username = u
    <3>1. FullAfter(K)[<<u, q>>] \in Conns
      BY <1>2, <2>3 DEF Consistent, Shapes
    <3>2. /\ SessionAfter(K)[FullAfter(K)[<<u, q>>]].resource # None
          /\ JidIn(SessionAfter(K), FullAfter(K)[<<u, q>>]) = <<u, q>>
      BY <1>2, <2>3 DEF Consistent, Exact
    <3> QED BY <3>1, <3>2 DEF JidIn
  <2>5. host[u].roster # None
    BY <1>2, <2>4 DEF Consistent, Shared, host
  <2> QED BY <2>1, <2>5
<1>4. obj = NewUser
  BY <1>3 DEF UserObject
<1>5. /\ host_sessions' = Without(HostAfter(K, {c}), {u})
      /\ bare_sessions' = BareAfter(K) \ {u}
  BY <1>4 DEF bind_rollback, NewUser, EmptyTable
<1>6. BareAfter(K) = DOMAIN HostAfter(K, {c})
  BY <1>2 DEF Consistent, Agree
<1>7. host_sessions' = HostAfter(K, {c}) /\ bare_sessions' = BareAfter(K)
  <2>1. HostAfter(K, {c}) = [v \in DOMAIN HostAfter(K, {c}) |-> HostAfter(K, {c})[v]]
    BY <1>2 DEF Consistent, Shapes
  <2> QED BY <1>3, <1>5, <1>6, <2>1 DEF Without
<1> QED BY <1>1, <1>7 DEF destroy_session, bind_rollback

(* So the invariant holds, as after any kick. *)
LEMMA BindRollbackKeeps ==
    ASSUME IInv, NEW c \in Conns, ~Bound(c), NEW u \in Users,
           NEW r \in Resource, NEW name \in Assigned(u, r),
           bind_rollback(c, u, name), UNCHANGED <<accounts, msg, up>>
    PROVE  IInv'
<1>1. destroy_session(Kicked(u, name), {c}) /\ sock' = Closing(Kicked(u, name))
      /\ Kicked(u, name) \in SUBSET Conns
  BY RollbackDestroys
<1> QED BY <1>1, CloseKeeps DEF session_close, IInv, TypeOK

----------------------------------------------------------------------------
(* One session's fields other than its identity change. *)
LEMMA FieldsKeep ==
    ASSUME IInv, NEW c \in Conns, NEW one \in Session,
           session' = [session EXCEPT ![c] = one],
           one.resource = session[c].resource,
           Bound(c) => /\ one.username = session[c].username
                       /\ one.roster = session[c].roster
                       /\ one.type = "c2s" /\ ~one.notopen,
           ~Bound(c) => one.type # "c2s",
           one.type = "c2s_unbound" => one.username # None,
           one.type \in {"c2s_unauthed", "c2s_unbound", "c2s"} <=> sock'[c] = "open",
           \A d \in Conns \ {c} : sock'[d] = sock[d],
           sock' \in [Conns -> {"none", "open", "draining", "gone"}],
           UNCHANGED <<full_sessions, bare_sessions, accounts, up>>,
           Consistent(session, full_sessions, host_sessions', bare_sessions),
           msg' \in [Msgs -> [state : MsgState, user : Users \cup {None}]],
           contact' \subseteq JIDs, stranger' \subseteq JIDs
    PROVE  IInv'
<1>1. /\ session' \in [Conns -> Session] /\ session'[c] = one
      /\ \A d \in Conns : d # c => session'[d] = session[d]
  BY DEF IInv, TypeOK
<1>2. LiveHasConnection'
  <2> SUFFICES ASSUME NEW d \in Conns
               PROVE  /\ Live(d)' <=> sock'[d] = "open"
                      /\ Bound(d)' <=> session'[d].type = "c2s"
                      /\ session'[d].type = "c2s" => ~session'[d].notopen
                      /\ session'[d].type \in {"c2s_unbound", "c2s"} => session'[d].username # None
    BY DEF LiveHasConnection
  <2>1. CASE d = c
    <3>1. Bound(c) => session[c].username # None
      BY DEF IInv, LiveHasConnection
    <3> QED BY <2>1, <3>1, <1>1 DEF Live, Bound
  <2>2. CASE d # c
    BY <2>2, <1>1 DEF Live, Bound, IInv, LiveHasConnection
  <2> QED BY <2>1, <2>2
<1>3. Rest'
  BY <1>2 DEF Rest, IInv, TypeOK
<1>4. \A d \in Conns : /\ session'[d].resource = session[d].resource
                       /\ Bound(d) => /\ session'[d].username = session[d].username
                                      /\ session'[d].roster = session[d].roster
  BY <1>1
<1> QED BY <1>1, <1>3, <1>4, QuietKeeps

(* A message is dealt with: only the message's record changes. *)
LEMMA MarkedType ==
    ASSUME IInv, NEW M, NEW u \in Users, NEW state \in MsgState
    PROVE  Marked(M, u, state) \in [Msgs -> [state : MsgState, user : Users \cup {None}]]
BY DEF Marked, IInv, TypeOK

(* The presence handlers: the broadcast, the stored messages and the
   recalculation of top_resources. *)
LEMMA PresenceKeeps ==
    ASSUME IInv, NEW c \in Conns,
           \/ \E p \in Priorities : presence_available(c, p)
           \/ presence_unavailable(c)
           \/ \E a \in BOOLEAN : outbound_presence(c, a)
    PROVE  IInv'
<1> DEFINE u == session[c].username
<1>0. /\ Receives(c) /\ session[c].type = "c2s" /\ UNCHANGED <<sock, accounts, up>>
      /\ UNCHANGED <<full_sessions, bare_sessions>>
  BY DEF presence_available, presence_unavailable, outbound_presence, tables
<1>1. session[c] \in Session /\ Bound(c) /\ u \in Users /\ Jid(c) \in JIDs
  BY <1>0, SessionFacts
<1>2. u \in DOMAIN host_sessions
  BY <1>1 DEF IInv, RosterShared
<1>3. Consistent(session, full_sessions, host_sessions, bare_sessions)
  BY IInvConsistent
<1>4. ASSUME NEW p
      PROVE  Consistent(session, full_sessions, Recalculated(u, c, p), bare_sessions)
  BY <1>2, TopInUser, TopKeeps DEF Recalculated
<1>5. /\ contact \subseteq JIDs /\ stranger \subseteq JIDs /\ sock[c] = "open"
      /\ sock \in [Conns -> {"none", "open", "draining", "gone"}]
      /\ msg \in [Msgs -> [state : MsgState, user : Users \cup {None}]]
      /\ session \in [Conns -> Session]
      /\ ~session[c].notopen
  BY <1>0 DEF IInv, TypeOK, Receives
<1>6. CASE \E p \in Priorities : presence_available(c, p)
  <2>1. PICK p \in Priorities : presence_available(c, p)
    BY <1>6
  <2> DEFINE one == [session[c] EXCEPT !.presence = p]
  <2>2. /\ one \in Session /\ one.resource = session[c].resource /\ one.username = u
        /\ one.roster = session[c].roster /\ one.type = "c2s" /\ one.notopen = session[c].notopen
    BY <1>0, <1>1 DEF Session
  <2>3. session' = [session EXCEPT ![c] = one]
    BY <2>1, <1>5 DEF presence_available
  <2>4. msg' \in [Msgs -> [state : MsgState, user : Users \cup {None}]]
    BY <2>1, <1>1, <1>5, MarkedType DEF presence_available, MsgState
  <2>5. contact' \subseteq JIDs /\ stranger' \subseteq JIDs
    BY <2>1, <1>1, <1>5 DEF presence_available
  <2>6. Consistent(session, full_sessions, host_sessions', bare_sessions)
    BY <2>1, <1>3, <1>4 DEF presence_available
  <2> HIDE DEF one
  <2> QED BY <2>2, <2>3, <2>4, <2>5, <2>6, <1>0, <1>1, <1>5, FieldsKeep
<1>7. CASE presence_unavailable(c)
  <2> DEFINE one == [session[c] EXCEPT !.presence = None, !.directed = FALSE]
  <2>2. /\ one \in Session /\ one.resource = session[c].resource /\ one.username = u
        /\ one.roster = session[c].roster /\ one.type = "c2s" /\ one.notopen = session[c].notopen
    BY <1>0, <1>1 DEF Session
  <2>3. session' = [session EXCEPT ![c] = one]
    BY <1>7, <1>5 DEF presence_unavailable
  <2>4. msg' \in [Msgs -> [state : MsgState, user : Users \cup {None}]]
    BY <1>7, <1>5 DEF presence_unavailable
  <2>5. contact' \subseteq JIDs /\ stranger' \subseteq JIDs
    BY <1>7, <1>5 DEF presence_unavailable
  <2>6. Consistent(session, full_sessions, host_sessions', bare_sessions)
    BY <1>7, <1>3, <1>4 DEF presence_unavailable
  <2> HIDE DEF one
  <2> QED BY <2>2, <2>3, <2>4, <2>5, <2>6, <1>0, <1>1, <1>5, FieldsKeep
<1>8. CASE \E a \in BOOLEAN : outbound_presence(c, a)
  <2>1. PICK a \in BOOLEAN : outbound_presence(c, a)
    BY <1>8
  <2> DEFINE one == [session[c] EXCEPT !.directed = a]
  <2>2. /\ one \in Session /\ one.resource = session[c].resource /\ one.username = u
        /\ one.roster = session[c].roster /\ one.type = "c2s" /\ one.notopen = session[c].notopen
    BY <1>0, <1>1 DEF Session
  <2>3. session' = [session EXCEPT ![c] = one]
    BY <2>1, <1>5 DEF outbound_presence
  <2>4. msg' \in [Msgs -> [state : MsgState, user : Users \cup {None}]]
    BY <2>1, <1>5 DEF outbound_presence
  <2>5. contact' \subseteq JIDs /\ stranger' \subseteq JIDs
    BY <2>1, <1>1, <1>5 DEF outbound_presence
  <2>6. Consistent(session, full_sessions, host_sessions', bare_sessions)
    BY <2>1, <1>3 DEF outbound_presence, tables
  <2> HIDE DEF one
  <2> QED BY <2>2, <2>3, <2>4, <2>5, <2>6, <1>0, <1>1, <1>5, FieldsKeep
<1> QED BY <1>6, <1>7, <1>8

(* Connecting, opening the stream, authenticating, lingering. *)
LEMMA StreamKeeps ==
    ASSUME IInv, NEW c \in Conns,
           \/ onconnect(c) \/ streamopened(c) \/ StreamError(c) \/ AdminCloseSession(c)
           \/ \E u \in Users : sasl_success(c, u)
    PROVE  IInv'
<1>0. /\ UNCHANGED <<accounts, up, msg, contact, stranger>>
      /\ UNCHANGED <<full_sessions, host_sessions, bare_sessions>>
  BY DEF onconnect, streamopened, StreamError, AdminCloseSession, session_close_nil,
         sasl_success, tables
<1>1. /\ session[c] \in Session
      /\ session[c].type = "c2s" <=> Bound(c)
      /\ Live(c) <=> sock[c] = "open"
  BY SessionFacts
<1>2. Consistent(session, full_sessions, host_sessions', bare_sessions)
  BY <1>0, IInvConsistent
<1>3. /\ contact' \subseteq JIDs /\ stranger' \subseteq JIDs
      /\ sock \in [Conns -> {"none", "open", "draining", "gone"}]
      /\ msg' \in [Msgs -> [state : MsgState, user : Users \cup {None}]]
      /\ session \in [Conns -> Session]
  BY <1>0 DEF IInv, TypeOK
<1>4. CASE onconnect(c)
  <2>1. ~Bound(c)
    BY <1>1, <1>4 DEF onconnect, Live
  <2>2. session' = [session EXCEPT ![c] = new_session] /\ sock' = [sock EXCEPT ![c] = "open"]
    BY <1>4 DEF onconnect
  <2> QED BY <2>1, <2>2, <1>0, <1>2, <1>3, BlankSession, FieldsKeep DEF Bound
<1>5. CASE streamopened(c)
  <2> DEFINE one == [session[c] EXCEPT !.notopen = FALSE]
  <2>1. /\ one \in Session /\ one.resource = session[c].resource
        /\ one.username = session[c].username /\ one.roster = session[c].roster
        /\ one.type = session[c].type /\ one.notopen = FALSE
    BY <1>1 DEF Session
  <2>2. session' = [session EXCEPT ![c] = one] /\ UNCHANGED sock /\ sock[c] = "open"
    BY <1>3, <1>5 DEF streamopened
  <2>3. session[c].type = "c2s_unbound" => session[c].username # None
    BY DEF IInv, LiveHasConnection
  <2> HIDE DEF one
  <2> QED BY <2>1, <2>2, <2>3, <1>0, <1>1, <1>2, <1>3, FieldsKeep DEF Live
<1>6. CASE StreamError(c) \/ AdminCloseSession(c)
  <2> DEFINE one == [session[c] EXCEPT !.send = FALSE]
  <2>1. /\ one \in Session /\ one.resource = session[c].resource
        /\ one.username = session[c].username /\ one.roster = session[c].roster
        /\ one.type = session[c].type /\ one.notopen = session[c].notopen
    BY <1>1 DEF Session
  <2>2. /\ session' = [session EXCEPT ![c] = one] /\ UNCHANGED sock
        /\ session[c].type = "c2s"
    BY <1>3, <1>6 DEF StreamError, AdminCloseSession, session_close_nil
  <2>3. ~session[c].notopen /\ sock[c] = "open"
    BY <2>2, <1>1 DEF IInv, LiveHasConnection, Live
  <2> HIDE DEF one
  <2> QED BY <2>1, <2>2, <2>3, <1>0, <1>1, <1>2, <1>3, FieldsKeep
<1>7. CASE \E u \in Users : sasl_success(c, u)
  <2>0. PICK u \in Users : sasl_success(c, u)
    BY <1>7
  <2> DEFINE one == [session[c] EXCEPT !.type = "c2s_unbound", !.username = u, !.notopen = TRUE]
  <2>1. /\ one \in Session /\ one.resource = session[c].resource
        /\ one.username = u /\ one.type = "c2s_unbound" /\ u # None
    BY <1>1, C2SAssumption DEF Session
  <2>2. /\ session' = [session EXCEPT ![c] = one] /\ UNCHANGED sock
        /\ session[c].type = "c2s_unauthed" /\ sock[c] = "open"
    BY <1>3, <2>0 DEF sasl_success, Receives
  <2> HIDE DEF one
  <2> QED BY <2>1, <2>2, <1>0, <1>1, <1>2, <1>3, FieldsKeep
<1> QED BY <1>4, <1>5, <1>6, <1>7

(* bind_resource and its legacy form. *)
LEMMA BindKeeps ==
    ASSUME IInv, NEW c \in Conns,
           \/ \E r \in Wanted : bind_resource(c, r)
           \/ \E u \in Users, b \in Requested : legacy_auth(c, u, b)
    PROVE  IInv'
<1>0. /\ Receives(c) /\ session[c].type \in {"c2s_unbound", "c2s_unauthed"}
      /\ UNCHANGED <<accounts, msg, up>>
  BY DEF bind_resource, legacy_auth
<1>1. ~Bound(c) /\ session[c].send \in BOOLEAN
  BY <1>0, SessionFacts DEF Session
<1>2. \E u \in Users, r \in Resource : \E name \in Assigned(u, r), send \in BOOLEAN :
         bind_ok(c, u, name, send) \/ bind_rollback(c, u, name)
  <2>1. CASE \E r \in Wanted : bind_resource(c, r)
    <3>1. PICK r \in Wanted : bind_resource(c, r)
      BY <2>1
    <3>2. session[c].username \in Users
      BY <3>1, SessionFacts DEF bind_resource
    <3>3. r \in Resource
      BY ResourceNames DEF Wanted
    <3>4. \E name \in Assigned(session[c].username, r) :
             \/ bind_ok(c, session[c].username, name, session[c].send)
             \/ bind_rollback(c, session[c].username, name)
      BY <3>1 DEF bind_resource
    <3> QED BY <3>2, <3>3, <3>4, <1>1
  <2>2. CASE \E u \in Users, b \in Requested : legacy_auth(c, u, b)
    <3>1. PICK u \in Users, b \in Requested : legacy_auth(c, u, b)
      BY <2>2
    <3>2. Plain(b) \in Resource
      BY ResourceNames
    <3>3. \E name \in Assigned(u, Plain(b)) :
             \/ bind_ok(c, u, name, name = Plain(b))
             \/ bind_rollback(c, u, name)
      BY <3>1 DEF legacy_auth
    <3>4. PICK name \in Assigned(u, Plain(b)) :
             \/ bind_ok(c, u, name, name = Plain(b))
             \/ bind_rollback(c, u, name)
      BY <3>3
    <3>5. (name = Plain(b)) \in BOOLEAN
      OBVIOUS
    <3> QED BY <3>2, <3>4, <3>5
  <2> QED BY <2>1, <2>2
<1>3. PICK u \in Users, r \in Resource : \E name \in Assigned(u, r), send \in BOOLEAN :
         bind_ok(c, u, name, send) \/ bind_rollback(c, u, name)
  BY <1>2
<1>4. PICK name \in Assigned(u, r), send \in BOOLEAN :
         bind_ok(c, u, name, send) \/ bind_rollback(c, u, name)
  BY <1>3
<1>5. CASE bind_ok(c, u, name, send)
  BY <1>0, <1>1, <1>5, BindOkKeeps
<1>6. CASE bind_rollback(c, u, name)
  BY <1>0, <1>1, <1>6, BindRollbackKeeps
<1> QED BY <1>4, <1>5, <1>6

(* Everything that closes sessions at once. *)
LEMMA ClosersKeep ==
    ASSUME IInv,
           \/ \E c \in Conns : \/ StreamEnded(c) \/ AuthTimeout(c) \/ CloseTimeout(c)
                               \/ handle_unhandled_stanza(c) \/ RemoveAccount(c)
                               \/ ChangePassword(c)
           \/ \E u \in Users : AdminDeleteUser(u) \/ AdminSetPassword(u)
           \/ server_stopping
    PROVE  IInv'
<1>1. ASSUME NEW c \in Conns,
             StreamEnded(c) \/ AuthTimeout(c) \/ CloseTimeout(c) \/ handle_unhandled_stanza(c)
      PROVE  IInv'
  BY <1>1, CloseKeeps DEF StreamEnded, AuthTimeout, CloseTimeout, handle_unhandled_stanza,
                          IInv, TypeOK
<1>2. ASSUME NEW u \in Users, NEW run, delete_user(u, run)
      PROVE  IInv'
  <2>1. accounts' \subseteq Users /\ up' \in BOOLEAN
    BY <1>2 DEF delete_user, IInv, TypeOK
  <2>2. msg' \in [Msgs -> [state : MsgState, user : Users \cup {None}]]
    BY <1>2, MarkedType DEF delete_user, MsgState
  <2>3. SessionsOf(u) \in SUBSET Conns
    BY DEF SessionsOf
  <2> QED BY <1>2, <2>1, <2>2, <2>3, CloseKeeps DEF delete_user
<1>3. ASSUME NEW u \in Users, NEW keep, NEW run, set_password(u, keep, run)
      PROVE  IInv'
  <2>1. {c \in SessionsOf(u) : session[c].resource # keep} \in SUBSET Conns
    BY DEF SessionsOf
  <2> QED BY <1>3, <2>1, CloseKeeps DEF set_password, IInv, TypeOK
<1>4. ASSUME NEW c \in Conns, RemoveAccount(c) \/ ChangePassword(c)
      PROVE  IInv'
  <2>1. session[c].username \in Users
    BY <1>4, SessionFacts DEF RemoveAccount, ChangePassword
  <2> QED BY <1>4, <2>1, <1>2, <1>3 DEF RemoveAccount, ChangePassword
<1>5. ASSUME NEW u \in Users, AdminDeleteUser(u) \/ AdminSetPassword(u)
      PROVE  IInv'
  BY <1>5, <1>2, <1>3 DEF AdminDeleteUser, AdminSetPassword
<1>6. ASSUME server_stopping
      PROVE  IInv'
  <2>1. {c \in Conns : Live(c)} \in SUBSET Conns
    OBVIOUS
  <2> QED BY <1>6, <2>1, CloseKeeps DEF server_stopping, IInv, TypeOK
<1> QED BY <1>1, <1>4, <1>5, <1>6

(* The connection is gone: destroyed now, or already before. *)
LEMMA DisconnectKeeps ==
    ASSUME IInv, NEW c \in Conns, ondisconnect(c)
    PROVE  IInv'
<1>1. /\ sock' = [sock EXCEPT ![c] = "gone"] /\ UNCHANGED <<accounts, msg, up>>
      /\ sock' \in [Conns -> {"none", "open", "draining", "gone"}]
      /\ sock'[c] = "gone" /\ \A d \in Conns \ {c} : sock'[d] = sock[d]
  BY DEF ondisconnect, IInv, TypeOK
<1>2. CASE Live(c)
  <2>1. destroy_session({c}, {}) /\ {c} \in SUBSET Conns
    BY <1>2 DEF ondisconnect
  <2>2. /\ accounts' \subseteq Users /\ up' \in BOOLEAN
        /\ msg' \in [Msgs -> [state : MsgState, user : Users \cup {None}]]
    BY <1>1 DEF IInv, TypeOK
  <2>3. \A d \in {c} : sock'[d] # "open"
    BY <1>1
  <2> QED BY <1>1, <2>1, <2>2, <2>3, ClosedKeeps
<1>3. CASE ~Live(c)
  <2>1. UNCHANGED <<session, full_sessions, host_sessions, bare_sessions, contact, stranger>>
    BY <1>3 DEF ondisconnect, tables
  <2>2. LiveHasConnection'
    BY <1>1, <1>3, <2>1 DEF IInv, LiveHasConnection, Live, Bound
  <2>3. Rest'
    BY <1>1, <2>1, <2>2 DEF Rest, IInv, TypeOK
  <2>4. Consistent(session', full_sessions', host_sessions', bare_sessions')
    BY <2>1, IInvConsistent
  <2> QED BY <2>3, <2>4, Reassembled
<1> QED BY <1>2, <1>3

(* Messages change nothing but their own record. *)
LEMMA MessageKeeps ==
    ASSUME IInv,
           \/ \E m \in Msgs, u \in Users : MessageToBare(m, u)
           \/ \E m \in Msgs, j \in DOMAIN full_sessions : MessageToFull(m, j)
    PROVE  IInv'
<1>1. UNCHANGED <<session, sock, full_sessions, host_sessions, bare_sessions,
                  accounts, contact, stranger, up>>
  BY DEF MessageToBare, MessageToFull, tables
<1>2. \A u \in Users : process_to_bare(u) \in MsgState
  BY DEF process_to_bare, MsgState
<1>3. \A j \in DOMAIN full_sessions : j[1] \in Users
  BY DEF IInv, TypeOK, JIDs
<1>4. msg' \in [Msgs -> [state : MsgState, user : Users \cup {None}]]
  <2>1. CASE \E m \in Msgs, u \in Users : MessageToBare(m, u)
    BY <2>1, <1>2, MarkedType DEF MessageToBare
  <2>2. CASE \E m \in Msgs, j \in DOMAIN full_sessions : MessageToFull(m, j)
    <3>1. PICK m \in Msgs, j \in DOMAIN full_sessions : MessageToFull(m, j)
      BY <2>2
    <3> DEFINE state == IF session[full_sessions[j]].send THEN "delivered"
                        ELSE process_to_bare(j[1])
    <3>2. j[1] \in Users /\ state \in MsgState
      BY <1>2, <1>3 DEF MsgState
    <3>3. msg' = Marked({m}, j[1], state)
      BY <3>1 DEF MessageToFull
    <3> QED BY <3>2, <3>3, MarkedType
  <2> QED BY <2>1, <2>2
<1>5. LiveHasConnection'
  BY <1>1 DEF IInv, LiveHasConnection, Live, Bound
<1>6. Rest'
  BY <1>1, <1>4, <1>5 DEF Rest, IInv, TypeOK
<1>7. Consistent(session', full_sessions', host_sessions', bare_sessions')
  BY <1>1, IInvConsistent
<1> QED BY <1>6, <1>7, Reassembled

(* Stuttering. *)
LEMMA StutterKeeps ==
    ASSUME IInv, UNCHANGED vars
    PROVE  IInv'
<1>1. UNCHANGED <<session, sock, full_sessions, host_sessions, bare_sessions,
                  accounts, msg, contact, stranger, up>>
  BY DEF vars, tables
<1>2. Consistent(session', full_sessions', host_sessions', bare_sessions')
  BY <1>1, IInvConsistent
<1>3. LiveHasConnection'
  BY <1>1 DEF IInv, LiveHasConnection, Live, Bound
<1>4. Rest'
  BY <1>1, <1>3 DEF Rest, IInv, TypeOK
<1> QED BY <1>2, <1>4, Reassembled

(* Before the first connection the tables are empty. *)
LEMMA InitIInv == Init => IInv
<1> SUFFICES ASSUME Init PROVE IInv
  OBVIOUS
<1>1. TypeOK
  BY BlankSession DEF Init, TypeOK, MsgState
<1>2. FullSessionsExact /\ TablesAgree /\ RosterShared /\ LiveHasConnection
  BY BlankSession DEF Init, FullSessionsExact, TablesAgree, RosterShared,
                      LiveHasConnection, Live, Bound
<1> QED BY <1>1, <1>2 DEF IInv

(* Every step of the session manager preserves the invariant. *)
LEMMA NextIInv == IInv /\ [Next]_vars => IInv'
<1> SUFFICES ASSUME IInv, [Next]_vars PROVE IInv'
  OBVIOUS
<1>1. CASE UNCHANGED vars
  BY <1>1, StutterKeeps
<1>2. CASE HostNext
  BY <1>2, MessageKeeps, ClosersKeep DEF HostNext
<1>3. ASSUME NEW c \in Conns, ConnNext(c)
      PROVE  IInv'
  BY <1>3, StreamKeeps, BindKeeps, PresenceKeeps, ClosersKeep, DisconnectKeeps DEF ConnNext
<1> QED BY <1>1, <1>2, <1>3 DEF Next

(* core/sessionmanager.lua: in every reachable state the three session
   tables and the session objects agree, every user's sessions share one
   roster object, and exactly the sessions with an open connection are
   live, for any number of connections, users and resource names. *)
THEOREM Consistency ==
    Spec => []SessionsConsistent
<1>1. Spec => []IInv
  BY InitIInv, NextIInv, PTL DEF Spec
<1>2. IInv => SessionsConsistent
  BY DEF IInv, SessionsConsistent
<1> QED BY <1>1, <1>2, PTL

----------------------------------------------------------------------------
(* What others know of the sessions: top_resources, contacts, and targets of *)
(* directed presence, again as predicates of values.                        *)
Tops(ses, host) ==
    \A u \in DOMAIN host :
        host[u].top = select_top_resources(Values(host[u].sessions), ses)
Told(ses, con, str) ==
    /\ con = {JidIn(ses, c) : c \in {d \in Conns : ses[d].resource # None /\ ses[d].presence # None}}
    /\ str = {JidIn(ses, c) : c \in {d \in Conns : ses[d].resource # None /\ ses[d].directed}}
\* A session without a resource has not sent presence.
Unheard(ses) ==
    \A c \in Conns : ses[c].resource = None => ses[c].presence = None /\ ses[c].directed = FALSE
Known(ses, host, con, str) == Tops(ses, host) /\ Told(ses, con, str) /\ Unheard(ses)

KInv == IInv /\ Known(session, host_sessions, contact, stranger)

Eligible(C, ses) == {c \in C : ses[c].presence # None /\ ses[c].presence >= 0}

(* select_top_resources depends on the eligible sessions only. *)
LEMMA SameTops ==
    ASSUME NEW A, NEW s, NEW B, NEW t, Eligible(A, s) = Eligible(B, t),
           \A c \in Eligible(A, s) : s[c].presence = t[c].presence
    PROVE  select_top_resources(A, s) = select_top_resources(B, t)
BY DEF select_top_resources, Eligible

(* The sessions of a user object are bound, and are that user's. *)
LEMMA ValuesAreBound ==
    ASSUME IInv, NEW u \in DOMAIN host_sessions
    PROVE  /\ Values(host_sessions[u].sessions) \subseteq Conns
           /\ \A c \in Values(host_sessions[u].sessions) :
                 /\ Bound(c) /\ session[c].username = u
                 /\ session[c].resource \in DOMAIN host_sessions[u].sessions
                 /\ host_sessions[u].sessions[session[c].resource] = c
<1> SUFFICES ASSUME NEW r \in DOMAIN host_sessions[u].sessions
             PROVE  LET c == host_sessions[u].sessions[r] IN
                    c \in Conns /\ Bound(c) /\ session[c].username = u /\ session[c].resource = r
  BY DEF Values
<1> DEFINE c == host_sessions[u].sessions[r]
<1>1. <<u, r>> \in DOMAIN full_sessions /\ full_sessions[<<u, r>>] = c
  BY DEF IInv, TablesAgree
<1>2. c \in Conns /\ Bound(c) /\ Jid(c) = <<u, r>>
  BY <1>1 DEF IInv, TypeOK, FullSessionsExact
<1> HIDE DEF c
<1>3. session[c].username = u /\ session[c].resource = r
  BY <1>2 DEF Jid
<1> QED BY <1>2, <1>3 DEF c

(* No two bound sessions have one JID. *)
LEMMA JidIsOwn ==
    ASSUME IInv, NEW c \in Conns, NEW d \in Conns, Bound(c), Bound(d), Jid(c) = Jid(d)
    PROVE  c = d
BY DEF IInv, FullSessionsExact

(* Sessions are destroyed, none of them by its own handler: the unavailable *)
(* presence is sent, and top_resources calculated again where it matters.   *)
LEMMA DestroyedKnown ==
    ASSUME KInv, NEW C \in SUBSET Conns, NEW run, C \cap run = {}
    PROVE  Known(SessionAfter(C), HostAfter(C, run), ContactAfter(C, run), StrangerAfter(C, run))
<1> DEFINE ses == SessionAfter(C)
<1>0. /\ IInv /\ Tops(session, host_sessions) /\ Told(session, contact, stranger) /\ Unheard(session)
  BY DEF KInv, Known
<1>1. /\ \A c \in C : ses[c] = retire_session
      /\ \A c \in Conns \ C : ses[c] = session[c]
  BY DEF SessionAfter
<1>2. retire_session.resource = None /\ retire_session.presence = None /\ retire_session.directed = FALSE
  BY DEF retire_session, Blank
<1> HIDE DEF ses
<1>3. Unheard(ses)
  BY <1>0, <1>1, <1>2 DEF Unheard
<1>4. Tops(ses, HostAfter(C, run))
  <2> SUFFICES ASSUME NEW u \in DOMAIN HostAfter(C, run)
               PROVE  HostAfter(C, run)[u].top =
                        select_top_resources(Values(HostAfter(C, run)[u].sessions), ses)
    BY DEF Tops
  <2> DEFINE old == host_sessions[u].sessions
             left == Without(old, DOMAIN old \ Remaining(u, C))
             some == \E c \in Announced(C, run) : session[c].username = u
  <2>1. u \in DOMAIN host_sessions
    BY DEF HostAfter
  <2>2. HostAfter(C, run)[u] = UserAfter(u, C, run)
    BY DEF HostAfter
  <2>3. /\ HostAfter(C, run)[u].sessions = left
        /\ HostAfter(C, run)[u].top = IF some THEN select_top_resources(Values(left), session)
                                              ELSE host_sessions[u].top
    BY <2>2 DEF UserAfter
  <2>4. Values(left) = Values(old) \ C
    <3>1. DOMAIN left = Remaining(u, C) /\ Remaining(u, C) \subseteq DOMAIN old
          /\ \A r \in Remaining(u, C) : left[r] = old[r]
      BY DEF Without, Remaining
    <3>2. ASSUME NEW r \in DOMAIN old PROVE r \in Remaining(u, C) <=> old[r] \notin C
      <4>1. <<u, r>> \in DOMAIN full_sessions /\ full_sessions[<<u, r>>] = old[r]
        BY <1>0, <2>1 DEF IInv, TablesAgree
      <4>2. old[r] \in Conns /\ Bound(old[r]) /\ Jid(old[r]) = <<u, r>>
        BY <1>0, <4>1 DEF IInv, TypeOK, FullSessionsExact
      <4>3. <<u, r>> \in UnboundJids(C) <=> old[r] \in C
        BY <1>0, <4>2, JidIsOwn DEF UnboundJids
      <4> QED BY <4>3 DEF Remaining
    <3> HIDE DEF left, old
    <3> QED BY <3>1, <3>2 DEF Values
  <2>5. Values(old) \subseteq Conns /\ \A c \in Values(old) : Bound(c) /\ session[c].username = u
    BY <1>0, <2>1, ValuesAreBound
  <2>6. host_sessions[u].top = select_top_resources(Values(old), session)
    BY <1>0, <2>1 DEF Tops
  <2>7. \A c \in Values(left) : c \in Conns /\ c \notin C /\ ses[c] = session[c]
    BY <1>1, <2>4, <2>5
  <2> HIDE DEF left, old
  <2>8. select_top_resources(Values(left), session) = select_top_resources(Values(left), ses)
    <3>1. Eligible(Values(left), session) = Eligible(Values(left), ses)
      BY <2>7 DEF Eligible
    <3>2. \A c \in Eligible(Values(left), session) : session[c].presence = ses[c].presence
      BY <2>7 DEF Eligible
    <3> QED BY <3>1, <3>2, SameTops
  <2>9. ~some => select_top_resources(Values(old), session) = select_top_resources(Values(left), session)
    <3> SUFFICES ASSUME ~some PROVE select_top_resources(Values(old), session) = select_top_resources(Values(left), session)
      OBVIOUS
    <3>1. \A c \in Values(old) : c \in C => session[c].presence = None
      BY <2>5 DEF Announced
    <3>2. Eligible(Values(old), session) = Eligible(Values(left), session)
      BY <2>4, <3>1 DEF Eligible
    <3> QED BY <3>2, SameTops
  <2> HIDE DEF some
  <2> QED BY <2>3, <2>6, <2>8, <2>9
<1>5. \A c \in Conns : ses[c].resource # None <=> c \notin C /\ Bound(c)
  BY <1>1, <1>2 DEF Bound
<1>6. \A c \in Conns \ C : JidIn(ses, c) = Jid(c)
  BY <1>1 DEF JidIn, Jid
<1>7. Told(ses, ContactAfter(C, run), StrangerAfter(C, run))
  <2>1. /\ contact = {Jid(c) : c \in {d \in Conns : Bound(d) /\ session[d].presence # None}}
        /\ stranger = {Jid(c) : c \in {d \in Conns : Bound(d) /\ session[d].directed}}
    BY <1>0 DEF Told, JidIn, Jid, Bound
  <2>2. ContactAfter(C, run) = {JidIn(ses, c) : c \in {d \in Conns : ses[d].resource # None /\ ses[d].presence # None}}
    <3>1. ContactAfter(C, run) = {Jid(c) : c \in {d \in Conns \ C : Bound(d) /\ session[d].presence # None}}
      BY <1>0, <2>1, JidIsOwn DEF ContactAfter, Announced
    <3>2. {d \in Conns \ C : Bound(d) /\ session[d].presence # None}
            = {d \in Conns : ses[d].resource # None /\ ses[d].presence # None}
      BY <1>1, <1>5
    <3> QED BY <1>6, <3>1, <3>2
  <2>3. StrangerAfter(C, run) = {JidIn(ses, c) : c \in {d \in Conns : ses[d].resource # None /\ ses[d].directed}}
    <3>1. StrangerAfter(C, run) = {Jid(c) : c \in {d \in Conns \ C : Bound(d) /\ session[d].directed}}
      BY <1>0, <2>1, JidIsOwn DEF StrangerAfter
    <3>2. {d \in Conns \ C : Bound(d) /\ session[d].directed}
            = {d \in Conns : ses[d].resource # None /\ ses[d].directed}
      BY <1>1, <1>5
    <3> QED BY <1>6, <3>1, <3>2
  <2> QED BY <2>2, <2>3 DEF Told
<1> QED BY <1>3, <1>4, <1>7 DEF Known, ses

(* The session that binds has not been heard of, so nothing changes for      *)
(* those who know of the others.                                            *)
LEMMA InsertedKnown ==
    ASSUME NEW ses, NEW full, NEW host, NEW bare, NEW con, NEW str,
           Consistent(ses, full, host, bare), Known(ses, host, con, str),
           NEW c \in Conns, ses[c].resource = None,
           NEW u \in Users, NEW name \in Resource, <<u, name>> \notin DOMAIN full,
           NEW obj, obj = (IF u \in DOMAIN host THEN host[u] ELSE NewUser),
           NEW one \in Session, one.resource = name,
           one.presence = ses[c].presence, one.directed = ses[c].directed, NEW ros
    PROVE  Known([ses EXCEPT ![c] = one],
                 Put(host, u, [sessions |-> Put(obj.sessions, name, c), roster |-> ros, top |-> obj.top]),
                 con, str)
<1> DEFINE ses1 == [ses EXCEPT ![c] = one]
           rec == [sessions |-> Put(obj.sessions, name, c), roster |-> ros, top |-> obj.top]
           host1 == Put(host, u, rec)
<1>0. /\ Shapes(ses, full, host, bare) /\ Exact(ses, full) /\ Agree(full, host, bare)
      /\ Tops(ses, host) /\ Told(ses, con, str) /\ Unheard(ses)
  BY DEF Consistent, Known
<1>1. ses1[c] = one /\ \A d \in Conns \ {c} : ses1[d] = ses[d]
  BY <1>0 DEF Shapes
<1>2. one.presence = None /\ one.directed = FALSE /\ ses[c].presence = None /\ ses[c].directed = FALSE
      /\ one.resource # None
  BY <1>0, C2SAssumption DEF Unheard
<1>3. /\ DOMAIN host1 = DOMAIN host \cup {u} /\ host1[u] = rec
      /\ \A v \in DOMAIN host \ {u} : host1[v] = host[v]
  BY DEF Put
<1>4. /\ rec.sessions = Put(obj.sessions, name, c) /\ rec.top = obj.top
  OBVIOUS
<1> HIDE DEF ses1, rec, host1
<1>5. Unheard(ses1)
  BY <1>0, <1>1, <1>2 DEF Unheard
<1>6. \A v \in DOMAIN host : Values(host[v].sessions) \subseteq Conns \ {c}
  <2> SUFFICES ASSUME NEW v \in DOMAIN host, NEW r \in DOMAIN host[v].sessions
               PROVE  host[v].sessions[r] \in Conns \ {c}
    BY DEF Values
  <2>1. <<v, r>> \in DOMAIN full /\ full[<<v, r>>] = host[v].sessions[r]
    BY <1>0 DEF Agree
  <2> QED BY <1>0, <2>1 DEF Exact, Shapes
<1>7. ASSUME NEW V \in SUBSET (Conns \ {c})
      PROVE  /\ select_top_resources(V, ses1) = select_top_resources(V, ses)
             /\ select_top_resources(V \cup {c}, ses1) = select_top_resources(V, ses)
  <2>1. Eligible(V, ses1) = Eligible(V, ses) /\ Eligible(V \cup {c}, ses1) = Eligible(V, ses)
    BY <1>1, <1>2 DEF Eligible
  <2>2. \A d \in Eligible(V, ses) : ses1[d].presence = ses[d].presence
    BY <1>1 DEF Eligible
  <2> QED BY <2>1, <2>2, SameTops
<1>8. Tops(ses1, host1)
  <2> SUFFICES ASSUME NEW v \in DOMAIN host1
               PROVE  host1[v].top = select_top_resources(Values(host1[v].sessions), ses1)
    BY DEF Tops
  <2>1. CASE v # u
    BY <1>0, <1>3, <1>6, <1>7, <2>1 DEF Tops
  <2>2. CASE v = u
    <3>1. name \notin DOMAIN obj.sessions
      BY <1>0 DEF Agree, NewUser, EmptyTable
    <3>2. Values(Put(obj.sessions, name, c)) = Values(obj.sessions) \cup {c}
      BY ONLY <3>1 DEF Values, Put
    <3>3. Values(obj.sessions) \subseteq Conns \ {c}
      BY <1>6 DEF NewUser, EmptyTable, Values
    <3>4. obj.top = select_top_resources(Values(obj.sessions), ses)
      <4>1. CASE u \in DOMAIN host
        BY <1>0, <4>1 DEF Tops
      <4>2. CASE u \notin DOMAIN host
        BY <4>2 DEF NewUser, EmptyTable, Values, select_top_resources
      <4> QED BY <4>1, <4>2
    <3> QED BY <1>3, <1>4, <1>7, <2>2, <3>2, <3>3, <3>4
  <2> QED BY <2>1, <2>2
<1>9. Told(ses1, con, str)
  <2>1. /\ {d \in Conns : ses1[d].resource # None /\ ses1[d].presence # None}
             = {d \in Conns : ses[d].resource # None /\ ses[d].presence # None}
        /\ {d \in Conns : ses1[d].resource # None /\ ses1[d].directed}
             = {d \in Conns : ses[d].resource # None /\ ses[d].directed}
    BY <1>1, <1>2
  <2>2. \A d \in Conns : ses[d].resource # None => JidIn(ses1, d) = JidIn(ses, d)
    BY <1>1 DEF JidIn
  <2> QED BY <1>0, <2>1, <2>2 DEF Told
<1> QED BY <1>5, <1>8, <1>9 DEF Known, ses1, host1, rec

(* Nothing that others know of changes. *)
LEMMA NothingNew ==
    ASSUME KInv, session' \in [Conns -> Session],
           \A c \in Conns : /\ session'[c].resource = session[c].resource
                            /\ Bound(c) => session'[c].username = session[c].username
                            /\ session'[c].presence = session[c].presence
                            /\ session'[c].directed = session[c].directed,
           UNCHANGED <<host_sessions, contact, stranger>>
    PROVE  Known(session', host_sessions', contact', stranger')
<1>0. /\ IInv /\ Tops(session, host_sessions) /\ Told(session, contact, stranger) /\ Unheard(session)
  BY DEF KInv, Known
<1>1. Unheard(session')
  BY <1>0 DEF Unheard
<1>2. Tops(session', host_sessions')
  <2> SUFFICES ASSUME NEW u \in DOMAIN host_sessions
               PROVE  host_sessions[u].top =
                        select_top_resources(Values(host_sessions[u].sessions), session')
    BY DEF Tops
  <2> DEFINE V == Values(host_sessions[u].sessions)
  <2>1. V \subseteq Conns
    BY <1>0, ValuesAreBound
  <2> HIDE DEF V
  <2>2. Eligible(V, session) = Eligible(V, session')
    BY <2>1 DEF Eligible
  <2>3. \A c \in Eligible(V, session) : session[c].presence = session'[c].presence
    BY <2>1 DEF Eligible
  <2>4. select_top_resources(V, session) = select_top_resources(V, session')
    BY <2>2, <2>3, SameTops
  <2> QED BY <1>0, <2>4 DEF Tops, V
<1>3. Told(session', contact', stranger')
  <2>1. /\ {d \in Conns : session'[d].resource # None /\ session'[d].presence # None}
             = {d \in Conns : session[d].resource # None /\ session[d].presence # None}
        /\ {d \in Conns : session'[d].resource # None /\ session'[d].directed}
             = {d \in Conns : session[d].resource # None /\ session[d].directed}
    OBVIOUS
  <2>2. \A d \in Conns : session[d].resource # None => JidIn(session', d) = JidIn(session, d)
    BY DEF JidIn, Bound
  <2> QED BY <1>0, <2>1, <2>2 DEF Told
<1> QED BY <1>1, <1>2, <1>3 DEF Known

(* The presence handlers tell everybody, and recalculate top_resources.      *)
LEMMA PresenceKnown ==
    ASSUME KInv, NEW c \in Conns,
           \/ \E p \in Priorities : presence_available(c, p)
           \/ presence_unavailable(c)
           \/ \E a \in BOOLEAN : outbound_presence(c, a)
    PROVE  Known(session', host_sessions', contact', stranger')
<1> DEFINE u == session[c].username
<1>0. /\ IInv /\ Tops(session, host_sessions) /\ Told(session, contact, stranger) /\ Unheard(session)
  BY DEF KInv, Known
<1>1. Receives(c) /\ session[c].type = "c2s"
  BY DEF presence_available, presence_unavailable, outbound_presence
<1>2. session[c] \in Session /\ Bound(c) /\ session \in [Conns -> Session]
  BY <1>0, <1>1, SessionFacts DEF IInv, TypeOK
<1>3. u \in DOMAIN host_sessions
  BY <1>0, <1>2 DEF IInv, RosterShared
(* A changed session, and the user object that follows it. *)
<1>4. ASSUME NEW one \in Session, session' = [session EXCEPT ![c] = one],
             one.resource = session[c].resource, one.username = session[c].username,
             \/ one.presence = session[c].presence /\ host_sessions' = host_sessions
             \/ host_sessions' = Recalculated(u, c, one.presence)
      PROVE  Tops(session', host_sessions') /\ Unheard(session')
  <2>1. session'[c] = one /\ \A d \in Conns \ {c} : session'[d] = session[d]
    BY <1>2, <1>4
  <2>2. Unheard(session')
    BY <1>0, <1>2, <1>4, <2>1 DEF Unheard, Bound
  <2>3. /\ DOMAIN host_sessions' = DOMAIN host_sessions
        /\ \A v \in DOMAIN host_sessions :
              /\ host_sessions'[v].sessions = host_sessions[v].sessions
              /\ v # u => host_sessions'[v].top = host_sessions[v].top
    <3>1. CASE host_sessions' = host_sessions
      BY <3>1
    <3>2. CASE host_sessions' = Recalculated(u, c, one.presence)
      <4>1. PICK T : host_sessions' = [host_sessions EXCEPT ![u].top = T]
        BY <3>2 DEF Recalculated
      <4>2. \A v \in DOMAIN host_sessions : UserRecord(host_sessions[v])
        BY <1>0 DEF IInv, TypeOK
      <4> QED BY <1>3, <4>1, <4>2 DEF UserRecord
    <3> QED BY <1>4, <3>1, <3>2
  <2>4. ASSUME NEW v \in DOMAIN host_sessions PROVE Values(host_sessions[v].sessions) \subseteq Conns
    BY <1>0, ValuesAreBound
  <2>5. ASSUME NEW v \in DOMAIN host_sessions, v # u PROVE c \notin Values(host_sessions[v].sessions)
    BY <1>0, <2>5, ValuesAreBound
  <2>6. ASSUME NEW V \in SUBSET Conns, NEW t, \A d \in V : t[d].presence = session'[d].presence
        PROVE  select_top_resources(V, t) = select_top_resources(V, session')
    <3>1. Eligible(V, t) = Eligible(V, session')
      BY <2>6 DEF Eligible
    <3>2. \A d \in Eligible(V, t) : t[d].presence = session'[d].presence
      BY <2>6 DEF Eligible
    <3> QED BY <3>1, <3>2, SameTops
  <2>7. ASSUME NEW v \in DOMAIN host_sessions, v # u
        PROVE  host_sessions'[v].top = select_top_resources(Values(host_sessions'[v].sessions), session')
    <3>1. \A d \in Values(host_sessions[v].sessions) : session[d].presence = session'[d].presence
      BY <2>1, <2>4, <2>5, <2>7
    <3>2. host_sessions[v].top = select_top_resources(Values(host_sessions[v].sessions), session)
      BY <1>0 DEF Tops
    <3> QED BY <2>3, <2>4, <2>6, <2>7, <3>1, <3>2
  <2>8. host_sessions'[u].top = select_top_resources(Values(host_sessions'[u].sessions), session')
    <3>1. CASE one.presence = session[c].presence /\ host_sessions' = host_sessions
      <4>1. \A d \in Values(host_sessions[u].sessions) : session[d].presence = session'[d].presence
        BY <1>3, <2>1, <2>4, <3>1
      <4>2. host_sessions[u].top = select_top_resources(Values(host_sessions[u].sessions), session)
        BY <1>0, <1>3 DEF Tops
      <4> QED BY <1>3, <2>4, <2>6, <3>1, <4>1, <4>2
    <3>2. CASE host_sessions' = Recalculated(u, c, one.presence)
      <4> DEFINE t == [session EXCEPT ![c].presence = one.presence]
                 T == select_top_resources(Values(host_sessions[u].sessions), t)
      <4>1. \A d \in Conns : t[d].presence = session'[d].presence
        <5>1. t = [session EXCEPT ![c] = [session[c] EXCEPT !.presence = one.presence]]
          BY <1>2
        <5>2. [session[c] EXCEPT !.presence = one.presence].presence = one.presence
          BY <1>2 DEF Session
        <5> QED BY <1>2, <2>1, <5>1, <5>2
      <4>2. host_sessions' = [host_sessions EXCEPT ![u].top = T]
        BY <3>2 DEF Recalculated
      <4> HIDE DEF t, T
      <4>3. host_sessions'[u].top = T
        <5>1. UserRecord(host_sessions[u])
          BY <1>0, <1>3 DEF IInv, TypeOK
        <5> QED BY <1>3, <4>2, <5>1 DEF UserRecord
      <4>4. T = select_top_resources(Values(host_sessions[u].sessions), session')
        BY <1>3, <2>4, <2>6, <4>1 DEF T
      <4> QED BY <1>3, <2>3, <4>3, <4>4
    <3> QED BY <1>4, <3>1, <3>2
  <2> QED BY <2>2, <2>3, <2>7, <2>8 DEF Tops
(* Its JID is in the sets exactly when it should be. *)
<1>5. ASSUME NEW one \in Session, session' = [session EXCEPT ![c] = one],
             one.resource = session[c].resource, one.username = session[c].username
      PROVE  /\ \A d \in Conns : session'[d].resource # None <=> Bound(d)
             /\ \A d \in Conns : JidIn(session', d) = Jid(d)
             /\ session'[c] = one /\ \A d \in Conns \ {c} : session'[d] = session[d]
             /\ \A d \in Conns \ {c} : Bound(d) => Jid(d) # Jid(c)
  <2>1. session'[c] = one /\ \A d \in Conns \ {c} : session'[d] = session[d]
    BY <1>2, <1>5
  <2> QED BY <1>0, <1>2, <1>5, <2>1, JidIsOwn DEF JidIn, Jid, Bound
<1>6. /\ contact = {Jid(d) : d \in {d \in Conns : Bound(d) /\ session[d].presence # None}}
      /\ stranger = {Jid(d) : d \in {d \in Conns : Bound(d) /\ session[d].directed}}
  BY <1>0 DEF Told, JidIn, Jid, Bound
<1>7. (Jid(c) \in contact <=> session[c].presence # None) /\ (Jid(c) \in stranger <=> session[c].directed)
  BY <1>0, <1>2, <1>6, JidIsOwn
<1>8. ASSUME NEW one \in Session, session' = [session EXCEPT ![c] = one],
              one.resource = session[c].resource, one.username = session[c].username,
              contact' = (IF one.presence # None THEN contact \cup {Jid(c)} ELSE contact \ {Jid(c)}),
              stranger' = (IF one.directed THEN stranger \cup {Jid(c)} ELSE stranger \ {Jid(c)})
       PROVE  Told(session', contact', stranger')
  <2>1. /\ \A d \in Conns : session'[d].resource # None <=> Bound(d)
        /\ \A d \in Conns : JidIn(session', d) = Jid(d)
        /\ session'[c] = one /\ \A d \in Conns \ {c} : session'[d] = session[d]
        /\ \A d \in Conns \ {c} : Bound(d) => Jid(d) # Jid(c)
    BY <1>5, <1>8
  <2> DEFINE A == {d \in Conns : session'[d].resource # None /\ session'[d].presence # None}
             B == {d \in Conns : session'[d].resource # None /\ session'[d].directed}
             A0 == {d \in Conns : Bound(d) /\ session[d].presence # None}
             B0 == {d \in Conns : Bound(d) /\ session[d].directed}
  <2>2. /\ A = IF one.presence # None THEN A0 \cup {c} ELSE A0 \ {c}
        /\ B = IF one.directed THEN B0 \cup {c} ELSE B0 \ {c}
    BY <1>2, <2>1
  <2>3. \A d \in A0 \cup B0 : d \in Conns /\ Bound(d)
    OBVIOUS
  <2>4. contact = {Jid(d) : d \in A0} /\ stranger = {Jid(d) : d \in B0}
    BY <1>6
  <2>5. \A d \in A \cup B : JidIn(session', d) = Jid(d)
    BY <2>1
  <2> HIDE DEF A, B, A0, B0
  <2>6. contact' = {JidIn(session', d) : d \in A}
    <3>1. {JidIn(session', d) : d \in A} = {Jid(d) : d \in A}
      BY ONLY <2>5
    <3>2. /\ {Jid(d) : d \in A0 \cup {c}} = {Jid(d) : d \in A0} \cup {Jid(c)}
          /\ {Jid(d) : d \in A0 \ {c}} = {Jid(d) : d \in A0} \ {Jid(c)}
      BY ONLY <2>1, <2>3
    <3> QED BY ONLY <1>8, <2>2, <2>4, <3>1, <3>2
  <2>7. stranger' = {JidIn(session', d) : d \in B}
    <3>1. {JidIn(session', d) : d \in B} = {Jid(d) : d \in B}
      BY ONLY <2>5
    <3>2. /\ {Jid(d) : d \in B0 \cup {c}} = {Jid(d) : d \in B0} \cup {Jid(c)}
          /\ {Jid(d) : d \in B0 \ {c}} = {Jid(d) : d \in B0} \ {Jid(c)}
      BY ONLY <2>1, <2>3
    <3> QED BY ONLY <1>8, <2>2, <2>4, <3>1, <3>2
  <2> QED BY <2>6, <2>7 DEF Told, A, B
<1>9. CASE \E p \in Priorities : presence_available(c, p)
  <2>1. PICK p \in Priorities : presence_available(c, p)
    BY <1>9
  <2>2. PICK one : one = [session[c] EXCEPT !.presence = p]
    OBVIOUS
  <2>3. /\ one \in Session /\ one.resource = session[c].resource /\ one.username = session[c].username
        /\ one.presence = p /\ one.directed = session[c].directed /\ p # None
    BY <1>2, <2>2, C2SAssumption DEF Session
  <2>4. session' = [session EXCEPT ![c] = one]
    BY <1>2, <2>1, <2>2 DEF presence_available
  <2>5. contact' = contact \cup {Jid(c)} /\ stranger' = stranger
    BY <2>1 DEF presence_available
  <2>6. Tops(session', host_sessions') /\ Unheard(session')
    <3>1. \/ one.presence = session[c].presence /\ host_sessions' = host_sessions
          \/ host_sessions' = Recalculated(u, c, one.presence)
      BY <2>1, <2>3 DEF presence_available
    <3> QED BY <1>4, <2>3, <2>4, <3>1
  <2>7. Told(session', contact', stranger')
    BY <1>7, <1>8, <2>3, <2>4, <2>5
  <2> QED BY <2>6, <2>7 DEF Known
<1>10. CASE presence_unavailable(c)
  <2>2. PICK no : no = FALSE
    OBVIOUS
  <2>3. PICK one : one = [session[c] EXCEPT !.presence = None, !.directed = no]
    OBVIOUS
  <2>4. /\ one \in Session /\ one.resource = session[c].resource /\ one.username = session[c].username
        /\ one.presence = None /\ one.directed = FALSE
    BY <1>2, <2>2, <2>3 DEF Session
  <2>5. session' = [session EXCEPT ![c] = one]
    BY <1>10, <1>2, <2>2, <2>3 DEF presence_unavailable
  <2>6. contact' = contact \ {Jid(c)} /\ stranger' = IF session[c].directed THEN stranger \ {Jid(c)} ELSE stranger
    BY <1>10 DEF presence_unavailable
  <2>7. Tops(session', host_sessions') /\ Unheard(session')
    <3>1. \/ one.presence = session[c].presence /\ host_sessions' = host_sessions
          \/ host_sessions' = Recalculated(u, c, one.presence)
      BY <1>10, <2>4 DEF presence_unavailable
    <3> QED BY <1>4, <2>4, <2>5, <3>1
  <2>8. Told(session', contact', stranger')
    BY <1>7, <1>8, <2>4, <2>5, <2>6
  <2> QED BY <2>7, <2>8 DEF Known
<1>11. CASE \E a \in BOOLEAN : outbound_presence(c, a)
  <2>1. PICK a \in BOOLEAN : outbound_presence(c, a)
    BY <1>11
  <2>2. PICK one : one = [session[c] EXCEPT !.directed = a]
    OBVIOUS
  <2>3. /\ one \in Session /\ one.resource = session[c].resource /\ one.username = session[c].username
        /\ one.presence = session[c].presence /\ one.directed = a
    BY <1>2, <2>2 DEF Session
  <2>4. session' = [session EXCEPT ![c] = one]
    BY <1>2, <2>1, <2>2 DEF outbound_presence
  <2>5. /\ contact' = contact /\ stranger' = IF a THEN stranger \cup {Jid(c)} ELSE stranger \ {Jid(c)}
        /\ host_sessions' = host_sessions
    BY <2>1 DEF outbound_presence, tables
  <2>6. Tops(session', host_sessions') /\ Unheard(session')
    BY <1>4, <2>3, <2>4, <2>5
  <2>7. Told(session', contact', stranger')
    BY <1>7, <1>8, <2>3, <2>4, <2>5
  <2> QED BY <2>6, <2>7 DEF Known
<1> QED BY <1>9, <1>10, <1>11

(* bind_resource tells nobody anything, but for the session it replaces. *)
LEMMA BindKnown ==
    ASSUME KInv, NEW c \in Conns,
           \/ \E r \in Wanted : bind_resource(c, r)
           \/ \E u \in Users, b \in Requested : legacy_auth(c, u, b)
    PROVE  Known(session', host_sessions', contact', stranger')
<1>0. /\ IInv /\ Receives(c) /\ session[c].type \in {"c2s_unbound", "c2s_unauthed"}
  BY DEF KInv, bind_resource, legacy_auth
<1>1. ~Bound(c) /\ session[c].send \in BOOLEAN /\ session[c] \in Session
  BY <1>0, SessionFacts DEF Session
<1>2. \E u \in Users, r \in Resource : \E name \in Assigned(u, r), send \in BOOLEAN :
         bind_ok(c, u, name, send) \/ bind_rollback(c, u, name)
  <2>1. CASE \E r \in Wanted : bind_resource(c, r)
    <3>1. PICK r \in Wanted : bind_resource(c, r)
      BY <2>1
    <3>2. session[c].username \in Users
      BY <1>0, <3>1, SessionFacts DEF bind_resource
    <3>3. r \in Resource
      BY ResourceNames DEF Wanted
    <3>4. \E name \in Assigned(session[c].username, r) :
             \/ bind_ok(c, session[c].username, name, session[c].send)
             \/ bind_rollback(c, session[c].username, name)
      BY <3>1 DEF bind_resource
    <3> QED BY <3>2, <3>3, <3>4, <1>1
  <2>2. CASE \E u \in Users, b \in Requested : legacy_auth(c, u, b)
    <3>1. PICK u \in Users, b \in Requested : legacy_auth(c, u, b)
      BY <2>2
    <3>2. Plain(b) \in Resource
      BY ResourceNames
    <3>3. PICK name \in Assigned(u, Plain(b)) :
             \/ bind_ok(c, u, name, name = Plain(b))
             \/ bind_rollback(c, u, name)
      BY <3>1 DEF legacy_auth
    <3>4. (name = Plain(b)) \in BOOLEAN
      OBVIOUS
    <3> QED BY <3>2, <3>3, <3>4
  <2> QED BY <2>1, <2>2
<1>3. PICK u \in Users, r \in Resource : \E name \in Assigned(u, r), send \in BOOLEAN :
         bind_ok(c, u, name, send) \/ bind_rollback(c, u, name)
  BY <1>2
<1>4. PICK name \in Assigned(u, r), send \in BOOLEAN :
         bind_ok(c, u, name, send) \/ bind_rollback(c, u, name)
  BY <1>3
<1> DEFINE K == Kicked(u, name)
           obj == UserObject(u, K, c)
           ros == LoadedRoster(obj, c)
           one == [session[c] EXCEPT !.type = "c2s", !.username = u, !.resource = name,
                                     !.roster = ros, !.send = send]
<1>5. /\ name \in Resource /\ K \in SUBSET Conns /\ c \notin K
      /\ <<u, name>> \notin DOMAIN FullAfter(K)
  BY <1>0, <1>1, AssignedFacts
<1>6. Consistent(SessionAfter(K), FullAfter(K), HostAfter(K, {c}), BareAfter(K))
  BY <1>0, <1>5, Destroyed
<1>7. Known(SessionAfter(K), HostAfter(K, {c}), ContactAfter(K, {c}), StrangerAfter(K, {c}))
  BY <1>5, DestroyedKnown
<1>8. CASE bind_ok(c, u, name, send)
  <2>1. SessionAfter(K) \in [Conns -> Session] /\ SessionAfter(K)[c] = session[c]
    BY <1>5, <1>6 DEF Consistent, Shapes, SessionAfter
  <2>2. ros \in Conns
    <3>1. \A v \in DOMAIN HostAfter(K, {c}) : UserRecord(HostAfter(K, {c})[v])
      BY <1>6 DEF Consistent, Shapes
    <3>2. obj.roster \in Conns \cup {None}
      BY <3>1 DEF UserObject, NewUser, UserRecord
    <3> QED BY <3>2 DEF LoadedRoster
  <2> HIDE DEF K, obj, ros
  <2>3. /\ one \in Session /\ one.resource = name
        /\ one.presence = session[c].presence /\ one.directed = session[c].directed
    BY <1>1, <1>5, <2>2 DEF Session
  <2>4. session' = [SessionAfter(K) EXCEPT ![c] = one]
    BY <1>8, <2>1 DEF bind_ok, K, obj, ros
  <2>5. /\ host_sessions' = Put(HostAfter(K, {c}), u,
                                [sessions |-> Put(obj.sessions, name, c), roster |-> ros, top |-> obj.top])
        /\ contact' = ContactAfter(K, {c}) /\ stranger' = StrangerAfter(K, {c})
    BY <1>8 DEF bind_ok, K, obj, ros
  <2>6. obj = IF u \in DOMAIN HostAfter(K, {c}) THEN HostAfter(K, {c})[u] ELSE NewUser
    BY DEF UserObject, obj
  <2>7. SessionAfter(K)[c].resource = None
    BY <1>1, <2>1 DEF Bound
  <2> HIDE DEF one
  <2> QED BY <1>5, <1>6, <1>7, <2>1, <2>3, <2>4, <2>5, <2>6, <2>7, InsertedKnown
<1>9. CASE bind_rollback(c, u, name)
  <2>1. destroy_session(K, {c})
    BY <1>0, <1>1, <1>9, RollbackDestroys
  <2> QED BY <1>7, <2>1 DEF destroy_session
<1> QED BY <1>4, <1>8, <1>9

(* No session is closed by its own handler: every other way of closing       *)
(* sends the unavailable presence.                                          *)
LEMMA ClosersKnown ==
    ASSUME KInv, "selfclose" \notin Environment,
           \/ \E c \in Conns : \/ StreamEnded(c) \/ AuthTimeout(c) \/ CloseTimeout(c)
                               \/ handle_unhandled_stanza(c) \/ RemoveAccount(c)
                               \/ ChangePassword(c) \/ ondisconnect(c)
           \/ \E u \in Users : AdminDeleteUser(u) \/ AdminSetPassword(u)
           \/ server_stopping
    PROVE  Known(session', host_sessions', contact', stranger')
<1>1. ASSUME NEW C \in SUBSET Conns, NEW run, C \cap run = {}, destroy_session(C, run)
      PROVE  Known(session', host_sessions', contact', stranger')
  BY <1>1, DestroyedKnown DEF destroy_session
<1>2. ASSUME NEW c \in Conns, StreamEnded(c) \/ AuthTimeout(c) \/ CloseTimeout(c)
      PROVE  Known(session', host_sessions', contact', stranger')
  BY <1>1, <1>2 DEF StreamEnded, AuthTimeout, CloseTimeout, session_close
<1>3. ASSUME NEW c \in Conns, ChangePassword(c)
      PROVE  Known(session', host_sessions', contact', stranger')
  <2> DEFINE C == {d \in SessionsOf(session[c].username) : session[d].resource # session[c].resource}
  <2>1. C \in SUBSET Conns /\ C \cap {c} = {}
    BY DEF SessionsOf
  <2>2. destroy_session(C, {c})
    BY <1>3 DEF ChangePassword, set_password, session_close
  <2> HIDE DEF C
  <2> QED BY <1>1, <2>1, <2>2
<1>4. ASSUME NEW u \in Users, AdminDeleteUser(u) \/ AdminSetPassword(u)
      PROVE  Known(session', host_sessions', contact', stranger')
  <2>1. \E C \in SUBSET Conns : destroy_session(C, {})
    BY <1>4 DEF AdminDeleteUser, AdminSetPassword, delete_user, set_password, session_close, SessionsOf
  <2> QED BY <1>1, <2>1
<1>5. CASE server_stopping
  <2>1. \E C \in SUBSET Conns : destroy_session(C, {})
    BY <1>5 DEF server_stopping, session_close
  <2> QED BY <1>1, <2>1
<1>6. ASSUME NEW c \in Conns, ondisconnect(c)
      PROVE  Known(session', host_sessions', contact', stranger')
  <2>1. CASE Live(c)
    BY <1>1, <1>6, <2>1 DEF ondisconnect
  <2>2. CASE ~Live(c)
    BY <1>6, <2>2 DEF ondisconnect, tables, KInv
  <2> QED BY <2>1, <2>2
<1> QED BY <1>2, <1>3, <1>4, <1>5, <1>6 DEF handle_unhandled_stanza, RemoveAccount

(* Streams that open, authenticate and linger. *)
LEMMA StreamKnown ==
    ASSUME KInv, NEW c \in Conns,
           \/ onconnect(c) \/ streamopened(c) \/ StreamError(c) \/ AdminCloseSession(c)
           \/ \E u \in Users : sasl_success(c, u)
    PROVE  Known(session', host_sessions', contact', stranger')
<1>0. /\ IInv /\ Unheard(session) /\ session \in [Conns -> Session] /\ session[c] \in Session
      /\ UNCHANGED <<host_sessions, contact, stranger>>
      /\ session[c].type = "c2s" <=> Bound(c)
      /\ Live(c) <=> sock[c] = "open"
  BY SessionFacts DEF KInv, Known, IInv, TypeOK, onconnect, streamopened, StreamError,
                      AdminCloseSession, session_close_nil, sasl_success, tables
<1>1. ASSUME NEW one \in Session, session' = [session EXCEPT ![c] = one],
             one.resource = session[c].resource, Bound(c) => one.username = session[c].username,
             one.presence = session[c].presence, one.directed = session[c].directed
      PROVE  Known(session', host_sessions', contact', stranger')
  <2>1. session' \in [Conns -> Session] /\ session'[c] = one /\ \A d \in Conns \ {c} : session'[d] = session[d]
    BY <1>0, <1>1
  <2>2. \A d \in Conns : /\ session'[d].resource = session[d].resource
                         /\ Bound(d) => session'[d].username = session[d].username
                         /\ session'[d].presence = session[d].presence
                         /\ session'[d].directed = session[d].directed
    BY <1>1, <2>1
  <2> QED BY <1>0, <2>1, <2>2, NothingNew
<1>2. CASE onconnect(c)
  <2>1. ~Bound(c)
    BY <1>0, <1>2 DEF onconnect, Live
  <2>2. session[c].resource = None /\ session[c].presence = None /\ session[c].directed = FALSE
    BY <1>0, <2>1 DEF Unheard, Bound
  <2>3. new_session.presence = None /\ new_session.directed = FALSE
    BY DEF new_session, Blank
  <2>4. session' = [session EXCEPT ![c] = new_session]
    BY <1>2 DEF onconnect
  <2> QED BY <1>1, <2>1, <2>2, <2>3, <2>4, BlankSession
<1>3. CASE streamopened(c)
  <2>1. PICK no : no = FALSE
    OBVIOUS
  <2>2. PICK one : one = [session[c] EXCEPT !.notopen = no]
    OBVIOUS
  <2>3. /\ one \in Session /\ one.resource = session[c].resource /\ one.username = session[c].username
        /\ one.presence = session[c].presence /\ one.directed = session[c].directed
    BY <1>0, <2>1, <2>2 DEF Session
  <2>4. session' = [session EXCEPT ![c] = one]
    BY <1>0, <1>3, <2>1, <2>2 DEF streamopened
  <2> QED BY <1>1, <2>3, <2>4
<1>4. CASE StreamError(c) \/ AdminCloseSession(c)
  <2>1. PICK no : no = FALSE
    OBVIOUS
  <2>2. PICK one : one = [session[c] EXCEPT !.send = no]
    OBVIOUS
  <2>3. /\ one \in Session /\ one.resource = session[c].resource /\ one.username = session[c].username
        /\ one.presence = session[c].presence /\ one.directed = session[c].directed
    BY <1>0, <2>1, <2>2 DEF Session
  <2>4. session' = [session EXCEPT ![c] = one]
    BY <1>0, <1>4, <2>1, <2>2 DEF StreamError, AdminCloseSession, session_close_nil
  <2> QED BY <1>1, <2>3, <2>4
<1>5. CASE \E u \in Users : sasl_success(c, u)
  <2>0. PICK u \in Users : sasl_success(c, u)
    BY <1>5
  <2>1. PICK yes : yes = TRUE
    OBVIOUS
  <2>2. PICK one : one = [session[c] EXCEPT !.type = "c2s_unbound", !.username = u, !.notopen = yes]
    OBVIOUS
  <2>3. /\ one \in Session /\ one.resource = session[c].resource
        /\ one.presence = session[c].presence /\ one.directed = session[c].directed
    BY <1>0, <2>1, <2>2 DEF Session
  <2>4. session' = [session EXCEPT ![c] = one] /\ ~Bound(c)
    BY <1>0, <2>0, <2>1, <2>2 DEF sasl_success
  <2> QED BY <1>1, <2>3, <2>4
<1> QED BY <1>2, <1>3, <1>4, <1>5

(* Every step that is not a session closing itself keeps the invariant. *)
LEMMA NextKInv ==
    ASSUME KInv, "selfclose" \notin Environment, [Next]_vars
    PROVE  KInv'
<1>1. IInv'
  BY NextIInv DEF KInv
<1>2. Known(session', host_sessions', contact', stranger')
  <2>1. CASE UNCHANGED vars
    BY <2>1 DEF vars, tables, KInv
  <2>2. ASSUME \/ \E m \in Msgs, u \in Users : MessageToBare(m, u)
               \/ \E m \in Msgs, j \in DOMAIN full_sessions : MessageToFull(m, j)
        PROVE  Known(session', host_sessions', contact', stranger')
    BY <2>2 DEF MessageToBare, MessageToFull, tables, KInv
  <2>3. CASE HostNext
    BY <2>2, <2>3, ClosersKnown DEF HostNext
  <2>4. ASSUME NEW c \in Conns, ConnNext(c)
        PROVE  Known(session', host_sessions', contact', stranger')
    BY <2>4, StreamKnown, BindKnown, PresenceKnown, ClosersKnown DEF ConnNext
  <2> QED BY <2>1, <2>3, <2>4 DEF Next
<1> QED BY <1>1, <1>2 DEF KInv

(* Before the first connection nobody has heard of any session. *)
LEMMA InitKInv == Init => KInv
<1> SUFFICES ASSUME Init PROVE KInv
  OBVIOUS
<1>1. Absent.resource = None /\ Absent.presence = None /\ Absent.directed = FALSE
  BY DEF Absent, Blank
<1>2. \A c \in Conns : session[c] = Absent
  BY DEF Init
<1>3. Unheard(session)
  BY <1>1, <1>2 DEF Unheard
<1>4. Tops(session, host_sessions) /\ Told(session, contact, stranger)
  BY <1>1, <1>2 DEF Init, Tops, Told
<1> QED BY <1>3, <1>4, InitIInv DEF KInv, Known

(* Some session is a top resource if any is eligible, as priorities are      *)
(* bounded.                                                                 *)
LEMMA TopExists ==
    ASSUME NEW C \in SUBSET Conns, session \in [Conns -> Session], NEW c \in Eligible(C, session)
    PROVE  select_top_resources(C, session) # {}
<1> DEFINE E == Eligible(C, session)
           D == {127 - session[d].presence : d \in E}
           R == OpToRel(<, Nat)
<1>1. \A d \in E : session[d].presence \in -128..127
  BY C2SAssumption DEF Eligible, Session
<1>2. D \in SUBSET Nat /\ D # {}
  BY <1>1
<1>3. IsWellFoundedOn(R, Nat)
  BY NatLessThanWellFounded
<1>4. \A x, y \in Nat : x < y => <<x, y>> \in R
  BY DEF OpToRel
<1> HIDE DEF R
<1>5. PICK x \in D : \A y \in D : ~(<<y, x>> \in R)
  BY <1>2, <1>3, WFMin
<1>6. PICK d \in E : x = 127 - session[d].presence
  BY <1>5
<1>7. ASSUME NEW e \in E PROVE session[e].presence <= session[d].presence
  <2>1. 127 - session[e].presence \in D
    OBVIOUS
  <2>2. ~(127 - session[e].presence < x)
    BY <1>2, <1>4, <1>5, <2>1
  <2>3. PICK i, j : i = session[e].presence /\ j = session[d].presence /\ i \in -128..127 /\ j \in -128..127
    BY <1>1
  <2>4. ~(127 - i < 127 - j)
    BY <1>6, <2>2, <2>3
  <2>5. i <= j
    BY ONLY <2>3, <2>4
  <2> QED BY <2>3, <2>5
<1> QED BY <1>6, <1>7 DEF select_top_resources, Eligible

(* The invariant holds in every state. *)
LEMMA AlwaysKInv ==
    ASSUME "selfclose" \notin Environment
    PROVE  Spec => []KInv
<1>1. KInv /\ [Next]_vars => KInv'
  BY NextKInv
<1> QED BY <1>1, InitKInv, PTL DEF Spec

(* mod_presence.lua:33-119: as long as no session is closed from inside its
   own handler, the top_resources cached for a user are at any time the ones
   that select_top_resources would return. *)
THEOREM TopFreshHolds ==
    ASSUME "selfclose" \notin Environment
    PROVE  Spec => []TopFresh
<1>1. KInv => TopFresh
  BY DEF KInv, Known, Tops, TopFresh
<1> QED BY <1>1, AlwaysKInv, PTL

(* mod_presence.lua:33-119, 340-360: under the same condition contacts and
   targets of directed presence believe exactly those sessions available that
   have told them so and are still bound. *)
THEOREM NoGhostHolds ==
    ASSUME "selfclose" \notin Environment
    PROVE  Spec => []NoGhost
<1>1. KInv => NoGhost
  BY DEF KInv, Known, Told, NoGhost, JidIn, Jid, Bound
<1> QED BY <1>1, AlwaysKInv, PTL

(* mod_message.lua:18-58: under the same condition a message is stored, with a
   session there that could take it, only if a session that lingers is among
   the top resources. *)
THEOREM StoredOnlyIfAwayHolds ==
    ASSUME "selfclose" \notin Environment
    PROVE  Spec => []StoredOnlyIfAway
<1>1. KInv => StoredOnlyIfAway
  <2> SUFFICES ASSUME KInv, NEW u \in Users, NEW c \in SessionsOf(u),
                      process_to_bare(u) # "delivered",
                      session[c].send, session[c].presence # None, session[c].presence >= 0
               PROVE  \E d \in host_sessions[u].top : ~session[d].send
    BY DEF StoredOnlyIfAway
  <2>0. IInv /\ Tops(session, host_sessions) /\ session \in [Conns -> Session]
    BY DEF KInv, Known, IInv, TypeOK
  <2>1. c \in Conns /\ Bound(c) /\ session[c].username = u
    BY DEF SessionsOf
  <2>2. u \in DOMAIN host_sessions
    BY <2>0, <2>1 DEF IInv, RosterShared
  <2> DEFINE V == Values(host_sessions[u].sessions)
  <2>3. c \in V
    <3>1. Jid(c) \in DOMAIN full_sessions /\ full_sessions[Jid(c)] = c /\ Jid(c) = <<u, session[c].resource>>
      BY <2>0, <2>1 DEF IInv, FullSessionsExact, Jid
    <3>2. session[c].resource \in DOMAIN host_sessions[u].sessions
      BY <2>0, <3>1 DEF IInv, TablesAgree
    <3>3. host_sessions[u].sessions[session[c].resource] = c
      BY <2>0, <2>2, <3>1, <3>2 DEF IInv, TablesAgree
    <3> QED BY <3>2, <3>3 DEF Values
  <2>4. V \in SUBSET Conns
    BY <2>0, <2>2, ValuesAreBound
  <2> HIDE DEF V
  <2>5. c \in Eligible(V, session)
    BY <2>3 DEF Eligible
  <2>6. host_sessions[u].top # {}
    <3>1. host_sessions[u].top = select_top_resources(V, session)
      BY <2>0, <2>2 DEF Tops, V
    <3> QED BY <2>0, <2>4, <2>5, <3>1, TopExists
  <2> QED BY <2>2, <2>6 DEF process_to_bare
<1> QED BY <1>1, AlwaysKInv, PTL

(* usermanager.lua:97-102, mod_c2s.lua:205-213: whoever deletes an account, the step
   that does it leaves no session table entry and no stored message of it. *)
THEOREM DeletedIsGoneHolds == Spec => DeletedIsGone
<1>1. Spec => []IInv
  BY InitIInv, NextIInv, PTL DEF Spec
<1>2. ASSUME IInv, IInv', [Next]_vars, NEW u \in accounts \ accounts'
      PROVE  /\ u \notin DOMAIN host_sessions' /\ u \notin bare_sessions'
             /\ \A j \in DOMAIN full_sessions' : j[1] # u
             /\ ~\E m \in Msgs : msg'[m].state = "stored" /\ msg'[m].user = u
  <2>1. PICK run : delete_user(u, run)
    <3>1. accounts' # accounts
      BY <1>2
    <3>2. \/ \E v \in Users : AdminDeleteUser(v)
          \/ \E c \in Conns : RemoveAccount(c)
      <4>1. CASE UNCHANGED vars
        BY <3>1, <4>1 DEF vars
      <4>2. CASE HostNext
        BY <3>1, <4>2 DEF HostNext, MessageToBare, MessageToFull, AdminSetPassword, set_password, server_stopping
      <4>3. ASSUME NEW c \in Conns, ConnNext(c), ~RemoveAccount(c) PROVE FALSE
        <5>1. ~(onconnect(c) \/ streamopened(c) \/ StreamEnded(c) \/ StreamError(c) \/ ondisconnect(c)
                \/ AuthTimeout(c) \/ CloseTimeout(c) \/ handle_unhandled_stanza(c))
          BY <3>1 DEF onconnect, streamopened, StreamEnded, StreamError, ondisconnect,
               AuthTimeout, CloseTimeout, handle_unhandled_stanza
        <5>2. /\ \A v : ~sasl_success(c, v)
              /\ \A w : ~bind_resource(c, w)
              /\ \A v, w : ~legacy_auth(c, v, w)
          <6>1. ASSUME NEW v PROVE ~sasl_success(c, v)
            BY ONLY <3>1 DEF sasl_success
          <6>2. ASSUME NEW w PROVE ~bind_resource(c, w)
            BY ONLY <3>1 DEF bind_resource
          <6>3. ASSUME NEW v, NEW w PROVE ~legacy_auth(c, v, w)
            BY ONLY <3>1 DEF legacy_auth
          <6> QED BY ONLY <6>1, <6>2, <6>3
        <5>3. /\ \A p : ~presence_available(c, p)
              /\ \A a : ~outbound_presence(c, a)
              /\ ~(presence_unavailable(c) \/ ChangePassword(c) \/ AdminCloseSession(c))
          BY <3>1 DEF presence_available, presence_unavailable, outbound_presence, ChangePassword,
               set_password, AdminCloseSession
        <5> QED BY ONLY <4>3, <5>1, <5>2, <5>3 DEF ConnNext
      <4> QED BY <1>2, <4>1, <4>2, <4>3 DEF Next
    <3>3. PICK v, run : delete_user(v, run)
      BY <3>2 DEF AdminDeleteUser, RemoveAccount
    <3>4. v = u
      BY <1>2, <3>3 DEF delete_user
    <3> QED BY <3>3, <3>4
  <2>2. \A j \in DOMAIN full_sessions' : j[1] # u
    <3> SUFFICES ASSUME NEW j \in DOMAIN full_sessions', j[1] = u PROVE FALSE
      OBVIOUS
    <3>1. DOMAIN full_sessions' = DOMAIN full_sessions \ UnboundJids(SessionsOf(u))
      BY <2>1 DEF delete_user, session_close, destroy_session, FullAfter, Without
    <3>2. full_sessions[j] \in Conns /\ Bound(full_sessions[j]) /\ Jid(full_sessions[j]) = j
      BY <1>2, <3>1 DEF IInv, TypeOK, FullSessionsExact
    <3>3. full_sessions[j] \in SessionsOf(u)
      BY <3>2 DEF SessionsOf, Jid
    <3> QED BY <3>1, <3>2, <3>3 DEF UnboundJids
  <2>3. u \notin DOMAIN host_sessions' /\ u \notin bare_sessions'
    <3>1. TablesAgree'
      BY <1>2 DEF IInv
    <3> QED BY ONLY <2>2, <3>1 DEF TablesAgree
  <2>4. ASSUME NEW m \in Msgs PROVE ~(msg'[m].state = "stored" /\ msg'[m].user = u)
    BY <2>1 DEF delete_user, Marked, StoredFor
  <2> QED BY <2>2, <2>3, <2>4
<1>3. IInv /\ IInv' /\ [Next]_vars =>
        [\A u \in accounts \ accounts' :
          /\ u \notin DOMAIN host_sessions' /\ u \notin bare_sessions'
          /\ \A j \in DOMAIN full_sessions' : j[1] # u
          /\ ~\E m \in Msgs : msg'[m].state = "stored" /\ msg'[m].user = u]_vars
  BY <1>2
<1> QED BY <1>1, <1>3, PTL DEF Spec, DeletedIsGone
=============================================================================
