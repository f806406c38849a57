--------------------------- MODULE Roster_proofs ---------------------------
(***************************************************************************)
(* Proofs about Roster, for every value of its constants.  Roster items    *)
(* are always well formed, in memory and in the store, although saves may  *)
(* fail; no subscription appears that the user's client did not accept;    *)
(* once everything has arrived between two servers, whoever believes to be *)
(* subscribed is served and sees the other user as it is; on one server    *)
(* the two rosters then agree, and a deleted account is in neither.        *)
(***************************************************************************)
EXTENDS Roster, TLAPS, SequenceTheorems

(* Other picks the second of the two users. *)
LEMMA OtherUser ==
    ASSUME NEW u \in Users
    PROVE  Other(u) \in Users /\ Other(u) # u
<1>1. \E v \in Users : v # u
  BY UsersAssumption
<1> QED BY <1>1 DEF Other

(* rostermanager's operations turn items into items. *)
LEMMA OperationTypes ==
    ASSUME NEW i \in Item
    PROVE  /\ Created(i) \in Item
           /\ DropTo(i) \in Item
           /\ DropFrom(i) \in Item
           /\ process_inbound_subscription_approval(i) \in Item
           /\ process_inbound_subscription_cancellation(i) \in Item
           /\ process_inbound_unsubscribe(i) \in Item
           /\ set_contact_pending_in(i) \in Item
           /\ set_contact_pending_out(i) \in Item
           /\ unsubscribe(i) \in Item
           /\ subscribed(i) \in Item
           /\ unsubscribed(i) \in Item
<1>1. Created(i) \in Item /\ DropTo(i) \in Item /\ DropFrom(i) \in Item
  BY DEF Item, Created, DropTo, DropFrom, Subscriptions
<1>2. process_inbound_subscription_approval(i) \in Item
  BY DEF Item, process_inbound_subscription_approval, Subscriptions
<1>3. process_inbound_subscription_cancellation(i) \in Item
  BY <1>1 DEF Item, process_inbound_subscription_cancellation
<1>4. process_inbound_unsubscribe(i) \in Item
  BY <1>1 DEF Item, process_inbound_unsubscribe
<1>5. set_contact_pending_in(i) \in Item
  BY DEF Item, set_contact_pending_in
<1>6. set_contact_pending_out(i) \in Item
  BY <1>1 DEF Item, set_contact_pending_out
<1>7. unsubscribe(i) \in Item
  BY <1>1 DEF Item, unsubscribe
<1>8. subscribed(i) \in Item
  BY <1>1 DEF Item, subscribed, Subscriptions
<1>9. unsubscribed(i) \in Item
  BY <1>1 DEF Item, unsubscribed
<1> QED BY <1>1, <1>2, <1>3, <1>4, <1>5, <1>6, <1>7, <1>8, <1>9

(* Each of them keeps an item well formed: the branches that the code       *)
(* comments as "subscription == from" or "== to" are taken only there.      *)
LEMMA OperationsPreserve ==
    ASSUME NEW i \in Item, ItemWellFormed(i)
    PROVE  /\ ItemWellFormed(Created(i))
           /\ ItemWellFormed(process_inbound_subscription_approval(i))
           /\ ItemWellFormed(process_inbound_subscription_cancellation(i))
           /\ ItemWellFormed(process_inbound_unsubscribe(i))
           /\ ItemWellFormed(set_contact_pending_in(i))
           /\ ItemWellFormed(set_contact_pending_out(i))
           /\ ItemWellFormed(unsubscribe(i))
           /\ ItemWellFormed(subscribed(i))
           /\ ItemWellFormed(unsubscribed(i))
<1> USE DEF Item, ItemWellFormed, HasTo, HasFrom, Subscriptions
<1>1. ItemWellFormed(Created(i))
  BY DEF Created
<1>2. ItemWellFormed(process_inbound_subscription_approval(i))
  BY DEF process_inbound_subscription_approval
<1>3. ItemWellFormed(process_inbound_subscription_cancellation(i))
  BY DEF process_inbound_subscription_cancellation, DropTo
<1>4. ItemWellFormed(process_inbound_unsubscribe(i))
  BY DEF process_inbound_unsubscribe, DropFrom
<1>5. ItemWellFormed(set_contact_pending_in(i))
  BY DEF set_contact_pending_in
<1>6. ItemWellFormed(set_contact_pending_out(i))
  BY DEF set_contact_pending_out, Created
<1>7. ItemWellFormed(unsubscribe(i))
  BY DEF unsubscribe, DropTo
<1>8. ItemWellFormed(subscribed(i))
  BY DEF subscribed, Created
<1>9. ItemWellFormed(unsubscribed(i))
  BY DEF unsubscribed, DropFrom
<1> QED BY <1>1, <1>2, <1>3, <1>4, <1>5, <1>6, <1>7, <1>8, <1>9

(* What a handler's effect may be. *)
Effects == [item : Item, saves : BOOLEAN, pushes : BOOLEAN, out : Seq(Stanzas)]

(* The stanza lists a handler sends. *)
LEMMA StanzaLists ==
    /\ << >> \in Seq(Stanzas)
    /\ \A x \in Stanzas : <<x>> \in Seq(Stanzas)
    /\ \A s, t \in Seq(Stanzas) : s \o t \in Seq(Stanzas)
  OBVIOUS

(* The fields of an effect. *)
LEMMA EffectFields ==
    \A i, saves, pushes, out :
           /\ Effect(i, saves, pushes, out).item = i
           /\ Effect(i, saves, pushes, out).saves = saves
           /\ Effect(i, saves, pushes, out).pushes = pushes
           /\ Effect(i, saves, pushes, out).out = out
  BY DEF Effect

(* The outbound handler, run for a client's stanza or for an answer. *)
LEMMA OutboundEffects ==
    ASSUME TypeOK, NEW u \in Users, NEW i \in Item, ItemWellFormed(i),
           NEW ok \in BOOLEAN, NEW type \in SubscriptionTypes,
           NEW e, e = handle_outbound_presence_subscriptions_and_probes(
                          u, type, i, ok)
    PROVE  e \in Effects /\ ItemWellFormed(e.item)
<1>1. Saved(u, ok) \in BOOLEAN
  BY DEF Saved, TypeOK
<1>2. CASE type = "subscribe"
  <2>1. e = outbound_subscribe(u, i, ok)
    BY <1>2 DEF handle_outbound_presence_subscriptions_and_probes
  <2> QED BY <2>1, <1>1, OperationTypes, OperationsPreserve, StanzaLists
        DEF outbound_subscribe, Effect, Effects, Stanzas, SubscriptionTypes
<1>3. CASE type = "unsubscribe"
  <2>1. e = outbound_unsubscribe(u, i, ok)
    BY <1>3 DEF handle_outbound_presence_subscriptions_and_probes
  <2> QED BY <2>1, <1>1, OperationTypes, OperationsPreserve, StanzaLists
        DEF outbound_unsubscribe, Effect, Effects, Stanzas, SubscriptionTypes
<1>4. CASE type = "subscribed"
  <2>1. e = outbound_subscribed(u, i, ok)
    BY <1>4 DEF handle_outbound_presence_subscriptions_and_probes
  <2>2. send_presence_of_available_resources(u) \in Seq(Stanzas)
    BY StanzaLists DEF send_presence_of_available_resources, Stanzas
  <2> DEFINE new == subscribed(i)
             probes == is_user_subscribed(u, Kept(u, new, ok))
             probe == IF probes THEN <<"probe">> ELSE << >>
             head == <<"subscribed">> \o send_presence_of_available_resources(u)
  <2>4. head \in Seq(Stanzas)
    BY <2>2, StanzaLists DEF Stanzas, SubscriptionTypes
  <2>5. probe \in Seq(Stanzas)
    BY StanzaLists DEF Stanzas
  <2>6. e.out = head \o probe
    <3> DEFINE out == head \o probe
    <3>1. e = Effect(new, new # i, new # i /\ Saved(u, ok), out)
      BY <2>1, Zenon DEF outbound_subscribed
    <3>2. e.out = out
      <4> HIDE DEF out, new
      <4> QED BY <3>1, EffectFields
    <3> QED BY <3>2, Zenon
  <2>3. e.out \in Seq(Stanzas)
    <3> HIDE DEF head, probe
    <3> QED BY <2>4, <2>5, <2>6, StanzaLists
  <2> QED BY <2>1, <2>3, <1>1, OperationTypes, OperationsPreserve
        DEF outbound_subscribed, Effect, Effects
<1>5. CASE type = "unsubscribed"
  <2>1. e = outbound_unsubscribed(u, i, ok)
    BY <1>5 DEF handle_outbound_presence_subscriptions_and_probes
  <2> DEFINE tail == IF HasFrom(i) /\ client[u] = "available"
                     THEN <<"unavailable">> ELSE << >>
  <2>3. tail \in Seq(Stanzas)
    BY StanzaLists DEF Stanzas
  <2>4. \/ e.out = << >>
        \/ e.out = <<"unsubscribed">> \o tail
    <3> DEFINE out == <<"unsubscribed">> \o tail
    <3>1. e = Effect(unsubscribed(i), unsubscribed(i) # i,
                     (unsubscribed(i) # i /\ Saved(u, ok)) /\ HasFrom(i),
                     IF ~(unsubscribed(i) # i /\ Saved(u, ok)) THEN << >>
                     ELSE out)
      BY <2>1, Zenon DEF outbound_unsubscribed
    <3>2. e.out = << >> \/ e.out = out
      <4> HIDE DEF out
      <4> QED BY <3>1, EffectFields
    <3> QED BY <3>2, Zenon
  <2>5. <<"unsubscribed">> \in Seq(Stanzas)
    BY StanzaLists DEF Stanzas, SubscriptionTypes
  <2>2. e.out \in Seq(Stanzas)
    <3> HIDE DEF tail
    <3> QED BY <2>3, <2>4, <2>5, StanzaLists
  <2> QED BY <2>1, <2>2, <1>1, OperationTypes, OperationsPreserve
        DEF outbound_unsubscribed, Effect, Effects, HasFrom
<1> QED BY <1>2, <1>3, <1>4, <1>5 DEF SubscriptionTypes

(* The inbound handler, with its answers. *)
LEMMA InboundEffects ==
    ASSUME TypeOK, WellFormed, NEW u \in Users, NEW ok \in BOOLEAN,
           NEW type \in SubscriptionTypes \cup {"probe"},
           NEW e, e = handle_inbound_presence_subscriptions_and_probes(
                          u, type, ok)
    PROVE  e \in Effects /\ ItemWellFormed(e.item)
<1> DEFINE i == roster[u]
<1>1. i \in Item /\ ItemWellFormed(i)
  BY DEF TypeOK, WellFormed
<1>2. Saved(u, ok) \in BOOLEAN
  BY DEF Saved, TypeOK
<1>3. /\ PresenceOrUnavailable(u) \in Seq(Stanzas)
      /\ << >> \in Seq(Stanzas)
      /\ <<"unavailable">> \in Seq(Stanzas)
  BY StanzaLists DEF PresenceOrUnavailable, Stanzas
<1>4. \A t \in {"subscribed", "unsubscribed"} :
         LET f == handle_outbound_presence_subscriptions_and_probes(u, t, i, ok)
         IN  f \in Effects /\ ItemWellFormed(f.item)
  BY <1>1, OutboundEffects DEF SubscriptionTypes
<1>5. /\ handle_outbound_presence_subscriptions_and_probes(u, "subscribed", i, ok)
           = outbound_subscribed(u, i, ok)
      /\ handle_outbound_presence_subscriptions_and_probes(u, "unsubscribed", i, ok)
           = outbound_unsubscribed(u, i, ok)
  BY DEF handle_outbound_presence_subscriptions_and_probes
<1>6. /\ outbound_subscribed(u, i, ok) \in Effects
      /\ ItemWellFormed(outbound_subscribed(u, i, ok).item)
      /\ outbound_unsubscribed(u, i, ok) \in Effects
      /\ ItemWellFormed(outbound_unsubscribed(u, i, ok).item)
  BY <1>4, <1>5, Zenon
<1> HIDE DEF i
<1>7. CASE type = "probe"
  <2>1. e = inbound_probe(u, i, ok)
    BY <1>7 DEF handle_inbound_presence_subscriptions_and_probes, i
  <2>2. CASE is_contact_subscribed(u, i)
    BY <2>1, <2>2, <1>1, <1>3 DEF inbound_probe, Effect, Effects
  <2>3. CASE ~is_contact_subscribed(u, i)
    BY <2>1, <2>3, <1>6 DEF inbound_probe
  <2> QED BY <2>2, <2>3
<1>8. CASE type = "subscribe"
  <2>1. e = inbound_subscribe(u, i, ok)
    BY <1>8 DEF handle_inbound_presence_subscriptions_and_probes, i
  <2>2. CASE is_contact_subscribed(u, i)
    <3> DEFINE f == outbound_subscribed(u, i, ok)
               p == PresenceOrUnavailable(u)
    <3>1. e = [f EXCEPT !.out = @ \o p]
      BY <2>1, <2>2 DEF inbound_subscribe
    <3>2. f \in Effects /\ ItemWellFormed(f.item) /\ p \in Seq(Stanzas)
      BY <1>3, <1>6
    <3> HIDE DEF f, p
    <3>3. f.out \o p \in Seq(Stanzas)
      BY <3>2, StanzaLists DEF Effects
    <3> DEFINE o == f.out \o p
    <3>4. e = [f EXCEPT !.out = o]
      BY <3>1
    <3> HIDE DEF o
    <3>5. o \in Seq(Stanzas)
      BY <3>3 DEF o
    <3> QED BY <3>2, <3>4, <3>5 DEF Effects
  <2>3. CASE ~is_contact_subscribed(u, i)
    BY <2>1, <2>3, <1>1, <1>3, OperationTypes, OperationsPreserve
       DEF inbound_subscribe, Effect, Effects
  <2> QED BY <2>2, <2>3
<1>9. ASSUME NEW new \in Item, ItemWellFormed(new), e = Inbound(u, ok, new)
      PROVE  e \in Effects /\ ItemWellFormed(e.item)
  BY <1>2, <1>3, <1>9 DEF Inbound, Effect, Effects
<1>10. CASE type = "unsubscribe"
  <2>1. e = Inbound(u, ok, process_inbound_unsubscribe(i))
    BY <1>10 DEF handle_inbound_presence_subscriptions_and_probes, i
  <2> QED BY <2>1, <1>1, <1>9, OperationTypes, OperationsPreserve
<1>11. CASE type = "subscribed"
  <2>1. e = Inbound(u, ok, process_inbound_subscription_approval(i))
    BY <1>11 DEF handle_inbound_presence_subscriptions_and_probes, i
  <2> QED BY <2>1, <1>1, <1>9, OperationTypes, OperationsPreserve
<1>12. CASE type = "unsubscribed"
  <2>1. e = Inbound(u, ok, process_inbound_subscription_cancellation(i))
    BY <1>12 DEF handle_inbound_presence_subscriptions_and_probes, i
  <2> QED BY <2>1, <1>1, <1>9, OperationTypes, OperationsPreserve
<1> QED BY <1>7, <1>8, <1>10, <1>11, <1>12 DEF SubscriptionTypes

(* Storing an effect keeps both copies typed and well formed. *)
LEMMA StoresPreserves ==
    ASSUME TypeOK, WellFormed, NEW u \in Users, NEW ok \in BOOLEAN,
           NEW e \in Effects, ItemWellFormed(e.item), Stores(u, e, ok)
    PROVE  /\ roster' \in [Users -> Item]
           /\ disk' \in [Users -> Item]
           /\ WellFormed'
<1>1. e.item \in Item
  BY DEF Effects
<1>2. /\ roster \in [Users -> Item]
      /\ disk \in [Users -> Item]
      /\ \A v \in Users : ItemWellFormed(roster[v]) /\ ItemWellFormed(disk[v])
  BY DEF TypeOK, WellFormed
<1> DEFINE kept == Kept(u, e.item, ok)
           stored == IF e.saves /\ Saved(u, ok) THEN e.item ELSE disk[u]
<1>3. kept \in Item /\ ItemWellFormed(kept)
  BY <1>1, <1>2 DEF Kept
<1>4. stored \in Item /\ ItemWellFormed(stored)
  BY <1>1, <1>2
<1>5. /\ roster' = [roster EXCEPT ![u] = kept]
      /\ disk' = [disk EXCEPT ![u] = stored]
  BY DEF Stores
<1> HIDE DEF kept, stored
<1>6. roster' \in [Users -> Item] /\ disk' \in [Users -> Item]
  BY <1>2, <1>3, <1>4, <1>5
<1>7. ASSUME NEW v \in Users
      PROVE  ItemWellFormed(roster'[v]) /\ ItemWellFormed(disk'[v])
  BY <1>2, <1>3, <1>4, <1>5
<1> QED BY <1>6, <1>7 DEF WellFormed

(* A push keeps the clients' copies typed. *)
LEMMA PushesPreserves ==
    ASSUME TypeOK, NEW u \in Users, NEW e, e.item \in Item, Pushes(u, e)
    PROVE  view' \in [Users -> Views]
  BY DEF Pushes, TypeOK, Views, PushedItem, Item

(* Sending keeps the streams typed. *)
LEMMA SendsPreserves ==
    ASSUME TypeOK, NEW u \in Users, NEW out \in Seq(Stanzas), Sends(u, out)
    PROVE  net' \in [Users -> Seq(Stanzas)]
<1>1. net[Other(u)] \o out \in Seq(Stanzas)
  BY OtherUser, StanzaLists DEF TypeOK
<1> QED BY <1>1, OtherUser DEF Sends, TypeOK

----------------------------------------------------------------------------
(* The stanza lists of the client's own actions. *)
LEMMA ActionStanzas ==
    ASSUME NEW u, NEW i, NEW pending
    PROVE  /\ AvailableStanzas(u) \in Seq(Stanzas)
           /\ UnavailableStanzas(u) \in Seq(Stanzas)
           /\ RemovalStanzas(i, pending) \in Seq(Stanzas)
           /\ DeletionStanzas(u) \in Seq(Stanzas)
<1> DEFINE S(c, x) == IF c THEN <<x>> ELSE << >>
<1>1. ASSUME NEW c, NEW x \in Stanzas
      PROVE  S(c, x) \in Seq(Stanzas)
  BY StanzaLists
<1>2. /\ "available" \in Stanzas
      /\ "unavailable" \in Stanzas
      /\ "probe" \in Stanzas
      /\ "subscribe" \in Stanzas
      /\ "unsubscribe" \in Stanzas
      /\ "unsubscribed" \in Stanzas
  BY DEF Stanzas, SubscriptionTypes
<1>3. AvailableStanzas(u) \in Seq(Stanzas)
  <2> DEFINE a == S(HasFrom(roster[u]), "available")
             b == S(client[u] = "bound" /\ HasTo(roster[u]), "probe")
             c == S(client[u] = "bound" /\ roster[u].ask, "subscribe")
  <2>1. AvailableStanzas(u) = (a \o b) \o c
    BY Zenon DEF AvailableStanzas
  <2>2. a \in Seq(Stanzas) /\ b \in Seq(Stanzas) /\ c \in Seq(Stanzas)
    BY <1>1, <1>2, Zenon
  <2> HIDE DEF a, b, c
  <2>3. a \o b \in Seq(Stanzas)
    BY <2>2, StanzaLists
  <2> QED BY <2>1, <2>2, <2>3, StanzaLists, Zenon
<1>4. UnavailableStanzas(u) \in Seq(Stanzas)
  BY <1>1, <1>2, Zenon DEF UnavailableStanzas
<1>5. RemovalStanzas(i, pending) \in Seq(Stanzas)
  <2> DEFINE a == S(HasFrom(i) \/ pending, "unsubscribed")
             b == S(HasTo(i) \/ i.ask, "unsubscribe")
  <2>1. RemovalStanzas(i, pending) = a \o b
    BY Zenon DEF RemovalStanzas
  <2>2. a \in Seq(Stanzas) /\ b \in Seq(Stanzas)
    BY <1>1, <1>2, Zenon
  <2> HIDE DEF a, b
  <2> QED BY <2>1, <2>2, StanzaLists, Zenon
<1>6. DeletionStanzas(u) \in Seq(Stanzas)
  <2> DEFINE a == S(HasFrom(roster[u]) \/ roster[u].pending, "unsubscribed")
             b == S(client[u] = "available", "unavailable")
             c == IF HasTo(roster[u]) \/ roster[u].ask
                  THEN b \o <<"unsubscribe">> ELSE << >>
             d == IF roster[u].subscription = "absent" THEN << >> ELSE a \o c
             f == S(roster[u].pending, "unsubscribed")
             g == UnavailableStanzas(u)
  <2>1. DeletionStanzas(u) = (d \o f) \o g
    BY Zenon DEF DeletionStanzas
  <2>2. /\ a \in Seq(Stanzas) /\ b \in Seq(Stanzas) /\ f \in Seq(Stanzas)
        /\ g \in Seq(Stanzas) /\ <<"unsubscribe">> \in Seq(Stanzas)
        /\ << >> \in Seq(Stanzas)
    BY <1>1, <1>2, <1>4, StanzaLists, Zenon
  <2> HIDE DEF a, b, f, g
  <2>3. c \in Seq(Stanzas)
    <3>1. b \o <<"unsubscribe">> \in Seq(Stanzas)
      BY <2>2, StanzaLists, Zenon
    <3> QED BY <3>1, <2>2, Zenon
  <2> HIDE DEF c
  <2>4. d \in Seq(Stanzas)
    <3>1. a \o c \in Seq(Stanzas)
      BY <2>2, <2>3, StanzaLists, Zenon
    <3> QED BY <3>1, <2>2, Zenon
  <2> HIDE DEF d
  <2>5. d \o f \in Seq(Stanzas)
    BY <2>2, <2>4, StanzaLists, Zenon
  <2> QED BY <2>1, <2>2, <2>5, StanzaLists, Zenon
<1> QED BY <1>3, <1>4, <1>5, <1>6

(* Every step keeps the types and keeps the items well formed. *)
LEMMA StepPreserves ==
    ASSUME TypeOK, WellFormed, [Next]_vars
    PROVE  TypeOK' /\ WellFormed'
<1>1. CASE UNCHANGED vars
  BY <1>1 DEF vars, TypeOK, WellFormed
<1>2. ASSUME NEW u \in Users, Bind(u)
      PROVE  TypeOK' /\ WellFormed'
  BY <1>2 DEF Bind, TypeOK, WellFormed
<1>3. ASSUME NEW u \in Users, RosterGet(u)
      PROVE  TypeOK' /\ WellFormed'
  <2>1. WellFormed'
    BY <1>3 DEF RosterGet, WellFormed
  <2>2. PushedItem(roster[u]) \in Views
    BY DEF PushedItem, Views, TypeOK, Item
  <2> QED BY <1>3, <2>1, <2>2 DEF RosterGet, TypeOK
<1>4. ASSUME NEW u \in Users, Available(u)
      PROVE  TypeOK' /\ WellFormed'
  <2>1. WellFormed'
    BY <1>4 DEF Available, WellFormed
  <2>2. PushedItem(roster[u]) \in Views
    BY DEF PushedItem, Views, TypeOK, Item
  <2>3. net' \in [Users -> Seq(Stanzas)]
    BY <1>4, SendsPreserves, ActionStanzas DEF Available
  <2>4. view' \in [Users -> Views]
    BY <1>4, <2>2 DEF Available, TypeOK
  <2>5. Resent(u) \in BOOLEAN
    BY DEF Resent, TypeOK, Item
  <2> QED BY <1>4, <2>1, <2>3, <2>4, <2>5 DEF Available, TypeOK
<1>5. ASSUME NEW u \in Users, Unavailable(u)
      PROVE  TypeOK' /\ WellFormed'
  <2>1. net' \in [Users -> Seq(Stanzas)]
    BY <1>5, SendsPreserves, ActionStanzas DEF Unavailable
  <2> QED BY <1>5, <2>1 DEF Unavailable, TypeOK, WellFormed
<1>6. ASSUME NEW u \in Users, Disconnect(u)
      PROVE  TypeOK' /\ WellFormed'
  <2>1. net' \in [Users -> Seq(Stanzas)]
    BY <1>6, SendsPreserves, ActionStanzas DEF Disconnect
  <2> QED BY <1>6, <2>1 DEF Disconnect, TypeOK, WellFormed, Views
<1>7. ASSUME NEW u \in Users, NEW ok \in SaveOutcomes,
             NEW type \in SubscriptionTypes, Outbound(u, type, ok)
      PROVE  TypeOK' /\ WellFormed'
  <2> DEFINE e == handle_outbound_presence_subscriptions_and_probes(
                      u, type, roster[u], ok)
  <2>1. ok \in BOOLEAN
    BY SaveAssumption
  <2>2. e \in Effects /\ ItemWellFormed(e.item)
    BY <2>1, OutboundEffects DEF TypeOK, WellFormed
  <2>3. /\ Stores(u, e, ok) /\ Pushes(u, e) /\ Sends(u, e.out)
        /\ shown' = [shown EXCEPT ![u] = @ /\ ~Answers(type)]
        /\ \E c \in BOOLEAN : consent' = [consent EXCEPT ![u] = c]
        /\ UNCHANGED <<exists, client, sees>>
    BY <1>7 DEF Outbound, TypeOK
  <2> HIDE DEF e
  <2>4. e.item \in Item /\ e.out \in Seq(Stanzas)
    BY <2>2 DEF Effects
  <2>5. /\ roster' \in [Users -> Item]
        /\ disk' \in [Users -> Item]
        /\ WellFormed'
    BY <2>1, <2>2, <2>3, StoresPreserves
  <2>6. view' \in [Users -> Views]
    BY <2>3, <2>4, PushesPreserves
  <2>7. net' \in [Users -> Seq(Stanzas)]
    BY <2>3, <2>4, SendsPreserves
  <2>8. shown' \in [Users -> BOOLEAN] /\ consent' \in [Users -> BOOLEAN]
    BY <2>3 DEF TypeOK
  <2> QED BY <2>3, <2>5, <2>6, <2>7, <2>8 DEF TypeOK
<1>8. ASSUME NEW u \in Users, NEW ok \in SaveOutcomes,
             DeliverSubscription(u, ok)
      PROVE  TypeOK' /\ WellFormed'
  <2> DEFINE type == Head(net[u])
             e == handle_inbound_presence_subscriptions_and_probes(u, type, ok)
  <2>1. ok \in BOOLEAN
    BY SaveAssumption
  <2>2. type \in SubscriptionTypes \cup {"probe"} /\ net[u] # << >>
    BY <1>8 DEF DeliverSubscription
  <2>3. e \in Effects /\ ItemWellFormed(e.item)
    BY <2>1, <2>2, InboundEffects
  <2>4. /\ Stores(u, e, ok) /\ Pushes(u, e)
        /\ net' = [net EXCEPT ![u] = Tail(@), ![Other(u)] = @ \o e.out]
        /\ \E b \in BOOLEAN : shown' = [shown EXCEPT ![u] = b]
        /\ \E c \in BOOLEAN : consent' = [consent EXCEPT ![u] = c]
        /\ UNCHANGED <<exists, client, sees>>
    <3>1. /\ Stores(u, e, ok) /\ Pushes(u, e)
          /\ net' = [net EXCEPT ![u] = Tail(@), ![Other(u)] = @ \o e.out]
          /\ UNCHANGED <<exists, client, sees>>
      BY <1>8 DEF DeliverSubscription
    <3>2. \E c \in BOOLEAN : consent' = [consent EXCEPT ![u] = c]
      <4>1. consent' = [consent EXCEPT ![u] =
                          consent[u] /\ ~(type = "unsubscribe" /\ e.pushes)]
        BY <1>8 DEF DeliverSubscription
      <4> QED BY <4>1
    <3>3. \E b \in BOOLEAN : shown' = [shown EXCEPT ![u] = b]
      <4>1. shown' = [shown EXCEPT ![u] =
                        IF type = "unsubscribe" /\ e.pushes THEN FALSE
                        ELSE shown[u] \/ ShowsRequest(u, type, e, ok)]
        BY <1>8 DEF DeliverSubscription
      <4>2. (IF type = "unsubscribe" /\ e.pushes THEN FALSE
             ELSE shown[u] \/ ShowsRequest(u, type, e, ok)) \in BOOLEAN
        BY Zenon
      <4> QED BY <4>1, <4>2, Zenon
    <3> QED BY <3>1, <3>2, <3>3
  <2> HIDE DEF e, type
  <2>5. e.item \in Item /\ e.out \in Seq(Stanzas)
    BY <2>3 DEF Effects
  <2>6. /\ roster' \in [Users -> Item]
        /\ disk' \in [Users -> Item]
        /\ WellFormed'
    BY <2>1, <2>3, <2>4, StoresPreserves
  <2>7. view' \in [Users -> Views]
    BY <2>4, <2>5, PushesPreserves
  <2>8. net' \in [Users -> Seq(Stanzas)]
    <3>1. net[Other(u)] \o e.out \in Seq(Stanzas)
      BY <2>5, OtherUser, StanzaLists DEF TypeOK
    <3>2. Tail(net[u]) \in Seq(Stanzas)
      BY <2>2 DEF TypeOK
    <3> QED BY <2>4, <3>1, <3>2, OtherUser DEF TypeOK
  <2>9. shown' \in [Users -> BOOLEAN] /\ consent' \in [Users -> BOOLEAN]
    BY <2>4 DEF TypeOK
  <2> QED BY <2>4, <2>6, <2>7, <2>8, <2>9 DEF TypeOK
<1>9. ASSUME NEW u \in Users, DeliverPresence(u)
      PROVE  TypeOK' /\ WellFormed'
  <2>1. WellFormed'
    BY <1>9 DEF DeliverPresence, WellFormed
  <2>2. Tail(net[u]) \in Seq(Stanzas)
    BY <1>9 DEF DeliverPresence, TypeOK
  <2>3. net' \in [Users -> Seq(Stanzas)]
    BY <1>9, <2>2 DEF DeliverPresence, TypeOK
  <2> QED BY <1>9, <2>1, <2>3 DEF DeliverPresence, TypeOK
<1>10. ASSUME NEW u \in Users, NEW ok \in SaveOutcomes,
              \/ RosterSet(u, ok)
              \/ RosterRemove(u, ok)
       PROVE  TypeOK' /\ WellFormed'
  <2>1. ok \in BOOLEAN
    BY SaveAssumption
  <2>2. ASSUME NEW new \in Item, ItemWellFormed(new),
               Stores(u, Effect(new, TRUE, TRUE, << >>), ok),
               Pushes(u, Effect(new, TRUE, Saved(u, ok), << >>))
        PROVE  /\ roster' \in [Users -> Item]
               /\ disk' \in [Users -> Item]
               /\ WellFormed'
               /\ view' \in [Users -> Views]
    <3>1. /\ Effect(new, TRUE, TRUE, << >>) \in Effects
          /\ Effect(new, TRUE, TRUE, << >>).item = new
      BY StanzaLists DEF Effect, Effects
    <3>2. Effect(new, TRUE, Saved(u, ok), << >>).item = new
      BY DEF Effect
    <3>3. roster' \in [Users -> Item] /\ disk' \in [Users -> Item] /\ WellFormed'
      BY <2>1, <2>2, <3>1, StoresPreserves
    <3>4. view' \in [Users -> Views]
      BY <2>2, <3>2, PushesPreserves
    <3> QED BY <3>3, <3>4
  <2>3. roster[u] \in Item /\ ItemWellFormed(roster[u])
    BY DEF TypeOK, WellFormed
  <2>4. CASE RosterSet(u, ok)
    <3> DEFINE new == IF Saved(u, ok) THEN Created(roster[u]) ELSE roster[u]
    <3>1. new \in Item /\ ItemWellFormed(new)
      BY <2>3, OperationTypes, OperationsPreserve
    <3>2. /\ Stores(u, Effect(new, TRUE, TRUE, << >>), ok)
          /\ Pushes(u, Effect(new, TRUE, Saved(u, ok), << >>))
          /\ UNCHANGED <<exists, client, sees, shown, consent, net>>
      BY <2>4, Zenon DEF RosterSet
    <3> HIDE DEF new
    <3>3. /\ roster' \in [Users -> Item]
          /\ disk' \in [Users -> Item]
          /\ WellFormed'
          /\ view' \in [Users -> Views]
      BY <3>1, <3>2, <2>2
    <3> QED BY <3>2, <3>3 DEF TypeOK
  <2>5. CASE RosterRemove(u, ok)
    <3> DEFINE new == IF Saved(u, ok)
                      THEN [NoItem EXCEPT !.pending = roster[u].pending]
                      ELSE roster[u]
    <3>1. new \in Item /\ ItemWellFormed(new)
      BY <2>3 DEF NoItem, Item, ItemWellFormed, HasFrom, Subscriptions
    <3>2. /\ Stores(u, Effect(new, TRUE, TRUE, << >>), ok)
          /\ Pushes(u, Effect(new, TRUE, Saved(u, ok), << >>))
          /\ Sends(u, RemovalStanzas(roster[u], roster[u].pending))
          /\ consent' = [consent EXCEPT ![u] = consent[u] /\ ~Saved(u, ok)]
          /\ UNCHANGED <<exists, client, sees, shown>>
      BY <2>5, Zenon DEF RosterRemove
    <3> HIDE DEF new
    <3>3. /\ roster' \in [Users -> Item]
          /\ disk' \in [Users -> Item]
          /\ WellFormed'
          /\ view' \in [Users -> Views]
      BY <3>1, <3>2, <2>2
    <3>4. net' \in [Users -> Seq(Stanzas)]
      BY <3>2, ActionStanzas, SendsPreserves
    <3> QED BY <3>2, <3>3, <3>4 DEF TypeOK
  <2> QED BY <1>10, <2>4, <2>5
<1>11. ASSUME NEW u \in Users, DeleteUser(u)
       PROVE  TypeOK' /\ WellFormed'
  <2>1. net' \in [Users -> Seq(Stanzas)]
    BY <1>11, ActionStanzas, SendsPreserves DEF DeleteUser
  <2>2. NoItem \in Item /\ ItemWellFormed(NoItem) /\ Nothing \in Views
    BY DEF NoItem, Item, ItemWellFormed, Views, Subscriptions
  <2>3. WellFormed'
    BY <1>11, <2>2 DEF DeleteUser, WellFormed, TypeOK
  <2> QED BY <1>11, <2>1, <2>2, <2>3 DEF DeleteUser, TypeOK
<1> QED
  BY <1>1, <1>2, <1>3, <1>4, <1>5, <1>6, <1>7, <1>8, <1>9, <1>10, <1>11 DEF Next

(* Initially nothing is known of anybody. *)
LEMMA InitEstablishes == Init => TypeOK /\ WellFormed
<1>1. NoItem \in Item /\ ItemWellFormed(NoItem) /\ Nothing \in Views
  BY DEF NoItem, Item, ItemWellFormed, Views, Subscriptions
<1> QED BY <1>1, StanzaLists DEF Init, TypeOK, WellFormed

(* Whatever the users do, however their stanzas cross and whichever saves  *)
(* fail, no roster item claims a subscription together with a request for  *)
(* the same direction, in memory or in the store (core/rostermanager.lua). *)
THEOREM ItemsWellFormed == Spec => []ItemsSound
<1>1. Init => ItemsSound
  BY InitEstablishes DEF ItemsSound
<1>2. ItemsSound /\ [Next]_vars => ItemsSound'
  BY StepPreserves DEF ItemsSound
<1> QED BY <1>1, <1>2, PTL DEF Spec

----------------------------------------------------------------------------
(* Which operations can make an item grant a subscription: only subscribed. *)
LEMMA OperationsGrantNothing ==
    ASSUME NEW i \in Item
    PROVE  /\ HasFrom(Created(i)) => HasFrom(i)
           /\ HasFrom(process_inbound_subscription_cancellation(i)) => HasFrom(i)
           /\ ~HasFrom(process_inbound_unsubscribe(i))
           /\ HasFrom(set_contact_pending_in(i)) => HasFrom(i)
           /\ HasFrom(set_contact_pending_out(i)) => HasFrom(i)
           /\ HasFrom(unsubscribe(i)) => HasFrom(i)
           /\ ~HasFrom(unsubscribed(i))
           /\ ItemWellFormed(i) =>
                 (HasFrom(process_inbound_subscription_approval(i)) => HasFrom(i))
<1> USE DEF Item, HasFrom, Subscriptions
<1>1. HasFrom(Created(i)) => HasFrom(i)
  BY DEF Created
<1>2. HasFrom(process_inbound_subscription_cancellation(i)) => HasFrom(i)
  BY DEF process_inbound_subscription_cancellation, DropTo
<1>3. ~HasFrom(process_inbound_unsubscribe(i))
  BY DEF process_inbound_unsubscribe, DropFrom
<1>4. HasFrom(set_contact_pending_in(i)) => HasFrom(i)
  BY DEF set_contact_pending_in
<1>5. HasFrom(set_contact_pending_out(i)) => HasFrom(i)
  BY DEF set_contact_pending_out, Created
<1>6. HasFrom(unsubscribe(i)) => HasFrom(i)
  BY DEF unsubscribe, DropTo
<1>7. ~HasFrom(unsubscribed(i))
  BY DEF unsubscribed, DropFrom
<1>8. ASSUME ItemWellFormed(i)
      PROVE  HasFrom(process_inbound_subscription_approval(i)) => HasFrom(i)
  BY <1>8 DEF process_inbound_subscription_approval, ItemWellFormed
<1> QED BY <1>1, <1>2, <1>3, <1>4, <1>5, <1>6, <1>7, <1>8

(* The items the outbound handlers leave. *)
LEMMA OutboundItems ==
    ASSUME NEW u, NEW i, NEW ok
    PROVE  /\ outbound_subscribe(u, i, ok).item = set_contact_pending_out(i)
           /\ outbound_unsubscribe(u, i, ok).item = unsubscribe(i)
           /\ outbound_unsubscribed(u, i, ok).item = unsubscribed(i)
           /\ outbound_unsubscribed(u, i, ok).saves = (unsubscribed(i) # i)
<1>1. /\ outbound_subscribe(u, i, ok).item = set_contact_pending_out(i)
      /\ outbound_unsubscribe(u, i, ok).item = unsubscribe(i)
  BY DEF outbound_subscribe, outbound_unsubscribe, Effect
<1>2. \E p, o : outbound_unsubscribed(u, i, ok)
                  = Effect(unsubscribed(i), unsubscribed(i) # i, p, o)
  BY Zenon DEF outbound_unsubscribed
<1>3. PICK p, o : outbound_unsubscribed(u, i, ok)
                  = Effect(unsubscribed(i), unsubscribed(i) # i, p, o)
  BY <1>2
<1> QED BY <1>1, <1>3, EffectFields

(* Whether the contact is subscribed, as the handler of a stanza to u asks *)
(* it: on one server it may read the contact's roster instead of u's.      *)
AsksRight(u) ==
    net[u] # << >> /\ Head(net[u]) \in {"subscribe", "probe"} =>
        is_contact_subscribed(u, roster[u]) = HasFrom(roster[u])

(* What arrives never grants a subscription: the answer "subscribed" is    *)
(* sent only to a contact that is subscribed.                              *)
LEMMA InboundGrantsNothing ==
    ASSUME TypeOK, WellFormed, NEW u \in Users, NEW ok \in BOOLEAN,
           NEW type \in SubscriptionTypes \cup {"probe"},
           type \in {"subscribe", "probe"} => is_contact_subscribed(u, roster[u]) = HasFrom(roster[u]),
           NEW e, e = handle_inbound_presence_subscriptions_and_probes(
                          u, type, ok)
    PROVE  /\ HasFrom(e.item) => HasFrom(roster[u])
           /\ type = "unsubscribe" /\ e.pushes =>
                 ~HasFrom(e.item) /\ e.saves /\ Saved(u, ok)
<1> DEFINE i == roster[u]
<1>1. i \in Item /\ ItemWellFormed(i)
  BY DEF TypeOK, WellFormed
<1>2. type \in {"subscribe", "probe"} => is_contact_subscribed(u, i) = HasFrom(i)
  OBVIOUS
<1> HIDE DEF i
<1>3. CASE type = "probe"
  <2>1. e = inbound_probe(u, i, ok)
    BY <1>3 DEF handle_inbound_presence_subscriptions_and_probes, i
  <2>2. outbound_unsubscribed(u, i, ok).item = unsubscribed(i)
    BY OutboundItems
  <2>3. HasFrom(e.item) => HasFrom(i)
    <3>1. CASE is_contact_subscribed(u, i)
      BY <1>2, <1>3, <3>1
    <3>2. CASE ~is_contact_subscribed(u, i)
      <4>1. e.item = unsubscribed(i)
        BY <2>1, <2>2, <3>2, Zenon DEF inbound_probe
      <4> QED BY <4>1, <1>1, OperationsGrantNothing
    <3> QED BY <3>1, <3>2
  <2> QED BY <1>3, <2>3 DEF i
<1>4. CASE type = "subscribe"
  <2>1. e = inbound_subscribe(u, i, ok)
    BY <1>4 DEF handle_inbound_presence_subscriptions_and_probes, i
  <2>2. HasFrom(e.item) => HasFrom(i)
    <3>1. CASE HasFrom(i)
      BY <3>1
    <3>2. CASE ~HasFrom(i)
      <4>1. e.item = set_contact_pending_in(i)
        BY <1>2, <1>4, <2>1, <3>2 DEF inbound_subscribe, Effect
      <4> QED BY <4>1, <1>1, OperationsGrantNothing
    <3> QED BY <3>1, <3>2
  <2> QED BY <1>4, <2>2 DEF i
<1>5. CASE type = "unsubscribe"
  <2> DEFINE new == process_inbound_unsubscribe(i)
  <2>1. e = Inbound(u, ok, new)
    BY <1>5 DEF handle_inbound_presence_subscriptions_and_probes, i
  <2>2. /\ e.item = new
        /\ e.saves = (new # i)
        /\ e.pushes = (new # i /\ Saved(u, ok))
    BY <2>1 DEF Inbound, Effect, i
  <2>3. ~HasFrom(new)
    BY <1>1, OperationsGrantNothing
  <2> QED BY <2>2, <2>3
<1>6. CASE type = "subscribed"
  <2>1. e = Inbound(u, ok, process_inbound_subscription_approval(i))
    BY <1>6 DEF handle_inbound_presence_subscriptions_and_probes, i
  <2>2. e.item = process_inbound_subscription_approval(i)
    BY <2>1 DEF Inbound, Effect
  <2> QED BY <1>1, <1>6, <2>2, OperationsGrantNothing DEF i
<1>7. CASE type = "unsubscribed"
  <2>1. e = Inbound(u, ok, process_inbound_subscription_cancellation(i))
    BY <1>7 DEF handle_inbound_presence_subscriptions_and_probes, i
  <2>2. e.item = process_inbound_subscription_cancellation(i)
    BY <2>1 DEF Inbound, Effect
  <2> QED BY <1>1, <1>7, <2>2, OperationsGrantNothing DEF i
<1> QED BY <1>3, <1>4, <1>5, <1>6, <1>7 DEF SubscriptionTypes

(* What the outbound handler's effect grants. *)
LEMMA OutboundGrants ==
    ASSUME NEW u \in Users, NEW i \in Item, NEW ok \in BOOLEAN,
           NEW type \in SubscriptionTypes,
           NEW e, e = handle_outbound_presence_subscriptions_and_probes(
                          u, type, i, ok)
    PROVE  /\ type # "subscribed" /\ HasFrom(e.item) => HasFrom(i)
           /\ type = "unsubscribed" => ~HasFrom(e.item)
<1>1. CASE type = "subscribe"
  <2>1. e = outbound_subscribe(u, i, ok)
    BY <1>1 DEF handle_outbound_presence_subscriptions_and_probes
  <2>2. e.item = set_contact_pending_out(i)
    BY <2>1, OutboundItems
  <2> QED BY <1>1, <2>2, OperationsGrantNothing
<1>2. CASE type = "unsubscribe"
  <2>1. e = outbound_unsubscribe(u, i, ok)
    BY <1>2 DEF handle_outbound_presence_subscriptions_and_probes
  <2>2. e.item = unsubscribe(i)
    BY <2>1, OutboundItems
  <2> QED BY <1>2, <2>2, OperationsGrantNothing
<1>3. CASE type = "unsubscribed"
  <2>1. e = outbound_unsubscribed(u, i, ok)
    BY <1>3 DEF handle_outbound_presence_subscriptions_and_probes
  <2>2. e.item = unsubscribed(i)
    BY <2>1, OutboundItems
  <2> QED BY <1>3, <2>2, OperationsGrantNothing
<1> QED BY <1>1, <1>2, <1>3 DEF SubscriptionTypes

(* What both copies of the item grant after an effect was stored. *)
LEMMA StoredGrants ==
    ASSUME TypeOK, NEW u \in Users, NEW ok \in BOOLEAN, NEW e, Stores(u, e, ok)
    PROVE  /\ \A v \in Users \ {u} : roster'[v] = roster[v] /\ disk'[v] = disk[v]
           /\ HasFrom(roster'[u]) \/ HasFrom(disk'[u]) =>
                 HasFrom(e.item) \/ HasFrom(disk[u])
           /\ e.saves /\ Saved(u, ok) =>
                 roster'[u] = e.item /\ disk'[u] = e.item
  BY DEF TypeOK, Stores, Kept

(* A step keeps every subscription consented to. *)
LEMMA StepKeepsConsent ==
    ASSUME \A u \in Users : AsksRight(u), TypeOK, WellFormed, ConsentGiven, [Next]_vars
    PROVE  ConsentGiven'
<1>1. CASE UNCHANGED vars
  BY <1>1 DEF vars, ConsentGiven
<1>2. ASSUME NEW u \in Users,
             \/ Bind(u)
             \/ Disconnect(u)
      PROVE  ConsentGiven'
  BY <1>2 DEF Bind, Disconnect, ConsentGiven, TypeOK
<1>3. ASSUME NEW u \in Users,
             \/ RosterGet(u)
             \/ Available(u)
             \/ Unavailable(u)
             \/ DeliverPresence(u)
      PROVE  ConsentGiven'
  BY <1>3 DEF RosterGet, Available, Unavailable, DeliverPresence, ConsentGiven
<1>4. ASSUME NEW u \in Users, NEW ok \in SaveOutcomes,
             NEW type \in SubscriptionTypes, Outbound(u, type, ok)
      PROVE  ConsentGiven'
  <2> DEFINE e == handle_outbound_presence_subscriptions_and_probes(
                      u, type, roster[u], ok)
  <2>1. ok \in BOOLEAN /\ roster[u] \in Item
    BY SaveAssumption DEF TypeOK
  <2>2. /\ type # "subscribed" /\ HasFrom(e.item) => HasFrom(roster[u])
        /\ type = "unsubscribed" => ~HasFrom(e.item)
    BY <2>1, OutboundGrants
  <2>3. /\ Stores(u, e, ok)
        /\ consent' = [consent EXCEPT ![u] =
                          CASE type = "subscribed"   -> TRUE
                            [] type = "unsubscribed" ->
                                   consent[u] /\ ~(e.saves /\ Saved(u, ok))
                            [] OTHER                 -> consent[u]]
    BY <1>4 DEF Outbound
  <2> HIDE DEF e
  <2>4. /\ \A v \in Users \ {u} : roster'[v] = roster[v] /\ disk'[v] = disk[v]
        /\ HasFrom(roster'[u]) \/ HasFrom(disk'[u]) =>
              HasFrom(e.item) \/ HasFrom(disk[u])
        /\ e.saves /\ Saved(u, ok) =>
              roster'[u] = e.item /\ disk'[u] = e.item
    BY <2>1, <2>3, StoredGrants
  <2>5. \A v \in Users \ {u} : consent'[v] = consent[v]
    BY <2>3 DEF TypeOK
  <2>6. HasFrom(roster'[u]) \/ HasFrom(disk'[u]) => consent'[u]
    <3>1. CASE type = "subscribed"
      BY <2>3, <3>1 DEF TypeOK
    <3>2. CASE type = "unsubscribed"
      <4>1. consent'[u] = (consent[u] /\ ~(e.saves /\ Saved(u, ok)))
        BY <2>3, <3>2 DEF TypeOK
      <4> QED BY <2>2, <2>4, <3>2, <4>1 DEF ConsentGiven
    <3>3. CASE type \notin {"subscribed", "unsubscribed"}
      <4>1. consent'[u] = consent[u]
        BY <2>3, <3>3 DEF TypeOK
      <4> QED BY <2>2, <2>4, <3>3, <4>1 DEF ConsentGiven
    <3> QED BY <3>1, <3>2, <3>3
  <2> QED BY <2>4, <2>5, <2>6 DEF ConsentGiven
<1>5. ASSUME NEW u \in Users, NEW ok \in SaveOutcomes,
             DeliverSubscription(u, ok)
      PROVE  ConsentGiven'
  <2> DEFINE type == Head(net[u])
             e == handle_inbound_presence_subscriptions_and_probes(u, type, ok)
  <2>1. ok \in BOOLEAN /\ type \in SubscriptionTypes \cup {"probe"}
    BY <1>5, SaveAssumption DEF DeliverSubscription
  <2>2. /\ HasFrom(e.item) => HasFrom(roster[u])
        /\ type = "unsubscribe" /\ e.pushes =>
              ~HasFrom(e.item) /\ e.saves /\ Saved(u, ok)
    <3>1. type \in {"subscribe", "probe"} => is_contact_subscribed(u, roster[u]) = HasFrom(roster[u])
      BY <1>5, Zenon DEF AsksRight, DeliverSubscription
    <3> QED BY <2>1, <3>1, InboundGrantsNothing
  <2>3. /\ Stores(u, e, ok)
        /\ consent' = [consent EXCEPT ![u] =
                          consent[u] /\ ~(type = "unsubscribe" /\ e.pushes)]
    BY <1>5 DEF DeliverSubscription
  <2> HIDE DEF e, type
  <2>4. /\ \A v \in Users \ {u} : roster'[v] = roster[v] /\ disk'[v] = disk[v]
        /\ HasFrom(roster'[u]) \/ HasFrom(disk'[u]) =>
              HasFrom(e.item) \/ HasFrom(disk[u])
        /\ e.saves /\ Saved(u, ok) =>
              roster'[u] = e.item /\ disk'[u] = e.item
    BY <2>1, <2>3, StoredGrants
  <2>5. /\ consent'[u] = (consent[u] /\ ~(type = "unsubscribe" /\ e.pushes))
        /\ \A v \in Users \ {u} : consent'[v] = consent[v]
    BY <2>3 DEF TypeOK
  <2> QED BY <2>2, <2>4, <2>5 DEF ConsentGiven
<1>6. ASSUME NEW u \in Users, NEW ok \in SaveOutcomes, RosterSet(u, ok)
      PROVE  ConsentGiven'
  <2> DEFINE new == IF Saved(u, ok) THEN Created(roster[u]) ELSE roster[u]
             e == Effect(new, TRUE, TRUE, << >>)
  <2>1. ok \in BOOLEAN /\ roster[u] \in Item
    BY SaveAssumption DEF TypeOK
  <2>2. e.item = new
    BY DEF Effect
  <2>3. HasFrom(new) => HasFrom(roster[u])
    BY <2>1, OperationsGrantNothing
  <2>4. Stores(u, e, ok) /\ consent' = consent
    BY <1>6, Zenon DEF RosterSet
  <2> HIDE DEF e, new
  <2>5. /\ \A v \in Users \ {u} : roster'[v] = roster[v] /\ disk'[v] = disk[v]
        /\ HasFrom(roster'[u]) \/ HasFrom(disk'[u]) =>
              HasFrom(e.item) \/ HasFrom(disk[u])
    BY <2>1, <2>4, StoredGrants
  <2> QED BY <2>2, <2>3, <2>4, <2>5 DEF ConsentGiven
<1>7. ASSUME NEW u \in Users, NEW ok \in SaveOutcomes, RosterRemove(u, ok)
      PROVE  ConsentGiven'
  <2> DEFINE new == IF Saved(u, ok)
                    THEN [NoItem EXCEPT !.pending = roster[u].pending]
                    ELSE roster[u]
             e == Effect(new, TRUE, TRUE, << >>)
  <2>1. ok \in BOOLEAN /\ roster[u] \in Item
    BY SaveAssumption DEF TypeOK
  <2>2. e.item = new /\ e.saves = TRUE
    BY DEF Effect
  <2>3. /\ HasFrom(new) => HasFrom(roster[u])
        /\ Saved(u, ok) => ~HasFrom(new)
    BY DEF HasFrom, NoItem
  <2>4. /\ Stores(u, e, ok)
        /\ consent' = [consent EXCEPT ![u] = consent[u] /\ ~Saved(u, ok)]
    BY <1>7, Zenon DEF RosterRemove
  <2> HIDE DEF e, new
  <2>5. /\ \A v \in Users \ {u} : roster'[v] = roster[v] /\ disk'[v] = disk[v]
        /\ HasFrom(roster'[u]) \/ HasFrom(disk'[u]) =>
              HasFrom(e.item) \/ HasFrom(disk[u])
        /\ e.saves /\ Saved(u, ok) =>
              roster'[u] = e.item /\ disk'[u] = e.item
    BY <2>1, <2>4, StoredGrants
  <2>6. /\ consent'[u] = (consent[u] /\ ~Saved(u, ok))
        /\ \A v \in Users \ {u} : consent'[v] = consent[v]
    BY <2>4 DEF TypeOK
  <2> QED BY <2>2, <2>3, <2>5, <2>6 DEF ConsentGiven
<1>8. ASSUME NEW u \in Users, DeleteUser(u)
      PROVE  ConsentGiven'
  BY <1>8 DEF DeleteUser, ConsentGiven, TypeOK, NoItem, HasFrom
<1> QED
  BY <1>1, <1>2, <1>3, <1>4, <1>5, <1>6, <1>7, <1>8 DEF Next

(* Between two servers nobody is ever subscribed to a user's presence      *)
(* without that user's client having sent "subscribed", and a cancelled    *)
(* subscription that was saved never comes back: not by crossing stanzas,  *)
(* not by the automatic answers of mod_presence, not by saves that fail.   *)
THEOREM SubscribersWereAccepted ==
    ASSUME Link # "local"
    PROVE  Spec => []ConsentGiven
<1>1. Init => ConsentGiven
  BY DEF Init, ConsentGiven, NoItem, HasFrom
<1>2. \A u \in Users : AsksRight(u)
  BY DEF AsksRight, is_contact_subscribed, ContactIsOnlineHere
<1>3. ItemsSound /\ ConsentGiven /\ [Next]_vars => ConsentGiven'
  BY <1>2, StepKeepsConsent DEF ItemsSound
<1> QED BY <1>1, <1>3, ItemsWellFormed, PTL DEF Spec

----------------------------------------------------------------------------
(* What the store and the clients hold, as long as saves succeed.          *)

(* An effect that loses nothing: what it changes it saves, and if the save *)
(* succeeds it pushes what a client can see of the change.                 *)
Faithful(saves, pushes, item, i, saved) ==
    /\ saves \/ item = i
    /\ saved => pushes \/ PushedItem(item) = PushedItem(i)

(* The operations that change nothing a client can see.                    *)
LEMMA OperationsHide ==
    ASSUME NEW i \in Item, ItemWellFormed(i)
    PROVE  /\ PushedItem(set_contact_pending_in(i)) = PushedItem(i)
           /\ i.subscription = "absent" => PushedItem(unsubscribe(i)) = PushedItem(i)
           /\ ~HasFrom(i) => PushedItem(unsubscribed(i)) = PushedItem(i)
<1> USE DEF Item, Subscriptions, PushedItem
<1>1. PushedItem(set_contact_pending_in(i)) = PushedItem(i)
  BY DEF set_contact_pending_in
<1>2. i.subscription = "absent" => PushedItem(unsubscribe(i)) = PushedItem(i)
  BY DEF unsubscribe, DropTo, ItemWellFormed
<1>3. ~HasFrom(i) => PushedItem(unsubscribed(i)) = PushedItem(i)
  BY DEF unsubscribed, DropFrom, HasFrom
<1> QED BY <1>1, <1>2, <1>3

(* Which operations can leave a request waiting: set_contact_pending_in.   *)
LEMMA OperationsAnswer ==
    ASSUME NEW i \in Item
    PROVE  /\ ~process_inbound_unsubscribe(i).pending
           /\ ~subscribed(i).pending
           /\ ~unsubscribed(i).pending
           /\ set_contact_pending_in(i).pending => i.pending \/ set_contact_pending_in(i) # i
           /\ process_inbound_subscription_approval(i).pending = i.pending
           /\ process_inbound_subscription_cancellation(i).pending = i.pending
           /\ set_contact_pending_out(i).pending = i.pending
           /\ unsubscribe(i).pending = i.pending
<1> USE DEF Item
<1>1. ~process_inbound_unsubscribe(i).pending
  BY DEF process_inbound_unsubscribe, DropFrom
<1>2. ~subscribed(i).pending
  BY DEF subscribed, Created
<1>3. ~unsubscribed(i).pending
  BY DEF unsubscribed, DropFrom
<1>4. set_contact_pending_in(i).pending => i.pending \/ set_contact_pending_in(i) # i
  BY DEF set_contact_pending_in
<1>5. process_inbound_subscription_approval(i).pending = i.pending
  BY DEF process_inbound_subscription_approval
<1>6. process_inbound_subscription_cancellation(i).pending = i.pending
  BY DEF process_inbound_subscription_cancellation, DropTo
<1>7. set_contact_pending_out(i).pending = i.pending
  BY DEF set_contact_pending_out, Created
<1>8. unsubscribe(i).pending = i.pending
  BY DEF unsubscribe, DropTo
<1> QED BY <1>1, <1>2, <1>3, <1>4, <1>5, <1>6, <1>7, <1>8

(* The effects of the two answers, but for the stanzas.                    *)
LEMMA SubscribedEffect ==
    ASSUME NEW u, NEW i, NEW ok, NEW e, e = outbound_subscribed(u, i, ok)
    PROVE  /\ e.item = subscribed(i) /\ e.saves = (subscribed(i) # i)
           /\ e.pushes = (subscribed(i) # i /\ Saved(u, ok))
<1>1. \E out : e = Effect(subscribed(i), subscribed(i) # i,
                          subscribed(i) # i /\ Saved(u, ok), out)
  BY Zenon DEF outbound_subscribed
<1>2. PICK out : e = Effect(subscribed(i), subscribed(i) # i,
                            subscribed(i) # i /\ Saved(u, ok), out)
  BY <1>1
<1> QED BY <1>2, EffectFields

LEMMA UnsubscribedEffect ==
    ASSUME NEW u, NEW i, NEW ok, NEW e, e = outbound_unsubscribed(u, i, ok)
    PROVE  /\ e.item = unsubscribed(i) /\ e.saves = (unsubscribed(i) # i)
           /\ e.pushes = (unsubscribed(i) # i /\ Saved(u, ok) /\ HasFrom(i))
<1>1. \E out : e = Effect(unsubscribed(i), unsubscribed(i) # i,
                          (unsubscribed(i) # i /\ Saved(u, ok)) /\ HasFrom(i), out)
  BY Zenon DEF outbound_unsubscribed
<1>2. PICK out : e = Effect(unsubscribed(i), unsubscribed(i) # i,
                            (unsubscribed(i) # i /\ Saved(u, ok)) /\ HasFrom(i), out)
  BY <1>1
<1>3. /\ e.item = unsubscribed(i) /\ e.saves = (unsubscribed(i) # i)
      /\ e.pushes = ((unsubscribed(i) # i /\ Saved(u, ok)) /\ HasFrom(i))
  BY <1>2, EffectFields
<1> QED BY <1>3

(* The outbound handler loses nothing, and answers what it is to answer.   *)
LEMMA OutboundFaithful ==
    ASSUME TypeOK, NEW u \in Users, NEW i \in Item, ItemWellFormed(i),
           NEW ok \in BOOLEAN, NEW type \in SubscriptionTypes,
           NEW e, e = handle_outbound_presence_subscriptions_and_probes(
                          u, type, i, ok)
    PROVE  /\ Faithful(e.saves, e.pushes, e.item, i, Saved(u, ok))
           /\ e.item.pending => i.pending /\ ~Answers(type)
<1>1. CASE type = "subscribe"
  <2> DEFINE new == set_contact_pending_out(i)
  <2>1. e = Effect(new, new # i, new = i \/ Saved(u, ok), <<"subscribe">>)
    BY <1>1, Zenon DEF handle_outbound_presence_subscriptions_and_probes, outbound_subscribe
  <2>2. new.pending = i.pending
    BY OperationsAnswer
  <2> HIDE DEF new
  <2>3. e.item = new /\ e.saves = (new # i) /\ e.pushes = (new = i \/ Saved(u, ok))
    BY <2>1, EffectFields
  <2> QED BY <1>1, <2>2, <2>3 DEF Faithful, Answers
<1>2. CASE type = "unsubscribe"
  <2> DEFINE new == unsubscribe(i)
             seen == i.subscription # "absent" /\ (new = i \/ Saved(u, ok))
  <2>1. e = Effect(new, new # i, seen, <<"unsubscribe">>)
    BY <1>2, Zenon DEF handle_outbound_presence_subscriptions_and_probes, outbound_unsubscribe
  <2>2. new.pending = i.pending
    BY OperationsAnswer
  <2>3. i.subscription = "absent" => PushedItem(new) = PushedItem(i)
    BY OperationsHide
  <2>4. Saved(u, ok) => seen \/ PushedItem(new) = PushedItem(i)
    BY <2>3
  <2> HIDE DEF new, seen
  <2>5. e.item = new /\ e.saves = (new # i) /\ e.pushes = seen
    BY <2>1, EffectFields
  <2> QED BY <1>2, <2>2, <2>4, <2>5 DEF Faithful, Answers
<1>3. CASE type = "subscribed"
  <2>1. e = outbound_subscribed(u, i, ok)
    BY <1>3, Zenon DEF handle_outbound_presence_subscriptions_and_probes
  <2>2. /\ e.item = subscribed(i) /\ e.saves = (subscribed(i) # i)
        /\ e.pushes = (subscribed(i) # i /\ Saved(u, ok))
    BY <2>1, SubscribedEffect
  <2>3. ~subscribed(i).pending
    BY OperationsAnswer
  <2> QED BY <2>2, <2>3 DEF Faithful
<1>4. CASE type = "unsubscribed"
  <2>1. e = outbound_unsubscribed(u, i, ok)
    BY <1>4, Zenon DEF handle_outbound_presence_subscriptions_and_probes
  <2>2. /\ e.item = unsubscribed(i) /\ e.saves = (unsubscribed(i) # i)
        /\ e.pushes = (unsubscribed(i) # i /\ Saved(u, ok) /\ HasFrom(i))
    BY <2>1, UnsubscribedEffect
  <2>3. ~unsubscribed(i).pending
    BY OperationsAnswer
  <2>4. ~HasFrom(i) => PushedItem(unsubscribed(i)) = PushedItem(i)
    BY OperationsHide
  <2> QED BY <2>2, <2>3, <2>4 DEF Faithful
<1> QED BY <1>1, <1>2, <1>3, <1>4 DEF SubscriptionTypes

(* So does the inbound handler; only a request can leave one waiting.      *)
LEMMA InboundFaithful ==
    ASSUME TypeOK, WellFormed, NEW u \in Users, NEW ok \in BOOLEAN,
           NEW type \in SubscriptionTypes \cup {"probe"},
           NEW e, e = handle_inbound_presence_subscriptions_and_probes(
                          u, type, ok)
    PROVE  /\ Faithful(e.saves, e.pushes, e.item, roster[u], Saved(u, ok))
           /\ e.item.pending => \/ roster[u].pending /\ type # "unsubscribe"
                                \/ type = "subscribe" /\ e.saves
<1>1. PICK i \in Item : i = roster[u]
  BY DEF TypeOK
<1>2. ItemWellFormed(i)
  BY <1>1 DEF WellFormed
<1>3. ASSUME NEW f, f = outbound_subscribed(u, i, ok)
      PROVE  Faithful(f.saves, f.pushes, f.item, i, Saved(u, ok)) /\ ~f.item.pending
  <2>1. /\ f.item = subscribed(i) /\ f.saves = (subscribed(i) # i)
        /\ f.pushes = (subscribed(i) # i /\ Saved(u, ok))
    BY <1>3, SubscribedEffect
  <2>2. ~subscribed(i).pending
    BY OperationsAnswer
  <2> QED BY <2>1, <2>2 DEF Faithful
<1>4. ASSUME NEW f, f = outbound_unsubscribed(u, i, ok)
      PROVE  Faithful(f.saves, f.pushes, f.item, i, Saved(u, ok)) /\ ~f.item.pending
  <2>1. /\ f.item = unsubscribed(i) /\ f.saves = (unsubscribed(i) # i)
        /\ f.pushes = (unsubscribed(i) # i /\ Saved(u, ok) /\ HasFrom(i))
    BY <1>4, UnsubscribedEffect
  <2>2. ~unsubscribed(i).pending
    BY OperationsAnswer
  <2>3. ~HasFrom(i) => PushedItem(unsubscribed(i)) = PushedItem(i)
    BY <1>2, OperationsHide
  <2> QED BY <2>1, <2>2, <2>3 DEF Faithful
<1>5. CASE type = "probe"
  <2>1. e = inbound_probe(u, i, ok)
    BY <1>1, <1>5, Zenon DEF handle_inbound_presence_subscriptions_and_probes
  <2>2. CASE is_contact_subscribed(u, i)
    <3>2. PICK no, out : e = Effect(i, no, no, out)
      BY <2>1, <2>2, Zenon DEF inbound_probe
    <3>1. e.item = i
      BY <3>2, EffectFields
    <3> QED BY <1>1, <1>5, <3>1 DEF Faithful
  <2>3. CASE ~is_contact_subscribed(u, i)
    <3>1. e = outbound_unsubscribed(u, i, ok)
      BY <2>1, <2>3 DEF inbound_probe
    <3> QED BY <1>1, <1>4, <3>1
  <2> QED BY <2>2, <2>3
<1>6. CASE type = "subscribe"
  <2>1. e = inbound_subscribe(u, i, ok)
    BY <1>1, <1>6, Zenon DEF handle_inbound_presence_subscriptions_and_probes
  <2>2. CASE is_contact_subscribed(u, i)
    <3>1. PICK f : f = outbound_subscribed(u, i, ok)
      OBVIOUS
    <3>2. f \in Effects
      <4>1. f = handle_outbound_presence_subscriptions_and_probes(u, "subscribed", i, ok)
        BY <3>1 DEF handle_outbound_presence_subscriptions_and_probes
      <4> QED BY <1>2, <4>1, OutboundEffects DEF SubscriptionTypes
    <3>3. e = [f EXCEPT !.out = f.out \o PresenceOrUnavailable(u)]
      BY <2>1, <2>2, <3>1 DEF inbound_subscribe
    <3>4. PICK out : e = [f EXCEPT !.out = out]
      BY <3>3
    <3>5. e.item = f.item /\ e.saves = f.saves /\ e.pushes = f.pushes
      BY <3>2, <3>4 DEF Effects
    <3> QED BY <1>1, <1>3, <3>1, <3>5
  <2>3. CASE ~is_contact_subscribed(u, i)
    <3>1. PICK new : new = set_contact_pending_in(i)
      OBVIOUS
    <3>2. PICK no, out : e = Effect(new, new # i, no, out)
      BY <2>1, <2>3, <3>1 DEF inbound_subscribe
    <3>3. e.item = new /\ e.saves = (new # i)
      BY <3>2, EffectFields
    <3>4. PushedItem(new) = PushedItem(i) /\ (new.pending => i.pending \/ new # i)
      BY <1>2, <3>1, OperationsHide, OperationsAnswer
    <3> QED BY <1>1, <1>6, <3>3, <3>4 DEF Faithful
  <2> QED BY <2>2, <2>3
<1>7. ASSUME NEW new, e = Inbound(u, ok, new), new.pending => i.pending /\ type # "unsubscribe"
      PROVE  /\ Faithful(e.saves, e.pushes, e.item, i, Saved(u, ok))
             /\ e.item.pending => i.pending /\ type # "unsubscribe"
  <2>1. e = Effect(new, new # i, new # i /\ Saved(u, ok), << >>)
    BY <1>1, <1>7, Zenon DEF Inbound
  <2>2. e.item = new /\ e.saves = (new # i) /\ e.pushes = (new # i /\ Saved(u, ok))
    BY <2>1, EffectFields
  <2> QED BY <1>7, <2>2 DEF Faithful
<1>8. CASE type = "unsubscribe"
  <2>1. e = Inbound(u, ok, process_inbound_unsubscribe(i))
    BY <1>1, <1>8, Zenon DEF handle_inbound_presence_subscriptions_and_probes
  <2> QED BY <1>1, <1>7, <2>1, OperationsAnswer
<1>9. CASE type = "subscribed"
  <2>1. e = Inbound(u, ok, process_inbound_subscription_approval(i))
    BY <1>1, <1>9, Zenon DEF handle_inbound_presence_subscriptions_and_probes
  <2> QED BY <1>1, <1>7, <1>9, <2>1, OperationsAnswer
<1>10. CASE type = "unsubscribed"
  <2>1. e = Inbound(u, ok, process_inbound_subscription_cancellation(i))
    BY <1>1, <1>10, Zenon DEF handle_inbound_presence_subscriptions_and_probes
  <2> QED BY <1>1, <1>7, <1>10, <2>1, OperationsAnswer
<1> QED BY <1>5, <1>6, <1>8, <1>9, <1>10 DEF SubscriptionTypes

(* Only who is connected has a view, and only who exists is connected.     *)
Attached ==
    \A u \in Users : /\ view[u] # Nothing => client[u] # "off"
                     /\ client[u] # "off" => exists[u]

CopyInv == ItemsSound /\ CopiesCurrent /\ RequestShown /\ Attached

(* An effect that loses nothing, and whose save succeeds if there is an    *)
(* account, keeps the copies.                                              *)
LEMMA FaithfulKeeps ==
    ASSUME CopyInv, NEW u \in Users, NEW e, e.item \in Item,
           Faithful(e.saves, e.pushes, e.item, roster[u], exists[u]),
           Stores(u, e, TRUE), Pushes(u, e), UNCHANGED <<exists, client>>
    PROVE  /\ CopiesCurrent' /\ Attached'
           /\ \A v \in Users : roster'[v] = IF v = u /\ (exists[u] \/ client[u] # "off")
                                            THEN e.item ELSE roster[v]
<1>1. PICK i \in Item : i = e.item
  OBVIOUS
<1>2. Saved(u, TRUE) = exists[u]
  BY DEF Saved, CopyInv, ItemsSound, TypeOK
<1>3. /\ roster \in [Users -> Item] /\ disk \in [Users -> Item] /\ view \in [Users -> Views]
      /\ \A v \in Users : roster[v] = disk[v]
      /\ \A v \in Users : view[v] # Nothing => view[v] = PushedItem(roster[v])
  BY DEF CopyInv, ItemsSound, TypeOK, CopiesCurrent, StoredIsCurrent, ViewIsCurrent
<1>4. roster' = [roster EXCEPT ![u] = IF exists[u] \/ client[u] # "off" THEN i ELSE disk[u]]
  BY <1>1, <1>2 DEF Stores, Kept
<1>5. disk' = [disk EXCEPT ![u] = IF e.saves /\ exists[u] THEN i ELSE disk[u]]
  BY <1>1, <1>2 DEF Stores
<1>6. view' = [view EXCEPT ![u] = IF e.pushes /\ view[u] # Nothing THEN PushedItem(i) ELSE view[u]]
  BY <1>1 DEF Pushes
<1>7. \A v \in Users : (view[v] # Nothing => client[v] # "off") /\ (client[v] # "off" => exists[v])
  BY DEF CopyInv, Attached
<1>8. (e.saves \/ i = roster[u])
      /\ (exists[u] => e.pushes \/ PushedItem(i) = PushedItem(roster[u]))
  BY <1>1 DEF Faithful
<1>9. PushedItem(i) # Nothing
  BY <1>1 DEF PushedItem, Nothing, Item, Subscriptions
<1>10. \A v \in Users : roster'[v] = IF v = u /\ (exists[u] \/ client[u] # "off") THEN i ELSE roster[v]
  BY <1>3, <1>4
<1>11. StoredIsCurrent'
  <2>1. \A v \in Users : disk'[v] = IF v = u /\ e.saves /\ exists[u] THEN i ELSE disk[v]
    BY <1>3, <1>5
  <2> QED BY <1>3, <1>7, <1>8, <1>10, <2>1 DEF StoredIsCurrent
<1>12. \A v \in Users : view'[v] = IF v = u /\ e.pushes /\ view[u] # Nothing THEN PushedItem(i) ELSE view[v]
  BY <1>3, <1>6
<1>13. ViewIsCurrent'
  BY <1>3, <1>7, <1>8, <1>10, <1>12 DEF ViewIsCurrent
<1>14. Attached'
  BY <1>7, <1>12 DEF Attached
<1> QED BY <1>1, <1>10, <1>11, <1>13, <1>14 DEF CopiesCurrent

(* The facts most steps need.                                              *)
LEMMA CopyFacts ==
    ASSUME CopyInv
    PROVE  /\ TypeOK /\ WellFormed
           /\ client \in [Users -> {"off", "bound", "available"}] /\ exists \in [Users -> BOOLEAN]
           /\ roster \in [Users -> Item] /\ disk \in [Users -> Item] /\ view \in [Users -> Views]
           /\ shown \in [Users -> BOOLEAN]
           /\ \A v \in Users :
                 /\ roster[v] = disk[v]
                 /\ view[v] # Nothing => view[v] = PushedItem(roster[v])
                 /\ view[v] # Nothing => client[v] # "off"
                 /\ client[v] # "off" => exists[v]
                 /\ client[v] = "available" /\ roster[v].pending => shown[v]
  BY DEF CopyInv, ItemsSound, TypeOK, CopiesCurrent, StoredIsCurrent, ViewIsCurrent, Attached,
         RequestShown

CopyNext == CopiesCurrent' /\ RequestShown' /\ Attached'

(* Sessions begin and end, and presence is sent and received.              *)
LEMMA SessionKeepsCopies ==
    ASSUME CopyInv, NEW u \in Users,
           \/ Bind(u) \/ RosterGet(u) \/ Available(u) \/ Unavailable(u)
           \/ Disconnect(u) \/ DeliverPresence(u) \/ DeleteUser(u)
    PROVE  CopyNext
<1> USE CopyFacts DEF CopiesCurrent, StoredIsCurrent, ViewIsCurrent, Attached, RequestShown, CopyNext
<1>1. CASE Bind(u)
  BY <1>1 DEF Bind
<1>2. CASE RosterGet(u)
  BY <1>2 DEF RosterGet
<1>3. CASE Available(u)
  BY <1>3 DEF Available, Resent
<1>4. CASE Unavailable(u)
  BY <1>4 DEF Unavailable
<1>5. CASE Disconnect(u)
  BY <1>5 DEF Disconnect
<1>6. CASE DeliverPresence(u)
  BY <1>6 DEF DeliverPresence
<1>7. CASE DeleteUser(u)
  BY <1>7 DEF DeleteUser
<1> QED BY <1>1, <1>2, <1>3, <1>4, <1>5, <1>6, <1>7

(* A client sends a subscription stanza.                                   *)
LEMMA OutboundKeepsCopies ==
    ASSUME CopyInv, NEW u \in Users, NEW type \in SubscriptionTypes, Outbound(u, type, TRUE)
    PROVE  CopyNext
<1>1. PICK e : e = handle_outbound_presence_subscriptions_and_probes(u, type, roster[u], TRUE)
  OBVIOUS
<1>2. /\ client[u] # "off" /\ Stores(u, e, TRUE) /\ Pushes(u, e)
      /\ UNCHANGED <<exists, client>>
  BY <1>1, Zenon DEF Outbound, MayChange
<1>3. \A v \in Users : v # u => shown'[v] = shown[v]
  BY CopyFacts DEF Outbound
<1>4. ~Answers(type) => shown' = [shown EXCEPT ![u] = shown[u] /\ TRUE]
  BY Zenon DEF Outbound
<1>5. roster[u] \in Item /\ ItemWellFormed(roster[u])
  BY CopyFacts DEF WellFormed
<1>6. PICK yes \in BOOLEAN : yes = TRUE /\ Saved(u, yes) = exists[u]
  BY CopyFacts DEF Saved
<1>12. e = handle_outbound_presence_subscriptions_and_probes(u, type, roster[u], yes)
  BY <1>1, <1>6
<1>7. /\ Faithful(e.saves, e.pushes, e.item, roster[u], exists[u])
      /\ e.item.pending => roster[u].pending /\ ~Answers(type)
  <2>1. TypeOK
    BY CopyFacts
  <2>2. /\ Faithful(e.saves, e.pushes, e.item, roster[u], Saved(u, yes))
        /\ e.item.pending => roster[u].pending /\ ~Answers(type)
    BY ONLY <1>5, <1>6, <1>12, <2>1, u \in Users, type \in SubscriptionTypes, OutboundFaithful
  <2> QED BY <1>6, <2>2
<1>8. e.item \in Item
  BY <1>5, <1>12, CopyFacts, OutboundEffects DEF Effects
<1>9. /\ CopiesCurrent' /\ Attached'
      /\ \A v \in Users : roster'[v] = IF v = u THEN e.item ELSE roster[v]
  BY <1>2, <1>7, <1>8, FaithfulKeeps
<1>10. e.item.pending => shown'[u] = shown[u]
  BY <1>4, <1>7, CopyFacts
<1>11. RequestShown'
  BY <1>2, <1>3, <1>7, <1>9, <1>10, CopyFacts DEF RequestShown
<1> QED BY <1>9, <1>11 DEF CopyNext

(* A subscription stanza or a probe arrives.                               *)
LEMMA InboundKeepsCopies ==
    ASSUME CopyInv, NEW u \in Users, DeliverSubscription(u, TRUE)
    PROVE  CopyNext
<1>1. PICK type : type = Head(net[u])
  OBVIOUS
<1>2. PICK e : e = handle_inbound_presence_subscriptions_and_probes(u, type, TRUE)
  OBVIOUS
<1>3. /\ type \in SubscriptionTypes \cup {"probe"}
      /\ Stores(u, e, TRUE) /\ Pushes(u, e) /\ UNCHANGED <<exists, client>>
  BY <1>1, <1>2, Zenon DEF DeliverSubscription
<1>4. shown' = [shown EXCEPT ![u] = IF type = "unsubscribe" /\ e.pushes THEN FALSE
                                    ELSE shown[u] \/ ShowsRequest(u, type, e, TRUE)]
  BY <1>1, <1>2, Zenon DEF DeliverSubscription
<1>5. PICK yes \in BOOLEAN : yes = TRUE /\ Saved(u, yes) = exists[u]
  BY CopyFacts DEF Saved
<1>12. e = handle_inbound_presence_subscriptions_and_probes(u, type, yes)
  BY <1>2, <1>5
<1>6. /\ Faithful(e.saves, e.pushes, e.item, roster[u], exists[u])
      /\ e.item.pending => \/ roster[u].pending /\ type # "unsubscribe"
                           \/ type = "subscribe" /\ e.saves
  <2>1. TypeOK /\ WellFormed
    BY CopyFacts
  <2>2. /\ Faithful(e.saves, e.pushes, e.item, roster[u], Saved(u, yes))
        /\ e.item.pending => \/ roster[u].pending /\ type # "unsubscribe"
                             \/ type = "subscribe" /\ e.saves
    BY ONLY <1>3, <1>5, <1>12, <2>1, u \in Users, InboundFaithful
  <2> QED BY <1>5, <2>2
<1>7. e.item \in Item
  BY <1>3, <1>12, CopyFacts, InboundEffects DEF Effects
<1>8. /\ CopiesCurrent' /\ Attached'
      /\ \A v \in Users : roster'[v] = IF v = u /\ (exists[u] \/ client[u] # "off")
                                       THEN e.item ELSE roster[v]
  BY <1>3, <1>6, <1>7, FaithfulKeeps
<1>9. client[u] = "available" /\ e.item.pending => shown'[u]
  <2>1. SUFFICES ASSUME client[u] = "available", e.item.pending PROVE shown'[u]
    OBVIOUS
  <2>2. PICK unsub \in BOOLEAN : unsub = (type = "unsubscribe" /\ e.pushes)
    OBVIOUS
  <2>3. PICK shows \in BOOLEAN : shows = ShowsRequest(u, type, e, TRUE)
    BY DEF ShowsRequest
  <2>4. shown'[u] = IF unsub THEN FALSE ELSE shown[u] \/ shows
    BY <1>4, <2>2, <2>3, CopyFacts
  <2>5. ~unsub
    BY <1>6, <2>1, <2>2
  <2>6. roster[u].pending => shown[u]
    BY <2>1, CopyFacts
  <2>7. type = "subscribe" /\ e.saves => shows
    BY <1>5, <2>1, <2>3, CopyFacts DEF ShowsRequest
  <2> QED BY <1>6, <2>1, <2>4, <2>5, <2>6, <2>7
<1>10. \A v \in Users : v # u => shown'[v] = shown[v]
  BY <1>4, CopyFacts
<1>11. RequestShown'
  BY <1>3, <1>8, <1>9, <1>10, CopyFacts DEF RequestShown
<1> QED BY <1>8, <1>11 DEF CopyNext

(* A client changes or removes its item.                                   *)
LEMMA RosterKeepsCopies ==
    ASSUME CopyInv, NEW u \in Users, RosterSet(u, TRUE) \/ RosterRemove(u, TRUE)
    PROVE  CopyNext
<1>1. client[u] # "off" /\ exists[u] /\ Saved(u, TRUE)
  BY CopyFacts DEF RosterSet, RosterRemove, MayChange, Saved
<1>2. ASSUME NEW new \in Item, new.pending = roster[u].pending,
             Stores(u, Effect(new, TRUE, TRUE, << >>), TRUE),
             Pushes(u, Effect(new, TRUE, Saved(u, TRUE), << >>)),
             UNCHANGED <<exists, client, shown>>
      PROVE  CopyNext
  <2>1. PICK yes \in BOOLEAN : yes = TRUE
    OBVIOUS
  <2>2. PICK e : e = Effect(new, yes, yes, << >>)
    OBVIOUS
  <2>3. Stores(u, e, TRUE) /\ Pushes(u, e)
    <3>1. Saved(u, TRUE) = TRUE
      BY <1>1 DEF Saved
    <3> QED BY <1>2, <2>1, <2>2, <3>1
  <2>4. e.item = new /\ e.saves = yes /\ e.pushes = yes
    BY <2>2, EffectFields
  <2>5. Faithful(e.saves, e.pushes, e.item, roster[u], exists[u])
    BY <2>1, <2>4 DEF Faithful
  <2>6. /\ CopiesCurrent' /\ Attached'
        /\ \A v \in Users : roster'[v] = IF v = u THEN new ELSE roster[v]
    BY <1>1, <1>2, <2>3, <2>4, <2>5, FaithfulKeeps
  <2>7. RequestShown'
    BY <1>2, <2>6, CopyFacts DEF RequestShown
  <2> QED BY <2>6, <2>7 DEF CopyNext
<1>3. CASE RosterSet(u, TRUE)
  <2>1. PICK new : new = Created(roster[u])
    OBVIOUS
  <2>2. new \in Item
    BY <2>1, CopyFacts, OperationTypes
  <2>3. new.pending = roster[u].pending
    BY <2>1, CopyFacts DEF Created, Item
  <2>4. /\ Stores(u, Effect(new, TRUE, TRUE, << >>), TRUE)
        /\ Pushes(u, Effect(new, TRUE, Saved(u, TRUE), << >>))
        /\ UNCHANGED <<exists, client, shown>>
    BY <1>1, <1>3, <2>1, Zenon DEF RosterSet
  <2> QED BY <1>2, <2>2, <2>3, <2>4
<1>4. CASE RosterRemove(u, TRUE)
  <2>1. PICK new : new = [NoItem EXCEPT !.pending = roster[u].pending]
    OBVIOUS
  <2>2. new \in Item /\ new.pending = roster[u].pending
    BY <2>1, CopyFacts DEF NoItem, Item, Subscriptions
  <2>3. /\ Stores(u, Effect(new, TRUE, TRUE, << >>), TRUE)
        /\ Pushes(u, Effect(new, TRUE, Saved(u, TRUE), << >>))
        /\ UNCHANGED <<exists, client, shown>>
    BY <1>1, <1>4, <2>1, Zenon DEF RosterRemove
  <2> QED BY <1>2, <2>2, <2>3
<1> QED BY <1>3, <1>4

LEMMA AlwaysCopyInv ==
    ASSUME SaveOutcomes \subseteq {TRUE}
    PROVE  Spec => []CopyInv
<1>1. Init => CopyInv
  <2>1. SUFFICES ASSUME Init PROVE CopyInv
    OBVIOUS
  <2>2. ItemsSound
    BY <2>1, InitEstablishes DEF ItemsSound
  <2>3. CopiesCurrent /\ RequestShown /\ Attached
    BY <2>1 DEF Init, CopiesCurrent, StoredIsCurrent, ViewIsCurrent, RequestShown, Attached
  <2> QED BY <2>2, <2>3 DEF CopyInv
<1>2. CopyInv /\ [Next]_vars => CopyInv'
  <2>1. SUFFICES ASSUME CopyInv, [Next]_vars PROVE CopyInv'
    OBVIOUS
  <2>2. ItemsSound'
    BY <2>1, StepPreserves DEF CopyInv, ItemsSound
  <2>3. CASE UNCHANGED vars
    BY <2>1, <2>2, <2>3 DEF vars, CopyInv, CopiesCurrent, StoredIsCurrent, ViewIsCurrent, RequestShown,
                            Attached
  <2>4. ASSUME Next PROVE CopyNext
    <3>1. PICK u \in Users :
            \/ Bind(u) \/ RosterGet(u) \/ Available(u) \/ Unavailable(u)
            \/ Disconnect(u) \/ DeliverPresence(u) \/ DeleteUser(u)
            \/ \E ok \in SaveOutcomes :
                  \/ \E type \in SubscriptionTypes : Outbound(u, type, ok)
                  \/ DeliverSubscription(u, ok)
                  \/ RosterSet(u, ok) \/ RosterRemove(u, ok)
      BY <2>4 DEF Next
    <3>2. \A ok \in SaveOutcomes : ok = TRUE
      OBVIOUS
    <3>3. CASE \E ok \in SaveOutcomes :
                  \/ \E type \in SubscriptionTypes : Outbound(u, type, ok)
                  \/ DeliverSubscription(u, ok)
                  \/ RosterSet(u, ok) \/ RosterRemove(u, ok)
      <4>1. \/ \E type \in SubscriptionTypes : Outbound(u, type, TRUE)
            \/ DeliverSubscription(u, TRUE)
            \/ RosterSet(u, TRUE) \/ RosterRemove(u, TRUE)
        BY <3>2, <3>3, Zenon
      <4> QED BY <2>1, <4>1, OutboundKeepsCopies, InboundKeepsCopies, RosterKeepsCopies, Zenon
    <3>4. CASE \/ Bind(u) \/ RosterGet(u) \/ Available(u) \/ Unavailable(u)
               \/ Disconnect(u) \/ DeliverPresence(u) \/ DeleteUser(u)
      BY <2>1, <3>4, SessionKeepsCopies, Zenon
    <3> QED BY <3>1, <3>3, <3>4
  <2> QED BY <2>1, <2>2, <2>3, <2>4 DEF CopyInv, CopyNext
<1> QED BY <1>1, <1>2, PTL DEF Spec

(* As long as saves succeed, what is in the store and what an interested   *)
(* client was shown is the roster, for every link and all operations: no   *)
(* handler forgets to save or to push (rostermanager.lua:62-170).          *)
THEOREM CopiesStayCurrent ==
    ASSUME SaveOutcomes \subseteq {TRUE}
    PROVE  Spec => []CopiesCurrent
<1>1. CopyInv => CopiesCurrent
  BY DEF CopyInv
<1> QED BY <1>1, AlwaysCopyInv, PTL

(* As long as saves succeed, a request that waits for an answer was shown  *)
(* to the client that is available, wherever the user was when it came     *)
(* (mod_presence.lua:83-121, 218-318).                                      *)
THEOREM RequestsAreShown ==
    ASSUME SaveOutcomes \subseteq {TRUE}
    PROVE  Spec => []RequestShown
<1>1. CopyInv => RequestShown
  BY DEF CopyInv
<1> QED BY <1>1, AlwaysCopyInv, PTL

----------------------------------------------------------------------------
(***************************************************************************)
(* Two servers, patient clients.  Each user's subscription to the other is *)
(* a direction of its own: the two items, the stanzas on their way between *)
(* the two servers, and what the subscriber's client sees.  PairInv says   *)
(* what every reachable state says of a direction; once nothing is on its  *)
(* way it says Served and PresenceAccurate.                                *)
(***************************************************************************)
(* x is among the stanzas of s. *)
In(x, s) == \E k \in 1..Len(s) : s[k] = x

(* What an available client believes after reading s, when it believed w:  *)
(* the last presence in s, or w.                                           *)
Presences == {"available", "unavailable"}
Mute(s) == \A k \in 1..Len(s) : s[k] \notin Presences
Tells(s, r) ==
    \E k \in 1..Len(s) : /\ s[k] \in Presences /\ r = (s[k] = "available")
                         /\ \A j \in 1..Len(s) : j > k => s[j] \notin Presences
Hears(s, w, r) == (r = w /\ Mute(s)) \/ Tells(s, r)

(* Stanzas sent after others, and the first stanza taken away. *)
LEMMA StreamFacts ==
    ASSUME NEW s \in Seq(Stanzas), NEW t \in Seq(Stanzas)
    PROVE  /\ s \o t \in Seq(Stanzas)
           /\ \A x : In(x, s \o t) <=> In(x, s) \/ In(x, t)
           /\ Mute(s \o t) <=> Mute(s) /\ Mute(t)
           /\ \A r : Tells(t, r) => Tells(s \o t, r)
           /\ \A r : Tells(s, r) /\ Mute(t) => Tells(s \o t, r)
           /\ \A w, r : Hears(s, w, r) /\ Mute(t) => Hears(s \o t, w, r)
           /\ \A w, r : Tells(t, r) => Hears(s \o t, w, r)
  <1> DEFINE q == s \o t
             m == Len(s)
             n == Len(t)
  <1>1. /\ q \in Seq(Stanzas) /\ Len(q) = m + n /\ m \in Nat /\ n \in Nat
        /\ \A k \in 1..m + n : q[k] = IF k <= m THEN s[k] ELSE t[k - m]
    BY ConcatProperties, LenProperties
  <1>a. Len(s) = m /\ Len(t) = n
    OBVIOUS
  <1> HIDE DEF q, m, n
  <1>2. (\A k \in 1..m : k \in 1..m + n /\ q[k] = s[k]) /\ (\A k \in 1..n : k + m \in 1..m + n /\ q[k + m] = t[k])
    BY ONLY <1>1
  <1>3. \A k \in 1..m + n : (k \in 1..m /\ q[k] = s[k]) \/ (k - m \in 1..n /\ q[k] = t[k - m])
    BY ONLY <1>1
  <1>4. \A x : In(x, q) <=> In(x, s) \/ In(x, t)
    <2> SUFFICES ASSUME NEW x PROVE In(x, q) <=> In(x, s) \/ In(x, t)
      OBVIOUS
    <2>1. /\ In(x, q) <=> \E k \in 1..m + n : q[k] = x
          /\ In(x, s) <=> \E k \in 1..m : s[k] = x
          /\ In(x, t) <=> \E k \in 1..n : t[k] = x
      BY <1>1, <1>a DEF In
    <2>2. In(x, q) => In(x, s) \/ In(x, t)
      BY ONLY <2>1, <1>3
    <2>3. In(x, s) => In(x, q)
      BY ONLY <2>1, <1>2
    <2>4. In(x, t) => In(x, q)
      BY ONLY <2>1, <1>2
    <2> QED BY ONLY <2>2, <2>3, <2>4
  <1>5. Mute(q) <=> Mute(s) /\ Mute(t)
    <2>1. /\ Mute(q) <=> \A k \in 1..m + n : q[k] \notin Presences
          /\ Mute(s) <=> \A k \in 1..m : s[k] \notin Presences
          /\ Mute(t) <=> \A k \in 1..n : t[k] \notin Presences
      BY <1>1, <1>a DEF Mute
    <2>2. Mute(q) => Mute(s) /\ Mute(t)
      BY ONLY <2>1, <1>2
    <2>3. Mute(s) /\ Mute(t) => Mute(q)
      BY ONLY <2>1, <1>3
    <2> QED BY ONLY <2>2, <2>3
  <1>6. ASSUME NEW r, Tells(t, r) PROVE Tells(q, r)
    <2>1. PICK k \in 1..n : /\ t[k] \in Presences /\ r = (t[k] = "available")
                            /\ \A j \in 1..n : j > k => t[j] \notin Presences
      BY <1>6, <1>a DEF Tells
    <2>2. k + m \in 1..m + n /\ q[k + m] = t[k]
      BY ONLY <1>2, <2>1
    <2>3. \A j \in 1..m + n : j > k + m => j - m \in 1..n /\ j - m > k /\ q[j] = t[j - m]
      BY ONLY <1>1, <2>1
    <2>4. \A j \in 1..m + n : j > k + m => q[j] \notin Presences
      BY ONLY <2>1, <2>3
    <2>5. q[k + m] \in Presences /\ r = (q[k + m] = "available")
      BY ONLY <2>1, <2>2
    <2> QED BY ONLY <1>1, <2>2, <2>4, <2>5 DEF Tells
  <1>7. ASSUME NEW r, Tells(s, r), Mute(t) PROVE Tells(q, r)
    <2>1. PICK k \in 1..m : /\ s[k] \in Presences /\ r = (s[k] = "available")
                            /\ \A j \in 1..m : j > k => s[j] \notin Presences
      BY <1>7, <1>a DEF Tells
    <2>2. k \in 1..m + n /\ q[k] = s[k]
      BY ONLY <1>2, <2>1
    <2>3. \A j \in 1..n : t[j] \notin Presences
      BY <1>7, <1>a DEF Mute
    <2>4. \A j \in 1..m + n : j > k => q[j] \notin Presences
      BY ONLY <2>1, <2>3, <1>3
    <2>5. q[k] \in Presences /\ r = (q[k] = "available")
      BY ONLY <2>1, <2>2
    <2> QED BY ONLY <1>1, <2>2, <2>4, <2>5 DEF Tells
  <1> QED BY <1>1, <1>4, <1>5, <1>6, <1>7 DEF Hears, q

(* The first stanza is taken from a stream. *)
LEMMA StreamTail ==
    ASSUME NEW s \in Seq(Stanzas), s # << >>
    PROVE  /\ Tail(s) \in Seq(Stanzas) /\ Head(s) \in Stanzas
           /\ \A x : In(x, s) <=> x = Head(s) \/ In(x, Tail(s))
           /\ \A w, r : Hears(s, w, r) /\ Head(s) \notin Presences => Hears(Tail(s), w, r)
           /\ \A w, r : Hears(s, w, r) /\ Head(s) \in Presences =>
                            Hears(Tail(s), Head(s) = "available", r)
           /\ Head(s) \in Presences /\ (\E w : Hears(s, w, FALSE)) => Hears(Tail(s), FALSE, FALSE)
  <1> DEFINE h == Head(s)
             t == Tail(s)
             u == <<h>>
  <1>1. /\ t \in Seq(Stanzas) /\ h \in Stanzas /\ Len(s) \in Nat /\ Len(s) > 0
        /\ Len(t) = Len(s) - 1
        /\ \A k \in 1..Len(t) : t[k] = s[k + 1]
        /\ h = s[1]
    BY HeadTailProperties, EmptySeq, LenProperties
  <1> DEFINE n == Len(s) - 1
  <1>2. n \in Nat /\ Len(s) = n + 1 /\ Len(t) = n
    BY <1>1
  <1> HIDE DEF n
  <1> HIDE DEF h, t
  <1>3. /\ \A k \in 1..n : t[k] = s[k + 1]
        /\ \A k \in 1..n : k + 1 \in 1..n + 1
        /\ \A k \in 1..n + 1 : k = 1 \/ (k - 1 \in 1..n /\ s[k] = t[k - 1])
        /\ 1 \in 1..n + 1
    <2>1. \A k \in 1..n : t[k] = s[k + 1]
      BY <1>1, <1>2
    <2> QED BY ONLY <2>1, <1>2
  <1>4. \A x : In(x, s) <=> x = h \/ In(x, t)
    <2> SUFFICES ASSUME NEW x PROVE In(x, s) <=> x = h \/ In(x, t)
      OBVIOUS
    <2>1. /\ In(x, s) <=> \E k \in 1..n + 1 : s[k] = x
          /\ In(x, t) <=> \E k \in 1..n : t[k] = x
          /\ h = s[1]
      BY <1>1, <1>2 DEF In
    <2>2. In(x, s) => x = h \/ In(x, t)
      BY ONLY <2>1, <1>3
    <2>3. x = h \/ In(x, t) => In(x, s)
      BY ONLY <2>1, <1>3
    <2> QED BY ONLY <2>2, <2>3
  <1>5. (Mute(s) <=> h \notin Presences /\ Mute(t))
    <2>1. /\ Mute(s) <=> \A k \in 1..n + 1 : s[k] \notin Presences
          /\ Mute(t) <=> \A k \in 1..n : t[k] \notin Presences
          /\ h = s[1]
      BY <1>1, <1>2 DEF Mute
    <2>2. Mute(s) => h \notin Presences /\ Mute(t)
      BY ONLY <2>1, <1>3
    <2>3. h \notin Presences /\ Mute(t) => Mute(s)
      BY ONLY <2>1, <1>3
    <2> QED BY ONLY <2>2, <2>3
  <1>6. ASSUME NEW r, Tells(s, r)
        PROVE  Tells(t, r) \/ (h \in Presences /\ r = (h = "available") /\ Mute(t))
    <2>1. PICK k \in 1..n + 1 : /\ s[k] \in Presences /\ r = (s[k] = "available")
                                /\ \A j \in 1..n + 1 : j > k => s[j] \notin Presences
      BY <1>6, <1>2 DEF Tells
    <2>2. \A j \in 1..n : j + 1 > k => t[j] \notin Presences
      BY ONLY <1>3, <2>1
    <2>3. CASE k = 1
      <3>1. \A j \in 1..n : t[j] \notin Presences
        BY ONLY <2>2, <2>3
      <3>2. Mute(t)
        BY <3>1, <1>2 DEF Mute
      <3> QED BY <1>1, <2>1, <2>3, <3>2
    <2>4. CASE k # 1
      <3>1. k - 1 \in 1..n /\ s[k] = t[k - 1]
        BY ONLY <1>3, <2>1, <2>4
      <3>2. \A j \in 1..n : j > k - 1 => t[j] \notin Presences
        BY ONLY <2>2, <2>1, <1>2
      <3>3. t[k - 1] \in Presences /\ r = (t[k - 1] = "available")
        BY ONLY <2>1, <3>1
      <3> QED BY ONLY <1>2, <3>1, <3>2, <3>3 DEF Tells
    <2> QED BY <2>3, <2>4
  <1>7. \A r : Tells(s, r) => Tells(t, r) \/ (h \in Presences /\ r = (h = "available") /\ Mute(t))
    BY <1>6
  <1>8. \A r : Tells(s, r) => r \in BOOLEAN
    BY DEF Tells
  <1>9. /\ \A w, r : Hears(s, w, r) /\ h \notin Presences => Hears(t, w, r)
        /\ \A w, r : Hears(s, w, r) /\ h \in Presences => Hears(t, h = "available", r)
    BY ONLY <1>5, <1>7 DEF Hears
  <1>10. h \in Presences /\ (\E w : Hears(s, w, FALSE)) => Hears(t, FALSE, FALSE)
    BY ONLY <1>5, <1>7 DEF Hears
  <1> QED BY <1>1, <1>4, <1>9, <1>10 DEF h, t

(* One stanza, and none. *)
LEMMA OneStanza ==
    /\ \A y \in Stanzas : /\ <<y>> \in Seq(Stanzas)
                          /\ \A x : In(x, <<y>>) <=> x = y
                          /\ y \notin Presences => Mute(<<y>>)
                          /\ y \in Presences => Tells(<<y>>, y = "available")
    /\ << >> \in Seq(Stanzas) /\ Mute(<< >>) /\ \A x : ~In(x, << >>)
  <1>1. ASSUME NEW y \in Stanzas
        PROVE  /\ <<y>> \in Seq(Stanzas)
               /\ \A x : In(x, <<y>>) <=> x = y
               /\ y \notin Presences => Mute(<<y>>)
               /\ y \in Presences => Tells(<<y>>, y = "available")
    <2>1. Len(<<y>>) = 1 /\ <<y>>[1] = y /\ <<y>> \in Seq(Stanzas)
      OBVIOUS
    <2>2. \A k \in 1..1 : k = 1
      OBVIOUS
    <2> DEFINE o == <<y>>
    <2>3. Len(o) = 1 /\ o[1] = y /\ 1 \in 1..1
      BY <2>1
    <2> HIDE DEF o
    <2>4. \A x : In(x, o) <=> x = y
      BY ONLY <2>2, <2>3 DEF In
    <2>5. y \notin Presences => Mute(o)
      BY ONLY <2>2, <2>3 DEF Mute
    <2>6. y \in Presences => Tells(o, y = "available")
      BY ONLY <2>2, <2>3 DEF Tells
    <2> QED BY <2>1, <2>4, <2>5, <2>6 DEF o
  <1>2. << >> \in Seq(Stanzas) /\ Mute(<< >>) /\ \A x : ~In(x, << >>)
    BY DEF Mute, In
  <1> QED BY <1>1, <1>2

(* Which half of an item an operation changes: the half about the user's   *)
(* own subscription, or the half about the contact's.                      *)
SameOwn(i, j) == HasTo(j) = HasTo(i) /\ j.ask = i.ask
SameContact(i, j) == HasFrom(j) = HasFrom(i) /\ j.pending = i.pending

(* rostermanager's operations, half by half (rostermanager.lua:169-400).   *)
LEMMA OperationHalves ==
    ASSUME NEW i \in Item, ItemWellFormed(i)
    PROVE  /\ SameOwn(i, Created(i)) /\ SameContact(i, Created(i))
           /\ LET j == process_inbound_subscription_approval(i)
              IN  /\ SameContact(i, j) /\ ~j.ask /\ (HasTo(j) <=> HasTo(i) \/ i.ask)
           /\ LET j == process_inbound_subscription_cancellation(i)
              IN  SameContact(i, j) /\ ~j.ask /\ ~HasTo(j)
           /\ LET j == process_inbound_unsubscribe(i)
              IN  SameOwn(i, j) /\ ~j.pending /\ ~HasFrom(j)
           /\ LET j == set_contact_pending_in(i)
              IN  SameOwn(i, j) /\ HasFrom(j) = HasFrom(i) /\ (j.pending <=> ~HasFrom(i))
           /\ LET j == set_contact_pending_out(i)
              IN  SameContact(i, j) /\ HasTo(j) = HasTo(i) /\ (j.ask <=> ~HasTo(i))
           /\ LET j == unsubscribe(i)
              IN  SameContact(i, j) /\ ~j.ask /\ ~HasTo(j)
           /\ LET j == subscribed(i)
              IN  SameOwn(i, j) /\ ~j.pending /\ (HasFrom(j) <=> HasFrom(i) \/ i.pending)
           /\ LET j == unsubscribed(i)
              IN  /\ SameOwn(i, j) /\ ~j.pending /\ ~HasFrom(j)
                  /\ j # i <=> HasFrom(i) \/ i.pending
  <1> USE DEF Item, ItemWellFormed, HasTo, HasFrom, Subscriptions, SameOwn, SameContact
  <1>1. SameOwn(i, Created(i)) /\ SameContact(i, Created(i))
    BY DEF Created
  <1>2. LET j == process_inbound_subscription_approval(i)
        IN  /\ SameContact(i, j) /\ ~j.ask /\ (HasTo(j) <=> HasTo(i) \/ i.ask)
    BY DEF process_inbound_subscription_approval
  <1>3. LET j == process_inbound_subscription_cancellation(i)
        IN  SameContact(i, j) /\ ~j.ask /\ ~HasTo(j)
    BY DEF process_inbound_subscription_cancellation, DropTo
  <1>4. LET j == process_inbound_unsubscribe(i)
        IN  SameOwn(i, j) /\ ~j.pending /\ ~HasFrom(j)
    BY DEF process_inbound_unsubscribe, DropFrom
  <1>5. LET j == set_contact_pending_in(i)
        IN  SameOwn(i, j) /\ HasFrom(j) = HasFrom(i) /\ (j.pending <=> ~HasFrom(i))
    BY DEF set_contact_pending_in
  <1>6. LET j == set_contact_pending_out(i)
        IN  SameContact(i, j) /\ HasTo(j) = HasTo(i) /\ (j.ask <=> ~HasTo(i))
    BY DEF set_contact_pending_out, Created
  <1>7. LET j == unsubscribe(i)
        IN  SameContact(i, j) /\ ~j.ask /\ ~HasTo(j)
    BY DEF unsubscribe, DropTo
  <1>8. LET j == subscribed(i)
        IN  SameOwn(i, j) /\ ~j.pending /\ (HasFrom(j) <=> HasFrom(i) \/ i.pending)
    BY DEF subscribed, Created
  <1>9. LET j == unsubscribed(i)
        IN  /\ SameOwn(i, j) /\ ~j.pending /\ ~HasFrom(j)
            /\ j # i <=> HasFrom(i) \/ i.pending
    <2> DEFINE j == unsubscribed(i)
    <2>1. SameOwn(i, j) /\ ~j.pending /\ ~HasFrom(j)
      BY DEF unsubscribed, DropFrom
    <2>2. j # i => HasFrom(i) \/ i.pending
      BY DEF unsubscribed, DropFrom
    <2>3. HasFrom(i) \/ i.pending => j # i
      BY <2>1
    <2> QED BY <2>1, <2>2, <2>3
  <1> QED BY <1>1, <1>2, <1>3, <1>4, <1>5, <1>6, <1>7, <1>8, <1>9

(***************************************************************************)
(* One direction of the pair: the subscriber with item i, who has stanzas  *)
(* "home" on their way to it, and the contact with item j and "away".      *)
(***************************************************************************)
Wants(i) == HasTo(i) \/ i.ask

(* What the two items and the stanzas between them say of each other: who  *)
(* believes to be subscribed is, unless a cancellation is on its way; who  *)
(* waits has a request there, or on its way, or an answer on its way.      *)
Pair(i, j, away, home) ==
    /\ HasTo(i) => HasFrom(j) \/ In("unsubscribed", home)
    /\ i.ask => \/ j.pending
                \/ In("subscribe", away) \/ In("unsubscribed", home)
                \/ HasFrom(j) /\ In("subscribed", home)
    /\ In("unsubscribe", away) => ~Wants(i)
    /\ In("unsubscribed", home) => ~HasFrom(j)
    /\ In("subscribed", home) /\ Wants(i) => HasFrom(j)

(* What the subscriber's client believes: it is told, or will have asked,  *)
(* and sees nobody while a request of it waits at the contact's.           *)
(* up and c say that the subscriber and the contact are available, w is    *)
(* what the client sees.                                                   *)
Seen(i, j, away, home, w, up, c) ==
    /\ ~up => ~w
    /\ j.pending => Hears(home, w, FALSE)
    /\ up /\ Wants(i) /\ HasFrom(j) =>
         In("subscribe", away) \/ In("probe", away) \/ Hears(home, w, c)

Direction(i, j, away, home, w, up, c) ==
    Pair(i, j, away, home) /\ Seen(i, j, away, home, w, up, c)

(* No subscription stanza among them. *)
Idle(s) == \A x \in SubscriptionTypes : ~In(x, s)

----------------------------------------------------------------------------
(* What the outbound handler does for a client's stanza, to the half of    *)
(* the item about the user's own subscription and to the other half, and   *)
(* by what it sends (mod_presence.lua:155-205).                            *)
OwnSent(i, i2, out) ==
    \/ SameOwn(i, i2) /\ ~In("unsubscribe", out)
    \/ In("subscribe", out) /\ ~In("unsubscribe", out) /\ HasTo(i2) = HasTo(i)
    \/ ~Wants(i2)
ContactSent(j, j2, out, c) ==
    \/ SameContact(j, j2) /\ ~In("subscribed", out) /\ ~In("unsubscribed", out) /\ Mute(out)
    \/ /\ ~j2.pending /\ (HasFrom(j2) <=> HasFrom(j) \/ j.pending)
       /\ In("subscribed", out) /\ ~In("unsubscribed", out)
       /\ (c => Tells(out, TRUE)) /\ (~c => Mute(out))
    \/ /\ ~HasFrom(j2) /\ (j2.pending => j.pending /\ Mute(out))
       /\ ~In("subscribed", out) /\ (HasFrom(j) \/ j.pending => In("unsubscribed", out))

(* What an answer does to the half of the item about the user's own        *)
(* subscription.                                                           *)
OwnRead(i, i2, h) ==
    \/ h \notin {"subscribed", "unsubscribed"} /\ SameOwn(i, i2)
    \/ h = "subscribed" /\ ~i2.ask /\ (HasTo(i2) <=> HasTo(i) \/ i.ask)
    \/ h = "unsubscribed" /\ ~Wants(i2)

(* What the next lemma starts from. *)
WhenSubscriberActs(i, i2, j, away, home, out, w, up, c) ==
    /\ i.ask \in BOOLEAN /\ i2.ask \in BOOLEAN /\ away \in Seq(Stanzas)
    /\ home \in Seq(Stanzas) /\ out \in Seq(Stanzas) /\ w \in BOOLEAN
    /\ up \in BOOLEAN /\ c \in BOOLEAN /\ Direction(i, j, away, home, w, up, c)
    /\ Idle(home) /\ Idle(away) /\ OwnSent(i, i2, out)

(* The subscriber acts: its item becomes i2 and it sends out.              *)
LEMMA SubscriberActs ==
    ASSUME NEW i, NEW i2, NEW j, NEW away, NEW home, NEW out, NEW w, NEW up, NEW c,
           WhenSubscriberActs(i, i2, j, away, home, out, w, up, c)
    PROVE  Direction(i2, j, away \o out, home, w, up, c)
  <1>0. /\ i.ask \in BOOLEAN /\ i2.ask \in BOOLEAN /\ away \in Seq(Stanzas)
        /\ home \in Seq(Stanzas) /\ out \in Seq(Stanzas) /\ w \in BOOLEAN
        /\ up \in BOOLEAN /\ c \in BOOLEAN
        /\ Direction(i, j, away, home, w, up, c) /\ Idle(home) /\ Idle(away)
        /\ OwnSent(i, i2, out)
    BY DEF WhenSubscriberActs
  <1>1. \A x : In(x, away \o out) <=> In(x, away) \/ In(x, out)
    BY <1>0, StreamFacts
  <1>2. HasTo(i) \in BOOLEAN /\ HasTo(i2) \in BOOLEAN /\ HasFrom(j) \in BOOLEAN
    BY <1>0 DEF HasTo, HasFrom
  <1>3. Idle(home) => ~In("subscribed", home) /\ ~In("unsubscribed", home)
    BY <1>0 DEF Idle, SubscriptionTypes
  <1>4. Idle(away) => ~In("subscribe", away) /\ ~In("unsubscribe", away)
    BY <1>0 DEF Idle, SubscriptionTypes
  <1>5. Pair(i2, j, away \o out, home)
    BY <1>0, <1>1, <1>2, <1>3, <1>4 DEF Direction, Pair, Wants, SameOwn, OwnSent
  <1>6. Seen(i2, j, away \o out, home, w, up, c)
    BY <1>0, <1>1, <1>2, <1>3, <1>4 DEF Direction, Seen, Wants, SameOwn, OwnSent
  <1> QED BY <1>0, <1>5, <1>6 DEF Direction

(* What the next lemma starts from. *)
WhenSubscriberArrives(i, j, away, home, out, w, up, c, yes) ==
    /\ i.ask \in BOOLEAN /\ away \in Seq(Stanzas) /\ home \in Seq(Stanzas)
    /\ out \in Seq(Stanzas) /\ w \in BOOLEAN /\ up \in BOOLEAN /\ c \in BOOLEAN
    /\ Direction(i, j, away, home, w, up, c) /\ ~In("unsubscribe", out)
    /\ yes \in BOOLEAN /\ yes
    /\ \/ up
       \/ (HasTo(i) => In("probe", out)) /\ (i.ask => In("subscribe", out))

(* The subscriber becomes available, and asks the contact's server.        *)
LEMMA SubscriberArrives ==
    ASSUME NEW i, NEW j, NEW away, NEW home, NEW out, NEW w, NEW up, NEW c, NEW yes,
           WhenSubscriberArrives(i, j, away, home, out, w, up, c, yes)
    PROVE  Direction(i, j, away \o out, home, w, yes, c)
  <1>0. /\ i.ask \in BOOLEAN /\ away \in Seq(Stanzas) /\ home \in Seq(Stanzas)
        /\ out \in Seq(Stanzas) /\ w \in BOOLEAN /\ up \in BOOLEAN
        /\ c \in BOOLEAN /\ Direction(i, j, away, home, w, up, c)
        /\ ~In("unsubscribe", out) /\ yes \in BOOLEAN /\ yes
        /\ \/ up
           \/ (HasTo(i) => In("probe", out)) /\ (i.ask => In("subscribe", out))
    BY DEF WhenSubscriberArrives
  <1>1. \A x : In(x, away \o out) <=> In(x, away) \/ In(x, out)
    BY <1>0, StreamFacts
  <1>2. HasTo(i) \in BOOLEAN /\ HasFrom(j) \in BOOLEAN
    BY <1>0 DEF HasTo, HasFrom
  <1>5. Pair(i, j, away \o out, home)
    BY <1>0, <1>1, <1>2 DEF Direction, Pair, Wants
  <1>6. Seen(i, j, away \o out, home, w, yes, c)
    BY <1>0, <1>1, <1>2 DEF Direction, Seen, Wants
  <1> QED BY <1>0, <1>5, <1>6 DEF Direction

(* What the next lemma starts from. *)
WhenSubscriberLeaves(i, j, away, home, out, w, up, c, no) ==
    /\ i.ask \in BOOLEAN /\ away \in Seq(Stanzas) /\ home \in Seq(Stanzas)
    /\ out \in Seq(Stanzas) /\ w \in BOOLEAN /\ up \in BOOLEAN /\ c \in BOOLEAN
    /\ Direction(i, j, away, home, w, up, c) /\ ~In("unsubscribe", out)
    /\ no \in BOOLEAN /\ ~no

(* The subscriber's client goes, and forgets what it saw.                  *)
LEMMA SubscriberLeaves ==
    ASSUME NEW i, NEW j, NEW away, NEW home, NEW out, NEW w, NEW up, NEW c, NEW no,
           WhenSubscriberLeaves(i, j, away, home, out, w, up, c, no)
    PROVE  Direction(i, j, away \o out, home, no, no, c)
  <1>0. /\ i.ask \in BOOLEAN /\ away \in Seq(Stanzas) /\ home \in Seq(Stanzas)
        /\ out \in Seq(Stanzas) /\ w \in BOOLEAN /\ up \in BOOLEAN
        /\ c \in BOOLEAN /\ Direction(i, j, away, home, w, up, c)
        /\ ~In("unsubscribe", out) /\ no \in BOOLEAN /\ ~no
    BY DEF WhenSubscriberLeaves
  <1>1. \A x : In(x, away \o out) <=> In(x, away) \/ In(x, out)
    BY <1>0, StreamFacts
  <1>2. HasTo(i) \in BOOLEAN /\ HasFrom(j) \in BOOLEAN
    BY <1>0 DEF HasTo, HasFrom
  <1>3. Hears(home, w, FALSE) => Hears(home, no, FALSE)
    BY <1>0 DEF Hears
  <1>5. Pair(i, j, away \o out, home)
    BY <1>0, <1>1, <1>2 DEF Direction, Pair, Wants
  <1>6. Seen(i, j, away \o out, home, no, no, c)
    BY <1>0, <1>1, <1>2, <1>3 DEF Direction, Seen, Wants
  <1> QED BY <1>0, <1>5, <1>6 DEF Direction

(* What the next lemma starts from. *)
WhenSubscriberReads(i, i2, j, away, home, out, w, up, c) ==
    /\ i.ask \in BOOLEAN /\ i2.ask \in BOOLEAN /\ away \in Seq(Stanzas)
    /\ home \in Seq(Stanzas) /\ out \in Seq(Stanzas) /\ w \in BOOLEAN
    /\ up \in BOOLEAN /\ c \in BOOLEAN /\ Direction(i, j, away, home, w, up, c)
    /\ home # << >> /\ ~In("unsubscribe", out) /\ Head(home) \notin Presences
    /\ OwnRead(i, i2, Head(home))

(* The subscriber takes a stanza that is not presence from its stream.     *)
LEMMA SubscriberReads ==
    ASSUME NEW i, NEW i2, NEW j, NEW away, NEW home, NEW out, NEW w, NEW up, NEW c,
           WhenSubscriberReads(i, i2, j, away, home, out, w, up, c)
    PROVE  Direction(i2, j, away \o out, Tail(home), w, up, c)
  <1>0. /\ i.ask \in BOOLEAN /\ i2.ask \in BOOLEAN /\ away \in Seq(Stanzas)
        /\ home \in Seq(Stanzas) /\ out \in Seq(Stanzas) /\ w \in BOOLEAN
        /\ up \in BOOLEAN /\ c \in BOOLEAN
        /\ Direction(i, j, away, home, w, up, c) /\ home # << >>
        /\ ~In("unsubscribe", out) /\ Head(home) \notin Presences
        /\ OwnRead(i, i2, Head(home))
    BY DEF WhenSubscriberReads
  <1>1. \A x : In(x, away \o out) <=> In(x, away) \/ In(x, out)
    BY <1>0, StreamFacts
  <1>2. HasTo(i) \in BOOLEAN /\ HasTo(i2) \in BOOLEAN /\ HasFrom(j) \in BOOLEAN
    BY <1>0 DEF HasTo, HasFrom
  <1>3. /\ \A x : In(x, home) <=> x = Head(home) \/ In(x, Tail(home))
        /\ \A r : Hears(home, w, r) => Hears(Tail(home), w, r)
    BY <1>0, StreamTail
  <1>5. Pair(i2, j, away \o out, Tail(home))
    BY <1>0, <1>1, <1>2, <1>3 DEF Direction, Pair, Wants, SameOwn, OwnRead
  <1>6. Seen(i2, j, away \o out, Tail(home), w, up, c)
    BY <1>0, <1>1, <1>2, <1>3 DEF Direction, Seen, Wants, SameOwn, Pair, OwnRead
  <1> QED BY <1>0, <1>5, <1>6 DEF Direction

(* What the next lemma starts from. *)
WhenSubscriberHears(i, j, away, home, w, up, c) ==
    /\ i.ask \in BOOLEAN /\ away \in Seq(Stanzas) /\ home \in Seq(Stanzas)
    /\ w \in BOOLEAN /\ up \in BOOLEAN /\ c \in BOOLEAN
    /\ Direction(i, j, away, home, w, up, c) /\ home # << >>
    /\ Head(home) \in Presences

(* The subscriber takes presence from its stream: an available client sees *)
(* it.                                                                     *)
LEMMA SubscriberHears ==
    ASSUME NEW i, NEW j, NEW away, NEW home, NEW w, NEW up, NEW c,
           WhenSubscriberHears(i, j, away, home, w, up, c)
    PROVE  Direction(i, j, away, Tail(home), IF up THEN Head(home) = "available" ELSE w, up, c)
  <1>0. /\ i.ask \in BOOLEAN /\ away \in Seq(Stanzas) /\ home \in Seq(Stanzas)
        /\ w \in BOOLEAN /\ up \in BOOLEAN /\ c \in BOOLEAN
        /\ Direction(i, j, away, home, w, up, c) /\ home # << >>
        /\ Head(home) \in Presences
    BY DEF WhenSubscriberHears
  <1>2. HasTo(i) \in BOOLEAN /\ HasFrom(j) \in BOOLEAN
    BY <1>0 DEF HasTo, HasFrom
  <1>3. /\ \A x : In(x, home) <=> x = Head(home) \/ In(x, Tail(home))
        /\ \A r : Hears(home, w, r) => Hears(Tail(home), Head(home) = "available", r)
        /\ Hears(home, w, FALSE) => Hears(Tail(home), FALSE, FALSE)
    BY <1>0, StreamTail
  <1>4. Head(home) \notin {"subscribed", "unsubscribed"}
    BY <1>0 DEF Presences
  <1>5. Pair(i, j, away, Tail(home))
    BY <1>0, <1>2, <1>3, <1>4 DEF Direction, Pair, Wants
  <1>6. Seen(i, j, away, Tail(home), IF up THEN Head(home) = "available" ELSE w, up, c)
    <2>1. CASE up
      BY <1>0, <1>2, <1>3, <2>1 DEF Direction, Seen
    <2>2. CASE ~up
      BY <1>0, <1>2, <1>3, <2>2 DEF Direction, Seen
    <2> QED BY <1>0, <2>1, <2>2
  <1> QED BY <1>0, <1>5, <1>6 DEF Direction

(* What the next lemma starts from. *)
WhenContactActs(i, j, j2, away, home, out, w, up, c) ==
    /\ i.ask \in BOOLEAN /\ j.pending \in BOOLEAN /\ j2.pending \in BOOLEAN
    /\ away \in Seq(Stanzas) /\ home \in Seq(Stanzas) /\ out \in Seq(Stanzas)
    /\ w \in BOOLEAN /\ up \in BOOLEAN /\ c \in BOOLEAN
    /\ Direction(i, j, away, home, w, up, c) /\ Idle(away) /\ Idle(home)
    /\ ContactSent(j, j2, out, c)

(* The contact acts: its item becomes j2 and it sends out.                 *)
LEMMA ContactActs ==
    ASSUME NEW i, NEW j, NEW j2, NEW away, NEW home, NEW out, NEW w, NEW up, NEW c,
           WhenContactActs(i, j, j2, away, home, out, w, up, c)
    PROVE  Direction(i, j2, away, home \o out, w, up, c)
  <1>0. /\ i.ask \in BOOLEAN /\ j.pending \in BOOLEAN /\ j2.pending \in BOOLEAN
        /\ away \in Seq(Stanzas) /\ home \in Seq(Stanzas) /\ out \in Seq(Stanzas)
        /\ w \in BOOLEAN /\ up \in BOOLEAN /\ c \in BOOLEAN
        /\ Direction(i, j, away, home, w, up, c) /\ Idle(away) /\ Idle(home)
        /\ ContactSent(j, j2, out, c)
    BY DEF WhenContactActs
  <1>1. /\ \A x : In(x, home \o out) <=> In(x, home) \/ In(x, out)
        /\ \A r : Hears(home, w, r) /\ Mute(out) => Hears(home \o out, w, r)
        /\ \A r : Tells(out, r) => Hears(home \o out, w, r)
    BY <1>0, StreamFacts
  <1>2. HasTo(i) \in BOOLEAN /\ HasFrom(j) \in BOOLEAN /\ HasFrom(j2) \in BOOLEAN
    BY <1>0 DEF HasTo, HasFrom
  <1>3. Idle(home) => ~In("subscribed", home) /\ ~In("unsubscribed", home)
    BY <1>0 DEF Idle, SubscriptionTypes
  <1>4. Idle(away) => ~In("subscribe", away) /\ ~In("unsubscribe", away)
    BY <1>0 DEF Idle, SubscriptionTypes
  <1>5. Pair(i, j2, away, home \o out)
    BY <1>0, <1>1, <1>2, <1>3, <1>4 DEF Direction, Pair, Wants, SameContact, ContactSent
  <1>6. Seen(i, j2, away, home \o out, w, up, c)
    <2>1. CASE c
      BY <1>0, <1>1, <1>2, <2>1 DEF Direction, Seen, SameContact, ContactSent
    <2>2. CASE ~c
      BY <1>0, <1>1, <1>2, <1>3, <1>4, <2>2 DEF Direction, Seen, Pair, SameContact, Wants, ContactSent
    <2> QED BY <1>0, <2>1, <2>2
  <1> QED BY <1>0, <1>5, <1>6 DEF Direction

(* What the next lemma starts from. *)
WhenContactMoves(i, j, away, home, out, w, up, c, c2) ==
    /\ i.ask \in BOOLEAN /\ j.pending \in BOOLEAN /\ (j.pending => ~HasFrom(j))
    /\ away \in Seq(Stanzas) /\ home \in Seq(Stanzas) /\ out \in Seq(Stanzas)
    /\ w \in BOOLEAN /\ up \in BOOLEAN /\ c \in BOOLEAN /\ c2 \in BOOLEAN
    /\ Direction(i, j, away, home, w, up, c) /\ ~In("subscribed", out)
    /\ ~In("unsubscribed", out)
    /\ (HasFrom(j) => Tells(out, c2) \/ (c2 = c /\ Mute(out)))
    /\ (~HasFrom(j) => Mute(out))

(* The contact comes or goes, and tells whom it serves.                    *)
LEMMA ContactMoves ==
    ASSUME NEW i, NEW j, NEW away, NEW home, NEW out, NEW w, NEW up, NEW c, NEW c2,
           WhenContactMoves(i, j, away, home, out, w, up, c, c2)
    PROVE  Direction(i, j, away, home \o out, w, up, c2)
  <1>0. /\ i.ask \in BOOLEAN /\ j.pending \in BOOLEAN
        /\ (j.pending => ~HasFrom(j)) /\ away \in Seq(Stanzas)
        /\ home \in Seq(Stanzas) /\ out \in Seq(Stanzas) /\ w \in BOOLEAN
        /\ up \in BOOLEAN /\ c \in BOOLEAN /\ c2 \in BOOLEAN
        /\ Direction(i, j, away, home, w, up, c) /\ ~In("subscribed", out)
        /\ ~In("unsubscribed", out)
        /\ (HasFrom(j) => Tells(out, c2) \/ (c2 = c /\ Mute(out)))
        /\ (~HasFrom(j) => Mute(out))
    BY DEF WhenContactMoves
  <1>1. /\ \A x : In(x, home \o out) <=> In(x, home) \/ In(x, out)
        /\ \A r : Hears(home, w, r) /\ Mute(out) => Hears(home \o out, w, r)
        /\ \A r : Tells(out, r) => Hears(home \o out, w, r)
    BY <1>0, StreamFacts
  <1>2. HasTo(i) \in BOOLEAN /\ HasFrom(j) \in BOOLEAN
    BY <1>0 DEF HasTo, HasFrom
  <1>5. Pair(i, j, away, home \o out)
    BY <1>0, <1>1, <1>2 DEF Direction, Pair, Wants
  <1>6. Seen(i, j, away, home \o out, w, up, c2)
    BY <1>0, <1>1, <1>2 DEF Direction, Seen
  <1> QED BY <1>0, <1>5, <1>6 DEF Direction

(* The contact's server takes a stanza from its stream and answers it.     *)
Answered(j, j2, h, out, c) ==
    \/ /\ h = "subscribe" /\ HasFrom(j) /\ SameContact(j, j2)
       /\ In("subscribed", out) /\ ~In("unsubscribed", out) /\ Tells(out, c)
    \/ /\ h = "subscribe" /\ ~HasFrom(j) /\ ~HasFrom(j2) /\ j2.pending
       /\ ~In("subscribed", out) /\ ~In("unsubscribed", out) /\ Tells(out, FALSE)
    \/ /\ h = "unsubscribe" /\ ~HasFrom(j2) /\ ~j2.pending
       /\ ~In("subscribed", out) /\ ~In("unsubscribed", out)
    \/ /\ h = "probe" /\ HasFrom(j) /\ SameContact(j, j2)
       /\ ~In("subscribed", out) /\ ~In("unsubscribed", out) /\ Tells(out, c)
    \/ /\ h = "probe" /\ ~HasFrom(j) /\ ~HasFrom(j2) /\ ~j2.pending
       /\ ~In("subscribed", out) /\ (j.pending => In("unsubscribed", out))
    \/ /\ h \notin {"subscribe", "unsubscribe", "probe"} /\ SameContact(j, j2)
       /\ ~In("subscribed", out) /\ ~In("unsubscribed", out) /\ Mute(out)

(* What the next lemma starts from. *)
WhenContactReads(i, j, j2, away, home, out, w, up, c) ==
    /\ i.ask \in BOOLEAN /\ j.pending \in BOOLEAN /\ j2.pending \in BOOLEAN
    /\ (j.pending => ~HasFrom(j)) /\ away \in Seq(Stanzas)
    /\ home \in Seq(Stanzas) /\ out \in Seq(Stanzas) /\ w \in BOOLEAN
    /\ up \in BOOLEAN /\ c \in BOOLEAN /\ Direction(i, j, away, home, w, up, c)
    /\ away # << >> /\ Answered(j, j2, Head(away), out, c)

(* The contact's server reads a stanza of the subscriber and answers.      *)
LEMMA ContactReads ==
    ASSUME NEW i, NEW j, NEW j2, NEW away, NEW home, NEW out, NEW w, NEW up, NEW c,
           WhenContactReads(i, j, j2, away, home, out, w, up, c)
    PROVE  Direction(i, j2, Tail(away), home \o out, w, up, c)
  <1>0. /\ i.ask \in BOOLEAN /\ j.pending \in BOOLEAN /\ j2.pending \in BOOLEAN
        /\ (j.pending => ~HasFrom(j)) /\ away \in Seq(Stanzas)
        /\ home \in Seq(Stanzas) /\ out \in Seq(Stanzas) /\ w \in BOOLEAN
        /\ up \in BOOLEAN /\ c \in BOOLEAN
        /\ Direction(i, j, away, home, w, up, c) /\ away # << >>
        /\ Answered(j, j2, Head(away), out, c)
    BY DEF WhenContactReads
  <1>1. /\ \A x : In(x, home \o out) <=> In(x, home) \/ In(x, out)
        /\ \A r : Hears(home, w, r) /\ Mute(out) => Hears(home \o out, w, r)
        /\ \A r : Tells(out, r) => Hears(home \o out, w, r)
    BY <1>0, StreamFacts
  <1>2. HasTo(i) \in BOOLEAN /\ HasFrom(j) \in BOOLEAN /\ HasFrom(j2) \in BOOLEAN
    BY <1>0 DEF HasTo, HasFrom
  <1>3. \A x : In(x, away) <=> x = Head(away) \/ In(x, Tail(away))
    BY <1>0, StreamTail
  <1>5. Pair(i, j2, Tail(away), home \o out)
    BY <1>0, <1>1, <1>2, <1>3 DEF Direction, Pair, Wants, SameContact, Answered
  <1>6. Seen(i, j2, Tail(away), home \o out, w, up, c)
    BY <1>0, <1>1, <1>2, <1>3 DEF Direction, Seen, SameContact, Answered
  <1> QED BY <1>0, <1>5, <1>6 DEF Direction

(* The lists of stanzas that the handlers send, when c says that the user  *)
(* is available.                                                           *)
LEMMA OutLists ==
    ASSUME NEW c \in BOOLEAN, NEW p \in BOOLEAN
    PROVE  /\ LET out == <<"subscribed">> \o (IF c THEN <<"available">> ELSE << >>)
                                          \o (IF p THEN <<"probe">> ELSE << >>)
              IN  /\ out \in Seq(Stanzas)
                  /\ In("subscribed", out) /\ ~In("unsubscribed", out) /\ ~In("unsubscribe", out)
                  /\ (c => Tells(out, TRUE)) /\ (~c => Mute(out))
           /\ LET out == <<"unsubscribed">> \o (IF c THEN <<"unavailable">> ELSE << >>)
              IN  /\ out \in Seq(Stanzas)
                  /\ ~In("subscribed", out) /\ In("unsubscribed", out) /\ ~In("unsubscribe", out)
           /\ LET out == IF c THEN <<"available">> ELSE <<"unavailable">>
              IN  /\ out \in Seq(Stanzas) /\ Tells(out, c)
                  /\ ~In("subscribed", out) /\ ~In("unsubscribed", out) /\ ~In("unsubscribe", out)
           /\ LET out == (IF c THEN <<"unsubscribed">> ELSE << >>) \o (IF p THEN <<"unsubscribe">> ELSE << >>)
              IN  /\ out \in Seq(Stanzas) /\ Mute(out)
                  /\ ~In("subscribed", out) /\ (In("unsubscribed", out) <=> c) /\ (In("unsubscribe", out) <=> p)
           /\ LET out == IF c THEN <<"unavailable">> ELSE << >>
              IN  /\ out \in Seq(Stanzas) /\ (c => Tells(out, FALSE)) /\ (~c => Mute(out))
                  /\ ~In("subscribed", out) /\ ~In("unsubscribed", out) /\ ~In("unsubscribe", out)
  <1> DEFINE a == IF c THEN <<"available">> ELSE << >>
             b == IF p THEN <<"probe">> ELSE << >>
             n == IF c THEN <<"unavailable">> ELSE << >>
             x == IF c THEN <<"unsubscribed">> ELSE << >>
             y == IF p THEN <<"unsubscribe">> ELSE << >>
  <1>0. \A z \in {"subscribed", "unsubscribed", "available", "unavailable", "probe", "unsubscribe", "subscribe"} :
           /\ <<z>> \in Seq(Stanzas)
           /\ \A t : In(t, <<z>>) <=> t = z
           /\ z \notin Presences => Mute(<<z>>)
           /\ z \in Presences => Tells(<<z>>, z = "available")
    BY OneStanza DEF Stanzas, SubscriptionTypes
  <1>1. a \in Seq(Stanzas) /\ (\A t : In(t, a) <=> c /\ t = "available") /\ (c => Tells(a, TRUE)) /\ (~c => Mute(a))
    <2>1. "available" \in Presences
      BY DEF Presences
    <2>2. c => Tells(a, "available" = "available")
      BY <1>0, <2>1
    <2> QED BY <1>0, <2>2, OneStanza
  <1>2. b \in Seq(Stanzas) /\ (\A t : In(t, b) <=> p /\ t = "probe") /\ Mute(b)
    BY <1>0, OneStanza DEF Presences
  <1>3. n \in Seq(Stanzas) /\ (\A t : In(t, n) <=> c /\ t = "unavailable") /\ (c => Tells(n, FALSE)) /\ (~c => Mute(n))
    <2>1. "unavailable" \in Presences /\ ("unavailable" = "available") = FALSE
      BY DEF Presences
    <2>2. Tells(<<"unavailable">>, "unavailable" = "available")
      BY <1>0, <2>1
    <2>3. Tells(<<"unavailable">>, FALSE)
      BY ONLY <2>1, <2>2
    <2> QED BY <1>0, <2>3, OneStanza
  <1>4. x \in Seq(Stanzas) /\ (\A t : In(t, x) <=> c /\ t = "unsubscribed") /\ Mute(x)
    BY <1>0, OneStanza DEF Presences
  <1>5. y \in Seq(Stanzas) /\ (\A t : In(t, y) <=> p /\ t = "unsubscribe") /\ Mute(y)
    BY <1>0, OneStanza DEF Presences
  <1>6. /\ <<"subscribed">> \in Seq(Stanzas) /\ (\A t : In(t, <<"subscribed">>) <=> t = "subscribed")
        /\ <<"unsubscribed">> \in Seq(Stanzas) /\ (\A t : In(t, <<"unsubscribed">>) <=> t = "unsubscribed")
        /\ Mute(<<"subscribed">>)
    BY <1>0 DEF Presences
  <1> HIDE DEF a, b, n, x, y
  <1>7. LET out == <<"subscribed">> \o a \o b
        IN  /\ out \in Seq(Stanzas)
            /\ In("subscribed", out) /\ ~In("unsubscribed", out) /\ ~In("unsubscribe", out)
            /\ (c => Tells(out, TRUE)) /\ (~c => Mute(out))
    <2> DEFINE q == <<"subscribed">> \o a
    <2>1. /\ q \in Seq(Stanzas) /\ (\A t : In(t, q) <=> t = "subscribed" \/ In(t, a))
          /\ (c => Tells(q, TRUE)) /\ (~c => Mute(q))
      BY <1>1, <1>6, StreamFacts
    <2> HIDE DEF q
    <2>2. /\ q \o b \in Seq(Stanzas) /\ (\A t : In(t, q \o b) <=> In(t, q) \/ In(t, b))
          /\ (c => Tells(q \o b, TRUE)) /\ (~c => Mute(q \o b))
      BY <1>2, <2>1, StreamFacts
    <2>3. /\ \A t : In(t, a) => t = "available"
          /\ \A t : In(t, b) => t = "probe"
          /\ \A t : In(t, q \o b) <=> t = "subscribed" \/ In(t, a) \/ In(t, b)
      BY ONLY <1>1, <1>2, <2>1, <2>2, Zenon
    <2>4. In("subscribed", q \o b) /\ ~In("unsubscribed", q \o b) /\ ~In("unsubscribe", q \o b)
      BY ONLY <2>3
    <2> QED BY ONLY <2>2, <2>4, Zenon DEF q
  <1>8. LET out == <<"unsubscribed">> \o n
        IN  /\ out \in Seq(Stanzas)
            /\ ~In("subscribed", out) /\ In("unsubscribed", out) /\ ~In("unsubscribe", out)
    <2>1. n \in Seq(Stanzas) /\ \A t : In(t, n) => t = "unavailable"
      BY ONLY <1>3, Zenon
    <2> DEFINE q == <<"unsubscribed">>
    <2>2. q \in Seq(Stanzas) /\ \A t : In(t, q) <=> t = "unsubscribed"
      BY <1>6
    <2> HIDE DEF q
    <2>3. q \o n \in Seq(Stanzas) /\ \A t : In(t, q \o n) <=> t = "unsubscribed" \/ In(t, n)
      BY ONLY <2>1, <2>2, StreamFacts
    <2>4. ~In("subscribed", q \o n) /\ In("unsubscribed", q \o n) /\ ~In("unsubscribe", q \o n)
      BY ONLY <2>1, <2>3
    <2> QED BY ONLY <2>3, <2>4, Zenon DEF q
  <1>9. LET out == IF c THEN <<"available">> ELSE <<"unavailable">>
        IN  /\ out \in Seq(Stanzas) /\ Tells(out, c)
            /\ ~In("subscribed", out) /\ ~In("unsubscribed", out) /\ ~In("unsubscribe", out)
    <2>1. CASE c
      <3>1. a = <<"available">> /\ c = TRUE
        BY <2>1 DEF a
      <3>2. <<"available">> \in Seq(Stanzas) /\ Tells(<<"available">>, c)
        BY ONLY <1>1, <2>1, <3>1
      <3>3. \A t : In(t, <<"available">>) => t = "available"
        BY ONLY <1>1, <3>1, Zenon
      <3>4. ~In("subscribed", a) /\ ~In("unsubscribed", a) /\ ~In("unsubscribe", a)
        BY ONLY <3>1, <3>3
      <3> QED BY <2>1, <3>1, <3>2, <3>4, Zenon
    <2>2. CASE ~c
      <3>1. "unavailable" \in Presences /\ ("unavailable" = "available") = c
        BY <2>2 DEF Presences
      <3>2. Tells(<<"unavailable">>, "unavailable" = "available")
        BY <1>0, <3>1
      <3>3. Tells(<<"unavailable">>, c)
        BY ONLY <3>1, <3>2
      <3> QED BY <1>0, <2>2, <3>3
    <2> QED BY <2>1, <2>2
  <1>10. LET out == x \o y
         IN  /\ out \in Seq(Stanzas) /\ Mute(out)
             /\ ~In("subscribed", out) /\ (In("unsubscribed", out) <=> c) /\ (In("unsubscribe", out) <=> p)
    BY <1>4, <1>5, StreamFacts
  <1>11. LET out == n
         IN  /\ out \in Seq(Stanzas) /\ (c => Tells(out, FALSE)) /\ (~c => Mute(out))
             /\ ~In("subscribed", out) /\ ~In("unsubscribed", out) /\ ~In("unsubscribe", out)
    <2>1. \A t : In(t, n) => t = "unavailable"
      BY ONLY <1>3, Zenon
    <2>2. ~In("subscribed", n) /\ ~In("unsubscribed", n) /\ ~In("unsubscribe", n)
      BY ONLY <2>1
    <2> QED BY ONLY <1>3, <2>2, Zenon
  <1> QED BY <1>7, <1>8, <1>9, <1>10, <1>11 DEF a, b, n, x, y

(* Available presence. *)
LEMMA ArrivalList ==
    ASSUME NEW f \in BOOLEAN, NEW p \in BOOLEAN, NEW q \in BOOLEAN,
           NEW out, out = (IF f THEN <<"available">> ELSE << >>) \o (IF p THEN <<"probe">> ELSE << >>)
                             \o (IF q THEN <<"subscribe">> ELSE << >>)
    PROVE  /\ out \in Seq(Stanzas) /\ (f => Tells(out, TRUE)) /\ (~f => Mute(out))
           /\ ~In("subscribed", out) /\ ~In("unsubscribed", out) /\ ~In("unsubscribe", out)
           /\ (p => In("probe", out)) /\ (q => In("subscribe", out))
  <1> DEFINE a == IF f THEN <<"available">> ELSE << >>
             b == IF p THEN <<"probe">> ELSE << >>
             d == IF q THEN <<"subscribe">> ELSE << >>
  <1>0. \A z \in {"available", "probe", "subscribe"} :
           /\ <<z>> \in Seq(Stanzas)
           /\ \A t : In(t, <<z>>) <=> t = z
           /\ z \notin Presences => Mute(<<z>>)
           /\ z \in Presences => Tells(<<z>>, z = "available")
    BY OneStanza DEF Stanzas, SubscriptionTypes
  <1>1. a \in Seq(Stanzas) /\ (\A t : In(t, a) <=> f /\ t = "available") /\ (f => Tells(a, TRUE)) /\ (~f => Mute(a))
    <2>1. "available" \in Presences
      BY DEF Presences
    <2>2. f => Tells(a, "available" = "available")
      BY <1>0, <2>1
    <2> QED BY <1>0, <2>2, OneStanza
  <1>2. b \in Seq(Stanzas) /\ (\A t : In(t, b) <=> p /\ t = "probe") /\ Mute(b)
    BY <1>0, OneStanza DEF Presences
  <1>3. d \in Seq(Stanzas) /\ (\A t : In(t, d) <=> q /\ t = "subscribe") /\ Mute(d)
    BY <1>0, OneStanza DEF Presences
  <1>4. out = a \o b \o d
    BY Zenon
  <1> HIDE DEF a, b, d
  <1> DEFINE g == a \o b
  <1>5. /\ g \in Seq(Stanzas) /\ (\A t : In(t, g) <=> In(t, a) \/ In(t, b))
        /\ (f => Tells(g, TRUE)) /\ (~f => Mute(g))
    BY <1>1, <1>2, StreamFacts
  <1>6. out = g \o d
    BY <1>4
  <1> HIDE DEF g
  <1>7. /\ g \o d \in Seq(Stanzas) /\ (\A t : In(t, g \o d) <=> In(t, g) \/ In(t, d))
        /\ (f => Tells(g \o d, TRUE)) /\ (~f => Mute(g \o d))
    BY <1>3, <1>5, StreamFacts
  <1>8. /\ \A t : In(t, a) => t = "available"
        /\ \A t : In(t, b) => t = "probe"
        /\ \A t : In(t, d) => t = "subscribe"
        /\ \A t : In(t, g \o d) <=> In(t, a) \/ In(t, b) \/ In(t, d)
        /\ p => In("probe", b)
        /\ q => In("subscribe", d)
    BY ONLY <1>1, <1>2, <1>3, <1>5, <1>7, Zenon
  <1>9. /\ ~In("subscribed", g \o d) /\ ~In("unsubscribed", g \o d) /\ ~In("unsubscribe", g \o d)
    BY ONLY <1>8
  <1>10. (p => In("probe", g \o d)) /\ (q => In("subscribe", g \o d))
    BY ONLY <1>8, Zenon
  <1> QED BY ONLY <1>6, <1>7, <1>9, <1>10, Zenon

(* The item and the stanzas of an effect. *)
LEMMA EffectIs ==
    \A e, i, out : (\E saves, pushes : e = Effect(i, saves, pushes, out)) => e.item = i /\ e.out = out
  BY DEF Effect

(* Between two servers, with an account and a store that works.            *)
LEMMA RemoteFacts ==
    ASSUME Link # "local", NEW u, exists[u] = TRUE
    PROVE  /\ Saved(u, TRUE)
           /\ \A i : is_contact_subscribed(u, i) = HasFrom(i)
           /\ \A i : is_user_subscribed(u, i) = HasTo(i)
           /\ \A i : Kept(u, i, TRUE) = i
  BY DEF Saved, is_contact_subscribed, is_user_subscribed, Kept, ContactIsOnlineHere

(* The two answers, sent by the user or on the user's behalf.              *)
LEMMA SubscribedOut ==
    ASSUME Link # "local", NEW u, exists[u] = TRUE, NEW i, NEW e, e = outbound_subscribed(u, i, TRUE)
    PROVE  /\ e.item = subscribed(i) /\ e.out \in Seq(Stanzas)
           /\ In("subscribed", e.out) /\ ~In("unsubscribed", e.out) /\ ~In("unsubscribe", e.out)
           /\ client[u] = "available" => Tells(e.out, TRUE)
           /\ client[u] # "available" => Mute(e.out)
  <1>1. PICK c \in BOOLEAN : c = (client[u] = "available")
    OBVIOUS
  <1>2. PICK p \in BOOLEAN : p = is_user_subscribed(u, Kept(u, subscribed(i), TRUE))
    <2>1. PICK k : k = Kept(u, subscribed(i), TRUE)
      OBVIOUS
    <2>2. HasTo(k) \in BOOLEAN
      BY DEF HasTo
    <2>3. is_user_subscribed(u, k) = HasTo(k)
      BY ONLY Link # "local", exists[u] = TRUE, RemoteFacts, Zenon
    <2> QED BY <2>1, <2>2, <2>3
  <1> DEFINE out == <<"subscribed">> \o (IF c THEN <<"available">> ELSE << >>)
                                     \o (IF p THEN <<"probe">> ELSE << >>)
  <1>3. \E saves, pushes : e = Effect(subscribed(i), saves, pushes, out)
    BY <1>1, <1>2, Zenon DEF outbound_subscribed, send_presence_of_available_resources
  <1>4. e.item = subscribed(i) /\ e.out = out
    BY ONLY <1>3, EffectIs
  <1>5. /\ out \in Seq(Stanzas)
        /\ In("subscribed", out) /\ ~In("unsubscribed", out) /\ ~In("unsubscribe", out)
        /\ (c => Tells(out, TRUE)) /\ (~c => Mute(out))
    BY OutLists, Zenon
  <1> HIDE DEF out
  <1> QED BY ONLY <1>1, <1>4, <1>5, Zenon

(* The same for a denial or a cancellation.                                *)
LEMMA UnsubscribedOut ==
    ASSUME Link # "local", NEW u, exists[u] = TRUE, NEW i \in Item, ItemWellFormed(i),
           NEW e, e = outbound_unsubscribed(u, i, TRUE)
    PROVE  /\ e.item = unsubscribed(i) /\ e.out \in Seq(Stanzas)
           /\ ~In("subscribed", e.out) /\ ~In("unsubscribe", e.out)
           /\ HasFrom(i) \/ i.pending => In("unsubscribed", e.out)
           /\ ~(HasFrom(i) \/ i.pending) => e.out = << >>
  <1>1. PICK c \in BOOLEAN : c = (HasFrom(i) /\ client[u] = "available")
    OBVIOUS
  <1>2. unsubscribed(i) # i <=> HasFrom(i) \/ i.pending
    BY OperationHalves
  <1>3. e.item = unsubscribed(i)
    <2>1. \E out : \E saves, pushes : e = Effect(unsubscribed(i), saves, pushes, out)
      BY Zenon DEF outbound_unsubscribed
    <2> QED BY ONLY <2>1, EffectIs
  <1>4. CASE unsubscribed(i) # i
    <2> DEFINE out == <<"unsubscribed">> \o (IF c THEN <<"unavailable">> ELSE << >>)
    <2>1. \E saves, pushes : e = Effect(unsubscribed(i), saves, pushes, out)
      BY <1>1, <1>4, RemoteFacts, Zenon DEF outbound_unsubscribed
    <2>2. e.out = out
      BY ONLY <2>1, EffectIs
    <2>3. /\ out \in Seq(Stanzas)
          /\ ~In("subscribed", out) /\ In("unsubscribed", out) /\ ~In("unsubscribe", out)
      BY OutLists, Zenon
    <2> HIDE DEF out
    <2> QED BY ONLY <1>2, <1>3, <1>4, <2>2, <2>3, Zenon
  <1>5. CASE unsubscribed(i) = i
    <2>1. \E saves, pushes : e = Effect(unsubscribed(i), saves, pushes, << >>)
      BY <1>5, Zenon DEF outbound_unsubscribed
    <2>2. e.out = << >>
      BY ONLY <2>1, EffectIs
    <2>3. << >> \in Seq(Stanzas) /\ \A x : ~In(x, << >>)
      BY OneStanza
    <2> QED BY <1>2, <1>3, <1>5, <2>2, <2>3
  <1> QED BY <1>4, <1>5

(* What the inbound handler answers to a stanza (mod_presence.lua:218-318). *)
LEMMA InboundAnswers ==
    ASSUME Link # "local", NEW u, exists[u] = TRUE, NEW i \in Item, ItemWellFormed(i), roster[u] = i,
           NEW type \in SubscriptionTypes \cup {"probe"},
           NEW e, e = handle_inbound_presence_subscriptions_and_probes(u, type, TRUE),
           NEW c \in BOOLEAN, c = (client[u] = "available")
    PROVE  /\ e.out \in Seq(Stanzas) /\ ~In("unsubscribe", e.out)
           /\ OwnRead(i, e.item, type)
           /\ Answered(i, e.item, type, e.out, c)
  <1>1. Mute(<< >>) /\ << >> \in Seq(Stanzas) /\ \A x : ~In(x, << >>)
    BY OneStanza
  <1>2. CASE type = "probe"
    <2>1. e = inbound_probe(u, i, TRUE)
      BY <1>2, Zenon DEF handle_inbound_presence_subscriptions_and_probes
    <2>2. CASE HasFrom(i)
      <3> DEFINE out == IF c THEN <<"available">> ELSE <<"unavailable">>
      <3>1. \E saves, pushes : e = Effect(i, saves, pushes, out)
        BY <2>1, <2>2, RemoteFacts, Zenon DEF inbound_probe, PresenceOrUnavailable
      <3>2. e.item = i /\ e.out = out
        BY ONLY <3>1, EffectIs
      <3>3. /\ out \in Seq(Stanzas) /\ Tells(out, c)
            /\ ~In("subscribed", out) /\ ~In("unsubscribed", out) /\ ~In("unsubscribe", out)
        BY OutLists, Zenon
      <3> HIDE DEF out
      <3>4. SameOwn(i, i) /\ SameContact(i, i)
        BY DEF SameOwn, SameContact
      <3>5. type \notin {"subscribed", "unsubscribed"}
        BY <1>2
      <3> QED BY ONLY <1>2, <2>2, <3>2, <3>3, <3>4, <3>5, Zenon DEF OwnRead, Answered
    <2>3. CASE ~HasFrom(i)
      <3>1. e = outbound_unsubscribed(u, i, TRUE)
        BY <2>1, <2>3, RemoteFacts DEF inbound_probe
      <3>2. /\ e.item = unsubscribed(i) /\ e.out \in Seq(Stanzas)
            /\ ~In("subscribed", e.out) /\ ~In("unsubscribe", e.out)
            /\ i.pending => In("unsubscribed", e.out)
        BY <3>1, UnsubscribedOut
      <3>3. SameOwn(i, unsubscribed(i)) /\ ~unsubscribed(i).pending /\ ~HasFrom(unsubscribed(i))
        BY OperationHalves
      <3>5. type \notin {"subscribed", "unsubscribed"}
        BY <1>2
      <3> QED BY ONLY <1>2, <2>3, <3>2, <3>3, <3>5, Zenon DEF OwnRead, Answered
    <2> QED BY <2>2, <2>3
  <1>3. CASE type = "subscribe"
    <2>0. type \notin {"subscribed", "unsubscribed"}
      BY <1>3
    <2>1. e = inbound_subscribe(u, i, TRUE)
      BY <1>3, Zenon DEF handle_inbound_presence_subscriptions_and_probes
    <2>2. CASE HasFrom(i)
      <3>1. PICK f : f = outbound_subscribed(u, i, TRUE)
        OBVIOUS
      <3>2. /\ f.item = subscribed(i) /\ f.out \in Seq(Stanzas)
            /\ In("subscribed", f.out) /\ ~In("unsubscribed", f.out) /\ ~In("unsubscribe", f.out)
        BY <3>1, SubscribedOut
      <3> DEFINE p == IF c THEN <<"available">> ELSE <<"unavailable">>
      <3>3. /\ p \in Seq(Stanzas) /\ Tells(p, c)
            /\ ~In("subscribed", p) /\ ~In("unsubscribed", p) /\ ~In("unsubscribe", p)
        BY OutLists, Zenon
      <3>4. e = [f EXCEPT !.out = f.out \o p]
        BY <2>1, <2>2, <3>1, RemoteFacts DEF inbound_subscribe, PresenceOrUnavailable
      <3> HIDE DEF p
      <3>5. \E saves, pushes, out : f = Effect(subscribed(i), saves, pushes, out)
        BY <3>1, Zenon DEF outbound_subscribed
      <3>6. e.item = f.item /\ e.out = f.out \o p
        BY <3>4, <3>5 DEF Effect
      <3>7. /\ f.out \o p \in Seq(Stanzas) /\ Tells(f.out \o p, c)
            /\ In("subscribed", f.out \o p) /\ ~In("unsubscribed", f.out \o p) /\ ~In("unsubscribe", f.out \o p)
        BY ONLY <3>2, <3>3, StreamFacts, Zenon
      <3>8. SameOwn(i, subscribed(i)) /\ SameContact(i, subscribed(i))
        <4>1. ~i.pending /\ i.pending \in BOOLEAN
          BY <2>2 DEF ItemWellFormed, Item
        <4>2. subscribed(i) = i
          BY <4>1 DEF subscribed
        <4> QED BY <4>2 DEF SameOwn, SameContact
      <3> QED BY ONLY <1>3, <2>0, <2>2, <3>2, <3>6, <3>7, <3>8, Zenon DEF OwnRead, Answered
    <2>3. CASE ~HasFrom(i)
      <3> DEFINE new == set_contact_pending_in(i)
                 out == <<"unavailable">>
      <3>1. \E saves, pushes : e = Effect(new, saves, pushes, out)
        BY <2>1, <2>3, RemoteFacts, Zenon DEF inbound_subscribe
      <3>2. e.item = new /\ e.out = out
        BY ONLY <3>1, EffectIs
      <3>3. SameOwn(i, new) /\ new.pending /\ ~HasFrom(new)
        BY <2>3, OperationHalves
      <3>4. /\ out \in Seq(Stanzas) /\ Tells(out, FALSE)
            /\ ~In("subscribed", out) /\ ~In("unsubscribed", out) /\ ~In("unsubscribe", out)
        <4>1. FALSE \in BOOLEAN
          OBVIOUS
        <4> QED BY ONLY <4>1, OutLists, Zenon
      <3> HIDE DEF new, out
      <3> QED BY ONLY <1>3, <2>0, <2>3, <3>2, <3>3, <3>4, Zenon DEF OwnRead, Answered
    <2> QED BY <2>2, <2>3
  <1>4. ASSUME NEW new, e = Inbound(u, TRUE, new) PROVE e.item = new /\ e.out = << >>
    <2>1. \E saves, pushes : e = Effect(new, saves, pushes, << >>)
      BY <1>4, Zenon DEF Inbound
    <2> QED BY ONLY <2>1, EffectIs
  <1>5. CASE type = "unsubscribe"
    <2>0. PICK new : new = process_inbound_unsubscribe(i)
      OBVIOUS
    <2>1. e = Inbound(u, TRUE, new)
      BY <1>5, <2>0, Zenon DEF handle_inbound_presence_subscriptions_and_probes
    <2>2. e.item = new /\ e.out = << >>
      BY <1>4, <2>1
    <2>3. SameOwn(i, new) /\ ~new.pending /\ ~HasFrom(new)
      BY <2>0, OperationHalves
    <2>4. type \notin {"subscribed", "unsubscribed"}
      BY <1>5
    <2> QED BY ONLY <1>1, <1>5, <2>2, <2>3, <2>4, Zenon DEF OwnRead, Answered
  <1>6. CASE type = "subscribed"
    <2>0. PICK new : new = process_inbound_subscription_approval(i)
      OBVIOUS
    <2>1. e = Inbound(u, TRUE, new)
      BY <1>6, <2>0, Zenon DEF handle_inbound_presence_subscriptions_and_probes
    <2>2. e.item = new /\ e.out = << >>
      BY <1>4, <2>1
    <2>3. SameContact(i, new) /\ ~new.ask /\ (HasTo(new) <=> HasTo(i) \/ i.ask)
      BY <2>0, OperationHalves
    <2>4. type \notin {"subscribe", "unsubscribe", "probe"}
      BY <1>6
    <2> QED BY ONLY <1>1, <1>6, <2>2, <2>3, <2>4, Zenon DEF OwnRead, Answered
  <1>7. CASE type = "unsubscribed"
    <2>0. PICK new : new = process_inbound_subscription_cancellation(i)
      OBVIOUS
    <2>1. e = Inbound(u, TRUE, new)
      BY <1>7, <2>0, Zenon DEF handle_inbound_presence_subscriptions_and_probes
    <2>2. e.item = new /\ e.out = << >>
      BY <1>4, <2>1
    <2>3. SameContact(i, new) /\ ~Wants(new)
      BY <2>0, OperationHalves DEF Wants
    <2>4. type \notin {"subscribe", "unsubscribe", "probe"}
      BY <1>7
    <2> QED BY ONLY <1>1, <1>7, <2>2, <2>3, <2>4, Zenon DEF OwnRead, Answered
  <1> QED BY <1>2, <1>3, <1>5, <1>6, <1>7 DEF SubscriptionTypes

(* The outbound handler does so for each stanza of a client. *)
LEMMA OutboundSends ==
    ASSUME Link # "local", NEW u, exists[u] = TRUE, NEW i \in Item, ItemWellFormed(i),
           NEW type \in SubscriptionTypes,
           NEW e, e = handle_outbound_presence_subscriptions_and_probes(u, type, i, TRUE),
           NEW c \in BOOLEAN, c = (client[u] = "available")
    PROVE  /\ e.out \in Seq(Stanzas)
           /\ OwnSent(i, e.item, e.out)
           /\ ContactSent(i, e.item, e.out, c)
  <1>1. ASSUME NEW z \in {"subscribe", "unsubscribe"}
        PROVE  /\ <<z>> \in Seq(Stanzas) /\ In(z, <<z>>) /\ Mute(<<z>>)
               /\ ~In("subscribed", <<z>>) /\ ~In("unsubscribed", <<z>>)
               /\ z = "subscribe" => ~In("unsubscribe", <<z>>)
    <2>1. z \in Stanzas /\ z \notin Presences
      BY DEF Stanzas, SubscriptionTypes, Presences
    <2>2. <<z>> \in Seq(Stanzas) /\ Mute(<<z>>) /\ \A x : In(x, <<z>>) <=> x = z
      BY <2>1, OneStanza
    <2> QED BY <2>2
  <1>2. CASE type = "subscribe"
    <2> DEFINE new == set_contact_pending_out(i)
               out == <<"subscribe">>
    <2>1. \E saves, pushes : e = Effect(new, saves, pushes, out)
      BY <1>2, Zenon DEF handle_outbound_presence_subscriptions_and_probes, outbound_subscribe
    <2>2. e.item = new /\ e.out = out
      BY ONLY <2>1, EffectIs
    <2>3. SameContact(i, new) /\ HasTo(new) = HasTo(i)
      BY OperationHalves
    <2>4. /\ out \in Seq(Stanzas) /\ In("subscribe", out) /\ Mute(out)
          /\ ~In("subscribed", out) /\ ~In("unsubscribed", out) /\ ~In("unsubscribe", out)
      BY <1>1
    <2> HIDE DEF new, out
    <2> QED BY ONLY <2>2, <2>3, <2>4, Zenon DEF OwnSent, ContactSent
  <1>3. CASE type = "unsubscribe"
    <2> DEFINE new == unsubscribe(i)
               out == <<"unsubscribe">>
    <2>1. \E saves, pushes : e = Effect(new, saves, pushes, out)
      BY <1>3, Zenon DEF handle_outbound_presence_subscriptions_and_probes, outbound_unsubscribe
    <2>2. e.item = new /\ e.out = out
      BY ONLY <2>1, EffectIs
    <2>3. SameContact(i, new) /\ ~Wants(new)
      BY OperationHalves DEF Wants
    <2>4. /\ out \in Seq(Stanzas) /\ Mute(out)
          /\ ~In("subscribed", out) /\ ~In("unsubscribed", out)
      BY <1>1
    <2> HIDE DEF new, out
    <2> QED BY ONLY <2>2, <2>3, <2>4, Zenon DEF OwnSent, ContactSent
  <1>4. CASE type = "subscribed"
    <2>1. e = outbound_subscribed(u, i, TRUE)
      BY <1>4, Zenon DEF handle_outbound_presence_subscriptions_and_probes
    <2>2. /\ e.item = subscribed(i) /\ e.out \in Seq(Stanzas)
          /\ In("subscribed", e.out) /\ ~In("unsubscribed", e.out) /\ ~In("unsubscribe", e.out)
          /\ (c => Tells(e.out, TRUE)) /\ (~c => Mute(e.out))
      BY ONLY <2>1, SubscribedOut, Link # "local", exists[u] = TRUE, c = (client[u] = "available"), Zenon
    <2>3. SameOwn(i, subscribed(i)) /\ ~subscribed(i).pending
          /\ (HasFrom(subscribed(i)) <=> HasFrom(i) \/ i.pending)
      BY OperationHalves
    <2> QED BY ONLY <2>2, <2>3, Zenon DEF OwnSent, ContactSent
  <1>5. CASE type = "unsubscribed"
    <2>1. e = outbound_unsubscribed(u, i, TRUE)
      BY <1>5, Zenon DEF handle_outbound_presence_subscriptions_and_probes
    <2>2. /\ e.item = unsubscribed(i) /\ e.out \in Seq(Stanzas)
          /\ ~In("subscribed", e.out) /\ ~In("unsubscribe", e.out)
          /\ HasFrom(i) \/ i.pending => In("unsubscribed", e.out)
      BY <2>1, UnsubscribedOut
    <2>3. SameOwn(i, unsubscribed(i)) /\ ~unsubscribed(i).pending /\ ~HasFrom(unsubscribed(i))
      BY OperationHalves
    <2> QED BY ONLY <2>2, <2>3, Zenon DEF OwnSent, ContactSent
  <1> QED BY <1>2, <1>3, <1>4, <1>5 DEF SubscriptionTypes

(* The subscription of u to the other user. *)
DirectionOf(u) ==
    Direction(roster[u], roster[Other(u)], net[Other(u)], net[u], sees[u],
              client[u] = "available", client[Other(u)] = "available")

Directions == \A u \in Users : DirectionOf(u)

(* The inductive invariant. *)
PairInv == CopyInv /\ (BothExist => Directions)

(* There are two users. *)
LEMMA TwoUsers ==
    ASSUME NEW w \in Users, NEW v, v = Other(w)
    PROVE  v \in Users /\ v # w /\ Other(v) = w /\ \A u \in Users : u = w \/ u = v
  <1>1. v \in Users /\ v # w
    BY OtherUser
  <1>2. \A u \in Users : u = w \/ u = v
    BY <1>1, UsersAssumption
  <1>3. Other(v) \in Users /\ Other(v) # v
    BY <1>1, OtherUser
  <1> QED BY <1>1, <1>2, <1>3

(* What a step of w finds. *)
Found(w, v, cw, cv) ==
    /\ roster[w] \in Item /\ roster[v] \in Item
    /\ ItemWellFormed(roster[w]) /\ ItemWellFormed(roster[v])
    /\ net[w] \in Seq(Stanzas) /\ net[v] \in Seq(Stanzas)
    /\ sees[w] \in BOOLEAN /\ sees[v] \in BOOLEAN
    /\ exists[w] = TRUE /\ exists[v] = TRUE
    /\ roster[w].ask \in BOOLEAN /\ roster[v].ask \in BOOLEAN
    /\ roster[w].pending \in BOOLEAN /\ roster[v].pending \in BOOLEAN
    /\ roster[w].pending => ~HasFrom(roster[w])
    /\ Direction(roster[w], roster[v], net[v], net[w], sees[w], cw, cv)
    /\ Direction(roster[v], roster[w], net[w], net[v], sees[v], cv, cw)

(* The invariant says all of it. *)
LEMMA PairFacts ==
    ASSUME PairInv, BothExist, NEW w \in Users, NEW v, v = Other(w),
           NEW cw, cw = (client[w] = "available"), NEW cv, cv = (client[v] = "available")
    PROVE  Found(w, v, cw, cv)
  <1>1. v \in Users /\ Other(v) = w
    BY TwoUsers
  <1>2. /\ roster \in [Users -> Item] /\ exists \in [Users -> BOOLEAN]
        /\ net \in [Users -> Seq(Stanzas)] /\ sees \in [Users -> BOOLEAN]
        /\ WellFormed
    BY DEF PairInv, CopyInv, ItemsSound, TypeOK
  <1>3. /\ roster[w] \in Item /\ roster[v] \in Item
        /\ ItemWellFormed(roster[w]) /\ ItemWellFormed(roster[v])
    BY <1>1, <1>2 DEF WellFormed
  <1>4. /\ net[w] \in Seq(Stanzas) /\ net[v] \in Seq(Stanzas)
        /\ sees[w] \in BOOLEAN /\ sees[v] \in BOOLEAN
    BY <1>1, <1>2
  <1>5. exists[w] = TRUE /\ exists[v] = TRUE
    BY <1>1, <1>2 DEF BothExist
  <1>6. /\ roster[w].ask \in BOOLEAN /\ roster[v].ask \in BOOLEAN
        /\ roster[w].pending \in BOOLEAN /\ roster[v].pending \in BOOLEAN
    BY <1>3 DEF Item
  <1>7. roster[w].pending => ~HasFrom(roster[w])
    BY <1>3 DEF ItemWellFormed
  <1>8. DirectionOf(w) /\ DirectionOf(v)
    BY <1>1 DEF PairInv, Directions
  <1>9. Direction(roster[w], roster[v], net[v], net[w], sees[w], cw, cv)
    BY ONLY <1>8, v = Other(w), cw = (client[w] = "available"), cv = (client[v] = "available"), Zenon
       DEF DirectionOf
  <1>10. Direction(roster[v], roster[w], net[w], net[v], sees[v], cv, cw)
    BY ONLY <1>1, <1>8, cw = (client[w] = "available"), cv = (client[v] = "available"), Zenon
       DEF DirectionOf
  <1> QED BY <1>3, <1>4, <1>5, <1>6, <1>7, <1>9, <1>10, Zenon DEF Found

(* What it leaves. *)
LEMMA PairKept ==
    ASSUME NEW w \in Users, NEW v, v = Other(w), NEW i, NEW s, NEW g, NEW b, NEW cw, NEW cv,
           roster'[w] = i, roster'[v] = roster[v], net'[w] = s, net'[v] = g,
           sees'[w] = b, sees'[v] = sees[v],
           cw = (client'[w] = "available"), cv = (client'[v] = "available"),
           Direction(i, roster[v], g, s, b, cw, cv),
           Direction(roster[v], i, s, g, sees[v], cv, cw)
    PROVE  Directions'
  <1>1. v \in Users /\ Other(v) = w /\ \A u \in Users : u = w \/ u = v
    BY TwoUsers
  <1>2. Direction(roster'[w], roster'[v], net'[v], net'[w], sees'[w],
                  client'[w] = "available", client'[v] = "available")
    BY Zenon
  <1>3. Direction(roster'[v], roster'[w], net'[w], net'[v], sees'[v],
                  client'[v] = "available", client'[w] = "available")
    BY Zenon
  <1>4. Direction(roster[w], roster[Other(w)], net[Other(w)], net[w], sees[w],
                  client[w] = "available", client[Other(w)] = "available")'
    BY <1>2
  <1>5. Direction(roster[v], roster[Other(v)], net[Other(v)], net[v], sees[v],
                  client[v] = "available", client[Other(v)] = "available")'
    BY <1>1, <1>3
  <1>6. DirectionOf(w)' /\ DirectionOf(v)'
    BY <1>4, <1>5 DEF DirectionOf
  <1> QED BY <1>1, <1>6 DEF Directions

(* Nothing that the invariant is about changes. *)
LEMMA StillKept ==
    ASSUME PairInv, BothExist, NEW w \in Users, roster' = roster, net' = net, sees' = sees,
           \A u \in Users : (client'[u] = "available") <=> (client[u] = "available")
    PROVE  Directions'
  <1>1. PICK v : v = Other(w)
    OBVIOUS
  <1>2. PICK cw \in BOOLEAN, cv \in BOOLEAN : cw = (client[w] = "available") /\ cv = (client[v] = "available")
    OBVIOUS
  <1>3. v \in Users
    BY <1>1, TwoUsers
  <1>4. Found(w, v, cw, cv)
    BY <1>1, <1>2, PairFacts
  <1>5. cw = (client'[w] = "available") /\ cv = (client'[v] = "available")
    BY <1>2, <1>3
  <1>6. /\ Direction(roster[w], roster[v], net[v], net[w], sees[w], cw, cv)
        /\ Direction(roster[v], roster[w], net[w], net[v], sees[v], cv, cw)
    BY <1>4 DEF Found
  <1> QED BY <1>1, <1>5, <1>6, PairKept

(* A client changes its subscriptions while none of their stanzas is on    *)
(* its way.                                                                *)
Acts(w, v, i, out, cw) ==
    /\ v = Other(w) /\ i.ask \in BOOLEAN /\ i.pending \in BOOLEAN /\ out \in Seq(Stanzas)
    /\ Idle(net[w]) /\ Idle(net[v])
    /\ cw \in BOOLEAN /\ cw = (client[w] = "available")
    /\ OwnSent(roster[w], i, out) /\ ContactSent(roster[w], i, out, cw)
    /\ roster'[w] = i /\ roster'[v] = roster[v] /\ net'[w] = net[w] /\ net'[v] = net[v] \o out
    /\ sees' = sees /\ client' = client

(* Both directions survive it. *)
LEMMA ActsKept ==
    ASSUME PairInv, BothExist, NEW w \in Users, NEW v, NEW i, NEW out, NEW cw, Acts(w, v, i, out, cw)
    PROVE  Directions'
  <1> USE DEF Acts
  <1>2. PICK cv \in BOOLEAN : cv = (client[v] = "available")
    OBVIOUS
  <1>4. Found(w, v, cw, cv)
    BY <1>2, PairFacts
  <1>5. Direction(i, roster[v], net[v] \o out, net[w], sees[w], cw, cv)
    <2>1. WhenSubscriberActs(roster[w], i, roster[v], net[v], net[w], out, sees[w], cw, cv)
      BY <1>4 DEF Found, WhenSubscriberActs
    <2> QED BY ONLY <2>1, SubscriberActs, Zenon
  <1>6. Direction(roster[v], i, net[w], net[v] \o out, sees[v], cv, cw)
    <2>1. WhenContactActs(roster[v], roster[w], i, net[w], net[v], out, sees[v], cv, cw)
      BY <1>4 DEF Found, WhenContactActs
    <2> QED BY ONLY <2>1, ContactActs, Zenon
  <1>7. cw = (client'[w] = "available") /\ cv = (client'[v] = "available")
    BY <1>2
  <1> QED BY <1>5, <1>6, <1>7, PairKept

(* A server takes a stanza of the subscription from its stream.            *)
Reads(w, v, i, out, cw) ==
    /\ v = Other(w) /\ i.ask \in BOOLEAN /\ i.pending \in BOOLEAN /\ out \in Seq(Stanzas)
    /\ net[w] # << >> /\ Head(net[w]) \notin Presences /\ ~In("unsubscribe", out)
    /\ cw \in BOOLEAN /\ cw = (client[w] = "available")
    /\ OwnRead(roster[w], i, Head(net[w])) /\ Answered(roster[w], i, Head(net[w]), out, cw)
    /\ roster'[w] = i /\ roster'[v] = roster[v] /\ net'[w] = Tail(net[w]) /\ net'[v] = net[v] \o out
    /\ sees' = sees /\ client' = client

(* Both directions survive it. *)
LEMMA ReadsKept ==
    ASSUME PairInv, BothExist, NEW w \in Users, NEW v, NEW i, NEW out, NEW cw, Reads(w, v, i, out, cw)
    PROVE  Directions'
  <1> USE DEF Reads
  <1>2. PICK cv \in BOOLEAN : cv = (client[v] = "available")
    OBVIOUS
  <1>4. Found(w, v, cw, cv)
    BY <1>2, PairFacts
  <1>5. Direction(i, roster[v], net[v] \o out, Tail(net[w]), sees[w], cw, cv)
    <2>1. WhenSubscriberReads(roster[w], i, roster[v], net[v], net[w], out, sees[w], cw, cv)
      BY <1>4 DEF Found, WhenSubscriberReads
    <2> QED BY ONLY <2>1, SubscriberReads, Zenon
  <1>6. Direction(roster[v], i, Tail(net[w]), net[v] \o out, sees[v], cv, cw)
    <2>1. WhenContactReads(roster[v], roster[w], i, net[w], net[v], out, sees[v], cv, cw)
      BY <1>4 DEF Found, WhenContactReads
    <2> QED BY ONLY <2>1, ContactReads, Zenon
  <1>7. cw = (client'[w] = "available") /\ cv = (client'[v] = "available")
    BY <1>2
  <1> QED BY <1>5, <1>6, <1>7, PairKept

(* What Sends does to the streams. *)
LEMMA SendsFacts ==
    ASSUME TypeOK, NEW w \in Users, NEW v, v = Other(w), NEW out, Sends(w, out)
    PROVE  net'[w] = net[w] /\ net'[v] = net[v] \o out
  <1>1. v \in Users /\ v # w
    BY TwoUsers
  <1> QED BY <1>1 DEF Sends, TypeOK

(* The session ends or becomes unavailable. *)
LEMMA LeavesKept ==
    ASSUME PairInv, BothExist, NEW w \in Users, Sends(w, UnavailableStanzas(w)),
           roster' = roster, client' = [client EXCEPT ![w] = "off"] \/ client' = [client EXCEPT ![w] = "bound"],
           sees' = [sees EXCEPT ![w] = FALSE]
    PROVE  Directions'
  <1>1. PICK v : v = Other(w)
    OBVIOUS
  <1>2. PICK cw \in BOOLEAN, cv \in BOOLEAN : cw = (client[w] = "available") /\ cv = (client[v] = "available")
    OBVIOUS
  <1>3. v \in Users /\ v # w
    BY <1>1, TwoUsers
  <1>4. Found(w, v, cw, cv)
    BY <1>1, <1>2, PairFacts
  <1>5. TypeOK
    BY DEF PairInv, CopyInv, ItemsSound
  <1>6. PICK out : out = UnavailableStanzas(w)
    OBVIOUS
  <1>7. net'[w] = net[w] /\ net'[v] = net[v] \o out
    <2>1. Sends(w, out)
      BY <1>6
    <2> QED BY ONLY <1>1, <1>5, <2>1, w \in Users, SendsFacts
  <1>a. PICK no \in BOOLEAN : no = FALSE
    OBVIOUS
  <1>8. sees'[w] = no /\ sees'[v] = sees[v]
    BY <1>a, <1>3, <1>5 DEF TypeOK
  <1>9. no = (client'[w] = "available") /\ cv = (client'[v] = "available")
    BY <1>a, <1>2, <1>3, <1>5 DEF TypeOK
  <1>10. PICK f \in BOOLEAN : f = (cw /\ HasFrom(roster[w]))
    BY DEF HasFrom
  <1>11. /\ out \in Seq(Stanzas) /\ (f => Tells(out, FALSE)) /\ (~f => Mute(out))
         /\ ~In("subscribed", out) /\ ~In("unsubscribed", out) /\ ~In("unsubscribe", out)
    <2>1. out = IF f THEN <<"unavailable">> ELSE << >>
      BY <1>2, <1>6, <1>10 DEF UnavailableStanzas
    <2> QED BY ONLY <2>1, f \in BOOLEAN, OutLists, Zenon
  <1>12. Direction(roster[w], roster[v], net[v] \o out, net[w], no, no, cv)
    <2>1. WhenSubscriberLeaves(roster[w], roster[v], net[v], net[w], out, sees[w], cw, cv, no)
      BY <1>4, <1>11, <1>a DEF Found, WhenSubscriberLeaves
    <2> QED BY ONLY <2>1, SubscriberLeaves, Zenon
  <1>13. Direction(roster[v], roster[w], net[w], net[v] \o out, sees[v], cv, no)
    <2>1. no \in BOOLEAN
      OBVIOUS
    <2>2. HasFrom(roster[w]) => Tells(out, no) \/ (no = cw /\ Mute(out))
      BY ONLY <1>a, <1>10, <1>11, cw \in BOOLEAN
    <2>3. ~HasFrom(roster[w]) => Mute(out)
      BY ONLY <1>10, <1>11, Zenon
    <2>4. WhenContactMoves(roster[v], roster[w], net[w], net[v], out, sees[v], cv, cw, no)
      BY <1>4, <1>11, <2>1, <2>2, <2>3 DEF Found, WhenContactMoves
    <2> QED BY ONLY <2>4, ContactMoves, Zenon
  <1> QED BY <1>1, <1>3, <1>7, <1>8, <1>9, <1>12, <1>13, PairKept

(* The client becomes available. *)
LEMMA ArrivesKept ==
    ASSUME PairInv, BothExist, NEW w \in Users, Available(w)
    PROVE  Directions'
  <1>1. PICK v : v = Other(w)
    OBVIOUS
  <1>2. PICK cw \in BOOLEAN, cv \in BOOLEAN : cw = (client[w] = "available") /\ cv = (client[v] = "available")
    OBVIOUS
  <1>3. v \in Users /\ v # w
    BY <1>1, TwoUsers
  <1>4. Found(w, v, cw, cv)
    BY <1>1, <1>2, PairFacts
  <1>5. TypeOK
    BY DEF PairInv, CopyInv, ItemsSound
  <1>6. PICK out : out = AvailableStanzas(w)
    OBVIOUS
  <1>7. net'[w] = net[w] /\ net'[v] = net[v] \o out
    BY <1>1, <1>5, <1>6, SendsFacts DEF Available
  <1>8. sees' = sees /\ roster' = roster /\ client' = [client EXCEPT ![w] = "available"]
    BY DEF Available
  <1>a. PICK yes \in BOOLEAN : yes = TRUE
    OBVIOUS
  <1>9. yes = (client'[w] = "available") /\ cv = (client'[v] = "available")
    BY <1>a, <1>2, <1>3, <1>5, <1>8 DEF TypeOK
  <1>10. PICK f \in BOOLEAN, p \in BOOLEAN, q \in BOOLEAN :
           /\ f = HasFrom(roster[w])
           /\ p = (client[w] = "bound" /\ HasTo(roster[w]))
           /\ q = (client[w] = "bound" /\ roster[w].ask)
    <2>1. /\ HasFrom(roster[w]) \in BOOLEAN
          /\ (client[w] = "bound" /\ HasTo(roster[w])) \in BOOLEAN
          /\ (client[w] = "bound" /\ roster[w].ask) \in BOOLEAN
      BY DEF HasFrom
    <2> QED BY ONLY <2>1, Zenon
  <1>11. /\ out \in Seq(Stanzas) /\ (f => Tells(out, TRUE)) /\ (~f => Mute(out))
         /\ ~In("subscribed", out) /\ ~In("unsubscribed", out) /\ ~In("unsubscribe", out)
         /\ (p => In("probe", out)) /\ (q => In("subscribe", out))
    <2>1. out = (IF f THEN <<"available">> ELSE << >>) \o (IF p THEN <<"probe">> ELSE << >>)
                  \o (IF q THEN <<"subscribe">> ELSE << >>)
      BY <1>6, <1>10, Zenon DEF AvailableStanzas
    <2> QED BY ONLY <2>1, f \in BOOLEAN, p \in BOOLEAN, q \in BOOLEAN, ArrivalList, Zenon
  <1>12. Direction(roster[w], roster[v], net[v] \o out, net[w], sees[w], yes, cv)
    <2>1. cw \/ client[w] = "bound"
      BY <1>2, <1>5 DEF TypeOK, Available
    <2>2. \/ cw
          \/ (HasTo(roster[w]) => In("probe", out)) /\ (roster[w].ask => In("subscribe", out))
      BY ONLY <2>1, <1>10, <1>11, Zenon
    <2>3. WhenSubscriberArrives(roster[w], roster[v], net[v], net[w], out, sees[w], cw, cv, yes)
      BY <1>4, <1>11, <1>a, <2>2 DEF Found, WhenSubscriberArrives
    <2> QED BY ONLY <2>3, SubscriberArrives, Zenon
  <1>13. Direction(roster[v], roster[w], net[w], net[v] \o out, sees[v], cv, yes)
    <2>1. yes \in BOOLEAN
      OBVIOUS
    <2>2. HasFrom(roster[w]) => Tells(out, yes) \/ (yes = cw /\ Mute(out))
      BY ONLY <1>a, <1>10, <1>11, Zenon
    <2>3. ~HasFrom(roster[w]) => Mute(out)
      BY ONLY <1>10, <1>11, Zenon
    <2>4. WhenContactMoves(roster[v], roster[w], net[w], net[v], out, sees[v], cv, cw, yes)
      BY <1>4, <1>11, <2>1, <2>2, <2>3 DEF Found, WhenContactMoves
    <2> QED BY ONLY <2>4, ContactMoves, Zenon
  <1> QED BY <1>1, <1>3, <1>7, <1>8, <1>9, <1>12, <1>13, PairKept

(* Presence arrives. *)
LEMMA HearsKept ==
    ASSUME PairInv, BothExist, NEW w \in Users, DeliverPresence(w)
    PROVE  Directions'
  <1>1. PICK v : v = Other(w)
    OBVIOUS
  <1>2. PICK cw \in BOOLEAN, cv \in BOOLEAN : cw = (client[w] = "available") /\ cv = (client[v] = "available")
    OBVIOUS
  <1>3. v \in Users /\ v # w
    BY <1>1, TwoUsers
  <1>4. Found(w, v, cw, cv)
    BY <1>1, <1>2, PairFacts
  <1>5. TypeOK
    BY DEF PairInv, CopyInv, ItemsSound
  <1>6. net[w] # << >> /\ Head(net[w]) \in Presences
    BY DEF DeliverPresence, Presences
  <1>7. net'[w] = Tail(net[w]) /\ net'[v] = net[v] /\ roster' = roster /\ client' = client
    BY <1>3, <1>5 DEF DeliverPresence, TypeOK
  <1> DEFINE b == IF cw THEN Head(net[w]) = "available" ELSE sees[w]
  <1>8. sees'[w] = b /\ sees'[v] = sees[v]
    <2>1. sees' = [sees EXCEPT ![w] = IF client[w] = "available"
                   THEN Head(net[w]) = "available" ELSE sees[w]]
      BY DEF DeliverPresence
    <2>2. sees' = [sees EXCEPT ![w] = b]
      BY ONLY <2>1, <1>2, Zenon
    <2> HIDE DEF b
    <2> QED BY <1>3, <1>5, <2>2 DEF TypeOK
  <1>9. cw = (client'[w] = "available") /\ cv = (client'[v] = "available")
    BY <1>2, <1>7
  <1>12. Direction(roster[w], roster[v], net[v], Tail(net[w]), b, cw, cv)
    <2>1. WhenSubscriberHears(roster[w], roster[v], net[v], net[w], sees[w], cw, cv)
      BY <1>4, <1>6 DEF Found, WhenSubscriberHears
    <2> QED BY ONLY <2>1, SubscriberHears, Zenon
  <1>13. Direction(roster[v], roster[w], Tail(net[w]), net[v], sees[v], cv, cw)
    <2>1. << >> \in Seq(Stanzas) /\ Mute(<< >>) /\ \A x : ~In(x, << >>)
      BY OneStanza
    <2>2. Head(net[w]) \notin {"subscribe", "unsubscribe", "probe"}
      BY <1>6 DEF Presences
    <2>3. SameContact(roster[w], roster[w])
      BY DEF SameContact
    <2>4. Answered(roster[w], roster[w], Head(net[w]), << >>, cw)
      BY ONLY <2>1, <2>2, <2>3, Zenon DEF Answered
    <2>5. Direction(roster[v], roster[w], Tail(net[w]), net[v] \o << >>, sees[v], cv, cw)
      <3>1. WhenContactReads(roster[v], roster[w], roster[w], net[w], net[v], << >>, sees[v], cv, cw)
        BY <1>4, <1>6, <2>1, <2>4 DEF Found, WhenContactReads
      <3> QED BY ONLY <3>1, ContactReads, Zenon
    <2>6. net[v] \o << >> = net[v]
      BY <1>4 DEF Found
    <2> QED BY <2>5, <2>6
  <1> HIDE DEF b
  <1> QED BY <1>1, <1>3, <1>7, <1>8, <1>9, <1>12, <1>13, PairKept

(* The facts of the invariant that are not about directions. *)
LEMMA PairCopies ==
    ASSUME PairInv
    PROVE  CopyInv /\ TypeOK /\ roster = disk
  <1>1. CopyInv
    BY DEF PairInv
  <1>2. TypeOK
    BY <1>1, CopyFacts
  <1>3. roster \in [Users -> Item] /\ disk \in [Users -> Item] /\ \A v \in Users : roster[v] = disk[v]
    BY <1>1, CopyFacts
  <1>4. roster = disk
    BY ONLY <1>3
  <1> QED BY <1>1, <1>2, <1>4

(* A resource is bound, and a roster is fetched. *)
LEMMA QuietSteps ==
    ASSUME PairInv, BothExist, NEW u \in Users, Bind(u) \/ RosterGet(u)
    PROVE  Directions'
  <1>1. TypeOK /\ roster = disk
    BY PairCopies
  <1>2. roster' = roster /\ net' = net /\ sees' = sees
    <2>1. [roster EXCEPT ![u] = roster[u]] = roster
      BY <1>1 DEF TypeOK
    <2> QED BY <1>1, <2>1 DEF Bind, RosterGet
  <1>3. \A v \in Users : (client'[v] = "available") <=> (client[v] = "available")
    BY <1>1 DEF Bind, RosterGet, TypeOK
  <1> QED BY <1>2, <1>3, StillKept

(* Sessions that end. *)
LEMMA EndingSteps ==
    ASSUME PairInv, BothExist, NEW u \in Users, Unavailable(u) \/ Disconnect(u)
    PROVE  Directions'
  <1>1. TypeOK /\ roster = disk
    BY PairCopies
  <1>2. roster' = roster
    <2>1. [roster EXCEPT ![u] = roster[u]] = roster
      BY <1>1 DEF TypeOK
    <2> QED BY <1>1, <2>1 DEF Unavailable, Disconnect
  <1>3. Sends(u, UnavailableStanzas(u)) /\ sees' = [sees EXCEPT ![u] = FALSE]
    BY DEF Unavailable, Disconnect
  <1>4. client' = [client EXCEPT ![u] = "off"] \/ client' = [client EXCEPT ![u] = "bound"]
    BY DEF Unavailable, Disconnect
  <1> QED BY <1>2, <1>3, <1>4, LeavesKept

(* Nothing of a subscription is on its way when a client acts patiently. *)
LEMMA PatientIdle ==
    ASSUME Link = "patient", NEW u \in Users, MayChange(u), NEW v \in Users
    PROVE  Idle(net[v])
  <1>1. NoSubscriptionInFlight
    BY DEF MayChange
  <1> QED BY <1>1 DEF NoSubscriptionInFlight, Idle, In

(* A client sends a subscription stanza. *)
LEMMA OutboundStep ==
    ASSUME Link = "patient", PairInv, BothExist, NEW u \in Users, NEW type \in SubscriptionTypes,
           Outbound(u, type, TRUE)
    PROVE  Directions'
  <1>1. PICK e : e = handle_outbound_presence_subscriptions_and_probes(u, type, roster[u], TRUE)
    OBVIOUS
  <1>2. /\ MayChange(u) /\ Stores(u, e, TRUE) /\ Sends(u, e.out)
        /\ client' = client /\ sees' = sees
    BY <1>1, Zenon DEF Outbound
  <1>3. PICK v : v = Other(u)
    OBVIOUS
  <1>4. v \in Users /\ v # u
    BY <1>3, TwoUsers
  <1>5. PICK c \in BOOLEAN, cv \in BOOLEAN : c = (client[u] = "available") /\ cv = (client[v] = "available")
    OBVIOUS
  <1>6. Found(u, v, c, cv)
    BY <1>3, <1>5, PairFacts
  <1>7. PICK i \in Item : i = roster[u] /\ ItemWellFormed(i) /\ exists[u] = TRUE
    BY <1>6 DEF Found
  <1>8. /\ e.out \in Seq(Stanzas) /\ OwnSent(i, e.item, e.out) /\ ContactSent(i, e.item, e.out, c)
    <2>1. Link # "local"
      OBVIOUS
    <2>2. e = handle_outbound_presence_subscriptions_and_probes(u, type, i, TRUE)
      BY <1>1, <1>7
    <2> QED BY ONLY <2>1, <2>2, <1>5, <1>7, type \in SubscriptionTypes, OutboundSends
  <1>9. PICK n : n = e.item
    OBVIOUS
  <1>10. TypeOK
    BY PairCopies
  <1>11. n \in Item
    <2>1. PICK yes \in BOOLEAN : yes = TRUE
      OBVIOUS
    <2>2. e = handle_outbound_presence_subscriptions_and_probes(u, type, i, yes)
      BY <1>1, <1>7, <2>1
    <2>3. e \in Effects
      BY ONLY <1>7, <1>10, <2>2, u \in Users, type \in SubscriptionTypes, OutboundEffects
    <2> QED BY <1>9, <2>3 DEF Effects
  <1>12. roster'[u] = n /\ roster'[v] = roster[v]
    <2>1. Kept(u, n, TRUE) = n
      BY <1>7 DEF Kept, Saved
    <2>2. roster' = [roster EXCEPT ![u] = n]
      BY <1>2, <1>9, <2>1 DEF Stores
    <2> QED BY <1>4, <1>10, <2>2 DEF TypeOK
  <1>13. PICK out : out = e.out
    OBVIOUS
  <1>14. net'[u] = net[u] /\ net'[v] = net[v] \o out
    <2>1. Sends(u, out)
      BY <1>2, <1>13
    <2> QED BY ONLY <1>3, <1>10, <2>1, u \in Users, SendsFacts
  <1>15. Idle(net[u]) /\ Idle(net[v])
    BY <1>2, <1>4, PatientIdle
  <1>16. n.ask \in BOOLEAN /\ n.pending \in BOOLEAN
    BY <1>11 DEF Item
  <1>17. Acts(u, v, n, out, c)
    BY ONLY <1>2, <1>3, <1>5, <1>7, <1>8, <1>9, <1>12, <1>13, <1>14, <1>15, <1>16, Zenon DEF Acts
  <1> QED BY <1>17, ActsKept, Zenon

(* A stanza of a subscription arrives. *)
LEMMA InboundStep ==
    ASSUME Link = "patient", PairInv, BothExist, NEW u \in Users, DeliverSubscription(u, TRUE)
    PROVE  Directions'
  <1>0. PICK type : type = Head(net[u])
    OBVIOUS
  <1>1. PICK e : e = handle_inbound_presence_subscriptions_and_probes(u, type, TRUE)
    OBVIOUS
  <1>2. /\ net[u] # << >> /\ type \in SubscriptionTypes \cup {"probe"} /\ Stores(u, e, TRUE)
        /\ net' = [net EXCEPT ![u] = Tail(net[u]), ![Other(u)] = net[Other(u)] \o e.out]
        /\ client' = client /\ sees' = sees
    <2>1. /\ net[u] # << >> /\ type \in SubscriptionTypes \cup {"probe"} /\ Stores(u, e, TRUE)
          /\ client' = client /\ sees' = sees
      BY <1>0, <1>1, Zenon DEF DeliverSubscription
    <2>2. net' = [net EXCEPT ![u] = Tail(@), ![Other(u)] = @ \o e.out]
      BY <1>0, <1>1, Zenon DEF DeliverSubscription
    <2>3. Other(u) # u
      BY TwoUsers
    <2> QED BY <2>1, <2>2, <2>3
  <1>3. PICK v : v = Other(u)
    OBVIOUS
  <1>4. v \in Users /\ v # u
    BY <1>3, TwoUsers
  <1>5. PICK c \in BOOLEAN, cv \in BOOLEAN : c = (client[u] = "available") /\ cv = (client[v] = "available")
    OBVIOUS
  <1>6. Found(u, v, c, cv)
    BY <1>3, <1>5, PairFacts
  <1>7. PICK i \in Item : roster[u] = i /\ ItemWellFormed(i) /\ exists[u] = TRUE
    BY <1>6 DEF Found
  <1>8. /\ e.out \in Seq(Stanzas) /\ ~In("unsubscribe", e.out)
        /\ OwnRead(i, e.item, type) /\ Answered(i, e.item, type, e.out, c)
    <2>1. Link # "local"
      OBVIOUS
    <2> QED BY ONLY <2>1, <1>1, <1>2, <1>5, <1>7, InboundAnswers
  <1>9. PICK n : n = e.item
    OBVIOUS
  <1>10. TypeOK /\ WellFormed
    BY PairCopies, CopyFacts
  <1>11. n \in Item
    <2>1. PICK yes \in BOOLEAN : yes = TRUE
      OBVIOUS
    <2>2. e = handle_inbound_presence_subscriptions_and_probes(u, type, yes)
      BY <1>1, <2>1
    <2>3. e \in Effects
      BY ONLY <1>2, <1>10, <2>2, u \in Users, InboundEffects
    <2> QED BY <1>9, <2>3 DEF Effects
  <1>12. roster'[u] = n /\ roster'[v] = roster[v]
    <2>1. Kept(u, n, TRUE) = n
      BY <1>7 DEF Kept, Saved
    <2>2. roster' = [roster EXCEPT ![u] = n]
      BY <1>2, <1>9, <2>1 DEF Stores
    <2> QED BY <1>4, <1>10, <2>2 DEF TypeOK
  <1>13. PICK out : out = e.out
    OBVIOUS
  <1>14. net'[u] = Tail(net[u]) /\ net'[v] = net[v] \o out
    <2>1. PICK s, t : s = Tail(net[u]) /\ t = net[v] \o out
      OBVIOUS
    <2>2. net' = [net EXCEPT ![u] = s, ![v] = t]
      BY <1>2, <1>3, <1>13, <2>1
    <2>3. net'[u] = s /\ net'[v] = t
      BY <1>4, <1>10, <2>2 DEF TypeOK
    <2> QED BY <2>1, <2>3
  <1>15. Head(net[u]) \notin Presences
    BY <1>0, <1>2 DEF SubscriptionTypes, Presences
  <1>16. n.ask \in BOOLEAN /\ n.pending \in BOOLEAN
    BY <1>11 DEF Item
  <1>17. Reads(u, v, n, out, c)
    BY ONLY <1>0, <1>2, <1>3, <1>5, <1>7, <1>8, <1>9, <1>12, <1>13, <1>14, <1>15, <1>16, Zenon DEF Reads
  <1> QED BY <1>17, ReadsKept, Zenon

(* A client changes or removes its item. *)
LEMMA RosterStep ==
    ASSUME Link = "patient", PairInv, BothExist, NEW u \in Users,
           RosterSet(u, TRUE) \/ RosterRemove(u, TRUE)
    PROVE  Directions'
  <1>1. PICK v : v = Other(u)
    OBVIOUS
  <1>2. v \in Users /\ v # u
    BY <1>1, TwoUsers
  <1>3. PICK c \in BOOLEAN, cv \in BOOLEAN : c = (client[u] = "available") /\ cv = (client[v] = "available")
    OBVIOUS
  <1>4. Found(u, v, c, cv)
    BY <1>1, <1>3, PairFacts
  <1>5. PICK i \in Item : i = roster[u] /\ ItemWellFormed(i) /\ exists[u] = TRUE
    BY <1>4 DEF Found
  <1>6. TypeOK
    BY PairCopies
  <1>7. MayChange(u) /\ client' = client /\ sees' = sees
    BY DEF RosterSet, RosterRemove
  <1>8. Idle(net[u]) /\ Idle(net[v])
    BY <1>2, <1>7, PatientIdle
  <1>9. Saved(u, TRUE)
    BY <1>5 DEF Saved
  <1>10. i.pending \in BOOLEAN /\ i.ask \in BOOLEAN
    BY DEF Item
  <1>11. ASSUME NEW n \in Item, Stores(u, Effect(n, TRUE, TRUE, << >>), TRUE)
         PROVE  /\ roster'[u] = n /\ roster'[v] = roster[v]
                /\ n.pending \in BOOLEAN /\ n.ask \in BOOLEAN
    <2>1. Kept(u, n, TRUE) = n
      BY <1>9 DEF Kept
    <2>2. Effect(n, TRUE, TRUE, << >>).item = n
      BY DEF Effect
    <2>3. roster' = [roster EXCEPT ![u] = n]
      BY <1>11, <2>1, <2>2 DEF Stores
    <2> QED BY <1>2, <1>6, <2>3 DEF TypeOK, Item
  <1>12. CASE RosterSet(u, TRUE)
    <2>1. PICK n : n = Created(i)
      OBVIOUS
    <2>2. n \in Item
      BY <2>1, OperationTypes
    <2>3. Stores(u, Effect(n, TRUE, TRUE, << >>), TRUE) /\ net' = net
      BY <1>5, <1>9, <1>12, <2>1, Zenon DEF RosterSet
    <2>4. SameOwn(i, n) /\ SameContact(i, n)
      BY ONLY <1>5, <2>1, OperationHalves
    <2>5. PICK out : out = << >>
      OBVIOUS
    <2>6. out \in Seq(Stanzas) /\ Mute(out) /\ \A x : ~In(x, out)
      BY <2>5, OneStanza
    <2>7. OwnSent(i, n, out) /\ ContactSent(i, n, out, c)
      BY ONLY <2>4, <2>6, Zenon DEF OwnSent, ContactSent
    <2>8. net'[u] = net[u] /\ net'[v] = net[v] \o out
      <3>1. net[v] \in Seq(Stanzas)
        BY <1>4 DEF Found
      <3> QED BY <2>3, <2>5, <3>1
    <2>9. roster'[u] = n /\ roster'[v] = roster[v] /\ n.pending \in BOOLEAN /\ n.ask \in BOOLEAN
      BY <1>11, <2>2, <2>3
    <2>10. Acts(u, v, n, out, c)
      BY ONLY <1>1, <1>3, <1>5, <1>7, <1>8, <2>6, <2>7, <2>8, <2>9, Zenon DEF Acts
    <2> QED BY <2>10, ActsKept, Zenon
  <1>13. CASE RosterRemove(u, TRUE)
    <2>1. PICK n : n = [NoItem EXCEPT !.pending = i.pending]
      OBVIOUS
    <2>2. n \in Item /\ n.pending = i.pending /\ ~Wants(n) /\ ~HasFrom(n)
      BY <2>1, <1>10 DEF NoItem, Item, Subscriptions, Wants, HasTo, HasFrom
    <2>3. Stores(u, Effect(n, TRUE, TRUE, << >>), TRUE) /\ Sends(u, RemovalStanzas(i, i.pending))
      BY <1>5, <1>9, <1>13, <2>1, Zenon DEF RosterRemove
    <2>4. PICK f \in BOOLEAN, p \in BOOLEAN : f = (HasFrom(i) \/ i.pending) /\ p = (HasTo(i) \/ i.ask)
      OBVIOUS
    <2>5. PICK out : out = RemovalStanzas(i, i.pending)
      OBVIOUS
    <2>6. /\ out \in Seq(Stanzas) /\ Mute(out)
          /\ ~In("subscribed", out) /\ (In("unsubscribed", out) <=> f) /\ (In("unsubscribe", out) <=> p)
      <3>1. out = (IF f THEN <<"unsubscribed">> ELSE << >>) \o (IF p THEN <<"unsubscribe">> ELSE << >>)
        BY <2>4, <2>5, Zenon DEF RemovalStanzas
      <3> QED BY ONLY <3>1, f \in BOOLEAN, p \in BOOLEAN, OutLists, Zenon
    <2>7. OwnSent(i, n, out) /\ ContactSent(i, n, out, c)
      BY ONLY <2>2, <2>4, <2>6, Zenon DEF OwnSent, ContactSent
    <2>8. net'[u] = net[u] /\ net'[v] = net[v] \o out
      <3>1. Sends(u, out)
        BY <2>3, <2>5
      <3> QED BY ONLY <1>1, <1>6, <3>1, u \in Users, SendsFacts
    <2>9. roster'[u] = n /\ roster'[v] = roster[v] /\ n.pending \in BOOLEAN /\ n.ask \in BOOLEAN
      BY <1>11, <2>2, <2>3
    <2>10. Acts(u, v, n, out, c)
      BY ONLY <1>1, <1>3, <1>5, <1>7, <1>8, <2>6, <2>7, <2>8, <2>9, Zenon DEF Acts
    <2> QED BY <2>10, ActsKept, Zenon
  <1> QED BY <1>12, <1>13

(* Nothing has been sent yet. *)
LEMMA NothingSaid ==
    ASSUME NEW i, NEW j, NEW up \in BOOLEAN, NEW c \in BOOLEAN, ~up, i = NoItem, j = NoItem
    PROVE  Direction(i, j, << >>, << >>, FALSE, up, c)
  <1>1. Mute(<< >>) /\ \A x : ~In(x, << >>)
    BY OneStanza
  <1>2. ~HasTo(i) /\ ~HasFrom(i) /\ ~i.ask /\ ~i.pending /\ ~HasFrom(j) /\ ~j.pending
    BY DEF NoItem, HasTo, HasFrom
  <1> QED BY <1>1, <1>2 DEF Direction, Pair, Seen, Wants, Hears

(* Every step keeps the directions, as long as both accounts exist.        *)
LEMMA DirectionsKept ==
    ASSUME Link = "patient", SaveOutcomes \subseteq {TRUE}, PairInv, [Next]_vars
    PROVE  BothExist' => Directions'
  <1>1. CASE UNCHANGED vars
    <2>1. exists' = exists /\ roster' = roster /\ net' = net /\ sees' = sees /\ client' = client
      BY <1>1 DEF vars
    <2>2. BothExist' => BothExist
      BY <2>1 DEF BothExist
    <2>3. Directions' <=> Directions
      BY <2>1 DEF Directions, DirectionOf
    <2> QED BY <2>2, <2>3 DEF PairInv
  <1>2. CASE Next
    <2>1. PICK u \in Users :
            \/ Bind(u) \/ RosterGet(u) \/ Available(u) \/ Unavailable(u)
            \/ Disconnect(u) \/ DeliverPresence(u) \/ DeleteUser(u)
            \/ \E ok \in SaveOutcomes :
                  \/ \E type \in SubscriptionTypes : Outbound(u, type, ok)
                  \/ DeliverSubscription(u, ok)
                  \/ RosterSet(u, ok) \/ RosterRemove(u, ok)
      BY <1>2 DEF Next
    <2>2. \A ok \in SaveOutcomes : ok = TRUE
      OBVIOUS
    <2>3. exists \in [Users -> BOOLEAN]
      BY PairCopies DEF TypeOK
    <2>4. CASE \E ok \in SaveOutcomes :
                  \/ \E type \in SubscriptionTypes : Outbound(u, type, ok)
                  \/ DeliverSubscription(u, ok)
                  \/ RosterSet(u, ok) \/ RosterRemove(u, ok)
      <3>1. \/ \E type \in SubscriptionTypes : Outbound(u, type, TRUE)
            \/ DeliverSubscription(u, TRUE)
            \/ RosterSet(u, TRUE) \/ RosterRemove(u, TRUE)
        BY <2>2, <2>4, Zenon
      <3>2. exists' = exists
        BY <3>1, Zenon DEF Outbound, DeliverSubscription, RosterSet, RosterRemove
      <3>3. BothExist' => BothExist
        BY <3>2 DEF BothExist
      <3> QED BY <3>1, <3>3, OutboundStep, InboundStep, RosterStep, Zenon
    <2>5. CASE Bind(u) \/ RosterGet(u) \/ Available(u) \/ Unavailable(u)
               \/ Disconnect(u) \/ DeliverPresence(u)
      <3>1. exists' = exists
        BY <2>5 DEF Bind, RosterGet, Available, Unavailable, Disconnect, DeliverPresence
      <3>2. BothExist' => BothExist
        BY <3>1 DEF BothExist
      <3> QED BY <2>5, <3>2, QuietSteps, EndingSteps, ArrivesKept, HearsKept, Zenon
    <2>6. CASE DeleteUser(u)
      <3>1. ~exists'[u]
        BY <2>3, <2>6 DEF DeleteUser
      <3> QED BY <3>1 DEF BothExist
    <2> QED BY <2>1, <2>4, <2>5, <2>6
  <1> QED BY <1>1, <1>2

(* The invariant holds throughout. *)
LEMMA AlwaysPairInv ==
    ASSUME Link = "patient", SaveOutcomes \subseteq {TRUE}
    PROVE  Spec => []PairInv
  <1>1. Init => PairInv
    <2>1. SUFFICES ASSUME Init PROVE CopyInv /\ Directions
      BY DEF PairInv
    <2>2. ItemsSound
      BY <2>1, InitEstablishes DEF ItemsSound
    <2>3. CopiesCurrent /\ RequestShown /\ Attached
      BY <2>1 DEF Init, CopiesCurrent, StoredIsCurrent, ViewIsCurrent, RequestShown, Attached
    <2>4. ASSUME NEW u \in Users PROVE DirectionOf(u)
      <3>1. PICK v : v = Other(u)
        OBVIOUS
      <3>2. v \in Users
        BY <3>1, TwoUsers
      <3>3. PICK up \in BOOLEAN, c \in BOOLEAN : up = (client[u] = "available") /\ c = (client[v] = "available")
        OBVIOUS
      <3>4. ~up
        BY <2>1, <3>3 DEF Init
      <3>5. /\ roster[u] = NoItem /\ roster[v] = NoItem /\ net[u] = << >> /\ net[v] = << >>
            /\ sees[u] = FALSE
        BY <2>1, <3>2 DEF Init
      <3>6. Direction(roster[u], roster[v], << >>, << >>, FALSE, up, c)
        BY ONLY <3>4, <3>5, up \in BOOLEAN, c \in BOOLEAN, NothingSaid
      <3> QED BY ONLY <3>1, <3>3, <3>5, <3>6, Zenon DEF DirectionOf
    <2> QED BY <2>2, <2>3, <2>4 DEF CopyInv, Directions
  <1>2. PairInv /\ CopyInv' /\ [Next]_vars => PairInv'
    BY DirectionsKept DEF PairInv
  <1>3. Spec => []CopyInv
    BY AlwaysCopyInv
  <1> QED BY <1>1, <1>2, <1>3, PTL DEF Spec

(* What the invariant says once everything has arrived. *)
LEMMA OnceQuiet ==
    ASSUME NEW i, NEW j, NEW w \in BOOLEAN, NEW up \in BOOLEAN, NEW c \in BOOLEAN,
           i.ask \in BOOLEAN, j.pending \in BOOLEAN, Direction(i, j, << >>, << >>, w, up, c)
    PROVE  /\ HasTo(i) => HasFrom(j)
           /\ i.ask => j.pending
           /\ up /\ HasTo(i) => w = c
  <1>1. (\A r : ~Tells(<< >>, r)) /\ \A x : ~In(x, << >>)
    BY OneStanza DEF Tells
  <1>2. HasTo(i) \in BOOLEAN /\ HasFrom(j) \in BOOLEAN
    BY DEF HasTo, HasFrom
  <1>3. (HasTo(i) => HasFrom(j)) /\ (i.ask => j.pending)
    BY <1>1, <1>2 DEF Direction, Pair
  <1>4. up /\ HasTo(i) => Hears(<< >>, w, c)
    BY <1>1, <1>2, <1>3 DEF Direction, Seen, Wants
  <1>5. Hears(<< >>, w, c) => w = c
    BY <1>1 DEF Hears
  <1> QED BY <1>3, <1>4, <1>5

(* The same, of the state. *)
LEMMA QuietPair ==
    ASSUME PairInv, Quiet, BothExist, NEW u \in Users
    PROVE  /\ HasTo(roster[u]) => HasFrom(roster[Other(u)])
           /\ roster[u].ask => roster[Other(u)].pending
           /\ client[u] = "available" /\ HasTo(roster[u]) => (sees[u] <=> client[Other(u)] = "available")
  <1>1. PICK v : v = Other(u)
    OBVIOUS
  <1>2. v \in Users
    BY <1>1, TwoUsers
  <1>3. PICK up \in BOOLEAN, c \in BOOLEAN : up = (client[u] = "available") /\ c = (client[v] = "available")
    OBVIOUS
  <1>4. Found(u, v, up, c)
    BY <1>1, <1>3, PairFacts
  <1>5. net[u] = << >> /\ net[v] = << >>
    BY <1>2 DEF Quiet
  <1>6. PICK w \in BOOLEAN : w = sees[u]
    BY <1>4 DEF Found
  <1>7. /\ roster[u].ask \in BOOLEAN /\ roster[v].pending \in BOOLEAN
        /\ Direction(roster[u], roster[v], << >>, << >>, w, up, c)
    BY <1>4, <1>5, <1>6 DEF Found
  <1>8. /\ HasTo(roster[u]) => HasFrom(roster[v])
        /\ roster[u].ask => roster[v].pending
        /\ up /\ HasTo(roster[u]) => w = c
    BY ONLY <1>7, w \in BOOLEAN, up \in BOOLEAN, c \in BOOLEAN, OnceQuiet
  <1> QED BY <1>1, <1>3, <1>6, <1>8

(* Between two servers with patient clients and a store that works: once   *)
(* everything has arrived, who believes to be subscribed is served by the  *)
(* other server and who waits for an answer has a request waiting there,   *)
(* whatever was approved, denied, cancelled, removed or probed before      *)
(* (mod_presence.lua:155-318, rostermanager.lua:169-400).                  *)
THEOREM SubscribersAreServed ==
    ASSUME Link = "patient", SaveOutcomes \subseteq {TRUE}
    PROVE  Spec => []Served
  <1>1. PairInv => Served
    BY QuietPair, Zenon DEF Served
  <1> QED BY <1>1, AlwaysPairInv, PTL

(* Under the same conditions an available client that is subscribed sees   *)
(* the other user as it is, available or not, whatever order logins,       *)
(* approvals, cancellations and probes happened in (mod_presence.lua:      *)
(* 83-121, 218-318).                                                       *)
THEOREM PresenceIsAccurate ==
    ASSUME Link = "patient", SaveOutcomes \subseteq {TRUE}
    PROVE  Spec => []PresenceAccurate
  <1>1. PairInv => PresenceAccurate
    BY QuietPair, Zenon DEF PresenceAccurate
  <1> QED BY <1>1, AlwaysPairInv, PTL

(***************************************************************************)
(* Two users of one server.                                                *)
(***************************************************************************)
(* What a stream carries besides presence: nothing, one stanza of a        *)
(* subscription or a probe, or "subscribed" and then a probe ("pair").     *)
Noise(s) == \A k \in 1..Len(s) : s[k] \in Presences
Only(s, x) ==
    \E k \in 1..Len(s) : s[k] = x /\ \A l \in 1..Len(s) : l # k => s[l] \in Presences
Then(s) ==
    \E k \in 1..Len(s), m \in 1..Len(s) :
        /\ k < m /\ s[k] = "subscribed" /\ s[m] = "probe"
        /\ \A l \in 1..Len(s) : l # k /\ l # m => s[l] \in Presences
Signalling == SubscriptionTypes \cup {"probe"}

(* The same for two streams, one sent after the other.                     *)
LEMMA CarriedOn ==
    ASSUME NEW s \in Seq(Stanzas), NEW t \in Seq(Stanzas)
    PROVE  /\ Noise(s) /\ Noise(t) => Noise(s \o t)
           /\ \A x : Noise(s) /\ Only(t, x) => Only(s \o t, x)
           /\ \A x : Only(s, x) /\ Noise(t) => Only(s \o t, x)
           /\ Noise(s) /\ Then(t) => Then(s \o t)
           /\ Then(s) /\ Noise(t) => Then(s \o t)
           /\ Only(s, "subscribed") /\ Only(t, "probe") => Then(s \o t)
  <1> DEFINE q == s \o t
             m == Len(s)
             n == Len(t)
  <1>1. /\ q \in Seq(Stanzas) /\ Len(q) = m + n /\ m \in Nat /\ n \in Nat
        /\ \A k \in 1..m + n : q[k] = IF k <= m THEN s[k] ELSE t[k - m]
    BY ConcatProperties, LenProperties
  <1>a. Len(s) = m /\ Len(t) = n
    OBVIOUS
  <1> HIDE DEF q, m, n
  <1>2. (\A k \in 1..m : k \in 1..m + n /\ q[k] = s[k]) /\ (\A k \in 1..n : k + m \in 1..m + n /\ q[k + m] = t[k])
    BY ONLY <1>1
  <1>3. \A k \in 1..m + n : (k \in 1..m /\ q[k] = s[k]) \/ (k - m \in 1..n /\ q[k] = t[k - m])
    BY ONLY <1>1
  <1>4. /\ Noise(s) <=> \A k \in 1..m : s[k] \in Presences
        /\ Noise(t) <=> \A k \in 1..n : t[k] \in Presences
        /\ Noise(q) <=> \A k \in 1..m + n : q[k] \in Presences
    BY <1>1, <1>a DEF Noise
  <1>5. Noise(s) /\ Noise(t) => Noise(q)
    BY ONLY <1>3, <1>4
  <1>6. ASSUME NEW x, Noise(s), Only(t, x) PROVE Only(q, x)
    <2>1. PICK k \in 1..n : t[k] = x /\ \A l \in 1..n : l # k => t[l] \in Presences
      BY <1>6, <1>a DEF Only
    <2>2. k + m \in 1..m + n /\ q[k + m] = x
      BY ONLY <1>2, <2>1
    <2>3. ASSUME NEW l \in 1..m + n, l # k + m PROVE q[l] \in Presences
      <3>1. l - m \in 1..n => l - m # k
        BY ONLY <2>3, <1>1, k \in 1..n
      <3> QED BY ONLY <1>3, <1>4, <1>6, <2>1, <2>3, <3>1
    <2> QED BY ONLY <1>1, <2>2, <2>3 DEF Only
  <1>7. ASSUME NEW x, Only(s, x), Noise(t) PROVE Only(q, x)
    <2>1. PICK k \in 1..m : s[k] = x /\ \A l \in 1..m : l # k => s[l] \in Presences
      BY <1>7, <1>a DEF Only
    <2>2. k \in 1..m + n /\ q[k] = x
      BY ONLY <1>2, <2>1
    <2>3. ASSUME NEW l \in 1..m + n, l # k PROVE q[l] \in Presences
      BY ONLY <1>3, <1>4, <1>7, <2>1, <2>3
    <2> QED BY ONLY <1>1, <2>2, <2>3 DEF Only
  <1>8. ASSUME Noise(s), Then(t) PROVE Then(q)
    <2>1. PICK k \in 1..n, o \in 1..n : /\ k < o /\ t[k] = "subscribed" /\ t[o] = "probe"
                                        /\ \A l \in 1..n : l # k /\ l # o => t[l] \in Presences
      BY <1>8, <1>a DEF Then
    <2>2. /\ k + m \in 1..m + n /\ q[k + m] = "subscribed" /\ o + m \in 1..m + n /\ q[o + m] = "probe"
      BY ONLY <1>2, <2>1
    <2>3. ASSUME NEW l \in 1..m + n, l # k + m, l # o + m PROVE q[l] \in Presences
      <3>1. l - m \in 1..n => l - m # k /\ l - m # o
        BY ONLY <2>3, <1>1, k \in 1..n, o \in 1..n
      <3> QED BY ONLY <1>3, <1>4, <1>8, <2>1, <2>3, <3>1
    <2>4. k + m < o + m
      BY <1>1, <2>1
    <2> QED BY ONLY <1>1, <2>2, <2>3, <2>4 DEF Then
  <1>9. ASSUME Then(s), Noise(t) PROVE Then(q)
    <2>1. PICK k \in 1..m, o \in 1..m : /\ k < o /\ s[k] = "subscribed" /\ s[o] = "probe"
                                        /\ \A l \in 1..m : l # k /\ l # o => s[l] \in Presences
      BY <1>9, <1>a DEF Then
    <2>2. /\ k \in 1..m + n /\ q[k] = "subscribed" /\ o \in 1..m + n /\ q[o] = "probe"
      BY ONLY <1>2, <2>1
    <2>3. ASSUME NEW l \in 1..m + n, l # k, l # o PROVE q[l] \in Presences
      BY ONLY <1>3, <1>4, <1>9, <2>1, <2>3
    <2> QED BY ONLY <1>1, <2>1, <2>2, <2>3 DEF Then
  <1>10. ASSUME Only(s, "subscribed"), Only(t, "probe") PROVE Then(q)
    <2>1. PICK k \in 1..m : s[k] = "subscribed" /\ \A l \in 1..m : l # k => s[l] \in Presences
      BY <1>10, <1>a DEF Only
    <2>2. PICK o \in 1..n : t[o] = "probe" /\ \A l \in 1..n : l # o => t[l] \in Presences
      BY <1>10, <1>a DEF Only
    <2>3. /\ k \in 1..m + n /\ q[k] = "subscribed" /\ o + m \in 1..m + n /\ q[o + m] = "probe"
      BY ONLY <1>2, <2>1, <2>2
    <2>4. ASSUME NEW l \in 1..m + n, l # k, l # o + m PROVE q[l] \in Presences
      <3>1. l - m \in 1..n => l - m # o
        BY ONLY <2>4, <1>1, o \in 1..n
      <3> QED BY ONLY <1>3, <2>1, <2>2, <2>4, <3>1
    <2>5. k < o + m
      BY ONLY <1>1, k \in 1..m, o \in 1..n
    <2> QED BY ONLY <1>1, <2>3, <2>4, <2>5 DEF Then
  <1> QED BY <1>5, <1>6, <1>7, <1>8, <1>9, <1>10 DEF q

(* The first stanza is taken away. *)
LEMMA CarriedAway ==
    ASSUME NEW s \in Seq(Stanzas), s # << >>
    PROVE  /\ Noise(s) => Head(s) \in Presences /\ Noise(Tail(s))
           /\ \A x : Only(s, x) /\ Head(s) \in Presences /\ x \notin Presences => Only(Tail(s), x)
           /\ \A x : Only(s, x) /\ Head(s) \notin Presences => x = Head(s) /\ Noise(Tail(s))
           /\ Then(s) /\ Head(s) \in Presences => Then(Tail(s))
           /\ Then(s) /\ Head(s) \notin Presences => Head(s) = "subscribed" /\ Only(Tail(s), "probe")
  <1> DEFINE h == Head(s)
             t == Tail(s)
  <1>1. /\ t \in Seq(Stanzas) /\ Len(s) \in Nat /\ Len(s) > 0
        /\ Len(t) = Len(s) - 1
        /\ \A k \in 1..Len(t) : t[k] = s[k + 1]
        /\ h = s[1]
    BY HeadTailProperties, EmptySeq, LenProperties
  <1> DEFINE n == Len(s) - 1
  <1>2. n \in Nat /\ Len(s) = n + 1 /\ Len(t) = n
    BY <1>1
  <1> HIDE DEF n
  <1> HIDE DEF h, t
  <1>3. /\ \A k \in 1..n : t[k] = s[k + 1]
        /\ \A k \in 1..n : k + 1 \in 1..n + 1
        /\ \A k \in 1..n + 1 : k = 1 \/ (k - 1 \in 1..n /\ s[k] = t[k - 1])
        /\ 1 \in 1..n + 1
    <2>1. \A k \in 1..n : t[k] = s[k + 1]
      BY <1>1, <1>2
    <2> QED BY ONLY <2>1, <1>2
  <1>4. /\ Noise(s) <=> \A k \in 1..n + 1 : s[k] \in Presences
        /\ Noise(t) <=> \A k \in 1..n : t[k] \in Presences
    BY <1>2 DEF Noise
  <1>5. Noise(s) => h \in Presences /\ Noise(t)
    BY ONLY <1>1, <1>3, <1>4
  <1>6. ASSUME NEW x, Only(s, x) PROVE /\ h \in Presences /\ x \notin Presences => Only(t, x)
                                       /\ h \notin Presences => x = h /\ Noise(t)
    <2>1. PICK k \in 1..n + 1 : s[k] = x /\ \A l \in 1..n + 1 : l # k => s[l] \in Presences
      BY <1>6, <1>2 DEF Only
    <2>2. CASE k = 1
      <3>1. \A l \in 1..n : t[l] \in Presences
        BY ONLY <1>3, <2>1, <2>2, <1>2
      <3> QED BY <1>1, <1>4, <2>1, <2>2, <3>1
    <2>3. CASE k # 1
      <3>1. k - 1 \in 1..n /\ t[k - 1] = x
        BY ONLY <1>3, <2>1, <2>3
      <3>2. ASSUME NEW l \in 1..n, l # k - 1 PROVE t[l] \in Presences
        <4>1. l + 1 \in 1..n + 1 /\ l + 1 # k /\ t[l] = s[l + 1]
          BY ONLY <1>2, <1>3, <3>2, k \in 1..n + 1
        <4> QED BY ONLY <2>1, <4>1
      <3>3. h \in Presences
        BY <1>1, <1>3, <2>1, <2>3
      <3> QED BY ONLY <1>2, <3>1, <3>2, <3>3 DEF Only
    <2> QED BY <2>2, <2>3
  <1>7. ASSUME Then(s) PROVE /\ h \in Presences => Then(t)
                             /\ h \notin Presences => h = "subscribed" /\ Only(t, "probe")
    <2>1. PICK k \in 1..n + 1, o \in 1..n + 1 :
               /\ k < o /\ s[k] = "subscribed" /\ s[o] = "probe"
               /\ \A l \in 1..n + 1 : l # k /\ l # o => s[l] \in Presences
      BY <1>7, <1>2 DEF Then
    <2>2. o # 1 /\ o - 1 \in 1..n /\ t[o - 1] = "probe"
      <3>1. o # 1
        BY ONLY <2>1, <1>2
      <3> QED BY ONLY <3>1, <1>3, <2>1
    <2>3. ASSUME NEW l \in 1..n PROVE /\ l + 1 \in 1..n + 1 /\ t[l] = s[l + 1]
                                      /\ (l # o - 1 => l + 1 # o) /\ (l # k - 1 => l + 1 # k)
      BY ONLY <1>2, <1>3, <2>3, k \in 1..n + 1, o \in 1..n + 1
    <2>4. CASE k = 1
      <3>0. "subscribed" \notin Presences
        BY DEF Presences
      <3>1. \A l \in 1..n : l # o - 1 => t[l] \in Presences
        <4>1. \A l \in 1..n : l + 1 # 1
          BY <1>2
        <4> QED BY ONLY <2>1, <2>3, <2>4, <4>1
      <3>2. Only(t, "probe")
        BY ONLY <1>2, <2>2, <3>1 DEF Only
      <3>3. h = "subscribed"
        BY <1>1, <2>1, <2>4
      <3> QED BY <3>0, <3>2, <3>3
    <2>5. CASE k # 1
      <3>1. k - 1 \in 1..n /\ t[k - 1] = "subscribed"
        BY ONLY <1>3, <2>1, <2>5
      <3>2. \A l \in 1..n : l # k - 1 /\ l # o - 1 => t[l] \in Presences
        BY ONLY <2>1, <2>3
      <3>3. h \in Presences
        BY <1>1, <1>3, <2>1, <2>2, <2>5
      <3>4. k - 1 < o - 1
        BY ONLY <2>1, k \in 1..n + 1, o \in 1..n + 1, <1>2
      <3>5. Then(t)
        BY ONLY <1>2, <2>2, <3>1, <3>2, <3>4 DEF Then
      <3> QED BY <3>3, <3>5
    <2> QED BY <2>4, <2>5
  <1> QED BY <1>5, <1>6, <1>7 DEF h, t

(* One stanza, and none. *)
LEMMA CarriedOne ==
    /\ Noise(<< >>) /\ ~Then(<< >>) /\ (\A x : ~Only(<< >>, x))
    /\ \A x : Only(<<x>>, x)
    /\ \A x \in Presences : Noise(<<x>>) /\ <<x>> \in Seq(Stanzas)
    /\ \A x \in Signalling : <<x>> \in Seq(Stanzas)
    /\ << >> \in Seq(Stanzas)
  <1>1. Noise(<< >>) /\ ~Then(<< >>) /\ (\A x : ~Only(<< >>, x))
    BY DEF Noise, Then, Only
  <1>2. ASSUME NEW x PROVE Only(<<x>>, x) /\ (x \in Presences => Noise(<<x>>))
    <2>1. Len(<<x>>) = 1 /\ <<x>>[1] = x /\ \A k \in 1..1 : k = 1
      OBVIOUS
    <2>2. PICK o : o = <<x>>
      OBVIOUS
    <2>3. Len(o) = 1 /\ o[1] = x /\ \A k \in 1..1 : k = 1
      BY <2>1, <2>2
    <2>4. Only(o, x) /\ (x \in Presences => Noise(o))
      BY ONLY <2>3 DEF Only, Noise
    <2> QED BY <2>2, <2>4
  <1>3. \A x \in Presences \cup Signalling : <<x>> \in Seq(Stanzas)
    BY DEF Presences, Signalling, Stanzas
  <1> QED BY <1>1, <1>2, <1>3

(* One user's subscription to the other, in the two items. *)
Agrees(i, j) == (HasTo(i) <=> HasFrom(j)) /\ (i.ask <=> j.pending)

(* What the items say while x is on its way to the user with item i, sent  *)
(* for the user with item j: the half that x is about is behind, and       *)
(* nothing else is.                                                        *)
Holds(x, i, j) ==
    \/ x = "none" /\ Agrees(i, j) /\ Agrees(j, i)
    \/ x = "subscribe" /\ Agrees(i, j) /\ (HasTo(j) <=> HasFrom(i)) /\ Wants(j)
    \/ x = "unsubscribe" /\ Agrees(i, j) /\ ~Wants(j)
    \/ x = "subscribed" /\ Agrees(j, i) /\ ~j.pending /\ (HasFrom(j) <=> Wants(i))
    \/ x = "pair" /\ Agrees(j, i) /\ ~j.pending /\ (HasFrom(j) <=> Wants(i)) /\ HasTo(j)
    \/ x = "unsubscribed" /\ Agrees(j, i) /\ ~j.pending /\ ~HasFrom(j)
    \/ x = "probe" /\ Agrees(i, j) /\ Agrees(j, i) /\ HasTo(j)

Carries(s, x) == IF x = "none" THEN Noise(s) ELSE IF x = "pair" THEN Then(s) ELSE Only(s, x)

(* The stream s to the user with item i says all that is behind.           *)
Tidy(s, i, j) == \E x : Carries(s, x) /\ Holds(x, i, j)

Sound(i) == i \in Item /\ ItemWellFormed(i)

(* A stanza is read. *)
LEMMA LocalReads ==
    ASSUME NEW i, NEW j, Sound(i), Sound(j)
    PROVE  /\ Holds("unsubscribe", i, j) => Holds("none", j, process_inbound_unsubscribe(i))
           /\ Holds("subscribed", i, j) \/ Holds("pair", i, j) =>
                  Holds("none", j, process_inbound_subscription_approval(i))
           /\ Holds("pair", i, j) => Holds("probe", process_inbound_subscription_approval(i), j)
           /\ Holds("unsubscribed", i, j) => Holds("none", j, process_inbound_subscription_cancellation(i))
           /\ Holds("probe", i, j) => HasTo(j) /\ HasFrom(i) /\ Holds("none", j, i)
           /\ Holds("subscribe", i, j) => /\ HasTo(j) <=> HasFrom(i)
                                          /\ HasTo(i) <=> HasFrom(j)
           /\ Holds("subscribe", i, j) /\ ~HasFrom(i) => Holds("none", j, set_contact_pending_in(i))
           /\ Holds("subscribe", i, j) /\ HasFrom(i) => subscribed(i) = i /\ Holds("subscribed", j, i)
           /\ Holds("subscribe", i, j) /\ HasFrom(i) /\ HasTo(i) => Holds("pair", j, i)
  <1>1. /\ HasTo(i) \in BOOLEAN /\ HasFrom(i) \in BOOLEAN /\ i.ask \in BOOLEAN /\ i.pending \in BOOLEAN
        /\ HasTo(j) \in BOOLEAN /\ HasFrom(j) \in BOOLEAN /\ j.ask \in BOOLEAN /\ j.pending \in BOOLEAN
        /\ (i.ask => ~HasTo(i)) /\ (i.pending => ~HasFrom(i))
        /\ (j.ask => ~HasTo(j)) /\ (j.pending => ~HasFrom(j))
    BY DEF Sound, Item, ItemWellFormed, HasTo, HasFrom
  <1>2. i \in Item /\ ItemWellFormed(i)
    BY DEF Sound
  <1>3. Holds("unsubscribe", i, j) => Holds("none", j, process_inbound_unsubscribe(i))
    <2>1. PICK n : n = process_inbound_unsubscribe(i)
      OBVIOUS
    <2>2. SameOwn(i, n) /\ ~n.pending /\ ~HasFrom(n)
      BY ONLY <1>2, <2>1, OperationHalves
    <2>3. Holds("unsubscribe", i, j) => Holds("none", j, n)
      BY ONLY <1>1, <2>2 DEF Holds, Agrees, SameOwn, Wants
    <2> QED BY <2>1, <2>3
  <1>4. /\ Holds("subscribed", i, j) \/ Holds("pair", i, j) =>
                  Holds("none", j, process_inbound_subscription_approval(i))
        /\ Holds("pair", i, j) => Holds("probe", process_inbound_subscription_approval(i), j)
    <2>1. PICK n : n = process_inbound_subscription_approval(i)
      OBVIOUS
    <2>2. SameContact(i, n) /\ ~n.ask /\ (HasTo(n) <=> HasTo(i) \/ i.ask)
      BY ONLY <1>2, <2>1, OperationHalves
    <2>3. /\ Holds("subscribed", i, j) \/ Holds("pair", i, j) => Holds("none", j, n)
          /\ Holds("pair", i, j) => Holds("probe", n, j)
      BY ONLY <1>1, <2>2 DEF Holds, Agrees, SameContact, Wants
    <2> QED BY <2>1, <2>3
  <1>5. Holds("unsubscribed", i, j) => Holds("none", j, process_inbound_subscription_cancellation(i))
    <2>1. PICK n : n = process_inbound_subscription_cancellation(i)
      OBVIOUS
    <2>2. SameContact(i, n) /\ ~n.ask /\ ~HasTo(n)
      BY ONLY <1>2, <2>1, OperationHalves
    <2>3. Holds("unsubscribed", i, j) => Holds("none", j, n)
      BY ONLY <1>1, <2>2 DEF Holds, Agrees, SameContact, Wants
    <2> QED BY <2>1, <2>3
  <1>6. /\ Holds("probe", i, j) => HasTo(j) /\ HasFrom(i) /\ Holds("none", j, i)
        /\ Holds("subscribe", i, j) => (HasTo(j) <=> HasFrom(i)) /\ (HasTo(i) <=> HasFrom(j))
    BY ONLY <1>1 DEF Holds, Agrees
  <1>7. Holds("subscribe", i, j) /\ ~HasFrom(i) => Holds("none", j, set_contact_pending_in(i))
    <2>1. PICK n : n = set_contact_pending_in(i)
      OBVIOUS
    <2>2. SameOwn(i, n) /\ HasFrom(n) = HasFrom(i) /\ (n.pending <=> ~HasFrom(i))
      BY ONLY <1>2, <2>1, OperationHalves
    <2>3. Holds("subscribe", i, j) /\ ~HasFrom(i) => Holds("none", j, n)
      BY ONLY <1>1, <2>2 DEF Holds, Agrees, SameOwn, Wants
    <2> QED BY <2>1, <2>3
  <1>8. Holds("subscribe", i, j) /\ HasFrom(i) => subscribed(i) = i /\ Holds("subscribed", j, i)
    <2>1. HasFrom(i) => subscribed(i) = i
      BY <1>1 DEF subscribed
    <2>2. Holds("subscribe", i, j) /\ HasFrom(i) => Holds("subscribed", j, i)
      BY ONLY <1>1 DEF Holds, Agrees, Wants
    <2> QED BY <2>1, <2>2
  <1>9. Holds("subscribe", i, j) /\ HasFrom(i) /\ HasTo(i) => Holds("pair", j, i)
    BY ONLY <1>1 DEF Holds, Agrees, Wants
  <1> QED BY <1>3, <1>4, <1>5, <1>6, <1>7, <1>8, <1>9, Zenon

(* A client acts, when nothing is behind. *)
LEMMA LocalActs ==
    ASSUME NEW i, NEW j, Sound(i), Sound(j), Holds("none", i, j)
    PROVE  /\ Holds("none", j, i)
           /\ Holds("subscribe", i, set_contact_pending_out(j))
           /\ Holds("unsubscribe", i, unsubscribe(j))
           /\ Holds("subscribed", i, subscribed(j))
           /\ HasTo(subscribed(j)) => Holds("pair", i, subscribed(j))
           /\ Holds("unsubscribed", i, unsubscribed(j))
           /\ Holds("none", i, Created(j))
           /\ HasTo(j) => Holds("probe", i, j)
           /\ j.ask => Holds("subscribe", i, j)
           /\ HasTo(j) => ~j.ask
  <1>1. /\ HasTo(i) \in BOOLEAN /\ HasFrom(i) \in BOOLEAN /\ i.ask \in BOOLEAN /\ i.pending \in BOOLEAN
        /\ HasTo(j) \in BOOLEAN /\ HasFrom(j) \in BOOLEAN /\ j.ask \in BOOLEAN /\ j.pending \in BOOLEAN
        /\ (i.ask => ~HasTo(i)) /\ (i.pending => ~HasFrom(i))
        /\ (j.ask => ~HasTo(j)) /\ (j.pending => ~HasFrom(j))
    BY DEF Sound, Item, ItemWellFormed, HasTo, HasFrom
  <1>2. j \in Item /\ ItemWellFormed(j)
    BY DEF Sound
  <1>h. Agrees(i, j) /\ Agrees(j, i)
    BY DEF Holds
  <1>3. Holds("subscribe", i, set_contact_pending_out(j))
    <2>1. PICK n : n = set_contact_pending_out(j)
      OBVIOUS
    <2>2. SameContact(j, n) /\ HasTo(n) = HasTo(j) /\ (n.ask <=> ~HasTo(j))
      BY ONLY <1>2, <2>1, OperationHalves
    <2>3. Holds("subscribe", i, n)
      BY ONLY <1>1, <1>h, <2>2 DEF Holds, Agrees, SameContact, Wants
    <2> QED BY <2>1, <2>3
  <1>4. Holds("unsubscribe", i, unsubscribe(j))
    <2>1. PICK n : n = unsubscribe(j)
      OBVIOUS
    <2>2. SameContact(j, n) /\ ~n.ask /\ ~HasTo(n)
      BY ONLY <1>2, <2>1, OperationHalves
    <2>3. Holds("unsubscribe", i, n)
      BY ONLY <1>1, <1>h, <2>2 DEF Holds, Agrees, SameContact, Wants
    <2> QED BY <2>1, <2>3
  <1>5. /\ Holds("subscribed", i, subscribed(j))
        /\ HasTo(subscribed(j)) => Holds("pair", i, subscribed(j))
    <2>1. PICK n : n = subscribed(j)
      OBVIOUS
    <2>2. SameOwn(j, n) /\ ~n.pending /\ (HasFrom(n) <=> HasFrom(j) \/ j.pending)
      BY ONLY <1>2, <2>1, OperationHalves
    <2>3. Holds("subscribed", i, n) /\ (HasTo(n) => Holds("pair", i, n))
      BY ONLY <1>1, <1>h, <2>2 DEF Holds, Agrees, SameOwn, Wants
    <2> QED BY <2>1, <2>3
  <1>6. Holds("unsubscribed", i, unsubscribed(j))
    <2>1. PICK n : n = unsubscribed(j)
      OBVIOUS
    <2>2. SameOwn(j, n) /\ ~n.pending /\ ~HasFrom(n)
      BY ONLY <1>2, <2>1, OperationHalves
    <2>3. Holds("unsubscribed", i, n)
      BY ONLY <1>1, <1>h, <2>2 DEF Holds, Agrees, SameOwn, Wants
    <2> QED BY <2>1, <2>3
  <1>7. Holds("none", i, Created(j))
    <2>1. PICK n : n = Created(j)
      OBVIOUS
    <2>2. SameOwn(j, n) /\ SameContact(j, n)
      BY ONLY <1>2, <2>1, OperationHalves
    <2>3. Holds("none", i, n)
      BY ONLY <1>1, <1>h, <2>2 DEF Holds, Agrees, SameOwn, SameContact
    <2> QED BY <2>1, <2>3
  <1>8. Holds("none", j, i) /\ (HasTo(j) => Holds("probe", i, j)) /\ (j.ask => Holds("subscribe", i, j))
    BY ONLY <1>1, <1>h DEF Holds, Agrees, Wants
  <1> QED BY <1>1, <1>3, <1>4, <1>5, <1>6, <1>7, <1>8, Zenon

(* What the handlers and a client's presence send. *)
LEMMA SubscribedList ==
    ASSUME NEW c \in BOOLEAN, NEW p \in BOOLEAN, NEW out,
           out = <<"subscribed">> \o (IF c THEN <<"available">> ELSE << >>)
                                  \o (IF p THEN <<"probe">> ELSE << >>)
    PROVE  out \in Seq(Stanzas) /\ (p => Then(out)) /\ (~p => Only(out, "subscribed"))
  <1>1. PICK a, b, d : /\ a = <<"subscribed">> /\ b = (IF c THEN <<"available">> ELSE << >>)
                       /\ d = (IF p THEN <<"probe">> ELSE << >>)
    OBVIOUS
  <1>2. a \in Seq(Stanzas) /\ Only(a, "subscribed")
    BY <1>1, CarriedOne DEF Signalling, SubscriptionTypes
  <1>3. b \in Seq(Stanzas) /\ Noise(b)
    BY <1>1, CarriedOne DEF Presences
  <1>4. d \in Seq(Stanzas) /\ (p => Only(d, "probe")) /\ (~p => Noise(d))
    BY <1>1, CarriedOne DEF Signalling
  <1>5. PICK g : g = a \o b
    OBVIOUS
  <1>6. g \in Seq(Stanzas)
    BY <1>2, <1>3, <1>5
  <1>7. Only(g, "subscribed")
    BY <1>2, <1>3, <1>5, CarriedOn
  <1>8. out = g \o d
    BY <1>1, <1>5
  <1>9. (p => Then(g \o d)) /\ (~p => Only(g \o d, "subscribed"))
    BY <1>4, <1>6, <1>7, CarriedOn
  <1>10. g \o d \in Seq(Stanzas)
    BY <1>4, <1>6
  <1> QED BY <1>8, <1>9, <1>10

(* The same for a client that becomes available. *)
LEMMA ArrivalCarries ==
    ASSUME NEW f \in BOOLEAN, NEW p \in BOOLEAN, NEW q \in BOOLEAN, p => ~q, NEW out,
           out = (IF f THEN <<"available">> ELSE << >>) \o (IF p THEN <<"probe">> ELSE << >>)
                 \o (IF q THEN <<"subscribe">> ELSE << >>)
    PROVE  /\ out \in Seq(Stanzas)
           /\ p => Only(out, "probe")
           /\ q => Only(out, "subscribe")
           /\ ~p /\ ~q => Noise(out)
  <1>1. PICK a, b, d : /\ a = (IF f THEN <<"available">> ELSE << >>)
                       /\ b = (IF p THEN <<"probe">> ELSE << >>)
                       /\ d = (IF q THEN <<"subscribe">> ELSE << >>)
    OBVIOUS
  <1>2. a \in Seq(Stanzas) /\ Noise(a)
    BY <1>1, CarriedOne DEF Presences
  <1>3. b \in Seq(Stanzas) /\ (p => Only(b, "probe")) /\ (~p => Noise(b))
    BY <1>1, CarriedOne DEF Signalling
  <1>4. d \in Seq(Stanzas) /\ (q => Only(d, "subscribe")) /\ (~q => Noise(d))
    BY <1>1, CarriedOne DEF Signalling, SubscriptionTypes
  <1>5. PICK g : g = a \o b
    OBVIOUS
  <1>6. g \in Seq(Stanzas)
    BY <1>2, <1>3, <1>5
  <1>7. (p => Only(g, "probe")) /\ (~p => Noise(g))
    BY <1>2, <1>3, <1>5, CarriedOn
  <1>8. out = g \o d
    BY <1>1, <1>5
  <1>9. /\ p => Only(g \o d, "probe")
        /\ q => Only(g \o d, "subscribe")
        /\ ~p /\ ~q => Noise(g \o d)
    BY <1>4, <1>6, <1>7, CarriedOn
  <1>10. g \o d \in Seq(Stanzas)
    BY <1>4, <1>6
  <1> QED BY <1>8, <1>9, <1>10

(* Where both rosters are on this server and agree, the one that is asked  *)
(* does not matter.                                                        *)
LEMMA EitherRoster ==
    ASSUME NEW u, NEW i, NEW j, j = roster[Other(u)]
    PROVE  /\ (HasTo(i) <=> HasFrom(j)) => is_user_subscribed(u, i) = HasTo(i)
           /\ (HasFrom(i) <=> HasTo(j)) => is_contact_subscribed(u, i) = HasFrom(i)
  BY DEF is_user_subscribed, is_contact_subscribed, HasTo, HasFrom

(* The two answers again, on one server. *)
Grants(u, i, j, e) ==
    /\ exists[u] = TRUE /\ j = roster[Other(u)] /\ (HasTo(subscribed(i)) <=> HasFrom(j))
    /\ e = outbound_subscribed(u, i, TRUE)

(* An approval carries "subscribed", and a probe after it if the user is   *)
(* subscribed.                                                             *)
LEMMA LocalSubscribed ==
    ASSUME NEW u, NEW i, NEW j, NEW e, Grants(u, i, j, e)
    PROVE  /\ e.item = subscribed(i) /\ e.out \in Seq(Stanzas)
           /\ HasTo(subscribed(i)) => Then(e.out)
           /\ ~HasTo(subscribed(i)) => Only(e.out, "subscribed")
           /\ \E saves, pushes, out : e = Effect(subscribed(i), saves, pushes, out)
  <1>g. /\ exists[u] = TRUE /\ j = roster[Other(u)] /\ (HasTo(subscribed(i)) <=> HasFrom(j))
        /\ e = outbound_subscribed(u, i, TRUE)
    BY Zenon DEF Grants
  <1>0. PICK n : n = subscribed(i)
    OBVIOUS
  <1>1. PICK c \in BOOLEAN : c = (client[u] = "available")
    OBVIOUS
  <1>2. PICK p \in BOOLEAN : p = is_user_subscribed(u, Kept(u, n, TRUE)) /\ p = HasTo(n)
    <2>1. Kept(u, n, TRUE) = n
      BY <1>g DEF Kept, Saved
    <2>2. is_user_subscribed(u, n) = HasTo(n)
      BY <1>g, <1>0, EitherRoster
    <2>3. HasTo(n) \in BOOLEAN
      BY DEF HasTo
    <2> QED BY <2>1, <2>2, <2>3
  <1>3. PICK out : out = <<"subscribed">> \o (IF c THEN <<"available">> ELSE << >>)
                                     \o (IF p THEN <<"probe">> ELSE << >>)
    OBVIOUS
  <1>4. \E saves, pushes : e = Effect(n, saves, pushes, out)
    BY <1>g, <1>0, <1>1, <1>2, <1>3, Zenon DEF outbound_subscribed, send_presence_of_available_resources
  <1>5. e.item = n /\ e.out = out
    BY ONLY <1>4, EffectIs
  <1>6. out \in Seq(Stanzas) /\ (p => Then(out)) /\ (~p => Only(out, "subscribed"))
    BY ONLY <1>3, c \in BOOLEAN, p \in BOOLEAN, SubscribedList
  <1> QED BY ONLY <1>0, <1>2, <1>4, <1>5, <1>6, Zenon

Denies(u, i, e) == exists[u] = TRUE /\ e = outbound_unsubscribed(u, i, TRUE)

(* A denial carries "unsubscribed", or nothing where nothing changes.      *)
LEMMA LocalUnsubscribed ==
    ASSUME NEW u, NEW i, NEW e, Denies(u, i, e)
    PROVE  /\ e.item = unsubscribed(i) /\ e.out \in Seq(Stanzas)
           /\ unsubscribed(i) # i => Only(e.out, "unsubscribed")
           /\ unsubscribed(i) = i => e.out = << >>
  <1>1. PICK c \in BOOLEAN : c = (HasFrom(i) /\ client[u] = "available")
    OBVIOUS
  <1>2. Saved(u, TRUE) /\ e = outbound_unsubscribed(u, i, TRUE)
    BY Zenon DEF Saved, Denies
  <1>3. e.item = unsubscribed(i)
    <2>1. \E out : \E saves, pushes : e = Effect(unsubscribed(i), saves, pushes, out)
      BY <1>2, Zenon DEF outbound_unsubscribed
    <2> QED BY ONLY <2>1, EffectIs
  <1>4. CASE unsubscribed(i) # i
    <2> DEFINE a == <<"unsubscribed">>
               b == IF c THEN <<"unavailable">> ELSE << >>
               out == a \o b
    <2>1. \E saves, pushes : e = Effect(unsubscribed(i), saves, pushes, out)
      BY <1>1, <1>2, <1>4, Zenon DEF outbound_unsubscribed
    <2>2. e.out = out
      BY ONLY <2>1, EffectIs
    <2>3. a \in Seq(Stanzas) /\ Only(a, "unsubscribed")
      BY CarriedOne DEF Signalling, SubscriptionTypes
    <2>4. b \in Seq(Stanzas) /\ Noise(b)
      BY CarriedOne DEF Presences
    <2> HIDE DEF a, b
    <2>5. a \o b \in Seq(Stanzas) /\ Only(a \o b, "unsubscribed")
      BY <2>3, <2>4, CarriedOn
    <2> QED BY ONLY <1>3, <1>4, <2>2, <2>5, Zenon
  <1>5. CASE unsubscribed(i) = i
    <2>1. \E saves, pushes : e = Effect(unsubscribed(i), saves, pushes, << >>)
      BY <1>2, <1>5, Zenon DEF outbound_unsubscribed
    <2>2. e.out = << >>
      BY ONLY <2>1, EffectIs
    <2>3. << >> \in Seq(Stanzas)
      OBVIOUS
    <2> QED BY <1>3, <1>5, <2>2, <2>3
  <1> QED BY <1>4, <1>5

(* What a handler on one server finds. *)
Meets(u, v, i, j) ==
    /\ exists[u] = TRUE /\ v = Other(u) /\ i = roster[u] /\ j = roster[v]
    /\ Sound(i) /\ Sound(j)

(* One stanza of a subscription arrives: what it was about is settled, and *)
(* what the answer is about is on its way.                                 *)
LEMMA LocalInbound ==
    ASSUME NEW u, NEW v, NEW i, NEW j, Meets(u, v, i, j),
           NEW type \in Signalling, Holds(type, i, j),
           NEW e, e = handle_inbound_presence_subscriptions_and_probes(u, type, TRUE)
    PROVE  e.out \in Seq(Stanzas) /\ Tidy(e.out, j, e.item)
  <1>1. /\ exists[u] = TRUE /\ v = Other(u) /\ i = roster[u] /\ j = roster[v]
        /\ Sound(i) /\ Sound(j)
    BY Zenon DEF Meets
  <1>2. << >> \in Seq(Stanzas) /\ Noise(<< >>)
    BY CarriedOne
  <1>3. ASSUME NEW new, e = Inbound(u, TRUE, new), Holds("none", j, new)
        PROVE  e.out \in Seq(Stanzas) /\ Tidy(e.out, j, e.item)
    <2>1. \E saves, pushes : e = Effect(new, saves, pushes, << >>)
      BY <1>3, Zenon DEF Inbound
    <2>2. e.item = new /\ e.out = << >>
      BY ONLY <2>1, EffectIs
    <2>3. Carries(<< >>, "none")
      BY <1>2 DEF Carries
    <2> QED BY <1>2, <1>3, <2>2, <2>3, Zenon DEF Tidy
  <1>4. CASE type = "unsubscribe"
    <2>1. PICK new : new = process_inbound_unsubscribe(i)
      OBVIOUS
    <2>2. e = Inbound(u, TRUE, new)
      BY <1>1, <1>4, <2>1, Zenon DEF handle_inbound_presence_subscriptions_and_probes
    <2>3. Holds("none", j, new)
      BY ONLY <1>1, <1>4, <2>1, Holds(type, i, j), LocalReads, Zenon
    <2> QED BY <1>3, <2>2, <2>3
  <1>5. CASE type = "subscribed"
    <2>1. PICK new : new = process_inbound_subscription_approval(i)
      OBVIOUS
    <2>2. e = Inbound(u, TRUE, new)
      BY <1>1, <1>5, <2>1, Zenon DEF handle_inbound_presence_subscriptions_and_probes
    <2>3. Holds("none", j, new)
      BY ONLY <1>1, <1>5, <2>1, Holds(type, i, j), LocalReads, Zenon
    <2> QED BY <1>3, <2>2, <2>3
  <1>6. CASE type = "unsubscribed"
    <2>1. PICK new : new = process_inbound_subscription_cancellation(i)
      OBVIOUS
    <2>2. e = Inbound(u, TRUE, new)
      BY <1>1, <1>6, <2>1, Zenon DEF handle_inbound_presence_subscriptions_and_probes
    <2>3. Holds("none", j, new)
      BY ONLY <1>1, <1>6, <2>1, Holds(type, i, j), LocalReads, Zenon
    <2> QED BY <1>3, <2>2, <2>3
  <1>7. CASE type = "probe"
    <2>1. e = inbound_probe(u, i, TRUE)
      BY <1>1, <1>7, Zenon DEF handle_inbound_presence_subscriptions_and_probes
    <2>2. HasTo(j) /\ HasFrom(i) /\ Holds("none", j, i)
      BY ONLY <1>1, <1>7, Holds(type, i, j), LocalReads, Zenon
    <2>3. is_contact_subscribed(u, i) = TRUE
      BY <1>1, <2>2, EitherRoster
    <2>4. PICK out : out = PresenceOrUnavailable(u)
      OBVIOUS
    <2>5. \E saves, pushes : e = Effect(i, saves, pushes, out)
      BY <2>1, <2>3, <2>4, Zenon DEF inbound_probe
    <2>6. e.item = i /\ e.out = out
      BY ONLY <2>5, EffectIs
    <2>7. out \in Seq(Stanzas) /\ Noise(out)
      BY <2>4, CarriedOne DEF PresenceOrUnavailable, Presences
    <2>8. Carries(out, "none")
      BY <2>7 DEF Carries
    <2> QED BY <2>2, <2>6, <2>7, <2>8, Zenon DEF Tidy
  <1>8. CASE type = "subscribe"
    <2>1. e = inbound_subscribe(u, i, TRUE)
      BY <1>1, <1>8, Zenon DEF handle_inbound_presence_subscriptions_and_probes
    <2>2. (HasTo(j) <=> HasFrom(i)) /\ (HasTo(i) <=> HasFrom(j))
      BY ONLY <1>1, <1>8, Holds(type, i, j), LocalReads, Zenon
    <2>3. is_contact_subscribed(u, i) = HasFrom(i)
      BY <1>1, <2>2, EitherRoster
    <2>4. CASE ~HasFrom(i)
      <3>1. PICK new : new = set_contact_pending_in(i)
        OBVIOUS
      <3>2. PICK out : out = <<"unavailable">>
        OBVIOUS
      <3>3. \E saves, pushes : e = Effect(new, saves, pushes, out)
        BY <2>1, <2>3, <2>4, <3>1, <3>2, Zenon DEF inbound_subscribe
      <3>4. e.item = new /\ e.out = out
        BY ONLY <3>3, EffectIs
      <3>5. out \in Seq(Stanzas) /\ Noise(out)
        BY <3>2, CarriedOne DEF Presences
      <3>6. Carries(out, "none")
        BY <3>5 DEF Carries
      <3>7. Holds("none", j, new)
        BY ONLY <1>1, <1>8, <2>4, <3>1, Holds(type, i, j), LocalReads, Zenon
      <3> QED BY <3>4, <3>5, <3>6, <3>7, Zenon DEF Tidy
    <2>5. CASE HasFrom(i)
      <3>1. PICK f : f = outbound_subscribed(u, i, TRUE)
        OBVIOUS
      <3>2. subscribed(i) = i /\ Holds("subscribed", j, i) /\ (HasTo(i) => Holds("pair", j, i))
        BY ONLY <1>1, <1>8, <2>5, Holds(type, i, j), LocalReads, Zenon
      <3>3. HasTo(subscribed(i)) <=> HasFrom(j)
        BY <2>2, <3>2
      <3>4. /\ f.item = i /\ f.out \in Seq(Stanzas)
            /\ HasTo(i) => Then(f.out)
            /\ ~HasTo(i) => Only(f.out, "subscribed")
            /\ \E saves, pushes, out : f = Effect(i, saves, pushes, out)
        <4>1. j = roster[Other(u)]
          BY <1>1
        <4>2. /\ f.item = subscribed(i) /\ f.out \in Seq(Stanzas)
              /\ HasTo(subscribed(i)) => Then(f.out)
              /\ ~HasTo(subscribed(i)) => Only(f.out, "subscribed")
              /\ \E saves, pushes, out : f = Effect(subscribed(i), saves, pushes, out)
          <5>1. Grants(u, i, j, f)
            BY ONLY <1>1, <3>1, <3>3, <4>1, Zenon DEF Grants
          <5> QED BY ONLY <5>1, LocalSubscribed, Zenon
        <4> QED BY <3>2, <4>2
      <3>5. PICK p : p = PresenceOrUnavailable(u)
        OBVIOUS
      <3>6. p \in Seq(Stanzas) /\ Noise(p)
        BY <3>5, CarriedOne DEF PresenceOrUnavailable, Presences
      <3>7. e = [f EXCEPT !.out = f.out \o p]
        BY <2>1, <2>3, <2>5, <3>1, <3>5 DEF inbound_subscribe
      <3>8. e.item = i /\ e.out = f.out \o p
        BY <3>4, <3>7 DEF Effect
      <3>9. /\ f.out \o p \in Seq(Stanzas)
            /\ HasTo(i) => Then(f.out \o p)
            /\ ~HasTo(i) => Only(f.out \o p, "subscribed")
        BY ONLY <3>4, <3>6, CarriedOn
      <3>10. CASE HasTo(i)
        <4>1. Carries(e.out, "pair")
          BY <3>8, <3>9, <3>10 DEF Carries
        <4> QED BY <3>2, <3>8, <3>9, <3>10, <4>1, Zenon DEF Tidy
      <3>11. CASE ~HasTo(i)
        <4>1. Carries(e.out, "subscribed")
          BY <3>8, <3>9, <3>11 DEF Carries
        <4> QED BY <3>2, <3>8, <3>9, <4>1, Zenon DEF Tidy
      <3> QED BY <3>10, <3>11
    <2> QED BY <2>4, <2>5
  <1> QED BY <1>4, <1>5, <1>6, <1>7, <1>8 DEF Signalling, SubscriptionTypes

(* The first of a "subscribed" and a probe arrives. *)
LEMMA LocalPair ==
    ASSUME NEW u, NEW v, NEW i, NEW j, Meets(u, v, i, j), Holds("pair", i, j),
           NEW e, e = handle_inbound_presence_subscriptions_and_probes(u, "subscribed", TRUE)
    PROVE  e.out = << >> /\ Holds("probe", e.item, j)
  <1>1. /\ i = roster[u] /\ Sound(i) /\ Sound(j)
    BY Zenon DEF Meets
  <1>2. PICK new : new = process_inbound_subscription_approval(i)
    OBVIOUS
  <1>3. e = Inbound(u, TRUE, new)
    BY <1>1, <1>2, Zenon DEF handle_inbound_presence_subscriptions_and_probes
  <1>4. \E saves, pushes : e = Effect(new, saves, pushes, << >>)
    BY <1>3, Zenon DEF Inbound
  <1>5. e.item = new /\ e.out = << >>
    BY ONLY <1>4, EffectIs
  <1>6. Holds("probe", new, j)
    BY ONLY <1>1, <1>2, Holds("pair", i, j), LocalReads, Zenon
  <1> QED BY <1>5, <1>6

(* A client acts. *)
LEMMA LocalOutbound ==
    ASSUME NEW u, NEW v, NEW i, NEW j, Meets(u, v, i, j), Holds("none", j, i),
           NEW type \in SubscriptionTypes,
           NEW e, e = handle_outbound_presence_subscriptions_and_probes(u, type, i, TRUE)
    PROVE  e.out \in Seq(Stanzas) /\ Tidy(e.out, j, e.item)
  <1>1. /\ exists[u] = TRUE /\ v = Other(u) /\ i = roster[u] /\ j = roster[v]
        /\ Sound(i) /\ Sound(j)
    BY Zenon DEF Meets
  <1>2. ASSUME NEW new, NEW z \in SubscriptionTypes, \E saves, pushes : e = Effect(new, saves, pushes, <<z>>),
               Holds(z, j, new)
        PROVE  e.out \in Seq(Stanzas) /\ Tidy(e.out, j, e.item)
    <2>1. e.item = new /\ e.out = <<z>>
      BY ONLY <1>2, EffectIs
    <2>2. <<z>> \in Seq(Stanzas) /\ Only(<<z>>, z)
      BY CarriedOne DEF Signalling
    <2>3. Carries(e.out, z)
      BY <2>1, <2>2 DEF Carries, SubscriptionTypes
    <2> QED BY <1>2, <2>1, <2>2, <2>3, Zenon DEF Tidy
  <1>3. CASE type = "subscribe"
    <2>1. PICK new : new = set_contact_pending_out(i)
      OBVIOUS
    <2>2. \E saves, pushes : e = Effect(new, saves, pushes, <<"subscribe">>)
      BY <1>3, <2>1, Zenon DEF handle_outbound_presence_subscriptions_and_probes, outbound_subscribe
    <2>3. Holds("subscribe", j, new)
      BY ONLY <1>1, <2>1, Holds("none", j, i), LocalActs, Zenon
    <2> QED BY <1>2, <2>2, <2>3 DEF SubscriptionTypes
  <1>4. CASE type = "unsubscribe"
    <2>1. PICK new : new = unsubscribe(i)
      OBVIOUS
    <2>2. \E saves, pushes : e = Effect(new, saves, pushes, <<"unsubscribe">>)
      BY <1>4, <2>1, Zenon DEF handle_outbound_presence_subscriptions_and_probes, outbound_unsubscribe
    <2>3. Holds("unsubscribe", j, new)
      BY ONLY <1>1, <2>1, Holds("none", j, i), LocalActs, Zenon
    <2> QED BY <1>2, <2>2, <2>3 DEF SubscriptionTypes
  <1>5. CASE type = "subscribed"
    <2>1. e = outbound_subscribed(u, i, TRUE)
      BY <1>5, Zenon DEF handle_outbound_presence_subscriptions_and_probes
    <2>2. PICK n : n = subscribed(i)
      OBVIOUS
    <2>3. Holds("subscribed", j, n) /\ (HasTo(n) => Holds("pair", j, n))
      BY ONLY <1>1, <2>2, Holds("none", j, i), LocalActs, Zenon
    <2>4. HasTo(n) <=> HasFrom(j)
      <3>1. SameOwn(i, n)
        BY <1>1, <2>2, OperationHalves DEF Sound
      <3> QED BY <3>1 DEF Holds, Agrees, SameOwn
    <2>5. /\ e.item = n /\ e.out \in Seq(Stanzas)
          /\ HasTo(n) => Then(e.out)
          /\ ~HasTo(n) => Only(e.out, "subscribed")
      <3>1. j = roster[Other(u)]
        BY <1>1
      <3>2. HasTo(subscribed(i)) <=> HasFrom(j)
        BY <2>2, <2>4
      <3>3. Grants(u, i, j, e)
        BY ONLY <1>1, <2>1, <3>1, <3>2, Zenon DEF Grants
      <3> QED BY ONLY <2>2, <3>3, LocalSubscribed, Zenon
    <2>6. CASE HasTo(n)
      <3>1. Carries(e.out, "pair")
        BY <2>5, <2>6 DEF Carries
      <3> QED BY <2>3, <2>5, <2>6, <3>1, Zenon DEF Tidy
    <2>7. CASE ~HasTo(n)
      <3>1. Carries(e.out, "subscribed")
        BY <2>5, <2>7 DEF Carries
      <3> QED BY <2>3, <2>5, <3>1, Zenon DEF Tidy
    <2> QED BY <2>6, <2>7
  <1>6. CASE type = "unsubscribed"
    <2>1. e = outbound_unsubscribed(u, i, TRUE)
      BY <1>6, Zenon DEF handle_outbound_presence_subscriptions_and_probes
    <2>2. PICK n : n = unsubscribed(i)
      OBVIOUS
    <2>3. Holds("unsubscribed", j, n)
      BY ONLY <1>1, <2>2, Holds("none", j, i), LocalActs, Zenon
    <2>4. /\ e.item = n /\ e.out \in Seq(Stanzas)
          /\ n # i => Only(e.out, "unsubscribed")
          /\ n = i => e.out = << >>
      <3>1. Denies(u, i, e)
        BY ONLY <1>1, <2>1, Zenon DEF Denies
      <3>2. /\ e.item = unsubscribed(i) /\ e.out \in Seq(Stanzas)
            /\ unsubscribed(i) # i => Only(e.out, "unsubscribed")
            /\ unsubscribed(i) = i => e.out = << >>
        BY ONLY <3>1, LocalUnsubscribed, Zenon
      <3> QED BY ONLY <2>2, <3>2
    <2>5. CASE n # i
      <3>1. Carries(e.out, "unsubscribed")
        BY <2>4, <2>5 DEF Carries
      <3> QED BY <2>3, <2>4, <3>1, Zenon DEF Tidy
    <2>6. CASE n = i
      <3>1. Carries(e.out, "none")
        BY <2>4, <2>6, CarriedOne DEF Carries
      <3> QED BY <2>4, <2>6, <3>1, Zenon DEF Tidy
    <2> QED BY <2>5, <2>6
  <1> QED BY <1>3, <1>4, <1>5, <1>6 DEF SubscriptionTypes

(* The item i of a user whose contact is gone: what is left of the         *)
(* subscriptions is about to be cancelled by what is in s, and nothing     *)
(* else comes.  Nothing goes to the account that is gone, in t, before it  *)
(* has ended the user's own subscription.                                  *)
Parted(i, s, t) ==
    /\ ~In("subscribe", s) /\ ~In("subscribed", s) /\ ~In("probe", s)
    /\ HasTo(i) => In("unsubscribed", s) /\ t = << >>
    /\ HasFrom(i) \/ i.pending => In("unsubscribe", s)

(* Two users of one server, with items i and j, with s and t on their way  *)
(* to them; a and b say who of them exists.                                *)
Between(a, b, i, j, s, t) ==
    /\ a /\ b => (Noise(t) /\ Tidy(s, i, j)) \/ (Noise(s) /\ Tidy(t, j, i))
    /\ ~a => i = NoItem /\ (b => Parted(j, t, s))
    /\ ~b => j = NoItem /\ (a => Parted(i, s, t))

Bare(i) == ~HasTo(i) /\ ~HasFrom(i) /\ ~i.pending

(* Either of the two users may come first. *)
LEMMA BetweenBoth ==
    ASSUME NEW a, NEW b, NEW i, NEW j, NEW s, NEW t, Between(a, b, i, j, s, t)
    PROVE  Between(b, a, j, i, t, s)
  BY Zenon DEF Between

(* Once everything has arrived. *)
LEMMA BetweenQuiet ==
    ASSUME NEW a \in BOOLEAN, NEW b \in BOOLEAN, NEW i, NEW j, Sound(i), Sound(j),
           Between(a, b, i, j, << >>, << >>)
    PROVE  /\ a /\ b => Holds("none", i, j) /\ Holds("none", j, i)
           /\ a /\ ~b => Bare(i)
  <1>1. \A x : Carries(<< >>, x) => x = "none"
    BY CarriedOne DEF Carries
  <1>2. ASSUME a, b PROVE Holds("none", i, j) /\ Holds("none", j, i)
    <2>1. Tidy(<< >>, i, j) \/ Tidy(<< >>, j, i)
      BY <1>2, Zenon DEF Between
    <2>2. Holds("none", i, j) \/ Holds("none", j, i)
      BY <1>1, <2>1 DEF Tidy
    <2> QED BY <2>2, LocalActs, Zenon
  <1>3. ASSUME a, ~b PROVE Bare(i)
    <2>1. Parted(i, << >>, << >>)
      BY <1>3, Zenon DEF Between
    <2>2. \A x : ~In(x, << >>)
      BY OneStanza
    <2>3. i.pending \in BOOLEAN
      BY DEF Sound, Item
    <2> QED BY ONLY <2>1, <2>2, <2>3 DEF Parted, Bare
  <1> QED BY <1>2, <1>3

(* A client acts. *)
LEMMA BetweenActs ==
    ASSUME NEW b \in BOOLEAN, NEW i, NEW j, NEW n, NEW out, Sound(i), Sound(j), Sound(n),
           Between(TRUE, b, i, j, << >>, << >>),
           b => Tidy(out, j, n), Bare(i) => Bare(n)
    PROVE  Between(TRUE, b, n, j, << >>, out)
  <1>1. Noise(<< >>) /\ \A x : ~In(x, << >>)
    BY CarriedOne, OneStanza
  <1>2. CASE b
    BY <1>1, <1>2 DEF Between
  <1>3. CASE ~b
    <2>0. PICK a \in BOOLEAN : a = TRUE
      OBVIOUS
    <2>1. Bare(i)
      <3>1. Between(a, b, i, j, << >>, << >>) /\ a
        BY <2>0
      <3> QED BY ONLY <1>3, <3>1, a \in BOOLEAN, b \in BOOLEAN, Sound(i), Sound(j), BetweenQuiet
    <2>2. Parted(n, << >>, out)
      <3>1. n.pending \in BOOLEAN
        BY DEF Sound, Item
      <3> QED BY <1>1, <2>1, <3>1 DEF Bare, Parted
    <2>3. j = NoItem
      BY <1>3, Zenon DEF Between
    <2> QED BY <1>3, <2>2, <2>3 DEF Between
  <1> QED BY <1>2, <1>3

(* Presence arrives. *)
LEMMA BetweenHears ==
    ASSUME NEW a \in BOOLEAN, NEW b \in BOOLEAN, NEW i, NEW j,
           NEW s \in Seq(Stanzas), NEW t \in Seq(Stanzas),
           Between(a, b, i, j, s, t), s # << >>, Head(s) \in Presences
    PROVE  Between(a, b, i, j, Tail(s), t)
  <1>1. PICK r : r = Tail(s)
    OBVIOUS
  <1>2. Noise(s) => Noise(r)
    BY <1>1, CarriedAway
  <1>3. \A x : x \notin Presences /\ Only(s, x) => Only(r, x)
    BY <1>1, CarriedAway
  <1>4. Then(s) => Then(r)
    BY <1>1, CarriedAway
  <1>5. Tidy(s, i, j) => Tidy(r, i, j)
    <2>1. \A x : Holds(x, i, j) => x \notin Presences
      BY DEF Holds, Presences
    <2>2. \A x : Holds(x, i, j) /\ Carries(s, x) => Carries(r, x)
      BY <1>2, <1>3, <1>4, <2>1 DEF Carries
    <2> QED BY <2>2, Zenon DEF Tidy
  <1>6. \A x : In(x, s) <=> x = Head(s) \/ In(x, r)
    BY <1>1, StreamTail
  <1>7. /\ In("subscribe", s) <=> In("subscribe", r)
        /\ In("subscribed", s) <=> In("subscribed", r)
        /\ In("probe", s) <=> In("probe", r)
        /\ In("unsubscribed", s) <=> In("unsubscribed", r)
        /\ In("unsubscribe", s) <=> In("unsubscribe", r)
    BY ONLY <1>6, Head(s) \in Presences DEF Presences
  <1>8. Parted(i, s, t) => Parted(i, r, t)
    BY ONLY <1>7, Zenon DEF Parted
  <1>9. Parted(j, t, s) => Parted(j, t, r)
    BY s # << >>, Zenon DEF Parted
  <1> QED BY ONLY <1>1, <1>2, <1>5, <1>8, <1>9, Between(a, b, i, j, s, t), Zenon DEF Between

(* A stanza of a subscription arrives while both users exist: it is the    *)
(* only one, or a "subscribed" that a probe follows.                       *)
LEMMA BetweenFinds ==
    ASSUME NEW i, NEW j, NEW s \in Seq(Stanzas), NEW t \in Seq(Stanzas), NEW h,
           Between(TRUE, TRUE, i, j, s, t), s # << >>, h = Head(s), h \notin Presences
    PROVE  /\ Noise(t)
           /\ \/ Holds(h, i, j) /\ Noise(Tail(s))
              \/ h = "subscribed" /\ Holds("pair", i, j) /\ Only(Tail(s), "probe")
  <1>1. ~Noise(s)
    BY CarriedAway
  <1>2. Noise(t) /\ Tidy(s, i, j)
    BY <1>1, Zenon DEF Between
  <1>3. PICK x : Carries(s, x) /\ Holds(x, i, j)
    BY <1>2 DEF Tidy
  <1>4. CASE x = "pair"
    <2>1. Then(s)
      BY <1>3, <1>4 DEF Carries
    <2>2. h = "subscribed" /\ Only(Tail(s), "probe")
      BY <2>1, CarriedAway
    <2> QED BY <1>2, <1>3, <1>4, <2>2
  <1>5. CASE x # "pair"
    <2>1. Only(s, x)
      BY <1>1, <1>3, <1>5 DEF Carries
    <2>2. x = h /\ Noise(Tail(s))
      BY <2>1, CarriedAway
    <2> QED BY <1>2, <1>3, <2>2
  <1> QED BY <1>4, <1>5

(* It is read, and what it was about is settled. *)
LEMMA BetweenSettles ==
    ASSUME NEW i, NEW j, NEW r, NEW t \in Seq(Stanzas), NEW out \in Seq(Stanzas),
           Noise(t), Noise(r), Tidy(out, j, i)
    PROVE  Between(TRUE, TRUE, i, j, r, t \o out)
  <1>1. PICK x : Carries(out, x) /\ Holds(x, j, i)
    BY DEF Tidy
  <1>2. Carries(t \o out, x)
    <2>1. /\ Noise(out) => Noise(t \o out)
          /\ Only(out, x) => Only(t \o out, x)
          /\ Then(out) => Then(t \o out)
      BY CarriedOn
    <2> QED BY <1>1, <2>1 DEF Carries
  <1>3. Tidy(t \o out, j, i)
    BY <1>1, <1>2 DEF Tidy
  <1> QED BY <1>3 DEF Between

(* It was the first of two. *)
LEMMA BetweenFollows ==
    ASSUME NEW i, NEW j, NEW r, NEW t, Noise(t), Only(r, "probe"), Holds("probe", i, j)
    PROVE  Between(TRUE, TRUE, i, j, r, t)
  <1>1. Carries(r, "probe")
    BY DEF Carries
  <1>2. Tidy(r, i, j)
    BY <1>1 DEF Tidy
  <1> QED BY <1>2 DEF Between

(* The contact is gone, and its farewell arrives. *)
Farewell(h, i, n) ==
    \/ h = "unsubscribe" /\ SameOwn(i, n) /\ ~n.pending /\ ~HasFrom(n)
    \/ h = "unsubscribed" /\ SameContact(i, n) /\ ~HasTo(n)

(* It ends what it is about, and the rest of it is still to come. *)
LEMMA BetweenParts ==
    ASSUME NEW i, NEW j, NEW n, NEW s \in Seq(Stanzas), NEW t \in Seq(Stanzas), NEW h,
           Between(TRUE, FALSE, i, j, s, t), s # << >>, h = Head(s), h \in Signalling
    PROVE  /\ h \in {"unsubscribe", "unsubscribed"}
           /\ Farewell(h, i, n) => Between(TRUE, FALSE, n, j, Tail(s), t)
  <1>1. Parted(i, s, t) /\ j = NoItem
    BY Zenon DEF Between
  <1>2. PICK r : r = Tail(s)
    OBVIOUS
  <1>3. \A x : In(x, s) <=> x = h \/ In(x, r)
    BY <1>2, StreamTail
  <1>4. h # "subscribe" /\ h # "subscribed" /\ h # "probe"
    BY ONLY <1>1, <1>3 DEF Parted
  <1>5. h \in {"unsubscribe", "unsubscribed"}
    BY <1>4 DEF Signalling, SubscriptionTypes
  <1>6. ~In("subscribe", r) /\ ~In("subscribed", r) /\ ~In("probe", r)
    BY ONLY <1>1, <1>3 DEF Parted
  <1>7. ASSUME h = "unsubscribe", SameOwn(i, n), ~n.pending, ~HasFrom(n) PROVE Parted(n, r, t)
    <2>1. In("unsubscribed", s) => In("unsubscribed", r)
      BY ONLY <1>3, <1>7
    <2>2. HasTo(n) => In("unsubscribed", s) /\ t = << >>
      BY <1>1, <1>7 DEF Parted, SameOwn
    <2> QED BY <1>6, <1>7, <2>1, <2>2 DEF Parted
  <1>8. ASSUME h = "unsubscribed", SameContact(i, n), ~HasTo(n) PROVE Parted(n, r, t)
    <2>1. In("unsubscribe", s) => In("unsubscribe", r)
      BY ONLY <1>3, <1>8
    <2>2. HasFrom(n) \/ n.pending => In("unsubscribe", s)
      BY <1>1, <1>8 DEF Parted, SameContact
    <2> QED BY <1>6, <1>8, <2>1, <2>2 DEF Parted
  <1>9. Farewell(h, i, n) => Parted(n, r, t)
    BY <1>7, <1>8, Zenon DEF Farewell
  <1>10. Parted(n, r, t) => Between(TRUE, FALSE, n, j, r, t)
    BY <1>1 DEF Between
  <1> QED BY <1>2, <1>5, <1>9, <1>10

(* The account that is gone answers: at most with unavailable presence. *)
Silent(out) == out \in {<< >>, <<"unavailable">>}

(* Such an answer changes nothing for the user who is left. *)
LEMMA BetweenEmpty ==
    ASSUME NEW b \in BOOLEAN, NEW i, NEW j, NEW s, NEW t \in Seq(Stanzas), NEW out,
           Between(FALSE, b, i, j, s, t), s # << >>
    PROVE  /\ i = NoItem /\ ~HasTo(j)
           /\ \A r : Silent(out) => Between(FALSE, b, i, j, r, t \o out)
  <1>1. i = NoItem /\ (b => Parted(j, t, s)) /\ (~b => j = NoItem)
    BY Zenon DEF Between
  <1>2. ~HasTo(j)
    <2>1. CASE b
      BY <1>1, <2>1 DEF Parted
    <2>2. CASE ~b
      BY <1>1, <2>2 DEF NoItem, HasTo
    <2> QED BY <2>1, <2>2
  <1>3. ASSUME NEW r, Silent(out) PROVE Between(FALSE, b, i, j, r, t \o out)
    <2>1. out \in Seq(Stanzas) /\ \A x : In(x, out) => x = "unavailable"
      <3>1. "unavailable" \in Stanzas
        BY DEF Stanzas
      <3>2. CASE out = << >>
        BY <3>2, OneStanza
      <3>3. CASE out = <<"unavailable">>
        BY <3>1, <3>3, OneStanza
      <3> QED BY <1>3, <3>2, <3>3 DEF Silent
    <2>2. \A x : In(x, t \o out) <=> In(x, t) \/ In(x, out)
      BY <2>1, StreamFacts
    <2>3. PICK g : g = t \o out
      OBVIOUS
    <2>4. /\ In("subscribe", t) <=> In("subscribe", g)
          /\ In("subscribed", t) <=> In("subscribed", g)
          /\ In("probe", t) <=> In("probe", g)
          /\ In("unsubscribe", t) <=> In("unsubscribe", g)
      BY ONLY <2>1, <2>2, <2>3
    <2>5. Parted(j, t, s) => Parted(j, g, r)
      BY ONLY <1>2, <2>4, Zenon DEF Parted
    <2> QED BY <1>1, <2>3, <2>5 DEF Between
  <1> QED BY <1>1, <1>2, <1>3

(* The account is deleted. *)
LEMMA BetweenDeletes ==
    ASSUME NEW b \in BOOLEAN, NEW i, NEW j, NEW out \in Seq(Stanzas), Sound(i), Sound(j),
           Between(TRUE, b, i, j, << >>, << >>),
           ~In("subscribe", out), ~In("subscribed", out), ~In("probe", out),
           HasFrom(i) => In("unsubscribed", out),
           HasTo(i) \/ i.ask => In("unsubscribe", out)
    PROVE  Between(FALSE, b, NoItem, j, << >>, out)
  <1>1. CASE b
    <2>0. PICK a \in BOOLEAN : a = TRUE
      OBVIOUS
    <2>1. Holds("none", i, j)
      <3>1. Between(a, b, i, j, << >>, << >>) /\ a
        BY <2>0
      <3> QED BY ONLY <1>1, <3>1, a \in BOOLEAN, b \in BOOLEAN, Sound(i), Sound(j), BetweenQuiet
    <2>2. Agrees(i, j) /\ Agrees(j, i)
      BY <2>1 DEF Holds
    <2>3. i.ask \in BOOLEAN /\ j.pending \in BOOLEAN
      BY DEF Sound, Item
    <2>4. Parted(j, out, << >>)
      BY <2>2, <2>3 DEF Parted, Agrees
    <2> QED BY <1>1, <2>4 DEF Between
  <1>2. CASE ~b
    <2>1. j = NoItem
      BY <1>2, Zenon DEF Between
    <2> QED BY <1>2, <2>1 DEF Between
  <1> QED BY <1>1, <1>2

LocalOf(u) ==
    Between(exists[u], exists[Other(u)], roster[u], roster[Other(u)], net[u], net[Other(u)])

(* The inductive invariant of one server. *)
LocalInv == CopyInv /\ \A u \in Users : LocalOf(u)

(* What a step of u finds. *)
Around(u, v, a, b, i, j, s, t) ==
    /\ v \in Users /\ v # u /\ v = Other(u) /\ a = exists[u] /\ b = exists[v]
    /\ i = roster[u] /\ j = roster[v] /\ s = net[u] /\ t = net[v]
    /\ a \in BOOLEAN /\ b \in BOOLEAN /\ Sound(i) /\ Sound(j)
    /\ s \in Seq(Stanzas) /\ t \in Seq(Stanzas) /\ Between(a, b, i, j, s, t)

(* The invariant says all of it. *)
LEMMA LocalFinds ==
    ASSUME LocalInv, NEW u \in Users
    PROVE  \E v, a, b, i, j, s, t : Around(u, v, a, b, i, j, s, t)
  <1>1. PICK v : v = Other(u)
    OBVIOUS
  <1>2. v \in Users /\ v # u
    BY <1>1, TwoUsers
  <1>3. PICK a, b, i, j, s, t : /\ a = exists[u] /\ b = exists[v] /\ i = roster[u] /\ j = roster[v]
                                /\ s = net[u] /\ t = net[v]
    OBVIOUS
  <1>4. CopyInv
    BY DEF LocalInv
  <1>5. TypeOK /\ WellFormed
    BY <1>4, CopyFacts
  <1>6. a \in BOOLEAN /\ b \in BOOLEAN /\ s \in Seq(Stanzas) /\ t \in Seq(Stanzas)
    BY <1>2, <1>3, <1>5 DEF TypeOK
  <1>7. Sound(i) /\ Sound(j)
    BY <1>2, <1>3, <1>5 DEF TypeOK, WellFormed, Sound
  <1>8. Between(a, b, i, j, s, t)
    BY <1>1, <1>3 DEF LocalInv, LocalOf
  <1>9. Around(u, v, a, b, i, j, s, t)
    BY ONLY <1>1, <1>2, <1>3, <1>6, <1>7, <1>8, Zenon DEF Around
  <1> QED BY <1>9

(* What it leaves. *)
LEMMA LocalKept ==
    ASSUME NEW u \in Users, NEW v, v = Other(u), NEW a, NEW b, NEW i, NEW j, NEW s, NEW t,
           a = exists'[u], b = exists'[v], i = roster'[u], j = roster'[v], s = net'[u], t = net'[v],
           Between(a, b, i, j, s, t)
    PROVE  \A w \in Users : LocalOf(w)'
  <1>1. v \in Users /\ Other(v) = u /\ \A w \in Users : w = u \/ w = v
    BY TwoUsers
  <1>2. Between(b, a, j, i, t, s)
    BY BetweenBoth, Zenon
  <1>3. LocalOf(u)'
    BY DEF LocalOf
  <1>4. LocalOf(v)'
    BY <1>1, <1>2 DEF LocalOf
  <1> QED BY <1>1, <1>3, <1>4

(* A step of a client, which finds both streams empty. *)
ClientActs(u, v, n, out) ==
    /\ v = Other(u) /\ exists' = exists
    /\ roster'[u] = n /\ roster'[v] = roster[v] /\ net'[u] = net[u] /\ net'[v] = net[v] \o out
    /\ out \in Seq(Stanzas) /\ Sound(n)
    /\ exists[v] => Tidy(out, roster[v], n)
    /\ Bare(roster[u]) => Bare(n)

(* The invariant survives it. *)
LEMMA ClientKeeps ==
    ASSUME Link = "local", LocalInv, MayAct, NEW u \in Users, exists[u], NEW v, NEW n, NEW out,
           ClientActs(u, v, n, out)
    PROVE  \A w \in Users : LocalOf(w)'
  <1>1. PICK x, a, b, i, j, s, t : Around(u, x, a, b, i, j, s, t)
    BY LocalFinds
  <1>2. /\ v = Other(u) /\ exists' = exists
        /\ roster'[u] = n /\ roster'[v] = roster[v] /\ net'[u] = net[u] /\ net'[v] = net[v] \o out
        /\ out \in Seq(Stanzas) /\ Sound(n)
        /\ exists[v] => Tidy(out, roster[v], n)
        /\ Bare(roster[u]) => Bare(n)
    BY Zenon DEF ClientActs
  <1>3. /\ v \in Users /\ a = exists[u] /\ b = exists[v] /\ i = roster[u] /\ j = roster[v]
        /\ s = net[u] /\ t = net[v] /\ a \in BOOLEAN /\ b \in BOOLEAN /\ Sound(i) /\ Sound(j)
        /\ Between(a, b, i, j, s, t)
    BY <1>1, <1>2, Zenon DEF Around
  <1>4. s = << >> /\ t = << >> /\ a = TRUE
    <2>1. Quiet
      BY DEF MayAct
    <2> QED BY <1>3, <2>1 DEF Quiet
  <1>5. net'[u] = << >> /\ net'[v] = out
    BY <1>2, <1>3, <1>4
  <1>6. Between(TRUE, b, n, j, << >>, out)
    <2>1. Between(TRUE, b, i, j, << >>, << >>)
      BY ONLY <1>3, <1>4, Zenon
    <2>2. (b => Tidy(out, j, n)) /\ (Bare(i) => Bare(n))
      BY ONLY <1>2, <1>3, Zenon
    <2> QED BY ONLY <1>2, <1>3, <2>1, <2>2, BetweenActs, Zenon
  <1>7. Between(a, b, n, j, << >>, out)
    BY <1>4, <1>6
  <1>8. a = exists'[u] /\ b = exists'[v] /\ j = roster'[v]
    BY <1>2, <1>3
  <1> QED BY ONLY <1>2, <1>5, <1>7, <1>8, u \in Users, LocalKept

(* Nothing that the invariant is about changes. *)
LEMMA LocalStill ==
    ASSUME LocalInv, exists' = exists, roster' = roster, net' = net
    PROVE  \A w \in Users : LocalOf(w)'
  BY DEF LocalInv, LocalOf

(* Nothing but presence is sent, and the item says the same. *)
LEMMA OnlyPresence ==
    ASSUME Link = "local", LocalInv, MayAct, NEW u \in Users, NEW v, v = Other(u), exists[u],
           NEW out \in Seq(Stanzas), Noise(out), NEW n, Sound(n), SameOwn(roster[u], n), SameContact(roster[u], n)
    PROVE  /\ exists[v] => Tidy(out, roster[v], n)
           /\ Bare(roster[u]) => Bare(n)
           /\ exists[v] => Holds("none", roster[v], roster[u])
           /\ Sound(roster[u]) /\ Sound(roster[v])
  <1>1. PICK x, a, b, i, j, s, t : Around(u, x, a, b, i, j, s, t)
    BY LocalFinds
  <1>2. /\ a = exists[u] /\ b = exists[v] /\ i = roster[u] /\ j = roster[v]
        /\ s = net[u] /\ t = net[v] /\ a \in BOOLEAN /\ b \in BOOLEAN /\ Sound(i) /\ Sound(j)
        /\ Between(a, b, i, j, s, t) /\ v \in Users
    BY <1>1, Zenon DEF Around
  <1>3. Quiet
    BY DEF MayAct
  <1>4. s = << >> /\ t = << >>
    BY <1>2, <1>3 DEF Quiet
  <1>5. Between(a, b, i, j, << >>, << >>)
    BY ONLY <1>2, <1>4, Zenon
  <1>6. a /\ b => Holds("none", j, i)
    BY ONLY <1>2, <1>5, BetweenQuiet
  <1>7. exists[v] => Holds("none", j, i)
    BY <1>2, <1>6
  <1>8. Holds("none", j, i) => Holds("none", j, n)
    BY <1>2 DEF Holds, Agrees, SameOwn, SameContact
  <1>9. Carries(out, "none")
    BY DEF Carries
  <1>10. Holds("none", j, n) => Tidy(out, j, n)
    BY <1>9 DEF Tidy
  <1>11. Bare(i) => Bare(n)
    BY <1>2 DEF Bare, SameOwn, SameContact
  <1> QED BY <1>2, <1>7, <1>8, <1>10, <1>11

(* A resource is bound, and a roster is fetched. *)
LEMMA LocalQuietSteps ==
    ASSUME LocalInv, NEW u \in Users, Bind(u) \/ RosterGet(u)
    PROVE  \A w \in Users : LocalOf(w)'
  <1>1. roster \in [Users -> Item] /\ roster[u] = disk[u]
    BY CopyFacts DEF LocalInv
  <1>2. exists' = exists /\ roster' = roster /\ net' = net
    BY <1>1 DEF Bind, RosterGet
  <1> QED BY <1>2, LocalStill

(* The session ends or becomes unavailable. *)
LEMMA LocalLeaves ==
    ASSUME Link = "local", LocalInv, NEW u \in Users, Unavailable(u) \/ Disconnect(u)
    PROVE  \A w \in Users : LocalOf(w)'
  <1>1. PICK v : v = Other(u)
    OBVIOUS
  <1>2. CopyInv
    BY DEF LocalInv
  <1>3. TypeOK /\ roster \in [Users -> Item] /\ roster[u] = disk[u]
    BY <1>2, CopyFacts
  <1>4. MayAct /\ exists' = exists /\ roster' = roster /\ client[u] # "off" /\ Sends(u, UnavailableStanzas(u))
    BY <1>3 DEF Unavailable, Disconnect
  <1>5. exists[u]
    BY <1>2, <1>4, CopyFacts
  <1>6. PICK out : out = UnavailableStanzas(u)
    OBVIOUS
  <1>7. out \in Seq(Stanzas) /\ Noise(out)
    BY <1>6, CarriedOne DEF UnavailableStanzas, Presences
  <1>8. net'[u] = net[u] /\ net'[v] = net[v] \o out
    <2>1. Sends(u, out)
      BY <1>4, <1>6
    <2> QED BY ONLY <1>1, <1>3, <2>1, u \in Users, SendsFacts
  <1>9. Sound(roster[u])
    BY <1>2, CopyFacts DEF Sound, WellFormed
  <1>10. SameOwn(roster[u], roster[u]) /\ SameContact(roster[u], roster[u])
    BY DEF SameOwn, SameContact
  <1>11. exists[v] => Tidy(out, roster[v], roster[u])
    BY <1>1, <1>4, <1>5, <1>7, <1>9, <1>10, OnlyPresence
  <1>12. ClientActs(u, v, roster[u], out)
    BY ONLY <1>1, <1>4, <1>7, <1>8, <1>9, <1>11, Zenon DEF ClientActs
  <1> QED BY <1>4, <1>5, <1>12, ClientKeeps

(* The client becomes available. *)
LEMMA LocalArrives ==
    ASSUME Link = "local", LocalInv, NEW u \in Users, Available(u)
    PROVE  \A w \in Users : LocalOf(w)'
  <1>1. PICK v : v = Other(u)
    OBVIOUS
  <1>2. CopyInv
    BY DEF LocalInv
  <1>3. TypeOK
    BY <1>2, CopyFacts
  <1>4. MayAct /\ exists' = exists /\ roster' = roster /\ client[u] # "off" /\ Sends(u, AvailableStanzas(u))
    BY DEF Available
  <1>5. exists[u]
    BY <1>2, <1>4, CopyFacts
  <1>6. PICK i : i = roster[u]
    OBVIOUS
  <1>7. Sound(i)
    BY <1>2, <1>6, CopyFacts DEF Sound, WellFormed
  <1>8. PICK f \in BOOLEAN, p \in BOOLEAN, q \in BOOLEAN :
            /\ f = HasFrom(i) /\ p = (client[u] = "bound" /\ HasTo(i)) /\ q = (client[u] = "bound" /\ i.ask)
    <2>1. HasFrom(i) \in BOOLEAN
      BY DEF HasFrom
    <2> QED BY <2>1
  <1>9. p => ~q
    BY <1>7, <1>8 DEF Sound, ItemWellFormed, HasTo
  <1>10. PICK out : out = AvailableStanzas(u)
    OBVIOUS
  <1>11. out = (IF f THEN <<"available">> ELSE << >>) \o (IF p THEN <<"probe">> ELSE << >>)
                 \o (IF q THEN <<"subscribe">> ELSE << >>)
    BY <1>6, <1>8, <1>10, Zenon DEF AvailableStanzas
  <1>12. /\ out \in Seq(Stanzas)
         /\ p => Only(out, "probe")
         /\ q => Only(out, "subscribe")
         /\ ~p /\ ~q => Noise(out)
    BY ONLY <1>9, <1>11, f \in BOOLEAN, p \in BOOLEAN, q \in BOOLEAN, ArrivalCarries
  <1>13. net'[u] = net[u] /\ net'[v] = net[v] \o out
    <2>1. Sends(u, out)
      BY <1>4, <1>10
    <2> QED BY ONLY <1>1, <1>3, <2>1, u \in Users, SendsFacts
  <1>14. (exists[v] => Holds("none", roster[v], i)) /\ Sound(roster[v])
    <2>1. SameOwn(roster[u], roster[u]) /\ SameContact(roster[u], roster[u])
      BY DEF SameOwn, SameContact
    <2>2. << >> \in Seq(Stanzas) /\ Noise(<< >>)
      BY CarriedOne
    <2> QED BY <1>1, <1>4, <1>5, <1>6, <1>7, <2>1, <2>2, OnlyPresence
  <1>15. exists[v] => (p => Holds("probe", roster[v], i)) /\ (q => Holds("subscribe", roster[v], i))
    <2>1. (p => HasTo(i)) /\ (q => i.ask)
      BY <1>8
    <2> QED BY ONLY <1>7, <1>14, <2>1, LocalActs, Zenon
  <1>16. exists[v] => Tidy(out, roster[v], i)
    <2>1. (p => Carries(out, "probe")) /\ (q => Carries(out, "subscribe")) /\ (~p /\ ~q => Carries(out, "none"))
      BY <1>12 DEF Carries
    <2> QED BY <1>14, <1>15, <2>1, Zenon DEF Tidy
  <1>17. roster'[u] = i /\ roster'[v] = roster[v]
    BY <1>4, <1>6
  <1>18. ClientActs(u, v, i, out)
    BY ONLY <1>1, <1>4, <1>6, <1>7, <1>12, <1>13, <1>16, <1>17, Zenon DEF ClientActs
  <1> QED BY <1>4, <1>5, <1>18, ClientKeeps

(* Presence arrives. *)
LEMMA LocalHears ==
    ASSUME LocalInv, NEW u \in Users, DeliverPresence(u)
    PROVE  \A w \in Users : LocalOf(w)'
  <1>1. PICK v, a, b, i, j, s, t : Around(u, v, a, b, i, j, s, t)
    BY LocalFinds
  <1>2. /\ v = Other(u) /\ v # u /\ v \in Users /\ a = exists[u] /\ b = exists[v] /\ i = roster[u] /\ j = roster[v]
        /\ s = net[u] /\ t = net[v] /\ a \in BOOLEAN /\ b \in BOOLEAN
        /\ s \in Seq(Stanzas) /\ t \in Seq(Stanzas) /\ Between(a, b, i, j, s, t)
    BY <1>1, Zenon DEF Around
  <1>3. s # << >> /\ Head(s) \in Presences /\ exists' = exists /\ roster' = roster
    BY <1>2 DEF DeliverPresence, Presences
  <1>4. PICK r : r = Tail(s)
    OBVIOUS
  <1>5. net'[u] = r /\ net'[v] = t
    <2>1. net \in [Users -> Seq(Stanzas)]
      BY CopyFacts DEF LocalInv, TypeOK
    <2>2. net' = [net EXCEPT ![u] = r]
      BY <1>2, <1>4 DEF DeliverPresence
    <2> QED BY <1>2, <2>1, <2>2
  <1>6. Between(a, b, i, j, r, t)
    BY ONLY <1>2, <1>3, <1>4, BetweenHears
  <1>7. a = exists'[u] /\ b = exists'[v] /\ i = roster'[u] /\ j = roster'[v]
    BY <1>2, <1>3
  <1> QED BY ONLY <1>2, <1>5, <1>6, <1>7, u \in Users, LocalKept

(* No operation of a client grants or asks for anything but what it says.  *)
LEMMA BareOutbound ==
    ASSUME NEW u, NEW i, Sound(i), Bare(i), NEW type \in SubscriptionTypes,
           NEW e, e = handle_outbound_presence_subscriptions_and_probes(u, type, i, TRUE)
    PROVE  Bare(e.item)
  <1>1. i \in Item /\ ItemWellFormed(i) /\ i.pending \in BOOLEAN
    BY DEF Sound, Item
  <1>2. ~HasTo(i) /\ ~HasFrom(i) /\ ~i.pending
    BY DEF Bare
  <1>3. CASE type = "subscribe"
    <2>1. PICK n : n = set_contact_pending_out(i)
      OBVIOUS
    <2>2. \E out : \E saves, pushes : e = Effect(n, saves, pushes, out)
      BY <1>3, <2>1, Zenon DEF handle_outbound_presence_subscriptions_and_probes, outbound_subscribe
    <2>3. e.item = n
      BY ONLY <2>2, EffectIs
    <2>4. SameContact(i, n) /\ HasTo(n) = HasTo(i)
      BY ONLY <1>1, <2>1, OperationHalves
    <2> QED BY <1>2, <2>3, <2>4 DEF SameContact, Bare
  <1>4. CASE type = "unsubscribe"
    <2>1. PICK n : n = unsubscribe(i)
      OBVIOUS
    <2>2. \E out : \E saves, pushes : e = Effect(n, saves, pushes, out)
      BY <1>4, <2>1, Zenon DEF handle_outbound_presence_subscriptions_and_probes, outbound_unsubscribe
    <2>3. e.item = n
      BY ONLY <2>2, EffectIs
    <2>4. SameContact(i, n) /\ ~HasTo(n)
      BY ONLY <1>1, <2>1, OperationHalves
    <2> QED BY <1>2, <2>3, <2>4 DEF SameContact, Bare
  <1>5. CASE type = "subscribed"
    <2>1. PICK n : n = subscribed(i)
      OBVIOUS
    <2>2. \E out : \E saves, pushes : e = Effect(n, saves, pushes, out)
      BY <1>5, <2>1, Zenon DEF handle_outbound_presence_subscriptions_and_probes, outbound_subscribed
    <2>3. e.item = n
      BY ONLY <2>2, EffectIs
    <2>4. SameOwn(i, n) /\ ~n.pending /\ (HasFrom(n) <=> HasFrom(i) \/ i.pending)
      BY ONLY <1>1, <2>1, OperationHalves
    <2> QED BY <1>2, <2>3, <2>4 DEF SameOwn, Bare
  <1>6. CASE type = "unsubscribed"
    <2>1. PICK n : n = unsubscribed(i)
      OBVIOUS
    <2>2. \E out : \E saves, pushes : e = Effect(n, saves, pushes, out)
      BY <1>6, <2>1, Zenon DEF handle_outbound_presence_subscriptions_and_probes, outbound_unsubscribed
    <2>3. e.item = n
      BY ONLY <2>2, EffectIs
    <2>4. SameOwn(i, n) /\ ~n.pending /\ ~HasFrom(n)
      BY ONLY <1>1, <2>1, OperationHalves
    <2> QED BY <1>2, <2>3, <2>4 DEF SameOwn, Bare
  <1> QED BY <1>3, <1>4, <1>5, <1>6 DEF SubscriptionTypes

(* What is stored is what the handler left. *)
LEMMA LocalStores ==
    ASSUME TypeOK, WellFormed', TypeOK', NEW u \in Users, exists[u], NEW v \in Users, v # u,
           NEW e, NEW n, n = e.item, Stores(u, e, TRUE)
    PROVE  roster'[u] = n /\ roster'[v] = roster[v] /\ Sound(n)
  <1>1. Kept(u, n, TRUE) = n
    BY DEF Kept, Saved
  <1>2. roster' = [roster EXCEPT ![u] = n]
    BY <1>1 DEF Stores
  <1>3. roster'[u] = n /\ roster'[v] = roster[v]
    BY <1>2 DEF TypeOK
  <1>4. Sound(roster'[u])
    BY DEF TypeOK, WellFormed, Sound
  <1> QED BY <1>3, <1>4

(* A client sends a subscription stanza. *)
LEMMA LocalActsOut ==
    ASSUME Link = "local", LocalInv, CopyInv', NEW u \in Users, NEW type \in SubscriptionTypes,
           Outbound(u, type, TRUE)
    PROVE  \A w \in Users : LocalOf(w)'
  <1>1. PICK i : i = roster[u]
    OBVIOUS
  <1>2. PICK e : e = handle_outbound_presence_subscriptions_and_probes(u, type, i, TRUE)
    OBVIOUS
  <1>3. MayChange(u) /\ Stores(u, e, TRUE) /\ Sends(u, e.out) /\ exists' = exists
    BY <1>1, <1>2, Zenon DEF Outbound
  <1>4. MayAct /\ client[u] # "off"
    BY <1>3 DEF MayChange
  <1>5. CopyInv
    BY DEF LocalInv
  <1>6. TypeOK /\ WellFormed /\ exists[u] /\ exists[u] = TRUE
    <2>1. TypeOK /\ WellFormed /\ exists[u]
      BY <1>4, <1>5, CopyFacts
    <2> QED BY <2>1 DEF TypeOK
  <1>7. TypeOK' /\ WellFormed'
    BY DEF CopyInv, ItemsSound
  <1>8. PICK v, j, n, out : v = Other(u) /\ j = roster[v] /\ n = e.item /\ out = e.out
    OBVIOUS
  <1>9. v \in Users /\ v # u
    BY <1>8, TwoUsers
  <1>10. roster'[u] = n /\ roster'[v] = roster[v] /\ Sound(n)
    BY ONLY <1>3, <1>6, <1>7, <1>8, <1>9, u \in Users, LocalStores
  <1>11. net'[u] = net[u] /\ net'[v] = net[v] \o out
    <2>1. Sends(u, out)
      BY <1>3, <1>8
    <2>2. TypeOK /\ v = Other(u)
      BY <1>6, <1>8
    <2> QED BY ONLY <2>1, <2>2, u \in Users, SendsFacts
  <1>12. (exists[v] => Holds("none", j, i)) /\ Sound(i) /\ Sound(j)
    <2>1. SameOwn(roster[u], roster[u]) /\ SameContact(roster[u], roster[u])
      BY DEF SameOwn, SameContact
    <2>2. << >> \in Seq(Stanzas) /\ Noise(<< >>)
      BY CarriedOne
    <2>3. Sound(roster[u])
      BY <1>6 DEF TypeOK, WellFormed, Sound
    <2> QED BY <1>1, <1>4, <1>6, <1>8, <2>1, <2>2, <2>3, OnlyPresence
  <1>13. Meets(u, v, i, j)
    BY ONLY <1>1, <1>6, <1>8, <1>12, Zenon DEF Meets
  <1>14. exists[v] => Tidy(out, j, n)
    <2>1. Holds("none", j, i) => Tidy(e.out, j, e.item)
      BY ONLY <1>2, <1>13, type \in SubscriptionTypes, LocalOutbound
    <2> QED BY <1>8, <1>12, <2>1
  <1>15. Bare(i) => Bare(n)
    BY ONLY <1>2, <1>8, <1>12, type \in SubscriptionTypes, BareOutbound
  <1>16. out \in Seq(Stanzas)
    <2>1. PICK yes \in BOOLEAN : yes = TRUE
      OBVIOUS
    <2>2. e = handle_outbound_presence_subscriptions_and_probes(u, type, i, yes)
      BY <1>2, <2>1
    <2>3. i \in Item /\ ItemWellFormed(i) /\ TypeOK
      BY <1>6, <1>12 DEF Sound
    <2>4. e \in Effects
      BY ONLY <2>2, <2>3, u \in Users, type \in SubscriptionTypes, yes \in BOOLEAN, OutboundEffects
    <2> QED BY <1>8, <2>4 DEF Effects
  <1>17. ClientActs(u, v, n, out)
    BY ONLY <1>1, <1>3, <1>8, <1>10, <1>11, <1>14, <1>15, <1>16, Zenon DEF ClientActs
  <1> QED BY <1>4, <1>6, <1>17, ClientKeeps

(* A client changes its item. *)
LEMMA LocalSets ==
    ASSUME Link = "local", LocalInv, CopyInv', NEW u \in Users, RosterSet(u, TRUE)
    PROVE  \A w \in Users : LocalOf(w)'
  <1>1. PICK i, v, n, out : i = roster[u] /\ v = Other(u) /\ n = Created(i) /\ out = << >>
    OBVIOUS
  <1>2. v \in Users /\ v # u
    BY <1>1, TwoUsers
  <1>3. MayAct /\ client[u] # "off" /\ exists' = exists /\ net' = net
    BY DEF RosterSet, MayChange
  <1>4. CopyInv
    BY DEF LocalInv
  <1>5. TypeOK /\ WellFormed /\ exists[u]
    BY <1>3, <1>4, CopyFacts
  <1>6. TypeOK' /\ WellFormed'
    BY DEF CopyInv, ItemsSound
  <1>7. PICK e : e = Effect(n, TRUE, TRUE, << >>)
    OBVIOUS
  <1>8. Stores(u, e, TRUE)
    <2>1. Saved(u, TRUE)
      BY <1>5 DEF Saved
    <2> QED BY <1>1, <1>7, <2>1, Zenon DEF RosterSet
  <1>9. n = e.item
    BY <1>7 DEF Effect
  <1>10. roster'[u] = n /\ roster'[v] = roster[v] /\ Sound(n)
    <2>1. TypeOK /\ exists[u] /\ TypeOK' /\ WellFormed' /\ v \in Users /\ v # u /\ exists[u] = TRUE
      BY <1>2, <1>5, <1>6 DEF TypeOK
    <2> QED BY ONLY <1>8, <1>9, <2>1, u \in Users, LocalStores
  <1>11. Sound(i)
    BY <1>1, <1>5 DEF TypeOK, WellFormed, Sound
  <1>12. SameOwn(i, n) /\ SameContact(i, n)
    BY ONLY <1>1, <1>11, OperationHalves DEF Sound
  <1>13. out \in Seq(Stanzas) /\ Noise(out)
    BY <1>1, CarriedOne
  <1>14. (exists[v] => Tidy(out, roster[v], n)) /\ (Bare(roster[u]) => Bare(n))
    BY <1>1, <1>3, <1>5, <1>10, <1>12, <1>13, OnlyPresence
  <1>15. net'[u] = net[u] /\ net'[v] = net[v] \o out
    <2>1. net[v] \in Seq(Stanzas)
      BY <1>2, <1>5 DEF TypeOK
    <2> QED BY <1>1, <1>3, <2>1
  <1>16. ClientActs(u, v, n, out)
    BY ONLY <1>1, <1>3, <1>10, <1>13, <1>14, <1>15, Zenon DEF ClientActs
  <1> QED BY <1>3, <1>5, <1>16, ClientKeeps

(* What an account that is gone answers. *)
LEMMA GoneAnswers ==
    ASSUME NEW u, exists[u] = FALSE, roster[u] = NoItem, ~HasTo(roster[Other(u)]), NEW type \in Signalling,
           NEW e, e = handle_inbound_presence_subscriptions_and_probes(u, type, TRUE)
    PROVE  Silent(e.out)
  <1> USE DEF Silent
  <1>1. PICK i : i = roster[u]
    OBVIOUS
  <1>2. ~is_contact_subscribed(u, i)
    BY <1>1 DEF is_contact_subscribed, HasFrom, NoItem
  <1>3. ~Saved(u, TRUE)
    BY DEF Saved
  <1>4. ASSUME NEW new, e = Inbound(u, TRUE, new) PROVE e.out = << >>
    <2>1. \E saves, pushes : e = Effect(new, saves, pushes, << >>)
      BY <1>4, Zenon DEF Inbound
    <2> QED BY ONLY <2>1, EffectIs
  <1>5. CASE type = "probe"
    <2>1. e = outbound_unsubscribed(u, i, TRUE)
      BY <1>1, <1>2, <1>5, Zenon DEF handle_inbound_presence_subscriptions_and_probes, inbound_probe
    <2>2. \E saves, pushes : e = Effect(unsubscribed(i), saves, pushes, << >>)
      BY <1>3, <2>1, Zenon DEF outbound_unsubscribed
    <2>3. e.out = << >>
      BY ONLY <2>2, EffectIs
    <2> QED BY <2>3
  <1>6. CASE type = "subscribe"
    <2>1. e = inbound_subscribe(u, i, TRUE)
      BY <1>1, <1>6, Zenon DEF handle_inbound_presence_subscriptions_and_probes
    <2>2. \E saves, pushes : e = Effect(set_contact_pending_in(i), saves, pushes, <<"unavailable">>)
      BY <1>2, <2>1, Zenon DEF inbound_subscribe
    <2>3. e.out = <<"unavailable">>
      BY ONLY <2>2, EffectIs
    <2> QED BY <2>3
  <1>7. CASE type = "unsubscribe"
    <2>1. e = Inbound(u, TRUE, process_inbound_unsubscribe(i))
      BY <1>1, <1>7, Zenon DEF handle_inbound_presence_subscriptions_and_probes
    <2> QED BY <1>4, <2>1
  <1>8. CASE type = "subscribed"
    <2>1. e = Inbound(u, TRUE, process_inbound_subscription_approval(i))
      BY <1>1, <1>8, Zenon DEF handle_inbound_presence_subscriptions_and_probes
    <2> QED BY <1>4, <2>1
  <1>9. CASE type = "unsubscribed"
    <2>1. e = Inbound(u, TRUE, process_inbound_subscription_cancellation(i))
      BY <1>1, <1>9, Zenon DEF handle_inbound_presence_subscriptions_and_probes
    <2> QED BY <1>4, <2>1
  <1> QED BY <1>5, <1>6, <1>7, <1>8, <1>9 DEF Signalling, SubscriptionTypes

(* The farewell of an account that is gone is read. *)
LEMMA FarewellRead ==
    ASSUME NEW u, NEW i, i = roster[u], Sound(i), NEW h \in {"unsubscribe", "unsubscribed"},
           NEW e, e = handle_inbound_presence_subscriptions_and_probes(u, h, TRUE)
    PROVE  e.out = << >> /\ Farewell(h, i, e.item)
  <1>1. i \in Item /\ ItemWellFormed(i)
    BY DEF Sound
  <1>2. ASSUME NEW new, e = Inbound(u, TRUE, new) PROVE e.item = new /\ e.out = << >>
    <2>1. \E saves, pushes : e = Effect(new, saves, pushes, << >>)
      BY <1>2, Zenon DEF Inbound
    <2> QED BY ONLY <2>1, EffectIs
  <1>3. CASE h = "unsubscribe"
    <2>1. PICK n : n = process_inbound_unsubscribe(i)
      OBVIOUS
    <2>2. e = Inbound(u, TRUE, n)
      BY <1>3, <2>1, Zenon DEF handle_inbound_presence_subscriptions_and_probes
    <2>3. SameOwn(i, n) /\ ~n.pending /\ ~HasFrom(n)
      BY ONLY <1>1, <2>1, OperationHalves
    <2> QED BY <1>2, <1>3, <2>2, <2>3 DEF Farewell
  <1>4. CASE h = "unsubscribed"
    <2>1. PICK n : n = process_inbound_subscription_cancellation(i)
      OBVIOUS
    <2>2. e = Inbound(u, TRUE, n)
      BY <1>4, <2>1, Zenon DEF handle_inbound_presence_subscriptions_and_probes
    <2>3. SameContact(i, n) /\ ~HasTo(n)
      BY ONLY <1>1, <2>1, OperationHalves
    <2> QED BY <1>2, <1>4, <2>2, <2>3 DEF Farewell
  <1> QED BY <1>3, <1>4

(* A stanza of a subscription or a probe arrives. *)
LEMMA LocalDelivers ==
    ASSUME LocalInv, CopyInv', NEW u \in Users, DeliverSubscription(u, TRUE)
    PROVE  \A w \in Users : LocalOf(w)'
  <1>1. PICK v, a, b, i, j, s, t : Around(u, v, a, b, i, j, s, t)
    BY LocalFinds
  <1>2. /\ v = Other(u) /\ v # u /\ v \in Users /\ a = exists[u] /\ b = exists[v] /\ i = roster[u] /\ j = roster[v]
        /\ s = net[u] /\ t = net[v] /\ a \in BOOLEAN /\ b \in BOOLEAN /\ Sound(i) /\ Sound(j)
        /\ s \in Seq(Stanzas) /\ t \in Seq(Stanzas) /\ Between(a, b, i, j, s, t)
    BY <1>1, Zenon DEF Around
  <1>3. PICK h : h = Head(s)
    OBVIOUS
  <1>4. PICK e : e = handle_inbound_presence_subscriptions_and_probes(u, h, TRUE)
    OBVIOUS
  <1>5. PICK out, n, r : out = e.out /\ n = e.item /\ r = Tail(s)
    OBVIOUS
  <1>6. s # << >> /\ h \in Signalling /\ Stores(u, e, TRUE) /\ exists' = exists /\ client' = client
    <2>1. /\ net[u] # << >> /\ h \in SubscriptionTypes \cup {"probe"} /\ Stores(u, e, TRUE)
          /\ exists' = exists /\ client' = client
      BY <1>2, <1>3, <1>4, Zenon DEF DeliverSubscription
    <2> QED BY <1>2, <2>1 DEF Signalling
  <1>7. CopyInv /\ TypeOK /\ TypeOK' /\ WellFormed'
    BY CopyFacts DEF LocalInv, CopyInv, ItemsSound
  <1>8. net'[u] = r /\ net'[v] = t \o out
    <2>1. net' = [net EXCEPT ![u] = Tail(@), ![Other(u)] = @ \o e.out]
      BY <1>2, <1>3, <1>4, Zenon DEF DeliverSubscription
    <2>2. PICK g : g = t \o out
      OBVIOUS
    <2>3. net' = [net EXCEPT ![u] = r, ![v] = g]
      BY <1>2, <1>5, <2>1, <2>2
    <2>4. net \in [Users -> Seq(Stanzas)]
      BY <1>7 DEF TypeOK
    <2> QED BY <1>2, <2>2, <2>3, <2>4
  <1>9. a = exists'[u] /\ b = exists'[v]
    BY <1>2, <1>6
  <1>10. a => roster'[u] = n /\ roster'[v] = j
    <2>1. SUFFICES ASSUME a PROVE roster'[u] = n /\ roster'[v] = roster[v]
      BY <1>2
    <2>2. exists[u] /\ exists[u] = TRUE
      BY <1>2, <2>1
    <2>3. TypeOK /\ TypeOK' /\ WellFormed' /\ v \in Users /\ v # u
      BY <1>2, <1>7
    <2>4. n = e.item /\ Stores(u, e, TRUE)
      BY <1>5, <1>6
    <2>5. roster'[u] = n /\ roster'[v] = roster[v] /\ Sound(n)
      BY ONLY <2>2, <2>3, <2>4, u \in Users, LocalStores
    <2> QED BY <2>5
  <1>11. CASE ~a
    <2>1. a = FALSE
      BY <1>2, <1>11
    <2>2. Between(FALSE, b, i, j, s, t)
      BY ONLY <1>2, <2>1, Zenon
    <2>3. /\ i = NoItem /\ ~HasTo(j)
          /\ \A q : Silent(out) => Between(FALSE, b, i, j, q, t \o out)
      <3>1. b \in BOOLEAN /\ t \in Seq(Stanzas) /\ s # << >>
        BY <1>2, <1>6
      <3> QED BY ONLY <2>2, <3>1, BetweenEmpty, Zenon
    <2>4. Silent(out)
      <3>1. exists[u] = FALSE /\ roster[u] = NoItem /\ ~HasTo(roster[Other(u)])
        BY <1>2, <2>1, <2>3
      <3>2. Silent(e.out)
        BY ONLY <1>4, <1>6, <3>1, GoneAnswers
      <3> QED BY <1>5, <3>2
    <2>5. Between(a, b, i, j, r, t \o out)
      <3>1. Between(FALSE, b, i, j, r, t \o out)
        BY ONLY <2>3, <2>4, Zenon
      <3> QED BY ONLY <2>1, <3>1, Zenon
    <2>6. roster'[u] = i /\ roster'[v] = j
      <3>1. ~exists[u] /\ client[u] = "off" /\ disk[u] = i /\ roster \in [Users -> Item]
        BY <1>2, <1>7, <1>11, CopyFacts
      <3>2. Kept(u, e.item, TRUE) = i
        BY <3>1 DEF Kept, Saved
      <3>3. roster' = [roster EXCEPT ![u] = i]
        BY <1>6, <3>2 DEF Stores
      <3> QED BY <1>2, <3>1, <3>3
    <2> QED BY ONLY <1>2, <1>8, <1>9, <2>5, <2>6, u \in Users, LocalKept
  <1>12. CASE a /\ ~b
    <2>1. a = TRUE /\ b = FALSE
      BY <1>2, <1>12
    <2>2. Between(TRUE, FALSE, i, j, s, t)
      BY ONLY <1>2, <2>1, Zenon
    <2>3. /\ h \in {"unsubscribe", "unsubscribed"}
          /\ Farewell(h, i, n) => Between(TRUE, FALSE, n, j, Tail(s), t)
      <3>1. s \in Seq(Stanzas) /\ t \in Seq(Stanzas) /\ s # << >> /\ h = Head(s) /\ h \in Signalling
        BY <1>2, <1>3, <1>6
      <3> QED BY ONLY <2>2, <3>1, BetweenParts, Zenon
    <2>4. out = << >> /\ Farewell(h, i, n)
      BY ONLY <1>2, <1>4, <1>5, <2>3, FarewellRead
    <2>5. t \o out = t
      BY <1>2, <2>4
    <2>6. Between(a, b, n, j, r, t \o out)
      BY <1>5, <2>1, <2>3, <2>4, <2>5
    <2> QED BY ONLY <1>2, <1>8, <1>9, <1>10, <1>12, <2>6, u \in Users, LocalKept
  <1>13. CASE a /\ b
    <2>1. a = TRUE /\ b = TRUE
      BY <1>2, <1>13
    <2>2. Between(TRUE, TRUE, i, j, s, t)
      BY ONLY <1>2, <2>1, Zenon
    <2>3. h \notin Presences
      BY <1>6 DEF Signalling, SubscriptionTypes, Presences
    <2>4. /\ Noise(t)
          /\ \/ Holds(h, i, j) /\ Noise(r)
             \/ h = "subscribed" /\ Holds("pair", i, j) /\ Only(r, "probe")
      BY ONLY <1>2, <1>3, <1>5, <1>6, <2>2, <2>3, BetweenFinds
    <2>5. Meets(u, v, i, j)
      BY ONLY <1>2, <2>1, Zenon DEF Meets
    <2>6. CASE Holds(h, i, j) /\ Noise(r)
      <3>1. e.out \in Seq(Stanzas) /\ Tidy(e.out, j, e.item)
        BY ONLY <1>4, <1>6, <2>5, <2>6, LocalInbound
      <3>2. Between(TRUE, TRUE, n, j, r, t \o out)
        BY <1>2, <1>5, <2>4, <2>6, <3>1, BetweenSettles
      <3>3. Between(a, b, n, j, r, t \o out)
        BY ONLY <2>1, <3>2, Zenon
      <3> QED BY ONLY <1>2, <1>8, <1>9, <1>10, <1>13, <3>3, u \in Users, LocalKept
    <2>7. CASE h = "subscribed" /\ Holds("pair", i, j) /\ Only(r, "probe")
      <3>1. e = handle_inbound_presence_subscriptions_and_probes(u, "subscribed", TRUE)
        BY <1>4, <2>7
      <3>2. e.out = << >> /\ Holds("probe", e.item, j)
        BY ONLY <2>5, <2>7, <3>1, LocalPair
      <3>3. t \o out = t
        BY <1>2, <1>5, <3>2
      <3>4. Between(TRUE, TRUE, n, j, r, t)
        BY <1>5, <2>4, <2>7, <3>2, BetweenFollows
      <3>5. Between(a, b, n, j, r, t \o out)
        BY ONLY <2>1, <3>3, <3>4, Zenon
      <3> QED BY ONLY <1>2, <1>8, <1>9, <1>10, <1>13, <3>5, u \in Users, LocalKept
    <2> QED BY <2>4, <2>6, <2>7
  <1> QED BY <1>2, <1>11, <1>12, <1>13

(* What the deletion of an account sends. *)
LEMMA DeletionList ==
    ASSUME NEW u, NEW i, i = roster[u], Sound(i), NEW out, out = DeletionStanzas(u)
    PROVE  /\ out \in Seq(Stanzas)
           /\ ~In("subscribe", out) /\ ~In("subscribed", out) /\ ~In("probe", out)
           /\ HasFrom(i) => In("unsubscribed", out)
           /\ HasTo(i) \/ i.ask => In("unsubscribe", out)
  <1>1. PICK n, o, x, c, g, z :
            /\ n = (IF HasFrom(i) \/ i.pending THEN <<"unsubscribed">> ELSE << >>)
            /\ o = (IF client[u] = "available" THEN <<"unavailable">> ELSE << >>)
            /\ x = <<"unsubscribe">>
            /\ c = (IF HasTo(i) \/ i.ask THEN o \o x ELSE << >>)
            /\ g = (IF i.pending THEN <<"unsubscribed">> ELSE << >>)
            /\ z = UnavailableStanzas(u)
    OBVIOUS
  <1>2. out = (IF i.subscription = "absent" THEN << >> ELSE n \o c) \o g \o z
    BY <1>1, Zenon DEF DeletionStanzas
  <1>3. "unsubscribed" \in Stanzas /\ "unavailable" \in Stanzas /\ "unsubscribe" \in Stanzas
    BY DEF Stanzas, SubscriptionTypes
  <1>4. << >> \in Seq(Stanzas) /\ \A y : ~In(y, << >>)
    BY OneStanza
  <1>5. /\ n \in Seq(Stanzas) /\ (\A y : In(y, n) => y = "unsubscribed")
        /\ HasFrom(i) => In("unsubscribed", n)
    <2>1. CASE HasFrom(i) \/ i.pending
      BY <1>1, <1>3, <2>1, OneStanza
    <2>2. CASE ~(HasFrom(i) \/ i.pending)
      BY <1>1, <1>4, <2>2
    <2> QED BY <2>1, <2>2
  <1>6. o \in Seq(Stanzas) /\ (\A y : In(y, o) => y = "unavailable")
    <2>1. CASE client[u] = "available"
      BY <1>1, <1>3, <2>1, OneStanza
    <2>2. CASE client[u] # "available"
      BY <1>1, <1>4, <2>2
    <2> QED BY <2>1, <2>2
  <1>7. x \in Seq(Stanzas) /\ (\A y : In(y, x) <=> y = "unsubscribe")
    BY <1>1, <1>3, OneStanza
  <1>8. /\ c \in Seq(Stanzas) /\ (\A y : In(y, c) => y = "unsubscribe" \/ y = "unavailable")
        /\ HasTo(i) \/ i.ask => In("unsubscribe", c)
    <2>1. o \o x \in Seq(Stanzas) /\ (\A y : In(y, o \o x) <=> In(y, o) \/ In(y, x))
      BY <1>6, <1>7, StreamFacts
    <2>2. CASE HasTo(i) \/ i.ask
      BY <1>1, <1>6, <1>7, <2>1, <2>2
    <2>3. CASE ~(HasTo(i) \/ i.ask)
      BY <1>1, <1>4, <2>3
    <2> QED BY <2>2, <2>3
  <1>9. g \in Seq(Stanzas) /\ (\A y : In(y, g) => y = "unsubscribed")
    <2>1. CASE i.pending
      BY <1>1, <1>3, <2>1, OneStanza
    <2>2. CASE ~i.pending
      BY <1>1, <1>4, <2>2
    <2> QED BY <2>1, <2>2
  <1>10. z \in Seq(Stanzas) /\ (\A y : In(y, z) => y = "unavailable")
    <2>1. z = << >> \/ z = <<"unavailable">>
      BY <1>1 DEF UnavailableStanzas
    <2>2. CASE z = << >>
      BY <1>4, <2>2
    <2>3. CASE z = <<"unavailable">>
      BY <1>3, <2>3, OneStanza
    <2> QED BY <2>1, <2>2, <2>3
  <1>11. PICK f : f = (IF i.subscription = "absent" THEN << >> ELSE n \o c)
    OBVIOUS
  <1>12. /\ f \in Seq(Stanzas)
         /\ \A y : In(y, f) => y = "unsubscribed" \/ y = "unsubscribe" \/ y = "unavailable"
         /\ HasFrom(i) => In("unsubscribed", f)
         /\ HasTo(i) \/ i.ask => In("unsubscribe", f)
    <2>1. n \o c \in Seq(Stanzas) /\ (\A y : In(y, n \o c) <=> In(y, n) \/ In(y, c))
      BY <1>5, <1>8, StreamFacts
    <2>2. CASE i.subscription = "absent"
      <3>1. ~HasFrom(i) /\ ~HasTo(i) /\ ~i.ask /\ i.ask \in BOOLEAN
        BY <2>2 DEF HasFrom, HasTo, Sound, ItemWellFormed, Item
      <3> QED BY <1>4, <1>11, <2>2, <3>1
    <2>3. CASE i.subscription # "absent"
      <3>1. f = n \o c
        BY <1>11, <2>3
      <3> QED BY ONLY <1>5, <1>8, <2>1, <3>1
    <2> QED BY <2>2, <2>3
  <1>13. PICK q : q = f \o g
    OBVIOUS
  <1>14. q \in Seq(Stanzas) /\ (\A y : In(y, q) <=> In(y, f) \/ In(y, g))
    BY <1>9, <1>12, <1>13, StreamFacts
  <1>15. out = q \o z
    BY <1>2, <1>11, <1>13
  <1>16. q \o z \in Seq(Stanzas) /\ (\A y : In(y, q \o z) <=> In(y, q) \/ In(y, z))
    BY <1>10, <1>14, StreamFacts
  <1>17. \A y : In(y, out) <=> In(y, f) \/ In(y, g) \/ In(y, z)
    BY ONLY <1>14, <1>15, <1>16
  <1>18. ~In("subscribe", out) /\ ~In("subscribed", out) /\ ~In("probe", out)
    BY ONLY <1>9, <1>10, <1>12, <1>17
  <1> QED BY <1>12, <1>15, <1>16, <1>17, <1>18

(* The account is deleted. *)
LEMMA LocalDeletes ==
    ASSUME Link = "local", LocalInv, NEW u \in Users, DeleteUser(u)
    PROVE  \A w \in Users : LocalOf(w)'
  <1>1. PICK v, a, b, i, j, s, t : Around(u, v, a, b, i, j, s, t)
    BY LocalFinds
  <1>2. /\ v = Other(u) /\ v # u /\ v \in Users /\ a = exists[u] /\ b = exists[v] /\ i = roster[u] /\ j = roster[v]
        /\ s = net[u] /\ t = net[v] /\ a \in BOOLEAN /\ b \in BOOLEAN /\ Sound(i) /\ Sound(j)
        /\ Between(a, b, i, j, s, t)
    BY <1>1, Zenon DEF Around
  <1>3. /\ exists[u] /\ MayAct /\ exists' = [exists EXCEPT ![u] = FALSE]
        /\ roster' = [roster EXCEPT ![u] = NoItem] /\ Sends(u, DeletionStanzas(u))
    BY DEF DeleteUser
  <1>4. s = << >> /\ t = << >> /\ a = TRUE
    <2>1. Quiet
      BY <1>3 DEF MayAct
    <2> QED BY <1>2, <1>3, <2>1 DEF Quiet
  <1>5. PICK out : out = DeletionStanzas(u)
    OBVIOUS
  <1>6. /\ out \in Seq(Stanzas)
        /\ ~In("subscribe", out) /\ ~In("subscribed", out) /\ ~In("probe", out)
        /\ HasFrom(i) => In("unsubscribed", out)
        /\ HasTo(i) \/ i.ask => In("unsubscribe", out)
    <2>1. i = roster[u] /\ Sound(i)
      BY <1>2
    <2> QED BY ONLY <1>5, <2>1, DeletionList, Zenon
  <1>7. TypeOK
    BY CopyFacts DEF LocalInv
  <1>8. net'[u] = << >> /\ net'[v] = out
    <2>1. Sends(u, out) /\ v = Other(u)
      BY <1>2, <1>3, <1>5
    <2>2. net'[u] = net[u] /\ net'[v] = net[v] \o out
      BY ONLY <1>7, <2>1, u \in Users, SendsFacts
    <2>3. net[u] = << >> /\ net[v] = << >> /\ out \in Seq(Stanzas)
      BY <1>2, <1>4, <1>6
    <2>4. << >> \o out = out
      BY <2>3
    <2> QED BY ONLY <2>2, <2>3, <2>4, Zenon
  <1>9. PICK no \in BOOLEAN, e \in {NoItem} : no = FALSE /\ e = NoItem
    OBVIOUS
  <1>10. no = exists'[u] /\ b = exists'[v] /\ e = roster'[u] /\ j = roster'[v]
    BY <1>2, <1>3, <1>7, <1>9 DEF TypeOK
  <1>11. Between(TRUE, b, i, j, << >>, << >>)
    BY ONLY <1>2, <1>4, Zenon
  <1>12. Between(FALSE, b, NoItem, j, << >>, out)
    BY <1>2, <1>6, <1>11, BetweenDeletes
  <1>13. Between(no, b, e, j, << >>, out)
    BY ONLY <1>9, <1>12, Zenon
  <1> QED BY ONLY <1>2, <1>8, <1>10, <1>13, u \in Users, LocalKept

(* Every step keeps what is between the two users. *)
LEMMA BetweenKept ==
    ASSUME Link = "local", SaveOutcomes \subseteq {TRUE}, "remove" \notin Operations,
           LocalInv, CopyInv', [Next]_vars
    PROVE  LocalInv'
  <1>1. SUFFICES \A w \in Users : LocalOf(w)'
    BY DEF LocalInv
  <1>2. CASE UNCHANGED vars
    BY <1>2, LocalStill DEF vars
  <1>3. CASE Next
    <2>1. PICK u \in Users :
            \/ Bind(u) \/ RosterGet(u) \/ Available(u) \/ Unavailable(u)
            \/ Disconnect(u) \/ DeliverPresence(u) \/ DeleteUser(u)
            \/ \E ok \in SaveOutcomes :
                  \/ \E type \in SubscriptionTypes : Outbound(u, type, ok)
                  \/ DeliverSubscription(u, ok)
                  \/ RosterSet(u, ok) \/ RosterRemove(u, ok)
      BY <1>3 DEF Next
    <2>2. \A ok \in SaveOutcomes : ok = TRUE
      OBVIOUS
    <2>3. CASE \E ok \in SaveOutcomes :
                  \/ \E type \in SubscriptionTypes : Outbound(u, type, ok)
                  \/ DeliverSubscription(u, ok)
                  \/ RosterSet(u, ok) \/ RosterRemove(u, ok)
      <3>1. \/ \E type \in SubscriptionTypes : Outbound(u, type, TRUE)
            \/ DeliverSubscription(u, TRUE)
            \/ RosterSet(u, TRUE) \/ RosterRemove(u, TRUE)
        BY <2>2, <2>3, Zenon
      <3>2. ~RosterRemove(u, TRUE)
        BY DEF RosterRemove
      <3> QED BY <3>1, <3>2, LocalActsOut, LocalDelivers, LocalSets, Zenon
    <2> QED BY <2>1, <2>3, LocalQuietSteps, LocalLeaves, LocalArrives, LocalHears, LocalDeletes, Zenon
  <1> QED BY <1>2, <1>3

(* The invariant holds throughout. *)
LEMMA AlwaysLocalInv ==
    ASSUME Link = "local", SaveOutcomes \subseteq {TRUE}, "remove" \notin Operations
    PROVE  Spec => []LocalInv
  <1>1. Init /\ CopyInv => LocalInv
    <2>1. SUFFICES ASSUME Init, NEW u \in Users PROVE LocalOf(u)
      BY DEF LocalInv
    <2>2. PICK v : v = Other(u)
      OBVIOUS
    <2>3. v \in Users
      BY <2>2, TwoUsers
    <2>4. /\ exists[u] = TRUE /\ exists[v] = TRUE /\ roster[u] = NoItem /\ roster[v] = NoItem
          /\ net[u] = << >> /\ net[v] = << >>
      BY <2>1, <2>3 DEF Init
    <2>5. Holds("none", NoItem, NoItem)
      BY DEF Holds, Agrees, NoItem, HasTo, HasFrom
    <2>6. Noise(<< >>) /\ Carries(<< >>, "none")
      BY CarriedOne DEF Carries
    <2>7. Tidy(<< >>, NoItem, NoItem)
      BY <2>5, <2>6 DEF Tidy
    <2>8. Between(TRUE, TRUE, NoItem, NoItem, << >>, << >>)
      BY <2>6, <2>7 DEF Between
    <2> QED BY ONLY <2>2, <2>4, <2>8, Zenon DEF LocalOf
  <1>2. LocalInv /\ CopyInv' /\ [Next]_vars => LocalInv'
    BY BetweenKept
  <1>3. Spec => []CopyInv
    BY AlwaysCopyInv
  <1> QED BY <1>1, <1>2, <1>3, PTL DEF Spec

(* Two users of one server whose store works, who do not remove items:     *)
(* whenever everything has arrived the two rosters agree on every          *)
(* subscription and every request, and an account that was deleted is in   *)
(* neither, in whatever order both asked, approved, denied, cancelled,     *)
(* logged in and were deleted (rostermanager.lua:169-400, mod_presence.lua:*)
(* 155-318, mod_roster.lua:131-149).                                       *)
THEOREM RostersSettle ==
    ASSUME Link = "local", SaveOutcomes \subseteq {TRUE}, "remove" \notin Operations
    PROVE  Spec => []Settled
  <1>1. LocalInv => Settled
    <2>1. SUFFICES ASSUME LocalInv, Quiet
                   PROVE  /\ BothExist => \A u \in Users :
                                 /\ HasTo(roster[u]) <=> HasFrom(roster[Other(u)])
                                 /\ roster[u].ask <=> roster[Other(u)].pending
                          /\ \A u \in Users : ~exists[u] => Bare(roster[Other(u)])
      BY DEF Settled, Agreement, DeletedForgotten, Bare
    <2>2. ASSUME NEW u \in Users
          PROVE  /\ exists[u] /\ exists[Other(u)] =>
                        /\ HasTo(roster[u]) <=> HasFrom(roster[Other(u)])
                        /\ roster[u].ask <=> roster[Other(u)].pending
                 /\ ~exists[u] => Bare(roster[Other(u)])
      <3>1. PICK v, a, b, i, j, s, t : Around(u, v, a, b, i, j, s, t)
        BY <2>1, LocalFinds
      <3>2. /\ v = Other(u) /\ v \in Users /\ a = exists[u] /\ b = exists[v] /\ i = roster[u] /\ j = roster[v]
            /\ s = net[u] /\ t = net[v] /\ a \in BOOLEAN /\ b \in BOOLEAN /\ Sound(i) /\ Sound(j)
            /\ Between(a, b, i, j, s, t)
        BY <3>1, Zenon DEF Around
      <3>3. s = << >> /\ t = << >>
        BY <2>1, <3>2 DEF Quiet
      <3>4. Between(a, b, i, j, << >>, << >>)
        BY ONLY <3>2, <3>3, Zenon
      <3>5. Between(b, a, j, i, << >>, << >>)
        BY ONLY <3>4, BetweenBoth, Zenon
      <3>6. a /\ b => Holds("none", i, j)
        BY ONLY <3>2, <3>4, BetweenQuiet
      <3>7. b /\ ~a => Bare(j)
        BY ONLY <3>2, <3>5, BetweenQuiet
      <3>8. ~a /\ ~b => Bare(j)
        <4>1. ~a /\ ~b => j = NoItem
          BY ONLY <3>4, Zenon DEF Between
        <4>2. Bare(NoItem)
          BY DEF Bare, NoItem, HasTo, HasFrom
        <4> QED BY <4>1, <4>2
      <3>9. Holds("none", i, j) => (HasTo(i) <=> HasFrom(j)) /\ (i.ask <=> j.pending)
        BY DEF Holds, Agrees
      <3> QED BY ONLY <3>2, <3>6, <3>7, <3>8, <3>9, Zenon
    <2> QED BY <2>2, TwoUsers DEF BothExist
  <1> QED BY <1>1, AlwaysLocalInv, PTL

(* On one server the handler of a stanza may read the contact's roster:    *)
(* it says the same.                                                       *)
LEMMA LocalAsksRight ==
    ASSUME LocalInv, NEW u \in Users
    PROVE  AsksRight(u)
  <1>1. SUFFICES ASSUME net[u] # << >>, Head(net[u]) \in {"subscribe", "probe"}
                 PROVE  is_contact_subscribed(u, roster[u]) = HasFrom(roster[u])
    BY DEF AsksRight
  <1>2. PICK v, a, b, i, j, s, t : Around(u, v, a, b, i, j, s, t)
    BY LocalFinds
  <1>3. /\ v = Other(u) /\ a \in BOOLEAN /\ b \in BOOLEAN /\ i = roster[u] /\ j = roster[v]
        /\ s = net[u] /\ Sound(i) /\ Sound(j)
        /\ s \in Seq(Stanzas) /\ t \in Seq(Stanzas) /\ Between(a, b, i, j, s, t)
    BY <1>2, Zenon DEF Around
  <1>4. PICK h : h = Head(s)
    OBVIOUS
  <1>5. s # << >> /\ h \in {"subscribe", "probe"} /\ h \in Signalling /\ h \notin Presences
    BY <1>1, <1>3, <1>4 DEF Signalling, SubscriptionTypes, Presences
  <1>6. SUFFICES HasFrom(i) <=> HasTo(j)
    BY <1>3, EitherRoster
  <1>7. CASE ~a
    <2>1. Between(FALSE, b, i, j, s, t)
      BY ONLY <1>3, <1>7
    <2>2. b \in BOOLEAN /\ t \in Seq(Stanzas) /\ s # << >>
      BY <1>3, <1>5
    <2>3. i = NoItem /\ ~HasTo(j)
      BY ONLY <2>1, <2>2, BetweenEmpty, Zenon
    <2> QED BY <2>3 DEF NoItem, HasFrom
  <1>8. CASE a /\ ~b
    <2>1. Between(TRUE, FALSE, i, j, s, t)
      BY ONLY <1>3, <1>8
    <2>2. s \in Seq(Stanzas) /\ t \in Seq(Stanzas) /\ s # << >> /\ h = Head(s) /\ h \in Signalling
      BY <1>3, <1>4, <1>5
    <2>3. h \in {"unsubscribe", "unsubscribed"}
      BY ONLY <2>1, <2>2, BetweenParts, Zenon
    <2> QED BY <1>5, <2>3
  <1>9. CASE a /\ b
    <2>1. Between(TRUE, TRUE, i, j, s, t)
      BY ONLY <1>3, <1>9
    <2>2. Holds(h, i, j) \/ h = "subscribed"
      BY ONLY <1>3, <1>4, <1>5, <2>1, BetweenFinds
    <2>3. Holds(h, i, j)
      BY <1>5, <2>2
    <2> QED BY <1>5, <2>3 DEF Holds, Agrees
  <1> QED BY <1>3, <1>7, <1>8, <1>9

(* On one server too nobody is ever subscribed to a user's presence whose  *)
(* client did not send "subscribed", although the automatic answers of     *)
(* mod_presence to a request or a probe for an offline user look into the  *)
(* contact's roster instead of the user's (rostermanager.lua:239-251,      *)
(* mod_presence.lua:218-318): the two rosters never differ there when one  *)
(* of these stanzas arrives.                                               *)
THEOREM LocalSubscribersWereAccepted ==
    ASSUME Link = "local", SaveOutcomes \subseteq {TRUE}, "remove" \notin Operations
    PROVE  Spec => []ConsentGiven
  <1>1. Init => ConsentGiven
    BY DEF Init, ConsentGiven, NoItem, HasFrom
  <1>2. LocalInv => \A u \in Users : AsksRight(u)
    BY LocalAsksRight
  <1>3. LocalInv /\ ConsentGiven /\ [Next]_vars => ConsentGiven'
    BY <1>2, StepKeepsConsent DEF LocalInv, CopyInv, ItemsSound
  <1> QED BY <1>1, <1>3, AlwaysLocalInv, PTL DEF Spec
=============================================================================
