------------------------------ MODULE Roster ------------------------------
(***************************************************************************)
(* Presence subscriptions between two users: core/rostermanager.lua, the   *)
(* subscription and probe handlers of plugins/mod_presence.lua and         *)
(* plugins/mod_roster.lua.                                                 *)
(*                                                                         *)
(* Each user's server keeps an item about the other user.  The two servers *)
(* exchange presence stanzas over one ordered stream in each direction.    *)
(* Link says how the two users are connected:                              *)
(*   "remote"   two servers; anything may be in flight when a client acts; *)
(*   "patient"  two servers, but a client changes a subscription only when *)
(*              no subscription stanza of the pair is in flight;           *)
(*   "local"    one server: core_post_stanza calls the other user's        *)
(*              handler before it returns, so every client action finds    *)
(*              both streams empty.                                        *)
(* A user has one client here (C2S has many), and presence is only         *)
(* "available" or "unavailable".                                           *)
(***************************************************************************)
EXTENDS Naturals, Sequences

CONSTANTS
    Users,          \* the two users
    Link,           \* "remote", "patient" or "local"
    Operations,     \* what clients do, a subset of ClientOperations
    SaveOutcomes,   \* what roster_store:set_keys may return
    MaxNet          \* bound: clients act only while both streams are shorter

ClientOperations == {"subscribe", "subscribed", "unsubscribe", "unsubscribed",
                     "get", "set", "remove", "delete"}

SubscriptionTypes == {"subscribe", "subscribed", "unsubscribe", "unsubscribed"}

Stanzas == SubscriptionTypes \cup {"probe", "available", "unavailable"}

ASSUME UsersAssumption == \E a \in Users, b \in Users : a # b /\ Users = {a, b}
ASSUME LinkAssumption == Link \in {"remote", "patient", "local"}
ASSUME OperationsAssumption == Operations \subseteq ClientOperations
ASSUME SaveAssumption == SaveOutcomes \subseteq BOOLEAN
ASSUME NetAssumption == MaxNet \in Nat

VARIABLES
    exists,     \* the account exists
    client,     \* "off", "bound" or "available"
    roster,     \* what load_roster returns: in memory while the user is bound
    disk,       \* the stored roster item, with its part of the metadata
    view,       \* the item as last pushed to an interested client, or Nothing
    sees,       \* the client's idea of whether the other user is available
    shown,      \* the client holds an unanswered subscription request
    consent,    \* history: the client accepted the other user's request
    net         \* stanzas on their way to the user, oldest first

vars == <<exists, client, roster, disk, view, sees, shown, consent, net>>

Other(u) == CHOOSE v \in Users : v # u

(***************************************************************************)
(* A roster item, with roster[false].pending[jid] kept beside it.          *)
(***************************************************************************)
Subscriptions == {"absent", "none", "to", "from", "both"}

Item == [subscription : Subscriptions, ask : BOOLEAN, pending : BOOLEAN]

NoItem == [subscription |-> "absent", ask |-> FALSE, pending |-> FALSE]

Nothing == [subscription |-> "unknown", ask |-> FALSE]

PushedItem(i) == [subscription |-> i.subscription, ask |-> i.ask]

Views == {Nothing} \cup [subscription : Subscriptions, ask : BOOLEAN]

HasTo(i) == i.subscription \in {"to", "both"}
HasFrom(i) == i.subscription \in {"from", "both"}

(* The item after the code created it where it was missing. *)
Created(i) ==
    [i EXCEPT !.subscription = IF @ = "absent" THEN "none" ELSE @]

(* item.subscription without the "to" or without the "from" direction. *)
DropTo(i) ==
    [i EXCEPT !.subscription = CASE @ = "to"   -> "none"
                                 [] @ = "both" -> "from"
                                 [] OTHER      -> @]
DropFrom(i) ==
    [i EXCEPT !.subscription = CASE @ = "from" -> "none"
                                 [] @ = "both" -> "to"
                                 [] OTHER      -> @]

----------------------------------------------------------------------------
(***************************************************************************)
(* rostermanager: what each operation makes of the item.  Every one of     *)
(* them saves the item exactly when it changed it, except where noted.     *)
(***************************************************************************)
process_inbound_subscription_approval(i) ==
    IF i.subscription # "absent" /\ i.ask
    THEN [i EXCEPT !.subscription = IF @ = "none" THEN "to" ELSE "both",
                   !.ask = FALSE]
    ELSE i

(* Mutant: a denial does not clear item.ask. *)
Mut_process_inbound_subscription_cancellation(i) == DropTo(i)

process_inbound_subscription_cancellation(i) ==
    [DropTo(i) EXCEPT !.ask = FALSE]

(* Mutant: roster[false].pending[jid] survives an unsubscribe. *)
Mut_process_inbound_unsubscribe(i) == DropFrom(i)

process_inbound_unsubscribe(i) ==
    [DropFrom(i) EXCEPT !.pending = FALSE]

set_contact_pending_in(i) ==
    IF HasFrom(i) THEN i ELSE [i EXCEPT !.pending = TRUE]

set_contact_pending_out(i) ==
    IF i.ask \/ HasTo(i) THEN i ELSE [Created(i) EXCEPT !.ask = TRUE]

unsubscribe(i) == [DropTo(i) EXCEPT !.ask = FALSE]

(* Mutant: an approval leaves roster[false].pending[jid] set. *)
Mut_subscribed(i) ==
    IF i.pending
    THEN [Created(i) EXCEPT
             !.subscription = IF @ = "none" THEN "from" ELSE "both"]
    ELSE i

subscribed(i) ==
    IF i.pending
    THEN [Created(i) EXCEPT
             !.subscription = IF @ = "none" THEN "from" ELSE "both",
             !.pending = FALSE]
    ELSE i

unsubscribed(i) == [DropFrom(i) EXCEPT !.pending = FALSE]

(* is_contact_subscribed and is_user_subscribed for a user whose item is i: *)
(* for an offline user they read the roster of a contact who is online on   *)
(* this same server instead.                                                *)
ContactIsOnlineHere(u) == Link = "local" /\ client[Other(u)] # "off"

is_contact_subscribed(u, i) ==
    IF client[u] = "off" /\ ContactIsOnlineHere(u)
    THEN HasTo(roster[Other(u)])
    ELSE HasFrom(i)

is_user_subscribed(u, i) ==
    IF client[u] = "off" /\ ContactIsOnlineHere(u)
    THEN HasFrom(roster[Other(u)])
    ELSE HasTo(i)

(* save_roster refuses when the account is gone and may fail in the store. *)
Saved(u, ok) == ok /\ exists[u]

(* The item that load_roster returns after an operation changed it to i: a *)
(* roster loaded for an offline user is dropped when it was not saved.     *)
Kept(u, i, ok) == IF Saved(u, ok) \/ client[u] # "off" THEN i ELSE disk[u]

----------------------------------------------------------------------------
(***************************************************************************)
(* A handler's effect on the user it runs for: the new item, whether it    *)
(* tries to save it, whether it pushes it to the interested client, and    *)
(* the stanzas it sends to the other user.                                 *)
(***************************************************************************)
Effect(i, saves, pushes, out) ==
    [item |-> i, saves |-> saves, pushes |-> pushes, out |-> out]

send_presence_of_available_resources(u) ==
    IF client[u] = "available" THEN <<"available">> ELSE << >>

(* Presence of u, or "unavailable" where the count of resources is zero. *)
PresenceOrUnavailable(u) ==
    IF client[u] = "available" THEN <<"available">> ELSE <<"unavailable">>

outbound_subscribe(u, i, ok) ==
    LET new == set_contact_pending_out(i)
    IN  Effect(new, new # i, new = i \/ Saved(u, ok), <<"subscribe">>)

outbound_unsubscribe(u, i, ok) ==
    LET new == unsubscribe(i)
    IN  Effect(new, new # i,
               i.subscription # "absent" /\ (new = i \/ Saved(u, ok)),
               <<"unsubscribe">>)

outbound_subscribed(u, i, ok) ==
    LET new == subscribed(i)
        probes == is_user_subscribed(u, Kept(u, new, ok))
    IN  Effect(new, new # i, new # i /\ Saved(u, ok),
               <<"subscribed">>
               \o send_presence_of_available_resources(u)
               \o (IF probes THEN <<"probe">> ELSE << >>))

outbound_unsubscribed(u, i, ok) ==
    LET new == unsubscribed(i)
        success == new # i /\ Saved(u, ok)
    IN  Effect(new, new # i, success /\ HasFrom(i),
               IF ~success THEN << >>
               ELSE <<"unsubscribed">>
                    \o (IF HasFrom(i) /\ client[u] = "available"
                        THEN <<"unavailable">> ELSE << >>))

handle_outbound_presence_subscriptions_and_probes(u, type, i, ok) ==
    CASE type = "subscribe"    -> outbound_subscribe(u, i, ok)
      [] type = "unsubscribe"  -> outbound_unsubscribe(u, i, ok)
      [] type = "subscribed"   -> outbound_subscribed(u, i, ok)
      [] type = "unsubscribed" -> outbound_unsubscribed(u, i, ok)

(***************************************************************************)
(* A stanza from the other user.  The answers "subscribed" and             *)
(* "unsubscribed" are posted with preevents set, so they pass through the  *)
(* outbound handler above as if the user had sent them.                    *)
(***************************************************************************)
inbound_probe(u, i, ok) ==
    IF is_contact_subscribed(u, i)
    THEN Effect(i, FALSE, FALSE, PresenceOrUnavailable(u))
    ELSE outbound_unsubscribed(u, i, ok)

(* Mutant: a second request is answered as if the first had been granted. *)
Mut_inbound_subscribe(u, i, ok) ==
    IF is_contact_subscribed(u, i) \/ i.pending
    THEN LET e == outbound_subscribed(u, i, ok)
         IN  [e EXCEPT !.out = @ \o PresenceOrUnavailable(u)]
    ELSE LET new == set_contact_pending_in(i)
         IN  Effect(new, new # i, FALSE, <<"unavailable">>)

inbound_subscribe(u, i, ok) ==
    IF is_contact_subscribed(u, i)
    THEN LET e == outbound_subscribed(u, i, ok)
         IN  [e EXCEPT !.out = @ \o PresenceOrUnavailable(u)]
    ELSE LET new == set_contact_pending_in(i)
         IN  Effect(new, new # i, FALSE, <<"unavailable">>)

(* Mutant: what another server's stanza changes is not saved. *)
Mut_Inbound(u, ok, new) ==
    LET i == roster[u]
    IN  Effect(new, FALSE, new # i /\ Saved(u, ok), << >>)

Inbound(u, ok, new) ==
    LET i == roster[u]
    IN  Effect(new, new # i, new # i /\ Saved(u, ok), << >>)

handle_inbound_presence_subscriptions_and_probes(u, type, ok) ==
    LET i == roster[u]
    IN  CASE type = "probe"        -> inbound_probe(u, i, ok)
          [] type = "subscribe"    -> inbound_subscribe(u, i, ok)
          [] type = "unsubscribe"  ->
                 Inbound(u, ok, process_inbound_unsubscribe(i))
          [] type = "subscribed"   ->
                 Inbound(u, ok, process_inbound_subscription_approval(i))
          [] type = "unsubscribed" ->
                 Inbound(u, ok, process_inbound_subscription_cancellation(i))

(* The parts of a handler that every one of them ends with. *)
Stores(u, e, ok) ==
    /\ roster' = [roster EXCEPT ![u] = Kept(u, e.item, ok)]
    /\ disk' = [disk EXCEPT ![u] =
                   IF e.saves /\ Saved(u, ok) THEN e.item ELSE @]

Pushes(u, e) ==
    view' = [view EXCEPT ![u] =
                IF e.pushes /\ @ # Nothing THEN PushedItem(e.item) ELSE @]

Sends(u, out) == net' = [net EXCEPT ![Other(u)] = @ \o out]

----------------------------------------------------------------------------
Init ==
    /\ exists = [u \in Users |-> TRUE]
    /\ client = [u \in Users |-> "off"]
    /\ roster = [u \in Users |-> NoItem]
    /\ disk = [u \in Users |-> NoItem]
    /\ view = [u \in Users |-> Nothing]
    /\ sees = [u \in Users |-> FALSE]
    /\ shown = [u \in Users |-> FALSE]
    /\ consent = [u \in Users |-> FALSE]
    /\ net = [u \in Users |-> << >>]

Quiet == \A u \in Users : net[u] = << >>

NoSubscriptionInFlight ==
    \A u \in Users : \A k \in 1..Len(net[u]) : net[u][k] \notin SubscriptionTypes

(* When a client may act at all, and when it may change a subscription. *)
MayAct ==
    /\ \A v \in Users : Len(net[v]) < MaxNet
    /\ Link = "local" => Quiet

MayChange(u) ==
    /\ MayAct
    /\ client[u] # "off"
    /\ Link = "patient" => NoSubscriptionInFlight

(* A resource is bound: load_roster puts the roster into memory. *)
Bind(u) ==
    /\ exists[u]
    /\ client[u] = "off"
    /\ MayAct
    /\ client' = [client EXCEPT ![u] = "bound"]
    /\ roster' = [roster EXCEPT ![u] = disk[u]]
    /\ UNCHANGED <<exists, disk, view, sees, shown, consent, net>>

(* The client asks for its roster and is interested in pushes from now on. *)
RosterGet(u) ==
    /\ "get" \in Operations
    /\ client[u] # "off"
    /\ MayAct
    /\ view' = [view EXCEPT ![u] = PushedItem(roster[u])]
    /\ UNCHANGED <<exists, client, roster, disk, sees, shown, consent, net>>

(* Mutant: initial presence does not probe the contact. *)
Mut_AvailableStanzas(u) ==
    LET i == roster[u]
        initial == client[u] = "bound"
    IN  (IF HasFrom(i) THEN <<"available">> ELSE << >>)
        \o (IF initial /\ i.ask THEN <<"subscribe">> ELSE << >>)

(* Available presence without a recipient.  The first one of a session also *)
(* probes the contact, shows the client a request that waits for it and     *)
(* repeats the user's own unanswered request.                               *)
AvailableStanzas(u) ==
    LET i == roster[u]
        initial == client[u] = "bound"
    IN  (IF HasFrom(i) THEN <<"available">> ELSE << >>)
        \o (IF initial /\ HasTo(i) THEN <<"probe">> ELSE << >>)
        \o (IF initial /\ i.ask THEN <<"subscribe">> ELSE << >>)

(* Mutant: requests that arrived earlier are not shown at login. *)
Mut_Resent(u) == FALSE

Resent(u) == client[u] = "bound" /\ roster[u].pending

Available(u) ==
    /\ client[u] # "off"
    /\ MayAct
    /\ client' = [client EXCEPT ![u] = "available"]
    /\ Sends(u, AvailableStanzas(u))
    /\ shown' = [shown EXCEPT ![u] = @ \/ Resent(u)]
    /\ view' = [view EXCEPT ![u] =
                   IF client[u] = "bound" /\ roster[u].ask /\ @ # Nothing
                   THEN PushedItem(roster[u]) ELSE @]
    /\ UNCHANGED <<exists, roster, disk, sees, consent>>

UnavailableStanzas(u) ==
    IF client[u] = "available" /\ HasFrom(roster[u])
    THEN <<"unavailable">> ELSE << >>

Unavailable(u) ==
    /\ client[u] = "available"
    /\ MayAct
    /\ client' = [client EXCEPT ![u] = "bound"]
    /\ Sends(u, UnavailableStanzas(u))
    /\ sees' = [sees EXCEPT ![u] = FALSE]
    /\ shown' = [shown EXCEPT ![u] = FALSE]
    /\ UNCHANGED <<exists, roster, disk, view, consent>>

(* The session ends: the roster leaves memory, saved or not. *)
Disconnect(u) ==
    /\ client[u] # "off"
    /\ MayAct
    /\ client' = [client EXCEPT ![u] = "off"]
    /\ roster' = [roster EXCEPT ![u] = disk[u]]
    /\ view' = [view EXCEPT ![u] = Nothing]
    /\ sees' = [sees EXCEPT ![u] = FALSE]
    /\ shown' = [shown EXCEPT ![u] = FALSE]
    /\ Sends(u, UnavailableStanzas(u))
    /\ UNCHANGED <<exists, disk, consent>>

(* The client sends a subscription stanza to the other user. *)
Answers(type) == type \in {"subscribed", "unsubscribed"}

Outbound(u, type, ok) ==
    LET e == handle_outbound_presence_subscriptions_and_probes(
                 u, type, roster[u], ok)
    IN  /\ MayChange(u)
        /\ type \in Operations
        /\ Stores(u, e, ok)
        /\ Pushes(u, e)
        /\ Sends(u, e.out)
        /\ shown' = [shown EXCEPT ![u] = @ /\ ~Answers(type)]
        /\ consent' = [consent EXCEPT ![u] =
                          CASE type = "subscribed"   -> TRUE
                            [] type = "unsubscribed" ->
                                   @ /\ ~(e.saves /\ Saved(u, ok))
                            [] OTHER                 -> @]
        /\ UNCHANGED <<exists, client, sees>>

(* A subscription stanza or a probe from the other user arrives. *)
ShowsRequest(u, type, e, ok) ==
    type = "subscribe" /\ e.saves /\ Saved(u, ok) /\ client[u] = "available"
      /\ e.item.pending

DeliverSubscription(u, ok) ==
    LET type == Head(net[u])
        e == handle_inbound_presence_subscriptions_and_probes(u, type, ok)
    IN  /\ net[u] # << >>
        /\ type \in SubscriptionTypes \cup {"probe"}
        /\ Stores(u, e, ok)
        /\ Pushes(u, e)
        /\ net' = [net EXCEPT ![u] = Tail(@), ![Other(u)] = @ \o e.out]
        /\ shown' = [shown EXCEPT ![u] =
                        IF type = "unsubscribe" /\ e.pushes THEN FALSE
                        ELSE @ \/ ShowsRequest(u, type, e, ok)]
        /\ consent' = [consent EXCEPT ![u] =
                          @ /\ ~(type = "unsubscribe" /\ e.pushes)]
        /\ UNCHANGED <<exists, client, sees>>

(* Presence of the other user arrives; it reaches an available client. *)
DeliverPresence(u) ==
    /\ net[u] # << >>
    /\ Head(net[u]) \in {"available", "unavailable"}
    /\ net' = [net EXCEPT ![u] = Tail(@)]
    /\ sees' = [sees EXCEPT ![u] =
                   IF client[u] = "available"
                   THEN Head(net[u]) = "available" ELSE @]
    /\ UNCHANGED <<exists, client, roster, disk, view, shown, consent>>

(* jabber:iq:roster set: the name and groups change, the item is created. *)
(* add_to_roster puts the old item back when the save fails.              *)
RosterSet(u, ok) ==
    LET i == roster[u]
        new == IF Saved(u, ok) THEN Created(i) ELSE i
    IN  /\ MayChange(u)
        /\ "set" \in Operations
        /\ Stores(u, Effect(new, TRUE, TRUE, << >>), ok)
        /\ Pushes(u, Effect(new, TRUE, Saved(u, ok), << >>))
        /\ UNCHANGED <<exists, client, sees, shown, consent, net>>

(* What the roster-item-removed hook of mod_presence sends, when the item  *)
(* is i.  The unavailable presence it means to send first goes out for the *)
(* resources of the wrong user, the contact's namesake (mod_roster passes  *)
(* the contact's node as username), so the contact does not get it.        *)
RemovalStanzas(i, pending) ==
    (IF HasFrom(i) \/ pending THEN <<"unsubscribed">> ELSE << >>)
    \o (IF HasTo(i) \/ i.ask THEN <<"unsubscribe">> ELSE << >>)

(* jabber:iq:roster set with subscription "remove": the stanzas go out     *)
(* first, then the item is removed, and put back when the save fails.      *)
(* roster[false].pending[jid] is left as it is.                            *)
RosterRemove(u, ok) ==
    LET i == roster[u]
        new == IF Saved(u, ok)
               THEN [NoItem EXCEPT !.pending = i.pending] ELSE i
    IN  /\ MayChange(u)
        /\ "remove" \in Operations
        /\ i.subscription # "absent"
        /\ Stores(u, Effect(new, TRUE, TRUE, << >>), ok)
        /\ Pushes(u, Effect(new, TRUE, Saved(u, ok), << >>))
        /\ Sends(u, RemovalStanzas(i, i.pending))
        /\ consent' = [consent EXCEPT ![u] = @ /\ ~Saved(u, ok)]
        /\ UNCHANGED <<exists, client, sees, shown>>

(* The account is deleted: the user-deleted hook of mod_roster cancels     *)
(* every subscription (a pending contact has a roster entry of its own),   *)
(* mod_c2s ends the session, and the stored roster is purged.              *)
DeletionStanzas(u) ==
    LET i == roster[u]
        online == client[u] = "available"
    IN  (IF i.subscription = "absent" THEN << >>
         ELSE (IF HasFrom(i) \/ i.pending THEN <<"unsubscribed">> ELSE << >>)
              \o (IF HasTo(i) \/ i.ask
                  THEN (IF online THEN <<"unavailable">> ELSE << >>)
                       \o <<"unsubscribe">>
                  ELSE << >>))
        \o (IF i.pending THEN <<"unsubscribed">> ELSE << >>)
        \o UnavailableStanzas(u)

DeleteUser(u) ==
    /\ exists[u]
    /\ "delete" \in Operations
    /\ MayAct
    /\ Link = "patient" => NoSubscriptionInFlight
    /\ exists' = [exists EXCEPT ![u] = FALSE]
    /\ client' = [client EXCEPT ![u] = "off"]
    /\ roster' = [roster EXCEPT ![u] = NoItem]
    /\ disk' = [disk EXCEPT ![u] = NoItem]
    /\ view' = [view EXCEPT ![u] = Nothing]
    /\ sees' = [sees EXCEPT ![u] = FALSE]
    /\ shown' = [shown EXCEPT ![u] = FALSE]
    /\ consent' = [consent EXCEPT ![u] = FALSE]
    /\ Sends(u, DeletionStanzas(u))

Next ==
    \E u \in Users :
        \/ Bind(u)
        \/ RosterGet(u)
        \/ Available(u)
        \/ Unavailable(u)
        \/ Disconnect(u)
        \/ \E ok \in SaveOutcomes :
              \/ \E type \in SubscriptionTypes : Outbound(u, type, ok)
              \/ DeliverSubscription(u, ok)
              \/ RosterSet(u, ok)
              \/ RosterRemove(u, ok)
        \/ DeliverPresence(u)
        \/ DeleteUser(u)

Spec == Init /\ [][Next]_vars

----------------------------------------------------------------------------
TypeOK ==
    /\ exists \in [Users -> BOOLEAN]
    /\ client \in [Users -> {"off", "bound", "available"}]
    /\ roster \in [Users -> Item]
    /\ disk \in [Users -> Item]
    /\ view \in [Users -> Views]
    /\ sees \in [Users -> BOOLEAN]
    /\ shown \in [Users -> BOOLEAN]
    /\ consent \in [Users -> BOOLEAN]
    /\ net \in [Users -> Seq(Stanzas)]

(* An item never claims a subscription and a request for the same           *)
(* direction: whoever waits for an answer is not subscribed, and a request  *)
(* never waits from someone who is.  Every branch of rostermanager that     *)
(* says "else -- subscription == from" or "== to" relies on it.             *)
ItemWellFormed(i) ==
    /\ i.ask => i.subscription \in {"none", "from"}
    /\ i.pending => ~HasFrom(i)

WellFormed == \A u \in Users : ItemWellFormed(roster[u]) /\ ItemWellFormed(disk[u])

(* The items of both users, in memory and in the store, whatever was asked  *)
(* for and whichever saves failed (rostermanager.lua:140-400).              *)
ItemsSound == TypeOK /\ WellFormed

(* Without save failures, memory and store never differ: each operation of *)
(* rostermanager that changes the roster saves it.                         *)
StoredIsCurrent == \A u \in Users : roster[u] = disk[u]

(* An interested client's copy of the item is the server's: every change   *)
(* of an item, by whichever of the handlers, is pushed.                    *)
ViewIsCurrent ==
    \A u \in Users : view[u] # Nothing => view[u] = PushedItem(roster[u])

(* What the store has and what the client was shown is the roster: no      *)
(* handler forgets to save or to push (rostermanager.lua:61-86, 140-167).  *)
CopiesCurrent == StoredIsCurrent /\ ViewIsCurrent

(* Nobody is subscribed to a user whose client did not accept a request,   *)
(* or whose subscription ended since, in memory and in the store: the      *)
(* automatic answers to subscribe and to probe never grant anything, and a *)
(* save that fails never brings a subscription back.                       *)
ConsentGiven ==
    \A u \in Users : HasFrom(roster[u]) \/ HasFrom(disk[u]) => consent[u]

(* A request that waits for an answer has been shown to the client that is *)
(* available, wherever the user was when it arrived.                       *)
RequestShown ==
    \A u \in Users :
        client[u] = "available" /\ roster[u].pending => shown[u]

(* With nothing in flight, both rosters say the same of the subscription:  *)
(* the two servers never share a lock, only these stanzas.                 *)
BothExist == \A u \in Users : exists[u]

Agreement ==
    Quiet /\ BothExist =>
        \A u \in Users :
            /\ HasTo(roster[u]) <=> HasFrom(roster[Other(u)])
            /\ roster[u].ask <=> roster[Other(u)].pending

(* The part of Agreement a user relies on: who believes to be subscribed   *)
(* is served by the other server, who waits for an answer has a request    *)
(* waiting there.                                                          *)
Served ==
    Quiet /\ BothExist =>
        \A u \in Users :
            /\ HasTo(roster[u]) => HasFrom(roster[Other(u)])
            /\ roster[u].ask => roster[Other(u)].pending

(* With nothing in flight, an available client that is subscribed sees the *)
(* other user as it is: available or not, whatever order logins, approvals *)
(* and probes happened in.                                                 *)
PresenceAccurate ==
    Quiet /\ BothExist =>
        \A u \in Users :
            client[u] = "available" /\ HasTo(roster[u]) =>
                (sees[u] <=> client[Other(u)] = "available")

(* An account that was deleted leaves no subscription behind: once its     *)
(* stanzas arrived nobody is subscribed to it, nor it to anybody, and no   *)
(* request of it waits for an answer.                                      *)
DeletedForgotten ==
    Quiet => \A u \in Users : ~exists[u] =>
        LET i == roster[Other(u)]
        IN  ~HasTo(i) /\ ~HasFrom(i) /\ ~i.pending

(* Once everything has arrived the two rosters fit together: they agree on *)
(* every subscription and request, and a deleted account is in neither     *)
(* (rostermanager.lua:169-400, mod_roster.lua:131-149).                    *)
Settled == Agreement /\ DeletedForgotten
=============================================================================
