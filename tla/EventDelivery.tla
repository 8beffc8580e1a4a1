---------------------------- MODULE EventDelivery -----------------------------
(***************************************************************************)
(* The subscriptions of one server process and the delivery of events to   *)
(* them (fastapi_viewsets/events/delivery.py), with the `subscribe` and    *)
(* `unsubscribe` of the events viewset that fill the tables. The process   *)
(* runs one event loop: an action is what runs between two awaits.         *)
(*                                                                         *)
(* A Subscription object is a number, given in the order the objects are   *)
(* made, so the clock that ages them (`authorized_at`) is a number too:    *)
(* `aged`, the newest object that is due for a reauthorization. 0 is no    *)
(* object. A peer is what `id(peer)` tells apart.                          *)
(***************************************************************************)
EXTENDS Naturals, FiniteSets, Functions

CONSTANTS
    Peers,      \* the values of `id(peer)`
    Topics,     \* client topics
    Stores,     \* store topics
    Scoped,     \* the store topics of scoped topics, which are reauthorized
    Refused,    \* a gate that refuses
    Limit,      \* viewsets_event_max_subscriptions
    MaxSubs,    \* bound: how many Subscription objects are made
    MaxEvents   \* bound: how many events are delivered

ASSUME EventDeliveryAssumption ==
    /\ Scoped \subseteq Stores /\ Refused \notin Stores
    /\ Limit \in Nat /\ MaxSubs \in Nat /\ MaxEvents \in Nat

VARIABLES
    sock,       \* sock[p]: the socket of peer p
    handler,    \* the peers an `on_close` handler is registered with
    installed,  \* `_close_installed`
    byPeer,     \* `_by_peer`
    byTopic,    \* `_by_topic`
    sub,        \* the Subscription objects made
    aged,       \* the newest object whose `authorized_at` is too old
    call,       \* call[p][t]: the subscribe under way, after its gate
    task,       \* task[o]: the reauthorization of object o, `_reauth_tasks`
    push,       \* push[n][o]: the push of the n-th event to object o
    sought      \* history: the subscribe the socket made last, 0 once unsubscribed

table        == <<installed, byPeer, byTopic>>
deliveryVars == <<sock, handler, table, sub, aged, call, task, push, sought>>

Subs == 1 .. MaxSubs

(* `origin` is the object `subscribe` made; a renewal keeps it. *)
SubRecords == [peer : Peers, topic : Topics, store : Stores, origin : Subs]

NoCall == [kind |-> "none"]
Calls  == {NoCall} \cup [kind : {"gated"}, answer : Stores \cup {Refused}]

TaskStates == {"none", "asking", "refused", "failed", "same", "other", "yes", "no"}

PushStates == {"none", "start", "waiting", "send", "sent", "ended"}

Made == DOMAIN sub

DeliveryInit ==
    /\ sock = [p \in Peers |-> "open"]
    /\ handler = {} /\ installed = {}
    /\ byPeer = [p \in Peers |-> [t \in Topics |-> 0]]
    /\ byTopic = [s \in Stores |-> [k \in Peers \X Topics |-> 0]]
    /\ sub = << >> /\ aged = 0
    /\ call = [p \in Peers |-> [t \in Topics |-> NoCall]]
    /\ task = [o \in Subs |-> "none"]
    /\ push = << >>
    /\ sought = [p \in Peers |-> [t \in Topics |-> 0]]

-----------------------------------------------------------------------------
(* The tables                                                               *)

Held(p) == {byPeer[p][t] : t \in Topics} \ {0}

(* `_remove` of the objects in S that the tables hold; an object is in      *)
(* `_by_topic` under its own store topic only.                              *)
ByPeerWithout(S) ==
    [p \in Peers |-> [t \in Topics |-> IF byPeer[p][t] \in S THEN 0 ELSE byPeer[p][t]]]

ByTopicWithout(S) ==
    [s \in Stores |-> [k \in Peers \X Topics |-> IF byTopic[s][k] \in S THEN 0 ELSE byTopic[s][k]]]

Remove(S) ==
    /\ byPeer' = ByPeerWithout(S)
    /\ byTopic' = ByTopicWithout(S)

(* Mutant of DropPeer: the socket stays marked as watched. *)
DropPeerKeepsMark(p) == Remove(Held(p)) /\ UNCHANGED installed

(* `drop_peer` *)
DropPeer(p) ==
    /\ installed' = installed \ {p}
    /\ Remove(Held(p))

(* Put object o, with record r, where `previous` was. *)
Put(o, r, previous) ==
    /\ sub' = [x \in Made \cup {o} |-> IF x = o THEN r ELSE sub[x]]
    /\ byPeer' = [ByPeerWithout({previous}) EXCEPT ![r.peer][r.topic] = o]
    /\ byTopic' = [ByTopicWithout({previous}) EXCEPT ![r.store][<<r.peer, r.topic>>] = o]

-----------------------------------------------------------------------------
(* The viewset                                                              *)

(* A topic the socket holds is replaced and counts once. *)
HasRoom(p, t) == byPeer[p][t] # 0 \/ Cardinality(Held(p)) < Limit

(* The gate of a `subscribe` has answered. *)
Gate(p, t, answer) ==
    /\ sock[p] = "open" /\ call[p][t] = NoCall
    /\ call' = [call EXCEPT ![p][t] = [kind |-> "gated", answer |-> answer]]
    /\ UNCHANGED <<sock, handler, table, sub, aged, task, push, sought>>

EndCall(p, t) == call' = [call EXCEPT ![p][t] = NoCall]

(* A refusal of `subscribe` or `poll` unsubscribes the topic. *)
SubscribeRefused(p, t) ==
    /\ call[p][t] # NoCall /\ call[p][t].answer = Refused
    /\ Remove({byPeer[p][t]} \ {0})
    /\ sought' = [sought EXCEPT ![p][t] = 0]
    /\ EndCall(p, t)
    /\ UNCHANGED <<sock, handler, installed, sub, aged, task, push>>

(* `delivery.subscribe` of a closed peer, and of one at its limit *)
SubscribeInVain(p, t) ==
    /\ call[p][t] # NoCall /\ call[p][t].answer # Refused
    /\ sock[p] # "open" \/ ~HasRoom(p, t)
    /\ EndCall(p, t)
    /\ UNCHANGED <<sock, handler, table, sub, aged, task, push, sought>>

(* `delivery.subscribe` *)
Subscribe(p, t) ==
    LET o == Cardinality(Made) + 1
        r == [peer |-> p, topic |-> t, store |-> call[p][t].answer, origin |-> o] IN
    /\ call[p][t] # NoCall /\ call[p][t].answer # Refused /\ o <= MaxSubs
    /\ sock[p] = "open" /\ HasRoom(p, t)
    /\ Put(o, r, byPeer[p][t])
    /\ installed' = installed \cup {p}
    /\ handler' = IF p \in installed THEN handler ELSE handler \cup {p}
    /\ sought' = [sought EXCEPT ![p][t] = o]
    /\ EndCall(p, t)
    /\ UNCHANGED <<sock, aged, task, push>>

(* `unsubscribe`, of the viewset or around a poll's refusal *)
Unsubscribe(p, t) ==
    /\ sock[p] = "open" /\ byPeer[p][t] # 0
    /\ Remove({byPeer[p][t]})
    /\ sought' = [sought EXCEPT ![p][t] = 0]
    /\ UNCHANGED <<sock, handler, installed, sub, aged, call, task, push>>

(* `drop_subscriptions`, for a predicate on the store topic. *)
DropSubscriptions(s) ==
    LET S == Range(byTopic[s]) \ {0} IN
    /\ S # {}
    /\ Remove(S)
    /\ UNCHANGED <<sock, handler, installed, sub, aged, call, task, push, sought>>

-----------------------------------------------------------------------------
(* The sockets                                                              *)

(* `is_open` is false from here on; the handlers run next. *)
Close(p) ==
    /\ sock[p] = "open"
    /\ sock' = [sock EXCEPT ![p] = "closing"]
    /\ UNCHANGED <<handler, table, sub, aged, call, task, push, sought>>

RunHandlers(p) ==
    /\ sock[p] = "closing"
    /\ sock' = [sock EXCEPT ![p] = "closed"]
    /\ handler' = handler \ {p}
    /\ IF p \in handler THEN DropPeer(p) ELSE UNCHANGED table
    /\ UNCHANGED <<sub, aged, call, task, push, sought>>

(* A new peer at the address of one that nothing refers to any more. *)
Reuse(p) ==
    /\ sock[p] = "closed"
    /\ \A t \in Topics : call[p][t] = NoCall
    /\ \A o \in Made : sub[o].peer = p =>
           /\ task[o] = "none"
           /\ \A n \in DOMAIN push : push[n][o] \in {"none", "sent", "ended"}
    /\ sock' = [sock EXCEPT ![p] = "open"]
    /\ sought' = [sought EXCEPT ![p] = [t \in Topics |-> 0]]
    /\ UNCHANGED <<handler, table, sub, aged, call, task, push>>

-----------------------------------------------------------------------------
(* The delivery                                                             *)

(* Time passes: one more object is due. *)
Age ==
    /\ aged < Cardinality(Made)
    /\ aged' = aged + 1
    /\ UNCHANGED <<sock, handler, table, sub, call, task, push, sought>>

(* `deliver`, after the listeners: one task per subscription. *)
Deliver(s) ==
    LET captured == Range(byTopic[s]) \ {0}
        n == Cardinality(DOMAIN push) + 1 IN
    /\ captured # {} /\ n <= MaxEvents
    /\ push' = [m \in DOMAIN push \cup {n} |->
                   IF m # n THEN push[m]
                   ELSE [o \in Subs |-> IF o \in captured THEN "start" ELSE "none"]]
    /\ UNCHANGED <<sock, handler, table, sub, aged, call, task, sought>>

PushBecomes(n, o, state) == push' = [push EXCEPT ![n][o] = state]

(* `_needs_reauthorization` *)
IsDue(o) == sub[o].store \in Scoped /\ o <= aged

(* The push runs: `_reauthorized` joins the task of its object, or makes    *)
(* one. A task that is done answers until its callback has run.             *)
StartPush(n, o) ==
    /\ push[n][o] = "start"
    /\ \/ ~IsDue(o) /\ PushBecomes(n, o, "send") /\ UNCHANGED task
       \/ IsDue(o) /\ task[o] = "none"
          /\ PushBecomes(n, o, "waiting") /\ task' = [task EXCEPT ![o] = "asking"]
       \/ IsDue(o) /\ task[o] \in {"asking", "refused", "failed", "same", "other"}
          /\ PushBecomes(n, o, "waiting") /\ UNCHANGED task
       \/ IsDue(o) /\ task[o] \in {"yes", "no"}
          /\ PushBecomes(n, o, IF task[o] = "yes" THEN "send" ELSE "ended") /\ UNCHANGED task
    /\ UNCHANGED <<sock, handler, table, sub, aged, call, sought>>

(* The gate that `subscription.reauthorize()` runs has answered. *)
Regate(o, answer) ==
    /\ task[o] = "asking"
    /\ task' = [task EXCEPT ![o] = answer]
    /\ UNCHANGED <<sock, handler, table, sub, aged, call, push, sought>>

(* The task is done, and so are the waits for it. *)
Conclude(o, good) ==
    /\ task' = [task EXCEPT ![o] = IF good THEN "yes" ELSE "no"]
    /\ push' = [n \in DOMAIN push |-> [push[n] EXCEPT ![o] =
                   IF @ # "waiting" THEN @ ELSE IF good THEN "send" ELSE "ended"]]

IsHeld(o) == byPeer[sub[o].peer][sub[o].topic] = o

(* Mutant of Withdraw: what the socket holds now goes, whatever it is. *)
WithdrawAny(o) == Remove({byPeer[sub[o].peer][sub[o].topic]} \ {0}) /\ UNCHANGED sub

(* `_remove(peer_key, topic, subscription)` *)
Withdraw(o) == Remove({o}) /\ UNCHANGED sub

(* `dataclasses.replace(subscription, authorized_at=...)` in both tables *)
Renew(o) ==
    LET new == Cardinality(Made) + 1 IN
    IF IsHeld(o)
      THEN new <= MaxSubs /\ Put(new, sub[o], o)
      ELSE UNCHANGED <<sub, byPeer, byTopic>>

(* Mutant of Passes: a gate that failed lets the push pass. *)
PassesUnlessRefused(answer) == answer \in {"same", "failed"}

Passes(answer) == answer = "same"

(* The rest of `_reauthorize`. *)
Reauthorize(o) ==
    /\ task[o] \in {"refused", "failed", "same", "other"}
    /\ Conclude(o, Passes(task[o]))
    /\ CASE task[o] \in {"refused", "other"} -> Withdraw(o)
         [] task[o] = "same" -> Renew(o)
         [] task[o] = "failed" -> UNCHANGED <<sub, byPeer, byTopic>>
    /\ UNCHANGED <<sock, handler, installed, aged, call, sought>>

(* The task's callback, `forget`. *)
Forget(o) ==
    /\ task[o] \in {"yes", "no"}
    /\ task' = [task EXCEPT ![o] = "none"]
    /\ UNCHANGED <<sock, handler, table, sub, aged, call, push, sought>>

(* A delivery filter keeps the event from the socket, or the time is up:    *)
(* a reauthorization the push started goes on.                              *)
EndPush(n, o) ==
    /\ push[n][o] \in {"start", "waiting", "send"}
    /\ PushBecomes(n, o, "ended")
    /\ UNCHANGED <<sock, handler, table, sub, aged, call, task, sought>>

(* `peer.notify()`, which raises ConnectionLost on a closed peer. *)
Notify(n, o) ==
    LET p == sub[o].peer IN
    /\ push[n][o] = "send"
    /\ IF sock[p] = "open"
         THEN PushBecomes(n, o, "sent") /\ UNCHANGED table
         ELSE PushBecomes(n, o, "ended") /\ DropPeer(p)
    /\ UNCHANGED <<sock, handler, sub, aged, call, task, sought>>

-----------------------------------------------------------------------------
Command(p, t) ==
    \/ \E answer \in Stores \cup {Refused} : Gate(p, t, answer)
    \/ SubscribeRefused(p, t) \/ SubscribeInVain(p, t) \/ Subscribe(p, t)
    \/ Unsubscribe(p, t)

Socket(p) == Close(p) \/ RunHandlers(p) \/ Reuse(p)

Reauthorization(o) ==
    \/ \E answer \in {"refused", "failed", "same", "other"} : Regate(o, answer)
    \/ Reauthorize(o) \/ Forget(o)

Push(n, o) == StartPush(n, o) \/ EndPush(n, o) \/ Notify(n, o)

DeliveryNext ==
    \/ \E p \in Peers : Socket(p) \/ \E t \in Topics : Command(p, t)
    \/ \E s \in Stores : Deliver(s) \/ DropSubscriptions(s)
    \/ Age
    \/ \E o \in Made : Reauthorization(o) \/ \E n \in DOMAIN push : Push(n, o)

DeliverySpec == DeliveryInit /\ [][DeliveryNext]_deliveryVars

-----------------------------------------------------------------------------
(* Properties                                                               *)

DeliveryTypeOK ==
    /\ sock \in [Peers -> {"open", "closing", "closed"}]
    /\ handler \subseteq Peers /\ installed \subseteq Peers
    /\ byPeer \in [Peers -> [Topics -> 0 .. MaxSubs]]
    /\ byTopic \in [Stores -> [Peers \X Topics -> 0 .. MaxSubs]]
    /\ Made = 1 .. Cardinality(Made) /\ Made \subseteq Subs
    /\ sub \in [Made -> SubRecords]
    /\ aged \in 0 .. MaxSubs
    /\ call \in [Peers -> [Topics -> Calls]]
    /\ task \in [Subs -> TaskStates]
    /\ DOMAIN push \subseteq 1 .. MaxEvents
    /\ push \in [DOMAIN push -> [Subs -> PushStates]]
    /\ sought \in [Peers -> [Topics -> 0 .. MaxSubs]]
    /\ \A p \in Peers : Cardinality(Held(p)) <= Limit

(* A subscription is in both tables or in none, in `_by_topic` under its    *)
(* store topic only, so the renewal that indexes `_by_topic` finds it and   *)
(* no event reaches a subscription that was replaced.                       *)
TablesAgree ==
    \A s \in Stores, p \in Peers, t \in Topics :
        byTopic[s][<<p, t>>] =
            IF byPeer[p][t] # 0 /\ sub[byPeer[p][t]].store = s THEN byPeer[p][t] ELSE 0

(* A socket with subscriptions has a close handler that will drop them,     *)
(* also one at the address of an earlier peer, and after a lost push.       *)
HeldIsWatched == \A p \in Peers : Held(p) # {} => p \in handler /\ sock[p] # "closed"

(* What a socket holds stems from its last subscribe: no reauthorization,   *)
(* replacement or late command brings back what was replaced or             *)
(* unsubscribed.                                                            *)
LastSubscribeHolds ==
    \A p \in Peers, t \in Topics : byPeer[p][t] # 0 => sub[byPeer[p][t]].origin = sought[p][t]

(* A reauthorization takes away only the subscription it was run for, never *)
(* one that replaced it meanwhile.                                          *)
OnlyItsOwnSubscription ==
    [][\A o \in Made : task[o] \in {"refused", "other"} /\ task'[o] = "no" =>
           \A p \in Peers, t \in Topics : byPeer[p][t] # o => byPeer'[p][t] = byPeer[p][t]]_deliveryVars

(* A push goes on only to a subscription that was not due when the push     *)
(* started, or whose gate then answered the same store topic.               *)
PushIsAuthorized ==
    [][\A n \in DOMAIN push, o \in Made :
           push[n][o] # "send" /\ push'[n][o] = "send" => ~IsDue(o) \/ task[o] \in {"same", "yes"}]_deliveryVars

-----------------------------------------------------------------------------
(* The inductive invariant                                                  *)

(* What a socket holds on a topic is an object made for the two. *)
HeldIsItsOwn ==
    \A p \in Peers, t \in Topics :
        LET o == byPeer[p][t] IN o # 0 => o \in Made /\ sub[o].peer = p /\ sub[o].topic = t

(* The mark of a socket is never left without its handler. *)
MarkedIsWatched == installed \subseteq handler

(* ... and a socket with subscriptions is marked. *)
HeldIsMarked == \A p \in Peers : Held(p) # {} => p \in installed /\ sock[p] # "closed"

DeliveryIInv ==
    /\ DeliveryTypeOK /\ HeldIsItsOwn /\ TablesAgree
    /\ MarkedIsWatched /\ HeldIsMarked /\ LastSubscribeHolds
=============================================================================
