------------------------------ MODULE EventSync -------------------------------
(***************************************************************************)
(* The event client (EventClient, vue/events/client.ts) against the events *)
(* viewset (fastapi_viewsets/events/viewset.py): one topic, one socket at  *)
(* a time, calls answered in any order, pushes reordered or lost, a socket *)
(* that closes and comes back, headers that change the scope key.          *)
(*                                                                         *)
(* The server is what the client sees of it. A poll is answered in one     *)
(* step: the module EventStore shows that `revs` and `since` read at two   *)
(* moments skip nothing. A subscribe is two steps: it is recorded, then    *)
(* `revs` is read. The revs of a scope key are 1, 2, ...                   *)
(***************************************************************************)
EXTENDS EventClient, FiniteSets

CONSTANTS
    NoSub,      \* the socket has no subscription
    LogSize,    \* viewsets_event_log_size
    Verdicts,   \* what the delivery filters may say of an event: TRUE passes
    MaxRev,     \* bound: events per scope key
    MaxFaults,  \* bound: sockets, pushes, calls and subscriptions lost
    MaxMoves    \* bound: what the application does

ASSUME EventSyncAssumption ==
    /\ NoKey \notin Keys /\ NoSub \notin Keys \cup {NoKey}
    /\ Scoped \in BOOLEAN /\ Axios \in BOOLEAN /\ Verdicts \subseteq BOOLEAN
    /\ LogSize \in Nat /\ MaxRev \in Nat /\ MaxFaults \in Nat /\ MaxMoves \in Nat

VARIABLES
    c,          \* the client
    log,        \* log[k]: per rev, whether the client's delivery filters pass the event
    sub,        \* the scope key the socket is subscribed under
    due,        \* the events appended and not yet delivered to the subscriptions
    wire,       \* the pushes on their way
    faults, moves

vars == <<c, log, sub, due, wire, faults, moves>>

Scopes == IF Scoped THEN Keys ELSE {NoKey}

(* The scope key the server resolves from a call's headers. *)
KeyOf(headers) == IF Scoped THEN headers ELSE NoKey

Init ==
    /\ \E key \in Keys, open \in BOOLEAN : c = [NewClient(key) EXCEPT !.open = open]
    /\ log = [k \in Scopes |-> << >>]
    /\ sub = NoSub /\ due = {} /\ wire = {}
    /\ faults = 0 /\ moves = 0

Fault == faults < MaxFaults /\ faults' = faults + 1

-----------------------------------------------------------------------------
(* The application                                                          *)

Move(next) ==
    /\ ~c.closed /\ moves < MaxMoves
    /\ c' = next /\ moves' = moves + 1
    /\ UNCHANGED <<log, sub, due, wire, faults>>

Subscribe == ~Followed(c) /\ Move(DoSubscribe(c))

Unsubscribe == Followed(c) /\ Move(EndTopic(c))

Refresh == Followed(c) /\ Move(RefreshState(c))

ChangeHeaders(key) == key # c.headers /\ Move([c EXCEPT !.headers = key])

Close == Move(DoClose(c))

-----------------------------------------------------------------------------
(* The server                                                               *)

(* `append` of an event that passes the delivery filters, or does not. *)
Publish(k, passes) ==
    /\ Len(log[k]) < MaxRev
    /\ log' = [log EXCEPT ![k] = Append(@, passes)]
    /\ due' = due \cup {[scope |-> k, prev |-> Len(log[k]), rev |-> Len(log[k]) + 1]}
    /\ UNCHANGED <<c, sub, wire, faults, moves>>

(* `deliver` to the subscription there is by then. *)
Carry(a) ==
    /\ a \in due /\ due' = due \ {a}
    /\ wire' = IF sub = a.scope /\ log[a.scope][a.rev] THEN wire \cup {a} ELSE wire
    /\ UNCHANGED <<c, log, sub, faults, moves>>

Answer(slot, phase, answer) ==
    c' = [c EXCEPT !.net[slot].phase = phase, !.net[slot].answer = answer]

RecordSubscribe ==
    /\ c.net["op"] # NoCall /\ c.net["op"].phase = "sent"
    /\ sub' = KeyOf(c.net["op"].headers)
    /\ c' = [c EXCEPT !.net["op"].phase = "recorded"]
    /\ UNCHANGED <<log, due, wire, faults, moves>>

AnswerSubscribe ==
    LET k == KeyOf(c.net["op"].headers) IN
    /\ c.net["op"] # NoCall /\ c.net["op"].phase = "recorded"
    /\ Answer("op", "ok", [rev |-> Len(log[k]), scope |-> k])
    /\ UNCHANGED <<log, sub, due, wire, faults, moves>>

ServeUnsubscribe ==
    /\ c.net["unsub"].phase = "sent"
    /\ sub' = NoSub
    /\ c' = [c EXCEPT !.net["unsub"].phase = "ok"]
    /\ UNCHANGED <<log, due, wire, faults, moves>>

(* The events of key k after `cursor` that pass, each with the rev of the  *)
(* one before it in the answer.                                            *)
EventsSince(k, cursor) ==
    LET passing == {r \in cursor + 1 .. Len(log[k]) : log[k][r]} IN
    {[scope |-> k, rev |-> r, prev |-> Max({cursor} \cup {q \in passing : q < r})] : r \in passing}

(* Whether the log answers the call's cursor, and the cursor is of scope k. *)
KnownCursor(call, k) ==
    call.cursor = NoRev \/ (call.held = k /\ Len(log[k]) - call.cursor <= LogSize)

PollAnswer(call) ==
    LET k == KeyOf(call.headers)
        known == KnownCursor(call, k) IN
    [rev |-> Len(log[k]), scope |-> k, null |-> ~known,
     events |-> IF known /\ call.cursor # NoRev THEN EventsSince(k, call.cursor) ELSE {}]

ServePoll(slot) ==
    /\ c.net[slot].phase = "sent"
    /\ Answer(slot, "ok", PollAnswer(c.net[slot]))
    /\ UNCHANGED <<log, sub, due, wire, faults, moves>>

(* A call fails, or is refused: over the socket a refusal drops the        *)
(* subscription. A subscribe may be recorded and its answer lost.          *)
FailCall(slot, phase) ==
    /\ Fault
    /\ \/ c.net[slot].phase = "sent"
       \/ c.net[slot].phase = "recorded" /\ phase = "transient"
    /\ c' = [c EXCEPT !.net[slot].phase = phase]
    /\ sub' = IF phase = "refused" /\ c.net[slot].socket THEN NoSub ELSE sub
    /\ UNCHANGED <<log, due, wire, moves>>

(* A reauthorization that fails drops the subscription, and tells nobody. *)
DropSubscription ==
    /\ Fault /\ sub # NoSub /\ sub' = NoSub
    /\ UNCHANGED <<c, log, due, wire, moves>>

-----------------------------------------------------------------------------
(* The socket                                                               *)

LosePush(a) ==
    /\ Fault /\ a \in wire /\ wire' = wire \ {a}
    /\ UNCHANGED <<c, log, sub, due, moves>>

(* `push`; a topic that is not followed has no state to receive it. *)
DeliverPush(a) ==
    /\ a \in wire /\ wire' = wire \ {a}
    /\ c' = IF Followed(c) THEN Receive(c, a) ELSE c
    /\ UNCHANGED <<log, sub, due, faults, moves>>

CloseSocket ==
    /\ Fault /\ c.open
    /\ c' = PeerClosed(c) /\ sub' = NoSub /\ wire' = {}
    /\ UNCHANGED <<log, due, moves>>

Reconnect ==
    /\ ~c.open
    /\ c' = PeerReconnected(c)
    /\ UNCHANGED <<log, sub, due, wire, faults, moves>>

-----------------------------------------------------------------------------
(* The client's answers and timers                                          *)

Client(next) == c' = next /\ UNCHANGED <<log, sub, due, wire, faults, moves>>

Ended == {"ok", "transient", "refused"}

NextOp ==
    /\ c.ops # << >> /\ c.net["op"] = NoCall /\ c.net["unsub"] = NoCall
    /\ Client(StartOp(c))

SubscribeReturns   == c.net["op"].phase \in Ended /\ Client(OpAnswered(c))
UnsubscribeReturns == c.net["unsub"].phase = "ok" /\ Client(UnsubscribeAnswered(c))
GapReturns         == c.net["gap"].phase \in Ended /\ Client(GapAnswered(c))
RungReturns        == c.net["rung"].phase \in Ended /\ Client(RungAnswered(c))
CheckReturns       == c.net["check"].phase \in Ended /\ Client(CheckAnswered(c))

LadderTimer == c.loop = "waiting" /\ Client(RungFired(c))

(* A tick that sends nothing sets the timer again. *)
CheckTimer == c.checkTimer /\ Followed(c) /\ ChecksNow(c) /\ Client(CheckFired(c))

-----------------------------------------------------------------------------
App ==
    \/ Subscribe \/ Unsubscribe \/ Refresh \/ Close
    \/ \E key \in Keys : ChangeHeaders(key)

Served ==
    \/ RecordSubscribe \/ AnswerSubscribe \/ ServeUnsubscribe
    \/ \E slot \in Polls : ServePoll(slot)

Failures ==
    \/ \E slot \in Polls \cup {"op"}, phase \in {"transient", "refused"} : FailCall(slot, phase)
    \/ \E a \in wire : LosePush(a)
    \/ DropSubscription \/ CloseSocket

Returns == NextOp \/ SubscribeReturns \/ UnsubscribeReturns \/ GapReturns \/ RungReturns \/ CheckReturns

Next ==
    \/ App \/ Served \/ Failures \/ Returns \/ LadderTimer \/ CheckTimer \/ Reconnect
    \/ \E k \in Scopes, passes \in Verdicts : Publish(k, passes)
    \/ \E a \in due : Carry(a)
    \/ \E a \in wire : DeliverPush(a)

Spec == Init /\ [][Next]_vars

-----------------------------------------------------------------------------
(* Properties                                                               *)

Revs == {NoRev} \cup 0 .. MaxRev
Arrivals == [scope : Scopes, prev : Revs, rev : Revs]

TopicStates ==
    [id : 1 .. MaxMoves, rev : Revs, socket : {"none", "subscribing", "subscribed"},
     gapInFlight : BOOLEAN, gapRev : Revs, behind : BOOLEAN, scope : Keys \cup {NoKey},
     refreshing : BOOLEAN, refreshOnAnswer : BOOLEAN, sentHeaders : Keys \cup {NoKey}]

(* The types of the variables; and what a topic holds for a gap poll it     *)
(* holds while one is in flight only: a rev wanted is forgotten with the    *)
(* answer (`gapAgain`, `fallBehind`), a poll's slot is in use until then.   *)
TypeOK ==
    /\ c.open \in BOOLEAN /\ c.closed \in BOOLEAN /\ c.checkTimer \in BOOLEAN
    /\ c.headers \in Keys /\ c.loop \in {"idle", "waiting", "polling"}
    /\ Followed(c) =>
         /\ [f \in DOMAIN c.t \ {"pending"} |-> c.t[f]] \in TopicStates
         /\ ToSet(c.t.pending) \subseteq Arrivals
         /\ c.t.gapRev # NoRev => c.t.gapInFlight
         /\ c.t.gapInFlight => c.net["gap"] # NoCall /\ c.net["gap"].id = c.t.id
    /\ sub \in Scopes \cup {NoSub} /\ due \subseteq Arrivals /\ wire \subseteq due \cup Arrivals

Known(r) == <<c.t.scope, r>> \in c.applied \/ r <= c.base[c.t.scope]

(* An event of the held scope up to the held rev that passes the delivery   *)
(* filters was given to `onEvent`, or the application has read its state at *)
(* that event's rev or later (at the first answer, or for `onResync`):      *)
(* however pushes, polls and answers were lost, reordered or overtaken.     *)
NoSilentLoss ==
    Followed(c) /\ c.t.rev # NoRev =>
        \A r \in 1 .. c.t.rev : log[c.t.scope][r] => Known(r)

(* The same, but for the events up to a rev that a poll sent without a      *)
(* cursor was answered with after another answer had given the topic one:   *)
(* no other course of events loses one.                                     *)
LossIsOfFirstPolls ==
    Followed(c) /\ c.t.rev # NoRev =>
        \A r \in 1 .. c.t.rev : log[c.t.scope][r] => Known(r) \/ r <= c.uncovered[c.t.scope]

(* What the client takes for subscribed, the server pushes, and under the   *)
(* scope the client applies pushes of: when no subscribe or unsubscribe of  *)
(* the topic is in flight. A subscription the server dropped is excepted.   *)
SubscribedIsServed ==
    Followed(c) /\ c.t.socket = "subscribed" /\ c.ops = << >> =>
        sub = c.t.scope \/ (sub = NoSub /\ faults > 0)

(* Pushes are held for an answer that is still to come: never by a topic    *)
(* that holds a rev and is not being refreshed, where nothing would ever    *)
(* replay them.                                                             *)
HeldPushesAreAwaited ==
    Followed(c) /\ c.t.pending # << >> => c.t.rev = NoRev \/ c.t.refreshing

(* The client's state has its type, and a gap that was seen is being polled.*)
(* The ladder is never stranded: a topic that has to be polled has a rung   *)
(* set or in flight, unless its subscribe is in flight; and never more than *)
(* one rung is in flight.                                                   *)
OneLadder ==
    /\ TypeOK
    /\ ShouldPoll(c) => c.loop # "idle" \/ c.ops # << >>
    /\ c.net["rung"] # NoCall /\ ~c.closed => c.loop = "polling"

(* The held rev of a scope never goes back, so no event is applied twice:   *)
(* a late answer to a poll that pushes overtook neither resyncs the topic   *)
(* nor lowers its rev.                                                      *)
HeldRevGrows ==
    [][Followed(c) /\ c.t.id = c'.t.id /\ c.t.scope = c'.t.scope => c'.t.rev >= c.t.rev]_vars

(* The application reads of its last move and the last fault are over and   *)
(* the client holds every event of the scope its headers stand for.         *)
CaughtUp ==
    Followed(c) => /\ c.t.scope = KeyOf(c.headers)
                   /\ c.t.rev = Len(log[KeyOf(c.headers)])
                   /\ ~c.t.refreshing

(* With no more events, moves or faults, a client with axios ends up with   *)
(* every event under its current headers' scope, although no push may ever  *)
(* arrive and the socket may never come back.                               *)
EventuallyCaughtUp == <>[]CaughtUp

(* vue/events/client.ts, EventSubscription.unsubscribe: the last            *)
(* unsubscribe of a topic ends its following over an open peer with an      *)
(* `unsubscribe` call. Once the calls are answered, the server would push   *)
(* the topic no more.                                                       *)
EndedIsUnsubscribed == ~Followed(c) /\ c.ops = << >> /\ c.open => sub = NoSub

(* The client's timers run, calls are served and answered, events that were *)
(* appended are delivered. Neither the arrival of a push nor the return of  *)
(* the socket is assumed.                                                   *)
Fairness ==
    /\ WF_vars(NextOp) /\ WF_vars(LadderTimer) /\ WF_vars(CheckTimer)
    /\ WF_vars(RecordSubscribe) /\ WF_vars(AnswerSubscribe) /\ WF_vars(ServeUnsubscribe)
    /\ \A slot \in Polls : WF_vars(ServePoll(slot))
    /\ WF_vars(SubscribeReturns) /\ WF_vars(UnsubscribeReturns)
    /\ WF_vars(GapReturns) /\ WF_vars(RungReturns) /\ WF_vars(CheckReturns)

LiveSpec == Spec /\ Fairness
=============================================================================
