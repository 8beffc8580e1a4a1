----------------------------- MODULE EventClient ------------------------------
(***************************************************************************)
(* The event client (vue/events/client.ts) for one topic: its handlers as  *)
(* operators from the client's record to its next one. A handler runs to   *)
(* its first await; what it sends is put into the record's slots, and the  *)
(* answer comes back in another handler.                                   *)
(*                                                                         *)
(* Delays are left out (`unpolled`, `refreshUnpolled`, `resumeOnBase` and  *)
(* the ladder only choose them): a timer that is set may fire at any time. *)
(* The application has one subscription on the topic, and its handlers do  *)
(* not call the client back.                                               *)
(***************************************************************************)
EXTENDS Integers, Sequences, SequencesExt

CONSTANTS
    Keys,       \* scope keys; the headers of the application choose one
    Scoped,     \* the topic is scoped; otherwise Keys has one member
    Axios,      \* the client can poll without a peer
    NoKey       \* no scope key

NoRev == -1

Slots == {"op", "unsub", "gap", "rung", "check"}
Polls == {"gap", "rung", "check"}

NoCall == [phase |-> "none"]

NoAnswer == [rev |-> NoRev]

NoTopic == [id |-> 0]

(* TopicState; `id` stands for the object's identity. *)
NewTopic(id) ==
    [id |-> id, rev |-> NoRev, socket |-> "none", pending |-> << >>,
     gapInFlight |-> FALSE, gapRev |-> NoRev, behind |-> FALSE, scope |-> NoKey,
     refreshing |-> FALSE, refreshOnAnswer |-> FALSE, sentHeaders |-> NoKey]

NoRevs == [k \in Keys \cup {NoKey} |-> NoRev]

(* EventClientImpl. `ops` are the socket calls in flight, the head being    *)
(* served; the rest is history: the events given to onEvent, and per scope   *)
(* the rev the application's own read of its state covers and the highest   *)
(* rev that a poll sent without a cursor raised the held one to.            *)
NewClient(key) ==
    [t |-> NoTopic, ids |-> 0, open |-> TRUE, closed |-> FALSE, headers |-> key,
     loop |-> "idle", checkTimer |-> FALSE, ops |-> << >>,
     net |-> [s \in Slots |-> NoCall],
     applied |-> {}, base |-> NoRevs, uncovered |-> NoRevs]

Followed(c) == c.t # NoTopic
Follows(c, id) == c.t.id = id /\ ~c.closed

-----------------------------------------------------------------------------
(* Calls                                                                    *)

(* `call`: the headers are read once, when it is sent. *)
Send(c, slot) ==
    [c EXCEPT !.net[slot] =
        [phase |-> "sent", id |-> c.t.id, cursor |-> c.t.rev, held |-> c.t.scope,
         headers |-> c.headers, socket |-> c.open, current |-> TRUE, answer |-> NoAnswer]]

SendUnsubscribeCall(c) == [c EXCEPT !.net["unsub"] = [phase |-> "sent"]]

Op(kind, id) == [kind |-> kind, id |-> id]

(* The head of `ops` runs to its call, or ends at once. *)
StartOp(c) ==
    LET o == Head(c.ops) IN
    IF o.kind = "subscribe" /\ Follows(c, o.id) THEN Send(c, "op")
    ELSE IF o.kind = "unsubscribe" /\ c.open THEN SendUnsubscribeCall(c)
    ELSE [c EXCEPT !.ops = Tail(@)]

(* `onSocket`: an op runs at once when none of the topic is in flight. *)
OnSocket(c, o) ==
    LET queued == [c EXCEPT !.ops = Append(@, o)] IN
    IF c.ops = << >> THEN StartOp(queued) ELSE queued

SendSubscribe(c) == OnSocket([c EXCEPT !.t.socket = "subscribing"], Op("subscribe", c.t.id))

SendUnsubscribe(c) == OnSocket(c, Op("unsubscribe", 0))

(* `gapPoll` *)
GapPoll(c, rev) ==
    IF c.t.gapInFlight THEN [c EXCEPT !.t.gapRev = IF rev > @ THEN rev ELSE @]
    ELSE IF ~c.open /\ ~Axios THEN c
    ELSE Send([c EXCEPT !.t.gapInFlight = TRUE], "gap")

-----------------------------------------------------------------------------
(* The ladder                                                               *)

ShouldPoll(c) ==
    /\ ~c.closed /\ Followed(c)
    /\ IF c.open THEN c.t.socket # "subscribed" \/ c.t.behind ELSE Axios

(* Mutant of EnsureLoop: a ladder that polls is started again. *)
EnsureLoopAgain(c) ==
    IF c.closed THEN c
    ELSE [c EXCEPT !.checkTimer = @ /\ Followed(c),
                   !.loop = IF ShouldPoll(c) THEN "waiting" ELSE "idle"]

EnsureLoop(c) ==
    IF c.closed THEN c
    ELSE [c EXCEPT !.checkTimer = @ /\ Followed(c),
                   !.loop = IF @ = "polling" THEN @
                            ELSE IF ShouldPoll(c) THEN "waiting" ELSE "idle"]

ScheduleCheck(c) == [c EXCEPT !.checkTimer = @ \/ (~c.closed /\ Followed(c))]

FallBehind(c) == EnsureLoop([c EXCEPT !.t.gapRev = NoRev, !.t.behind = TRUE])

-----------------------------------------------------------------------------
(* The rev rules                                                            *)

(* The application reads its state when the topic is followed and when it   *)
(* is resynced: what it knows covers the rev it was given.                  *)
Read(c, scope, rev) == [c EXCEPT !.base[scope] = IF rev > @ THEN rev ELSE @]

(* `refuse`, and `remove` of the last subscription *)
EndTopic(c) ==
    LET ended == [c EXCEPT !.t = NoTopic] IN
    EnsureLoop(IF c.t.socket = "subscribed" THEN SendUnsubscribe(ended) ELSE ended)

(* `refreshState` *)
RefreshState(c) ==
    IF c.t.rev = NoRev THEN [c EXCEPT !.t.refreshOnAnswer = TRUE]
    ELSE IF c.open THEN SendSubscribe([c EXCEPT !.t.refreshing = TRUE])
    ELSE [c EXCEPT !.t.refreshing = TRUE, !.t.behind = TRUE,
                   !.loop = IF Axios /\ @ # "polling" THEN "waiting" ELSE @]

(* Mutant of IsNext: an event past the held rev is applied, whatever its prev. *)
IsNextByRev(c, a) == a.rev > c.t.rev

IsNext(c, a) == a.prev = c.t.rev

(* `apply`: 'applied' *)
Apply(c, a) == [c EXCEPT !.t.rev = a.rev, !.applied = @ \cup {<<c.t.scope, a.rev>>}]

HeadersChanged(c) == c.t.scope # NoKey /\ c.headers # c.t.sentHeaders

Hold(c, a) == [c EXCEPT !.t.pending = Append(@, a)]

Receive(c, a) ==
    IF c.t.rev = NoRev \/ c.t.refreshing THEN Hold(c, a)
    ELSE IF HeadersChanged(c) /\ c.t.sentHeaders # NoKey THEN Hold(RefreshState(c), a)
    ELSE IF a.scope # c.t.scope THEN c
    ELSE IF IsNext(c, a) THEN Apply(c, a)
    ELSE IF a.rev <= c.t.rev THEN c
    ELSE GapPoll(c, a.rev)

(* The arrivals of these scopes, in the order of the sequence. *)
ReceiveAll(c, arrivals, scopes) ==
    FoldLeft(LAMBDA d, a : IF a.scope \in scopes THEN Receive(d, a) ELSE d, c, arrivals)

Latest(arrivals) == CHOOSE a \in arrivals : \A b \in arrivals : b.rev <= a.rev

(* A set of arrivals is taken in the order of the revs. *)
ReceiveByRev(c, arrivals) ==
    MapThenFoldSet(LAMBDA a, d : Receive(d, a), c, LAMBDA a : a, Latest, arrivals)

Follow(c, rev, scope) ==
    LET first == [c EXCEPT !.t.rev = rev, !.t.scope = scope,
                           !.t.refreshing = FALSE, !.t.pending = << >>]
        replayed == ReceiveAll(Read(first, scope, rev), c.t.pending, {scope})
        done == [replayed EXCEPT !.t.refreshOnAnswer = FALSE] IN
    IF (replayed.t.refreshOnAnswer \/ HeadersChanged(replayed)) /\ ~replayed.t.refreshing
      THEN RefreshState(done)
      ELSE done

(* Mutant of Resync: the pushes held for a refresh stay. *)
ResyncKeeps(c, rev) == Read([c EXCEPT !.t.rev = rev], c.t.scope, rev)

Resync(c, rev) == Read([c EXCEPT !.t.rev = rev, !.t.pending = << >>], c.t.scope, rev)

(* Mutant of FollowKey: the server's subscription stays under the old key. *)
FollowNoKey(c, viaPoll) == c

(* After a poll's answer under another key, the subscription follows it. *)
FollowKey(c, viaPoll) == IF viaPoll /\ c.t.socket = "subscribed" THEN SendSubscribe(c) ELSE c

ScopeChange(c, scope, rev, viaPoll) ==
    LET held == {a \in ToSet(c.t.pending) : a.scope = scope /\ a.rev > rev}
        moved == Resync([c EXCEPT !.t.scope = scope, !.t.refreshing = FALSE], rev) IN
    FollowKey(ReceiveByRev(moved, held), viaPoll)

EndRefresh(c) ==
    IF c.t.refreshing
      THEN ReceiveAll([c EXCEPT !.t.refreshing = FALSE, !.t.pending = << >>],
                      c.t.pending, Keys \cup {NoKey})
      ELSE c

(* `chained` *)
Chained(a, held) == IF a.prev < held /\ a.rev > held THEN [a EXCEPT !.prev = held] ELSE a

(* An event of an answer: none is applied past one that neither applies nor *)
(* is old.                                                                  *)
WalkEvent(w, e) ==
    LET a == Chained(e, w.c.t.rev) IN
    IF w.gap THEN w
    ELSE IF a.prev = w.c.t.rev THEN [w EXCEPT !.c = Apply(w.c, a)]
    ELSE IF a.rev > w.c.t.rev THEN [w EXCEPT !.gap = TRUE]
    ELSE w

(* The events of an answer are in the order of the revs. *)
Walk(c, events) ==
    MapThenFoldSet(LAMBDA e, w : WalkEvent(w, e), [c |-> c, gap |-> FALSE],
                   LAMBDA e : e, Latest, events)

(* Pushes have moved the held rev to the answer's since the poll was sent. *)
NullIsOld(c, cursor, rev) == c.t.rev # cursor /\ rev <= c.t.rev

(* Mutant of Cover: the answer's rev, also below the held one. *)
CoverAlways(c, cursor, rev) ==
    [c EXCEPT !.t.rev = rev,
              !.uncovered[c.t.scope] = IF cursor = NoRev /\ rev > @ THEN rev ELSE @]

(* "The answer covers every event up to its rev." *)
Cover(c, cursor, rev) ==
    IF rev <= c.t.rev THEN c
    ELSE [c EXCEPT !.t.rev = rev,
                   !.uncovered[c.t.scope] = IF cursor = NoRev /\ rev > @ THEN rev ELSE @]

ApplyEvents(c, cursor, answer) ==
    LET walked == Walk(c, answer.events) IN
    IF answer.null
      THEN IF NullIsOld(c, cursor, answer.rev) THEN c ELSE Resync(c, answer.rev)
    ELSE IF answer.rev < cursor \/ walked.gap THEN Resync(walked.c, answer.rev)
    ELSE Cover(walked.c, cursor, answer.rev)

(* `applyTopicAnswer`, of an answer with a rev *)
ApplyTopicAnswer(c, call) ==
    LET answered == [c EXCEPT !.t.behind = FALSE, !.t.sentHeaders = call.headers]
        answer == call.answer IN
    IF c.t.rev = NoRev THEN Follow(answered, answer.rev, answer.scope)
    ELSE IF answer.scope # c.t.scope THEN ScopeChange(answered, answer.scope, answer.rev, TRUE)
    ELSE EndRefresh(ApplyEvents(answered, call.cursor, answer))

-----------------------------------------------------------------------------
(* What the application calls                                               *)

DoSubscribe(c) ==
    LET added == [c EXCEPT !.t = NewTopic(c.ids + 1), !.ids = @ + 1,
                           !.applied = {}, !.base = NoRevs, !.uncovered = NoRevs] IN
    ScheduleCheck(EnsureLoop(IF c.open THEN SendSubscribe(added) ELSE added))

DoClose(c) ==
    LET ended == [c EXCEPT !.closed = TRUE, !.t = NoTopic, !.loop = "idle", !.checkTimer = FALSE] IN
    IF Followed(c) /\ c.t.socket = "subscribed" THEN SendUnsubscribe(ended) ELSE ended

-----------------------------------------------------------------------------
(* What answers and timers run                                              *)

EndOp(c) == [c EXCEPT !.ops = Tail(@)]

SubscribeFailed(c) ==
    EndOp(EnsureLoop(
        IF c.t.refreshing
          THEN [c EXCEPT !.t.socket = "none", !.t.refreshing = FALSE,
                         !.t.pending = << >>, !.t.behind = TRUE]
          ELSE [c EXCEPT !.t.socket = "none"]))

SubscribeAnswered(c, call) ==
    LET on == [c EXCEPT !.t.socket = "subscribed", !.t.sentHeaders = call.headers]
        rev == call.answer.rev
        scope == call.answer.scope IN
    EndOp(EnsureLoop(
        IF c.t.rev = NoRev THEN Follow(on, rev, scope)
        ELSE IF scope # c.t.scope THEN ScopeChange(on, scope, rev, FALSE)
        ELSE EndRefresh(IF rev > c.t.rev THEN GapPoll(on, rev) ELSE [on EXCEPT !.t.behind = FALSE])))

(* A subscribe of a topic that is not followed any more: unless it is       *)
(* followed again, it is unsubscribed within the same op.                   *)
SubscribeOutlived(c) == IF Followed(c) \/ ~c.open THEN EndOp(c) ELSE SendUnsubscribeCall(c)

OpAnswered(c) ==
    LET call == c.net["op"]
        d == [c EXCEPT !.net["op"] = NoCall] IN
    CASE ~Follows(c, call.id) -> IF call.phase = "ok" THEN SubscribeOutlived(d) ELSE EndOp(d)
      [] Follows(c, call.id) /\ call.phase = "ok" -> SubscribeAnswered(d, call)
      [] Follows(c, call.id) /\ call.phase = "transient" -> SubscribeFailed(d)
      [] Follows(c, call.id) /\ call.phase = "refused" -> EndOp(EndTopic([d EXCEPT !.t.socket = "none"]))

UnsubscribeAnswered(c) == [c EXCEPT !.net["unsub"] = NoCall, !.ops = IF @ = << >> THEN @ ELSE Tail(@)]

(* `gapAgain` *)
GapAgain(c) ==
    LET again == [c EXCEPT !.t.gapRev = NoRev] IN
    IF c.t.gapRev # NoRev /\ c.t.rev < c.t.gapRev THEN GapPoll(again, c.t.gapRev) ELSE again

GapAnswered(c) ==
    LET call == c.net["gap"]
        d == [c EXCEPT !.net["gap"] = NoCall, !.t.gapInFlight = FALSE] IN
    CASE ~Follows(c, call.id) -> [c EXCEPT !.net["gap"] = NoCall]
      [] Follows(c, call.id) /\ call.phase = "ok" -> GapAgain(ApplyTopicAnswer(d, call))
      [] Follows(c, call.id) /\ call.phase = "transient" -> FallBehind(d)
      [] Follows(c, call.id) /\ call.phase = "refused" -> EndTopic(d)

(* The timer of a rung. *)
RungFired(c) ==
    LET polling == Send([c EXCEPT !.loop = "polling"], "rung") IN
    IF ~ShouldPoll(c) THEN [c EXCEPT !.loop = "idle"]
    ELSE IF c.open /\ c.t.socket = "none" THEN SendSubscribe(polling)
    ELSE polling

RungAnswered(c) ==
    LET call == c.net["rung"]
        d == [c EXCEPT !.net["rung"] = NoCall]
        e == IF ~Follows(c, call.id) \/ call.phase = "transient" THEN d
             ELSE IF call.phase = "ok" THEN ApplyTopicAnswer(d, call)
             ELSE EndTopic(d) IN
    IF c.closed THEN d ELSE [e EXCEPT !.loop = IF ShouldPoll(e) THEN "waiting" ELSE "idle"]

(* Mutant of ChecksNow: only a topic that is behind. *)
ChecksBehind(c) == c.t.behind

ChecksNow(c) ==
    /\ c.t.socket = "subscribed" /\ c.t.rev # NoRev /\ ~c.t.behind /\ ~c.t.gapInFlight
    /\ c.loop = "idle" /\ c.open

CheckFired(c) == Send([c EXCEPT !.checkTimer = FALSE], "check")

CheckAnswered(c) ==
    LET call == c.net["check"]
        d == [c EXCEPT !.net["check"] = NoCall]
        e == IF ~Follows(c, call.id) THEN d
             ELSE CASE call.phase = "ok" -> ApplyTopicAnswer(d, call)
                    [] call.phase = "transient" -> [d EXCEPT !.t.behind = @ \/ call.current]
                    [] call.phase = "refused" -> EndTopic(d) IN
    IF c.closed THEN d ELSE ScheduleCheck(EnsureLoop(e))

(* `onPeerClose`. The calls over the socket fail; a subscribe or unsubscribe *)
(* of the old socket ends without a further effect.                         *)
PeerClosed(c) ==
    LET end(slot) ==
            IF slot \notin Polls THEN NoCall
            ELSE IF c.net[slot] # NoCall /\ c.net[slot].socket
              THEN [c.net[slot] EXCEPT !.phase = "transient", !.current = FALSE]
              ELSE c.net[slot]
        lost == [c EXCEPT !.open = FALSE, !.ops = << >>, !.net = [s \in Slots |-> end(s)]] IN
    EnsureLoop(IF Followed(c) THEN [lost EXCEPT !.t.socket = "none"] ELSE lost)

(* `onPeerReconnect` *)
PeerReconnected(c) ==
    LET back == [c EXCEPT !.open = TRUE] IN
    EnsureLoop(IF Followed(c) /\ ~c.closed THEN SendSubscribe(back) ELSE back)
=============================================================================
