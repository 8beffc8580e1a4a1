--------------------------- MODULE EventSync_proofs ----------------------------
(***************************************************************************)
(* Proofs about EventSync: the event client against the server, for every  *)
(* set of keys, log size, number of events, faults and moves.              *)
(*                                                                         *)
(* The invariant is SyncInv. Its parts about the client's record d alone   *)
(* are operators of a record: Base (types, the queue of socket calls, the  *)
(* slots, one rung), Laddered (who polls), Settled (a subscribed topic has *)
(* a rev, a rev wanted has its poll in flight), Covered (the log lg covers *)
(* what the record and its calls hold). Each handler of EventClient has a  *)
(* lemma that it keeps them and how it moves the record (Drifts for what a *)
(* push does, Reached for what an answer does, Moved for a whole step);    *)
(* then each step of the server and of the network has one.                *)
(***************************************************************************)
EXTENDS EventSync, WellFoundedInduction, FiniteSetTheorems, TLAPS

(* The client's record, and what of it the handlers keep.                   *)

ScopeKeys == Keys \cup {NoKey}

Topics ==
    [id : Nat \ {0}, rev : Revs, socket : {"none", "subscribing", "subscribed"},
     pending : Seq(Arrivals), gapInFlight : BOOLEAN, gapRev : Revs, behind : BOOLEAN,
     scope : ScopeKeys, refreshing : BOOLEAN, refreshOnAnswer : BOOLEAN, sentHeaders : ScopeKeys]

SocketOps == [kind : {"subscribe", "unsubscribe"}, id : Nat]

SubscribeAnswers == [rev : Revs, scope : Scopes]
PollAnswers == [rev : Revs, scope : Scopes, null : BOOLEAN, events : SUBSET Arrivals]
Answers == {NoAnswer} \cup SubscribeAnswers \cup PollAnswers

Calls ==
    [phase : {"sent", "recorded", "ok", "transient", "refused"}, id : Nat \ {0}, cursor : Revs,
     held : ScopeKeys, headers : Keys, socket : BOOLEAN, current : BOOLEAN, answer : Answers]

UnsubscribeCalls == [phase : {"sent", "ok"}]

Nets == [Slots -> Calls \cup {NoCall} \cup UnsubscribeCalls]

Clients ==
    [t : Topics \cup {NoTopic}, ids : Nat, open : BOOLEAN, closed : BOOLEAN, headers : Keys,
     loop : {"idle", "waiting", "polling"}, checkTimer : BOOLEAN, ops : Seq(SocketOps), net : Nets,
     applied : SUBSET (ScopeKeys \X Revs), base : [ScopeKeys -> Revs], uncovered : [ScopeKeys -> Revs]]

(* A subscribe of the topic that is followed. *)
Own(d, o) == o.kind = "subscribe" /\ o.id = d.t.id

LastOwn(d) == d.ops # << >> /\ Own(d, d.ops[Len(d.ops)])

Named(d) ==
    /\ d.t.id <= d.ids
    /\ \A i \in DOMAIN d.ops : d.ops[i].id <= d.ids /\ (d.ops[i].kind = "subscribe" => d.ops[i].id # 0)
    /\ \A s \in Slots \ {"unsub"} : d.net[s] # NoCall => d.net[s] \in Calls /\ d.net[s].id <= d.ids
    /\ d.net["unsub"] \notin Calls

(* The queue of the socket calls: the calls of the followed topic are its   *)
(* end, its head is what is in flight.                                      *)
Queued(d) ==
    /\ \A i, j \in DOMAIN d.ops : i < j /\ Own(d, d.ops[i]) => Own(d, d.ops[j])
    /\ Followed(d) /\ d.t.socket = "subscribed" => \A i \in DOMAIN d.ops : Own(d, d.ops[i])
    /\ d.net["op"] # NoCall =>
          /\ d.ops # << >> /\ d.ops[1].kind = "subscribe" /\ d.ops[1].id = d.net["op"].id
          /\ d.net["unsub"] = NoCall
    /\ d.net["unsub"] # NoCall => d.ops # << >> /\ ~Own(d, d.ops[1])

TopicTidy(d) ==
    Followed(d) =>
        /\ ~d.closed
        /\ d.t.gapInFlight => d.net["gap"] # NoCall /\ d.net["gap"].id = d.t.id
        /\ d.t.rev # NoRev => d.t.scope \in Scopes
        /\ d.t.refreshing => d.t.rev # NoRev
        /\ d.t.pending # << >> => d.t.rev = NoRev \/ d.t.refreshing

(* A rev that was wanted while a gap poll was in flight.                    *)
Gapped(d) == d.t.gapRev # NoRev => d.t.gapInFlight

OneRung(d) == d.net["rung"] # NoCall /\ ~d.closed => d.loop = "polling"

Base(d) == d \in Clients /\ Named(d) /\ Queued(d) /\ TopicTidy(d) /\ OneRung(d)

Laddered(d) == OneRung(d) /\ (ShouldPoll(d) => d.loop # "idle" \/ LastOwn(d))

Core(d) == Base(d) /\ Laddered(d)

(* What no handler of an answer or a push changes. *)
Framed(d, e) ==
    /\ e.t.id = d.t.id /\ e.ids = d.ids /\ e.open = d.open /\ e.closed = d.closed
    /\ e.headers = d.headers /\ e.checkTimer = d.checkTimer
    /\ e.net["rung"] = d.net["rung"] /\ e.net["check"] = d.net["check"] /\ e.net["unsub"] = d.net["unsub"]
    /\ d.net["op"] # NoCall => e.net["op"] = d.net["op"]
    /\ e.net["op"] # d.net["op"] => e.net["op"].phase = "sent"
    /\ d.ops # << >> => e.net["op"] = d.net["op"]
    /\ Len(e.ops) >= Len(d.ops) /\ \A i \in DOMAIN d.ops : e.ops[i] = d.ops[i]
    /\ Gapped(d) => Gapped(e)
    /\ IF Len(e.ops) = Len(d.ops) THEN e.t.socket = d.t.socket /\ e.net["op"] = d.net["op"]
                                  ELSE e.t.socket = "subscribing"

(* What a push does, replayed or not. *)
Drifts(d, e) ==
    /\ Framed(d, e)
    /\ e.t.scope = d.t.scope /\ e.t.rev >= d.t.rev
    /\ e.base = d.base /\ e.uncovered = d.uncovered /\ d.applied \subseteq e.applied

(* A change of the topic's fields, of the ladder and of the gap poll only.  *)
Turned(d, e) ==
    /\ e \in Clients /\ e.t \in Topics /\ e.t.id = d.t.id /\ e.t.socket = d.t.socket
    /\ e.ids = d.ids /\ e.open = d.open /\ e.closed = d.closed /\ e.headers = d.headers
    /\ e.checkTimer = d.checkTimer /\ e.ops = d.ops
    /\ \A s \in Slots \ {"gap"} : e.net[s] = d.net[s]
    /\ Gapped(d) => Gapped(e)

-----------------------------------------------------------------------------
(* What the application knows of the events.                                *)

KnownOf(d, k, r) == <<k, r>> \in d.applied \/ r <= d.base[k] \/ r <= d.uncovered[k]

Covers(d, lg, k, n) == n <= Len(lg[k]) /\ \A r \in 1 .. n : lg[k][r] => KnownOf(d, k, r)

(* Between the event and the one it names as its predecessor none passes.   *)
ChainedIn(lg, a) ==
    /\ 0 <= a.prev /\ a.prev < a.rev /\ a.rev <= Len(lg[a.scope])
    /\ \A r \in a.prev + 1 .. a.rev - 1 : ~lg[a.scope][r]

CallCovered(d, lg, call) ==
    call.cursor # NoRev => /\ call.held \in Scopes /\ call.cursor <= Len(lg[call.held])
                           /\ call.id = d.t.id => Covers(d, lg, call.held, call.cursor)

AnswerSound(lg, call) ==
    LET a == call.answer
    IN /\ a \in PollAnswers /\ IsFiniteSet(a.events)
       /\ 0 <= a.rev /\ a.rev <= Len(lg[a.scope])
       /\ a.scope = call.held => call.cursor <= a.rev
       /\ a.null => a.events = {}
       /\ \A e \in a.events : e.scope = a.scope /\ ChainedIn(lg, e) /\ e.rev <= a.rev
       /\ ~a.null /\ call.cursor # NoRev =>
             /\ a.scope = call.held
             /\ \A r \in call.cursor + 1 .. a.rev : lg[a.scope][r] => \E e \in a.events : e.rev = r

TopicCovered(d, lg) ==
    Followed(d) =>
        /\ d.t.rev # NoRev => Covers(d, lg, d.t.scope, d.t.rev)
        /\ \A i \in DOMAIN d.t.pending : ChainedIn(lg, d.t.pending[i])

CallsCovered(d, lg) ==
    /\ \A s \in Polls : d.net[s] # NoCall =>
          CallCovered(d, lg, d.net[s]) /\ (d.net[s].phase = "ok" => AnswerSound(lg, d.net[s]))
    /\ d.net["op"] # NoCall /\ d.net["op"].phase = "ok" =>
          LET a == d.net["op"].answer IN a \in SubscribeAnswers /\ 0 <= a.rev /\ a.rev <= Len(lg[a.scope])

Covered(d, lg) == TopicCovered(d, lg) /\ CallsCovered(d, lg)

Logs == [Scopes -> Seq(BOOLEAN)]

Learns(d, e) ==
    /\ e.t.id = d.t.id /\ d.applied \subseteq e.applied
    /\ \A k \in ScopeKeys : d.base[k] <= e.base[k] /\ d.uncovered[k] <= e.uncovered[k]

-----------------------------------------------------------------------------
(* The client between its handlers, and what a handler may do to it.        *)

Settled(d) == Followed(d) => (d.t.socket = "subscribed" => d.t.rev # NoRev) /\ Gapped(d)

Good(d, lg) == Core(d) /\ Settled(d) /\ Covered(d, lg)

(* What is subscribed was before, under the same scope, or its subscribe    *)
(* has just been answered with it.                                          *)
Serves(d, e) ==
    /\ e.net["op"] \in {d.net["op"], NoCall} \/ e.net["op"].phase = "sent"
    /\ Followed(e) /\ e.t.socket = "subscribed" /\ e.ops = << >> =>
         \/ Followed(d) /\ d.t.socket = "subscribed" /\ d.ops = << >> /\ e.t.scope = d.t.scope
         \/ d.net["op"] # NoCall /\ d.net["op"].phase = "ok" /\ e.t.scope = d.net["op"].answer.scope

Grows(d, e) == ~Scoped /\ Followed(d) /\ e.t.id = d.t.id => e.t.rev >= d.t.rev

Moved(d, e) == Serves(d, e) /\ Grows(d, e) /\ e.ids = d.ids

Same(d, e) ==
    /\ e.t = d.t /\ e.ids = d.ids /\ e.open = d.open /\ e.closed = d.closed /\ e.headers = d.headers
    /\ e.ops = d.ops /\ e.net = d.net
    /\ e.applied = d.applied /\ e.base = d.base /\ e.uncovered = d.uncovered

LEMMA TopicType ==
    ASSUME NEW d, Base(d), Followed(d)
    PROVE  d.t \in Topics
BY DEF Core, Base, Clients, Followed

LEMMA SendSubscribeFields ==
    ASSUME NEW d, Base(d), Followed(d)
    PROVE  LET e == SendSubscribe(d)
           IN /\ e \in Clients
              /\ e.t = [d.t EXCEPT !.socket = "subscribing"]
              /\ e.ops = Append(d.ops, Op("subscribe", d.t.id))
              /\ e.ids = d.ids /\ e.open = d.open /\ e.closed = d.closed /\ e.headers = d.headers
              /\ e.loop = d.loop /\ e.checkTimer = d.checkTimer
              /\ e.applied = d.applied /\ e.base = d.base /\ e.uncovered = d.uncovered
              /\ IF d.ops = << >>
                 THEN \E call \in Calls : /\ call.id = d.t.id /\ call.phase = "sent"
                                          /\ e.net = [d.net EXCEPT !["op"] = call]
                 ELSE e.net = d.net
<1>1. d \in Clients /\ d.t \in Topics /\ ~d.closed
  BY TopicType DEF Core, Base, TopicTidy
<1>2. PICK t : t = [d.t EXCEPT !.socket = "subscribing"]
  OBVIOUS
<1>3. t \in Topics /\ t.id = d.t.id /\ t.id # 0 /\ t.id \in Nat
  BY <1>1, <1>2 DEF Topics
<1>4. PICK o : o = Op("subscribe", d.t.id)
  OBVIOUS
<1>5. o \in SocketOps /\ o.kind = "subscribe" /\ o.id = d.t.id
  BY <1>1, <1>4 DEF Op, SocketOps, Topics
<1>6. PICK ops : ops = Append(d.ops, o)
  OBVIOUS
<1>7. ops \in Seq(SocketOps) /\ (d.ops = << >> => Head(ops) = o)
  BY <1>1, <1>5, <1>6 DEF Clients
<1>8. PICK q : q = [d EXCEPT !.t = t, !.ops = ops]
  OBVIOUS
<1>9. q \in Clients
  BY <1>1, <1>3, <1>7, <1>8 DEF Clients
<1>10. /\ q.t = t /\ q.ops = ops
       /\ q.ids = d.ids /\ q.open = d.open /\ q.closed = d.closed /\ q.headers = d.headers
       /\ q.loop = d.loop /\ q.checkTimer = d.checkTimer /\ q.net = d.net
       /\ q.applied = d.applied /\ q.base = d.base /\ q.uncovered = d.uncovered
  BY <1>1, <1>8 DEF Clients
<1>11. SendSubscribe(d) = IF d.ops = << >> THEN StartOp(q) ELSE q
  BY <1>1, <1>2, <1>4, <1>6, <1>8 DEF SendSubscribe, OnSocket, Clients
<1>12. CASE d.ops = << >>
  <2>1. StartOp(q) = Send(q, "op")
    BY <1>1, <1>3, <1>5, <1>7, <1>10, <1>12 DEF StartOp, Follows
  <2>2. PICK call : call = [phase |-> "sent", id |-> q.t.id, cursor |-> q.t.rev, held |-> q.t.scope,
                            headers |-> q.headers, socket |-> q.open, current |-> TRUE, answer |-> NoAnswer]
    OBVIOUS
  <2>3. call \in Calls /\ call.id = d.t.id /\ call.phase = "sent"
    BY <1>3, <1>9, <1>10, <2>2 DEF Calls, Topics, Answers, Clients
  <2>4. Send(q, "op") = [q EXCEPT !.net = [q.net EXCEPT !["op"] = call]]
    BY <2>2 DEF Send
  <2>5. [q.net EXCEPT !["op"] = call] \in Nets
    BY <1>9, <2>3 DEF Clients, Nets, Slots
  <2>6. Send(q, "op") \in Clients
    BY <1>9, <2>4, <2>5 DEF Clients
  <2>7. PICK e : e = Send(q, "op")
    OBVIOUS
  <2>8. /\ e.t = q.t /\ e.ops = q.ops /\ e.ids = q.ids /\ e.open = q.open /\ e.closed = q.closed
        /\ e.headers = q.headers /\ e.loop = q.loop /\ e.checkTimer = q.checkTimer
        /\ e.applied = q.applied /\ e.base = q.base /\ e.uncovered = q.uncovered
        /\ e.net = [q.net EXCEPT !["op"] = call]
    BY <1>9, <2>4, <2>7 DEF Clients
  <2>9. e = SendSubscribe(d) /\ e \in Clients
    BY <1>11, <1>12, <2>1, <2>6, <2>7
  <2> QED
    BY <1>2, <1>4, <1>6, <1>10, <1>12, <2>3, <2>8, <2>9
<1>13. CASE d.ops # << >>
  BY <1>2, <1>4, <1>6, <1>9, <1>10, <1>11, <1>13
<1> QED
  BY <1>12, <1>13

LEMMA SendSubscribeKeeps ==
    ASSUME NEW d, Base(d), Followed(d)
    PROVE  LET e == SendSubscribe(d)
           IN /\ Core(e) /\ Followed(e) /\ Drifts(d, e)
              /\ e.t = [d.t EXCEPT !.socket = "subscribing"] /\ LastOwn(e) /\ e.loop = d.loop
              /\ e.applied = d.applied /\ \A s \in Slots \ {"op"} : e.net[s] = d.net[s]
<1>1. PICK e : e = SendSubscribe(d)
  OBVIOUS
<1>2. /\ e \in Clients
      /\ e.t = [d.t EXCEPT !.socket = "subscribing"]
      /\ e.ops = Append(d.ops, Op("subscribe", d.t.id))
      /\ e.ids = d.ids /\ e.open = d.open /\ e.closed = d.closed /\ e.headers = d.headers
      /\ e.loop = d.loop /\ e.checkTimer = d.checkTimer
      /\ e.applied = d.applied /\ e.base = d.base /\ e.uncovered = d.uncovered
      /\ IF d.ops = << >>
         THEN \E call \in Calls : /\ call.id = d.t.id /\ call.phase = "sent"
                                  /\ e.net = [d.net EXCEPT !["op"] = call]
         ELSE e.net = d.net
  BY <1>1, SendSubscribeFields
<1>3. d.t \in Topics /\ d.ops \in Seq(SocketOps) /\ d.net \in Nets /\ d.ids \in Nat
  BY TopicType DEF Core, Base, Clients
<1>4. /\ e.t.id = d.t.id /\ e.t.rev = d.t.rev /\ e.t.scope = d.t.scope /\ e.t.pending = d.t.pending
      /\ e.t.gapInFlight = d.t.gapInFlight /\ e.t.gapRev = d.t.gapRev /\ e.t.behind = d.t.behind
      /\ e.t.refreshing = d.t.refreshing /\ e.t.socket = "subscribing"
      /\ e.t \in Topics
  BY <1>2, <1>3 DEF Topics
<1>5. PICK o : o = Op("subscribe", d.t.id)
  OBVIOUS
<1>15. o \in SocketOps /\ o.kind = "subscribe" /\ o.id = d.t.id /\ o.id \in Nat /\ o.id # 0
  BY <1>3, <1>5 DEF Op, SocketOps, Topics
<1>6. /\ Len(e.ops) = Len(d.ops) + 1 /\ DOMAIN e.ops = 1 .. Len(e.ops) /\ e.ops[Len(e.ops)] = o
      /\ DOMAIN d.ops = 1 .. Len(d.ops) /\ Len(d.ops) \in Nat
      /\ \A i \in DOMAIN d.ops : e.ops[i] = d.ops[i]
  BY <1>2, <1>3, <1>5, <1>15
<1>7. /\ \A s \in Slots \ {"op"} : e.net[s] = d.net[s]
      /\ d.ops # << >> => e.net["op"] = d.net["op"]
      /\ d.ops = << >> => e.net["op"] \in Calls /\ e.net["op"].id = d.t.id  /\ e.net["op"].phase = "sent"
  BY <1>2, <1>3 DEF Nets, Slots
<1>8. Followed(e)
  BY <1>3, <1>4 DEF Followed, NoTopic, Topics
<1>9. LastOwn(e)
  BY <1>4, <1>15, <1>6 DEF LastOwn, Own
<1>10. Named(e)
  <2>1. Named(d)
    BY DEF Core, Base
  <2>2. e.t.id <= e.ids
    BY <1>2, <1>4, <2>1 DEF Named
  <2>3. ASSUME NEW i \in DOMAIN e.ops PROVE e.ops[i].id <= e.ids /\ (e.ops[i].kind = "subscribe" => e.ops[i].id # 0)
    BY <1>2, <1>15, <1>6, <2>1 DEF Named
  <2>4. ASSUME NEW s \in Slots \ {"unsub"}, e.net[s] # NoCall PROVE e.net[s] \in Calls /\ e.net[s].id <= e.ids
    BY <1>2, <1>7, <2>1, <2>4 DEF Named
  <2>5. e.net["unsub"] \notin Calls
    BY <1>7, <2>1 DEF Named, Slots
  <2> QED
    BY <2>2, <2>3, <2>4, <2>5 DEF Named
<1>11. Queued(e)
  <2>1. \A i \in DOMAIN e.ops : Own(e, e.ops[i]) <=> i = Len(e.ops) \/ Own(d, d.ops[i])
    BY <1>4, <1>15, <1>6 DEF Own
  <2>2. \A i, j \in DOMAIN e.ops : i < j /\ Own(e, e.ops[i]) => Own(e, e.ops[j])
    BY <1>6, <2>1 DEF Core, Base, Queued
  <2>3. e.net["op"] # NoCall => /\ e.ops # << >> /\ e.ops[1].kind = "subscribe" /\ e.ops[1].id = e.net["op"].id
                                /\ e.net["unsub"] = NoCall
    BY <1>15, <1>6, <1>7 DEF Core, Base, Queued, Slots
  <2>4. e.net["unsub"] # NoCall => e.ops # << >> /\ ~Own(e, e.ops[1])
    BY <1>6, <1>7, <2>1 DEF Core, Base, Queued, Slots
  <2> QED
    BY <1>4, <2>2, <2>3, <2>4 DEF Queued
<1>12. TopicTidy(e)
  BY <1>2, <1>4, <1>7, <1>8 DEF Core, Base, TopicTidy, Slots
<1>13. Laddered(e)
  BY <1>2, <1>7, <1>9 DEF Core, Base, Laddered, OneRung, Slots
<1>14. Drifts(d, e)
  <2>1. d.ops = << >> => d.net["op"] = NoCall
    BY DEF Core, Base, Queued
  <2>2. Framed(d, e)
    BY <1>2, <1>4, <1>6, <1>7, <2>1 DEF Framed, Gapped, Slots
  <2>3. e.t.rev >= d.t.rev
    BY <1>3, <1>4 DEF Topics, Revs, NoRev
  <2> QED
    BY <1>2, <1>4, <2>2, <2>3 DEF Drifts
<1> QED
  BY <1>1, <1>2, <1>7, <1>8, <1>9, <1>10, <1>11, <1>12, <1>13, <1>14 DEF Core, Base, Laddered

LEMMA TurnedKeeps ==
    ASSUME NEW d, Core(d), Followed(d), NEW e, Turned(d, e),
           e.net["gap"] # NoCall => e.net["gap"] \in Calls /\ e.net["gap"].id <= d.ids
    PROVE  Followed(e) /\ Named(e) /\ Queued(e) /\ Framed(d, e) /\ (LastOwn(e) <=> LastOwn(d))
<1>1. d.t \in Topics /\ d.ops \in Seq(SocketOps)
  BY TopicType DEF Core, Base, Clients
<1>2. Followed(e)
  BY DEF Turned, Gapped, Followed, NoTopic, Topics
<1>3. \A o : Own(e, o) <=> Own(d, o)
  BY DEF Own, Turned, Gapped
<1>4. Named(e)
  BY DEF Core, Base, Named, Turned, Gapped, Slots
<1>5. Queued(e)
  <2>1. \A i, j \in DOMAIN e.ops : i < j /\ Own(e, e.ops[i]) => Own(e, e.ops[j])
    BY <1>3 DEF Core, Base, Queued, Turned, Gapped
  <2>2. Followed(e) /\ e.t.socket = "subscribed" => \A i \in DOMAIN e.ops : Own(e, e.ops[i])
    BY <1>3 DEF Core, Base, Queued, Turned, Gapped
  <2>3. e.net["op"] # NoCall => /\ e.ops # << >> /\ e.ops[1].kind = "subscribe" /\ e.ops[1].id = e.net["op"].id
                                /\ e.net["unsub"] = NoCall
    BY DEF Core, Base, Queued, Turned, Gapped, Slots
  <2>4. e.net["unsub"] # NoCall => e.ops # << >> /\ ~Own(e, e.ops[1])
    BY <1>3 DEF Core, Base, Queued, Turned, Gapped, Slots
  <2> QED
    BY <2>1, <2>2, <2>3, <2>4 DEF Queued
<1>6. Framed(d, e)
  BY <1>1 DEF Turned, Framed, Gapped, Slots
<1>7. LastOwn(e) <=> LastOwn(d)
  BY <1>3 DEF LastOwn, Turned, Gapped
<1> QED
  BY <1>2, <1>4, <1>5, <1>6, <1>7

LEMMA SendGap ==
    ASSUME NEW d, Core(d), Followed(d)
    PROVE  LET e == Send([d EXCEPT !.t.gapInFlight = TRUE], "gap")
           IN \E call \in Calls :
                /\ e \in Clients /\ Turned(d, e) /\ e.t = [d.t EXCEPT !.gapInFlight = TRUE]
                /\ e.loop = d.loop /\ e.applied = d.applied /\ e.base = d.base /\ e.uncovered = d.uncovered
                /\ e.net["gap"] = call /\ call # NoCall
                /\ call.id = d.t.id /\ call.phase = "sent" /\ call.cursor = d.t.rev /\ call.held = d.t.scope
<1>1. d \in Clients /\ d.t \in Topics
  BY TopicType DEF Core, Base
<1>2. PICK t : t = [d.t EXCEPT !.gapInFlight = TRUE]
  OBVIOUS
<1>3. t \in Topics /\ t.id = d.t.id /\ t.rev = d.t.rev /\ t.scope = d.t.scope /\ t.socket = d.t.socket
      /\ t.gapInFlight = TRUE
  BY <1>1, <1>2 DEF Topics
<1>4. PICK call : call = [phase |-> "sent", id |-> t.id, cursor |-> t.rev, held |-> t.scope,
                          headers |-> d.headers, socket |-> d.open, current |-> TRUE, answer |-> NoAnswer]
  OBVIOUS
<1>5. call \in Calls /\ call.id = d.t.id /\ call.phase = "sent" /\ call.cursor = d.t.rev /\ call.held = d.t.scope
  BY <1>1, <1>3, <1>4 DEF Calls, Topics, Answers, Clients
<1>6. call # NoCall
  BY <1>5 DEF Calls, NoCall
<1>7. PICK e : e = [d EXCEPT !.t = t, !.net = [d.net EXCEPT !["gap"] = call]]
  OBVIOUS
<1>8. [d.net EXCEPT !["gap"] = call] \in Nets
  BY <1>1, <1>5 DEF Clients, Nets, Slots
<1>9. /\ e.t = t /\ e.ops = d.ops /\ e.ids = d.ids /\ e.open = d.open /\ e.closed = d.closed
      /\ e.headers = d.headers /\ e.loop = d.loop /\ e.checkTimer = d.checkTimer
      /\ e.applied = d.applied /\ e.base = d.base /\ e.uncovered = d.uncovered
      /\ e.net = [d.net EXCEPT !["gap"] = call]
      /\ e \in Clients
  BY <1>1, <1>3, <1>7, <1>8 DEF Clients
<1>10. e = Send([d EXCEPT !.t.gapInFlight = TRUE], "gap")
  <2>1. PICK q : q = [d EXCEPT !.t = t]
    OBVIOUS
  <2>2. q.t = t /\ q.net = d.net /\ q.headers = d.headers /\ q.open = d.open
    BY <1>1, <2>1 DEF Clients
  <2>3. Send(q, "gap") = [q EXCEPT !.net = [q.net EXCEPT !["gap"] = call]]
    BY <1>4, <2>2 DEF Send
  <2> QED
    BY <1>2, <1>7, <2>1, <2>2, <2>3
<1>11. e.net["gap"] = call /\ \A s \in Slots \ {"gap"} : e.net[s] = d.net[s]
  BY <1>1, <1>9 DEF Clients, Nets, Slots
<1>12. Turned(d, e)
  BY <1>3, <1>9, <1>11 DEF Turned, Gapped
<1>13. /\ e \in Clients /\ Turned(d, e) /\ e.t = [d.t EXCEPT !.gapInFlight = TRUE]
       /\ e.loop = d.loop /\ e.applied = d.applied /\ e.base = d.base /\ e.uncovered = d.uncovered
       /\ e.net["gap"] = call
  BY <1>2, <1>9, <1>11, <1>12
<1> QED
  BY <1>5, <1>6, <1>10, <1>13, Zenon

LEMMA GapPollKeeps ==
    ASSUME NEW d, Core(d), Followed(d), NEW rev \in Revs
    PROVE  LET e == GapPoll(d, rev)
           IN Core(e) /\ Followed(e) /\ Drifts(d, e)
<1>1. d \in Clients /\ d.t \in Topics /\ TopicTidy(d) /\ Laddered(d)
  BY TopicType DEF Core, Base
<1>2. CASE d.t.gapInFlight
  <2>1. PICK t : t = [d.t EXCEPT !.gapRev = IF rev > d.t.gapRev THEN rev ELSE d.t.gapRev]
    OBVIOUS
  <2>2. /\ t \in Topics /\ t.id = d.t.id /\ t.socket = d.t.socket /\ t.rev = d.t.rev /\ t.scope = d.t.scope
        /\ t.gapInFlight = d.t.gapInFlight /\ t.refreshing = d.t.refreshing /\ t.pending = d.t.pending
        /\ t.behind = d.t.behind
    BY <1>1, <2>1 DEF Topics
  <2>3. PICK e : e = [d EXCEPT !.t = t]
    OBVIOUS
  <2>4. /\ e.t = t /\ e.ops = d.ops /\ e.ids = d.ids /\ e.open = d.open /\ e.closed = d.closed
        /\ e.headers = d.headers /\ e.loop = d.loop /\ e.checkTimer = d.checkTimer /\ e.net = d.net
        /\ e.applied = d.applied /\ e.base = d.base /\ e.uncovered = d.uncovered
        /\ e \in Clients
    BY <1>1, <2>2, <2>3 DEF Clients
  <2>5. e = GapPoll(d, rev)
    BY <1>2, <2>1, <2>3 DEF GapPoll
  <2>6. Turned(d, e)
    BY <1>2, <2>2, <2>4 DEF Turned, Gapped
  <2>7. Followed(e) /\ Named(e) /\ Queued(e) /\ Framed(d, e) /\ (LastOwn(e) <=> LastOwn(d))
    BY <2>4, <2>6, TurnedKeeps DEF Core, Base, Named, Slots
  <2>8. TopicTidy(e)
    BY <1>1, <1>2, <2>2, <2>4 DEF TopicTidy
  <2>9. Laddered(e)
    BY <1>1, <2>2, <2>4, <2>7 DEF Laddered, OneRung, ShouldPoll
  <2>10. Drifts(d, e)
    BY <1>1, <2>2, <2>4, <2>7 DEF Drifts, Topics, Revs, NoRev
  <2> QED
    BY <2>4, <2>5, <2>7, <2>8, <2>9, <2>10 DEF Core, Base, Laddered
<1>3. CASE ~d.t.gapInFlight /\ ~d.open /\ ~Axios
  <2>1. GapPoll(d, rev) = d
    BY <1>3 DEF GapPoll
  <2>2. Drifts(d, d)
    BY <1>1 DEF Drifts, Framed, Gapped, Clients, Topics, Revs, NoRev
  <2> QED
    BY <2>1, <2>2
<1>4. CASE ~d.t.gapInFlight /\ (d.open \/ Axios)
  <2>1. PICK e : e = Send([d EXCEPT !.t.gapInFlight = TRUE], "gap")
    OBVIOUS
  <2>2. e = GapPoll(d, rev)
    BY <1>4, <2>1 DEF GapPoll
  <2>3. PICK call \in Calls :
                /\ e \in Clients /\ Turned(d, e) /\ e.t = [d.t EXCEPT !.gapInFlight = TRUE]
                /\ e.loop = d.loop /\ e.applied = d.applied /\ e.base = d.base /\ e.uncovered = d.uncovered
                /\ e.net["gap"] = call /\ call # NoCall
                /\ call.id = d.t.id /\ call.phase = "sent" /\ call.cursor = d.t.rev /\ call.held = d.t.scope
    BY <2>1, SendGap
  <2>4. /\ e.t.rev = d.t.rev /\ e.t.scope = d.t.scope /\ e.t.gapInFlight = TRUE /\ e.t.refreshing = d.t.refreshing
        /\ e.t.pending = d.t.pending /\ e.t.behind = d.t.behind
    BY <1>1, <2>3 DEF Topics
  <2>5. Followed(e) /\ Named(e) /\ Queued(e) /\ Framed(d, e) /\ (LastOwn(e) <=> LastOwn(d))
    BY <2>3, TurnedKeeps DEF Core, Base, Named
  <2>6. TopicTidy(e)
    BY <1>1, <2>3, <2>4, <2>5 DEF TopicTidy, Turned, Framed, Gapped
  <2>7. Laddered(e)
    BY <1>1, <2>3, <2>4, <2>5 DEF Laddered, OneRung, ShouldPoll, Framed, Turned, Gapped
  <2>8. Drifts(d, e)
    BY <1>1, <2>3, <2>4, <2>5 DEF Drifts, Topics, Revs, NoRev
  <2> QED
    BY <2>2, <2>3, <2>5, <2>6, <2>7, <2>8 DEF Core, Base, Laddered
<1> QED
  BY <1>2, <1>3, <1>4

LEMMA DriftsTransitive ==
    ASSUME NEW d \in Clients, NEW e \in Clients, NEW f \in Clients, Drifts(d, e), Drifts(e, f),
           d.t \in Topics, e.t \in Topics, f.t \in Topics
    PROVE  Drifts(d, f)
<1>1. Len(d.ops) \in Nat /\ Len(e.ops) \in Nat /\ Len(f.ops) \in Nat
      /\ DOMAIN d.ops = 1 .. Len(d.ops) /\ DOMAIN e.ops = 1 .. Len(e.ops)
  BY DEF Clients
<1>2. d.t.rev \in Int /\ e.t.rev \in Int /\ f.t.rev \in Int
  BY DEF Topics, Revs, NoRev
<1>3. Framed(d, f)
  BY <1>1 DEF Drifts, Framed, Gapped
<1> QED
  BY <1>2, <1>3 DEF Drifts

LEMMA DriftsReflexive ==
    ASSUME NEW d \in Clients, d.t \in Topics
    PROVE  Drifts(d, d)
BY DEF Drifts, Framed, Gapped, Clients, Topics, Revs, NoRev

LEMMA RefreshStateKeeps ==
    ASSUME NEW d, Core(d), Followed(d)
    PROVE  LET e == RefreshState(d)
           IN /\ Core(e) /\ Followed(e) /\ Drifts(d, e)
              /\ e.t.rev = d.t.rev /\ e.t.pending = d.t.pending /\ e.applied = d.applied
              /\ (d.t.rev # NoRev => e.t.refreshing) /\ e.net["gap"] = d.net["gap"]
<1>1. d \in Clients /\ d.t \in Topics /\ TopicTidy(d) /\ Laddered(d) /\ d.t.rev \in Int
  BY TopicType DEF Core, Base, Topics, Revs, NoRev
<1>2. CASE d.t.rev = NoRev
  <2>1. PICK t : t = [d.t EXCEPT !.refreshOnAnswer = TRUE]
    OBVIOUS
  <2>2. /\ t \in Topics /\ t.id = d.t.id /\ t.socket = d.t.socket /\ t.rev = d.t.rev /\ t.scope = d.t.scope
        /\ t.gapInFlight = d.t.gapInFlight /\ t.refreshing = d.t.refreshing /\ t.pending = d.t.pending
        /\ t.behind = d.t.behind /\ t.gapRev = d.t.gapRev
    BY <1>1, <2>1 DEF Topics
  <2>3. PICK e : e = [d EXCEPT !.t = t]
    OBVIOUS
  <2>4. /\ e.t = t /\ e.ops = d.ops /\ e.ids = d.ids /\ e.open = d.open /\ e.closed = d.closed
        /\ e.headers = d.headers /\ e.loop = d.loop /\ e.checkTimer = d.checkTimer /\ e.net = d.net
        /\ e.applied = d.applied /\ e.base = d.base /\ e.uncovered = d.uncovered
        /\ e \in Clients
    BY <1>1, <2>2, <2>3 DEF Clients
  <2>5. e = RefreshState(d)
    BY <1>2, <2>1, <2>3 DEF RefreshState
  <2>6. Turned(d, e)
    BY <2>2, <2>4 DEF Turned, Gapped
  <2>7. Followed(e) /\ Named(e) /\ Queued(e) /\ Framed(d, e) /\ (LastOwn(e) <=> LastOwn(d))
    BY <2>4, <2>6, TurnedKeeps DEF Core, Base, Named, Slots
  <2>8. TopicTidy(e)
    BY <1>1, <2>2, <2>4, <2>7 DEF TopicTidy
  <2>9. Laddered(e)
    BY <1>1, <2>2, <2>4, <2>7 DEF Laddered, OneRung, ShouldPoll
  <2>10. Drifts(d, e)
    BY <1>1, <2>2, <2>4, <2>7 DEF Drifts
  <2> QED
    BY <1>2, <2>2, <2>4, <2>5, <2>7, <2>8, <2>9, <2>10 DEF Core, Base, Laddered
<1>3. CASE d.t.rev # NoRev /\ d.open
  <2>1. PICK t : t = [d.t EXCEPT !.refreshing = TRUE]
    OBVIOUS
  <2>2. /\ t \in Topics /\ t.id = d.t.id /\ t.socket = d.t.socket /\ t.rev = d.t.rev /\ t.scope = d.t.scope
        /\ t.gapInFlight = d.t.gapInFlight /\ t.refreshing = TRUE /\ t.pending = d.t.pending
        /\ t.behind = d.t.behind /\ t.gapRev = d.t.gapRev
    BY <1>1, <2>1 DEF Topics
  <2>3. PICK e : e = [d EXCEPT !.t = t]
    OBVIOUS
  <2>4. /\ e.t = t /\ e.ops = d.ops /\ e.ids = d.ids /\ e.open = d.open /\ e.closed = d.closed
        /\ e.headers = d.headers /\ e.loop = d.loop /\ e.checkTimer = d.checkTimer /\ e.net = d.net
        /\ e.applied = d.applied /\ e.base = d.base /\ e.uncovered = d.uncovered
        /\ e \in Clients
    BY <1>1, <2>2, <2>3 DEF Clients
  <2>5. SendSubscribe(e) = RefreshState(d)
    BY <1>3, <2>1, <2>3 DEF RefreshState
  <2>6. Turned(d, e)
    BY <2>2, <2>4 DEF Turned, Gapped
  <2>7. Followed(e) /\ Named(e) /\ Queued(e) /\ Framed(d, e) /\ (LastOwn(e) <=> LastOwn(d))
    BY <2>4, <2>6, TurnedKeeps DEF Core, Base, Named, Slots
  <2>8. TopicTidy(e)
    BY <1>1, <1>3, <2>2, <2>4, <2>7 DEF TopicTidy
  <2>9. Laddered(e)
    BY <1>1, <2>2, <2>4, <2>7 DEF Laddered, OneRung, ShouldPoll
  <2>10. Drifts(d, e)
    BY <1>1, <2>2, <2>4, <2>7 DEF Drifts
  <2>11. Core(e)
    BY <2>4, <2>7, <2>8, <2>9 DEF Core, Base, Laddered
  <2>12. PICK f : f = SendSubscribe(e)
    OBVIOUS
  <2>13. Core(f) /\ Followed(f) /\ Drifts(e, f) /\ f.t = [e.t EXCEPT !.socket = "subscribing"]
         /\ f.applied = e.applied /\ f.net["gap"] = e.net["gap"]
    BY <2>7, <2>11, <2>12, SendSubscribeKeeps DEF Slots, Core
  <2>14. f.t.rev = d.t.rev /\ f.t.pending = d.t.pending /\ f.t.refreshing
    BY <2>2, <2>4, <2>13 DEF Topics
  <2>15. f.applied = d.applied /\ f.net["gap"] = d.net["gap"]
    BY <2>4, <2>13
  <2>16. Drifts(d, f)
    BY <1>1, <2>2, <2>4, <2>10, <2>13, DriftsTransitive, TopicType DEF Core, Base
  <2> QED
    BY <2>5, <2>12, <2>13, <2>14, <2>15, <2>16
<1>4. CASE d.t.rev # NoRev /\ ~d.open
  <2>1. PICK t : t = [d.t EXCEPT !.refreshing = TRUE, !.behind = TRUE]
    OBVIOUS
  <2>2. /\ t \in Topics /\ t.id = d.t.id /\ t.socket = d.t.socket /\ t.rev = d.t.rev /\ t.scope = d.t.scope
        /\ t.gapInFlight = d.t.gapInFlight /\ t.refreshing = TRUE /\ t.pending = d.t.pending
        /\ t.gapRev = d.t.gapRev
    BY <1>1, <2>1 DEF Topics
  <2>3. PICK loop : loop = IF Axios /\ d.loop # "polling" THEN "waiting" ELSE d.loop
    OBVIOUS
  <2>4. PICK e : e = [d EXCEPT !.t = t, !.loop = loop]
    OBVIOUS
  <2>5. /\ e.t = t /\ e.ops = d.ops /\ e.ids = d.ids /\ e.open = d.open /\ e.closed = d.closed
        /\ e.headers = d.headers /\ e.loop = loop /\ e.checkTimer = d.checkTimer /\ e.net = d.net
        /\ e.applied = d.applied /\ e.base = d.base /\ e.uncovered = d.uncovered
        /\ e \in Clients
    BY <1>1, <2>2, <2>3, <2>4 DEF Clients
  <2>6. e = RefreshState(d)
    BY <1>4, <2>1, <2>3, <2>4 DEF RefreshState
  <2>7. Turned(d, e)
    BY <2>2, <2>5 DEF Turned, Gapped
  <2>8. Followed(e) /\ Named(e) /\ Queued(e) /\ Framed(d, e) /\ (LastOwn(e) <=> LastOwn(d))
    BY <2>5, <2>7, TurnedKeeps DEF Core, Base, Named, Slots
  <2>9. TopicTidy(e)
    BY <1>1, <1>4, <2>2, <2>5, <2>8 DEF TopicTidy
  <2>10. Laddered(e)
    BY <1>1, <1>4, <2>2, <2>3, <2>5, <2>8 DEF Laddered, OneRung, ShouldPoll
  <2>11. Drifts(d, e)
    BY <1>1, <2>2, <2>5, <2>8 DEF Drifts
  <2> QED
    BY <2>2, <2>5, <2>6, <2>8, <2>9, <2>10, <2>11 DEF Core, Base, Laddered
<1> QED
  BY <1>2, <1>3, <1>4

LEMMA HoldKeeps ==
    ASSUME NEW d, Core(d), Followed(d), NEW a \in Arrivals, d.t.rev = NoRev \/ d.t.refreshing
    PROVE  LET e == Hold(d, a)
           IN /\ Core(e) /\ Followed(e) /\ Drifts(d, e)
              /\ e.t.rev = d.t.rev /\ e.t.pending = Append(d.t.pending, a) /\ e.applied = d.applied
              /\ e.net["gap"] = d.net["gap"]
<1>1. d \in Clients /\ d.t \in Topics /\ TopicTidy(d) /\ Laddered(d) /\ d.t.rev \in Int
  BY TopicType DEF Core, Base, Topics, Revs, NoRev
<1>2. PICK t : t = [d.t EXCEPT !.pending = Append(d.t.pending, a)]
  OBVIOUS
<1>12. PICK pending : pending = Append(d.t.pending, a)
  OBVIOUS
<1>13. pending \in Seq(Arrivals)
  BY <1>1, <1>12 DEF Topics
<1>3. /\ t \in Topics /\ t.id = d.t.id /\ t.socket = d.t.socket /\ t.rev = d.t.rev /\ t.scope = d.t.scope
      /\ t.gapInFlight = d.t.gapInFlight /\ t.refreshing = d.t.refreshing /\ t.pending = Append(d.t.pending, a)
      /\ t.behind = d.t.behind /\ t.gapRev = d.t.gapRev
  BY <1>1, <1>2, <1>12, <1>13 DEF Topics
<1>4. PICK e : e = [d EXCEPT !.t = t]
  OBVIOUS
<1>5. /\ e.t = t /\ e.ops = d.ops /\ e.ids = d.ids /\ e.open = d.open /\ e.closed = d.closed
      /\ e.headers = d.headers /\ e.loop = d.loop /\ e.checkTimer = d.checkTimer /\ e.net = d.net
      /\ e.applied = d.applied /\ e.base = d.base /\ e.uncovered = d.uncovered
      /\ e \in Clients
  BY <1>1, <1>3, <1>4 DEF Clients
<1>6. e = Hold(d, a)
  BY <1>2, <1>4 DEF Hold
<1>7. Turned(d, e)
  BY <1>3, <1>5 DEF Turned, Gapped
<1>8. Followed(e) /\ Named(e) /\ Queued(e) /\ Framed(d, e) /\ (LastOwn(e) <=> LastOwn(d))
  BY <1>5, <1>7, TurnedKeeps DEF Core, Base, Named, Slots
<1>9. TopicTidy(e)
  BY <1>1, <1>3, <1>5, <1>8 DEF TopicTidy
<1>10. Laddered(e)
  BY <1>1, <1>3, <1>5, <1>8 DEF Laddered, OneRung, ShouldPoll
<1>11. Drifts(d, e)
  BY <1>1, <1>3, <1>5, <1>8 DEF Drifts
<1> QED
  BY <1>3, <1>5, <1>6, <1>8, <1>9, <1>10, <1>11 DEF Core, Base, Laddered

LEMMA ApplyKeeps ==
    ASSUME NEW d, Core(d), Followed(d), d.t.rev # NoRev, NEW a \in Arrivals, a.rev >= d.t.rev, a.rev # NoRev
    PROVE  LET e == Apply(d, a)
           IN /\ Core(e) /\ Followed(e) /\ Drifts(d, e)
              /\ e.t.rev = a.rev /\ e.t.pending = d.t.pending
              /\ e.applied = d.applied \cup {<<d.t.scope, a.rev>>} /\ e.net = d.net
<1>1. d \in Clients /\ d.t \in Topics /\ TopicTidy(d) /\ Laddered(d) /\ d.t.rev \in Int
  BY TopicType DEF Core, Base, Topics, Revs, NoRev
<1>2. PICK t : t = [d.t EXCEPT !.rev = a.rev]
  OBVIOUS
<1>3. /\ t \in Topics /\ t.id = d.t.id /\ t.socket = d.t.socket /\ t.rev = a.rev /\ t.scope = d.t.scope
      /\ t.gapInFlight = d.t.gapInFlight /\ t.refreshing = d.t.refreshing /\ t.pending = d.t.pending
      /\ t.behind = d.t.behind /\ t.gapRev = d.t.gapRev
  BY <1>1, <1>2 DEF Topics, Arrivals
<1>4. PICK applied : applied = d.applied \cup {<<d.t.scope, a.rev>>}
  OBVIOUS
<1>5. applied \in SUBSET (ScopeKeys \X Revs)
  <2>1. <<d.t.scope, a.rev>> \in ScopeKeys \X Revs
    BY <1>1 DEF Topics, Arrivals
  <2>2. d.applied \in SUBSET (ScopeKeys \X Revs)
    BY <1>1 DEF Clients
  <2> QED
    BY <1>4, <2>1, <2>2
<1>6. PICK e : e = [d EXCEPT !.t = t, !.applied = applied]
  OBVIOUS
<1>7. /\ e.t = t /\ e.ops = d.ops /\ e.ids = d.ids /\ e.open = d.open /\ e.closed = d.closed
      /\ e.headers = d.headers /\ e.loop = d.loop /\ e.checkTimer = d.checkTimer /\ e.net = d.net
      /\ e.applied = applied /\ e.base = d.base /\ e.uncovered = d.uncovered
      /\ e \in Clients
  BY <1>1, <1>3, <1>5, <1>6 DEF Clients
<1>8. e = Apply(d, a)
  BY <1>1, <1>2, <1>4, <1>6 DEF Apply, Clients
<1>9. Turned(d, e)
  BY <1>3, <1>7 DEF Turned, Gapped
<1>10. Followed(e) /\ Named(e) /\ Queued(e) /\ Framed(d, e) /\ (LastOwn(e) <=> LastOwn(d))
  BY <1>7, <1>9, TurnedKeeps DEF Core, Base, Named, Slots
<1>11. TopicTidy(e)
  BY <1>1, <1>3, <1>7, <1>10 DEF TopicTidy
<1>12. Laddered(e)
  BY <1>1, <1>3, <1>7, <1>10 DEF Laddered, OneRung, ShouldPoll
<1>13. Drifts(d, e)
  BY <1>1, <1>3, <1>4, <1>7, <1>10 DEF Drifts
<1> QED
  BY <1>3, <1>4, <1>7, <1>8, <1>10, <1>11, <1>12, <1>13 DEF Core, Base, Laddered

LEMMA ReceiveKeeps ==
    ASSUME NEW d, Core(d), Followed(d), NEW a \in Arrivals, a.prev < a.rev, a.rev # NoRev
    PROVE  LET e == Receive(d, a)
           IN Core(e) /\ Followed(e) /\ Drifts(d, e)
<1>1. d \in Clients /\ d.t \in Topics /\ TopicTidy(d) /\ d.t.rev \in Int
  BY TopicType DEF Core, Base, Topics, Revs, NoRev
<1>2. CASE d.t.rev = NoRev \/ d.t.refreshing
  BY <1>2, HoldKeeps DEF Receive
<1>3. ASSUME d.t.rev # NoRev, ~d.t.refreshing, HeadersChanged(d), d.t.sentHeaders # NoKey
      PROVE  LET e == Receive(d, a) IN Core(e) /\ Followed(e) /\ Drifts(d, e)
  <2>1. PICK e : e = RefreshState(d)
    OBVIOUS
  <2>2. Core(e) /\ Followed(e) /\ Drifts(d, e) /\ e.t.refreshing
    BY <1>3, <2>1, RefreshStateKeeps
  <2>3. PICK f : f = Hold(e, a)
    OBVIOUS
  <2>4. Core(f) /\ Followed(f) /\ Drifts(e, f)
    BY <2>2, <2>3, HoldKeeps
  <2>5. Drifts(d, f)
    BY <1>1, <2>2, <2>4, DriftsTransitive, TopicType DEF Core, Base
  <2> QED
    BY <1>3, <2>1, <2>3, <2>4, <2>5 DEF Receive
<1>4. ASSUME d.t.rev # NoRev, ~d.t.refreshing, ~(HeadersChanged(d) /\ d.t.sentHeaders # NoKey)
      PROVE  LET e == Receive(d, a) IN Core(e) /\ Followed(e) /\ Drifts(d, e)
  <2>1. CASE a.scope # d.t.scope \/ (~IsNext(d, a) /\ a.rev <= d.t.rev)
    <3>1. Receive(d, a) = d
      BY <1>4, <2>1 DEF Receive
    <3> QED
      BY <1>1, <3>1, DriftsReflexive
  <2>2. CASE a.scope = d.t.scope /\ IsNext(d, a)
    <3>1. a.rev >= d.t.rev
      BY <1>1, <2>2 DEF IsNext, Arrivals, Revs, NoRev
    <3> QED
      BY <1>4, <2>2, <3>1, ApplyKeeps DEF Receive
  <2>3. CASE a.scope = d.t.scope /\ ~IsNext(d, a) /\ ~(a.rev <= d.t.rev)
    <3>1. Receive(d, a) = GapPoll(d, a.rev) /\ a.rev \in Revs
      BY <1>4, <2>3 DEF Receive, Arrivals
    <3> QED
      BY <3>1, GapPollKeeps
  <2> QED
    BY <2>1, <2>2, <2>3
<1> QED
  BY <1>2, <1>3, <1>4

LEMMA KnowledgeGrows ==
    ASSUME NEW d \in Clients, NEW e \in Clients, Learns(d, e), NEW lg \in Logs
    PROVE  /\ \A k \in Scopes, n \in Int : Covers(d, lg, k, n) => Covers(e, lg, k, n)
           /\ \A call \in Calls : CallCovered(d, lg, call) => CallCovered(e, lg, call)
<1>1. ASSUME NEW k \in Scopes, NEW n \in Int, Covers(d, lg, k, n) PROVE Covers(e, lg, k, n)
  <2>1. k \in ScopeKeys
    BY EventSyncAssumption DEF Scopes, ScopeKeys
  <2>2. d.base[k] \in Int /\ e.base[k] \in Int /\ d.uncovered[k] \in Int /\ e.uncovered[k] \in Int
    BY <2>1 DEF Clients, Revs, NoRev
  <2>3. ASSUME NEW r \in 1 .. n, KnownOf(d, k, r) PROVE KnownOf(e, k, r)
    BY <2>1, <2>2, <2>3 DEF KnownOf, Learns
  <2> QED
    BY <1>1, <2>3 DEF Covers
<1>2. ASSUME NEW call \in Calls, CallCovered(d, lg, call) PROVE CallCovered(e, lg, call)
  <2>1. call.cursor \in Int
    BY DEF Calls, Revs, NoRev
  <2> QED
    BY <1>1, <1>2, <2>1 DEF CallCovered, Learns
<1> QED
  BY <1>1, <1>2

LEMMA CallsStayCovered ==
    ASSUME NEW d, Core(d), NEW e, Core(e), Learns(d, e), NEW lg \in Logs, CallsCovered(d, lg),
           e.net["op"] # d.net["op"] => e.net["op"] = NoCall \/ e.net["op"].phase = "sent",
           \A s \in Polls : \/ e.net[s] = d.net[s] \/ e.net[s] = NoCall
                            \/ e.net[s].phase # "ok" /\ CallCovered(e, lg, e.net[s])
    PROVE  CallsCovered(e, lg)
<1>1. ASSUME NEW s \in Polls, e.net[s] # NoCall
      PROVE  CallCovered(e, lg, e.net[s]) /\ (e.net[s].phase = "ok" => AnswerSound(lg, e.net[s]))
  <2>1. CASE e.net[s] = d.net[s]
    <3>1. e.net[s] \in Calls
      BY <1>1 DEF Core, Base, Named, Polls, Slots
    <3> QED
      BY <1>1, <2>1, <3>1, KnowledgeGrows DEF Core, Base, CallsCovered
  <2> QED
    BY <1>1, <2>1
<1>2. e.net["op"] # NoCall /\ e.net["op"].phase = "ok" =>
          LET a == e.net["op"].answer IN a \in SubscribeAnswers /\ 0 <= a.rev /\ a.rev <= Len(lg[a.scope])
  BY DEF CallsCovered
<1> QED
  BY <1>1, <1>2 DEF CallsCovered

LEMMA DriftsLearn ==
    ASSUME NEW d \in Clients, NEW e \in Clients, Drifts(d, e)
    PROVE  Learns(d, e)
<1>1. \A k \in ScopeKeys : d.base[k] \in Int /\ d.uncovered[k] \in Int
  BY DEF Clients, Revs, NoRev
<1> QED
  BY <1>1 DEF Drifts, Framed, Gapped, Learns

LEMMA RefreshStateCovers ==
    ASSUME NEW d, Core(d), Followed(d), NEW lg \in Logs, Covered(d, lg)
    PROVE  Covered(RefreshState(d), lg)
<1>1. PICK e : e = RefreshState(d)
  OBVIOUS
<1>2. /\ Core(e) /\ Followed(e) /\ Drifts(d, e)
      /\ e.t.rev = d.t.rev /\ e.t.pending = d.t.pending /\ e.net["gap"] = d.net["gap"]
  BY <1>1, RefreshStateKeeps
<1>3. Learns(d, e)
  BY <1>2, DriftsLearn DEF Core, Base
<1>4. CallsCovered(e, lg)
  BY <1>2, <1>3, CallsStayCovered DEF Covered, Drifts, Framed, Gapped, Polls
<1>5. TopicCovered(e, lg)
  <2>1. d.t.rev \in Int /\ (d.t.rev # NoRev => d.t.scope \in Scopes)
    BY TopicType DEF Topics, Revs, NoRev, Core, Base, TopicTidy
  <2> QED
    BY <1>2, <1>3, <2>1, KnowledgeGrows DEF Core, Base, Covered, TopicCovered, Drifts
<1> QED
  BY <1>1, <1>4, <1>5 DEF Covered

LEMMA HoldCovers ==
    ASSUME NEW d, Core(d), Followed(d), NEW a \in Arrivals, d.t.rev = NoRev \/ d.t.refreshing,
           NEW lg \in Logs, Covered(d, lg), ChainedIn(lg, a)
    PROVE  Covered(Hold(d, a), lg)
<1>1. PICK e : e = Hold(d, a)
  OBVIOUS
<1>2. /\ Core(e) /\ Followed(e) /\ Drifts(d, e)
      /\ e.t.rev = d.t.rev /\ e.t.pending = Append(d.t.pending, a) /\ e.net["gap"] = d.net["gap"]
  BY <1>1, HoldKeeps
<1>3. Learns(d, e)
  BY <1>2, DriftsLearn DEF Core, Base
<1>4. CallsCovered(e, lg)
  BY <1>2, <1>3, CallsStayCovered DEF Covered, Drifts, Framed, Gapped, Polls
<1>5. TopicCovered(e, lg)
  <2>1. d.t.rev \in Int /\ (d.t.rev # NoRev => d.t.scope \in Scopes) /\ d.t.pending \in Seq(Arrivals)
    BY TopicType DEF Topics, Revs, NoRev, Core, Base, TopicTidy
  <2>2. \A i \in DOMAIN e.t.pending : ChainedIn(lg, e.t.pending[i])
    <3>1. \A i \in DOMAIN e.t.pending : e.t.pending[i] = a \/ (i \in DOMAIN d.t.pending /\ e.t.pending[i] = d.t.pending[i])
      BY <1>2, <2>1
    <3> QED
      BY <3>1 DEF Covered, TopicCovered
  <2>3. e.t.rev # NoRev => Covers(e, lg, e.t.scope, e.t.rev)
    BY <1>2, <1>3, <2>1, KnowledgeGrows DEF Core, Base, Covered, TopicCovered, Drifts
  <2> QED
    BY <2>2, <2>3 DEF TopicCovered
<1> QED
  BY <1>1, <1>4, <1>5 DEF Covered

(* What is applied is the next event that passes: of the ones up to it the  *)
(* application then knows all.                                              *)
LEMMA ApplyCovers ==
    ASSUME NEW d, Core(d), Followed(d), d.t.rev # NoRev, NEW a \in Arrivals, a.prev = d.t.rev,
           NEW lg \in Logs, Covered(d, lg),
           d.t.rev < a.rev, a.rev <= Len(lg[d.t.scope]), \A r \in d.t.rev + 1 .. a.rev - 1 : ~lg[d.t.scope][r]
    PROVE  Covered(Apply(d, a), lg)
<1>0. d.t.rev \in Int /\ d.t.scope \in Scopes /\ d.t.scope \in ScopeKeys /\ a.rev \in Int /\ a.rev # NoRev
  BY TopicType DEF Topics, Revs, NoRev, Core, Base, TopicTidy, Arrivals
<1>1. PICK e : e = Apply(d, a)
  OBVIOUS
<1>2. /\ Core(e) /\ Followed(e) /\ Drifts(d, e)
      /\ e.t.rev = a.rev /\ e.t.pending = d.t.pending /\ e.net = d.net
      /\ e.applied = d.applied \cup {<<d.t.scope, a.rev>>}
  BY <1>0, <1>1, ApplyKeeps
<1>3. Learns(d, e)
  BY <1>2, DriftsLearn DEF Core, Base
<1>4. CallsCovered(e, lg)
  BY <1>2, <1>3, CallsStayCovered DEF Covered
<1>5. TopicCovered(e, lg)
  <2>1. Covers(e, lg, d.t.scope, d.t.rev)
    BY <1>0, <1>2, <1>3, KnowledgeGrows DEF Core, Base, Covered, TopicCovered
  <2>2. ASSUME NEW r \in 1 .. a.rev, lg[d.t.scope][r] PROVE KnownOf(e, d.t.scope, r)
    <3>1. CASE r = a.rev
      BY <1>2, <3>1 DEF KnownOf
    <3>2. CASE r # a.rev
      <4>1. r \in 1 .. d.t.rev
        BY <1>0, <2>2, <3>2
      <4> QED
        BY <2>1, <2>2, <4>1 DEF Covers
    <3> QED
      BY <3>1, <3>2
  <2>3. Covers(e, lg, e.t.scope, e.t.rev)
    BY <1>2, <2>2 DEF Covers, Drifts
  <2> QED
    BY <1>2, <2>3 DEF Covered, TopicCovered
<1> QED
  BY <1>1, <1>4, <1>5 DEF Covered

LEMMA GapPollCovers ==
    ASSUME NEW d, Core(d), Followed(d), d.t.rev # NoRev, NEW rev \in Revs, NEW lg \in Logs, Covered(d, lg)
    PROVE  Covered(GapPoll(d, rev), lg)
<1>0. d \in Clients /\ d.t \in Topics /\ d.t.rev \in Int /\ d.t.scope \in Scopes
  BY TopicType DEF Topics, Revs, NoRev, Core, Base, TopicTidy
<1>1. PICK e : e = GapPoll(d, rev)
  OBVIOUS
<1>2. Core(e) /\ Followed(e) /\ Drifts(d, e)
  BY <1>1, GapPollKeeps
<1>3. Learns(d, e)
  BY <1>2, DriftsLearn DEF Core, Base
<1>4. Covers(e, lg, d.t.scope, d.t.rev)
  BY <1>0, <1>2, <1>3, KnowledgeGrows DEF Core, Base, Covered, TopicCovered
<1>5. /\ e.t.rev = d.t.rev /\ e.t.pending = d.t.pending
      /\ \/ e.net["gap"] = d.net["gap"]
         \/ /\ e.net["gap"].phase = "sent" /\ e.net["gap"].cursor = d.t.rev
            /\ e.net["gap"].held = d.t.scope
  <2>1. CASE d.t.gapInFlight
    BY <1>0, <1>1, <2>1 DEF GapPoll, Topics, Clients
  <2>2. CASE ~d.t.gapInFlight /\ ~d.open /\ ~Axios
    BY <1>1, <2>2 DEF GapPoll
  <2>3. CASE ~d.t.gapInFlight /\ (d.open \/ Axios)
    <3>1. e = Send([d EXCEPT !.t.gapInFlight = TRUE], "gap")
      BY <1>1, <2>3 DEF GapPoll
    <3>2. /\ e.t = [d.t EXCEPT !.gapInFlight = TRUE] /\ e.net["gap"].phase = "sent"
          /\ e.net["gap"].cursor = d.t.rev /\ e.net["gap"].held = d.t.scope
      BY <3>1, SendGap
    <3> QED
      BY <1>0, <3>2 DEF Topics
  <2> QED
    BY <2>1, <2>2, <2>3
<1>6. CallsCovered(e, lg)
  <2>1. \/ e.net["gap"] = d.net["gap"]
        \/ e.net["gap"].phase # "ok" /\ CallCovered(e, lg, e.net["gap"])
    BY <1>0, <1>4, <1>5 DEF CallCovered, Covers
  <2> QED
    BY <1>2, <1>3, <2>1, CallsStayCovered DEF Covered, Drifts, Framed, Gapped, Polls
<1>7. TopicCovered(e, lg)
  BY <1>2, <1>4, <1>5 DEF Covered, TopicCovered, Drifts
<1> QED
  BY <1>1, <1>6, <1>7 DEF Covered

LEMMA ReceiveCovers ==
    ASSUME NEW d, Core(d), Followed(d), NEW a \in Arrivals, NEW lg \in Logs, Covered(d, lg), ChainedIn(lg, a)
    PROVE  Covered(Receive(d, a), lg)
<1>1. d \in Clients /\ d.t \in Topics /\ d.t.rev \in Int
  BY TopicType DEF Core, Base, Topics, Revs, NoRev
<1>2. CASE d.t.rev = NoRev \/ d.t.refreshing
  BY <1>2, HoldCovers DEF Receive
<1>3. CASE d.t.rev # NoRev /\ ~d.t.refreshing /\ HeadersChanged(d) /\ d.t.sentHeaders # NoKey
  <2>1. PICK e : e = RefreshState(d)
    OBVIOUS
  <2>2. Core(e) /\ Followed(e) /\ e.t.refreshing /\ Covered(e, lg)
    BY <1>3, <2>1, RefreshStateKeeps, RefreshStateCovers
  <2>3. Covered(Hold(e, a), lg)
    BY <2>2, HoldCovers
  <2> QED
    BY <1>3, <2>1, <2>3 DEF Receive
<1>4. CASE d.t.rev # NoRev /\ ~d.t.refreshing /\ ~(HeadersChanged(d) /\ d.t.sentHeaders # NoKey)
  <2>1. CASE a.scope # d.t.scope \/ (~IsNext(d, a) /\ a.rev <= d.t.rev)
    BY <1>4, <2>1 DEF Receive
  <2>2. CASE a.scope = d.t.scope /\ IsNext(d, a)
    <3>1. /\ a.prev = d.t.rev /\ d.t.rev < a.rev /\ a.rev <= Len(lg[d.t.scope])
          /\ \A r \in d.t.rev + 1 .. a.rev - 1 : ~lg[d.t.scope][r]
      BY <2>2 DEF IsNext, ChainedIn
    <3> QED
      BY <1>4, <2>2, <3>1, ApplyCovers DEF Receive
  <2>3. CASE a.scope = d.t.scope /\ ~IsNext(d, a) /\ ~(a.rev <= d.t.rev)
    <3>1. Receive(d, a) = GapPoll(d, a.rev) /\ a.rev \in Revs
      BY <1>4, <2>3 DEF Receive, Arrivals
    <3> QED
      BY <1>4, <3>1, GapPollCovers
  <2> QED
    BY <2>1, <2>2, <2>3
<1> QED
  BY <1>2, <1>3, <1>4

-----------------------------------------------------------------------------
(* Induction over the subsets of a finite set that lose one member at a time.*)

LEMMA LeastNumber ==
    ASSUME NEW T \in SUBSET Nat, T # {}
    PROVE  \E n \in T : \A m \in T : n <= m
<1>1. \E n \in T : \A m \in T : ~ (<<m, n>> \in OpToRel(<, Nat))
  BY WFMin, NatLessThanWellFounded, Zenon
<1>2. ASSUME NEW m \in Nat, NEW n \in Nat, m < n PROVE <<m, n>> \in OpToRel(<, Nat)
  BY <1>2, Zenon DEF OpToRel
<1>3. \E n \in T : \A m \in T : ~ (m < n)
  BY <1>1, <1>2, Zenon
<1> QED
  BY <1>3

Sizes(S) == {Cardinality(x) : x \in S}

(* `last` names a member of every subset that has one.                      *)
Picks(S, last) == IsFiniteSet(S) /\ \A x \in SUBSET S : x # {} => last[x] \in x

Inductive(S, last, P) ==
    {} \in P /\ \A x \in SUBSET S : x # {} /\ x \ {last[x]} \in P => x \in P

IsFold(S, last, b, step, f) ==
    f = [x \in SUBSET S |-> IF x = {} THEN b ELSE step[<<f[x \ {last[x]}], last[x]>>]]

LEMMA SubsetInduction ==
    ASSUME NEW S, NEW last, Picks(S, last), NEW P, Inductive(S, last, P)
    PROVE  SUBSET S \subseteq P
<1> SUFFICES ASSUME (SUBSET S) \ P # {} PROVE FALSE
  OBVIOUS
<1>1. \A x \in SUBSET S : IsFiniteSet(x) /\ Cardinality(x) \in Nat
  BY FS_Subset, FS_CardinalityType DEF Picks
<1>2. PICK T : T = Sizes((SUBSET S) \ P)
  OBVIOUS
<1>3. T \in SUBSET Nat /\ T # {}
  BY <1>1, <1>2 DEF Sizes
<1>4. PICK n \in T : \A m \in T : n <= m
  BY <1>3, LeastNumber
<1>5. PICK x \in (SUBSET S) \ P : n = Cardinality(x)
  BY <1>2, <1>4 DEF Sizes
<1>6. x # {} /\ last[x] \in x /\ x \ {last[x]} \in SUBSET S
  <2>1. {} \in P
    BY DEF Inductive
  <2> QED
    BY <1>5, <2>1 DEF Picks
<1>7. Cardinality(x \ {last[x]}) = Cardinality(x) - 1
  BY <1>1, <1>5, <1>6, FS_RemoveElement
<1>8. x \ {last[x]} \in P
  <2>1. ASSUME x \ {last[x]} \notin P PROVE Cardinality(x \ {last[x]}) \in T
    BY <1>2, <1>6, <2>1 DEF Sizes
  <2>2. Cardinality(x) \in Nat
    BY <1>1, <1>5
  <2> QED
    BY <1>4, <1>5, <1>7, <2>1, <2>2
<1> QED
  BY <1>5, <1>6, <1>8 DEF Inductive

(* A function that is defined by such an induction exists.                  *)
LEMMA FoldExists ==
    ASSUME NEW S, NEW last, Picks(S, last), NEW G, NEW b \in G, NEW step \in [G \X S -> G]
    PROVE  \E f \in [SUBSET S -> G] : IsFold(S, last, b, step, f)
<1> DEFINE Below(n) == {x \in SUBSET S : Cardinality(x) <= n}
           Body(g, x) == IF x = {} THEN b ELSE step[<<g[x \ {last[x]}], last[x]>>]
           Upto(n) == \E g \in [Below(n) -> G] : g = [x \in Below(n) |-> Body(g, x)]
<1>1. \A x \in SUBSET S : IsFiniteSet(x) /\ Cardinality(x) \in Nat
  BY FS_Subset, FS_CardinalityType DEF Picks
<1>2. ASSUME NEW x \in SUBSET S, x # {}
      PROVE  /\ last[x] \in x /\ x \ {last[x]} \in SUBSET S
             /\ Cardinality(x \ {last[x]}) = Cardinality(x) - 1
  BY <1>1, <1>2, FS_RemoveElement DEF Picks
<1>3. Upto(0)
  <2>1. \A x \in Below(0) : x = {}
    BY <1>1, FS_EmptySet
  <2>2. PICK h : h = [x \in Below(0) |-> b]
    OBVIOUS
  <2>3. h \in [Below(0) -> G]
    BY <2>2
  <2>4. h = [x \in Below(0) |-> Body(h, x)]
    BY <2>1, <2>2
  <2> QED
    BY <2>3, <2>4
<1>4. ASSUME NEW n \in Nat, Upto(n) PROVE Upto(n + 1)
  <2>1. PICK g \in [Below(n) -> G] : g = [x \in Below(n) |-> Body(g, x)]
    BY <1>4
  <2>2. PICK h : h = [x \in Below(n + 1) |-> Body(g, x)]
    OBVIOUS
  <2>3. \A x \in Below(n + 1) : x # {} => x \ {last[x]} \in Below(n) /\ last[x] \in S
    BY <1>1, <1>2
  <2>4. h \in [Below(n + 1) -> G]
    <3>1. ASSUME NEW x \in Below(n + 1) PROVE Body(g, x) \in G
      BY <2>1, <2>3
    <3> QED
      BY <2>2, <3>1
  <2>5. Below(n) \subseteq Below(n + 1)
    BY <1>1
  <2>6. \A y \in Below(n) : h[y] = g[y]
    BY <2>1, <2>2, <2>5
  <2>7. \A x \in Below(n + 1) : Body(h, x) = Body(g, x)
    BY <2>3, <2>6
  <2>8. h = [x \in Below(n + 1) |-> Body(h, x)]
    BY <2>2, <2>7
  <2> QED
    BY <2>4, <2>8
<1>5. \A n \in Nat : Upto(n)
  <2> HIDE DEF Upto
  <2>1. PICK N : N = {n \in Nat : ~Upto(n)}
    OBVIOUS
  <2>2. N \in SUBSET Nat
    BY <2>1
  <2>3. ASSUME N # {} PROVE FALSE
    <3>1. PICK n \in N : \A m \in N : n <= m
      BY <2>2, <2>3, LeastNumber
    <3>2. n \in Nat /\ ~Upto(n) /\ n # 0
      BY <1>3, <2>1, <3>1
    <3>3. PICK k \in Nat : n = k + 1
      <4>1. n - 1 \in Nat /\ n = (n - 1) + 1
        BY <3>2
      <4> QED
        BY <4>1
    <3>4. k \notin N
      BY <3>1, <3>3
    <3>5. Upto(k)
      BY <2>1, <3>4
    <3> QED
      BY <1>4, <3>2, <3>3, <3>5
  <2> QED
    BY <2>1, <2>3
<1>6. Below(Cardinality(S)) = SUBSET S
  <2>1. \A x \in SUBSET S : Cardinality(x) <= Cardinality(S)
    BY FS_Subset DEF Picks
  <2> QED
    BY <2>1
<1>7. Cardinality(S) \in Nat
  BY <1>1
<1>8. PICK g \in [Below(Cardinality(S)) -> G] : g = [x \in Below(Cardinality(S)) |-> Body(g, x)]
  BY <1>5, <1>7
<1>9. g \in [SUBSET S -> G] /\ g = [x \in SUBSET S |-> Body(g, x)]
  BY <1>6, <1>8
<1> QED
  BY <1>9 DEF IsFold

-----------------------------------------------------------------------------
(* What the client folds over: arrivals in the order of their revs, or in   *)
(* the order they came in.                                                  *)

Revved(S) == IsFiniteSet(S) /\ \A a \in S : a.rev \in Int

LEMMA LatestIsOne ==
    ASSUME NEW S, Revved(S), S # {}
    PROVE  Latest(S) \in S /\ \A a \in S : a.rev <= Latest(S).rev
<1>1. PICK last : last = [x \in SUBSET S |-> CHOOSE e \in x : TRUE]
  OBVIOUS
<1>2. PICK P : P = {x \in SUBSET S : x # {} => \E a \in x : \A b \in x : b.rev <= a.rev}
  OBVIOUS
<1>3. Picks(S, last)
  BY <1>1 DEF Picks, Revved
<1>4. {} \in P
  BY <1>2
<1>5. ASSUME NEW x \in SUBSET S, x # {}, x \ {last[x]} \in P PROVE x \in P
  <2>1. PICK e \in x : e = last[x]
    BY <1>3, <1>5 DEF Picks
  <2>2. \A a \in x : a.rev \in Int
    BY DEF Revved
  <2>3. CASE x = {e}
    BY <1>2, <2>2, <2>3
  <2>4. CASE x # {e}
    <3>1. PICK a \in x \ {e} : \A b \in x \ {e} : b.rev <= a.rev
      BY <1>2, <1>5, <2>1, <2>4
    <3>2. \E m \in x : \A b \in x : b.rev <= m.rev
      <4>1. CASE e.rev <= a.rev
        BY <3>1, <4>1
      <4>2. CASE ~(e.rev <= a.rev)
        BY <2>2, <3>1, <4>2
      <4> QED
        BY <4>1, <4>2
    <3> QED
      BY <1>2, <3>2
  <2> QED
    BY <2>3, <2>4
<1>6. SUBSET S \subseteq P
  <2>1. Inductive(S, last, P)
    BY <1>4, <1>5 DEF Inductive
  <2> QED
    BY <1>3, <2>1, SubsetInduction
<1>7. \E a \in S : \A b \in S : b.rev <= a.rev
  BY <1>2, <1>6
<1> QED
  BY <1>7 DEF Latest

LEMMA MaxIsOne ==
    ASSUME NEW S \in SUBSET Int, IsFiniteSet(S), S # {}
    PROVE  Max(S) \in S /\ \A a \in S : a <= Max(S)
<1>1. PICK last : last = [x \in SUBSET S |-> CHOOSE e \in x : TRUE]
  OBVIOUS
<1>2. PICK P : P = {x \in SUBSET S : x # {} => \E a \in x : \A b \in x : b <= a}
  OBVIOUS
<1>3. Picks(S, last)
  BY <1>1 DEF Picks
<1>4. {} \in P
  BY <1>2
<1>5. ASSUME NEW x \in SUBSET S, x # {}, x \ {last[x]} \in P PROVE x \in P
  <2>1. PICK e \in x : e = last[x]
    BY <1>3, <1>5 DEF Picks
  <2>3. CASE x = {e}
    BY <1>2, <2>3
  <2>4. CASE x # {e}
    <3>1. PICK a \in x \ {e} : \A b \in x \ {e} : b <= a
      BY <1>2, <1>5, <2>1, <2>4
    <3>2. \E m \in x : \A b \in x : b <= m
      <4>1. CASE e <= a
        BY <3>1, <4>1
      <4>2. CASE ~(e <= a)
        BY <3>1, <4>2
      <4> QED
        BY <4>1, <4>2
    <3> QED
      BY <1>2, <3>2
  <2> QED
    BY <2>3, <2>4
<1>6. SUBSET S \subseteq P
  <2>1. Inductive(S, last, P)
    BY <1>4, <1>5 DEF Inductive
  <2> QED
    BY <1>3, <2>1, SubsetInduction
<1>7. PICK a \in S : \A b \in S : a >= b
  BY <1>2, <1>6
<1> QED
  BY <1>7 DEF Max

LEMMA ReceiveByRevKeeps ==
    ASSUME NEW S, Revved(S), NEW G, NEW b \in G, \A d \in G, a \in S : Receive(d, a) \in G
    PROVE  ReceiveByRev(b, S) \in G
<1> DEFINE iter[x \in SUBSET S] == IF x = {} THEN b ELSE LET m == Latest(x) IN Receive(iter[x \ {m}], m)
<1>1. ReceiveByRev(b, S) = iter[S]
  BY DEF ReceiveByRev, MapThenFoldSet
<1>2. PICK last : last = [x \in SUBSET S |-> Latest(x)]
  OBVIOUS
<1>3. Picks(S, last)
  <2>1. ASSUME NEW x \in SUBSET S, x # {} PROVE last[x] \in x
    <3>1. Revved(x)
      BY FS_Subset DEF Revved
    <3> QED
      BY <1>2, <2>1, <3>1, LatestIsOne
  <2> QED
    BY <2>1 DEF Picks, Revved
<1>4. PICK step : step = [p \in G \X S |-> Receive(p[1], p[2])]
  OBVIOUS
<1>5. step \in [G \X S -> G]
  BY <1>4
<1>6. PICK f \in [SUBSET S -> G] : IsFold(S, last, b, step, f)
  BY <1>3, <1>5, FoldExists
<1>7. f = [x \in SUBSET S |-> IF x = {} THEN b ELSE Receive(f[x \ {Latest(x)}], Latest(x))]
  <2>1. ASSUME NEW x \in SUBSET S, x # {}
        PROVE  step[<<f[x \ {last[x]}], last[x]>>] = Receive(f[x \ {Latest(x)}], Latest(x))
    <3>1. last[x] = Latest(x) /\ last[x] \in S /\ f[x \ {last[x]}] \in G
      BY <1>2, <1>3, <2>1 DEF Picks
    <3> QED
      BY <1>4, <3>1
  <2> QED
    BY <1>6, <2>1 DEF IsFold
<1>8. iter = [x \in SUBSET S |-> IF x = {} THEN b ELSE Receive(iter[x \ {Latest(x)}], Latest(x))]
  BY <1>7
<1> HIDE DEF iter
<1>9. PICK P : P = {x \in SUBSET S : iter[x] \in G}
  OBVIOUS
<1>10. {} \in P
  BY <1>8, <1>9
<1>11. ASSUME NEW x \in SUBSET S, x # {}, x \ {last[x]} \in P PROVE x \in P
  <2>1. last[x] = Latest(x) /\ last[x] \in S
    BY <1>2, <1>3, <1>11 DEF Picks
  <2>2. iter[x] = Receive(iter[x \ {Latest(x)}], Latest(x))
    BY <1>8, <1>11
  <2> QED
    BY <1>9, <1>11, <2>1, <2>2
<1>12. SUBSET S \subseteq P
  <2>1. Inductive(S, last, P)
    BY <1>10, <1>11 DEF Inductive
  <2> QED
    BY <1>3, <2>1, SubsetInduction
<1> QED
  BY <1>1, <1>9, <1>12

LEMMA ReceiveAllKeeps ==
    ASSUME NEW T, NEW s \in Seq(T), NEW scopes, NEW G, NEW b \in G,
           \A d \in G, i \in DOMAIN s : s[i].scope \in scopes => Receive(d, s[i]) \in G
    PROVE  ReceiveAll(b, s, scopes) \in G
<1> DEFINE Taken(d, i) == IF s[i].scope \in scopes THEN Receive(d, s[i]) ELSE d
           iter[x \in SUBSET DOMAIN s] == IF x = {} THEN b ELSE LET m == Max(x) IN Taken(iter[x \ {m}], m)
<1>1. ReceiveAll(b, s, scopes) = iter[DOMAIN s]
  BY DEF ReceiveAll, FoldLeft, MapThenFoldSet
<1>2. PICK S : S = DOMAIN s
  OBVIOUS
<1>3. S \in SUBSET Int /\ IsFiniteSet(S)
  <2>1. S = 1 .. Len(s) /\ Len(s) \in Int
    BY <1>2
  <2>2. 1 \in Int
    OBVIOUS
  <2> QED
    BY <2>1, <2>2, FS_Interval
<1>4. PICK last : last = [x \in SUBSET S |-> Max(x)]
  OBVIOUS
<1>5. Picks(S, last)
  <2>1. ASSUME NEW x \in SUBSET S, x # {} PROVE last[x] \in x
    <3>1. IsFiniteSet(x) /\ x \in SUBSET Int
      BY <1>3, FS_Subset
    <3> QED
      BY <1>4, <2>1, <3>1, MaxIsOne
  <2> QED
    BY <1>3, <2>1 DEF Picks
<1>6. PICK step : step = [p \in G \X S |-> Taken(p[1], p[2])]
  OBVIOUS
<1>7. step \in [G \X S -> G]
  BY <1>2, <1>6
<1>8. PICK f \in [SUBSET S -> G] : IsFold(S, last, b, step, f)
  BY <1>5, <1>7, FoldExists
<1>9. f = [x \in SUBSET S |-> IF x = {} THEN b ELSE Taken(f[x \ {Max(x)}], Max(x))]
  <2>1. ASSUME NEW x \in SUBSET S, x # {}
        PROVE  step[<<f[x \ {last[x]}], last[x]>>] = Taken(f[x \ {Max(x)}], Max(x))
    <3>1. last[x] = Max(x) /\ last[x] \in S /\ f[x \ {last[x]}] \in G
      BY <1>4, <1>5, <2>1 DEF Picks
    <3> QED
      BY <1>6, <3>1
  <2> QED
    BY <1>8, <2>1 DEF IsFold
<1>10. iter = [x \in SUBSET S |-> IF x = {} THEN b ELSE Taken(iter[x \ {Max(x)}], Max(x))]
  BY <1>2, <1>9
<1> HIDE DEF iter
<1>11. PICK P : P = {x \in SUBSET S : iter[x] \in G}
  OBVIOUS
<1>12. {} \in P
  BY <1>10, <1>11
<1>13. ASSUME NEW x \in SUBSET S, x # {}, x \ {last[x]} \in P PROVE x \in P
  <2>1. last[x] = Max(x) /\ last[x] \in S
    BY <1>4, <1>5, <1>13 DEF Picks
  <2>2. iter[x] = Taken(iter[x \ {Max(x)}], Max(x))
    BY <1>10, <1>13
  <2> QED
    BY <1>2, <1>11, <1>13, <2>1, <2>2
<1>14. SUBSET S \subseteq P
  <2>1. Inductive(S, last, P)
    BY <1>12, <1>13 DEF Inductive
  <2> QED
    BY <1>5, <2>1, SubsetInduction
<1> QED
  BY <1>1, <1>2, <1>11, <1>14

-----------------------------------------------------------------------------
(* The rev rules.                                                           *)

LEMMA FramedTransitive ==
    ASSUME NEW d \in Clients, NEW e \in Clients, NEW f \in Clients, Framed(d, e), Framed(e, f)
    PROVE  Framed(d, f)
<1>1. Len(d.ops) \in Nat /\ Len(e.ops) \in Nat /\ Len(f.ops) \in Nat
      /\ DOMAIN d.ops = 1 .. Len(d.ops) /\ DOMAIN e.ops = 1 .. Len(e.ops)
  BY DEF Clients
<1> QED
  BY <1>1 DEF Framed, Gapped

LEMMA LearnsTransitive ==
    ASSUME NEW d \in Clients, NEW e \in Clients, NEW f \in Clients, Learns(d, e), Learns(e, f)
    PROVE  Learns(d, f)
<1>1. \A k \in ScopeKeys : /\ d.base[k] \in Int /\ d.uncovered[k] \in Int
                           /\ e.base[k] \in Int /\ e.uncovered[k] \in Int
                           /\ f.base[k] \in Int /\ f.uncovered[k] \in Int
  BY DEF Clients, Revs, NoRev
<1> QED
  BY <1>1 DEF Learns

(* The topic's record under new fields, and what is known of its events.    *)
Retopic(d, t, base, uncovered) == [d EXCEPT !.t = t, !.base = base, !.uncovered = uncovered]

Tidies(d, t) ==
    /\ t \in Topics /\ t.id = d.t.id /\ t.socket = d.t.socket
    /\ (d.t.gapRev # NoRev => d.t.gapInFlight) => (t.gapRev # NoRev => t.gapInFlight)
    /\ t.gapInFlight => d.net["gap"] # NoCall /\ d.net["gap"].id = d.t.id
    /\ t.rev # NoRev => t.scope \in Scopes
    /\ t.refreshing => t.rev # NoRev
    /\ t.pending # << >> => t.rev = NoRev \/ t.refreshing
    /\ t.behind => d.t.behind

LEMMA RetopicKeeps ==
    ASSUME NEW d, Core(d), Followed(d), NEW t, Tidies(d, t),
           NEW base \in [ScopeKeys -> Revs], NEW uncovered \in [ScopeKeys -> Revs]
    PROVE  LET e == Retopic(d, t, base, uncovered)
           IN /\ Core(e) /\ Followed(e) /\ Framed(d, e)
              /\ e.t = t /\ e.base = base /\ e.uncovered = uncovered /\ e.applied = d.applied /\ e.net = d.net
              /\ e.loop = d.loop /\ e.ops = d.ops
<1>1. d \in Clients /\ d.t \in Topics /\ TopicTidy(d) /\ Laddered(d)
  BY TopicType DEF Core, Base
<1>2. PICK e : e = Retopic(d, t, base, uncovered)
  OBVIOUS
<1>3. /\ e.t = t /\ e.ops = d.ops /\ e.ids = d.ids /\ e.open = d.open /\ e.closed = d.closed
      /\ e.headers = d.headers /\ e.loop = d.loop /\ e.checkTimer = d.checkTimer /\ e.net = d.net
      /\ e.applied = d.applied /\ e.base = base /\ e.uncovered = uncovered
      /\ e \in Clients
  BY <1>1, <1>2 DEF Clients, Retopic, Tidies, Gapped
<1>4. Turned(d, e)
  BY <1>3 DEF Turned, Tidies, Gapped
<1>5. Followed(e) /\ Named(e) /\ Queued(e) /\ Framed(d, e) /\ (LastOwn(e) <=> LastOwn(d))
  BY <1>3, <1>4, TurnedKeeps DEF Core, Base, Named, Slots
<1>6. TopicTidy(e)
  BY <1>1, <1>3 DEF TopicTidy, Tidies, Gapped
<1>7. Laddered(e)
  BY <1>1, <1>3, <1>5 DEF Laddered, OneRung, ShouldPoll, Tidies, Gapped
<1> QED
  BY <1>2, <1>3, <1>5, <1>6, <1>7 DEF Core, Base, Laddered

LEMMA RetopicCovers ==
    ASSUME NEW d, Core(d), Followed(d), NEW t, Tidies(d, t),
           NEW base \in [ScopeKeys -> Revs], NEW uncovered \in [ScopeKeys -> Revs],
           \A k \in ScopeKeys : d.base[k] <= base[k] /\ d.uncovered[k] <= uncovered[k],
           NEW lg \in Logs, Covered(d, lg),
           t.rev # NoRev => Covers(Retopic(d, t, base, uncovered), lg, t.scope, t.rev),
           \A i \in DOMAIN t.pending : ChainedIn(lg, t.pending[i])
    PROVE  LET e == Retopic(d, t, base, uncovered) IN Covered(e, lg) /\ Learns(d, e)
<1>1. PICK e : e = Retopic(d, t, base, uncovered)
  OBVIOUS
<1>2. /\ Core(e) /\ Followed(e) /\ Framed(d, e)
      /\ e.t = t /\ e.base = base /\ e.uncovered = uncovered /\ e.applied = d.applied /\ e.net = d.net
  BY <1>1, RetopicKeeps
<1>3. Learns(d, e)
  BY <1>2 DEF Learns, Tidies, Gapped
<1>4. CallsCovered(e, lg)
  BY <1>2, <1>3, CallsStayCovered DEF Covered
<1>5. TopicCovered(e, lg)
  BY <1>1, <1>2 DEF TopicCovered
<1> QED
  BY <1>1, <1>3, <1>4, <1>5 DEF Covered

(* Once the application has read its state at a rev, all up to it is known. *)
LEMMA ReadCovers ==
    ASSUME NEW d, NEW lg, NEW k, NEW rev \in Int, rev <= Len(lg[k]), d.base[k] \in Int, rev <= d.base[k]
    PROVE  Covers(d, lg, k, rev)
BY DEF Covers, KnownOf

(* The client follows the topic soundly.                                    *)
Sound(d, lg) == Core(d) /\ Followed(d) /\ Covered(d, lg)

LEMMA SoundTypes ==
    ASSUME NEW d, NEW lg, Sound(d, lg)
    PROVE  /\ d \in Clients /\ d.t \in Topics /\ Core(d) /\ Followed(d) /\ TopicTidy(d) /\ Covered(d, lg)
           /\ d.t.rev \in Int /\ d.t.rev >= NoRev
BY TopicType DEF Sound, Core, Base, Topics, Revs, NoRev

LEMMA ReceiveSound ==
    ASSUME NEW d, NEW lg \in Logs, Sound(d, lg), NEW a \in Arrivals, ChainedIn(lg, a)
    PROVE  LET e == Receive(d, a) IN Sound(e, lg) /\ Drifts(d, e)
<1>1. a.prev < a.rev /\ a.rev # NoRev
  BY DEF ChainedIn, NoRev, Arrivals, Revs
<1> QED
  BY <1>1, ReceiveKeeps, ReceiveCovers DEF Sound

Drifted(d, lg) == {e \in Clients : Sound(e, lg) /\ Drifts(d, e)}

LEMMA ReceiveStays ==
    ASSUME NEW d, NEW lg \in Logs, Sound(d, lg)
    PROVE  /\ d \in Drifted(d, lg)
           /\ \A e \in Drifted(d, lg), a \in Arrivals : ChainedIn(lg, a) => Receive(e, a) \in Drifted(d, lg)
<1>1. d \in Drifted(d, lg)
  BY SoundTypes, DriftsReflexive DEF Drifted
<1>2. ASSUME NEW e \in Drifted(d, lg), NEW a \in Arrivals, ChainedIn(lg, a) PROVE Receive(e, a) \in Drifted(d, lg)
  <2>1. PICK f : f = Receive(e, a)
    OBVIOUS
  <2>2. Sound(f, lg) /\ Drifts(e, f) /\ Drifts(d, e) /\ Sound(e, lg)
    BY <1>2, <2>1, ReceiveSound DEF Drifted
  <2>3. Drifts(d, f)
    BY <2>2, SoundTypes, DriftsTransitive
  <2> QED
    BY <2>1, <2>2, <2>3, SoundTypes DEF Drifted
<1> QED
  BY <1>1, <1>2

LEMMA ReceiveByRevSound ==
    ASSUME NEW d, NEW lg \in Logs, Sound(d, lg), NEW S \in SUBSET Arrivals, IsFiniteSet(S),
           \A a \in S : ChainedIn(lg, a)
    PROVE  LET e == ReceiveByRev(d, S) IN Sound(e, lg) /\ Drifts(d, e)
<1>1. Revved(S)
  BY DEF Revved, Arrivals, Revs, NoRev
<1>2. PICK G : G = Drifted(d, lg)
  OBVIOUS
<1>3. d \in G /\ \A e \in G, a \in S : Receive(e, a) \in G
  BY <1>2, ReceiveStays
<1>4. ReceiveByRev(d, S) \in G
  BY <1>1, <1>3, ReceiveByRevKeeps
<1> QED
  BY <1>2, <1>4 DEF Drifted

LEMMA ReceiveAllSound ==
    ASSUME NEW d, NEW lg \in Logs, Sound(d, lg), NEW s \in Seq(Arrivals), NEW scopes,
           \A i \in DOMAIN s : ChainedIn(lg, s[i])
    PROVE  LET e == ReceiveAll(d, s, scopes) IN Sound(e, lg) /\ Drifts(d, e)
<1>1. PICK G : G = Drifted(d, lg)
  OBVIOUS
<1>2. d \in G /\ \A e \in G, i \in DOMAIN s : Receive(e, s[i]) \in G
  <2>1. \A i \in DOMAIN s : s[i] \in Arrivals
    OBVIOUS
  <2> QED
    BY <1>1, <2>1, ReceiveStays
<1>3. ReceiveAll(d, s, scopes) \in G
  BY <1>2, ReceiveAllKeeps
<1> QED
  BY <1>1, <1>3 DEF Drifted

BaseRead(base, k, rev) == [base EXCEPT ![k] = IF rev > @ THEN rev ELSE @]

LEMMA ReadIsRetopic ==
    ASSUME NEW d, d \in Clients, NEW t, NEW k, NEW rev
    PROVE  Read([d EXCEPT !.t = t], k, rev) = Retopic(d, t, BaseRead(d.base, k, rev), d.uncovered)
<1>1. PICK q : q = [d EXCEPT !.t = t]
  OBVIOUS
<1>2. q.base = d.base /\ q.uncovered = d.uncovered
  BY <1>1 DEF Clients
<1>3. PICK base : base = BaseRead(d.base, k, rev)
  OBVIOUS
<1>4. Read(q, k, rev) = [q EXCEPT !.base = base]
  BY <1>2, <1>3 DEF Read, BaseRead
<1>5. [q EXCEPT !.base = base] = [d EXCEPT !.t = t, !.base = base, !.uncovered = d.uncovered]
  BY <1>1 DEF Clients
<1> QED
  BY <1>1, <1>3, <1>4, <1>5 DEF Retopic

LEMMA ReadSound ==
    ASSUME NEW d, NEW lg \in Logs, Sound(d, lg), NEW t, Tidies(d, t), t.pending = << >>,
           0 <= t.rev, t.rev <= Len(lg[t.scope])
    PROVE  LET e == Read([d EXCEPT !.t = t], t.scope, t.rev)
           IN /\ Sound(e, lg) /\ Framed(d, e) /\ Learns(d, e)
              /\ e.t = t /\ e.net = d.net /\ e.loop = d.loop /\ e.ops = d.ops
<1>1. d \in Clients /\ Core(d) /\ Followed(d) /\ Covered(d, lg) /\ t \in Topics /\ t.rev \in Revs /\ t.rev \in Int
  BY SoundTypes DEF Tidies, Gapped, Topics, Revs, NoRev
<1>2. t.scope \in Scopes /\ t.scope \in ScopeKeys
  BY <1>1 DEF Tidies, Gapped, NoRev, Topics
<1>3. PICK base : base = BaseRead(d.base, t.scope, t.rev)
  OBVIOUS
<1>4. /\ base \in [ScopeKeys -> Revs] /\ t.rev <= base[t.scope]
      /\ \A k \in ScopeKeys : d.base[k] <= base[k]
  BY <1>1, <1>2, <1>3 DEF BaseRead, Clients, Revs, NoRev
<1>5. d.uncovered \in [ScopeKeys -> Revs] /\ \A k \in ScopeKeys : d.uncovered[k] <= d.uncovered[k]
  BY <1>1 DEF Clients, Revs, NoRev
<1>6. PICK e : e = Retopic(d, t, base, d.uncovered)
  OBVIOUS
<1>7. /\ Core(e) /\ Followed(e) /\ Framed(d, e) /\ e.t = t /\ e.base = base /\ e.net = d.net
      /\ e.loop = d.loop /\ e.ops = d.ops
  BY <1>1, <1>4, <1>5, <1>6, RetopicKeeps
<1>8. Covers(e, lg, t.scope, t.rev)
  <2>1. e.base[t.scope] \in Int /\ t.rev <= e.base[t.scope]
    BY <1>2, <1>4, <1>7 DEF Revs, NoRev
  <2> QED
    BY <1>1, <2>1, ReadCovers
<1>9. Covered(e, lg) /\ Learns(d, e)
  BY <1>1, <1>4, <1>5, <1>6, <1>8, RetopicCovers
<1>10. e = Read([d EXCEPT !.t = t], t.scope, t.rev)
  BY <1>1, <1>3, <1>6, ReadIsRetopic
<1> QED
  BY <1>7, <1>9, <1>10 DEF Sound

(* A change of flags that no event depends on.                              *)
LEMMA FlagsSound ==
    ASSUME NEW d, NEW lg \in Logs, Sound(d, lg), NEW t, Tidies(d, t),
           t.rev = d.t.rev, t.scope = d.t.scope, t.pending = d.t.pending \/ t.pending = << >>
    PROVE  LET e == [d EXCEPT !.t = t]
           IN /\ Sound(e, lg) /\ Drifts(d, e)
              /\ e.t = t /\ e.net = d.net /\ e.loop = d.loop /\ e.ops = d.ops /\ e.applied = d.applied
<1>1. d \in Clients /\ d.t \in Topics /\ Core(d) /\ Followed(d) /\ TopicTidy(d) /\ Covered(d, lg) /\ d.t.rev \in Int
  BY SoundTypes
<1>2. /\ d.base \in [ScopeKeys -> Revs] /\ d.uncovered \in [ScopeKeys -> Revs]
      /\ \A k \in ScopeKeys : d.base[k] <= d.base[k] /\ d.uncovered[k] <= d.uncovered[k]
  BY <1>1 DEF Clients, Revs, NoRev
<1>3. PICK e : e = Retopic(d, t, d.base, d.uncovered)
  OBVIOUS
<1>4. /\ Core(e) /\ Followed(e) /\ Framed(d, e) /\ e.t = t /\ e.base = d.base /\ e.uncovered = d.uncovered
      /\ e.applied = d.applied /\ e.net = d.net /\ e.loop = d.loop /\ e.ops = d.ops
  BY <1>1, <1>2, <1>3, RetopicKeeps
<1>5. t.rev # NoRev => Covers(e, lg, t.scope, t.rev)
  BY <1>1, <1>4 DEF Covered, TopicCovered, Covers, KnownOf
<1>6. \A i \in DOMAIN t.pending : ChainedIn(lg, t.pending[i])
  BY <1>1 DEF Covered, TopicCovered
<1>7. Covered(e, lg)
  BY <1>1, <1>2, <1>3, <1>5, <1>6, RetopicCovers
<1>8. e = [d EXCEPT !.t = t]
  BY <1>1, <1>3 DEF Retopic, Clients
<1>9. Drifts(d, e)
  BY <1>1, <1>4 DEF Drifts
<1> QED
  BY <1>4, <1>7, <1>8, <1>9 DEF Sound

LEMMA RefreshStateSound ==
    ASSUME NEW d, NEW lg \in Logs, Sound(d, lg)
    PROVE  LET e == RefreshState(d) IN Sound(e, lg) /\ Drifts(d, e)
BY RefreshStateKeeps, RefreshStateCovers DEF Sound

LEMMA DriftsChain ==
    ASSUME NEW d, NEW e, NEW f, NEW lg, Sound(d, lg), Sound(e, lg), Sound(f, lg), Drifts(d, e), Drifts(e, f)
    PROVE  Drifts(d, f)
BY SoundTypes, DriftsTransitive

(* What an answer that names a rev leaves: it is followed up to that rev.   *)
Reached(d, e, scope, rev) ==
    Framed(d, e) /\ Learns(d, e) /\ e.t.scope = scope /\ e.t.rev >= rev

LEMMA ReachedDrifts ==
    ASSUME NEW d, NEW e, NEW f, NEW lg, Sound(d, lg), Sound(e, lg), Sound(f, lg), NEW scope, NEW rev \in Int,
           Reached(d, e, scope, rev), Drifts(e, f)
    PROVE  Reached(d, f, scope, rev)
<1>1. d \in Clients /\ e \in Clients /\ f \in Clients /\ e.t.rev \in Int /\ f.t.rev \in Int
  BY SoundTypes
<1>2. Framed(d, f) /\ Learns(d, f)
  BY <1>1, FramedTransitive, LearnsTransitive, DriftsLearn DEF Reached, Drifts
<1> QED
  BY <1>1, <1>2 DEF Reached, Drifts

LEMMA FollowSound ==
    ASSUME NEW d, NEW lg \in Logs, Sound(d, lg), NEW rev \in Revs, NEW scope \in Scopes,
           0 <= rev, rev <= Len(lg[scope])
    PROVE  LET e == Follow(d, rev, scope) IN Sound(e, lg) /\ Reached(d, e, scope, rev)
<1>1. d \in Clients /\ d.t \in Topics /\ Core(d) /\ Followed(d) /\ TopicTidy(d) /\ Covered(d, lg)
  BY SoundTypes
<1>2. PICK t : t = [d.t EXCEPT !.rev = rev, !.scope = scope, !.refreshing = FALSE, !.pending = << >>]
  OBVIOUS
<1>3. /\ Tidies(d, t) /\ t.pending = << >> /\ t.rev = rev /\ t.scope = scope /\ rev \in Int /\ rev # NoRev
  <2>1. << >> \in Seq(Arrivals)
    OBVIOUS
  <2>2. t \in Topics
    BY <1>1, <1>2, <2>1, EventSyncAssumption DEF Topics, Scopes, ScopeKeys
  <2>3. /\ t.id = d.t.id /\ t.socket = d.t.socket /\ t.gapRev = d.t.gapRev /\ t.gapInFlight = d.t.gapInFlight
        /\ t.behind = d.t.behind /\ t.pending = << >> /\ t.rev = rev /\ t.scope = scope /\ t.refreshing = FALSE
    BY <1>1, <1>2 DEF Topics
  <2> QED
    BY <1>1, <2>2, <2>3 DEF Tidies, Gapped, TopicTidy, Revs, NoRev
<1>4. PICK q : q = Read([d EXCEPT !.t = t], scope, rev)
  OBVIOUS
<1>5. Sound(q, lg) /\ Framed(d, q) /\ Learns(d, q) /\ q.t = t
  BY <1>3, <1>4, ReadSound
<1>6. Reached(d, q, scope, rev)
  BY <1>3, <1>5 DEF Reached
<1>7. PICK r : r = ReceiveAll(q, d.t.pending, {scope})
  OBVIOUS
<1>8. Sound(r, lg) /\ Drifts(q, r)
  <2>1. d.t.pending \in Seq(Arrivals) /\ \A i \in DOMAIN d.t.pending : ChainedIn(lg, d.t.pending[i])
    BY <1>1 DEF Topics, Covered, TopicCovered
  <2> QED
    BY <1>5, <1>7, <2>1, ReceiveAllSound
<1>9. PICK s : s = [r EXCEPT !.t = [r.t EXCEPT !.refreshOnAnswer = FALSE]]
  OBVIOUS
<1>10. Sound(s, lg) /\ Drifts(r, s)
  <2>1. r.t \in Topics /\ TopicTidy(r) /\ Followed(r)
    BY <1>8, SoundTypes
  <2>2. PICK u : u = [r.t EXCEPT !.refreshOnAnswer = FALSE]
    OBVIOUS
  <2>3. Tidies(r, u) /\ u.rev = r.t.rev /\ u.scope = r.t.scope /\ u.pending = r.t.pending
    BY <2>1, <2>2 DEF Topics, Tidies, Gapped, TopicTidy
  <2> QED
    BY <1>8, <1>9, <2>2, <2>3, FlagsSound
<1>11. Drifts(q, s)
  BY <1>5, <1>8, <1>10, DriftsChain
<1>12. PICK e : e = Follow(d, rev, scope)
  OBVIOUS
<1>13. e = RefreshState(s) \/ e = s
  BY <1>2, <1>4, <1>7, <1>9, <1>12 DEF Follow
<1>14. Sound(e, lg) /\ Drifts(q, e)
  <2>1. CASE e = s
    BY <1>10, <1>11, <2>1
  <2>2. CASE e = RefreshState(s)
    <3>1. Sound(e, lg) /\ Drifts(s, e)
      BY <1>10, <2>2, RefreshStateSound
    <3> QED
      BY <1>5, <1>10, <1>11, <3>1, DriftsChain
  <2> QED
    BY <1>13, <2>1, <2>2
<1> QED
  BY <1>3, <1>5, <1>6, <1>12, <1>14, ReachedDrifts

LEMMA ResyncSound ==
    ASSUME NEW d, NEW lg \in Logs, Sound(d, lg), NEW rev \in Revs, d.t.scope \in Scopes,
           0 <= rev, rev <= Len(lg[d.t.scope])
    PROVE  LET e == Resync(d, rev) IN Sound(e, lg) /\ Reached(d, e, d.t.scope, rev) /\ e.t.rev = rev
<1>1. d \in Clients /\ d.t \in Topics /\ Core(d) /\ Followed(d) /\ TopicTidy(d) /\ Covered(d, lg)
  BY SoundTypes
<1>2. PICK t : t = [d.t EXCEPT !.rev = rev, !.pending = << >>]
  OBVIOUS
<1>3. Tidies(d, t) /\ t.pending = << >> /\ t.rev = rev /\ t.scope = d.t.scope /\ rev \in Int
  <2>1. << >> \in Seq(Arrivals)
    OBVIOUS
  <2>2. t \in Topics
    BY <1>1, <1>2, <2>1 DEF Topics
  <2>3. /\ t.id = d.t.id /\ t.socket = d.t.socket /\ t.gapRev = d.t.gapRev /\ t.gapInFlight = d.t.gapInFlight
        /\ t.behind = d.t.behind /\ t.pending = << >> /\ t.rev = rev /\ t.scope = d.t.scope /\ t.refreshing = d.t.refreshing
    BY <1>1, <1>2 DEF Topics
  <2> QED
    BY <1>1, <2>2, <2>3 DEF Tidies, Gapped, TopicTidy, Revs, NoRev
<1>4. PICK e : e = Read([d EXCEPT !.t = t], d.t.scope, rev)
  OBVIOUS
<1>5. Sound(e, lg) /\ Framed(d, e) /\ Learns(d, e) /\ e.t = t
  BY <1>3, <1>4, ReadSound
<1>6. e = Resync(d, rev)
  BY <1>2, <1>4 DEF Resync
<1> QED
  BY <1>3, <1>5, <1>6 DEF Reached

LEMMA EndRefreshSound ==
    ASSUME NEW d, NEW lg \in Logs, Sound(d, lg)
    PROVE  LET e == EndRefresh(d) IN Sound(e, lg) /\ Drifts(d, e)
<1>1. d \in Clients /\ d.t \in Topics /\ Core(d) /\ Followed(d) /\ TopicTidy(d) /\ Covered(d, lg)
  BY SoundTypes
<1>2. CASE ~d.t.refreshing
  BY <1>1, <1>2, DriftsReflexive DEF EndRefresh
<1>3. CASE d.t.refreshing
  <2>1. PICK t : t = [d.t EXCEPT !.refreshing = FALSE, !.pending = << >>]
    OBVIOUS
  <2>2. Tidies(d, t) /\ t.rev = d.t.rev /\ t.scope = d.t.scope /\ t.pending = << >>
    <3>1. << >> \in Seq(Arrivals)
      OBVIOUS
    <3>2. t \in Topics
      BY <1>1, <2>1, <3>1 DEF Topics
    <3>3. /\ t.id = d.t.id /\ t.socket = d.t.socket /\ t.gapRev = d.t.gapRev /\ t.gapInFlight = d.t.gapInFlight
          /\ t.behind = d.t.behind /\ t.pending = << >> /\ t.rev = d.t.rev /\ t.scope = d.t.scope /\ t.refreshing = FALSE
      BY <1>1, <2>1 DEF Topics
    <3> QED
      BY <1>1, <3>2, <3>3 DEF Tidies, Gapped, TopicTidy
  <2>3. PICK q : q = [d EXCEPT !.t = t]
    OBVIOUS
  <2>4. Sound(q, lg) /\ Drifts(d, q)
    BY <2>2, <2>3, FlagsSound
  <2>5. PICK e : e = ReceiveAll(q, d.t.pending, Keys \cup {NoKey})
    OBVIOUS
  <2>6. Sound(e, lg) /\ Drifts(q, e)
    <3>1. d.t.pending \in Seq(Arrivals) /\ \A i \in DOMAIN d.t.pending : ChainedIn(lg, d.t.pending[i])
      BY <1>1 DEF Topics, Covered, TopicCovered
    <3> QED
      BY <2>4, <2>5, <3>1, ReceiveAllSound
  <2>7. e = EndRefresh(d)
    BY <1>3, <2>1, <2>3, <2>5 DEF EndRefresh
  <2> QED
    BY <2>4, <2>6, <2>7, DriftsChain
<1> QED
  BY <1>2, <1>3

LEMMA SequenceIsFinite ==
    ASSUME NEW T, NEW s \in Seq(T)
    PROVE  IsFiniteSet(ToSet(s)) /\ ToSet(s) \subseteq T /\ \A a \in ToSet(s) : \E i \in DOMAIN s : a = s[i]
<1>1. PICK D : D = DOMAIN s
  OBVIOUS
<1>2. D = 1 .. Len(s) /\ Len(s) \in Int /\ 1 \in Int
  BY <1>1
<1>3. IsFiniteSet(D)
  BY <1>2, FS_Interval
<1>4. PICK f : f = [i \in D |-> s[i]]
  OBVIOUS
<1>5. f \in Surjection(D, ToSet(s))
  BY <1>1, <1>4 DEF Surjection, ToSet
<1>6. IsFiniteSet(ToSet(s))
  BY <1>3, <1>5, FS_Surjection
<1> QED
  BY <1>6 DEF ToSet

LEMMA SendSubscribeSound ==
    ASSUME NEW d, NEW lg \in Logs, Sound(d, lg)
    PROVE  LET e == SendSubscribe(d)
           IN Sound(e, lg) /\ Drifts(d, e) /\ e.t = [d.t EXCEPT !.socket = "subscribing"] /\ LastOwn(e)
<1>1. d \in Clients /\ d.t \in Topics /\ Core(d) /\ Followed(d) /\ TopicTidy(d) /\ Covered(d, lg) /\ d.t.rev \in Int
  BY SoundTypes
<1>2. PICK e : e = SendSubscribe(d)
  OBVIOUS
<1>3. /\ Core(e) /\ Followed(e) /\ Drifts(d, e) /\ LastOwn(e)
      /\ e.t = [d.t EXCEPT !.socket = "subscribing"] /\ \A s \in Slots \ {"op"} : e.net[s] = d.net[s]
  BY <1>1, <1>2, SendSubscribeKeeps DEF Core
<1>4. e.t.rev = d.t.rev /\ e.t.scope = d.t.scope /\ e.t.pending = d.t.pending
  BY <1>1, <1>3 DEF Topics
<1>5. Learns(d, e)
  BY <1>1, <1>3, DriftsLearn DEF Core, Base
<1>6. CallsCovered(e, lg)
  <2>1. \A s \in Polls : e.net[s] = d.net[s]
    BY <1>3 DEF Slots, Polls
  <2> QED
    BY <1>1, <1>3, <1>5, <2>1, CallsStayCovered DEF Covered, Drifts, Framed, Gapped
<1>7. TopicCovered(e, lg)
  <2>1. d.t.rev # NoRev => d.t.scope \in Scopes
    BY <1>1 DEF TopicTidy
  <2> QED
    BY <1>1, <1>3, <1>4, <1>5, <2>1, KnowledgeGrows DEF Core, Base, Covered, TopicCovered
<1> QED
  BY <1>2, <1>3, <1>6, <1>7 DEF Sound, Covered

LEMMA ScopeChangeSound ==
    ASSUME NEW d, NEW lg \in Logs, Sound(d, lg), NEW rev \in Revs, NEW scope \in Scopes,
           0 <= rev, rev <= Len(lg[scope]), NEW viaPoll \in BOOLEAN
    PROVE  LET e == ScopeChange(d, scope, rev, viaPoll)
           IN Sound(e, lg) /\ Reached(d, e, scope, rev) /\ (viaPoll => e.t.socket # "subscribed")
<1>1. d \in Clients /\ d.t \in Topics /\ Core(d) /\ Followed(d) /\ TopicTidy(d) /\ Covered(d, lg)
  BY SoundTypes
<1>2. PICK t : t = [d.t EXCEPT !.scope = scope, !.refreshing = FALSE, !.rev = rev, !.pending = << >>]
  OBVIOUS
<1>3. Tidies(d, t) /\ t.pending = << >> /\ t.rev = rev /\ t.scope = scope /\ rev \in Int
  <2>1. << >> \in Seq(Arrivals)
    OBVIOUS
  <2>2. t \in Topics
    BY <1>1, <1>2, <2>1, EventSyncAssumption DEF Topics, Scopes, ScopeKeys
  <2>3. /\ t.id = d.t.id /\ t.socket = d.t.socket /\ t.gapRev = d.t.gapRev /\ t.gapInFlight = d.t.gapInFlight
        /\ t.behind = d.t.behind /\ t.pending = << >> /\ t.rev = rev /\ t.scope = scope /\ t.refreshing = FALSE
    BY <1>1, <1>2 DEF Topics
  <2> QED
    BY <1>1, <2>2, <2>3 DEF Tidies, Gapped, TopicTidy, Revs, NoRev
<1>4. PICK moved : moved = Read([d EXCEPT !.t = t], scope, rev)
  OBVIOUS
<1>5. Sound(moved, lg) /\ Reached(d, moved, scope, rev)
  BY <1>3, <1>4, ReadSound DEF Reached
<1>6. moved = Resync([d EXCEPT !.t.scope = scope, !.t.refreshing = FALSE], rev)
  <2>1. PICK u : u = [d.t EXCEPT !.scope = scope, !.refreshing = FALSE]
    OBVIOUS
  <2>2. t = [u EXCEPT !.rev = rev, !.pending = << >>] /\ u.scope = scope
    BY <1>1, <1>2, <2>1 DEF Topics
  <2>3. PICK q : q = [d EXCEPT !.t = u]
    OBVIOUS
  <2>4. q.t = u
    BY <1>1, <2>3 DEF Clients
  <2>5. q = [d EXCEPT !.t.scope = scope, !.t.refreshing = FALSE]
    BY <1>1, <2>1, <2>3 DEF Clients
  <2>6. [q EXCEPT !.t.rev = rev, !.t.pending = << >>] = [d EXCEPT !.t = t]
    BY <1>1, <2>2, <2>3, <2>4 DEF Clients
  <2>7. Resync(q, rev) = Read([d EXCEPT !.t = t], scope, rev)
    BY <2>2, <2>4, <2>6 DEF Resync
  <2> QED
    BY <1>4, <2>5, <2>7
<1>7. PICK held : held = {a \in ToSet(d.t.pending) : a.scope = scope /\ a.rev > rev}
  OBVIOUS
<1>8. held \in SUBSET Arrivals /\ IsFiniteSet(held) /\ \A a \in held : ChainedIn(lg, a)
  <2>1. d.t.pending \in Seq(Arrivals) /\ \A i \in DOMAIN d.t.pending : ChainedIn(lg, d.t.pending[i])
    BY <1>1 DEF Topics, Covered, TopicCovered
  <2>2. /\ IsFiniteSet(ToSet(d.t.pending)) /\ ToSet(d.t.pending) \subseteq Arrivals
        /\ \A a \in ToSet(d.t.pending) : \E i \in DOMAIN d.t.pending : a = d.t.pending[i]
    BY <2>1, SequenceIsFinite
  <2>3. held \in SUBSET ToSet(d.t.pending)
    BY <1>7
  <2> QED
    BY <2>1, <2>2, <2>3, FS_Subset
<1>9. PICK f : f = ReceiveByRev(moved, held)
  OBVIOUS
<1>10. Sound(f, lg) /\ Drifts(moved, f)
  BY <1>5, <1>8, <1>9, ReceiveByRevSound
<1>11. Reached(d, f, scope, rev)
  BY <1>3, <1>5, <1>10, ReachedDrifts
<1>12. PICK e : e = ScopeChange(d, scope, rev, viaPoll)
  OBVIOUS
<1>13. e = FollowKey(f, viaPoll)
  BY <1>6, <1>7, <1>9, <1>12 DEF ScopeChange
<1>14. CASE viaPoll /\ f.t.socket = "subscribed"
  <2>1. Sound(e, lg) /\ Drifts(f, e) /\ e.t = [f.t EXCEPT !.socket = "subscribing"]
    BY <1>10, <1>13, <1>14, SendSubscribeSound DEF FollowKey
  <2>2. Reached(d, e, scope, rev)
    BY <1>3, <1>10, <1>11, <2>1, ReachedDrifts
  <2>3. e.t.socket = "subscribing"
    BY <1>10, <2>1, SoundTypes DEF Topics
  <2> QED
    BY <1>12, <2>1, <2>2, <2>3
<1>15. CASE ~(viaPoll /\ f.t.socket = "subscribed")
  BY <1>10, <1>11, <1>12, <1>13, <1>15 DEF FollowKey
<1> QED
  BY <1>14, <1>15

-----------------------------------------------------------------------------
(* The events of an answer.                                                 *)

Walkers(d, lg) == {w \in [c : Clients, gap : BOOLEAN] : Sound(w.c, lg) /\ Drifts(d, w.c) /\ w.c.t.rev # NoRev}

AnswerEvents(lg, k, S) ==
    /\ S \in SUBSET Arrivals /\ IsFiniteSet(S)
    /\ \A a \in S : a.scope = k /\ ChainedIn(lg, a)

LEMMA WalkEventSound ==
    ASSUME NEW d, NEW lg \in Logs, Sound(d, lg), NEW w \in Walkers(d, lg),
           NEW e \in Arrivals, e.scope = d.t.scope, ChainedIn(lg, e)
    PROVE  LET v == WalkEvent(w, e)
           IN /\ v \in Walkers(d, lg) /\ v.c.t.rev >= w.c.t.rev
              /\ w.gap => v = w
              /\ ~w.gap => IF v.gap THEN v.c = w.c /\ e.rev > v.c.t.rev ELSE e.rev <= v.c.t.rev
<1>1. /\ w.c \in Clients /\ w.c.t \in Topics /\ Core(w.c) /\ Followed(w.c) /\ Covered(w.c, lg) /\ Sound(w.c, lg)
      /\ Drifts(d, w.c) /\ w.c.t.rev \in Int /\ w.c.t.rev # NoRev /\ w.c.t.scope = d.t.scope /\ w.gap \in BOOLEAN
      /\ w.c.t.rev \in Revs
  BY SoundTypes DEF Walkers, Drifts, Topics
<1>2. PICK v : v = WalkEvent(w, e)
  OBVIOUS
<1>3. PICK held : held = w.c.t.rev
  OBVIOUS
<1>4. PICK a : a = Chained(e, held)
  OBVIOUS
<1>5. /\ a \in Arrivals /\ a.rev = e.rev /\ a.scope = e.scope
      /\ a.prev = e.prev \/ (a.prev = held /\ e.prev < held /\ e.rev > held)
  BY <1>1, <1>3, <1>4 DEF Chained, Arrivals
<1>6. e.prev \in Int /\ e.rev \in Int /\ held \in Int
  BY <1>1, <1>3 DEF Arrivals, Revs, NoRev
<1>7. CASE w.gap
  <2>1. v = w
    BY <1>2, <1>7 DEF WalkEvent
  <2> QED
    BY <1>1, <1>2, <1>7, <2>1
<1>8. CASE ~w.gap /\ a.prev = held
  <2>1. v = [w EXCEPT !.c = Apply(w.c, a)]
    BY <1>2, <1>3, <1>4, <1>8 DEF WalkEvent
  <2>2. PICK f : f = Apply(w.c, a)
    OBVIOUS
  <2>3. /\ held < a.rev /\ a.rev <= Len(lg[w.c.t.scope])
        /\ \A r \in held + 1 .. a.rev - 1 : ~lg[w.c.t.scope][r]
    BY <1>1, <1>5, <1>6, <1>8 DEF ChainedIn
  <2>4. a.rev # NoRev
    BY <1>5, <1>6 DEF ChainedIn, NoRev
  <2>5. Core(f) /\ Followed(f) /\ Drifts(w.c, f) /\ f.t.rev = a.rev
    BY <1>1, <1>3, <1>5, <1>6, <2>2, <2>3, <2>4, ApplyKeeps
  <2>6. Covered(f, lg)
    BY <1>1, <1>3, <1>5, <1>8, <2>2, <2>3, ApplyCovers
  <2>7. Sound(f, lg)
    BY <2>5, <2>6 DEF Sound
  <2>8. Drifts(d, f)
    BY <1>1, <2>5, <2>7, DriftsChain
  <2>9. v.c = f /\ v.gap = w.gap /\ v \in Walkers(d, lg)
    BY <1>1, <2>1, <2>2, <2>4, <2>5, <2>7, <2>8, SoundTypes DEF Walkers
  <2> QED
    BY <1>2, <1>3, <1>5, <1>6, <1>8, <2>3, <2>5, <2>9
<1>9. CASE ~w.gap /\ a.prev # held
  <2>1. CASE a.rev > held
    <3>1. v = [w EXCEPT !.gap = TRUE]
      BY <1>2, <1>3, <1>4, <1>9, <2>1 DEF WalkEvent
    <3>2. v.c = w.c /\ v.gap = TRUE /\ v \in Walkers(d, lg)
      BY <3>1 DEF Walkers
    <3> QED
      BY <1>1, <1>2, <1>3, <1>5, <1>6, <1>9, <2>1, <3>2
  <2>2. CASE ~(a.rev > held)
    <3>1. v = w
      BY <1>2, <1>3, <1>4, <1>9, <2>2 DEF WalkEvent
    <3> QED
      BY <1>1, <1>2, <1>3, <1>5, <1>6, <1>9, <2>2, <3>1
  <2> QED
    BY <2>1, <2>2
<1> QED
  BY <1>7, <1>8, <1>9, <1>3

(* Without a gap the client holds all of the events; with one, an event is  *)
(* beyond what it holds.                                                    *)
Walked(x, w) ==
    IF w.gap THEN \E e \in x : e.rev > w.c.t.rev ELSE \A e \in x : e.rev <= w.c.t.rev

LEMMA WalkSound ==
    ASSUME NEW d, NEW lg \in Logs, Sound(d, lg), d.t.rev # NoRev,
           NEW S, AnswerEvents(lg, d.t.scope, S)
    PROVE  LET w == Walk(d, S) IN w \in Walkers(d, lg) /\ Walked(S, w)
<1> DEFINE b == [c |-> d, gap |-> FALSE]
           iter[x \in SUBSET S] == IF x = {} THEN b ELSE LET m == Latest(x) IN WalkEvent(iter[x \ {m}], m)
<1>1. Walk(d, S) = iter[S]
  BY DEF Walk, MapThenFoldSet
<1>2. PICK last : last = [x \in SUBSET S |-> Latest(x)]
  OBVIOUS
<1>3. Picks(S, last) /\ \A x \in SUBSET S : x # {} => \A a \in x : a.rev <= last[x].rev
  <2>1. ASSUME NEW x \in SUBSET S, x # {} PROVE last[x] \in x /\ \A a \in x : a.rev <= last[x].rev
    <3>1. Revved(x)
      BY FS_Subset DEF Revved, AnswerEvents, Arrivals, Revs, NoRev
    <3> QED
      BY <1>2, <2>1, <3>1, LatestIsOne
  <2> QED
    BY <2>1 DEF Picks, AnswerEvents
<1>4. PICK G : G = Walkers(d, lg)
  OBVIOUS
<1>5. b \in G /\ b.c = d /\ b.gap = FALSE
  BY <1>4, SoundTypes, DriftsReflexive DEF Walkers
<1>6. PICK step : step = [p \in G \X S |-> WalkEvent(p[1], p[2])]
  OBVIOUS
<1>7. \A w \in G, e \in S : WalkEvent(w, e) \in G
  BY <1>4, WalkEventSound DEF AnswerEvents
<1>8. step \in [G \X S -> G]
  BY <1>6, <1>7
<1>9. PICK f \in [SUBSET S -> G] : IsFold(S, last, b, step, f)
  <2> HIDE DEF b
  <2> QED
    BY <1>3, <1>5, <1>8, FoldExists
<1>10. f = [x \in SUBSET S |-> IF x = {} THEN b ELSE WalkEvent(f[x \ {Latest(x)}], Latest(x))]
  <2>1. ASSUME NEW x \in SUBSET S, x # {}
        PROVE  step[<<f[x \ {last[x]}], last[x]>>] = WalkEvent(f[x \ {Latest(x)}], Latest(x))
    <3>1. last[x] = Latest(x) /\ last[x] \in S /\ f[x \ {last[x]}] \in G
      BY <1>2, <1>3, <2>1 DEF Picks
    <3> QED
      BY <1>6, <3>1
  <2> QED
    BY <1>9, <2>1 DEF IsFold
<1>11. iter = [x \in SUBSET S |-> IF x = {} THEN b ELSE WalkEvent(iter[x \ {Latest(x)}], Latest(x))]
  BY <1>10
<1> HIDE DEF iter
<1>12. PICK P : P = {x \in SUBSET S : iter[x] \in G /\ Walked(x, iter[x])}
  OBVIOUS
<1>13. {} \in P
  <2>1. iter[{}] = b /\ Walked({}, b)
    BY <1>11 DEF Walked
  <2> QED
    BY <1>5, <1>12, <2>1
<1>14. ASSUME NEW x \in SUBSET S, x # {}, x \ {last[x]} \in P PROVE x \in P
  <2>1. PICK m \in x : m = Latest(x) /\ last[x] = m /\ m \in S /\ m \in Arrivals /\ m.scope = d.t.scope /\ ChainedIn(lg, m)
    BY <1>2, <1>3, <1>14 DEF Picks, AnswerEvents
  <2>2. \A a \in x : a.rev <= m.rev /\ a.rev \in Int
    BY <1>3, <1>14, <2>1 DEF AnswerEvents, Arrivals, Revs, NoRev
  <2>3. PICK w : w = iter[x \ {m}]
    OBVIOUS
  <2>4. w \in Walkers(d, lg) /\ Walked(x \ {m}, w)
    BY <1>4, <1>12, <1>14, <2>1, <2>3
  <2>5. PICK v : v = WalkEvent(w, m)
    OBVIOUS
  <2>6. iter[x] = v
    BY <1>11, <1>14, <2>1, <2>3, <2>5
  <2>7. /\ v \in Walkers(d, lg) /\ v.c.t.rev >= w.c.t.rev
        /\ w.gap => v = w
        /\ ~w.gap => IF v.gap THEN v.c = w.c /\ m.rev > v.c.t.rev ELSE m.rev <= v.c.t.rev
    BY <2>1, <2>4, <2>5, WalkEventSound
  <2>8. v.c.t.rev \in Int /\ w.c.t.rev \in Int
    BY <2>4, <2>7, SoundTypes DEF Walkers
  <2>9. Walked(x, v)
    BY <2>2, <2>4, <2>7, <2>8 DEF Walked
  <2> QED
    BY <1>4, <1>12, <2>6, <2>7, <2>9
<1>15. SUBSET S \subseteq P
  <2>1. Inductive(S, last, P)
    BY <1>13, <1>14 DEF Inductive
  <2> QED
    BY <1>3, <2>1, SubsetInduction
<1> QED
  BY <1>1, <1>4, <1>12, <1>15

LEMMA CoverSound ==
    ASSUME NEW d, NEW lg \in Logs, Sound(d, lg), d.t.rev # NoRev, NEW rev \in Revs,
           0 <= rev, rev <= Len(lg[d.t.scope]), NEW cursor \in Revs,
           cursor # NoRev => Covers(d, lg, d.t.scope, rev)
    PROVE  LET e == Cover(d, cursor, rev)
           IN Sound(e, lg) /\ Reached(d, e, d.t.scope, d.t.rev)
<1>1. d \in Clients /\ d.t \in Topics /\ Core(d) /\ Followed(d) /\ TopicTidy(d) /\ Covered(d, lg) /\ d.t.rev \in Int
      /\ d.t.scope \in Scopes /\ d.t.scope \in ScopeKeys /\ rev \in Int
  BY SoundTypes DEF TopicTidy, Topics, Revs, NoRev
<1>2. CASE rev <= d.t.rev
  <2>1. Cover(d, cursor, rev) = d
    BY <1>2 DEF Cover
  <2>2. Drifts(d, d)
    BY <1>1, DriftsReflexive
  <2> QED
    BY <1>1, <2>1, <2>2, DriftsLearn DEF Reached, Drifts
<1>3. CASE ~(rev <= d.t.rev)
  <2>1. PICK t : t = [d.t EXCEPT !.rev = rev]
    OBVIOUS
  <2>2. /\ t \in Topics /\ t.id = d.t.id /\ t.socket = d.t.socket /\ t.gapRev = d.t.gapRev
        /\ t.gapInFlight = d.t.gapInFlight /\ t.behind = d.t.behind /\ t.pending = d.t.pending
        /\ t.rev = rev /\ t.scope = d.t.scope /\ t.refreshing = d.t.refreshing
    BY <1>1, <2>1 DEF Topics
  <2>3. Tidies(d, t)
    BY <1>1, <2>2 DEF Tidies, Gapped, TopicTidy, NoRev
  <2>4. PICK uncovered : uncovered = [d.uncovered EXCEPT ![d.t.scope] = IF cursor = NoRev /\ rev > @ THEN rev ELSE @]
    OBVIOUS
  <2>5. /\ uncovered \in [ScopeKeys -> Revs] /\ \A k \in ScopeKeys : d.uncovered[k] <= uncovered[k]
        /\ cursor = NoRev => rev <= uncovered[d.t.scope]
    <3>1. d.uncovered \in [ScopeKeys -> Revs]
      BY <1>1 DEF Clients
    <3>2. \A k \in ScopeKeys : d.uncovered[k] \in Revs /\ d.uncovered[k] \in Int
      BY <3>1 DEF Revs, NoRev
    <3>3. PICK new \in Revs : new = IF cursor = NoRev /\ rev > d.uncovered[d.t.scope] THEN rev ELSE d.uncovered[d.t.scope]
      BY <1>1, <3>2
    <3>4. uncovered = [d.uncovered EXCEPT ![d.t.scope] = new]
      BY <2>4, <3>3
    <3>5. uncovered \in [ScopeKeys -> Revs] /\ uncovered[d.t.scope] = new
          /\ \A k \in ScopeKeys \ {d.t.scope} : uncovered[k] = d.uncovered[k]
      BY <1>1, <3>1, <3>4
    <3>6. d.uncovered[d.t.scope] <= new /\ (cursor = NoRev => rev <= new)
      BY <1>1, <3>2, <3>3
    <3>7. \A k \in ScopeKeys : d.uncovered[k] <= uncovered[k]
      BY <3>2, <3>5, <3>6
    <3> QED
      BY <3>5, <3>6, <3>7
  <2>6. d.base \in [ScopeKeys -> Revs] /\ \A k \in ScopeKeys : d.base[k] <= d.base[k]
    BY <1>1 DEF Clients, Revs, NoRev
  <2>7. PICK e : e = Retopic(d, t, d.base, uncovered)
    OBVIOUS
  <2>8. /\ Core(e) /\ Followed(e) /\ Framed(d, e) /\ e.t = t /\ e.base = d.base /\ e.uncovered = uncovered
        /\ e.applied = d.applied
    BY <1>1, <2>3, <2>5, <2>6, <2>7, RetopicKeeps
  <2>9. Covers(e, lg, t.scope, t.rev)
    <3>1. CASE cursor = NoRev
      <4>1. e.uncovered[t.scope] \in Int /\ rev <= e.uncovered[t.scope]
        BY <1>1, <2>2, <2>5, <2>8, <3>1 DEF Revs, NoRev
      <4> QED
        BY <1>1, <2>2, <4>1 DEF Covers, KnownOf
    <3>2. CASE cursor # NoRev
      <4>1. d.uncovered[d.t.scope] \in Int /\ uncovered[d.t.scope] \in Int /\ d.uncovered[d.t.scope] <= uncovered[d.t.scope]
        BY <1>1, <2>5 DEF Clients, Revs, NoRev
      <4>2. \A r \in 1 .. rev : KnownOf(d, d.t.scope, r) => KnownOf(e, d.t.scope, r)
        BY <1>1, <2>8, <4>1 DEF KnownOf
      <4> QED
        BY <2>2, <3>2, <4>2 DEF Covers
    <3> QED
      BY <3>1, <3>2
  <2>10. \A i \in DOMAIN t.pending : ChainedIn(lg, t.pending[i])
    BY <1>1, <2>2 DEF Covered, TopicCovered
  <2>11. Covered(e, lg) /\ Learns(d, e)
    BY <1>1, <2>3, <2>5, <2>6, <2>7, <2>9, <2>10, RetopicCovers
  <2>12. e = Cover(d, cursor, rev)
    BY <1>1, <1>3, <2>1, <2>4, <2>7 DEF Cover, Retopic, Clients
  <2> QED
    BY <1>1, <1>3, <2>2, <2>8, <2>11, <2>12 DEF Sound, Reached
<1> QED
  BY <1>2, <1>3

LEMMA ApplyEventsSound ==
    ASSUME NEW d, NEW lg \in Logs, Sound(d, lg), d.t.rev # NoRev,
           NEW call \in Calls, call.id = d.t.id, CallCovered(d, lg, call), AnswerSound(lg, call),
           call.answer.scope = d.t.scope
    PROVE  LET e == ApplyEvents(d, call.cursor, call.answer)
           IN /\ Sound(e, lg) /\ Reached(d, e, d.t.scope, 0)
              /\ call.cursor <= call.answer.rev => e.t.rev >= d.t.rev
<1>1. d \in Clients /\ d.t \in Topics /\ Core(d) /\ Followed(d) /\ TopicTidy(d) /\ Covered(d, lg) /\ d.t.rev \in Int
      /\ d.t.scope \in Scopes /\ d.t.rev >= 0
  BY SoundTypes DEF TopicTidy, Topics, Revs, NoRev
<1>2. PICK a : a = call.answer
  OBVIOUS
<1>3. PICK cursor : cursor = call.cursor
  OBVIOUS
<1>4. /\ a \in PollAnswers /\ IsFiniteSet(a.events) /\ a.rev \in Revs /\ a.rev \in Int /\ 0 <= a.rev
      /\ a.scope = d.t.scope /\ a.rev <= Len(lg[d.t.scope])
      /\ cursor \in Revs /\ cursor \in Int
      /\ \A e \in a.events : e.scope = d.t.scope /\ ChainedIn(lg, e) /\ e.rev <= a.rev /\ e.rev \in Int
  BY <1>2, <1>3 DEF AnswerSound, PollAnswers, Calls, Revs, NoRev, Arrivals
<1>5. AnswerEvents(lg, d.t.scope, a.events)
  BY <1>4 DEF AnswerEvents, PollAnswers
<1>6. PICK e : e = ApplyEvents(d, cursor, a)
  OBVIOUS
<1>7. PICK w : w = Walk(d, a.events)
  OBVIOUS
<1>8. w \in Walkers(d, lg) /\ Walked(a.events, w)
  BY <1>5, <1>7, WalkSound
<1>9. Sound(w.c, lg) /\ Drifts(d, w.c) /\ w.c.t.rev # NoRev /\ w.c.t.scope = d.t.scope /\ w.c.t.rev \in Int
      /\ w.c.t.rev >= d.t.rev
  BY <1>8, SoundTypes DEF Walkers, Drifts
<1>10. Reached(d, w.c, d.t.scope, d.t.rev)
  BY <1>1, <1>9, SoundTypes, DriftsLearn DEF Reached, Drifts
<1>11. CASE a.null /\ NullIsOld(d, cursor, a.rev)
  <2>1. e = d
    BY <1>6, <1>11 DEF ApplyEvents
  <2>2. Framed(d, d) /\ Learns(d, d)
    BY <1>1, DriftsReflexive, DriftsLearn DEF Drifts
  <2> QED
    BY <1>1, <1>2, <1>3, <1>6, <2>1, <2>2 DEF Reached
<1>12. CASE a.null /\ ~NullIsOld(d, cursor, a.rev)
  <2>1. e = Resync(d, a.rev)
    BY <1>6, <1>12 DEF ApplyEvents
  <2>2. Sound(e, lg) /\ Reached(d, e, d.t.scope, a.rev) /\ e.t.rev = a.rev
    BY <1>1, <1>4, <2>1, ResyncSound
  <2>3. cursor <= a.rev => e.t.rev >= d.t.rev
    BY <1>1, <1>4, <1>12, <2>2 DEF NullIsOld
  <2> QED
    BY <1>2, <1>3, <1>4, <1>6, <2>2, <2>3 DEF Reached
<1>13. CASE ~a.null /\ (a.rev < cursor \/ w.gap)
  <2>1. e = Resync(w.c, a.rev)
    BY <1>6, <1>7, <1>13 DEF ApplyEvents
  <2>2. Sound(e, lg) /\ Reached(w.c, e, d.t.scope, a.rev) /\ e.t.rev = a.rev
    BY <1>1, <1>4, <1>9, <2>1, ResyncSound
  <2>3. Reached(d, e, d.t.scope, a.rev)
    BY <1>1, <1>9, <1>10, <2>2, SoundTypes, FramedTransitive, LearnsTransitive DEF Reached
  <2>4. cursor <= a.rev => e.t.rev >= d.t.rev
    BY <1>1, <1>4, <1>8, <1>9, <1>13, <2>2 DEF Walked
  <2> QED
    BY <1>2, <1>3, <1>4, <1>6, <2>2, <2>3, <2>4 DEF Reached
<1>14. CASE ~a.null /\ ~(a.rev < cursor \/ w.gap)
  <2>1. e = Cover(w.c, cursor, a.rev)
    BY <1>6, <1>7, <1>14 DEF ApplyEvents
  <2>2. ASSUME cursor # NoRev PROVE Covers(w.c, lg, d.t.scope, a.rev)
    <3>1. /\ call.held = d.t.scope
          /\ \A r \in cursor + 1 .. a.rev : lg[d.t.scope][r] => \E ev \in a.events : ev.rev = r
      BY <1>2, <1>3, <1>4, <1>14, <2>2 DEF AnswerSound
    <3>2. Covers(d, lg, d.t.scope, cursor)
      BY <1>3, <2>2, <3>1 DEF CallCovered
    <3>3. Covers(w.c, lg, d.t.scope, cursor)
      BY <1>1, <1>4, <1>10, <3>2, <1>9, SoundTypes, KnowledgeGrows DEF Reached
    <3>4. Covers(w.c, lg, d.t.scope, w.c.t.rev)
      BY <1>9, SoundTypes DEF Covered, TopicCovered
    <3>5. ASSUME NEW r \in 1 .. a.rev, lg[d.t.scope][r] PROVE KnownOf(w.c, d.t.scope, r)
      <4>1. CASE r <= cursor
        BY <1>4, <3>3, <3>5, <4>1 DEF Covers
      <4>2. CASE ~(r <= cursor)
        <5>1. PICK ev \in a.events : ev.rev = r
          BY <1>4, <3>1, <3>5, <4>2
        <5>2. r <= w.c.t.rev
          BY <1>8, <1>14, <5>1 DEF Walked
        <5> QED
          BY <1>9, <3>4, <3>5, <5>2 DEF Covers
      <4> QED
        BY <4>1, <4>2
    <3> QED
      BY <1>4, <3>5 DEF Covers
  <2>3. Sound(e, lg) /\ Reached(w.c, e, d.t.scope, w.c.t.rev)
    BY <1>4, <1>9, <2>1, <2>2, CoverSound
  <2>4. e.t.rev >= d.t.rev /\ e.t.rev >= 0
    BY <1>1, <1>9, <2>3, SoundTypes DEF Reached
  <2>5. Reached(d, e, d.t.scope, 0)
    BY <1>1, <1>9, <1>10, <2>3, <2>4, SoundTypes, FramedTransitive, LearnsTransitive DEF Reached
  <2> QED
    BY <1>2, <1>3, <1>6, <2>3, <2>4, <2>5
<1> QED
  BY <1>11, <1>12, <1>13, <1>14

(* The answer of a poll: the client then holds a rev, and under another     *)
(* scope than before only when it has still to be subscribed.               *)
LEMMA ApplyTopicAnswerSound ==
    ASSUME NEW d, NEW lg \in Logs, Sound(d, lg),
           NEW call \in Calls, call.id = d.t.id, CallCovered(d, lg, call), AnswerSound(lg, call)
    PROVE  LET e == ApplyTopicAnswer(d, call)
           IN /\ Sound(e, lg) /\ Framed(d, e) /\ Learns(d, e) /\ e.t.rev # NoRev
              /\ e.t.socket = "subscribed" => e.t.scope = d.t.scope \/ d.t.rev = NoRev
              /\ e.t.scope \in {d.t.scope, call.answer.scope}
              /\ (call.answer.scope = d.t.scope /\ call.cursor <= call.answer.rev) => e.t.rev >= d.t.rev
<1>1. d \in Clients /\ d.t \in Topics /\ Core(d) /\ Followed(d) /\ TopicTidy(d) /\ Covered(d, lg) /\ d.t.rev \in Int
  BY SoundTypes
<1>2. PICK a : a = call.answer
  OBVIOUS
<1>3. a.rev \in Revs /\ a.rev \in Int /\ 0 <= a.rev /\ a.scope \in Scopes /\ a.rev <= Len(lg[a.scope])
  BY <1>2 DEF AnswerSound, PollAnswers, Revs, NoRev
<1>4. PICK t : t = [d.t EXCEPT !.behind = FALSE, !.sentHeaders = call.headers]
  OBVIOUS
<1>5. Tidies(d, t) /\ t.rev = d.t.rev /\ t.scope = d.t.scope /\ t.pending = d.t.pending
  <2>1. /\ t \in Topics /\ t.id = d.t.id /\ t.socket = d.t.socket /\ t.gapRev = d.t.gapRev
        /\ t.gapInFlight = d.t.gapInFlight /\ t.behind = FALSE /\ t.pending = d.t.pending
        /\ t.rev = d.t.rev /\ t.scope = d.t.scope /\ t.refreshing = d.t.refreshing
    BY <1>1, <1>4 DEF Topics, Calls, ScopeKeys
  <2> QED
    BY <1>1, <2>1 DEF Tidies, Gapped, TopicTidy
<1>6. PICK q : q = [d EXCEPT !.t = t]
  OBVIOUS
<1>7. Sound(q, lg) /\ Drifts(d, q) /\ q.t = t
  BY <1>5, <1>6, FlagsSound
<1>8. q = [d EXCEPT !.t.behind = FALSE, !.t.sentHeaders = call.headers]
  BY <1>1, <1>4, <1>6 DEF Clients
<1>9. q \in Clients /\ Framed(d, q) /\ Learns(d, q) /\ q.t.id = d.t.id /\ q.t.socket = t.socket
  BY <1>1, <1>7, SoundTypes, DriftsLearn DEF Drifts, Framed, Gapped
<1>10. PICK e : e = ApplyTopicAnswer(d, call)
  OBVIOUS
<1>11. ASSUME NEW rev \in Int, NEW scope, Sound(e, lg), Reached(q, e, scope, rev)
       PROVE  Framed(d, e) /\ Learns(d, e) /\ e.t.scope = scope /\ e.t.rev >= rev
  BY <1>1, <1>9, <1>11, SoundTypes, FramedTransitive, LearnsTransitive DEF Reached
<1>12. CASE d.t.rev = NoRev
  <2>1. e = Follow(q, a.rev, a.scope)
    BY <1>2, <1>8, <1>10, <1>12 DEF ApplyTopicAnswer
  <2>2. Sound(e, lg) /\ Reached(q, e, a.scope, a.rev)
    BY <1>3, <1>7, <2>1, FollowSound
  <2>3. Framed(d, e) /\ Learns(d, e) /\ e.t.scope = a.scope /\ e.t.rev >= a.rev /\ e.t.rev \in Int
    BY <1>3, <1>11, <2>2, SoundTypes
  <2> QED
    BY <1>2, <1>3, <1>10, <1>12, <2>2, <2>3 DEF NoRev
<1>13. CASE d.t.rev # NoRev /\ a.scope # d.t.scope
  <2>1. e = ScopeChange(q, a.scope, a.rev, TRUE)
    BY <1>2, <1>8, <1>10, <1>13 DEF ApplyTopicAnswer
  <2>2. Sound(e, lg) /\ Reached(q, e, a.scope, a.rev) /\ e.t.socket # "subscribed"
    BY <1>3, <1>7, <2>1, ScopeChangeSound
  <2>3. Framed(d, e) /\ Learns(d, e) /\ e.t.scope = a.scope /\ e.t.rev >= a.rev /\ e.t.rev \in Int
    BY <1>3, <1>11, <2>2, SoundTypes
  <2> QED
    BY <1>2, <1>3, <1>10, <1>13, <2>2, <2>3 DEF NoRev
<1>14. CASE d.t.rev # NoRev /\ a.scope = d.t.scope
  <2>1. PICK f : f = ApplyEvents(q, call.cursor, a)
    OBVIOUS
  <2>2. e = EndRefresh(f)
    BY <1>2, <1>8, <1>10, <1>14, <2>1 DEF ApplyTopicAnswer
  <2>3. CallCovered(q, lg, call)
    BY <1>1, <1>9, KnowledgeGrows
  <2>4. /\ Sound(f, lg) /\ Reached(q, f, d.t.scope, 0)
        /\ call.cursor <= a.rev => f.t.rev >= q.t.rev
    BY <1>2, <1>5, <1>7, <1>9, <1>14, <2>1, <2>3, ApplyEventsSound
  <2>5. Sound(e, lg) /\ Drifts(f, e)
    BY <2>2, <2>4, EndRefreshSound
  <2>6. Reached(q, e, d.t.scope, 0)
    BY <1>7, <2>4, <2>5, ReachedDrifts
  <2>7. Framed(d, e) /\ Learns(d, e) /\ e.t.scope = d.t.scope /\ e.t.rev >= 0 /\ e.t.rev \in Int
    BY <1>11, <2>5, <2>6, SoundTypes
  <2>8. call.cursor <= a.rev => e.t.rev >= d.t.rev
    BY <1>1, <1>5, <1>7, <2>4, <2>5, SoundTypes DEF Drifts
  <2> QED
    BY <1>2, <1>10, <1>14, <2>5, <2>7, <2>8 DEF NoRev
<1> QED
  BY <1>2, <1>10, <1>12, <1>13, <1>14

-----------------------------------------------------------------------------
(* The ladder, the queue of the socket calls, and the calls in flight.      *)

LEMMA SameCovers ==
    ASSUME NEW d, NEW e, Same(d, e), NEW lg, Covered(d, lg)
    PROVE  Covered(e, lg)
BY DEF Same, Covered, TopicCovered, CallsCovered, CallCovered, Covers, KnownOf, Followed

LEMMA ReloopKeeps ==
    ASSUME NEW d \in Clients, Named(d), Queued(d), TopicTidy(d),
           NEW loop \in {"idle", "waiting", "polling"}, NEW timer \in BOOLEAN,
           d.net["rung"] # NoCall /\ ~d.closed => loop = "polling",
           ShouldPoll(d) => loop # "idle" \/ LastOwn(d)
    PROVE  LET e == [d EXCEPT !.loop = loop, !.checkTimer = timer]
           IN Core(e) /\ Same(d, e) /\ e.loop = loop /\ (ShouldPoll(e) <=> ShouldPoll(d))
<1>1. PICK e : e = [d EXCEPT !.loop = loop, !.checkTimer = timer]
  OBVIOUS
<1>2. e \in Clients /\ Same(d, e) /\ e.loop = loop
  BY <1>1 DEF Clients, Same
<1>3. \A o : Own(e, o) <=> Own(d, o)
  BY <1>2 DEF Own, Same
<1>4. Named(e)
  BY <1>2 DEF Named, Same
<1>5. Queued(e)
  BY <1>2, <1>3 DEF Queued, Same, Followed
<1>6. TopicTidy(e)
  BY <1>2 DEF TopicTidy, Same, Followed
<1>7. (ShouldPoll(e) <=> ShouldPoll(d)) /\ (LastOwn(e) <=> LastOwn(d))
  BY <1>2, <1>3 DEF ShouldPoll, LastOwn, Same, Followed
<1>8. Laddered(e)
  BY <1>2, <1>7 DEF Laddered, OneRung, Same
<1> QED
  BY <1>1, <1>2, <1>4, <1>5, <1>6, <1>7, <1>8 DEF Core, Base, Laddered

LEMMA EnsureLoopKeeps ==
    ASSUME NEW d, Base(d)
    PROVE  LET e == EnsureLoop(d) IN Core(e) /\ Same(d, e) /\ (ShouldPoll(e) => e.loop # "idle")
<1>1. d \in Clients /\ Named(d) /\ Queued(d) /\ TopicTidy(d) /\ OneRung(d)
  BY DEF Base
<1>2. CASE d.closed
  <2>1. EnsureLoop(d) = d /\ ~ShouldPoll(d)
    BY <1>2 DEF EnsureLoop, ShouldPoll
  <2>2. Core(d) /\ Same(d, d)
    BY <2>1 DEF Core, Laddered, Base, Same
  <2> QED
    BY <2>1, <2>2
<1>3. CASE ~d.closed
  <2>1. PICK loop : loop = IF d.loop = "polling" THEN d.loop ELSE IF ShouldPoll(d) THEN "waiting" ELSE "idle"
    OBVIOUS
  <2>2. PICK timer \in BOOLEAN : timer = (d.checkTimer /\ Followed(d))
    OBVIOUS
  <2>3. PICK e : e = [d EXCEPT !.loop = loop, !.checkTimer = timer]
    OBVIOUS
  <2>4. /\ loop \in {"idle", "waiting", "polling"} /\ (ShouldPoll(d) => loop # "idle")
        /\ d.net["rung"] # NoCall /\ ~d.closed => loop = "polling"
    BY <1>1, <2>1 DEF OneRung
  <2>5. Core(e) /\ Same(d, e) /\ e.loop = loop /\ (ShouldPoll(e) <=> ShouldPoll(d))
    <3>1. ShouldPoll(d) => loop # "idle" \/ LastOwn(d)
      BY <2>4
    <3>2. loop \in {"idle", "waiting", "polling"} /\ timer \in BOOLEAN
      BY <2>2, <2>4
    <3>3. d.net["rung"] # NoCall /\ ~d.closed => loop = "polling"
      BY <2>4
    <3>4. d \in Clients /\ Named(d) /\ Queued(d) /\ TopicTidy(d)
      BY <1>1
    <3> QED
      BY <2>3, <3>1, <3>2, <3>3, <3>4, ReloopKeeps, Zenon
  <2>6. e = EnsureLoop(d)
    BY <1>1, <1>3, <2>1, <2>2, <2>3 DEF EnsureLoop, Clients
  <2> QED
    BY <2>4, <2>5, <2>6
<1> QED
  BY <1>2, <1>3

LEMMA ScheduleCheckKeeps ==
    ASSUME NEW d, Core(d)
    PROVE  LET e == ScheduleCheck(d) IN Core(e) /\ Same(d, e)
<1>1. d \in Clients /\ Named(d) /\ Queued(d) /\ TopicTidy(d) /\ Laddered(d) /\ OneRung(d)
  BY DEF Core, Base
<1>2. PICK timer \in BOOLEAN : timer = (d.checkTimer \/ (~d.closed /\ Followed(d)))
  OBVIOUS
<1>3. PICK loop : loop = d.loop
  OBVIOUS
<1>4. PICK e : e = [d EXCEPT !.loop = loop, !.checkTimer = timer]
  OBVIOUS
<1>5. Core(e) /\ Same(d, e)
  <2>1. loop \in {"idle", "waiting", "polling"}
    BY <1>1, <1>3 DEF Clients
  <2> QED
    BY <1>1, <1>3, <1>4, <2>1, ReloopKeeps DEF Laddered, OneRung
<1>6. e = ScheduleCheck(d)
  BY <1>1, <1>2, <1>3, <1>4 DEF ScheduleCheck, Clients
<1> QED
  BY <1>5, <1>6

(* The head of the queue is done.                                           *)
LEMMA EndOpKeeps ==
    ASSUME NEW d, Base(d), d.ops # << >>, d.net["op"] = NoCall, d.net["unsub"] = NoCall,
           ShouldPoll(d) => d.loop # "idle" \/ (LastOwn(d) /\ ~Own(d, d.ops[1]))
    PROVE  LET e == EndOp(d)
           IN /\ Core(e) /\ e.ops = Tail(d.ops) /\ e.t = d.t /\ e.ids = d.ids /\ e.open = d.open
              /\ e.closed = d.closed /\ e.net = d.net
              /\ e.applied = d.applied /\ e.base = d.base /\ e.uncovered = d.uncovered
              /\ \A lg : Covered(d, lg) => Covered(e, lg)
<1>1. d \in Clients /\ Named(d) /\ Queued(d) /\ TopicTidy(d) /\ OneRung(d) /\ d.ops \in Seq(SocketOps)
  BY DEF Base, Clients
<1>2. PICK ops : ops = Tail(d.ops)
  OBVIOUS
<1>3. /\ ops \in Seq(SocketOps) /\ Len(ops) = Len(d.ops) - 1 /\ Len(d.ops) \in Nat /\ Len(d.ops) > 0
      /\ DOMAIN ops = 1 .. Len(ops) /\ DOMAIN d.ops = 1 .. Len(d.ops)
      /\ \A i \in DOMAIN ops : i + 1 \in DOMAIN d.ops /\ ops[i] = d.ops[i + 1]
  BY <1>1, <1>2
<1>4. PICK e : e = [d EXCEPT !.ops = ops]
  OBVIOUS
<1>5. /\ e \in Clients /\ e.ops = ops /\ e.t = d.t /\ e.ids = d.ids /\ e.open = d.open
      /\ e.closed = d.closed /\ e.net = d.net /\ e.loop = d.loop
      /\ e.applied = d.applied /\ e.base = d.base /\ e.uncovered = d.uncovered
  BY <1>1, <1>3, <1>4 DEF Clients
<1>6. e = EndOp(d)
  BY <1>2, <1>4 DEF EndOp
<1>7. \A o : Own(e, o) <=> Own(d, o)
  BY <1>5 DEF Own
<1>8. Named(e)
  BY <1>1, <1>3, <1>5 DEF Named
<1>9. Queued(e)
  <2>1. ASSUME NEW i \in DOMAIN e.ops, NEW j \in DOMAIN e.ops, i < j, Own(e, e.ops[i]) PROVE Own(e, e.ops[j])
    <3>1. i + 1 \in DOMAIN d.ops /\ j + 1 \in DOMAIN d.ops /\ i + 1 < j + 1
      BY <1>3, <1>5, <2>1
    <3>2. Own(d, d.ops[i + 1])
      BY <1>3, <1>5, <1>7, <2>1
    <3>3. Own(d, d.ops[j + 1])
      BY <1>1, <3>1, <3>2 DEF Queued
    <3> QED
      BY <1>3, <1>5, <1>7, <3>3
  <2>2. Followed(e) /\ e.t.socket = "subscribed" => \A i \in DOMAIN e.ops : Own(e, e.ops[i])
    BY <1>1, <1>3, <1>5, <1>7 DEF Queued, Followed
  <2> QED
    BY <1>5, <2>1, <2>2 DEF Queued
<1>10. TopicTidy(e)
  BY <1>1, <1>5 DEF TopicTidy, Followed
<1>11. Laddered(e)
  <2>1. ASSUME LastOwn(d), ~Own(d, d.ops[1]) PROVE LastOwn(e)
    <3>1. Len(d.ops) # 1 /\ Len(ops) \in DOMAIN ops /\ ops # << >>
      BY <1>3, <2>1 DEF LastOwn
    <3>2. ops[Len(ops)] = d.ops[Len(d.ops)]
      BY <1>3, <3>1
    <3> QED
      BY <1>5, <1>7, <2>1, <3>1, <3>2 DEF LastOwn
  <2>2. ShouldPoll(e) => ShouldPoll(d)
    BY <1>5 DEF ShouldPoll, Followed
  <2> QED
    BY <1>1, <1>5, <2>1, <2>2 DEF Laddered, OneRung
<1>12. ASSUME NEW lg, Covered(d, lg) PROVE Covered(e, lg)
  BY <1>5, <1>12 DEF Covered, TopicCovered, CallsCovered, CallCovered, Covers, KnownOf, Followed
<1> QED
  BY <1>2, <1>5, <1>6, <1>8, <1>9, <1>10, <1>11, <1>12 DEF Core, Base, Laddered

(* Other calls in flight.                                                   *)
Nettable(d, net) ==
    /\ net \in Nets
    /\ \A s \in Slots \ {"unsub"} : net[s] # NoCall => net[s] \in Calls /\ net[s].id <= d.ids
    /\ net["unsub"] \notin Calls
    /\ net["op"] # NoCall =>
          /\ d.ops # << >> /\ d.ops[1].kind = "subscribe" /\ d.ops[1].id = net["op"].id
          /\ net["unsub"] = NoCall
    /\ net["unsub"] # NoCall => d.ops # << >> /\ ~Own(d, d.ops[1])
    /\ Followed(d) /\ d.t.gapInFlight => net["gap"] # NoCall /\ net["gap"].id = d.t.id
    /\ net["rung"] # NoCall /\ ~d.closed => d.loop = "polling"

LEMMA RenetKeeps ==
    ASSUME NEW d, Base(d), NEW net, Nettable(d, net)
    PROVE  LET e == [d EXCEPT !.net = net]
           IN /\ Base(e) /\ e.net = net /\ e.t = d.t /\ e.ids = d.ids /\ e.open = d.open /\ e.closed = d.closed
              /\ e.headers = d.headers /\ e.loop = d.loop /\ e.ops = d.ops /\ e.checkTimer = d.checkTimer
              /\ e.applied = d.applied /\ e.base = d.base /\ e.uncovered = d.uncovered
              /\ (ShouldPoll(e) <=> ShouldPoll(d)) /\ (LastOwn(e) <=> LastOwn(d))
<1>1. d \in Clients /\ Named(d) /\ Queued(d) /\ TopicTidy(d) /\ OneRung(d)
  BY DEF Base
<1>2. PICK e : e = [d EXCEPT !.net = net]
  OBVIOUS
<1>3. /\ e \in Clients /\ e.net = net /\ e.t = d.t /\ e.ids = d.ids /\ e.open = d.open /\ e.closed = d.closed
      /\ e.headers = d.headers /\ e.loop = d.loop /\ e.ops = d.ops /\ e.checkTimer = d.checkTimer
      /\ e.applied = d.applied /\ e.base = d.base /\ e.uncovered = d.uncovered
  BY <1>1, <1>2 DEF Clients, Nettable
<1>4. \A o : Own(e, o) <=> Own(d, o)
  BY <1>3 DEF Own
<1>5. Named(e)
  BY <1>1, <1>3 DEF Named, Nettable
<1>6. Queued(e)
  <2>1. \A i, j \in DOMAIN e.ops : i < j /\ Own(e, e.ops[i]) => Own(e, e.ops[j])
    BY <1>1, <1>3, <1>4 DEF Queued
  <2>2. Followed(e) /\ e.t.socket = "subscribed" => \A i \in DOMAIN e.ops : Own(e, e.ops[i])
    BY <1>1, <1>3, <1>4 DEF Queued, Followed
  <2> QED
    BY <1>3, <1>4, <2>1, <2>2 DEF Queued, Nettable
<1>7. TopicTidy(e)
  BY <1>1, <1>3 DEF TopicTidy, Nettable, Followed
<1>8. OneRung(e)
  BY <1>3 DEF OneRung, Nettable
<1>9. (ShouldPoll(e) <=> ShouldPoll(d)) /\ (LastOwn(e) <=> LastOwn(d))
  BY <1>3, <1>4 DEF ShouldPoll, LastOwn, Followed
<1> QED
  BY <1>2, <1>3, <1>5, <1>6, <1>7, <1>8, <1>9 DEF Base

(* Another record of the topic that is followed.                            *)
Topical(d, t) ==
    /\ t \in Topics /\ t.id = d.t.id
    /\ t.socket = "subscribed" => \A i \in DOMAIN d.ops : Own(d, d.ops[i])
    /\ t.gapInFlight => d.net["gap"] # NoCall /\ d.net["gap"].id = d.t.id
    /\ t.rev # NoRev => t.scope \in Scopes
    /\ t.refreshing => t.rev # NoRev
    /\ t.pending # << >> => t.rev = NoRev \/ t.refreshing

LEMMA RetypeKeeps ==
    ASSUME NEW d, Base(d), Followed(d), NEW t, Topical(d, t)
    PROVE  LET e == [d EXCEPT !.t = t]
           IN /\ Base(e) /\ Followed(e) /\ e.t = t /\ e.net = d.net /\ e.ids = d.ids /\ e.open = d.open
              /\ e.closed = d.closed /\ e.headers = d.headers /\ e.loop = d.loop /\ e.ops = d.ops
              /\ e.applied = d.applied /\ e.base = d.base /\ e.uncovered = d.uncovered
              /\ (LastOwn(e) <=> LastOwn(d)) /\ \A o : Own(e, o) <=> Own(d, o)
              /\ t.rev = d.t.rev /\ t.scope = d.t.scope /\ (t.pending = d.t.pending \/ t.pending = << >>)
                    => \A lg : Covered(d, lg) => Covered(e, lg)
<1>1. d \in Clients /\ Named(d) /\ Queued(d) /\ TopicTidy(d) /\ OneRung(d) /\ d.t \in Topics /\ ~d.closed
  BY TopicType DEF Base, TopicTidy
<1>2. PICK e : e = [d EXCEPT !.t = t]
  OBVIOUS
<1>3. /\ e \in Clients /\ e.t = t /\ e.net = d.net /\ e.ids = d.ids /\ e.open = d.open
      /\ e.closed = d.closed /\ e.headers = d.headers /\ e.loop = d.loop /\ e.ops = d.ops
      /\ e.applied = d.applied /\ e.base = d.base /\ e.uncovered = d.uncovered
  BY <1>1, <1>2 DEF Clients, Topical
<1>4. Followed(e)
  BY <1>3 DEF Followed, NoTopic, Topics, Topical
<1>5. \A o : Own(e, o) <=> Own(d, o)
  BY <1>3 DEF Own, Topical
<1>6. Named(e)
  BY <1>1, <1>3 DEF Named, Topical
<1>7. Queued(e)
  <2>1. \A i, j \in DOMAIN e.ops : i < j /\ Own(e, e.ops[i]) => Own(e, e.ops[j])
    BY <1>1, <1>3, <1>5 DEF Queued
  <2>2. Followed(e) /\ e.t.socket = "subscribed" => \A i \in DOMAIN e.ops : Own(e, e.ops[i])
    BY <1>3, <1>5 DEF Topical
  <2> QED
    BY <1>1, <1>3, <1>5, <2>1, <2>2 DEF Queued
<1>8. TopicTidy(e)
  BY <1>1, <1>3 DEF TopicTidy, Topical
<1>9. OneRung(e)
  BY <1>1, <1>3 DEF OneRung
<1>10. LastOwn(e) <=> LastOwn(d)
  BY <1>3, <1>5 DEF LastOwn
<1>11. ASSUME t.rev = d.t.rev, t.scope = d.t.scope, t.pending = d.t.pending \/ t.pending = << >>,
              NEW lg, Covered(d, lg)
       PROVE  Covered(e, lg)
  <2>1. \A k, n : Covers(e, lg, k, n) <=> Covers(d, lg, k, n)
    BY <1>3 DEF Covers, KnownOf
  <2>2. TopicCovered(e, lg)
    BY <1>3, <1>11, <2>1 DEF Covered, TopicCovered
  <2>3. CallsCovered(e, lg)
    BY <1>3, <1>11, <2>1 DEF Covered, CallsCovered, CallCovered, Topical
  <2> QED
    BY <2>2, <2>3 DEF Covered
<1> QED
  BY <1>2, <1>3, <1>4, <1>5, <1>6, <1>7, <1>8, <1>9, <1>10, <1>11 DEF Base

-----------------------------------------------------------------------------
(* The handlers of answers.                                                 *)

Kept(d, q) ==
    /\ q.ids = d.ids /\ q.ops = d.ops /\ q.closed = d.closed /\ q.open = d.open
    /\ q.net["op"] = d.net["op"] /\ q.net["unsub"] = d.net["unsub"]
    /\ q.t.id = d.t.id /\ (Followed(q) <=> Followed(d))
    /\ Followed(d) => q.t.rev = d.t.rev /\ q.t.scope = d.t.scope /\ q.t.socket = d.t.socket

LEMMA KeptMoves ==
    ASSUME NEW d, NEW q, NEW e, Kept(d, q), Moved(q, e)
    PROVE  Moved(d, e)
BY DEF Kept, Moved, Serves, Grows

LEMMA SameMoves ==
    ASSUME NEW d, NEW e, NEW f, Moved(d, e), Same(e, f)
    PROVE  Moved(d, f)
BY DEF Same, Moved, Serves, Grows, Followed

LEMMA SameSettled ==
    ASSUME NEW d, NEW e, Settled(d), Same(d, e)
    PROVE  Settled(e)
BY DEF Same, Settled, Gapped, Followed

LEMMA FollowedTopic ==
    ASSUME NEW d, Base(d)
    PROVE  /\ d \in Clients /\ d.t.id \in Nat /\ d.ids \in Nat /\ (Followed(d) <=> d.t.id # 0)
           /\ Followed(d) => d.t \in Topics /\ ~d.closed /\ d.t.rev \in Int /\ d.t.rev \in Revs /\ d.t.rev >= NoRev
BY DEF Base, Clients, Followed, NoTopic, Topics, Revs, NoRev, TopicTidy

LEMMA StaysMoved ==
    ASSUME NEW d, Base(d), Settled(d)
    PROVE  Moved(d, d)
BY FollowedTopic DEF Moved, Serves, Grows

LEMMA RenetCovers ==
    ASSUME NEW d, NEW e, NEW lg, Covered(d, lg), e.t = d.t, e.applied = d.applied, e.base = d.base, e.uncovered = d.uncovered,
           \A s \in Polls : \/ e.net[s] = d.net[s] \/ e.net[s] = NoCall
                            \/ e.net[s].phase # "ok" /\ CallCovered(e, lg, e.net[s]),
           e.net["op"] = d.net["op"] \/ e.net["op"] = NoCall \/ e.net["op"].phase # "ok"
    PROVE  Covered(e, lg)
<1>1. \A k, n : Covers(e, lg, k, n) <=> Covers(d, lg, k, n)
  BY DEF Covers, KnownOf
<1>2. \A call : CallCovered(e, lg, call) <=> CallCovered(d, lg, call)
  BY <1>1 DEF CallCovered
<1>3. TopicCovered(e, lg)
  BY <1>1 DEF Covered, TopicCovered, Followed
<1>4. \A s \in Polls : e.net[s] # NoCall =>
          CallCovered(e, lg, e.net[s]) /\ (e.net[s].phase = "ok" => AnswerSound(lg, e.net[s]))
  BY <1>2 DEF Covered, CallsCovered
<1>5. CallsCovered(e, lg)
  BY <1>4 DEF Covered, CallsCovered
<1> QED
  BY <1>3, <1>5 DEF Covered

(* The answer of a poll is taken out of its slot.                           *)
LEMMA ClearPoll ==
    ASSUME NEW d, NEW lg, Good(d, lg), NEW slot \in Polls,
           Followed(d) => slot # "gap" \/ ~d.t.gapInFlight
    PROVE  LET q == [d EXCEPT !.net[slot] = NoCall]
           IN Good(q, lg) /\ Kept(d, q) /\ q.t = d.t /\ q.net[slot] = NoCall /\ q.net \in Nets
              /\ q.applied = d.applied /\ q.base = d.base /\ q.uncovered = d.uncovered
              /\ \A s \in Slots \ {slot} : q.net[s] = d.net[s]
<1>1. Base(d) /\ Laddered(d) /\ d \in Clients /\ d.net \in Nets /\ Settled(d) /\ Covered(d, lg)
  BY DEF Good, Core, Base, Clients
<1>2. PICK net : net = [d.net EXCEPT ![slot] = NoCall]
  OBVIOUS
<1>3. /\ net \in Nets /\ net[slot] = NoCall /\ \A s \in Slots \ {slot} : net[s] = d.net[s]
      /\ slot \in Slots /\ slot # "op" /\ slot # "unsub"
  BY <1>1, <1>2 DEF Nets, Slots, Polls
<1>4. Nettable(d, net)
  BY <1>1, <1>3 DEF Nettable, Base, Named, Queued, TopicTidy, OneRung, Slots
<1>5. PICK q : q = [d EXCEPT !.net = net]
  OBVIOUS
<1>6. /\ Base(q) /\ q.net = net /\ q.t = d.t /\ q.ids = d.ids /\ q.open = d.open /\ q.closed = d.closed
      /\ q.headers = d.headers /\ q.loop = d.loop /\ q.ops = d.ops
      /\ q.applied = d.applied /\ q.base = d.base /\ q.uncovered = d.uncovered
      /\ (ShouldPoll(q) <=> ShouldPoll(d)) /\ (LastOwn(q) <=> LastOwn(d))
  BY <1>1, <1>4, <1>5, RenetKeeps
<1>7. Covered(q, lg)
  <2>1. \A s \in Polls : q.net[s] = d.net[s] \/ q.net[s] = NoCall
    BY <1>3, <1>6 DEF Polls, Slots
  <2>2. q.net["op"] = d.net["op"]
    BY <1>3, <1>6 DEF Slots
  <2> QED
    BY <1>1, <1>6, <2>1, <2>2, RenetCovers
<1>8. Core(q)
  BY <1>1, <1>6 DEF Core, Base, Laddered
<1>9. Settled(q)
  BY <1>1, <1>6 DEF Settled, Gapped, Followed
<1>10. Kept(d, q)
  BY <1>3, <1>6 DEF Kept, Followed, Slots
<1>11. q = [d EXCEPT !.net[slot] = NoCall]
  BY <1>2, <1>5
<1> QED
  BY <1>3, <1>6, <1>7, <1>8, <1>9, <1>10, <1>11 DEF Good

LEMMA PollApplied ==
    ASSUME NEW q, NEW lg \in Logs, Core(q), Covered(q, lg), Followed(q), q.t.socket = "subscribed" => q.t.rev # NoRev,
           NEW call \in Calls, call.id = q.t.id, CallCovered(q, lg, call), AnswerSound(lg, call)
    PROVE  LET e == ApplyTopicAnswer(q, call)
           IN Core(e) /\ Covered(e, lg) /\ Followed(e) /\ Framed(q, e) /\ e.t.rev # NoRev /\ Moved(q, e)
<1>1. PICK e : e = ApplyTopicAnswer(q, call)
  OBVIOUS
<1>2. /\ Sound(e, lg) /\ Framed(q, e) /\ Learns(q, e) /\ e.t.rev # NoRev
      /\ e.t.socket = "subscribed" => e.t.scope = q.t.scope \/ q.t.rev = NoRev
      /\ (call.answer.scope = q.t.scope /\ call.cursor <= call.answer.rev) => e.t.rev >= q.t.rev
  BY <1>1, ApplyTopicAnswerSound DEF Sound
<1>3. q \in Clients /\ e \in Clients /\ q.t.rev \in Int /\ e.t.rev \in Int /\ e.t.rev >= NoRev
      /\ TopicTidy(q) /\ Core(e) /\ Followed(e) /\ Covered(e, lg)
  BY <1>2, SoundTypes, FollowedTopic DEF Core, Base
<1>4. Serves(q, e)
  <2>1. e.ops = << >> => q.ops = << >> /\ e.t.socket = q.t.socket
    BY <1>2, <1>3 DEF Framed, Clients
  <2> QED
    BY <1>2, <2>1 DEF Serves, Framed
<1>5. Grows(q, e)
  <2>1. CASE q.t.rev = NoRev
    BY <1>3, <2>1 DEF Grows
  <2>2. CASE q.t.rev # NoRev /\ ~Scoped
    <3>1. q.t.scope = NoKey /\ call.answer.scope = NoKey
      BY <1>3, <2>2 DEF TopicTidy, Scopes, AnswerSound, PollAnswers
    <3>2. call.cursor <= call.answer.rev
      <4>1. CASE call.cursor = NoRev
        BY <4>1 DEF AnswerSound, NoRev, PollAnswers, Revs
      <4>2. CASE call.cursor # NoRev
        BY <2>2, <3>1, <4>2 DEF CallCovered, AnswerSound, Scopes
      <4> QED
        BY <4>1, <4>2
    <3> QED
      BY <1>2, <3>1, <3>2 DEF Grows
  <2> QED
    BY <2>1, <2>2 DEF Grows
<1> QED
  BY <1>1, <1>2, <1>3, <1>4, <1>5 DEF Moved, Framed

LEMMA SendUnsubscribeKeeps ==
    ASSUME NEW d, Base(d), ~Followed(d), NEW lg, Covered(d, lg)
    PROVE  LET e == SendUnsubscribe(d)
           IN /\ Base(e) /\ Covered(e, lg) /\ e.t = d.t /\ e.ids = d.ids /\ e.open = d.open /\ e.closed = d.closed
              /\ e.loop = d.loop /\ \A s \in Slots \ {"unsub"} : e.net[s] = d.net[s]
<1>1. d \in Clients /\ Named(d) /\ Queued(d) /\ TopicTidy(d) /\ OneRung(d) /\ d.ops \in Seq(SocketOps) /\ d.net \in Nets
      /\ d.t.id = 0 /\ d.ids \in Nat
  BY FollowedTopic DEF Base, Clients
<1>2. PICK o : o = Op("unsubscribe", 0)
  OBVIOUS
<1>3. o \in SocketOps /\ o.kind = "unsubscribe" /\ o.id = 0
  BY <1>2 DEF Op, SocketOps
<1>4. PICK ops : ops = Append(d.ops, o)
  OBVIOUS
<1>5. /\ ops \in Seq(SocketOps) /\ Len(ops) = Len(d.ops) + 1 /\ DOMAIN ops = 1 .. Len(ops)
      /\ DOMAIN d.ops = 1 .. Len(d.ops) /\ Len(d.ops) \in Nat
      /\ ops[Len(ops)] = o /\ \A i \in DOMAIN d.ops : ops[i] = d.ops[i]
      /\ d.ops = << >> => Head(ops) = o /\ Tail(ops) = << >>
  BY <1>1, <1>3, <1>4
<1>6. PICK q : q = [d EXCEPT !.ops = ops]
  OBVIOUS
<1>7. /\ q \in Clients /\ q.ops = ops /\ q.t = d.t /\ q.net = d.net /\ q.ids = d.ids /\ q.open = d.open /\ q.closed = d.closed
      /\ q.headers = d.headers /\ q.loop = d.loop
      /\ q.applied = d.applied /\ q.base = d.base /\ q.uncovered = d.uncovered
  BY <1>1, <1>5, <1>6 DEF Clients
<1>8. \A i \in DOMAIN ops : (ops[i] = o \/ (i \in DOMAIN d.ops /\ ops[i] = d.ops[i])) /\ ~Own(q, ops[i])
  BY <1>1, <1>3, <1>5, <1>7 DEF Own, Named
<1>9. Named(q)
  <2>1. ASSUME NEW i \in DOMAIN ops PROVE ops[i].id <= d.ids /\ (ops[i].kind = "subscribe" => ops[i].id # 0)
    BY <1>1, <1>3, <1>8 DEF Named
  <2> QED
    BY <1>1, <1>7, <2>1 DEF Named
<1>10. d.net["op"] # NoCall => d.ops # << >> /\ ops[1] = d.ops[1]
  BY <1>1, <1>5 DEF Queued
<1>11. d.net["unsub"] # NoCall => d.ops # << >>
  BY <1>1 DEF Queued
<1>12. ops # << >> /\ 1 \in DOMAIN ops
  BY <1>5
<1>13. Queued(q)
  BY <1>1, <1>7, <1>8, <1>10, <1>12 DEF Queued, Followed
<1>14. Base(q)
  BY <1>1, <1>7, <1>9, <1>13 DEF Base, TopicTidy, OneRung, Followed
<1>15. Covered(q, lg)
  BY <1>7, RenetCovers
<1>16. PICK e : e = SendUnsubscribe(d)
  OBVIOUS
<1>17. e = IF d.ops = << >> THEN StartOp(q) ELSE q
  BY <1>2, <1>4, <1>6, <1>16 DEF SendUnsubscribe, OnSocket
<1>18. CASE d.ops # << >>
  BY <1>7, <1>14, <1>15, <1>16, <1>17, <1>18
<1>19. CASE d.ops = << >> /\ d.open
  <2>1. e = SendUnsubscribeCall(q)
    BY <1>3, <1>5, <1>7, <1>17, <1>19 DEF StartOp
  <2>2. PICK net : net = [d.net EXCEPT !["unsub"] = [phase |-> "sent"]]
    OBVIOUS
  <2>3. [phase |-> "sent"] \in UnsubscribeCalls /\ [phase |-> "sent"] \notin Calls /\ [phase |-> "sent"] # NoCall
    BY DEF UnsubscribeCalls, Calls, NoCall
  <2>4. net \in Nets /\ net["unsub"] = [phase |-> "sent"] /\ \A s \in Slots \ {"unsub"} : net[s] = d.net[s]
    BY <1>1, <2>2, <2>3 DEF Nets, Slots
  <2>5. d.net["op"] = NoCall
    BY <1>1, <1>19 DEF Queued
  <2>6. Nettable(q, net)
    BY <1>1, <1>7, <1>8, <1>12, <2>3, <2>4, <2>5 DEF Nettable, Named, TopicTidy, OneRung, Slots, Followed
  <2>7. e = [q EXCEPT !.net = net]
    BY <1>7, <2>1, <2>2 DEF SendUnsubscribeCall
  <2>8. /\ Base(e) /\ e.net = net /\ e.t = q.t /\ e.ids = q.ids /\ e.open = q.open /\ e.closed = q.closed
        /\ e.loop = q.loop /\ e.applied = q.applied /\ e.base = q.base /\ e.uncovered = q.uncovered
    BY <1>14, <2>6, <2>7, RenetKeeps
  <2>9. Covered(e, lg)
    <3>1. \A s \in Polls : e.net[s] = q.net[s]
      BY <1>7, <2>4, <2>8 DEF Polls, Slots
    <3>2. e.net["op"] = q.net["op"]
      BY <1>7, <2>4, <2>8 DEF Slots
    <3> QED
      BY <1>15, <2>8, <3>1, <3>2, RenetCovers
  <2> QED
    BY <1>7, <1>16, <2>4, <2>8, <2>9
<1>20. CASE d.ops = << >> /\ ~d.open
  <2>1. e = [q EXCEPT !.ops = << >>]
    BY <1>3, <1>5, <1>7, <1>17, <1>20 DEF StartOp
  <2>2. e = d
    BY <1>1, <1>6, <1>20, <2>1 DEF Clients
  <2> QED
    BY <1>16, <2>2
<1> QED
  BY <1>18, <1>19, <1>20

LEMMA EndTopicKeeps ==
    ASSUME NEW d, Base(d), Followed(d), NEW lg, Covered(d, lg)
    PROVE  LET e == EndTopic(d)
           IN /\ Good(e, lg) /\ ~Followed(e) /\ e.t = NoTopic /\ e.ids = d.ids /\ e.open = d.open /\ e.closed = d.closed
              /\ ~ShouldPoll(e)
              /\ \A s \in Slots \ {"unsub"} : e.net[s] = d.net[s]
              /\ d.t.socket # "subscribed" => e.net = d.net /\ e.ops = d.ops
              /\ Moved(d, e)
<1>1. d \in Clients /\ Named(d) /\ Queued(d) /\ TopicTidy(d) /\ OneRung(d) /\ d.t.id # 0 /\ d.t.id \in Nat /\ d.ids \in Nat
  BY FollowedTopic DEF Base
<1>2. PICK q : q = [d EXCEPT !.t = NoTopic]
  OBVIOUS
<1>3. /\ q \in Clients /\ q.t = NoTopic /\ q.ops = d.ops /\ q.net = d.net /\ q.ids = d.ids /\ q.open = d.open /\ q.closed = d.closed
      /\ q.headers = d.headers /\ q.loop = d.loop
      /\ q.applied = d.applied /\ q.base = d.base /\ q.uncovered = d.uncovered
  BY <1>1, <1>2 DEF Clients
<1>4. q.t.id = 0 /\ ~Followed(q)
  BY <1>3 DEF NoTopic, Followed
<1>5. d.net["unsub"] # NoCall => d.ops # << >> /\ ~Own(q, d.ops[1])
  <2>1. d.ops # << >> => 1 \in DOMAIN d.ops
    BY <1>1 DEF Clients
  <2> QED
    BY <1>1, <1>4, <2>1 DEF Queued, Own, Named
<1>6. \A i \in DOMAIN d.ops : ~Own(q, d.ops[i])
  BY <1>1, <1>4 DEF Own, Named
<1>7. Named(q)
  BY <1>1, <1>3, <1>4 DEF Named
<1>8. Queued(q)
  BY <1>1, <1>3, <1>4, <1>5, <1>6 DEF Queued
<1>9. Base(q)
  BY <1>1, <1>3, <1>4, <1>7, <1>8 DEF Base, TopicTidy, OneRung
<1>10. Covered(q, lg)
  <2>1. ASSUME NEW s \in Polls, q.net[s] # NoCall PROVE CallCovered(q, lg, q.net[s])
    <3>1. q.net[s] \in Calls /\ s \in Slots
      BY <1>7, <2>1 DEF Named, Polls, Slots
    <3>2. q.net[s].id # 0
      BY <3>1 DEF Calls
    <3>3. CallCovered(d, lg, q.net[s])
      BY <1>3, <2>1 DEF Covered, CallsCovered
    <3> QED
      BY <1>4, <3>2, <3>3 DEF CallCovered
  <2>2. CallsCovered(q, lg)
    BY <1>3, <2>1 DEF Covered, CallsCovered
  <2> QED
    BY <1>4, <2>2 DEF Covered, TopicCovered
<1>11. PICK r : r = IF d.t.socket = "subscribed" THEN SendUnsubscribe(q) ELSE q
  OBVIOUS
<1>12. /\ Base(r) /\ Covered(r, lg) /\ r.t = q.t /\ r.ids = q.ids /\ r.open = q.open /\ r.closed = q.closed
       /\ \A s \in Slots \ {"unsub"} : r.net[s] = q.net[s]
       /\ d.t.socket # "subscribed" => r = q
  <2>1. CASE d.t.socket = "subscribed"
    BY <1>4, <1>9, <1>10, <1>11, <2>1, SendUnsubscribeKeeps
  <2>2. CASE d.t.socket # "subscribed"
    BY <1>9, <1>10, <1>11, <2>2
  <2> QED
    BY <2>1, <2>2
<1>13. PICK e : e = EndTopic(d)
  OBVIOUS
<1>14. e = EnsureLoop(r)
  BY <1>2, <1>11, <1>13 DEF EndTopic
<1>15. Core(e) /\ Same(r, e)
  BY <1>12, <1>14, EnsureLoopKeeps
<1>16. Covered(e, lg)
  BY <1>12, <1>15, SameCovers
<1>17. ~Followed(e) /\ e.t = NoTopic /\ e.t.id = 0 /\ e.ids = d.ids /\ e.open = d.open /\ e.closed = d.closed
       /\ e.net = r.net /\ e.ops = r.ops
  BY <1>3, <1>4, <1>12, <1>15 DEF Same, Followed
<1>18. Good(e, lg) /\ ~ShouldPoll(e)
  BY <1>15, <1>16, <1>17 DEF Good, Settled, ShouldPoll
<1>19. \A s \in Slots \ {"unsub"} : e.net[s] = d.net[s]
  BY <1>3, <1>12, <1>17
<1>20. Moved(d, e)
  <2>1. e.net["op"] = d.net["op"]
    BY <1>19 DEF Slots
  <2> QED
    BY <1>1, <1>17, <2>1 DEF Moved, Serves, Grows
<1> QED
  BY <1>3, <1>12, <1>13, <1>17, <1>18, <1>19, <1>20

(* The client, but for the ladder.                                          *)
Ready(d, lg) == Base(d) /\ Settled(d) /\ Covered(d, lg)

LEMMA GoodIsReady ==
    ASSUME NEW d, NEW lg, Good(d, lg)
    PROVE  Ready(d, lg) /\ Core(d) /\ Base(d) /\ Settled(d) /\ Covered(d, lg)
BY DEF Good, Core, Ready

LEMMA Ensured ==
    ASSUME NEW d, NEW lg, Ready(d, lg)
    PROVE  LET e == EnsureLoop(d) IN Good(e, lg) /\ Same(d, e) /\ (ShouldPoll(e) => e.loop # "idle")
<1>1. PICK e : e = EnsureLoop(d)
  OBVIOUS
<1>2. Base(d) /\ Settled(d) /\ Covered(d, lg)
  BY DEF Ready
<1>3. Core(e) /\ Same(d, e) /\ (ShouldPoll(e) => e.loop # "idle")
  BY <1>1, <1>2, EnsureLoopKeeps
<1>4. Settled(e)
  BY <1>2, <1>3, SameSettled
<1>5. Covered(e, lg)
  BY <1>2, <1>3, SameCovers
<1> QED
  BY <1>1, <1>3, <1>4, <1>5 DEF Good

LEMMA Scheduled ==
    ASSUME NEW d, NEW lg, Good(d, lg)
    PROVE  LET e == ScheduleCheck(d) IN Good(e, lg) /\ Same(d, e)
<1>1. PICK e : e = ScheduleCheck(d)
  OBVIOUS
<1>2. Core(d) /\ Settled(d) /\ Covered(d, lg)
  BY DEF Good
<1>3. Core(e) /\ Same(d, e)
  BY <1>1, <1>2, ScheduleCheckKeeps
<1>4. Settled(e) /\ Covered(e, lg)
  BY <1>2, <1>3, SameSettled, SameCovers
<1> QED
  BY <1>1, <1>3, <1>4 DEF Good

LEMMA MovedTransitive ==
    ASSUME NEW d, NEW e, NEW f, Base(d), Base(e), Base(f), Moved(d, e), Moved(e, f),
           e.t.id = d.t.id \/ ~Followed(f)
    PROVE  Moved(d, f)
<1>1. /\ Followed(d) => d.t.rev \in Int /\ d.t.id # 0
      /\ Followed(e) => e.t.rev \in Int
      /\ Followed(f) => f.t.rev \in Int
      /\ (Followed(d) <=> d.t.id # 0) /\ (Followed(e) <=> e.t.id # 0) /\ (Followed(f) <=> f.t.id # 0)
  BY FollowedTopic
<1>2. Serves(d, f)
  <2>1. NoCall.phase = "none"
    BY DEF NoCall
  <2> QED
    BY <2>1 DEF Moved, Serves
<1>3. Grows(d, f)
  BY <1>1 DEF Moved, Grows
<1> QED
  BY <1>2, <1>3 DEF Moved

LEMMA DriftsMove ==
    ASSUME NEW d, NEW e, Core(d), Core(e), Followed(d), Drifts(d, e)
    PROVE  Moved(d, e) /\ Followed(e)
<1>1. d \in Clients /\ e \in Clients /\ d.t.id # 0 /\ e.t.id = d.t.id /\ Base(e)
  BY FollowedTopic DEF Core, Drifts, Framed
<1>2. Followed(e)
  BY <1>1, FollowedTopic
<1>3. Serves(d, e)
  <2>1. e.ops = << >> => d.ops = << >> /\ e.t.socket = d.t.socket
    BY <1>1 DEF Drifts, Framed, Clients
  <2> QED
    BY <2>1 DEF Serves, Drifts, Framed
<1> QED
  BY <1>1, <1>2, <1>3 DEF Moved, Grows, Drifts, Framed

LEMMA DriftsSettle ==
    ASSUME NEW d, NEW e, Core(d), Core(e), Followed(d), Settled(d), Drifts(d, e)
    PROVE  Settled(e)
<1>1. d.t \in Topics /\ e.t \in Topics /\ d.t.rev \in Int /\ e.t.rev \in Int /\ d.t.rev >= NoRev
  BY DriftsMove, FollowedTopic DEF Core
<1>2. Len(e.ops) = Len(d.ops) => e.t.socket = d.t.socket
  BY DEF Drifts, Framed
<1>3. Len(e.ops) # Len(d.ops) => e.t.socket = "subscribing"
  BY DEF Drifts, Framed
<1>4. e.t.socket = "subscribed" => e.t.rev # NoRev
  <2>1. d.t.socket = "subscribed" => d.t.rev # NoRev
    BY DEF Settled
  <2>2. e.t.rev >= d.t.rev
    BY DEF Drifts
  <2> QED
    BY <1>1, <1>2, <1>3, <2>1, <2>2 DEF NoRev
<1> QED
  BY <1>4 DEF Settled, Drifts, Framed

LEMMA SoundIsGood ==
    ASSUME NEW d, NEW e, NEW lg, Good(d, lg), Followed(d), Sound(e, lg), Drifts(d, e)
    PROVE  Good(e, lg) /\ Moved(d, e)
<1>1. Core(d) /\ Core(e) /\ Settled(d) /\ Covered(e, lg)
  BY DEF Good, Sound
<1> QED
  BY <1>1, DriftsMove, DriftsSettle DEF Good

(* Other flags of the topic.                                                *)
LEMMA RetypeReady ==
    ASSUME NEW d, NEW lg, Ready(d, lg), Followed(d), NEW t, Topical(d, t),
           t.rev = d.t.rev, t.scope = d.t.scope, t.pending = d.t.pending \/ t.pending = << >>,
           t.socket = d.t.socket \/ t.socket # "subscribed",
           t.gapRev # NoRev => t.gapInFlight
    PROVE  LET e == [d EXCEPT !.t = t]
           IN /\ Ready(e, lg) /\ Moved(d, e) /\ Followed(e) /\ e.t = t /\ e.ids = d.ids
              /\ e.net = d.net /\ e.ops = d.ops /\ e.loop = d.loop /\ e.open = d.open /\ e.closed = d.closed
              /\ e.headers = d.headers
              /\ e.applied = d.applied /\ e.base = d.base /\ e.uncovered = d.uncovered
<1>1. Base(d) /\ Settled(d) /\ Covered(d, lg)
  BY DEF Ready
<1>2. PICK e : e = [d EXCEPT !.t = t]
  OBVIOUS
<1>3. /\ Base(e) /\ Followed(e) /\ e.t = t /\ e.net = d.net /\ e.ids = d.ids /\ e.open = d.open
      /\ e.closed = d.closed /\ e.headers = d.headers /\ e.loop = d.loop /\ e.ops = d.ops
      /\ e.applied = d.applied /\ e.base = d.base /\ e.uncovered = d.uncovered
      /\ Covered(e, lg)
  BY <1>1, <1>2, RetypeKeeps
<1>4. Settled(e)
  BY <1>1, <1>3 DEF Settled, Gapped
<1>5. Moved(d, e)
  <2>1. d.t.rev \in Int
    BY <1>1, FollowedTopic
  <2> QED
    BY <1>3, <2>1 DEF Moved, Serves, Grows
<1> QED
  BY <1>2, <1>3, <1>4, <1>5 DEF Ready

-----------------------------------------------------------------------------
(* The polls of the ladder and of the check.                                *)

(* An answer to a poll that was not for the topic of the moment, a failure, *)
(* a refusal or an answer.                                                  *)
PollTaken(q, call) ==
    IF ~Follows(q, call.id) \/ call.phase = "transient" THEN q
    ELSE IF call.phase = "ok" THEN ApplyTopicAnswer(q, call) ELSE EndTopic(q)

LEMMA CallFacts ==
    ASSUME NEW d, NEW lg, Good(d, lg), NEW slot \in Polls, d.net[slot] # NoCall
    PROVE  LET call == d.net[slot]
           IN /\ call \in Calls /\ call.id # 0 /\ call.id <= d.ids /\ CallCovered(d, lg, call)
              /\ call.phase = "ok" => AnswerSound(lg, call)
              /\ call.phase \in {"sent", "recorded", "ok", "transient", "refused"}
<1>1. slot \in Slots \ {"unsub"}
  BY DEF Polls, Slots
<1>2. d.net[slot] \in Calls /\ d.net[slot].id <= d.ids
  BY <1>1 DEF Good, Core, Base, Named
<1>3. d.net[slot].id # 0 /\ d.net[slot].phase \in {"sent", "recorded", "ok", "transient", "refused"}
  BY <1>2 DEF Calls
<1> QED
  BY <1>2, <1>3 DEF Good, Covered, CallsCovered

LEMMA PollTakenGood ==
    ASSUME NEW q, NEW lg \in Logs, Good(q, lg), NEW call \in Calls, CallCovered(q, lg, call),
           call.phase = "ok" => AnswerSound(lg, call)
    PROVE  LET e == PollTaken(q, call)
           IN /\ Good(e, lg) /\ Moved(q, e) /\ e.closed = q.closed
              /\ \A s \in {"rung", "check"} : e.net[s] = q.net[s]
<1>1. Core(q) /\ Base(q) /\ Settled(q) /\ Covered(q, lg)
  BY GoodIsReady
<1>2. CASE ~Follows(q, call.id) \/ call.phase = "transient"
  BY <1>1, <1>2, StaysMoved DEF PollTaken
<1>3. CASE Follows(q, call.id) /\ call.phase # "transient"
  <2>1. Followed(q) /\ call.id = q.t.id
    BY <1>1, <1>3, FollowedTopic DEF Follows, Calls
  <2>2. CASE call.phase = "ok"
    <3>1. PICK e : e = ApplyTopicAnswer(q, call)
      OBVIOUS
    <3>2. q.t.socket = "subscribed" => q.t.rev # NoRev
      BY <1>1, <2>1 DEF Settled
    <3>3. Core(e) /\ Covered(e, lg) /\ Followed(e) /\ Framed(q, e) /\ e.t.rev # NoRev /\ Moved(q, e)
      BY <1>1, <2>1, <2>2, <3>1, <3>2, PollApplied
    <3>4. Settled(e)
      BY <1>1, <2>1, <3>3 DEF Settled, Framed
    <3>5. e = PollTaken(q, call)
      BY <1>3, <2>2, <3>1 DEF PollTaken
    <3> QED
      BY <3>3, <3>4, <3>5 DEF Good, Framed
  <2>3. CASE call.phase # "ok"
    <3>1. PICK e : e = EndTopic(q)
      OBVIOUS
    <3>2. Good(e, lg) /\ Moved(q, e) /\ e.closed = q.closed /\ \A s \in Slots \ {"unsub"} : e.net[s] = q.net[s]
      BY <1>1, <2>1, <3>1, EndTopicKeeps
    <3>3. e = PollTaken(q, call)
      BY <1>3, <2>3, <3>1 DEF PollTaken
    <3> QED
      BY <3>2, <3>3 DEF Slots
  <2> QED
    BY <2>2, <2>3
<1> QED
  BY <1>2, <1>3

(* What a step of the client owes.                                          *)
Owed(d, lg, e) == Good(e, lg) /\ Moved(d, e)

LEMMA RungAnsweredGood ==
    ASSUME NEW d, NEW lg \in Logs, Good(d, lg), d.net["rung"] # NoCall
    PROVE  d.net["rung"].phase \in Ended => Owed(d, lg, RungAnswered(d))
<1> SUFFICES ASSUME d.net["rung"].phase \in Ended PROVE Owed(d, lg, RungAnswered(d))
  OBVIOUS
<1>1. PICK slot \in Polls : slot = "rung"
  BY DEF Polls
<1>2. PICK call : call = d.net["rung"]
  OBVIOUS
<1>3. call \in Calls /\ CallCovered(d, lg, call) /\ (call.phase = "ok" => AnswerSound(lg, call))
  BY <1>1, <1>2, CallFacts
<1>4. PICK q : q = [d EXCEPT !.net["rung"] = NoCall]
  OBVIOUS
<1>5. Good(q, lg) /\ Kept(d, q) /\ q.t = d.t /\ q.net["rung"] = NoCall
      /\ q.applied = d.applied /\ q.base = d.base /\ q.uncovered = d.uncovered
  BY <1>1, <1>4, ClearPoll
<1>6. CallCovered(q, lg, call)
  BY <1>3, <1>5 DEF CallCovered, Covers, KnownOf
<1>7. \A id : Follows(q, id) <=> Follows(d, id)
  BY <1>5 DEF Follows, Kept
<1>8. PICK x : x = PollTaken(q, call)
  OBVIOUS
<1>9. Good(x, lg) /\ Moved(q, x) /\ x.net["rung"] = NoCall /\ x.closed = d.closed
  BY <1>3, <1>5, <1>6, <1>8, PollTakenGood DEF Kept
<1>10. x = IF ~Follows(d, call.id) \/ call.phase = "transient" THEN q
           ELSE IF call.phase = "ok" THEN ApplyTopicAnswer(q, call)
           ELSE EndTopic(q)
  BY <1>7, <1>8 DEF PollTaken
<1>11. PICK e : e = RungAnswered(d)
  OBVIOUS
<1>12. CASE d.closed
  <2>1. e = q
    BY <1>4, <1>11, <1>12 DEF RungAnswered
  <2>2. Moved(q, q)
    BY <1>5, StaysMoved, GoodIsReady
  <2>3. Moved(d, q)
    BY <1>5, <2>2, KeptMoves
  <2> QED
    BY <1>5, <1>11, <2>1, <2>3 DEF Owed
<1>13. CASE ~d.closed
  <2>1. PICK loop \in {"idle", "waiting", "polling"} : loop = IF ShouldPoll(x) THEN "waiting" ELSE "idle"
    OBVIOUS
  <2>2. PICK timer : timer = x.checkTimer
    OBVIOUS
  <2>3. PICK f : f = [x EXCEPT !.loop = loop, !.checkTimer = timer]
    OBVIOUS
  <2>4. x \in Clients /\ Named(x) /\ Queued(x) /\ TopicTidy(x) /\ timer \in BOOLEAN
    BY <1>9, <2>2, GoodIsReady DEF Base, Clients
  <2>5. Core(f) /\ Same(x, f)
    <3>1. x.net["rung"] # NoCall /\ ~x.closed => loop = "polling"
      BY <1>9
    <3>2. ShouldPoll(x) => loop # "idle" \/ LastOwn(x)
      BY <2>1
    <3> QED
      BY <2>1, <2>3, <2>4, <3>1, <3>2, ReloopKeeps
  <2>6. e = f
    <3>1. f = [x EXCEPT !.loop = loop]
      BY <2>2, <2>3, <2>4 DEF Clients
    <3> QED
      BY <1>2, <1>4, <1>10, <1>11, <1>13, <2>1, <3>1 DEF RungAnswered
  <2>7. Good(f, lg)
    BY <1>9, <2>5, GoodIsReady, SameSettled, SameCovers DEF Good
  <2>8. Moved(d, f)
    BY <1>5, <1>9, <2>5, SameMoves, KeptMoves
  <2> QED
    BY <1>11, <2>6, <2>7, <2>8 DEF Owed
<1> QED
  BY <1>12, <1>13

LEMMA CheckAnsweredGood ==
    ASSUME NEW d, NEW lg \in Logs, Good(d, lg), d.net["check"] # NoCall
    PROVE  d.net["check"].phase \in Ended => Owed(d, lg, CheckAnswered(d))
<1> SUFFICES ASSUME d.net["check"].phase \in Ended PROVE Owed(d, lg, CheckAnswered(d))
  OBVIOUS
<1>1. PICK slot \in Polls : slot = "check"
  BY DEF Polls
<1>2. PICK call : call = d.net["check"]
  OBVIOUS
<1>3. call \in Calls /\ CallCovered(d, lg, call) /\ (call.phase = "ok" => AnswerSound(lg, call))
  BY <1>1, <1>2, CallFacts
<1>4. PICK q : q = [d EXCEPT !.net["check"] = NoCall]
  OBVIOUS
<1>5. Good(q, lg) /\ Kept(d, q) /\ q.t = d.t /\ q.net["check"] = NoCall
      /\ q.applied = d.applied /\ q.base = d.base /\ q.uncovered = d.uncovered
  BY <1>1, <1>4, ClearPoll
<1>6. CallCovered(q, lg, call)
  BY <1>3, <1>5 DEF CallCovered, Covers, KnownOf
<1>7. \A id : Follows(q, id) <=> Follows(d, id)
  BY <1>5 DEF Follows, Kept
<1>8. Ready(q, lg) /\ Base(q)
  BY <1>5, GoodIsReady
<1>9. PICK x : x = IF Follows(d, call.id) /\ call.phase = "transient"
                   THEN [q EXCEPT !.t.behind = @ \/ call.current] ELSE PollTaken(q, call)
  OBVIOUS
<1>10. Ready(x, lg) /\ Moved(q, x)
  <2>1. CASE ~Follows(d, call.id) \/ call.phase # "transient"
    <3>1. x = PollTaken(q, call)
      BY <1>9, <2>1
    <3> QED
      BY <1>3, <1>5, <1>6, <3>1, PollTakenGood, GoodIsReady
  <2>2. CASE Follows(d, call.id) /\ call.phase = "transient"
    <3>1. Followed(q) /\ q.t \in Topics
      BY <1>3, <1>7, <1>8, <2>2, FollowedTopic DEF Follows, Calls
    <3>2. PICK behind \in BOOLEAN : behind = (q.t.behind \/ call.current)
      OBVIOUS
    <3>3. PICK t : t = [q.t EXCEPT !.behind = behind]
      OBVIOUS
    <3>4. t \in Topics
      BY <3>1, <3>2, <3>3 DEF Topics
    <3>5. /\ t.id = q.t.id /\ t.rev = q.t.rev /\ t.socket = q.t.socket /\ t.pending = q.t.pending
          /\ t.gapInFlight = q.t.gapInFlight /\ t.gapRev = q.t.gapRev /\ t.scope = q.t.scope
          /\ t.refreshing = q.t.refreshing
      BY <3>1, <3>3 DEF Topics
    <3>6. Topical(q, t)
      BY <1>8, <3>1, <3>4, <3>5 DEF Topical, Base, TopicTidy, Queued
    <3>7. t.gapRev # NoRev => t.gapInFlight
      BY <1>8, <3>1, <3>5 DEF Ready, Settled, Gapped
    <3>8. x = [q EXCEPT !.t = t]
      BY <1>9, <2>2, <3>2, <3>3
    <3> QED
      BY <1>8, <3>1, <3>5, <3>6, <3>7, <3>8, RetypeReady
  <2> QED
    BY <2>1, <2>2
<1>11. PICK e : e = CheckAnswered(d)
  OBVIOUS
<1>12. CASE d.closed
  <2>1. e = q
    BY <1>4, <1>11, <1>12 DEF CheckAnswered
  <2>2. Moved(q, q)
    BY <1>5, StaysMoved, GoodIsReady
  <2>3. Moved(d, q)
    BY <1>5, <2>2, KeptMoves
  <2> QED
    BY <1>5, <1>11, <2>1, <2>3 DEF Owed
<1>13. CASE ~d.closed
  <2>1. e = ScheduleCheck(EnsureLoop(x))
    <3>1. CASE ~Follows(d, call.id)
      <4>1. x = q
        BY <1>7, <1>9, <3>1 DEF PollTaken
      <4> QED
        BY <1>2, <1>4, <1>11, <1>13, <3>1, <4>1 DEF CheckAnswered
    <3>2. CASE Follows(d, call.id) /\ call.phase = "ok"
      <4>1. x = ApplyTopicAnswer(q, call)
        BY <1>7, <1>9, <3>2 DEF PollTaken
      <4> QED
        BY <1>2, <1>4, <1>11, <1>13, <3>2, <4>1 DEF CheckAnswered
    <3>3. CASE Follows(d, call.id) /\ call.phase = "refused"
      <4>1. x = EndTopic(q)
        BY <1>7, <1>9, <3>3 DEF PollTaken
      <4> QED
        BY <1>2, <1>4, <1>11, <1>13, <3>3, <4>1 DEF CheckAnswered
    <3>4. CASE Follows(d, call.id) /\ call.phase = "transient"
      <4>1. x = [q EXCEPT !.t.behind = @ \/ call.current]
        BY <1>9, <3>4
      <4> QED
        BY <1>2, <1>4, <1>11, <1>13, <3>4, <4>1 DEF CheckAnswered
    <3> QED
      BY <1>2, <3>1, <3>2, <3>3, <3>4 DEF Ended
  <2>2. PICK y : y = EnsureLoop(x)
    OBVIOUS
  <2>3. Good(y, lg) /\ Same(x, y)
    BY <1>10, <2>2, Ensured
  <2>4. Good(e, lg) /\ Same(y, e)
    BY <2>1, <2>2, <2>3, Scheduled
  <2>5. Moved(d, e)
    BY <1>5, <1>10, <2>3, <2>4, SameMoves, KeptMoves
  <2> QED
    BY <1>11, <2>4, <2>5 DEF Owed
<1> QED
  BY <1>12, <1>13

(* A gap poll of the topic of the moment is over.                           *)
LEMMA GapCleared ==
    ASSUME NEW d, NEW lg \in Logs, Good(d, lg), d.net["gap"] # NoCall, Followed(d), d.net["gap"].id = d.t.id
    PROVE  LET q == [d EXCEPT !.net["gap"] = NoCall, !.t.gapInFlight = FALSE]
           IN /\ Core(q) /\ Covered(q, lg) /\ Kept(d, q) /\ q.t = [d.t EXCEPT !.gapInFlight = FALSE]
              /\ q.t.socket = "subscribed" => q.t.rev # NoRev
              /\ q.applied = d.applied /\ q.base = d.base /\ q.uncovered = d.uncovered
<1>1. Core(d) /\ Base(d) /\ Settled(d) /\ Covered(d, lg) /\ d \in Clients /\ d.net \in Nets /\ d.t \in Topics
  BY GoodIsReady, FollowedTopic DEF Clients
<1>2. PICK t : t = [d.t EXCEPT !.gapInFlight = FALSE]
  OBVIOUS
<1>3. t \in Topics
  BY <1>1, <1>2 DEF Topics
<1>4. /\ t.id = d.t.id /\ t.rev = d.t.rev /\ t.socket = d.t.socket /\ t.pending = d.t.pending
      /\ t.gapInFlight = FALSE /\ t.scope = d.t.scope /\ t.refreshing = d.t.refreshing /\ t.behind = d.t.behind
  BY <1>1, <1>2 DEF Topics
<1>5. Topical(d, t)
  BY <1>1, <1>3, <1>4 DEF Topical, Base, TopicTidy, Queued
<1>6. PICK x : x = [d EXCEPT !.t = t]
  OBVIOUS
<1>7. /\ Base(x) /\ Followed(x) /\ x.t = t /\ x.net = d.net /\ x.ids = d.ids /\ x.open = d.open
      /\ x.closed = d.closed /\ x.headers = d.headers /\ x.loop = d.loop /\ x.ops = d.ops
      /\ x.applied = d.applied /\ x.base = d.base /\ x.uncovered = d.uncovered
      /\ (LastOwn(x) <=> LastOwn(d)) /\ Covered(x, lg)
  BY <1>1, <1>4, <1>5, <1>6, RetypeKeeps
<1>8. PICK net : net = [d.net EXCEPT !["gap"] = NoCall]
  OBVIOUS
<1>9. net \in Nets /\ net["gap"] = NoCall /\ \A s \in Slots \ {"gap"} : net[s] = d.net[s]
  BY <1>1, <1>8 DEF Nets, Slots
<1>10. Nettable(x, net)
  <2>1. /\ net["op"] = x.net["op"] /\ net["unsub"] = x.net["unsub"] /\ net["rung"] = x.net["rung"]
    BY <1>7, <1>9 DEF Slots
  <2>2. ~x.t.gapInFlight
    BY <1>4, <1>7
  <2>3. \A s \in Slots \ {"unsub"} : net[s] # NoCall => net[s] \in Calls /\ net[s].id <= x.ids
    BY <1>7, <1>9 DEF Base, Named
  <2> QED
    BY <1>7, <1>9, <2>1, <2>2, <2>3 DEF Nettable, Base, Named, Queued, OneRung
<1>11. PICK q : q = [x EXCEPT !.net = net]
  OBVIOUS
<1>12. /\ Base(q) /\ q.net = net /\ q.t = t /\ q.ids = d.ids /\ q.open = d.open /\ q.closed = d.closed
       /\ q.headers = d.headers /\ q.loop = d.loop /\ q.ops = d.ops
       /\ q.applied = d.applied /\ q.base = d.base /\ q.uncovered = d.uncovered
       /\ (ShouldPoll(q) <=> ShouldPoll(x)) /\ (LastOwn(q) <=> LastOwn(d))
  BY <1>7, <1>10, <1>11, RenetKeeps
<1>13. Covered(q, lg)
  <2>1. \A s \in Polls : q.net[s] = x.net[s] \/ q.net[s] = NoCall
    BY <1>7, <1>9, <1>12 DEF Polls, Slots
  <2>2. q.net["op"] = x.net["op"]
    BY <1>7, <1>9, <1>12 DEF Slots
  <2> QED
    BY <1>7, <1>12, <2>1, <2>2, RenetCovers
<1>14. Core(q)
  <2>1. ShouldPoll(q) => ShouldPoll(d)
    BY <1>4, <1>7, <1>12 DEF ShouldPoll
  <2> QED
    BY <1>1, <1>12, <2>1 DEF Core, Base, Laddered
<1>15. Kept(d, q) /\ (q.t.socket = "subscribed" => q.t.rev # NoRev)
  BY <1>1, <1>4, <1>7, <1>9, <1>12 DEF Kept, Settled, Followed, Slots
<1>16. q = [d EXCEPT !.net["gap"] = NoCall, !.t.gapInFlight = FALSE]
  BY <1>1, <1>2, <1>6, <1>8, <1>11 DEF Clients
<1> QED
  BY <1>2, <1>12, <1>13, <1>14, <1>15, <1>16

LEMMA GapAgainGood ==
    ASSUME NEW d, NEW lg \in Logs, Sound(d, lg), d.t.rev # NoRev
    PROVE  Owed(d, lg, GapAgain(d))
<1>1. /\ d \in Clients /\ d.t \in Topics /\ Core(d) /\ Followed(d) /\ TopicTidy(d) /\ Covered(d, lg)
      /\ d.t.rev \in Int /\ Base(d)
  BY SoundTypes DEF Core
<1>2. PICK t : t = [d.t EXCEPT !.gapRev = NoRev]
  OBVIOUS
<1>3. t \in Topics
  BY <1>1, <1>2 DEF Topics, Revs
<1>4. /\ t.id = d.t.id /\ t.rev = d.t.rev /\ t.socket = d.t.socket /\ t.pending = d.t.pending
      /\ t.gapInFlight = d.t.gapInFlight /\ t.scope = d.t.scope /\ t.refreshing = d.t.refreshing
      /\ t.behind = d.t.behind /\ t.gapRev = NoRev
  BY <1>1, <1>2 DEF Topics
<1>5. Tidies(d, t)
  BY <1>1, <1>3, <1>4 DEF Tidies, TopicTidy
<1>6. PICK q : q = [d EXCEPT !.t = t]
  OBVIOUS
<1>7. Sound(q, lg) /\ Drifts(d, q) /\ q.t = t
  BY <1>4, <1>5, <1>6, FlagsSound
<1>8. Core(q) /\ Covered(q, lg) /\ Followed(q) /\ q.t.rev # NoRev
  BY <1>4, <1>7 DEF Sound
<1>9. Settled(q)
  BY <1>4, <1>7, <1>8 DEF Settled, Gapped
<1>10. Good(q, lg)
  BY <1>8, <1>9 DEF Good
<1>11. Moved(d, q)
  BY <1>1, <1>7, <1>8, DriftsMove
<1>12. PICK e : e = GapAgain(d)
  OBVIOUS
<1>13. CASE d.t.gapRev # NoRev /\ d.t.rev < d.t.gapRev
  <2>1. e = GapPoll(q, d.t.gapRev)
    BY <1>2, <1>6, <1>12, <1>13 DEF GapAgain
  <2>2. d.t.gapRev \in Revs
    BY <1>1 DEF Topics
  <2>3. Core(e) /\ Followed(e) /\ Drifts(q, e)
    BY <1>8, <2>1, <2>2, GapPollKeeps
  <2>4. Covered(e, lg)
    BY <1>8, <2>1, <2>2, GapPollCovers
  <2>5. Good(e, lg) /\ Moved(q, e)
    BY <1>8, <1>10, <2>3, <2>4, SoundIsGood DEF Sound
  <2>6. Moved(d, e)
    <3>1. q.t.id = d.t.id /\ Base(q) /\ Base(e)
      BY <1>4, <1>7, <1>8, <2>3 DEF Core
    <3> QED
      BY <1>1, <1>11, <2>5, <3>1, MovedTransitive
  <2> QED
    BY <1>12, <2>5, <2>6 DEF Owed
<1>14. CASE ~(d.t.gapRev # NoRev /\ d.t.rev < d.t.gapRev)
  <2>1. e = q
    BY <1>2, <1>6, <1>12, <1>14 DEF GapAgain
  <2> QED
    BY <1>10, <1>11, <1>12, <2>1 DEF Owed
<1> QED
  BY <1>13, <1>14

LEMMA GapAnsweredGood ==
    ASSUME NEW d, NEW lg \in Logs, Good(d, lg), d.net["gap"] # NoCall
    PROVE  d.net["gap"].phase \in Ended => Owed(d, lg, GapAnswered(d))
<1> SUFFICES ASSUME d.net["gap"].phase \in Ended PROVE Owed(d, lg, GapAnswered(d))
  OBVIOUS
<1>1. PICK slot \in Polls : slot = "gap"
  BY DEF Polls
<1>2. PICK call : call = d.net["gap"]
  OBVIOUS
<1>3. call \in Calls /\ call.id # 0 /\ CallCovered(d, lg, call) /\ (call.phase = "ok" => AnswerSound(lg, call))
  BY <1>1, <1>2, CallFacts
<1>4. PICK e : e = GapAnswered(d)
  OBVIOUS
<1>5. Core(d) /\ Base(d) /\ Settled(d) /\ Covered(d, lg) /\ TopicTidy(d)
  BY GoodIsReady DEF Base
<1>6. CASE ~Follows(d, call.id)
  <2>1. Followed(d) => ~d.t.gapInFlight
    BY <1>2, <1>5, <1>6 DEF TopicTidy, Follows
  <2>2. PICK q : q = [d EXCEPT !.net["gap"] = NoCall]
    OBVIOUS
  <2>3. Good(q, lg) /\ Kept(d, q)
    BY <1>1, <2>1, <2>2, ClearPoll
  <2>4. Moved(d, q)
    BY <2>3, StaysMoved, GoodIsReady, KeptMoves
  <2>5. e = q
    BY <1>2, <1>4, <1>6, <2>2 DEF GapAnswered
  <2> QED
    BY <1>4, <2>3, <2>4, <2>5 DEF Owed
<1>7. CASE Follows(d, call.id)
  <2>1. Followed(d) /\ call.id = d.t.id
    BY <1>3, <1>5, <1>7, FollowedTopic DEF Follows
  <2>2. PICK q : q = [d EXCEPT !.net["gap"] = NoCall, !.t.gapInFlight = FALSE]
    OBVIOUS
  <2>3. /\ Core(q) /\ Covered(q, lg) /\ Kept(d, q) /\ q.t = [d.t EXCEPT !.gapInFlight = FALSE]
        /\ q.t.socket = "subscribed" => q.t.rev # NoRev
        /\ q.applied = d.applied /\ q.base = d.base /\ q.uncovered = d.uncovered
    BY <1>2, <2>1, <2>2, GapCleared
  <2>4. Followed(q) /\ q.t.id = d.t.id /\ Base(q) /\ q.t \in Topics
    BY <2>1, <2>3, FollowedTopic DEF Kept, Core
  <2>5. CallCovered(q, lg, call)
    BY <1>3, <2>3, <2>4 DEF CallCovered, Covers, KnownOf
  <2>6. CASE call.phase = "ok"
    <3>1. PICK x : x = ApplyTopicAnswer(q, call)
      OBVIOUS
    <3>2. Core(x) /\ Covered(x, lg) /\ Followed(x) /\ Framed(q, x) /\ x.t.rev # NoRev /\ Moved(q, x)
      <4>1. call \in Calls /\ call.id = q.t.id /\ CallCovered(q, lg, call) /\ AnswerSound(lg, call)
        BY <1>3, <2>1, <2>4, <2>5, <2>6
      <4>2. Core(q) /\ Covered(q, lg) /\ Followed(q) /\ (q.t.socket = "subscribed" => q.t.rev # NoRev)
        BY <2>3, <2>4
      <4> QED
        BY <3>1, <4>1, <4>2, PollApplied
    <3>3. e = GapAgain(x)
      BY <1>2, <1>4, <1>7, <2>2, <2>6, <3>1 DEF GapAnswered
    <3>4. Good(e, lg) /\ Moved(x, e)
      BY <3>2, <3>3, GapAgainGood DEF Sound, Owed
    <3>5. Moved(q, e)
      <4>1. Base(x) /\ Base(e) /\ x.t.id = q.t.id
        BY <3>2, <3>4, GoodIsReady DEF Core, Framed
      <4> QED
        BY <2>4, <3>2, <3>4, <4>1, MovedTransitive
    <3> QED
      BY <1>4, <2>3, <3>4, <3>5, KeptMoves DEF Owed
  <2>7. CASE call.phase = "refused"
    <3>1. e = EndTopic(q)
      BY <1>2, <1>4, <1>7, <2>2, <2>7 DEF GapAnswered
    <3>2. Good(e, lg) /\ Moved(q, e)
      BY <2>3, <2>4, <3>1, EndTopicKeeps
    <3> QED
      BY <1>4, <2>3, <3>2, KeptMoves DEF Owed
  <2>8. CASE call.phase = "transient"
    <3>1. PICK t : t = [q.t EXCEPT !.gapRev = NoRev, !.behind = TRUE]
      OBVIOUS
    <3>2. t \in Topics
      BY <2>4, <3>1 DEF Topics, Revs
    <3>3. /\ t.id = q.t.id /\ t.rev = q.t.rev /\ t.socket = q.t.socket /\ t.pending = q.t.pending
          /\ t.gapInFlight = q.t.gapInFlight /\ t.gapRev = NoRev /\ t.scope = q.t.scope
          /\ t.refreshing = q.t.refreshing
      BY <2>4, <3>1 DEF Topics
    <3>4. Topical(q, t)
      BY <2>4, <3>2, <3>3 DEF Topical, Base, TopicTidy, Queued
    <3>5. PICK x : x = [q EXCEPT !.t = t]
      OBVIOUS
    <3>6. /\ Base(x) /\ Followed(x) /\ x.t = t /\ x.net = q.net /\ x.ids = q.ids /\ x.ops = q.ops /\ Covered(x, lg)
      <4>1. Base(q) /\ Followed(q) /\ Topical(q, t) /\ Covered(q, lg)
        BY <2>3, <2>4, <3>4
      <4>2. t.rev = q.t.rev /\ t.scope = q.t.scope /\ t.pending = q.t.pending
        BY <3>3
      <4> QED
        BY <3>5, <4>1, <4>2, RetypeKeeps
    <3>7. Settled(x)
      BY <2>3, <3>3, <3>6 DEF Settled, Gapped
    <3>8. Moved(q, x)
      <4>1. q.t.rev \in Int
        BY <2>4, FollowedTopic
      <4> QED
        BY <2>4, <3>3, <3>6, <4>1 DEF Moved, Serves, Grows
    <3>9. e = EnsureLoop(x)
      <4>1. x = [q EXCEPT !.t.gapRev = NoRev, !.t.behind = TRUE]
        BY <3>1, <3>5
      <4> QED
        BY <1>2, <1>4, <1>7, <2>2, <2>8, <4>1 DEF GapAnswered, FallBehind
    <3>10. Good(e, lg) /\ Same(x, e)
      BY <3>6, <3>7, <3>9, Ensured DEF Ready
    <3> QED
      BY <1>4, <2>3, <3>8, <3>10, SameMoves, KeptMoves DEF Owed
  <2> QED
    BY <1>2, <2>6, <2>7, <2>8 DEF Ended
<1> QED
  BY <1>6, <1>7

-----------------------------------------------------------------------------
(* The calls over the socket.                                               *)

LEMMA ServedOps ==
    ASSUME NEW d, Base(d), d.ops # << >>, Followed(d), d.t.socket = "subscribed"
    PROVE  Own(d, d.ops[1])
<1>1. 1 \in DOMAIN d.ops
  BY DEF Base, Clients
<1> QED
  BY <1>1 DEF Base, Queued

LEMMA OtherOpEnds ==
    ASSUME NEW d, NEW lg, Good(d, lg), d.ops # << >>, d.net["op"] = NoCall, d.net["unsub"] = NoCall,
           ~Own(d, d.ops[1])
    PROVE  Owed(d, lg, EndOp(d))
<1>1. Core(d) /\ Base(d) /\ Settled(d) /\ Covered(d, lg) /\ (ShouldPoll(d) => d.loop # "idle" \/ LastOwn(d))
  BY GoodIsReady DEF Core, Laddered
<1>2. PICK e : e = EndOp(d)
  OBVIOUS
<1>3. /\ Core(e) /\ e.ops = Tail(d.ops) /\ e.t = d.t /\ e.ids = d.ids /\ e.open = d.open
      /\ e.closed = d.closed /\ e.net = d.net
      /\ e.applied = d.applied /\ e.base = d.base /\ e.uncovered = d.uncovered
      /\ Covered(e, lg)
  BY <1>1, <1>2, EndOpKeeps
<1>4. Settled(e)
  BY <1>1, <1>3 DEF Settled, Gapped, Followed
<1>5. Moved(d, e)
  <2>1. ~(Followed(d) /\ d.t.socket = "subscribed")
    BY <1>1, ServedOps
  <2>2. Serves(d, e)
    BY <1>3, <2>1 DEF Serves, Followed
  <2>3. Followed(d) => d.t.rev \in Int
    BY <1>1, FollowedTopic
  <2> QED
    BY <1>3, <2>2, <2>3 DEF Moved, Grows
<1> QED
  BY <1>2, <1>3, <1>4, <1>5 DEF Good, Owed

(* Other calls of the socket in flight.                                     *)
LEMMA RenetGood ==
    ASSUME NEW d, NEW lg, Good(d, lg), NEW net, Nettable(d, net),
           \A s \in Polls : net[s] = d.net[s],
           net["op"] \in {d.net["op"], NoCall} \/ net["op"].phase = "sent"
    PROVE  LET e == [d EXCEPT !.net = net]
           IN /\ Good(e, lg) /\ Moved(d, e) /\ e.net = net /\ e.t = d.t /\ e.ops = d.ops /\ e.ids = d.ids
              /\ e.open = d.open /\ e.closed = d.closed /\ e.loop = d.loop
              /\ e.applied = d.applied /\ e.base = d.base /\ e.uncovered = d.uncovered
<1>1. Core(d) /\ Base(d) /\ Settled(d) /\ Covered(d, lg)
  BY GoodIsReady
<1>2. PICK e : e = [d EXCEPT !.net = net]
  OBVIOUS
<1>3. /\ Base(e) /\ e.net = net /\ e.t = d.t /\ e.ids = d.ids /\ e.open = d.open /\ e.closed = d.closed
      /\ e.headers = d.headers /\ e.loop = d.loop /\ e.ops = d.ops /\ e.checkTimer = d.checkTimer
      /\ e.applied = d.applied /\ e.base = d.base /\ e.uncovered = d.uncovered
      /\ (ShouldPoll(e) <=> ShouldPoll(d)) /\ (LastOwn(e) <=> LastOwn(d))
  BY <1>1, <1>2, RenetKeeps
<1>4. Core(e)
  BY <1>1, <1>3 DEF Core, Base, Laddered
<1>5. Settled(e)
  BY <1>1, <1>3 DEF Settled, Gapped, Followed
<1>6. Covered(e, lg)
  <2>1. \A s \in Polls : e.net[s] = d.net[s]
    BY <1>3
  <2>2. e.net["op"] = d.net["op"] \/ e.net["op"] = NoCall \/ e.net["op"].phase # "ok"
    BY <1>3
  <2> QED
    BY <1>1, <1>3, <2>1, <2>2, RenetCovers
<1>7. Moved(d, e)
  <2>1. Followed(d) => d.t.rev \in Int
    BY <1>1, FollowedTopic
  <2> QED
    BY <1>3, <2>1 DEF Moved, Serves, Grows, Followed
<1> QED
  BY <1>2, <1>3, <1>4, <1>5, <1>6, <1>7 DEF Good

LEMMA SlotFacts ==
    ASSUME NEW d, Base(d)
    PROVE  /\ d.net \in Nets /\ Slots = {"op", "unsub", "gap", "rung", "check"}
           /\ \A s \in Slots \ {"unsub"} : d.net[s] # NoCall => d.net[s] \in Calls /\ d.net[s].id <= d.ids
           /\ d.net["unsub"] \notin Calls
           /\ Followed(d) /\ d.t.gapInFlight => d.net["gap"] # NoCall /\ d.net["gap"].id = d.t.id
           /\ d.net["rung"] # NoCall /\ ~d.closed => d.loop = "polling"
BY DEF Base, Clients, Named, TopicTidy, OneRung, Slots

LEMMA SlotCleared ==
    ASSUME NEW d, NEW lg, Good(d, lg), NEW slot \in {"op", "unsub"}
    PROVE  LET e == [d EXCEPT !.net[slot] = NoCall]
           IN /\ Good(e, lg) /\ Moved(d, e) /\ e.net[slot] = NoCall /\ e.t = d.t /\ e.ops = d.ops /\ e.ids = d.ids
              /\ e.open = d.open /\ e.closed = d.closed /\ e.loop = d.loop
              /\ \A s \in Slots \ {slot} : e.net[s] = d.net[s]
              /\ e.applied = d.applied /\ e.base = d.base /\ e.uncovered = d.uncovered
<1>1. Base(d)
  BY GoodIsReady
<1>2. PICK net : net = [d.net EXCEPT ![slot] = NoCall]
  OBVIOUS
<1>3. net \in Nets /\ net[slot] = NoCall /\ \A s \in Slots \ {slot} : net[s] = d.net[s]
  BY <1>1, <1>2, SlotFacts DEF Nets
<1>4. Nettable(d, net)
  <2>1. \A s \in Slots : net[s] = d.net[s] \/ net[s] = NoCall
    BY <1>3
  <2>2. net["gap"] = d.net["gap"] /\ NoCall \notin Calls
    BY <1>3 DEF Slots, NoCall, Calls
  <2> QED
    BY <1>1, <1>3, <2>1, <2>2, SlotFacts DEF Nettable, Base, Queued
<1>5. PICK e : e = [d EXCEPT !.net = net]
  OBVIOUS
<1>6. \A s \in Polls : net[s] = d.net[s]
  BY <1>3 DEF Polls, Slots
<1>7. net["op"] \in {d.net["op"], NoCall}
  BY <1>3 DEF Slots
<1>8. /\ Good(e, lg) /\ Moved(d, e) /\ e.net = net /\ e.t = d.t /\ e.ops = d.ops /\ e.ids = d.ids
      /\ e.open = d.open /\ e.closed = d.closed /\ e.loop = d.loop
      /\ e.applied = d.applied /\ e.base = d.base /\ e.uncovered = d.uncovered
  BY <1>4, <1>5, <1>6, <1>7, RenetGood
<1>9. e = [d EXCEPT !.net[slot] = NoCall]
  BY <1>2, <1>5
<1> QED
  BY <1>3, <1>8, <1>9

LEMMA UnsubscribeCallGood ==
    ASSUME NEW d, NEW lg, Good(d, lg), d.ops # << >>, ~Own(d, d.ops[1]), d.net["op"] = NoCall
    PROVE  Owed(d, lg, SendUnsubscribeCall(d))
<1>1. Base(d)
  BY GoodIsReady
<1>2. PICK call : call = [phase |-> "sent"]
  OBVIOUS
<1>3. call \in UnsubscribeCalls /\ call \notin Calls
  BY <1>2 DEF UnsubscribeCalls, Calls
<1>4. PICK net : net = [d.net EXCEPT !["unsub"] = call]
  OBVIOUS
<1>5. net \in Nets /\ net["unsub"] = call /\ \A s \in Slots \ {"unsub"} : net[s] = d.net[s]
  BY <1>1, <1>3, <1>4, SlotFacts DEF Nets
<1>6. net["op"] = d.net["op"] /\ net["gap"] = d.net["gap"] /\ net["rung"] = d.net["rung"]
  BY <1>5 DEF Slots
<1>7. Nettable(d, net)
  BY <1>1, <1>3, <1>5, <1>6, SlotFacts DEF Nettable
<1>8. \A s \in Polls : net[s] = d.net[s]
  BY <1>5 DEF Polls, Slots
<1>9. PICK e : e = [d EXCEPT !.net = net]
  OBVIOUS
<1>10. Good(e, lg) /\ Moved(d, e)
  BY <1>6, <1>7, <1>8, <1>9, RenetGood
<1>11. e = SendUnsubscribeCall(d)
  BY <1>2, <1>4, <1>9 DEF SendUnsubscribeCall
<1> QED
  BY <1>10, <1>11 DEF Owed

LEMMA UnsubscribeAnsweredGood ==
    ASSUME NEW d, NEW lg, Good(d, lg), d.net["unsub"] # NoCall
    PROVE  Owed(d, lg, UnsubscribeAnswered(d))
<1>1. Base(d) /\ d.ops # << >> /\ ~Own(d, d.ops[1]) /\ d.net["op"] = NoCall
  BY GoodIsReady DEF Base, Queued
<1>2. PICK slot \in {"op", "unsub"} : slot = "unsub"
  OBVIOUS
<1>3. PICK q : q = [d EXCEPT !.net["unsub"] = NoCall]
  OBVIOUS
<1>4. Good(q, lg) /\ Moved(d, q) /\ q.net["unsub"] = NoCall /\ q.t = d.t /\ q.ops = d.ops /\ q.net["op"] = NoCall
  <2>1. /\ Good(q, lg) /\ Moved(d, q) /\ q.net[slot] = NoCall /\ q.t = d.t /\ q.ops = d.ops
        /\ \A s \in Slots \ {slot} : q.net[s] = d.net[s]
    <3>1. q = [d EXCEPT !.net[slot] = NoCall]
      BY <1>2, <1>3
    <3>2. Good(d, lg)
      OBVIOUS
    <3> QED
      BY <3>1, <3>2, SlotCleared, Zenon
  <2> QED
    BY <1>1, <1>2, <2>1 DEF Slots
<1>5. ~Own(q, q.ops[1])
  BY <1>1, <1>4 DEF Own
<1>6. Owed(q, lg, EndOp(q))
  BY <1>1, <1>4, <1>5, OtherOpEnds
<1>7. PICK e : e = EndOp(q)
  OBVIOUS
<1>8. e = UnsubscribeAnswered(d)
  <2>1. d \in Clients /\ q.ops = d.ops
    BY <1>1, <1>4 DEF Base
  <2>2. e = [q EXCEPT !.ops = Tail(d.ops)]
    BY <1>7, <2>1 DEF EndOp
  <2> QED
    BY <1>1, <1>3, <2>1, <2>2 DEF UnsubscribeAnswered, Clients
<1>9. e.t = q.t
  BY <1>4, <1>7, GoodIsReady DEF EndOp, Base, Clients
<1>10. Good(e, lg) /\ Moved(q, e) /\ Base(q) /\ Base(e)
  BY <1>4, <1>6, <1>7, GoodIsReady DEF Owed
<1>11. Moved(d, e)
  BY <1>1, <1>4, <1>10, MovedTransitive
<1> QED
  BY <1>8, <1>10, <1>11 DEF Owed

LEMMA SocketCallGood ==
    ASSUME NEW d, NEW lg, Good(d, lg), Followed(d), d.ops # << >>, d.net["op"] = NoCall, d.net["unsub"] = NoCall,
           d.ops[1].kind = "subscribe", d.ops[1].id = d.t.id
    PROVE  Owed(d, lg, Send(d, "op"))
<1>1. Base(d) /\ d \in Clients /\ d.t \in Topics
  BY GoodIsReady, FollowedTopic
<1>2. PICK call : call = [phase |-> "sent", id |-> d.t.id, cursor |-> d.t.rev, held |-> d.t.scope,
                          headers |-> d.headers, socket |-> d.open, current |-> TRUE, answer |-> NoAnswer]
  OBVIOUS
<1>3. call \in Calls /\ call.id = d.t.id /\ call.phase = "sent"
  BY <1>1, <1>2 DEF Calls, Topics, Answers, Clients
<1>4. PICK net : net = [d.net EXCEPT !["op"] = call]
  OBVIOUS
<1>5. net \in Nets /\ net["op"] = call /\ \A s \in Slots \ {"op"} : net[s] = d.net[s]
  BY <1>1, <1>3, <1>4, SlotFacts DEF Nets
<1>6. net["unsub"] = d.net["unsub"] /\ net["gap"] = d.net["gap"] /\ net["rung"] = d.net["rung"]
  BY <1>5 DEF Slots
<1>7. d.t.id <= d.ids
  BY <1>1 DEF Base, Named
<1>8. Nettable(d, net)
  BY <1>1, <1>3, <1>5, <1>6, <1>7, SlotFacts DEF Nettable
<1>9. \A s \in Polls : net[s] = d.net[s]
  BY <1>5 DEF Polls, Slots
<1>10. PICK e : e = [d EXCEPT !.net = net]
  OBVIOUS
<1>11. Good(e, lg) /\ Moved(d, e)
  BY <1>3, <1>5, <1>8, <1>9, <1>10, RenetGood
<1>12. e = Send(d, "op")
  BY <1>2, <1>4, <1>10 DEF Send
<1> QED
  BY <1>11, <1>12 DEF Owed

LEMMA StartOpGood ==
    ASSUME NEW d, NEW lg, Good(d, lg), d.ops # << >>, d.net["op"] = NoCall, d.net["unsub"] = NoCall
    PROVE  Owed(d, lg, StartOp(d))
<1>1. Base(d) /\ d.ops \in Seq(SocketOps) /\ Head(d.ops) = d.ops[1] /\ 1 \in DOMAIN d.ops
  BY GoodIsReady DEF Base, Clients
<1>2. PICK o : o = d.ops[1]
  OBVIOUS
<1>3. o \in SocketOps /\ (o.kind = "subscribe" => o.id # 0)
  BY <1>1, <1>2 DEF Base, Named
<1>4. (Followed(d) <=> d.t.id # 0) /\ (Followed(d) => ~d.closed)
  BY <1>1, FollowedTopic
<1>5. CASE o.kind = "subscribe" /\ Follows(d, o.id)
  <2>1. Followed(d) /\ o.id = d.t.id
    BY <1>3, <1>4, <1>5 DEF Follows
  <2>2. StartOp(d) = Send(d, "op")
    BY <1>1, <1>2, <1>5 DEF StartOp
  <2> QED
    BY <1>2, <1>5, <2>1, <2>2, SocketCallGood
<1>6. CASE ~(o.kind = "subscribe" /\ Follows(d, o.id))
  <2>1. ~Own(d, d.ops[1])
    BY <1>2, <1>3, <1>4, <1>6 DEF Own, Follows
  <2>2. CASE o.kind = "unsubscribe" /\ d.open
    <3>1. StartOp(d) = SendUnsubscribeCall(d)
      BY <1>1, <1>2, <1>6, <2>2 DEF StartOp
    <3> QED
      BY <2>1, <3>1, UnsubscribeCallGood
  <2>3. CASE ~(o.kind = "unsubscribe" /\ d.open)
    <3>1. StartOp(d) = EndOp(d)
      BY <1>1, <1>2, <1>6, <2>3 DEF StartOp, EndOp
    <3> QED
      BY <2>1, <3>1, OtherOpEnds
  <2> QED
    BY <2>2, <2>3
<1> QED
  BY <1>5, <1>6

-----------------------------------------------------------------------------
(* The answer of a subscribe.                                               *)

LEMMA OwnQueue ==
    ASSUME NEW d, Base(d), d.ops # << >>, Own(d, d.ops[1])
    PROVE  LastOwn(d) /\ \A i \in DOMAIN d.ops : Own(d, d.ops[i])
<1>1. d.ops \in Seq(SocketOps) /\ Queued(d)
  BY DEF Base, Clients
<1>2. DOMAIN d.ops = 1 .. Len(d.ops) /\ Len(d.ops) \in Nat /\ Len(d.ops) # 0
  BY <1>1
<1>3. \A i \in DOMAIN d.ops : i = 1 \/ 1 < i
  BY <1>2
<1>4. 1 \in DOMAIN d.ops
  BY <1>2
<1>5. \A i \in DOMAIN d.ops : Own(d, d.ops[i])
  BY <1>1, <1>3, <1>4 DEF Queued
<1>6. Len(d.ops) \in DOMAIN d.ops
  BY <1>2
<1> QED
  BY <1>5, <1>6 DEF LastOwn

LEMMA OwnOpEnds ==
    ASSUME NEW d, NEW lg, Ready(d, lg), d.ops # << >>, d.net["op"] = NoCall, d.net["unsub"] = NoCall
    PROVE  LET e == EndOp(EnsureLoop(d))
           IN Good(e, lg) /\ e.t = d.t /\ e.ids = d.ids /\ e.net = d.net /\ e.ops = Tail(d.ops)
<1>1. PICK x : x = EnsureLoop(d)
  OBVIOUS
<1>2. Good(x, lg) /\ Same(d, x) /\ (ShouldPoll(x) => x.loop # "idle")
  BY <1>1, Ensured
<1>3. Base(x) /\ Settled(x) /\ Covered(x, lg)
  BY <1>2, GoodIsReady
<1>4. x.ops = d.ops /\ x.net = d.net /\ x.t = d.t /\ x.ids = d.ids
  BY <1>2 DEF Same
<1>5. PICK e : e = EndOp(x)
  OBVIOUS
<1>6. /\ Core(e) /\ e.ops = Tail(x.ops) /\ e.t = x.t /\ e.ids = x.ids /\ e.net = x.net /\ Covered(e, lg)
  BY <1>2, <1>3, <1>4, <1>5, EndOpKeeps
<1>7. Settled(e)
  BY <1>3, <1>6 DEF Settled, Gapped, Followed
<1> QED
  BY <1>1, <1>4, <1>5, <1>6, <1>7 DEF Good

(* A client whose subscribe has been answered, before the ladder and the    *)
(* queue go on.                                                             *)
SubscribeTaken(q, call) ==
    LET on == [q EXCEPT !.t.socket = "subscribed", !.t.sentHeaders = call.headers]
        rev == call.answer.rev
        scope == call.answer.scope
    IN IF q.t.rev = NoRev THEN Follow(on, rev, scope)
       ELSE IF scope # q.t.scope THEN ScopeChange(on, scope, rev, FALSE)
       ELSE EndRefresh(IF rev > q.t.rev THEN GapPoll(on, rev) ELSE [on EXCEPT !.t.behind = FALSE])

LEMMA SubscribedSound ==
    ASSUME NEW q, NEW lg, Good(q, lg), Followed(q), q.ops # << >>, Own(q, q.ops[1]), NEW call \in Calls
    PROVE  LET on == [q EXCEPT !.t.socket = "subscribed", !.t.sentHeaders = call.headers]
           IN /\ Sound(on, lg) /\ on.net = q.net /\ on.ops = q.ops /\ on.ids = q.ids
              /\ on.t = [q.t EXCEPT !.socket = "subscribed", !.sentHeaders = call.headers] /\ Gapped(on)
<1>1. Core(q) /\ Base(q) /\ Settled(q) /\ Covered(q, lg) /\ q.t \in Topics /\ call.headers \in Keys
  BY GoodIsReady, FollowedTopic DEF Calls
<1>2. LastOwn(q) /\ \A i \in DOMAIN q.ops : Own(q, q.ops[i])
  BY <1>1, OwnQueue
<1>3. PICK t : t = [q.t EXCEPT !.socket = "subscribed", !.sentHeaders = call.headers]
  OBVIOUS
<1>4. t \in Topics
  BY <1>1, <1>3 DEF Topics, ScopeKeys
<1>5. /\ t.id = q.t.id /\ t.rev = q.t.rev /\ t.pending = q.t.pending /\ t.gapRev = q.t.gapRev
      /\ t.gapInFlight = q.t.gapInFlight /\ t.scope = q.t.scope /\ t.refreshing = q.t.refreshing
  BY <1>1, <1>3 DEF Topics
<1>6. Topical(q, t)
  BY <1>1, <1>2, <1>4, <1>5 DEF Topical, Base, TopicTidy
<1>7. PICK on : on = [q EXCEPT !.t = t]
  OBVIOUS
<1>8. /\ Base(on) /\ Followed(on) /\ on.t = t /\ on.net = q.net /\ on.ids = q.ids /\ on.ops = q.ops
      /\ (LastOwn(on) <=> LastOwn(q)) /\ Covered(on, lg)
  BY <1>1, <1>5, <1>6, <1>7, RetypeKeeps
<1>9. Core(on)
  BY <1>2, <1>8 DEF Core, Base, Laddered
<1>10. Gapped(on)
  BY <1>1, <1>5, <1>8 DEF Settled, Gapped
<1>11. on = [q EXCEPT !.t.socket = "subscribed", !.t.sentHeaders = call.headers]
  BY <1>3, <1>7
<1> QED
  BY <1>3, <1>8, <1>9, <1>10, <1>11 DEF Sound

LEMMA SubscribeTakenSound ==
    ASSUME NEW q, NEW lg \in Logs, Good(q, lg), Followed(q), q.ops # << >>, Own(q, q.ops[1]), NEW call \in Calls,
           call.answer \in SubscribeAnswers, 0 <= call.answer.rev, call.answer.rev <= Len(lg[call.answer.scope])
    PROVE  LET x == SubscribeTaken(q, call)
           IN /\ Sound(x, lg) /\ x.t.rev # NoRev /\ x.t.scope = call.answer.scope /\ Gapped(x)
              /\ x.ops # << >> /\ x.net["op"] = q.net["op"] /\ x.net["unsub"] = q.net["unsub"]
              /\ x.ids = q.ids /\ x.t.id = q.t.id /\ Grows(q, x)
<1>1. PICK on : on = [q EXCEPT !.t.socket = "subscribed", !.t.sentHeaders = call.headers]
  OBVIOUS
<1>2. /\ Sound(on, lg) /\ on.net = q.net /\ on.ops = q.ops /\ on.ids = q.ids
      /\ on.t = [q.t EXCEPT !.socket = "subscribed", !.sentHeaders = call.headers] /\ Gapped(on)
  BY <1>1, SubscribedSound
<1>3. q.t \in Topics /\ q.t.rev \in Int /\ q.t.rev >= NoRev /\ q.t.rev \in Revs
      /\ (q.t.rev # NoRev => q.t.scope \in Scopes)
  BY GoodIsReady, FollowedTopic DEF Base, TopicTidy
<1>4. on.t.rev = q.t.rev /\ on.t.scope = q.t.scope /\ on.t.id = q.t.id
  BY <1>2, <1>3 DEF Topics
<1>5. PICK rev \in Revs : rev = call.answer.rev
  BY DEF SubscribeAnswers
<1>6. PICK scope \in Scopes : scope = call.answer.scope
  BY DEF SubscribeAnswers
<1>7. rev \in Int /\ 0 <= rev /\ rev <= Len(lg[scope]) /\ NoRev < 0
  BY <1>5, <1>6 DEF Revs, NoRev
<1>8. PICK x : x = SubscribeTaken(q, call)
  OBVIOUS
<1>9. Sound(x, lg) /\ Framed(on, x) /\ x.t.rev # NoRev /\ x.t.scope = scope /\ (~Scoped => x.t.rev >= q.t.rev)
  <2>1. CASE q.t.rev = NoRev
    <3>1. x = Follow(on, rev, scope)
      BY <1>1, <1>5, <1>6, <1>8, <2>1 DEF SubscribeTaken
    <3>2. Sound(x, lg) /\ Reached(on, x, scope, rev)
      BY <1>2, <1>7, <3>1, FollowSound
    <3>3. x.t.rev \in Int
      BY <3>2, SoundTypes
    <3> QED
      BY <1>7, <2>1, <3>2, <3>3 DEF Reached, NoRev
  <2>2. CASE q.t.rev # NoRev /\ scope # q.t.scope
    <3>1. PICK viaPoll \in BOOLEAN : viaPoll = FALSE
      OBVIOUS
    <3>2. x = ScopeChange(on, scope, rev, viaPoll)
      BY <1>1, <1>5, <1>6, <1>8, <2>2, <3>1 DEF SubscribeTaken
    <3>3. Sound(x, lg) /\ Reached(on, x, scope, rev)
      BY <1>2, <1>7, <3>2, ScopeChangeSound
    <3>4. x.t.rev \in Int
      BY <3>3, SoundTypes
    <3>5. Scoped
      BY <1>3, <2>2 DEF Scopes
    <3> QED
      BY <1>7, <3>3, <3>4, <3>5 DEF Reached
  <2>3. CASE q.t.rev # NoRev /\ scope = q.t.scope
    <3>1. PICK y : y = IF rev > q.t.rev THEN GapPoll(on, rev) ELSE [on EXCEPT !.t.behind = FALSE]
      OBVIOUS
    <3>2. x = EndRefresh(y)
      BY <1>1, <1>5, <1>6, <1>8, <2>3, <3>1 DEF SubscribeTaken
    <3>3. Sound(y, lg) /\ Drifts(on, y)
      <4>1. CASE rev > q.t.rev
        <5>1. y = GapPoll(on, rev) /\ on.t.rev # NoRev /\ Core(on) /\ Followed(on) /\ Covered(on, lg)
          BY <1>2, <1>4, <2>3, <3>1, <4>1 DEF Sound
        <5> QED
          BY <5>1, GapPollKeeps, GapPollCovers DEF Sound
      <4>2. CASE ~(rev > q.t.rev)
        <5>1. on.t \in Topics /\ TopicTidy(on) /\ Followed(on)
          BY <1>2, SoundTypes
        <5>2. PICK t : t = [on.t EXCEPT !.behind = FALSE]
          OBVIOUS
        <5>3. t \in Topics
          BY <5>1, <5>2 DEF Topics
        <5>4. /\ t.id = on.t.id /\ t.rev = on.t.rev /\ t.socket = on.t.socket /\ t.pending = on.t.pending
              /\ t.gapInFlight = on.t.gapInFlight /\ t.gapRev = on.t.gapRev /\ t.scope = on.t.scope
              /\ t.refreshing = on.t.refreshing /\ t.behind = FALSE
          BY <5>1, <5>2 DEF Topics
        <5>5. Tidies(on, t)
          BY <5>1, <5>3, <5>4 DEF Tidies, TopicTidy
        <5>6. y = [on EXCEPT !.t = t]
          BY <3>1, <4>2, <5>2
        <5> QED
          BY <1>2, <5>4, <5>5, <5>6, FlagsSound
      <4> QED
        BY <4>1, <4>2
    <3>4. Sound(x, lg) /\ Drifts(y, x)
      BY <3>2, <3>3, EndRefreshSound
    <3>5. Drifts(on, x)
      BY <1>2, <3>3, <3>4, DriftsChain
    <3>6. x.t.rev \in Int
      BY <3>4, SoundTypes
    <3> QED
      BY <1>3, <1>4, <2>3, <3>4, <3>5, <3>6 DEF Drifts, NoRev
  <2> QED
    BY <2>1, <2>2, <2>3
<1>10. Gapped(x) /\ x.ids = q.ids /\ x.t.id = q.t.id
  BY <1>2, <1>4, <1>9 DEF Framed
<1>11. x.net["op"] = q.net["op"] /\ x.net["unsub"] = q.net["unsub"]
  BY <1>2, <1>9 DEF Framed
<1>12. x.ops # << >>
  <2>1. q.ops \in Seq(SocketOps) /\ x.ops \in Seq(SocketOps)
    BY <1>9, GoodIsReady, SoundTypes DEF Base, Clients
  <2>2. Len(q.ops) > 0 /\ Len(x.ops) >= Len(q.ops)
    BY <1>2, <1>9, <2>1 DEF Framed
  <2> QED
    BY <2>1, <2>2
<1> QED
  BY <1>6, <1>8, <1>9, <1>10, <1>11, <1>12 DEF Grows

LEMMA OpAnsweredGood ==
    ASSUME NEW d, NEW lg \in Logs, Good(d, lg), d.net["op"] # NoCall
    PROVE  d.net["op"].phase \in Ended => Owed(d, lg, OpAnswered(d))
<1> SUFFICES ASSUME d.net["op"].phase \in Ended PROVE Owed(d, lg, OpAnswered(d))
  OBVIOUS
<1>1. Base(d) /\ Settled(d) /\ Covered(d, lg) /\ (Followed(d) <=> d.t.id # 0) /\ (Followed(d) => ~d.closed)
  BY GoodIsReady, FollowedTopic
<1>2. PICK call : call = d.net["op"]
  OBVIOUS
<1>3. call \in Calls /\ call.id # 0
  BY <1>1, <1>2, SlotFacts DEF Calls
<1>4. d.ops # << >> /\ d.ops[1].kind = "subscribe" /\ d.ops[1].id = call.id /\ d.net["unsub"] = NoCall
  BY <1>1, <1>2 DEF Base, Queued
<1>5. PICK slot \in {"op", "unsub"} : slot = "op"
  OBVIOUS
<1>6. PICK q : q = [d EXCEPT !.net["op"] = NoCall]
  OBVIOUS
<1>7. /\ Good(q, lg) /\ Moved(d, q) /\ q.net["op"] = NoCall /\ q.net["unsub"] = NoCall
      /\ q.t = d.t /\ q.ops = d.ops /\ q.ids = d.ids /\ q.open = d.open /\ q.closed = d.closed
  <2>1. /\ Good(q, lg) /\ Moved(d, q) /\ q.net[slot] = NoCall /\ q.t = d.t /\ q.ops = d.ops
        /\ q.ids = d.ids /\ q.open = d.open /\ q.closed = d.closed
        /\ \A s \in Slots \ {slot} : q.net[s] = d.net[s]
    <3>1. q = [d EXCEPT !.net[slot] = NoCall]
      BY <1>5, <1>6
    <3>2. Good(d, lg)
      OBVIOUS
    <3> QED
      BY <3>1, <3>2, SlotCleared, Zenon
  <2> QED
    BY <1>4, <1>5, <2>1 DEF Slots
<1>8. Base(q) /\ Ready(q, lg) /\ (Followed(q) <=> Followed(d)) /\ Settled(q)
  BY <1>7, GoodIsReady DEF Followed
<1>9. PICK e : e = OpAnswered(d)
  OBVIOUS
<1>10. CASE ~Follows(d, call.id)
  <2>1. ~Own(q, q.ops[1])
    BY <1>1, <1>3, <1>4, <1>7, <1>10 DEF Own, Follows
  <2>2. Owed(q, lg, EndOp(q)) /\ Owed(q, lg, SendUnsubscribeCall(q))
    BY <1>4, <1>7, <2>1, OtherOpEnds, UnsubscribeCallGood
  <2>3. e \in {EndOp(q), SendUnsubscribeCall(q)}
    BY <1>2, <1>6, <1>9, <1>10 DEF OpAnswered, SubscribeOutlived
  <2>4. Owed(q, lg, e)
    BY <2>2, <2>3
  <2>5. e.t = q.t
    BY <1>8, <2>3 DEF EndOp, SendUnsubscribeCall, Base, Clients
  <2>6. Moved(d, e)
    <3>1. Base(e) /\ Moved(q, e)
      BY <2>4, GoodIsReady DEF Owed
    <3> QED
      BY <1>1, <1>7, <1>8, <3>1, MovedTransitive
  <2> QED
    BY <1>9, <2>4, <2>6 DEF Owed
<1>11. CASE Follows(d, call.id)
  <2>1. Followed(q) /\ Followed(d) /\ call.id = d.t.id /\ Own(q, q.ops[1])
    BY <1>1, <1>3, <1>4, <1>7, <1>8, <1>11 DEF Own, Follows
  <2>2. q.ops # << >> /\ q.t \in Topics
    BY <1>4, <1>7, <1>8, <2>1, FollowedTopic
  <2>3. CASE call.phase = "ok"
    <3>1. call.answer \in SubscribeAnswers /\ 0 <= call.answer.rev /\ call.answer.rev <= Len(lg[call.answer.scope])
      BY <1>1, <1>2, <1>3, <2>3 DEF Covered, CallsCovered
    <3>2. PICK x : x = SubscribeTaken(q, call)
      OBVIOUS
    <3>3. /\ Sound(x, lg) /\ x.t.rev # NoRev /\ x.t.scope = call.answer.scope /\ Gapped(x)
          /\ x.ops # << >> /\ x.net["op"] = NoCall /\ x.net["unsub"] = NoCall
          /\ x.ids = q.ids /\ x.t.id = q.t.id /\ Grows(q, x)
      <4>1. Good(q, lg) /\ Followed(q) /\ q.ops # << >> /\ Own(q, q.ops[1]) /\ call \in Calls
        BY <1>3, <1>7, <2>1, <2>2
      <4>2. /\ Sound(x, lg) /\ x.t.rev # NoRev /\ x.t.scope = call.answer.scope /\ Gapped(x)
            /\ x.ops # << >> /\ x.net["op"] = q.net["op"] /\ x.net["unsub"] = q.net["unsub"]
            /\ x.ids = q.ids /\ x.t.id = q.t.id /\ Grows(q, x)
        BY <3>1, <3>2, <4>1, SubscribeTakenSound
      <4> QED
        BY <1>7, <4>2
    <3>4. Ready(x, lg)
      BY <3>3 DEF Ready, Sound, Core, Settled
    <3>5. e = EndOp(EnsureLoop(x))
      BY <1>2, <1>6, <1>9, <1>11, <2>3, <3>2 DEF OpAnswered, SubscribeAnswered, SubscribeTaken
    <3>6. Good(e, lg) /\ e.t = x.t /\ e.ids = x.ids /\ e.net = x.net
      BY <3>3, <3>4, <3>5, OwnOpEnds
    <3>7. Moved(d, e)
      <4>1. Serves(d, e)
        BY <1>2, <2>3, <3>3, <3>6 DEF Serves, NoCall
      <4>2. Grows(d, e)
        BY <1>7, <2>1, <3>3, <3>6 DEF Grows
      <4> QED
        BY <1>7, <3>3, <3>6, <4>1, <4>2 DEF Moved
    <3> QED
      BY <1>9, <3>6, <3>7 DEF Owed
  <2>4. CASE call.phase = "transient"
    <3>1. PICK t : t = IF q.t.refreshing
                       THEN [q.t EXCEPT !.socket = "none", !.refreshing = FALSE, !.pending = << >>, !.behind = TRUE]
                       ELSE [q.t EXCEPT !.socket = "none"]
      OBVIOUS
    <3>2. t \in Topics
      <4>1. << >> \in Seq(Arrivals)
        OBVIOUS
      <4> QED
        BY <2>2, <3>1, <4>1 DEF Topics
    <3>3. /\ t.id = q.t.id /\ t.rev = q.t.rev /\ t.socket = "none" /\ t.gapInFlight = q.t.gapInFlight
          /\ t.gapRev = q.t.gapRev /\ t.scope = q.t.scope /\ t.refreshing = FALSE
          /\ t.pending = q.t.pending \/ t.pending = << >>
          /\ q.t.refreshing => t.pending = << >>
      BY <2>2, <3>1 DEF Topics
    <3>4. Topical(q, t)
      BY <1>8, <2>1, <3>2, <3>3 DEF Topical, Base, TopicTidy
    <3>5. PICK x : x = [q EXCEPT !.t = t]
      OBVIOUS
    <3>6. t.gapRev # NoRev => t.gapInFlight
      BY <1>8, <2>1, <3>3 DEF Settled, Gapped
    <3>7. Ready(x, lg) /\ x.t = t /\ x.ids = q.ids /\ x.net = q.net /\ x.ops = q.ops
      BY <1>8, <2>1, <3>3, <3>4, <3>5, <3>6, RetypeReady
    <3>8. e = EndOp(EnsureLoop(x))
      BY <1>2, <1>6, <1>9, <1>11, <2>4, <3>1, <3>5 DEF OpAnswered, SubscribeFailed
    <3>9. Good(e, lg) /\ e.t = t /\ e.ids = q.ids /\ e.net = q.net
      BY <1>7, <2>2, <3>7, <3>8, OwnOpEnds
    <3>10. Moved(d, e)
      <4>1. d.t.rev \in Int
        BY <1>1, <2>1, FollowedTopic
      <4> QED
        BY <1>7, <3>3, <3>9, <4>1 DEF Moved, Serves, Grows
    <3> QED
      BY <1>9, <3>9, <3>10 DEF Owed
  <2>5. CASE call.phase = "refused"
    <3>1. PICK t : t = [q.t EXCEPT !.socket = "none"]
      OBVIOUS
    <3>2. t \in Topics
      BY <2>2, <3>1 DEF Topics
    <3>3. /\ t.id = q.t.id /\ t.rev = q.t.rev /\ t.socket = "none" /\ t.gapInFlight = q.t.gapInFlight
          /\ t.gapRev = q.t.gapRev /\ t.scope = q.t.scope /\ t.refreshing = q.t.refreshing /\ t.pending = q.t.pending
      BY <2>2, <3>1 DEF Topics
    <3>4. Topical(q, t)
      BY <1>8, <2>1, <3>2, <3>3 DEF Topical, Base, TopicTidy
    <3>5. PICK x : x = [q EXCEPT !.t = t]
      OBVIOUS
    <3>6. t.gapRev # NoRev => t.gapInFlight
      BY <1>8, <2>1, <3>3 DEF Settled, Gapped
    <3>7. Ready(x, lg) /\ x.t = t /\ x.ids = q.ids /\ x.net = q.net /\ x.ops = q.ops /\ Followed(x)
      BY <1>8, <2>1, <3>3, <3>4, <3>5, <3>6, RetypeReady
    <3>8. PICK y : y = EndTopic(x)
      OBVIOUS
    <3>9. Good(y, lg) /\ ~Followed(y) /\ y.t = NoTopic /\ y.ids = x.ids /\ ~ShouldPoll(y) /\ y.net = x.net /\ y.ops = x.ops
      <4>1. Base(x) /\ Covered(x, lg) /\ x.t.socket # "subscribed"
        BY <3>3, <3>7 DEF Ready
      <4> QED
        BY <3>7, <3>8, <4>1, EndTopicKeeps
    <3>10. e = EndOp(y)
      BY <1>2, <1>6, <1>9, <1>11, <2>5, <3>1, <3>5, <3>8 DEF OpAnswered
    <3>11. Core(e) /\ e.t = NoTopic /\ e.ids = y.ids /\ e.net = y.net /\ Covered(e, lg)
      <4>1. Base(y) /\ Covered(y, lg) /\ y.ops # << >> /\ y.net["op"] = NoCall /\ y.net["unsub"] = NoCall
        BY <1>7, <2>2, <3>7, <3>9, GoodIsReady
      <4> QED
        BY <3>9, <3>10, <4>1, EndOpKeeps
    <3>12. ~Followed(e) /\ e.t.id = 0
      BY <3>11 DEF Followed, NoTopic
    <3>13. Good(e, lg)
      BY <3>11, <3>12 DEF Good, Settled
    <3>14. Moved(d, e)
      BY <1>1, <1>7, <2>1, <3>7, <3>9, <3>11, <3>12 DEF Moved, Serves, Grows
    <3> QED
      BY <1>9, <3>13, <3>14 DEF Owed
  <2> QED
    BY <1>2, <2>3, <2>4, <2>5 DEF Ended
<1> QED
  BY <1>10, <1>11

-----------------------------------------------------------------------------
(* The timers.                                                              *)

LEMMA PollSent ==
    ASSUME NEW d, NEW lg, Good(d, lg), Followed(d), NEW slot \in {"rung", "check"},
           slot = "rung" => d.loop = "polling"
    PROVE  LET e == Send(d, slot) IN Good(e, lg) /\ Moved(d, e) /\ e.t = d.t
<1>1. Core(d) /\ Base(d) /\ Settled(d) /\ Covered(d, lg) /\ d \in Clients /\ d.t \in Topics
  BY GoodIsReady, FollowedTopic
<1>2. PICK call : call = [phase |-> "sent", id |-> d.t.id, cursor |-> d.t.rev, held |-> d.t.scope,
                          headers |-> d.headers, socket |-> d.open, current |-> TRUE, answer |-> NoAnswer]
  OBVIOUS
<1>3. call \in Calls
  BY <1>1, <1>2 DEF Calls, Topics, Answers, Clients
<1>4. call.id = d.t.id /\ call.phase = "sent" /\ call.cursor = d.t.rev /\ call.held = d.t.scope
  BY <1>2
<1>5. PICK net : net = [d.net EXCEPT ![slot] = call]
  OBVIOUS
<1>6. net \in Nets /\ net[slot] = call /\ \A s \in Slots \ {slot} : net[s] = d.net[s]
  BY <1>1, <1>3, <1>5, SlotFacts DEF Nets
<1>7. net["op"] = d.net["op"] /\ net["unsub"] = d.net["unsub"] /\ net["gap"] = d.net["gap"]
  BY <1>6 DEF Slots
<1>8. d.t.id <= d.ids
  BY <1>1 DEF Base, Named
<1>9. Nettable(d, net)
  <2>1. \A s \in Slots \ {"unsub"} : net[s] # NoCall => net[s] \in Calls /\ net[s].id <= d.ids
    BY <1>1, <1>3, <1>4, <1>6, <1>8, SlotFacts
  <2>2. net["rung"] # NoCall /\ ~d.closed => d.loop = "polling"
    BY <1>1, <1>6, SlotFacts DEF Slots
  <2> QED
    BY <1>1, <1>6, <1>7, <2>1, <2>2, SlotFacts DEF Nettable, Base, Queued
<1>10. PICK e : e = [d EXCEPT !.net = net]
  OBVIOUS
<1>11. /\ Base(e) /\ e.net = net /\ e.t = d.t /\ e.ids = d.ids /\ e.open = d.open /\ e.closed = d.closed
       /\ e.headers = d.headers /\ e.loop = d.loop /\ e.ops = d.ops
       /\ e.applied = d.applied /\ e.base = d.base /\ e.uncovered = d.uncovered
       /\ (ShouldPoll(e) <=> ShouldPoll(d)) /\ (LastOwn(e) <=> LastOwn(d))
  BY <1>1, <1>9, <1>10, RenetKeeps
<1>12. Core(e)
  BY <1>1, <1>11 DEF Core, Base, Laddered
<1>13. Settled(e)
  BY <1>1, <1>11 DEF Settled, Gapped, Followed
<1>14. Covered(e, lg)
  <2>1. CallCovered(e, lg, call)
    <3>1. d.t.rev # NoRev => d.t.scope \in Scopes /\ Covers(d, lg, d.t.scope, d.t.rev)
      BY <1>1 DEF Base, TopicTidy, Covered, TopicCovered
    <3>2. \A k, n : Covers(e, lg, k, n) <=> Covers(d, lg, k, n)
      BY <1>11 DEF Covers, KnownOf
    <3> QED
      BY <1>4, <1>11, <3>1, <3>2 DEF CallCovered, Covers
  <2>2. \A s \in Polls : \/ e.net[s] = d.net[s] \/ e.net[s] = NoCall
                         \/ e.net[s].phase # "ok" /\ CallCovered(e, lg, e.net[s])
    BY <1>4, <1>6, <1>11, <2>1 DEF Polls, Slots
  <2>3. e.net["op"] = d.net["op"]
    BY <1>7, <1>11
  <2> QED
    BY <1>1, <1>11, <2>2, <2>3, RenetCovers
<1>15. Kept(d, e)
  BY <1>7, <1>11 DEF Kept, Followed
<1>16. Moved(d, e)
  BY <1>11, <1>13, <1>15, StaysMoved, KeptMoves
<1>17. e = Send(d, slot)
  BY <1>2, <1>5, <1>10 DEF Send
<1> QED
  BY <1>11, <1>12, <1>13, <1>14, <1>16, <1>17 DEF Good

(* The ladder's state and the check's timer are set, as they may be.        *)
LEMMA Relooped ==
    ASSUME NEW d, NEW lg, Good(d, lg), NEW loop \in {"idle", "waiting", "polling"}, NEW timer \in BOOLEAN,
           d.net["rung"] # NoCall /\ ~d.closed => loop = "polling",
           ShouldPoll(d) => loop # "idle" \/ LastOwn(d)
    PROVE  LET e == [d EXCEPT !.loop = loop, !.checkTimer = timer]
           IN Good(e, lg) /\ Moved(d, e) /\ Same(d, e)
<1>1. d \in Clients /\ Named(d) /\ Queued(d) /\ TopicTidy(d) /\ Base(d) /\ Settled(d) /\ Covered(d, lg)
  BY GoodIsReady DEF Base
<1>2. PICK e : e = [d EXCEPT !.loop = loop, !.checkTimer = timer]
  OBVIOUS
<1>3. Core(e) /\ Same(d, e)
  BY <1>1, <1>2, ReloopKeeps
<1>4. Settled(e) /\ Covered(e, lg)
  BY <1>1, <1>3, SameSettled, SameCovers
<1>5. Moved(d, e)
  BY <1>1, <1>3, StaysMoved, SameMoves
<1> QED
  BY <1>2, <1>3, <1>4, <1>5 DEF Good

LEMMA RungFiredGood ==
    ASSUME NEW d, NEW lg \in Logs, Good(d, lg), d.net["rung"] = NoCall \/ d.closed
    PROVE  Owed(d, lg, RungFired(d))
<1>1. Core(d) /\ Base(d) /\ d \in Clients /\ d.checkTimer \in BOOLEAN
  BY GoodIsReady DEF Base, Clients
<1>2. d.net["rung"] # NoCall => d.closed
  OBVIOUS
<1>3. PICK timer \in BOOLEAN : timer = d.checkTimer
  BY <1>1
<1>4. PICK loop : loop = IF ShouldPoll(d) THEN "polling" ELSE "idle"
  OBVIOUS
<1>5. PICK q : q = [d EXCEPT !.loop = loop, !.checkTimer = timer]
  OBVIOUS
<1>6. Good(q, lg) /\ Moved(d, q) /\ Same(d, q) /\ q.loop = loop
  <2>1. d.net["rung"] # NoCall /\ ~d.closed => loop = "polling"
    BY <1>2
  <2>2. ShouldPoll(d) => loop # "idle" \/ LastOwn(d)
    BY <1>4
  <2>3. loop \in {"idle", "waiting", "polling"}
    BY <1>4
  <2>4. Good(q, lg) /\ Moved(d, q) /\ Same(d, q)
    BY <1>3, <1>5, <2>1, <2>2, <2>3, Relooped
  <2> QED
    BY <1>1, <1>5, <2>4 DEF Clients
<1>7. q = [d EXCEPT !.loop = loop]
  BY <1>1, <1>3, <1>5 DEF Clients
<1>8. PICK e : e = RungFired(d)
  OBVIOUS
<1>9. CASE ~ShouldPoll(d)
  <2>1. e = q
    BY <1>4, <1>7, <1>8, <1>9 DEF RungFired
  <2> QED
    BY <1>6, <1>8, <2>1 DEF Owed
<1>10. CASE ShouldPoll(d)
  <2>1. Followed(q) /\ q.t.id = d.t.id
    BY <1>6, <1>10 DEF ShouldPoll, Same, Followed
  <2>2. PICK slot \in {"rung", "check"} : slot = "rung"
    OBVIOUS
  <2>3. PICK x : x = Send(q, slot)
    OBVIOUS
  <2>4. Good(x, lg) /\ Moved(q, x) /\ x.t = q.t
    BY <1>4, <1>6, <1>10, <2>1, <2>3, PollSent
  <2>5. x = Send([d EXCEPT !.loop = "polling"], "rung")
    BY <1>4, <1>7, <1>10, <2>2, <2>3
  <2>6. Base(q) /\ Base(x) /\ Core(x) /\ Covered(x, lg)
    BY <1>6, <2>4, GoodIsReady
  <2>7. Moved(d, x)
    BY <1>1, <1>6, <2>1, <2>4, <2>6, MovedTransitive
  <2>8. CASE d.open /\ d.t.socket = "none"
    <3>1. e = SendSubscribe(x)
      BY <1>8, <1>10, <2>5, <2>8 DEF RungFired
    <3>2. Followed(x) /\ x.t.id = d.t.id
      BY <2>1, <2>4 DEF Followed
    <3>3. Sound(e, lg) /\ Drifts(x, e)
      BY <2>6, <3>1, <3>2, SendSubscribeSound DEF Sound
    <3>4. Good(e, lg) /\ Moved(x, e)
      BY <2>4, <3>2, <3>3, SoundIsGood
    <3>5. Moved(d, e)
      BY <1>1, <2>6, <2>7, <3>2, <3>4, GoodIsReady, MovedTransitive
    <3> QED
      BY <1>8, <3>4, <3>5 DEF Owed
  <2>9. CASE ~(d.open /\ d.t.socket = "none")
    <3>1. e = x
      BY <1>8, <1>10, <2>5, <2>9 DEF RungFired
    <3> QED
      BY <1>8, <2>4, <2>7, <3>1 DEF Owed
  <2> QED
    BY <2>8, <2>9
<1> QED
  BY <1>9, <1>10

LEMMA CheckFiredGood ==
    ASSUME NEW d, NEW lg \in Logs, Good(d, lg), Followed(d)
    PROVE  Owed(d, lg, CheckFired(d))
<1>1. Core(d) /\ Base(d) /\ d \in Clients /\ d.loop \in {"idle", "waiting", "polling"}
  BY GoodIsReady DEF Base, Clients
<1>2. PICK timer \in BOOLEAN : timer = FALSE
  OBVIOUS
<1>3. PICK loop : loop = d.loop
  OBVIOUS
<1>4. PICK q : q = [d EXCEPT !.loop = loop, !.checkTimer = timer]
  OBVIOUS
<1>5. Good(q, lg) /\ Moved(d, q) /\ Same(d, q)
  <2>1. loop \in {"idle", "waiting", "polling"} /\ (d.net["rung"] # NoCall /\ ~d.closed => loop = "polling")
    BY <1>1, <1>3 DEF Base, OneRung
  <2>2. ShouldPoll(d) => loop # "idle" \/ LastOwn(d)
    BY <1>1, <1>3 DEF Core, Laddered
  <2> QED
    BY <1>2, <1>4, <2>1, <2>2, Relooped
<1>6. q = [d EXCEPT !.checkTimer = FALSE]
  BY <1>1, <1>2, <1>3, <1>4 DEF Clients
<1>7. PICK slot \in {"rung", "check"} : slot = "check"
  OBVIOUS
<1>8. PICK e : e = Send(q, slot)
  OBVIOUS
<1>9. Followed(q) /\ q.t.id = d.t.id
  BY <1>5 DEF Same, Followed
<1>10. Good(e, lg) /\ Moved(q, e)
  BY <1>5, <1>7, <1>8, <1>9, PollSent
<1>11. e = CheckFired(d)
  BY <1>6, <1>7, <1>8 DEF CheckFired
<1>12. Moved(d, e)
  BY <1>1, <1>5, <1>9, <1>10, GoodIsReady, MovedTransitive
<1> QED
  BY <1>10, <1>11, <1>12 DEF Owed

-----------------------------------------------------------------------------
(* The application and the socket.                                          *)

LEMMA SubscribingReady ==
    ASSUME NEW d, NEW lg, Ready(d, lg), Followed(d)
    PROVE  LET e == SendSubscribe(d)
           IN /\ Good(e, lg) /\ Followed(e) /\ e.t = [d.t EXCEPT !.socket = "subscribing"] /\ e.ids = d.ids
              /\ e.net["op"] = d.net["op"] \/ e.net["op"].phase = "sent"
<1>1. Base(d) /\ Settled(d) /\ Covered(d, lg) /\ d.t \in Topics /\ d.net \in Nets
  BY FollowedTopic DEF Ready, Base, Clients
<1>2. PICK e : e = SendSubscribe(d)
  OBVIOUS
<1>3. /\ Core(e) /\ Followed(e) /\ Drifts(d, e)
      /\ e.t = [d.t EXCEPT !.socket = "subscribing"] /\ e.applied = d.applied
      /\ \A s \in Slots \ {"op"} : e.net[s] = d.net[s]
  BY <1>1, <1>2, SendSubscribeKeeps
<1>4. /\ e.t.id = d.t.id /\ e.t.rev = d.t.rev /\ e.t.scope = d.t.scope /\ e.t.pending = d.t.pending
      /\ e.t.socket = "subscribing" /\ e.t.gapRev = d.t.gapRev /\ e.t.gapInFlight = d.t.gapInFlight
  BY <1>1, <1>3 DEF Topics
<1>5. Settled(e)
  BY <1>1, <1>3, <1>4 DEF Settled, Gapped
<1>6. e.base = d.base /\ e.uncovered = d.uncovered /\ e.ids = d.ids
      /\ (e.net["op"] = d.net["op"] \/ e.net["op"].phase = "sent")
  BY <1>3 DEF Drifts, Framed
<1>7. \A k, n : Covers(e, lg, k, n) <=> Covers(d, lg, k, n)
  BY <1>3, <1>6 DEF Covers, KnownOf
<1>8. TopicCovered(e, lg)
  BY <1>1, <1>3, <1>4, <1>7 DEF Covered, TopicCovered
<1>9. \A s \in Polls : e.net[s] = d.net[s]
  BY <1>3 DEF Polls, Slots
<1>10. CallsCovered(e, lg)
  BY <1>1, <1>4, <1>6, <1>7, <1>9 DEF Covered, CallsCovered, CallCovered
<1> QED
  BY <1>2, <1>3, <1>5, <1>6, <1>8, <1>10 DEF Good, Covered

LEMMA DoSubscribeGood ==
    ASSUME NEW d, NEW lg, Good(d, lg), ~Followed(d), ~d.closed
    PROVE  LET e == DoSubscribe(d) IN Good(e, lg) /\ Serves(d, e) /\ Grows(d, e) /\ e.ids = d.ids + 1
<1>1. Base(d) /\ d \in Clients /\ Covered(d, lg) /\ d.ids \in Nat /\ d.t.id = 0
  BY GoodIsReady, FollowedTopic
<1>2. PICK id : id = d.ids + 1
  OBVIOUS
<1>3. id \in Nat \ {0} /\ id > d.ids
  BY <1>1, <1>2
<1>4. PICK t : t = NewTopic(id)
  OBVIOUS
<1>5. t \in Topics
  <2>1. << >> \in Seq(Arrivals)
    OBVIOUS
  <2> QED
    BY <1>3, <1>4, <2>1 DEF Topics, NewTopic, Revs, ScopeKeys
<1>6. /\ t.id = id /\ t.rev = NoRev /\ t.socket = "none" /\ t.pending = << >> /\ t.gapInFlight = FALSE
      /\ t.gapRev = NoRev /\ t.refreshing = FALSE
  BY <1>4 DEF NewTopic
<1>7. PICK q : q = [d EXCEPT !.t = NewTopic(d.ids + 1), !.ids = @ + 1,
                             !.applied = {}, !.base = NoRevs, !.uncovered = NoRevs]
  OBVIOUS
<1>8. /\ q.t = t /\ q.ids = id /\ q.net = d.net /\ q.ops = d.ops /\ q.open = d.open /\ q.closed = d.closed
      /\ q.loop = d.loop /\ q \in Clients
  <2>1. NoRevs \in [ScopeKeys -> Revs]
    BY DEF NoRevs, ScopeKeys, Revs
  <2>2. {} \in SUBSET (ScopeKeys \X Revs)
    OBVIOUS
  <2> QED
    BY <1>1, <1>2, <1>3, <1>4, <1>5, <1>7, <2>1, <2>2 DEF Clients
<1>9. Followed(q)
  BY <1>3, <1>6, <1>8 DEF Followed, NoTopic
<1>10. \A i \in DOMAIN d.ops : d.ops[i].id \in Nat /\ d.ops[i].id <= d.ids /\ d.ops[i].id # id
  <2>1. \A i \in DOMAIN d.ops : d.ops[i].id \in Nat /\ d.ops[i].id <= d.ids
    <3>1. d.ops \in Seq(SocketOps)
      BY <1>1 DEF Clients
    <3>2. \A i \in DOMAIN d.ops : d.ops[i] \in SocketOps
      BY <3>1
    <3>3. \A i \in DOMAIN d.ops : d.ops[i].id <= d.ids
      BY <1>1 DEF Base, Named
    <3> QED
      BY <3>2, <3>3 DEF SocketOps
  <2> QED
    BY <1>1, <1>3, <2>1
<1>11. \A s \in Slots \ {"unsub"} : d.net[s] # NoCall =>
          d.net[s] \in Calls /\ d.net[s].id \in Nat /\ d.net[s].id <= d.ids /\ d.net[s].id # id
  <2>1. \A s \in Slots \ {"unsub"} : d.net[s] # NoCall => d.net[s] \in Calls /\ d.net[s].id <= d.ids
    BY <1>1, SlotFacts
  <2>2. \A call \in Calls : call.id \in Nat
    BY DEF Calls
  <2> QED
    BY <1>1, <1>3, <2>1, <2>2
<1>12. Named(q)
  <2>1. ASSUME NEW i \in DOMAIN q.ops PROVE q.ops[i].id <= q.ids /\ (q.ops[i].kind = "subscribe" => q.ops[i].id # 0)
    BY <1>1, <1>3, <1>8, <1>10 DEF Base, Named
  <2>2. ASSUME NEW s \in Slots \ {"unsub"}, q.net[s] # NoCall PROVE q.net[s] \in Calls /\ q.net[s].id <= q.ids
    BY <1>1, <1>3, <1>8, <1>11, <2>2
  <2>3. q.t.id <= q.ids
    BY <1>3, <1>6, <1>8
  <2> QED
    BY <1>1, <1>8, <2>1, <2>2, <2>3 DEF Base, Named
<1>13. Queued(q)
  <2>1. \A i \in DOMAIN q.ops : ~Own(q, q.ops[i])
    BY <1>6, <1>8, <1>10 DEF Own
  <2>2. q.ops # << >> => 1 \in DOMAIN q.ops
    BY <1>8 DEF Clients
  <2> QED
    BY <1>1, <1>6, <1>8, <2>1, <2>2 DEF Base, Queued
<1>14. Base(q)
  BY <1>1, <1>6, <1>8, <1>12, <1>13, GoodIsReady DEF Base, TopicTidy, OneRung
<1>15. Settled(q)
  BY <1>6, <1>8 DEF Settled, Gapped
<1>16. Covered(q, lg)
  <2>1. TopicCovered(q, lg)
    BY <1>6, <1>8 DEF TopicCovered
  <2>2. ASSUME NEW s \in Polls, q.net[s] # NoCall PROVE CallCovered(q, lg, q.net[s])
    <3>1. CallCovered(d, lg, q.net[s]) /\ s \in Slots \ {"unsub"}
      BY <1>1, <1>8, <2>2 DEF Covered, CallsCovered, Polls, Slots
    <3>2. q.net[s].id # q.t.id
      BY <1>6, <1>8, <1>11, <2>2, <3>1
    <3> QED
      BY <3>1, <3>2 DEF CallCovered
  <2>3. CallsCovered(q, lg)
    BY <1>1, <1>8, <2>2 DEF Covered, CallsCovered
  <2> QED
    BY <2>1, <2>3 DEF Covered
<1>17. PICK x : x = IF d.open THEN SendSubscribe(q) ELSE q
  OBVIOUS
<1>18. /\ Ready(x, lg) /\ Followed(x) /\ x.t.socket # "subscribed" /\ x.ids = id
       /\ x.net["op"] = d.net["op"] \/ x.net["op"].phase = "sent"
  <2>1. CASE d.open
    <3>1. /\ Good(x, lg) /\ Followed(x) /\ x.t = [q.t EXCEPT !.socket = "subscribing"] /\ x.ids = q.ids
          /\ x.net["op"] = q.net["op"] \/ x.net["op"].phase = "sent"
      BY <1>9, <1>14, <1>15, <1>16, <1>17, <2>1, SubscribingReady DEF Ready
    <3>2. x.t.socket = "subscribing"
      BY <1>5, <1>8, <3>1 DEF Topics
    <3> QED
      BY <1>8, <3>1, <3>2, GoodIsReady
  <2>2. CASE ~d.open
    BY <1>6, <1>8, <1>9, <1>14, <1>15, <1>16, <1>17, <2>2 DEF Ready
  <2> QED
    BY <2>1, <2>2
<1>19. PICK y : y = EnsureLoop(x)
  OBVIOUS
<1>20. Good(y, lg) /\ Same(x, y)
  BY <1>18, <1>19, Ensured
<1>21. PICK e : e = ScheduleCheck(y)
  OBVIOUS
<1>22. Good(e, lg) /\ Same(y, e)
  BY <1>20, <1>21, Scheduled
<1>23. e = DoSubscribe(d)
  BY <1>1, <1>7, <1>17, <1>19, <1>21 DEF DoSubscribe
<1>24. e.t = x.t /\ e.ids = id /\ e.net = x.net
  BY <1>18, <1>20, <1>22 DEF Same
<1> QED
  BY <1>2, <1>18, <1>22, <1>23, <1>24 DEF Serves, Grows

LEMMA DoCloseGood ==
    ASSUME NEW d, NEW lg, Good(d, lg)
    PROVE  Owed(d, lg, DoClose(d))
<1>1. Base(d) /\ d \in Clients /\ Covered(d, lg) /\ d.ids \in Nat /\ (Followed(d) <=> d.t.id # 0)
      /\ Named(d) /\ Queued(d) /\ d.t.id \in Nat
  BY GoodIsReady, FollowedTopic DEF Base
<1>2. PICK q : q = [d EXCEPT !.closed = TRUE, !.t = NoTopic, !.loop = "idle", !.checkTimer = FALSE]
  OBVIOUS
<1>3. /\ q \in Clients /\ q.t = NoTopic /\ q.ops = d.ops /\ q.net = d.net /\ q.ids = d.ids /\ q.open = d.open
      /\ q.closed = TRUE /\ q.applied = d.applied /\ q.base = d.base /\ q.uncovered = d.uncovered
  BY <1>1, <1>2 DEF Clients
<1>4. q.t.id = 0 /\ ~Followed(q)
  BY <1>3 DEF NoTopic, Followed
<1>5. \A i \in DOMAIN d.ops : ~Own(q, d.ops[i])
  BY <1>1, <1>4 DEF Own, Named
<1>6. d.net["unsub"] # NoCall => d.ops # << >> /\ ~Own(q, d.ops[1])
  <2>1. d.ops # << >> => 1 \in DOMAIN d.ops
    BY <1>1 DEF Clients
  <2> QED
    BY <1>1, <1>5, <2>1 DEF Queued
<1>7. Named(q)
  BY <1>1, <1>3, <1>4 DEF Named
<1>8. Queued(q)
  BY <1>1, <1>3, <1>4, <1>5, <1>6 DEF Queued
<1>9. Base(q)
  BY <1>3, <1>4, <1>7, <1>8 DEF Base, TopicTidy, OneRung
<1>10. Covered(q, lg)
  <2>1. ASSUME NEW s \in Polls, q.net[s] # NoCall PROVE CallCovered(q, lg, q.net[s])
    <3>1. q.net[s] \in Calls /\ s \in Slots
      BY <1>7, <2>1 DEF Named, Polls, Slots
    <3>2. q.net[s].id # 0
      BY <3>1 DEF Calls
    <3>3. CallCovered(d, lg, q.net[s])
      BY <1>1, <1>3, <2>1 DEF Covered, CallsCovered
    <3> QED
      BY <1>4, <3>2, <3>3 DEF CallCovered
  <2>2. CallsCovered(q, lg)
    BY <1>1, <1>3, <2>1 DEF Covered, CallsCovered
  <2> QED
    BY <1>4, <2>2 DEF Covered, TopicCovered
<1>11. PICK e : e = DoClose(d)
  OBVIOUS
<1>12. e = IF Followed(d) /\ d.t.socket = "subscribed" THEN SendUnsubscribe(q) ELSE q
  BY <1>2, <1>11 DEF DoClose
<1>13. /\ Base(e) /\ Covered(e, lg) /\ e.t = NoTopic /\ e.ids = d.ids /\ e.closed = TRUE
       /\ \A s \in Slots \ {"unsub"} : e.net[s] = d.net[s]
  <2>1. CASE Followed(d) /\ d.t.socket = "subscribed"
    BY <1>3, <1>4, <1>9, <1>10, <1>12, <2>1, SendUnsubscribeKeeps
  <2>2. CASE ~(Followed(d) /\ d.t.socket = "subscribed")
    BY <1>3, <1>9, <1>10, <1>12, <2>2
  <2> QED
    BY <2>1, <2>2
<1>14. ~Followed(e) /\ e.t.id = 0
  BY <1>13 DEF NoTopic, Followed
<1>15. Good(e, lg)
  BY <1>13, <1>14 DEF Good, Core, Base, Laddered, ShouldPoll, Settled
<1>16. Moved(d, e)
  <2>1. e.net["op"] = d.net["op"]
    BY <1>13 DEF Slots
  <2> QED
    BY <1>1, <1>13, <1>14, <2>1 DEF Moved, Serves, Grows
<1> QED
  BY <1>11, <1>15, <1>16 DEF Owed

LEMMA HeadersGood ==
    ASSUME NEW d, NEW lg, Good(d, lg), NEW key \in Keys
    PROVE  Owed(d, lg, [d EXCEPT !.headers = key])
<1>1. Core(d) /\ Base(d) /\ d \in Clients /\ Covered(d, lg) /\ Settled(d)
  BY GoodIsReady DEF Base
<1>2. PICK e : e = [d EXCEPT !.headers = key]
  OBVIOUS
<1>3. /\ e \in Clients /\ e.t = d.t /\ e.ops = d.ops /\ e.net = d.net /\ e.ids = d.ids /\ e.open = d.open
      /\ e.closed = d.closed /\ e.loop = d.loop
      /\ e.applied = d.applied /\ e.base = d.base /\ e.uncovered = d.uncovered
  BY <1>1, <1>2 DEF Clients
<1>4. \A o : Own(e, o) <=> Own(d, o)
  BY <1>3 DEF Own
<1>5. Base(e)
  <2>1. Named(e) /\ TopicTidy(e) /\ OneRung(e)
    BY <1>1, <1>3 DEF Base, Named, TopicTidy, OneRung, Followed
  <2>2. Queued(e)
    BY <1>1, <1>3, <1>4 DEF Base, Queued, Followed
  <2> QED
    BY <1>3, <2>1, <2>2 DEF Base
<1>6. (ShouldPoll(e) <=> ShouldPoll(d)) /\ (LastOwn(e) <=> LastOwn(d))
  BY <1>3, <1>4 DEF ShouldPoll, LastOwn, Followed
<1>7. Core(e)
  BY <1>1, <1>3, <1>5, <1>6 DEF Core, Base, Laddered
<1>8. Settled(e)
  BY <1>1, <1>3 DEF Settled, Gapped, Followed
<1>9. Covered(e, lg)
  BY <1>1, <1>3, RenetCovers
<1>10. Kept(d, e)
  BY <1>3 DEF Kept, Followed
<1>11. Moved(d, e)
  BY <1>5, <1>8, <1>10, StaysMoved, KeptMoves
<1> QED
  BY <1>2, <1>7, <1>8, <1>9, <1>11 DEF Good, Owed

(* The socket is gone: its calls fail.                                      *)
LostNet(d) ==
    [s \in Slots |->
        IF s \notin Polls THEN NoCall
        ELSE IF d.net[s] # NoCall /\ d.net[s].socket
          THEN [d.net[s] EXCEPT !.phase = "transient", !.current = FALSE]
          ELSE d.net[s]]

LEMMA LostNetKeeps ==
    ASSUME NEW d, Base(d)
    PROVE  LET net == LostNet(d)
           IN /\ net \in Nets /\ net["op"] = NoCall /\ net["unsub"] = NoCall
              /\ \A s \in Polls :
                   IF d.net[s] = NoCall THEN net[s] = NoCall
                   ELSE /\ net[s] \in Calls /\ net[s].id = d.net[s].id /\ net[s] # NoCall
                        /\ net[s].cursor = d.net[s].cursor /\ net[s].held = d.net[s].held
                        /\ net[s] = d.net[s] \/ net[s].phase = "transient"
<1>1. PICK net : net = LostNet(d)
  OBVIOUS
<1>2. net["op"] = NoCall /\ net["unsub"] = NoCall
  BY <1>1 DEF LostNet, Slots, Polls
<1>3. ASSUME NEW s \in Polls
      PROVE  IF d.net[s] = NoCall THEN net[s] = NoCall
             ELSE /\ net[s] \in Calls /\ net[s].id = d.net[s].id /\ net[s] # NoCall
                  /\ net[s].cursor = d.net[s].cursor /\ net[s].held = d.net[s].held
                  /\ net[s] = d.net[s] \/ net[s].phase = "transient"
  <2>1. s \in Slots \ {"unsub"}
    BY DEF Polls, Slots
  <2>2. CASE d.net[s] = NoCall
    BY <1>1, <2>1, <2>2 DEF LostNet
  <2>3. CASE d.net[s] # NoCall
    <3>1. d.net[s] \in Calls /\ NoCall \notin Calls
      BY <2>1, <2>3, SlotFacts DEF NoCall, Calls
    <3>2. CASE d.net[s].socket
      <4>1. net[s] = [d.net[s] EXCEPT !.phase = "transient", !.current = FALSE]
        BY <1>1, <2>1, <2>3, <3>2 DEF LostNet
      <4>2. /\ net[s] \in Calls /\ net[s].id = d.net[s].id
            /\ net[s].cursor = d.net[s].cursor /\ net[s].held = d.net[s].held /\ net[s].phase = "transient"
        BY <3>1, <4>1 DEF Calls
      <4> QED
        BY <2>3, <3>1, <4>2
    <3>3. CASE ~d.net[s].socket
      <4>1. net[s] = d.net[s]
        BY <1>1, <2>1, <2>3, <3>3 DEF LostNet
      <4> QED
        BY <2>3, <3>1, <4>1
    <3> QED
      BY <3>2, <3>3
  <2> QED
    BY <2>2, <2>3
<1>4. net \in Nets
  <2>1. \A s \in Slots : net[s] \in Calls \cup {NoCall} \cup UnsubscribeCalls
    BY <1>2, <1>3 DEF Slots, Polls
  <2>2. net = [s \in Slots |-> net[s]]
    BY <1>1 DEF LostNet
  <2> QED
    BY <2>1, <2>2 DEF Nets
<1> QED
  BY <1>1, <1>2, <1>3, <1>4

LEMMA PeerClosedGood ==
    ASSUME NEW d, NEW lg, Good(d, lg)
    PROVE  LET e == PeerClosed(d) IN Owed(d, lg, e) /\ e.net["op"] = NoCall
<1>1. Base(d) /\ d \in Clients /\ Covered(d, lg) /\ Settled(d) /\ d.ids \in Nat
      /\ (Followed(d) <=> d.t.id # 0) /\ (Followed(d) => d.t \in Topics /\ d.t.rev \in Int)
  BY GoodIsReady, FollowedTopic
<1>2. PICK net : net = LostNet(d)
  OBVIOUS
<1>3. /\ net \in Nets /\ net["op"] = NoCall /\ net["unsub"] = NoCall
      /\ \A s \in Polls :
           IF d.net[s] = NoCall THEN net[s] = NoCall
           ELSE /\ net[s] \in Calls /\ net[s].id = d.net[s].id /\ net[s] # NoCall
                /\ net[s].cursor = d.net[s].cursor /\ net[s].held = d.net[s].held
                /\ net[s] = d.net[s] \/ net[s].phase = "transient"
  BY <1>1, <1>2, LostNetKeeps
<1>4. PICK t : t = IF Followed(d) THEN [d.t EXCEPT !.socket = "none"] ELSE d.t
  OBVIOUS
<1>5. t \in Topics \cup {NoTopic} /\ (Followed(d) => t \in Topics) /\ (~Followed(d) => t = d.t /\ t = NoTopic)
  BY <1>1, <1>4 DEF Topics, Clients, Followed
<1>6. /\ t.id = d.t.id
      /\ Followed(d) => /\ t.rev = d.t.rev /\ t.socket = "none" /\ t.pending = d.t.pending /\ t.gapRev = d.t.gapRev
                        /\ t.gapInFlight = d.t.gapInFlight /\ t.scope = d.t.scope /\ t.refreshing = d.t.refreshing
  BY <1>1, <1>4 DEF Topics
<1>7. PICK lost : lost = [d EXCEPT !.open = FALSE, !.ops = << >>, !.net = net]
  OBVIOUS
<1>8. PICK q : q = [lost EXCEPT !.t = t]
  OBVIOUS
<1>9. << >> \in Seq(SocketOps)
  OBVIOUS
<1>10. /\ q \in Clients /\ q.t = t /\ q.ops = << >> /\ q.net = net /\ q.ids = d.ids /\ q.open = FALSE
       /\ q.closed = d.closed /\ q.loop = d.loop
       /\ q.applied = d.applied /\ q.base = d.base /\ q.uncovered = d.uncovered
  BY <1>1, <1>3, <1>5, <1>7, <1>8, <1>9 DEF Clients
<1>11. Followed(q) <=> Followed(d)
  BY <1>5, <1>10 DEF Followed, NoTopic, Topics
<1>12. Named(q)
  <2>1. ASSUME NEW s \in Slots \ {"unsub"}, q.net[s] # NoCall PROVE q.net[s] \in Calls /\ q.net[s].id <= q.ids
    <3>1. s \in Polls /\ net[s] # NoCall
      BY <1>3, <1>10, <2>1 DEF Slots, Polls
    <3>2. d.net[s] # NoCall /\ net[s] \in Calls /\ net[s].id = d.net[s].id
      BY <1>3, <3>1
    <3> QED
      BY <1>1, <1>10, <3>2, SlotFacts
  <2>2. q.net["unsub"] \notin Calls
    BY <1>3, <1>10 DEF NoCall, Calls
  <2>3. DOMAIN q.ops = {}
    BY <1>10
  <2> QED
    BY <1>1, <1>6, <1>10, <2>1, <2>2, <2>3 DEF Base, Named
<1>13. Queued(q)
  <2>1. DOMAIN q.ops = {} /\ q.net["op"] = NoCall /\ q.net["unsub"] = NoCall
    BY <1>3, <1>10
  <2> QED
    BY <2>1 DEF Queued
<1>14. TopicTidy(q)
  <2>1. "gap" \in Polls
    BY DEF Polls
  <2>2. Followed(q) /\ q.t.gapInFlight => q.net["gap"] # NoCall /\ q.net["gap"].id = q.t.id
    BY <1>1, <1>3, <1>6, <1>10, <1>11, <2>1 DEF Base, TopicTidy
  <2> QED
    BY <1>1, <1>6, <1>10, <1>11, <2>2 DEF Base, TopicTidy
<1>15. OneRung(q)
  <2>1. "rung" \in Polls
    BY DEF Polls
  <2> QED
    BY <1>1, <1>3, <1>10, <2>1 DEF Base, OneRung
<1>16. Base(q) /\ Settled(q)
  BY <1>1, <1>6, <1>10, <1>11, <1>12, <1>13, <1>14, <1>15 DEF Base, Settled, Gapped
<1>17. Covered(q, lg)
  <2>1. \A k, n : Covers(q, lg, k, n) <=> Covers(d, lg, k, n)
    BY <1>10 DEF Covers, KnownOf
  <2>2. TopicCovered(q, lg)
    BY <1>1, <1>6, <1>10, <1>11, <2>1 DEF Covered, TopicCovered
  <2>3. ASSUME NEW s \in Polls, q.net[s] # NoCall
        PROVE  CallCovered(q, lg, q.net[s]) /\ (q.net[s].phase = "ok" => AnswerSound(lg, q.net[s]))
    <3>1. /\ d.net[s] # NoCall /\ net[s].id = d.net[s].id
          /\ net[s].cursor = d.net[s].cursor /\ net[s].held = d.net[s].held
          /\ net[s] = d.net[s] \/ net[s].phase = "transient"
      BY <1>3, <1>10, <2>3
    <3>2. CallCovered(d, lg, d.net[s]) /\ (d.net[s].phase = "ok" => AnswerSound(lg, d.net[s]))
      BY <1>1, <3>1 DEF Covered, CallsCovered
    <3>3. CallCovered(q, lg, q.net[s])
      BY <1>6, <1>10, <2>1, <3>1, <3>2 DEF CallCovered
    <3> QED
      BY <1>10, <3>1, <3>2, <3>3
  <2>4. CallsCovered(q, lg)
    BY <1>3, <1>10, <2>3 DEF CallsCovered
  <2> QED
    BY <2>2, <2>4 DEF Covered
<1>18. PICK e : e = EnsureLoop(q)
  OBVIOUS
<1>19. Good(e, lg) /\ Same(q, e)
  BY <1>16, <1>17, <1>18, Ensured DEF Ready
<1>20. e = PeerClosed(d)
  <2>1. lost \in Clients
    BY <1>1, <1>3, <1>7, <1>9 DEF Clients
  <2>2. q = IF Followed(d) THEN [lost EXCEPT !.t.socket = "none"] ELSE lost
    <3>1. lost.t = d.t
      BY <1>1, <1>7 DEF Clients
    <3> QED
      BY <1>4, <1>8, <2>1, <3>1 DEF Clients
  <2>3. net = [s \in Slots |-> IF s \notin Polls THEN NoCall
                               ELSE IF d.net[s] # NoCall /\ d.net[s].socket
                                 THEN [d.net[s] EXCEPT !.phase = "transient", !.current = FALSE]
                                 ELSE d.net[s]]
    BY <1>2 DEF LostNet
  <2> QED
    BY <1>7, <1>18, <2>2, <2>3 DEF PeerClosed
<1>21. Moved(d, e)
  <2>1. e.t = t /\ e.ids = d.ids /\ e.net = net
    BY <1>10, <1>19 DEF Same
  <2>2. Followed(e) <=> Followed(d)
    BY <1>10, <1>11, <2>1 DEF Followed
  <2> QED
    BY <1>1, <1>3, <1>6, <2>1, <2>2 DEF Moved, Serves, Grows
<1> QED
  BY <1>3, <1>10, <1>19, <1>20, <1>21 DEF Owed, Same

LEMMA PeerReconnectedGood ==
    ASSUME NEW d, NEW lg, Good(d, lg)
    PROVE  Owed(d, lg, PeerReconnected(d))
<1>1. Base(d) /\ d \in Clients /\ Covered(d, lg) /\ Settled(d) /\ d.ids \in Nat
      /\ (Followed(d) <=> d.t.id # 0) /\ (Followed(d) => d.t \in Topics /\ d.t.rev \in Int)
  BY GoodIsReady, FollowedTopic
<1>2. PICK q : q = [d EXCEPT !.open = TRUE]
  OBVIOUS
<1>3. /\ q \in Clients /\ q.t = d.t /\ q.ops = d.ops /\ q.net = d.net /\ q.ids = d.ids
      /\ q.closed = d.closed /\ q.loop = d.loop
      /\ q.applied = d.applied /\ q.base = d.base /\ q.uncovered = d.uncovered
  BY <1>1, <1>2 DEF Clients
<1>4. \A o : Own(q, o) <=> Own(d, o)
  BY <1>3 DEF Own
<1>5. Base(q)
  <2>1. Named(q) /\ TopicTidy(q) /\ OneRung(q)
    BY <1>1, <1>3 DEF Base, Named, TopicTidy, OneRung, Followed
  <2>2. Queued(q)
    BY <1>1, <1>3, <1>4 DEF Base, Queued, Followed
  <2> QED
    BY <1>3, <2>1, <2>2 DEF Base
<1>6. Settled(q)
  BY <1>1, <1>3 DEF Settled, Gapped, Followed
<1>7. Covered(q, lg)
  BY <1>1, <1>3, RenetCovers
<1>8. Ready(q, lg) /\ (Followed(q) <=> Followed(d))
  BY <1>3, <1>5, <1>6, <1>7 DEF Ready, Followed
<1>9. PICK x : x = IF Followed(d) /\ ~d.closed THEN SendSubscribe(q) ELSE q
  OBVIOUS
<1>10. Ready(x, lg) /\ Moved(d, x)
  <2>1. CASE Followed(d) /\ ~d.closed
    <3>1. /\ Good(x, lg) /\ Followed(x) /\ x.t = [q.t EXCEPT !.socket = "subscribing"] /\ x.ids = q.ids
          /\ x.net["op"] = q.net["op"] \/ x.net["op"].phase = "sent"
      BY <1>8, <1>9, <2>1, SubscribingReady
    <3>2. x.t.socket = "subscribing" /\ x.t.rev = d.t.rev
      BY <1>1, <1>3, <2>1, <3>1 DEF Topics
    <3> QED
      BY <1>1, <1>3, <2>1, <3>1, <3>2, GoodIsReady DEF Moved, Serves, Grows
  <2>2. CASE ~(Followed(d) /\ ~d.closed)
    <3>1. x = q
      BY <1>9, <2>2
    <3>3. Moved(d, q)
      BY <1>1, <1>3, <1>8 DEF Moved, Serves, Grows
    <3> QED
      BY <1>8, <3>1, <3>3
  <2> QED
    BY <2>1, <2>2
<1>11. PICK e : e = EnsureLoop(x)
  OBVIOUS
<1>12. Good(e, lg) /\ Same(x, e)
  BY <1>10, <1>11, Ensured
<1>13. e = PeerReconnected(d)
  BY <1>2, <1>3, <1>8, <1>9, <1>11 DEF PeerReconnected
<1> QED
  BY <1>10, <1>12, <1>13, SameMoves DEF Owed

-----------------------------------------------------------------------------
(* The server's answers.                                                    *)

LEMMA KeyOfIsScope ==
    ASSUME NEW key \in Keys
    PROVE  KeyOf(key) \in Scopes
BY DEF KeyOf, Scopes

(* The state of the server the client's answers are from.                   *)
LogOK == log \in Logs /\ \A k \in Scopes : Len(log[k]) \in Nat /\ Len(log[k]) <= MaxRev

LEMMA EventsSinceSound ==
    ASSUME LogOK, NEW k \in Scopes, NEW cursor \in Nat
    PROVE  LET events == EventsSince(k, cursor)
           IN /\ events \in SUBSET Arrivals /\ IsFiniteSet(events)
              /\ \A e \in events : e.scope = k /\ ChainedIn(log, e) /\ e.rev <= Len(log[k])
              /\ \A r \in cursor + 1 .. Len(log[k]) : log[k][r] => \E e \in events : e.rev = r
<1>1. PICK n \in Nat : n = Len(log[k]) /\ n <= MaxRev
  BY DEF LogOK
<1>2. PICK passing : passing = {r \in cursor + 1 .. n : log[k][r]}
  OBVIOUS
<1>3. passing \in SUBSET Int /\ IsFiniteSet(passing) /\ \A r \in passing : r \in Int /\ cursor < r /\ r <= n /\ log[k][r]
  <2>1. PICK first \in Int : first = cursor + 1
    OBVIOUS
  <2>2. PICK range : range = first .. n
    OBVIOUS
  <2>3. IsFiniteSet(range)
    BY <1>1, <2>2, FS_Interval
  <2>4. passing \in SUBSET range
    BY <1>1, <1>2, <2>1, <2>2
  <2>5. IsFiniteSet(passing)
    BY <2>3, <2>4, FS_Subset
  <2> QED
    BY <1>1, <1>2, <2>5
<1>4. PICK Prev : Prev = [r \in passing |-> Max({cursor} \cup {q \in passing : q < r})]
  OBVIOUS
<1>5. ASSUME NEW r \in passing
      PROVE  /\ Prev[r] \in Nat /\ cursor <= Prev[r] /\ Prev[r] < r
             /\ \A q \in passing : q < r => q <= Prev[r]
  <2>1. PICK S : S = {cursor} \cup {q \in passing : q < r}
    OBVIOUS
  <2>2. S \in SUBSET Int /\ S # {}
    <3>1. \A s \in S : s = cursor \/ s \in passing
      BY <2>1
    <3>2. cursor \in S /\ cursor \in Int
      BY <2>1
    <3> QED
      BY <1>3, <3>1, <3>2
  <2>3. IsFiniteSet(S)
    <3>1. PICK Q : Q = {q \in passing : q < r}
      OBVIOUS
    <3>2. IsFiniteSet(Q)
      BY <1>3, <3>1, FS_Subset
    <3>3. S = Q \cup {cursor}
      BY <2>1, <3>1
    <3> QED
      BY <3>2, <3>3, FS_AddElement
  <2>4. Max(S) \in S /\ \A a \in S : a <= Max(S)
    BY <2>2, <2>3, MaxIsOne
  <2>5. Prev[r] = Max(S)
    BY <1>4, <2>1
  <2>6. PICK m : m = Max(S)
    OBVIOUS
  <2>7. m \in S /\ \A a \in S : a <= m
    BY <2>4, <2>6
  <2>8. m \in Nat /\ cursor <= m /\ m < r
    BY <1>3, <2>1, <2>7
  <2>9. \A q \in passing : q < r => q <= m
    BY <2>1, <2>7
  <2> QED
    BY <2>5, <2>6, <2>8, <2>9
<1>6. PICK events : events = EventsSince(k, cursor)
  OBVIOUS
<1>7. events = {[scope |-> k, rev |-> r, prev |-> Prev[r]] : r \in passing}
  BY <1>1, <1>2, <1>4, <1>6 DEF EventsSince
<1>8. ASSUME NEW e \in events
      PROVE  e \in Arrivals /\ e.scope = k /\ ChainedIn(log, e) /\ e.rev <= n
  <2>1. PICK r \in passing : e = [scope |-> k, rev |-> r, prev |-> Prev[r]]
    BY <1>7
  <2>2. e.scope = k /\ e.rev = r /\ e.prev = Prev[r]
    BY <2>1
  <2>3. r \in Revs /\ Prev[r] \in Revs
    BY <1>1, <1>3, <1>5, EventSyncAssumption DEF Revs
  <2>4. e \in Arrivals
    BY <2>1, <2>3 DEF Arrivals
  <2>5. ChainedIn(log, e)
    <3>1. ASSUME NEW q \in Prev[r] + 1 .. r - 1 PROVE ~log[k][q]
      <4>1. q \in Int /\ Prev[r] < q /\ q < r /\ Prev[r] \in Nat /\ r \in Int /\ r <= n /\ cursor <= Prev[r]
        BY <1>3, <1>5
      <4>2. q \in cursor + 1 .. n
        BY <1>1, <4>1
      <4>3. q \notin passing
        BY <1>5, <4>1
      <4> QED
        BY <1>2, <4>2, <4>3
    <3>2. 0 <= Prev[r] /\ Prev[r] < r /\ r <= Len(log[k])
      BY <1>1, <1>3, <1>5
    <3> QED
      BY <2>2, <3>1, <3>2 DEF ChainedIn
  <2> QED
    BY <1>3, <2>2, <2>4, <2>5
<1>9. IsFiniteSet(events)
  <2>1. PICK f : f = [r \in passing |-> [scope |-> k, rev |-> r, prev |-> Prev[r]]]
    OBVIOUS
  <2>2. f \in Surjection(passing, events)
    BY <1>7, <2>1 DEF Surjection
  <2> QED
    BY <1>3, <2>2, FS_Surjection
<1>10. ASSUME NEW r \in cursor + 1 .. n, log[k][r] PROVE \E e \in events : e.rev = r
  <2>1. r \in passing
    BY <1>2, <1>10
  <2>2. PICK e : e = [scope |-> k, rev |-> r, prev |-> Prev[r]]
    OBVIOUS
  <2>3. e \in events /\ e.rev = r
    BY <1>7, <2>1, <2>2
  <2> QED
    BY <2>3
<1> QED
  BY <1>1, <1>6, <1>8, <1>9, <1>10

LEMMA PollAnswerSound ==
    ASSUME LogOK, NEW call \in Calls, NEW d, CallCovered(d, log, call),
           NEW served \in Calls, served.cursor = call.cursor, served.held = call.held, served.answer = PollAnswer(call)
    PROVE  AnswerSound(log, served)
<1>1. PICK k \in Scopes : k = KeyOf(call.headers)
  BY KeyOfIsScope DEF Calls
<1>2. PICK n \in Nat : n = Len(log[k]) /\ n <= MaxRev
  BY DEF LogOK
<1>3. PICK cursor : cursor = call.cursor
  OBVIOUS
<1>4. cursor \in Int /\ cursor >= NoRev /\ (cursor # NoRev => cursor \in Nat)
  BY <1>3 DEF Calls, Revs, NoRev
<1>5. PICK known \in BOOLEAN : known <=> KnownCursor(call, k)
  OBVIOUS
<1>6. PICK events : events = IF known /\ cursor # NoRev THEN EventsSince(k, cursor) ELSE {}
  OBVIOUS
<1>7. PICK a : a = [rev |-> n, scope |-> k, null |-> ~known, events |-> events]
  OBVIOUS
<1>8. a = PollAnswer(call)
  <2>1. ~known = ~KnownCursor(call, k)
    BY <1>5, Zenon DEF KnownCursor
  <2>2. events = IF KnownCursor(call, k) /\ call.cursor # NoRev THEN EventsSince(k, call.cursor) ELSE {}
    BY <1>3, <1>5, <1>6
  <2> QED
    BY <1>1, <1>2, <1>7, <2>1, <2>2, Zenon DEF PollAnswer
<1>9. /\ events \in SUBSET Arrivals /\ IsFiniteSet(events)
      /\ \A e \in events : e.scope = k /\ ChainedIn(log, e) /\ e.rev <= n
      /\ known /\ cursor # NoRev => \A r \in cursor + 1 .. n : log[k][r] => \E e \in events : e.rev = r
      /\ ~known => events = {}
  <2>1. CASE known /\ cursor # NoRev
    <3>1. cursor \in Nat /\ events = EventsSince(k, cursor)
      BY <1>4, <1>6, <2>1
    <3> QED
      BY <1>2, <2>1, <3>1, EventsSinceSound
  <2>2. CASE ~(known /\ cursor # NoRev)
    <3>1. events = {}
      BY <1>6, <2>2
    <3> QED
      BY <2>2, <3>1, FS_EmptySet
  <2> QED
    BY <2>1, <2>2
<1>10. a.rev = n /\ a.scope = k /\ (a.null <=> ~known) /\ a.events = events /\ n \in Revs
  <2>1. n \in Revs
    BY <1>2, EventSyncAssumption DEF Revs
  <2>2. a.rev = n /\ a.scope = k /\ a.events = events /\ a.null = ~known
    BY <1>7
  <2> QED
    BY <2>1, <2>2
<1>11. a \in PollAnswers
  BY <1>7, <1>9, <1>10 DEF PollAnswers
<1>12. k = call.held => cursor <= n
  BY <1>2, <1>3, <1>4 DEF CallCovered, NoRev
<1>13. known /\ cursor # NoRev => k = call.held
  BY <1>3, <1>5 DEF KnownCursor
<1>14. served.answer = a /\ served.cursor = cursor /\ served.held = call.held
  BY <1>3, <1>8
<1> QED
  BY <1>2, <1>9, <1>10, <1>11, <1>12, <1>13, <1>14 DEF AnswerSound

(* A call in flight moves on.                                               *)
Recalled(d, slot, call) == [d EXCEPT !.net = [d.net EXCEPT ![slot] = call]]

Recalls(d, lg, slot, call) ==
    /\ slot \in Polls \cup {"op"} /\ d.net[slot] # NoCall
    /\ call \in Calls /\ call.id = d.net[slot].id
    /\ call.cursor = d.net[slot].cursor /\ call.held = d.net[slot].held
    /\ slot \in Polls /\ call.phase = "ok" => AnswerSound(lg, call)
    /\ slot = "op" /\ call.phase = "ok" =>
         LET a == call.answer IN a \in SubscribeAnswers /\ 0 <= a.rev /\ a.rev <= Len(lg[a.scope])

LEMMA RecallGood ==
    ASSUME NEW d, NEW lg, Good(d, lg), NEW slot, NEW call, Recalls(d, lg, slot, call)
    PROVE  LET e == Recalled(d, slot, call)
           IN /\ Good(e, lg) /\ e.t = d.t /\ e.ids = d.ids /\ e.ops = d.ops /\ e.net[slot] = call
              /\ \A s \in Slots \ {slot} : e.net[s] = d.net[s]
<1>1. Core(d) /\ Base(d) /\ Settled(d) /\ Covered(d, lg) /\ d \in Clients
  BY GoodIsReady DEF Base
<1>2. PICK net : net = [d.net EXCEPT ![slot] = call]
  OBVIOUS
<1>3. slot \in Slots \ {"unsub"} /\ call \in Calls /\ NoCall \notin Calls /\ call # NoCall
  BY DEF Recalls, Polls, Slots, NoCall, Calls
<1>4. net \in Nets /\ net[slot] = call /\ \A s \in Slots \ {slot} : net[s] = d.net[s]
  BY <1>1, <1>2, <1>3, SlotFacts DEF Nets
<1>5. \A s \in Slots : /\ net[s] = NoCall <=> d.net[s] = NoCall
                       /\ s # "unsub" /\ net[s] # NoCall => net[s] \in Calls /\ net[s].id = d.net[s].id /\ net[s].id <= d.ids
  BY <1>1, <1>3, <1>4, SlotFacts DEF Recalls
<1>6. net["unsub"] = d.net["unsub"]
  BY <1>3, <1>4 DEF Slots
<1>7. Nettable(d, net)
  <2>1. /\ net["op"] = NoCall <=> d.net["op"] = NoCall
        /\ net["gap"] = NoCall <=> d.net["gap"] = NoCall
        /\ net["rung"] = NoCall <=> d.net["rung"] = NoCall
        /\ net["op"] # NoCall => net["op"].id = d.net["op"].id
        /\ net["gap"] # NoCall => net["gap"].id = d.net["gap"].id
    BY <1>5 DEF Slots
  <2> QED
    BY <1>1, <1>4, <1>5, <1>6, <2>1 DEF Nettable, Base, Named, Queued, TopicTidy, OneRung
<1>8. PICK e : e = [d EXCEPT !.net = net]
  OBVIOUS
<1>9. /\ Base(e) /\ e.net = net /\ e.t = d.t /\ e.ids = d.ids /\ e.open = d.open /\ e.closed = d.closed
      /\ e.headers = d.headers /\ e.loop = d.loop /\ e.ops = d.ops
      /\ e.applied = d.applied /\ e.base = d.base /\ e.uncovered = d.uncovered
      /\ (ShouldPoll(e) <=> ShouldPoll(d)) /\ (LastOwn(e) <=> LastOwn(d))
  BY <1>1, <1>7, <1>8, RenetKeeps
<1>10. Core(e)
  BY <1>1, <1>9 DEF Core, Base, Laddered
<1>11. Settled(e)
  BY <1>1, <1>9 DEF Settled, Gapped, Followed
<1>12. Covered(e, lg)
  <2>1. \A k, n : Covers(e, lg, k, n) <=> Covers(d, lg, k, n)
    BY <1>9 DEF Covers, KnownOf
  <2>2. \A x : CallCovered(e, lg, x) <=> CallCovered(d, lg, x)
    BY <1>9, <2>1 DEF CallCovered
  <2>3. TopicCovered(e, lg)
    BY <1>1, <1>9, <2>1 DEF Covered, TopicCovered, Followed
  <2>4. ASSUME NEW s \in Polls, e.net[s] # NoCall
        PROVE  CallCovered(e, lg, e.net[s]) /\ (e.net[s].phase = "ok" => AnswerSound(lg, e.net[s]))
    <3>1. s \in Slots
      BY DEF Polls, Slots
    <3>2. CASE s # slot
      <4>1. e.net[s] = d.net[s]
        BY <1>4, <1>9, <3>1, <3>2
      <4> QED
        BY <1>1, <2>2, <2>4, <4>1 DEF Covered, CallsCovered
    <3>3. CASE s = slot
      <4>1. e.net[s] = call /\ d.net[s] # NoCall
        BY <1>4, <1>9, <3>3 DEF Recalls
      <4>2. CallCovered(d, lg, d.net[s])
        BY <1>1, <4>1 DEF Covered, CallsCovered
      <4>3. CallCovered(e, lg, call)
        BY <2>2, <3>3, <4>2 DEF Recalls, CallCovered
      <4> QED
        BY <3>3, <4>1, <4>3 DEF Recalls
    <3> QED
      BY <3>2, <3>3
  <2>5. e.net["op"] # NoCall /\ e.net["op"].phase = "ok" =>
          LET a == e.net["op"].answer IN a \in SubscribeAnswers /\ 0 <= a.rev /\ a.rev <= Len(lg[a.scope])
    <3>1. CASE slot = "op"
      BY <1>4, <1>9, <3>1 DEF Recalls
    <3>2. CASE slot # "op"
      <4>1. e.net["op"] = d.net["op"]
        BY <1>4, <1>9, <3>2 DEF Slots
      <4> QED
        BY <1>1, <4>1 DEF Covered, CallsCovered
    <3> QED
      BY <3>1, <3>2
  <2>6. CallsCovered(e, lg)
    BY <2>4, <2>5 DEF CallsCovered
  <2> QED
    BY <2>3, <2>6 DEF Covered
<1>13. e = Recalled(d, slot, call)
  BY <1>2, <1>8 DEF Recalled
<1> QED
  BY <1>4, <1>9, <1>10, <1>11, <1>12, <1>13 DEF Good

(* The unsubscribe has been served.                                         *)
LEMMA UnsubscribedGood ==
    ASSUME NEW d, NEW lg, Good(d, lg), d.net["unsub"] # NoCall
    PROVE  LET e == [d EXCEPT !.net["unsub"].phase = "ok"]
           IN Good(e, lg) /\ e.t = d.t /\ e.ids = d.ids /\ e.ops = d.ops /\ e.ops # << >> /\ e.net["op"] = NoCall
<1>1. Base(d) /\ d.ops # << >> /\ ~Own(d, d.ops[1]) /\ d.net["op"] = NoCall
  BY GoodIsReady DEF Base, Queued
<1>2. d.net["unsub"] \in UnsubscribeCalls
  BY <1>1, SlotFacts DEF Nets
<1>3. PICK call : call = [d.net["unsub"] EXCEPT !.phase = "ok"]
  OBVIOUS
<1>4. call \in UnsubscribeCalls /\ call \notin Calls
  BY <1>2, <1>3 DEF UnsubscribeCalls, Calls
<1>5. PICK net : net = [d.net EXCEPT !["unsub"] = call]
  OBVIOUS
<1>6. net \in Nets /\ net["unsub"] = call /\ \A s \in Slots \ {"unsub"} : net[s] = d.net[s]
  BY <1>1, <1>4, <1>5, SlotFacts DEF Nets
<1>7. net["op"] = NoCall /\ net["gap"] = d.net["gap"] /\ net["rung"] = d.net["rung"]
  BY <1>1, <1>6 DEF Slots
<1>8. Nettable(d, net)
  BY <1>1, <1>4, <1>6, <1>7, SlotFacts DEF Nettable
<1>9. \A s \in Polls : net[s] = d.net[s]
  BY <1>6 DEF Polls, Slots
<1>10. PICK e : e = [d EXCEPT !.net = net]
  OBVIOUS
<1>11. Good(e, lg) /\ e.net = net /\ e.t = d.t /\ e.ops = d.ops /\ e.ids = d.ids
  BY <1>1, <1>7, <1>8, <1>9, <1>10, RenetGood
<1>12. e = [d EXCEPT !.net["unsub"].phase = "ok"]
  BY <1>3, <1>5, <1>10
<1> QED
  BY <1>1, <1>7, <1>11, <1>12

-----------------------------------------------------------------------------
(* The log grows.                                                           *)

Extends(lg, lh) ==
    \A k \in Scopes : /\ Len(lg[k]) \in Nat /\ Len(lh[k]) \in Nat /\ Len(lg[k]) <= Len(lh[k])
                      /\ \A r \in 1 .. Len(lg[k]) : lh[k][r] = lg[k][r]

LEMMA CoversGrows ==
    ASSUME NEW d, NEW lg, NEW lh, Extends(lg, lh), NEW k \in Scopes, NEW n \in Int, Covers(d, lg, k, n)
    PROVE  Covers(d, lh, k, n)
<1>1. Len(lg[k]) \in Nat /\ Len(lh[k]) \in Nat /\ Len(lg[k]) <= Len(lh[k]) /\ n <= Len(lg[k])
  BY DEF Extends, Covers
<1>2. \A r \in 1 .. n : r \in 1 .. Len(lg[k])
  BY <1>1
<1> QED
  BY <1>1, <1>2 DEF Extends, Covers

LEMMA ChainGrows ==
    ASSUME NEW lg, NEW lh, Extends(lg, lh), NEW a \in Arrivals, ChainedIn(lg, a)
    PROVE  ChainedIn(lh, a)
<1>1. PICK k \in Scopes : k = a.scope
  BY DEF Arrivals
<1>2. PICK n \in Nat : n = Len(lg[k]) /\ Len(lh[k]) \in Nat /\ n <= Len(lh[k])
  BY DEF Extends
<1>3. a.prev \in Int /\ a.rev \in Int /\ 0 <= a.prev /\ a.prev < a.rev /\ a.rev <= n
  BY <1>1, <1>2 DEF Arrivals, Revs, NoRev, ChainedIn
<1>4. \A r \in a.prev + 1 .. a.rev - 1 : r \in 1 .. n
  BY <1>3
<1>5. \A r \in 1 .. n : lh[k][r] = lg[k][r]
  BY <1>2 DEF Extends
<1>6. \A r \in a.prev + 1 .. a.rev - 1 : ~lg[k][r]
  BY <1>1 DEF ChainedIn
<1>7. \A r \in a.prev + 1 .. a.rev - 1 : ~lh[k][r]
  BY <1>4, <1>5, <1>6
<1>8. a.rev <= Len(lh[k])
  BY <1>2, <1>3
<1> QED
  BY <1>1, <1>3, <1>7, <1>8 DEF ChainedIn

LEMMA AnswerGrows ==
    ASSUME NEW lg, NEW lh, Extends(lg, lh), NEW call \in Calls, AnswerSound(lg, call)
    PROVE  AnswerSound(lh, call)
<1>1. PICK a : a = call.answer
  OBVIOUS
<1>2. a \in PollAnswers /\ a.scope \in Scopes /\ a.rev \in Int /\ 0 <= a.rev /\ a.rev <= Len(lg[a.scope])
  BY <1>1 DEF AnswerSound, PollAnswers, Revs, NoRev
<1>3. Len(lg[a.scope]) \in Nat /\ Len(lh[a.scope]) \in Nat /\ Len(lg[a.scope]) <= Len(lh[a.scope])
  BY <1>2 DEF Extends
<1>4. \A e \in a.events : e \in Arrivals /\ e.scope = a.scope /\ ChainedIn(lh, e) /\ e.rev <= a.rev
  <2>1. \A e \in a.events : e \in Arrivals
    BY <1>2 DEF PollAnswers
  <2>2. \A e \in a.events : e.scope = a.scope /\ ChainedIn(lg, e) /\ e.rev <= a.rev
    BY <1>1 DEF AnswerSound
  <2> QED
    BY <2>1, <2>2, ChainGrows
<1>5. ASSUME ~a.null, call.cursor # NoRev, NEW r \in call.cursor + 1 .. a.rev, lh[a.scope][r]
      PROVE  \E e \in a.events : e.rev = r
  <2>1. call.cursor \in Nat
    BY <1>5 DEF Calls, Revs, NoRev
  <2>2. r \in 1 .. Len(lg[a.scope])
    BY <1>2, <1>3, <1>5, <2>1
  <2>3. lg[a.scope][r]
    BY <1>2, <1>5, <2>2 DEF Extends
  <2> QED
    BY <1>1, <1>5, <2>3 DEF AnswerSound
<1>6. /\ IsFiniteSet(a.events) /\ (a.null => a.events = {})
      /\ a.scope = call.held => call.cursor <= a.rev
      /\ ~a.null /\ call.cursor # NoRev => a.scope = call.held
  BY <1>1 DEF AnswerSound
<1>7. 0 <= a.rev /\ a.rev <= Len(lh[a.scope])
  BY <1>2, <1>3
<1>8. ~a.null /\ call.cursor # NoRev => \A r \in call.cursor + 1 .. a.rev : lh[a.scope][r] => \E e \in a.events : e.rev = r
  BY <1>5
<1> QED
  BY <1>1, <1>2, <1>4, <1>6, <1>7, <1>8 DEF AnswerSound

LEMMA GoodGrows ==
    ASSUME NEW d, NEW lg, NEW lh, Extends(lg, lh), Good(d, lg)
    PROVE  Good(d, lh)
<1>1. Core(d) /\ Base(d) /\ Settled(d) /\ Covered(d, lg)
  BY GoodIsReady
<1>2. TopicCovered(d, lh)
  <2>1. ASSUME Followed(d), d.t.rev # NoRev PROVE Covers(d, lh, d.t.scope, d.t.rev)
    <3>1. d.t.scope \in Scopes /\ d.t.rev \in Int /\ Covers(d, lg, d.t.scope, d.t.rev)
      BY <1>1, <2>1, FollowedTopic DEF Base, TopicTidy, Covered, TopicCovered
    <3> QED
      BY <3>1, CoversGrows
  <2>2. ASSUME Followed(d), NEW i \in DOMAIN d.t.pending PROVE ChainedIn(lh, d.t.pending[i])
    <3>1. d.t.pending \in Seq(Arrivals)
      BY <1>1, <2>2, FollowedTopic DEF Topics
    <3>2. d.t.pending[i] \in Arrivals
      BY <3>1
    <3>3. ChainedIn(lg, d.t.pending[i])
      BY <1>1, <2>2 DEF Covered, TopicCovered
    <3> QED
      BY <3>2, <3>3, ChainGrows
  <2> QED
    BY <2>1, <2>2 DEF TopicCovered
<1>3. CallsCovered(d, lh)
  <2>1. ASSUME NEW s \in Polls, d.net[s] # NoCall
        PROVE  CallCovered(d, lh, d.net[s]) /\ (d.net[s].phase = "ok" => AnswerSound(lh, d.net[s]))
    <3>1. PICK call : call = d.net[s]
      OBVIOUS
    <3>2. call \in Calls /\ CallCovered(d, lg, call) /\ (call.phase = "ok" => AnswerSound(lg, call))
      BY <2>1, <3>1, CallFacts
    <3>3. call.phase = "ok" => AnswerSound(lh, call)
      BY <3>2, AnswerGrows
    <3>4. CallCovered(d, lh, call)
      <4>1. ASSUME call.cursor # NoRev
            PROVE  /\ call.held \in Scopes /\ call.cursor <= Len(lh[call.held])
                   /\ call.id = d.t.id => Covers(d, lh, call.held, call.cursor)
        <5>1. /\ call.held \in Scopes /\ call.cursor <= Len(lg[call.held]) /\ call.cursor \in Int
              /\ call.id = d.t.id => Covers(d, lg, call.held, call.cursor)
          BY <3>2, <4>1 DEF CallCovered, Calls, Revs, NoRev
        <5>2. Len(lg[call.held]) \in Nat /\ Len(lh[call.held]) \in Nat /\ Len(lg[call.held]) <= Len(lh[call.held])
          BY <5>1 DEF Extends
        <5> QED
          BY <5>1, <5>2, CoversGrows
      <4> QED
        BY <4>1 DEF CallCovered
    <3> QED
      BY <3>1, <3>3, <3>4
  <2>2. ASSUME d.net["op"] # NoCall, d.net["op"].phase = "ok"
        PROVE  LET a == d.net["op"].answer IN a \in SubscribeAnswers /\ 0 <= a.rev /\ a.rev <= Len(lh[a.scope])
    <3>1. PICK a : a = d.net["op"].answer
      OBVIOUS
    <3>2. a \in SubscribeAnswers /\ 0 <= a.rev /\ a.rev <= Len(lg[a.scope])
      BY <1>1, <2>2, <3>1 DEF Covered, CallsCovered
    <3>3. a.scope \in Scopes /\ a.rev \in Int
      BY <3>2 DEF SubscribeAnswers, Revs, NoRev
    <3>4. Len(lg[a.scope]) \in Nat /\ Len(lh[a.scope]) \in Nat /\ Len(lg[a.scope]) <= Len(lh[a.scope])
      BY <3>3 DEF Extends
    <3>5. a \in SubscribeAnswers /\ 0 <= a.rev /\ a.rev <= Len(lh[a.scope])
      BY <3>2, <3>3, <3>4
    <3> QED
      BY <3>1, <3>5
  <2> QED
    BY <2>1, <2>2 DEF CallsCovered
<1> QED
  BY <1>1, <1>2, <1>3 DEF Good, Covered

-----------------------------------------------------------------------------
(* The invariant.                                                           *)

PushesInv == \A a \in due \cup wire : a \in Arrivals /\ ChainedIn(log, a)

CountsInv ==
    /\ moves \in Nat /\ moves <= MaxMoves /\ c.ids <= moves
    /\ faults \in Nat /\ sub \in Scopes \cup {NoSub}

Under(k) == sub = k \/ (sub = NoSub /\ faults > 0)

(* A subscribe that has been recorded is what the server serves, and its    *)
(* answer names the scope it serves.                                        *)
ServedInv ==
    /\ Followed(c) /\ c.t.socket = "subscribed" /\ c.ops = << >> => Under(c.t.scope)
    /\ c.net["op"] # NoCall =>
         LET call == c.net["op"]
         IN /\ call.phase \in {"recorded", "ok"} => Under(KeyOf(call.headers))
            /\ call.phase = "ok" => call.answer.scope = KeyOf(call.headers)

SyncInv == LogOK /\ Good(c, log) /\ CountsInv /\ PushesInv /\ ServedInv

LEMMA SyncInvInit == Init => SyncInv
<1> SUFFICES ASSUME Init PROVE SyncInv
  OBVIOUS
<1>1. PICK key \in Keys, open \in BOOLEAN : c = [NewClient(key) EXCEPT !.open = open]
  BY DEF Init
<1>2. PICK net : net = [s \in Slots |-> NoCall]
  OBVIOUS
<1>3. net \in Nets /\ \A s \in Slots : net[s] = NoCall
  BY <1>2 DEF Nets
<1>4. /\ c.t = NoTopic /\ c.ids = 0 /\ c.open = open /\ c.closed = FALSE /\ c.headers = key /\ c.loop = "idle"
      /\ c.checkTimer = FALSE /\ c.ops = << >> /\ c.net = net /\ c.applied = {} /\ c.base = NoRevs /\ c.uncovered = NoRevs
  BY <1>1, <1>2 DEF NewClient
<1>5. c \in Clients
  <2>1. NoRevs \in [ScopeKeys -> Revs]
    BY DEF NoRevs, ScopeKeys, Revs
  <2>2. {} \in SUBSET (ScopeKeys \X Revs) /\ << >> \in Seq(SocketOps) /\ 0 \in Nat
    OBVIOUS
  <2>3. c = [t |-> NoTopic, ids |-> 0, open |-> open, closed |-> FALSE, headers |-> key, loop |-> "idle",
             checkTimer |-> FALSE, ops |-> << >>, net |-> net, applied |-> {}, base |-> NoRevs, uncovered |-> NoRevs]
    BY <1>1, <1>2 DEF NewClient
  <2> QED
    BY <1>3, <2>1, <2>2, <2>3 DEF Clients
<1>6. ~Followed(c) /\ c.t.id = 0
  BY <1>4 DEF Followed, NoTopic
<1>7. \A s \in Slots : c.net[s] = NoCall
  BY <1>3, <1>4
<1>8. c.net["op"] = NoCall /\ c.net["unsub"] = NoCall /\ c.net["rung"] = NoCall /\ NoCall \notin Calls
  BY <1>7 DEF Slots, NoCall, Calls
<1>9. Named(c) /\ Queued(c)
  <2>1. DOMAIN c.ops = {}
    BY <1>4
  <2> QED
    BY <1>4, <1>6, <1>7, <1>8, <2>1 DEF Named, Queued
<1>10. Good(c, log)
  <2>1. Core(c)
    BY <1>5, <1>6, <1>8, <1>9 DEF Core, Base, TopicTidy, OneRung, Laddered, ShouldPoll
  <2>2. \A s \in Polls : c.net[s] = NoCall
    BY <1>7 DEF Polls, Slots
  <2> QED
    BY <1>6, <1>8, <2>1, <2>2 DEF Good, Settled, Covered, TopicCovered, CallsCovered
<1>11. LogOK
  <2>1. << >> \in Seq(BOOLEAN) /\ Len(<< >>) = 0
    OBVIOUS
  <2> QED
    BY <2>1, EventSyncAssumption DEF Init, LogOK, Logs
<1> QED
  BY <1>4, <1>6, <1>8, <1>10, <1>11, EventSyncAssumption DEF Init, SyncInv, CountsInv, PushesInv, ServedInv

(* A step of the client by itself.                                          *)
LEMMA ClientStep ==
    ASSUME SyncInv, Good(c', log), Serves(c, c'), c'.ids <= moves', UNCHANGED <<log, sub, due, wire, faults>>,
           moves' \in Nat, moves' <= MaxMoves
    PROVE  SyncInv'
<1>1. LogOK' /\ PushesInv'
  BY DEF SyncInv, LogOK, PushesInv
<1>2. Good(c, log)'
  OBVIOUS
<1>3. CountsInv'
  BY DEF SyncInv, CountsInv
<1>4. ServedInv'
  <2>1. \A k : Under(k)' <=> Under(k)
    BY DEF Under
  <2>2. ServedInv
    BY DEF SyncInv
  <2>3. (Followed(c) /\ c.t.socket = "subscribed" /\ c.ops = << >> => Under(c.t.scope))'
    BY <2>1, <2>2 DEF Serves, ServedInv
  <2>4. ASSUME c'.net["op"] # NoCall
        PROVE  /\ c'.net["op"].phase \in {"recorded", "ok"} => Under(KeyOf(c'.net["op"].headers))
               /\ c'.net["op"].phase = "ok" => c'.net["op"].answer.scope = KeyOf(c'.net["op"].headers)
    BY <2>2, <2>4 DEF Serves, ServedInv
  <2> QED
    BY <2>1, <2>3, <2>4 DEF ServedInv
<1> QED
  BY <1>1, <1>2, <1>3, <1>4 DEF SyncInv

LEMMA ClientMoves ==
    ASSUME SyncInv, Owed(c, log, c'), UNCHANGED <<log, sub, due, wire, faults, moves>>
    PROVE  SyncInv' /\ Grows(c, c')
<1>1. Good(c', log) /\ Serves(c, c') /\ c'.ids = c.ids /\ Grows(c, c')
  BY DEF Owed, Moved
<1>2. c'.ids <= moves' /\ moves' \in Nat /\ moves' <= MaxMoves
  BY <1>1 DEF SyncInv, CountsInv
<1> QED
  BY <1>1, <1>2, ClientStep

LEMMA AppSteps ==
    ASSUME SyncInv, App
    PROVE  SyncInv' /\ Grows(c, c')
<1>1. Good(c, log) /\ log \in Logs /\ moves \in Nat /\ moves <= MaxMoves /\ c.ids <= moves /\ c.ids \in Nat
  <2>1. Good(c, log) /\ log \in Logs /\ moves \in Nat /\ moves <= MaxMoves /\ c.ids <= moves
    BY DEF SyncInv, LogOK, CountsInv
  <2> QED
    BY <2>1, GoodIsReady, FollowedTopic
<1>2. Core(c) /\ Base(c) /\ Settled(c) /\ Covered(c, log)
  BY <1>1, GoodIsReady
<1>3. ASSUME NEW next, Move(next), Owed(c, log, next) PROVE SyncInv' /\ Grows(c, c')
  <2>1. c' = next /\ moves' = moves + 1 /\ moves < MaxMoves /\ UNCHANGED <<log, sub, due, wire, faults>>
    BY <1>3 DEF Move
  <2>2. Good(c', log) /\ Serves(c, c') /\ c'.ids = c.ids /\ Grows(c, c')
    BY <1>3, <2>1 DEF Owed, Moved
  <2>3. c'.ids <= moves' /\ moves' \in Nat /\ moves' <= MaxMoves
    BY <1>1, <2>1, <2>2, EventSyncAssumption
  <2> QED
    BY <2>1, <2>2, <2>3, ClientStep
<1>4. CASE Subscribe
  <2>1. ~Followed(c) /\ ~c.closed /\ c' = DoSubscribe(c) /\ moves' = moves + 1 /\ moves < MaxMoves
        /\ UNCHANGED <<log, sub, due, wire, faults>>
    BY <1>4 DEF Subscribe, Move
  <2>2. Good(c', log) /\ Serves(c, c') /\ Grows(c, c') /\ c'.ids = c.ids + 1
    BY <1>1, <2>1, DoSubscribeGood
  <2>3. c'.ids <= moves' /\ moves' \in Nat /\ moves' <= MaxMoves
    BY <1>1, <2>1, <2>2, EventSyncAssumption
  <2> QED
    BY <2>1, <2>2, <2>3, ClientStep
<1>5. CASE Unsubscribe
  <2>1. Followed(c) /\ Move(EndTopic(c))
    BY <1>5 DEF Unsubscribe
  <2>2. Owed(c, log, EndTopic(c))
    BY <1>2, <2>1, EndTopicKeeps DEF Owed
  <2> QED
    BY <1>3, <2>1, <2>2
<1>6. CASE Refresh
  <2>1. Followed(c) /\ Move(RefreshState(c))
    BY <1>6 DEF Refresh
  <2>2. PICK e : e = RefreshState(c)
    OBVIOUS
  <2>3. Sound(e, log) /\ Drifts(c, e)
    BY <1>1, <1>2, <2>1, <2>2, RefreshStateSound DEF Sound
  <2>4. Owed(c, log, e)
    BY <1>1, <2>1, <2>3, SoundIsGood DEF Owed
  <2> QED
    BY <1>3, <2>1, <2>2, <2>4
<1>7. CASE Close
  <2>1. Move(DoClose(c)) /\ Owed(c, log, DoClose(c))
    BY <1>1, <1>7, DoCloseGood DEF Close
  <2> QED
    BY <1>3, <2>1
<1>8. CASE \E key \in Keys : ChangeHeaders(key)
  <2>1. PICK key \in Keys : ChangeHeaders(key)
    BY <1>8
  <2>2. PICK e : e = [c EXCEPT !.headers = key]
    OBVIOUS
  <2>3. Move(e) /\ Owed(c, log, e)
    BY <1>1, <2>1, <2>2, HeadersGood DEF ChangeHeaders
  <2> QED
    BY <1>3, <2>3
<1> QED
  BY <1>4, <1>5, <1>6, <1>7, <1>8 DEF App

LEMMA ReturnSteps ==
    ASSUME SyncInv, Returns \/ LadderTimer \/ CheckTimer \/ Reconnect
    PROVE  SyncInv' /\ Grows(c, c')
<1>1. Good(c, log) /\ log \in Logs
  BY DEF SyncInv, LogOK
<1>2. Base(c) /\ NoCall.phase = "none"
  BY <1>1, GoodIsReady DEF NoCall
<1>3. SUFFICES ASSUME TRUE PROVE Owed(c, log, c') /\ UNCHANGED <<log, sub, due, wire, faults, moves>>
  BY ClientMoves
<1>4. CASE NextOp
  BY <1>1, <1>4, StartOpGood DEF NextOp, Client
<1>5. CASE SubscribeReturns
  <2>1. c.net["op"] # NoCall /\ c.net["op"].phase \in Ended
    BY <1>2, <1>5 DEF SubscribeReturns, Ended
  <2> QED
    BY <1>1, <1>5, <2>1, OpAnsweredGood DEF SubscribeReturns, Client
<1>6. CASE UnsubscribeReturns
  <2>1. c.net["unsub"] # NoCall
    BY <1>2, <1>6 DEF UnsubscribeReturns
  <2> QED
    BY <1>1, <1>6, <2>1, UnsubscribeAnsweredGood DEF UnsubscribeReturns, Client
<1>7. CASE GapReturns
  <2>1. c.net["gap"] # NoCall /\ c.net["gap"].phase \in Ended
    BY <1>2, <1>7 DEF GapReturns, Ended
  <2> QED
    BY <1>1, <1>7, <2>1, GapAnsweredGood DEF GapReturns, Client
<1>8. CASE RungReturns
  <2>1. c.net["rung"] # NoCall /\ c.net["rung"].phase \in Ended
    BY <1>2, <1>8 DEF RungReturns, Ended
  <2> QED
    BY <1>1, <1>8, <2>1, RungAnsweredGood DEF RungReturns, Client
<1>9. CASE CheckReturns
  <2>1. c.net["check"] # NoCall /\ c.net["check"].phase \in Ended
    BY <1>2, <1>9 DEF CheckReturns, Ended
  <2> QED
    BY <1>1, <1>9, <2>1, CheckAnsweredGood DEF CheckReturns, Client
<1>10. CASE LadderTimer
  <2>1. c.net["rung"] = NoCall \/ c.closed
    BY <1>2, <1>10 DEF LadderTimer, Base, OneRung
  <2> QED
    BY <1>1, <1>10, <2>1, RungFiredGood DEF LadderTimer, Client
<1>11. CASE CheckTimer
  BY <1>1, <1>11, CheckFiredGood DEF CheckTimer, Client
<1>12. CASE Reconnect
  BY <1>1, <1>12, PeerReconnectedGood DEF Reconnect
<1> QED
  BY <1>4, <1>5, <1>6, <1>7, <1>8, <1>9, <1>10, <1>11, <1>12 DEF Returns

-----------------------------------------------------------------------------
(* The steps of the server, of the failures and of the socket.              *)

(* A step that leaves the topic and its log.                                *)
LEMMA ServerStep ==
    ASSUME SyncInv, Good(c', log), c'.t = c.t, c'.ids = c.ids, UNCHANGED <<log, moves>>,
           PushesInv', ServedInv', faults' \in Nat, sub' \in Scopes \cup {NoSub}
    PROVE  SyncInv' /\ Grows(c, c')
<1>1. LogOK' /\ CountsInv'
  BY DEF SyncInv, LogOK, CountsInv
<1>2. Good(c, log)'
  OBVIOUS
<1>3. Grows(c, c')
  <2>1. Base(c)
    BY GoodIsReady DEF SyncInv
  <2>2. Followed(c) => c.t.rev \in Int
    BY <2>1, FollowedTopic
  <2> QED
    BY <2>2 DEF Grows
<1> QED
  BY <1>1, <1>2, <1>3 DEF SyncInv

LEMMA SyncFacts ==
    ASSUME SyncInv
    PROVE  /\ Good(c, log) /\ Core(c) /\ Base(c) /\ Settled(c) /\ Covered(c, log) /\ log \in Logs
           /\ c.net["op"] # NoCall => c.ops # << >> /\ c.net["op"] \in Calls /\ c.net["unsub"] = NoCall
           /\ NoCall.phase = "none" /\ faults \in Nat /\ sub \in Scopes \cup {NoSub}
           /\ moves \in Nat /\ moves <= MaxMoves /\ c.ids <= moves
           /\ \A k \in Scopes : k # NoSub
<1>1. Good(c, log) /\ log \in Logs
  BY DEF SyncInv, LogOK
<1>2. Core(c) /\ Base(c) /\ Settled(c) /\ Covered(c, log)
  BY <1>1, GoodIsReady
<1>3. c.net["op"] # NoCall => c.ops # << >> /\ c.net["unsub"] = NoCall
  BY <1>2 DEF Base, Queued
<1>4. c.net["op"] # NoCall => c.net["op"] \in Calls
  BY <1>2, SlotFacts
<1>5. \A k \in Scopes : k # NoSub
  BY EventSyncAssumption DEF Scopes
<1> QED
  BY <1>1, <1>2, <1>3, <1>4, <1>5 DEF SyncInv, CountsInv, NoCall

LEMMA RecordSubscribeStep ==
    ASSUME SyncInv, RecordSubscribe
    PROVE  SyncInv' /\ Grows(c, c')
<1>1. PICK call : call = [c.net["op"] EXCEPT !.phase = "recorded"]
  OBVIOUS
<1>2. c.net["op"] \in Calls /\ c.net["op"] # NoCall /\ Good(c, log) /\ Base(c)
  BY SyncFacts DEF RecordSubscribe
<1>3. /\ call \in Calls /\ call.phase = "recorded" /\ call.id = c.net["op"].id /\ call.headers = c.net["op"].headers
      /\ call.cursor = c.net["op"].cursor /\ call.held = c.net["op"].held /\ call.headers \in Keys
  BY <1>1, <1>2 DEF Calls
<1>4. PICK slot \in {"op"} : slot = "op"
  OBVIOUS
<1>5. Recalls(c, log, slot, call)
  BY <1>2, <1>3, <1>4 DEF Recalls, Polls
<1>6. PICK e : e = Recalled(c, slot, call)
  OBVIOUS
<1>7. Good(e, log) /\ e.t = c.t /\ e.ids = c.ids /\ e.ops = c.ops /\ e.net[slot] = call
  BY <1>2, <1>5, <1>6, RecallGood
<1>8. c' = e
  BY <1>1, <1>4, <1>6 DEF RecordSubscribe, Recalled
<1>9. sub' = KeyOf(call.headers) /\ sub' \in Scopes \cup {NoSub}
  BY <1>3, KeyOfIsScope DEF RecordSubscribe
<1>10. ServedInv'
  <2>1. c'.ops # << >> /\ c'.net["op"] = call
    BY <1>2, <1>4, <1>7, <1>8, SyncFacts
  <2>2. Under(KeyOf(call.headers))'
    BY <1>9 DEF Under
  <2> QED
    BY <1>3, <2>1, <2>2 DEF ServedInv
<1>11. PushesInv' /\ faults' \in Nat
  BY SyncFacts DEF RecordSubscribe, SyncInv, PushesInv
<1>12. Good(c', log) /\ c'.t = c.t /\ c'.ids = c.ids /\ UNCHANGED <<log, moves>>
  BY <1>7, <1>8 DEF RecordSubscribe
<1> QED
  BY <1>9, <1>10, <1>11, <1>12, ServerStep

LEMMA AnswerSubscribeStep ==
    ASSUME SyncInv, AnswerSubscribe
    PROVE  SyncInv' /\ Grows(c, c')
<1>1. PICK old : old = c.net["op"]
  OBVIOUS
<1>2. old \in Calls /\ old # NoCall /\ old.phase = "recorded" /\ Good(c, log) /\ Base(c)
  BY <1>1, SyncFacts DEF AnswerSubscribe
<1>3. PICK k \in Scopes : k = KeyOf(old.headers)
  BY <1>2, KeyOfIsScope DEF Calls
<1>4. PICK n \in Nat : n = Len(log[k]) /\ n <= MaxRev
  BY DEF SyncInv, LogOK
<1>5. PICK a : a = [rev |-> n, scope |-> k]
  OBVIOUS
<1>6. a \in SubscribeAnswers /\ a.rev = n /\ a.scope = k /\ a \in Answers
  BY <1>4, <1>5, EventSyncAssumption DEF SubscribeAnswers, Answers, Revs
<1>7. PICK call : call = [old EXCEPT !.phase = "ok", !.answer = a]
  OBVIOUS
<1>8. /\ call \in Calls /\ call.phase = "ok" /\ call.answer = a /\ call.id = old.id /\ call.headers = old.headers
      /\ call.cursor = old.cursor /\ call.held = old.held
  BY <1>2, <1>6, <1>7 DEF Calls
<1>9. PICK slot \in {"op"} : slot = "op"
  OBVIOUS
<1>10. Recalls(c, log, slot, call)
  BY <1>1, <1>2, <1>4, <1>6, <1>8, <1>9 DEF Recalls, Polls
<1>11. PICK e : e = Recalled(c, slot, call)
  OBVIOUS
<1>12. Good(e, log) /\ e.t = c.t /\ e.ids = c.ids /\ e.ops = c.ops /\ e.net[slot] = call
  BY <1>2, <1>10, <1>11, RecallGood
<1>13. c' = e
  <2>1. c' = [c EXCEPT !.net["op"].phase = "ok", !.net["op"].answer = a]
    BY <1>1, <1>3, <1>4, <1>5 DEF AnswerSubscribe, Answer
  <2>2. c \in Clients /\ c.net \in Nets /\ "op" \in Slots
    BY <1>2 DEF Base, Clients, Slots
  <2>3. c' = [c EXCEPT !.net = [c.net EXCEPT !["op"] = call]]
    BY <1>1, <1>7, <2>1, <2>2 DEF Clients, Nets
  <2> QED
    BY <1>9, <1>11, <2>3 DEF Recalled
<1>14. UNCHANGED <<log, sub, due, wire, faults, moves>>
  BY DEF AnswerSubscribe
<1>15. ServedInv'
  <2>1. c'.ops # << >> /\ c'.net["op"] = call
    BY <1>1, <1>2, <1>9, <1>12, <1>13, SyncFacts
  <2>2. Under(KeyOf(old.headers))
    BY <1>1, <1>2 DEF SyncInv, ServedInv
  <2>3. Under(KeyOf(call.headers))'
    BY <1>8, <1>14, <2>2 DEF Under
  <2> QED
    BY <1>3, <1>6, <1>8, <2>1, <2>3 DEF ServedInv
<1>16. PushesInv' /\ faults' \in Nat /\ sub' \in Scopes \cup {NoSub}
  BY <1>14, SyncFacts DEF SyncInv, PushesInv
<1> QED
  BY <1>12, <1>13, <1>14, <1>15, <1>16, ServerStep

(* The socket calls are as they were.                                       *)
LEMMA ServedStays ==
    ASSUME SyncInv, c'.t = c.t, c'.ops = c.ops, faults' \in Nat, faults' >= faults,
           \/ sub' = sub
           \/ sub' = NoSub /\ faults' > 0,
           \/ c'.net["op"] = c.net["op"]
           \/ c'.net["op"] # NoCall /\ c'.net["op"].phase \notin {"recorded", "ok"}
    PROVE  ServedInv'
<1>1. ASSUME NEW k, Under(k) PROVE Under(k)'
  BY <1>1, SyncFacts DEF Under
<1>2. Followed(c)' <=> Followed(c)
  BY DEF Followed
<1>3. ServedInv
  BY DEF SyncInv
<1>4. (Followed(c) /\ c.t.socket = "subscribed" /\ c.ops = << >> => Under(c.t.scope))'
  BY <1>1, <1>2, <1>3 DEF ServedInv
<1>5. ASSUME c'.net["op"] # NoCall, c'.net["op"].phase \in {"recorded", "ok"}
      PROVE  (/\ Under(KeyOf(c.net["op"].headers))
              /\ c.net["op"].phase = "ok" => c.net["op"].answer.scope = KeyOf(c.net["op"].headers))'
  <2>1. PICK call : call = c.net["op"] /\ call = c'.net["op"]
    BY <1>5
  <2>2. Under(KeyOf(call.headers)) /\ (call.phase = "ok" => call.answer.scope = KeyOf(call.headers))
    BY <1>3, <1>5, <2>1 DEF ServedInv
  <2>3. Under(KeyOf(c.net["op"].headers))'
    <3>1. PICK k : k = KeyOf(call.headers)
      OBVIOUS
    <3>2. sub' = k \/ (sub' = NoSub /\ faults' > 0)
      BY <2>2, <3>1, SyncFacts DEF Under
    <3>3. KeyOf(c.net["op"].headers)' = k
      BY <2>1, <3>1 DEF KeyOf
    <3> QED
      BY <3>2, <3>3 DEF Under
  <2> QED
    BY <2>1, <2>2, <2>3
<1> QED
  BY <1>4, <1>5 DEF ServedInv

LEMMA ServePollStep ==
    ASSUME SyncInv, NEW slot \in Polls, ServePoll(slot)
    PROVE  SyncInv' /\ Grows(c, c')
<1>1. PICK old : old = c.net[slot]
  OBVIOUS
<1>2. old # NoCall /\ Good(c, log) /\ Base(c) /\ LogOK /\ slot \in Slots /\ slot # "op" /\ slot # "unsub"
  BY <1>1, SyncFacts DEF ServePoll, SyncInv, Polls, Slots
<1>3. old \in Calls /\ CallCovered(c, log, old)
  BY <1>1, <1>2, CallFacts
<1>4. PICK a : a = PollAnswer(old)
  OBVIOUS
<1>5. PICK call : call = [old EXCEPT !.phase = "ok", !.answer = a]
  OBVIOUS
<1>6. a \in PollAnswers
  <2>1. PICK k \in Scopes : k = KeyOf(old.headers)
    BY <1>3, KeyOfIsScope DEF Calls
  <2>2. PICK n \in Nat : n = Len(log[k]) /\ n <= MaxRev
    BY <1>2 DEF LogOK
  <2>3. PICK known \in BOOLEAN : known <=> KnownCursor(old, k)
    OBVIOUS
  <2>4. PICK events \in SUBSET Arrivals : events = IF known /\ old.cursor # NoRev THEN EventsSince(k, old.cursor) ELSE {}
    <3>1. old.cursor # NoRev => old.cursor \in Nat
      BY <1>3 DEF Calls, Revs, NoRev
    <3> QED
      BY <1>2, <3>1, EventsSinceSound
  <2>5. n \in Revs
    BY <2>2, EventSyncAssumption DEF Revs
  <2>6. a = [rev |-> n, scope |-> k, null |-> ~known, events |-> events]
    <3>1. ~known = ~KnownCursor(old, k)
      BY <2>3, Zenon DEF KnownCursor
    <3>2. events = IF KnownCursor(old, k) /\ old.cursor # NoRev THEN EventsSince(k, old.cursor) ELSE {}
      BY <2>3, <2>4
    <3> QED
      BY <1>4, <2>1, <2>2, <3>1, <3>2, Zenon DEF PollAnswer
  <2> QED
    BY <2>5, <2>6 DEF PollAnswers
<1>7. /\ call \in Calls /\ call.phase = "ok" /\ call.answer = PollAnswer(old) /\ call.id = old.id
      /\ call.cursor = old.cursor /\ call.held = old.held
  BY <1>3, <1>4, <1>5, <1>6 DEF Calls, Answers
<1>8. AnswerSound(log, call)
  BY <1>2, <1>3, <1>7, PollAnswerSound
<1>9. Recalls(c, log, slot, call)
  BY <1>1, <1>2, <1>7, <1>8 DEF Recalls
<1>10. PICK e : e = Recalled(c, slot, call)
  OBVIOUS
<1>11. Good(e, log) /\ e.t = c.t /\ e.ids = c.ids /\ e.ops = c.ops /\ e.net["op"] = c.net["op"]
  BY <1>2, <1>9, <1>10, RecallGood DEF Slots
<1>12. c' = e
  <2>1. c' = [c EXCEPT !.net[slot].phase = "ok", !.net[slot].answer = a]
    BY <1>1, <1>4 DEF ServePoll, Answer
  <2>2. c \in Clients /\ c.net \in Nets
    BY <1>2 DEF Base, Clients
  <2>3. c' = [c EXCEPT !.net = [c.net EXCEPT ![slot] = call]]
    BY <1>1, <1>2, <1>5, <2>1, <2>2 DEF Clients, Nets
  <2> QED
    BY <1>10, <2>3 DEF Recalled
<1>13. UNCHANGED <<log, sub, due, wire, faults, moves>>
  BY DEF ServePoll
<1>14. faults' \in Nat /\ faults' >= faults /\ sub' \in Scopes \cup {NoSub} /\ PushesInv'
  BY <1>13, SyncFacts DEF SyncInv, PushesInv
<1>15. ServedInv'
  BY <1>11, <1>12, <1>13, <1>14, ServedStays
<1> QED
  BY <1>11, <1>12, <1>13, <1>14, <1>15, ServerStep

LEMMA ServeUnsubscribeStep ==
    ASSUME SyncInv, ServeUnsubscribe
    PROVE  SyncInv' /\ Grows(c, c')
<1>1. c.net["unsub"] # NoCall /\ Good(c, log)
  BY SyncFacts DEF ServeUnsubscribe
<1>2. PICK e : e = [c EXCEPT !.net["unsub"].phase = "ok"]
  OBVIOUS
<1>3. Good(e, log) /\ e.t = c.t /\ e.ids = c.ids /\ e.ops # << >> /\ e.net["op"] = NoCall
  BY <1>1, <1>2, UnsubscribedGood
<1>4. c' = e /\ sub' = NoSub /\ UNCHANGED <<log, due, wire, faults, moves>>
  BY <1>2 DEF ServeUnsubscribe
<1>5. ServedInv'
  BY <1>3, <1>4 DEF ServedInv
<1>6. PushesInv' /\ faults' \in Nat /\ sub' \in Scopes \cup {NoSub}
  BY <1>4, SyncFacts DEF SyncInv, PushesInv
<1> QED
  BY <1>3, <1>4, <1>5, <1>6, ServerStep

LEMMA FailCallStep ==
    ASSUME SyncInv, NEW slot \in Polls \cup {"op"}, NEW phase \in {"transient", "refused"}, FailCall(slot, phase)
    PROVE  SyncInv' /\ Grows(c, c')
<1>1. PICK old : old = c.net[slot]
  OBVIOUS
<1>2. old # NoCall /\ Good(c, log) /\ Base(c) /\ slot \in Slots \ {"unsub"}
  BY <1>1, SyncFacts DEF FailCall, Polls, Slots
<1>3. old \in Calls
  BY <1>1, <1>2, SlotFacts
<1>4. PICK call : call = [old EXCEPT !.phase = phase]
  OBVIOUS
<1>5. /\ call \in Calls /\ call.phase = phase /\ phase # "ok" /\ phase # "recorded" /\ call.id = old.id
      /\ call.cursor = old.cursor /\ call.held = old.held /\ call # NoCall
  BY <1>3, <1>4 DEF Calls, NoCall
<1>6. Recalls(c, log, slot, call)
  BY <1>1, <1>2, <1>5 DEF Recalls
<1>7. PICK e : e = Recalled(c, slot, call)
  OBVIOUS
<1>8. /\ Good(e, log) /\ e.t = c.t /\ e.ids = c.ids /\ e.ops = c.ops /\ e.net[slot] = call
      /\ \A s \in Slots \ {slot} : e.net[s] = c.net[s]
  BY <1>2, <1>6, <1>7, RecallGood
<1>9. c' = e
  BY <1>1, <1>4, <1>7 DEF FailCall, Recalled
<1>10. UNCHANGED <<log, due, wire, moves>> /\ faults' = faults + 1 /\ sub' \in {sub, NoSub}
  BY DEF FailCall, Fault
<1>11. faults' \in Nat /\ faults' >= faults /\ faults' > 0 /\ sub' \in Scopes \cup {NoSub} /\ PushesInv'
  BY <1>10, SyncFacts DEF SyncInv, PushesInv
<1>12. \/ c'.net["op"] = c.net["op"]
       \/ c'.net["op"] # NoCall /\ c'.net["op"].phase \notin {"recorded", "ok"}
  BY <1>5, <1>8, <1>9 DEF Slots
<1>13. ServedInv'
  BY <1>8, <1>9, <1>10, <1>11, <1>12, ServedStays
<1> QED
  BY <1>8, <1>9, <1>10, <1>11, <1>13, ServerStep

LEMMA DropSubscriptionStep ==
    ASSUME SyncInv, DropSubscription
    PROVE  SyncInv' /\ Grows(c, c')
<1>1. UNCHANGED <<c, log, due, wire, moves>> /\ faults' = faults + 1 /\ sub' = NoSub
  BY DEF DropSubscription, Fault
<1>2. faults' \in Nat /\ faults' >= faults /\ faults' > 0 /\ sub' \in Scopes \cup {NoSub} /\ PushesInv' /\ Good(c, log)
  BY <1>1, SyncFacts DEF SyncInv, PushesInv
<1>3. ServedInv'
  BY <1>1, <1>2, ServedStays
<1> QED
  BY <1>1, <1>2, <1>3, ServerStep

LEMMA LosePushStep ==
    ASSUME SyncInv, NEW a \in wire, LosePush(a)
    PROVE  SyncInv' /\ Grows(c, c')
<1>1. UNCHANGED <<c, log, sub, due, moves>> /\ faults' = faults + 1 /\ wire' \subseteq wire
  BY DEF LosePush, Fault
<1>2. faults' \in Nat /\ faults' >= faults /\ sub' \in Scopes \cup {NoSub} /\ Good(c, log)
  BY <1>1, SyncFacts
<1>3. PushesInv'
  BY <1>1 DEF SyncInv, PushesInv
<1>4. ServedInv'
  BY <1>1, <1>2, ServedStays
<1> QED
  BY <1>1, <1>2, <1>3, <1>4, ServerStep

LEMMA CloseSocketStep ==
    ASSUME SyncInv, CloseSocket
    PROVE  SyncInv' /\ Grows(c, c')
<1>1. c' = PeerClosed(c) /\ sub' = NoSub /\ wire' = {} /\ faults' = faults + 1 /\ UNCHANGED <<log, due, moves>>
  BY DEF CloseSocket, Fault
<1>2. Owed(c, log, c') /\ c'.net["op"] = NoCall
  BY <1>1, SyncFacts, PeerClosedGood
<1>3. Good(c', log) /\ Grows(c, c') /\ c'.ids = c.ids
  BY <1>2 DEF Owed, Moved
<1>4. LogOK' /\ PushesInv'
  BY <1>1 DEF SyncInv, LogOK, PushesInv
<1>5. CountsInv' /\ faults' > 0
  BY <1>1, <1>3, SyncFacts DEF CountsInv
<1>6. \A k : Under(k)'
  BY <1>1, <1>5 DEF Under
<1>7. ServedInv'
  BY <1>2, <1>6 DEF ServedInv
<1>8. Good(c, log)'
  BY <1>1, <1>3
<1> QED
  BY <1>3, <1>4, <1>5, <1>7, <1>8 DEF SyncInv

LEMMA PublishStep ==
    ASSUME SyncInv, NEW k \in Scopes, NEW passes \in Verdicts, Publish(k, passes)
    PROVE  SyncInv' /\ Grows(c, c')
<1>1. PICK n \in Nat : n = Len(log[k])
  BY DEF SyncInv, LogOK
<1>2. PICK a : a = [scope |-> k, prev |-> n, rev |-> n + 1]
  OBVIOUS
<1>3. /\ n < MaxRev /\ log' = [log EXCEPT ![k] = Append(@, passes)] /\ due' = due \cup {a}
      /\ UNCHANGED <<c, sub, wire, faults, moves>>
  BY <1>1, <1>2 DEF Publish
<1>4. log \in Logs /\ passes \in BOOLEAN
  BY SyncFacts, EventSyncAssumption
<1>5. log[k] \in Seq(BOOLEAN)
  BY <1>4 DEF Logs
<1>6. PICK s : s = Append(log[k], passes)
  OBVIOUS
<1>7. s \in Seq(BOOLEAN) /\ Len(s) = n + 1 /\ \A r \in 1 .. n : s[r] = log[k][r]
  BY <1>1, <1>4, <1>5, <1>6
<1>8. log' \in Logs /\ log'[k] = s /\ \A j \in Scopes \ {k} : log'[j] = log[j]
  BY <1>3, <1>4, <1>6, <1>7 DEF Logs
<1>9. Extends(log, log')
  <2>1. ASSUME NEW j \in Scopes
        PROVE  /\ Len(log[j]) \in Nat /\ Len(log'[j]) \in Nat /\ Len(log[j]) <= Len(log'[j])
               /\ \A r \in 1 .. Len(log[j]) : log'[j][r] = log[j][r]
    <3>1. CASE j = k
      <4>1. Len(log[j]) = n /\ log'[j] = s
        BY <1>1, <1>8, <3>1
      <4> QED
        BY <1>1, <1>7, <3>1, <4>1
    <3>2. CASE j # k
      <4>1. log'[j] = log[j] /\ Len(log[j]) \in Nat
        BY <1>8, <3>2 DEF SyncInv, LogOK
      <4> QED
        BY <4>1
    <3> QED
      BY <3>1, <3>2
  <2> QED
    BY <2>1 DEF Extends
<1>10. LogOK'
  <2>1. ASSUME NEW j \in Scopes PROVE Len(log'[j]) \in Nat /\ Len(log'[j]) <= MaxRev
    <3>1. CASE j = k
      BY <1>1, <1>3, <1>7, <1>8, <3>1, EventSyncAssumption
    <3>2. CASE j # k
      BY <1>8, <3>2 DEF SyncInv, LogOK
    <3> QED
      BY <3>1, <3>2
  <2> QED
    BY <1>8, <2>1 DEF LogOK
<1>11. Good(c', log')
  BY <1>3, <1>9, SyncFacts, GoodGrows
<1>12. PushesInv'
  <2>1. a \in Arrivals
    <3>1. n \in Revs /\ n + 1 \in Revs
      BY <1>1, <1>3, EventSyncAssumption DEF Revs
    <3> QED
      BY <1>2, <3>1 DEF Arrivals
  <2>2. ChainedIn(log', a)
    <3>1. a.prev = n /\ a.rev = n + 1 /\ a.scope = k
      BY <1>2
    <3>2. Len(log'[k]) = n + 1
      BY <1>7, <1>8
    <3>3. \A r \in n + 1 .. n + 1 - 1 : FALSE
      BY <1>1
    <3> QED
      BY <1>1, <3>1, <3>2, <3>3 DEF ChainedIn
  <2>3. ASSUME NEW b \in due \cup wire PROVE b \in Arrivals /\ ChainedIn(log', b)
    <3>1. b \in Arrivals /\ ChainedIn(log, b)
      BY DEF SyncInv, PushesInv
    <3> QED
      BY <1>9, <3>1, ChainGrows
  <2> QED
    BY <1>3, <2>1, <2>2, <2>3 DEF PushesInv
<1>13. CountsInv'
  BY <1>3, SyncFacts DEF CountsInv
<1>14. ServedInv'
  BY <1>3, SyncFacts, ServedStays
<1>15. Grows(c, c')
  BY <1>3, SyncFacts, FollowedTopic DEF Grows
<1>16. Good(c, log)'
  BY <1>11
<1> QED
  BY <1>10, <1>12, <1>13, <1>14, <1>15, <1>16 DEF SyncInv

LEMMA CarryStep ==
    ASSUME SyncInv, NEW a \in due, Carry(a)
    PROVE  SyncInv' /\ Grows(c, c')
<1>1. UNCHANGED <<c, log, sub, faults, moves>> /\ due' \subseteq due /\ wire' \subseteq due \cup wire
  BY DEF Carry
<1>2. PushesInv'
  BY <1>1 DEF SyncInv, PushesInv
<1>3. ServedInv'
  BY <1>1, SyncFacts, ServedStays
<1>4. Good(c', log) /\ c'.t = c.t /\ c'.ids = c.ids /\ faults' \in Nat /\ sub' \in Scopes \cup {NoSub}
  BY <1>1, SyncFacts
<1> QED
  BY <1>1, <1>2, <1>3, <1>4, ServerStep

LEMMA DeliverPushStep ==
    ASSUME SyncInv, NEW a \in wire, DeliverPush(a)
    PROVE  SyncInv' /\ Grows(c, c')
<1>1. c' = (IF Followed(c) THEN Receive(c, a) ELSE c) /\ wire' \subseteq wire /\ UNCHANGED <<log, sub, due, faults, moves>>
  BY DEF DeliverPush
<1>2. a \in Arrivals /\ ChainedIn(log, a)
  BY DEF SyncInv, PushesInv
<1>3. Owed(c, log, c')
  <2>1. CASE Followed(c)
    <3>1. PICK e : e = Receive(c, a)
      OBVIOUS
    <3>2. Sound(c, log)
      BY <2>1, SyncFacts DEF Sound
    <3>3. Sound(e, log) /\ Drifts(c, e)
      BY <1>2, <3>1, <3>2, SyncFacts, ReceiveSound
    <3>4. Good(e, log) /\ Moved(c, e)
      BY <2>1, <3>3, SyncFacts, SoundIsGood
    <3> QED
      BY <1>1, <2>1, <3>1, <3>4 DEF Owed
  <2>2. CASE ~Followed(c)
    BY <1>1, <2>2, SyncFacts, StaysMoved DEF Owed
  <2> QED
    BY <2>1, <2>2
<1>4. Good(c', log) /\ Serves(c, c') /\ c'.ids = c.ids /\ Grows(c, c')
  BY <1>3 DEF Owed, Moved
<1>5. PushesInv' /\ LogOK'
  BY <1>1 DEF SyncInv, PushesInv, LogOK
<1>6. CountsInv' /\ Good(c, log)'
  BY <1>1, <1>4, SyncFacts DEF CountsInv
<1>7. ServedInv'
  <2>1. \A k : Under(k)' <=> Under(k)
    BY <1>1 DEF Under
  <2>2. ServedInv
    BY DEF SyncInv
  <2>3. (Followed(c) /\ c.t.socket = "subscribed" /\ c.ops = << >> => Under(c.t.scope))'
    BY <1>4, <2>1, <2>2 DEF Serves, ServedInv
  <2>4. ASSUME c'.net["op"] # NoCall
        PROVE  /\ c'.net["op"].phase \in {"recorded", "ok"} => Under(KeyOf(c'.net["op"].headers))
               /\ c'.net["op"].phase = "ok" => c'.net["op"].answer.scope = KeyOf(c'.net["op"].headers)
    BY <1>4, <2>2, <2>4 DEF Serves, ServedInv
  <2> QED
    BY <2>1, <2>3, <2>4 DEF ServedInv
<1> QED
  BY <1>4, <1>5, <1>6, <1>7 DEF SyncInv

(* Every step keeps the invariant, and the held rev of an unscoped topic.   *)
LEMMA SyncInvNext == SyncInv /\ [Next]_vars => SyncInv' /\ Grows(c, c')
<1> SUFFICES ASSUME SyncInv, [Next]_vars PROVE SyncInv' /\ Grows(c, c')
  OBVIOUS
<1>1. CASE App
  BY <1>1, AppSteps
<1>2. CASE Served
  BY <1>2, RecordSubscribeStep, AnswerSubscribeStep, ServeUnsubscribeStep, ServePollStep DEF Served
<1>3. CASE Failures
  BY <1>3, FailCallStep, LosePushStep, DropSubscriptionStep, CloseSocketStep DEF Failures
<1>4. CASE Returns \/ LadderTimer \/ CheckTimer \/ Reconnect
  BY <1>4, ReturnSteps
<1>5. CASE \E k \in Scopes, passes \in Verdicts : Publish(k, passes)
  BY <1>5, PublishStep
<1>6. CASE \E a \in due : Carry(a)
  BY <1>6, CarryStep
<1>7. CASE \E a \in wire : DeliverPush(a)
  BY <1>7, DeliverPushStep
<1>8. CASE UNCHANGED vars
  <2>1. UNCHANGED <<c, log, sub, due, wire, faults, moves>>
    BY <1>8 DEF vars
  <2>2. PushesInv' /\ ServedInv'
    BY <2>1, SyncFacts, ServedStays DEF SyncInv, PushesInv
  <2>3. Good(c', log) /\ c'.t = c.t /\ c'.ids = c.ids /\ faults' \in Nat /\ sub' \in Scopes \cup {NoSub}
    BY <2>1, SyncFacts
  <2> QED
    BY <2>1, <2>2, <2>3, ServerStep
<1> QED
  BY <1>1, <1>2, <1>3, <1>4, <1>5, <1>6, <1>7, <1>8 DEF Next

(* client.ts and viewset.py together: whatever answers, pushes, sockets and *)
(* subscriptions are lost, delayed or overtaken, the client's record is     *)
(* tidy, what it holds is covered by the log, the answers and pushes on     *)
(* their way are what the server's log says, and what the client takes for  *)
(* subscribed the server serves.                                            *)
THEOREM SyncIsInvariant == Spec => []SyncInv
<1>1. Init => SyncInv
  BY SyncInvInit
<1>2. SyncInv /\ [Next]_vars => SyncInv'
  BY SyncInvNext
<1> QED
  BY <1>1, <1>2, PTL DEF Spec

-----------------------------------------------------------------------------
(* What the runs check.                                                     *)

(* The topic's record has its type.                                         *)
LEMMA TopicIsTyped ==
    ASSUME SyncInv, Followed(c)
    PROVE  [f \in DOMAIN c.t \ {"pending"} |-> c.t[f]] \in TopicStates
<1>1. PICK t : t = c.t
  OBVIOUS
<1>2. t \in Topics /\ t.id \in 1 .. MaxMoves
  <2>1. Base(c) /\ c.t.id <= c.ids /\ c.ids <= moves /\ moves <= MaxMoves /\ moves \in Nat
    BY SyncFacts DEF Base, Named
  <2>2. c.t \in Topics /\ c.t.id \in Nat /\ c.ids \in Nat /\ c.t.id # 0
    BY <2>1, FollowedTopic
  <2> QED
    BY <1>1, <2>1, <2>2, EventSyncAssumption
<1>3. PICK F : F = {"id", "rev", "socket", "gapInFlight", "gapRev", "behind", "scope", "refreshing",
                    "refreshOnAnswer", "sentHeaders"}
  OBVIOUS
<1>4. DOMAIN t = F \cup {"pending"} /\ "pending" \notin F
  BY <1>2, <1>3 DEF Topics
<1>5. [f \in DOMAIN t \ {"pending"} |-> t[f]] =
        [id |-> t.id, rev |-> t.rev, socket |-> t.socket, gapInFlight |-> t.gapInFlight, gapRev |-> t.gapRev,
         behind |-> t.behind, scope |-> t.scope, refreshing |-> t.refreshing,
         refreshOnAnswer |-> t.refreshOnAnswer, sentHeaders |-> t.sentHeaders]
  <2>1. DOMAIN t \ {"pending"} = F
    BY <1>4
  <2> QED
    BY <1>3, <2>1
<1>6. /\ t.rev \in Revs /\ t.socket \in {"none", "subscribing", "subscribed"} /\ t.gapInFlight \in BOOLEAN
      /\ t.gapRev \in Revs /\ t.behind \in BOOLEAN /\ t.scope \in ScopeKeys /\ t.refreshing \in BOOLEAN
      /\ t.refreshOnAnswer \in BOOLEAN /\ t.sentHeaders \in ScopeKeys
  BY <1>2 DEF Topics
<1> QED
  BY <1>1, <1>2, <1>5, <1>6 DEF TopicStates, ScopeKeys

(* The types of every variable.                                             *)
LEMMA SyncIsTyped ==
    ASSUME SyncInv
    PROVE  TypeOK
<1>1. Base(c) /\ Settled(c) /\ TopicTidy(c)
  BY SyncFacts DEF Base
<1>2. /\ c.open \in BOOLEAN /\ c.closed \in BOOLEAN /\ c.checkTimer \in BOOLEAN
      /\ c.headers \in Keys /\ c.loop \in {"idle", "waiting", "polling"}
  BY <1>1 DEF Base, Clients
<1>3. sub \in Scopes \cup {NoSub} /\ due \subseteq Arrivals /\ wire \subseteq due \cup Arrivals
  BY SyncFacts DEF SyncInv, PushesInv
<1>4. ASSUME Followed(c)
      PROVE  /\ [f \in DOMAIN c.t \ {"pending"} |-> c.t[f]] \in TopicStates
             /\ ToSet(c.t.pending) \subseteq Arrivals
             /\ c.t.gapRev # NoRev => c.t.gapInFlight
             /\ c.t.gapInFlight => c.net["gap"] # NoCall /\ c.net["gap"].id = c.t.id
  <2>1. [f \in DOMAIN c.t \ {"pending"} |-> c.t[f]] \in TopicStates
    BY <1>4, TopicIsTyped
  <2>2. ToSet(c.t.pending) \subseteq Arrivals
    <3>1. c.t.pending \in Seq(Arrivals)
      BY <1>1, <1>4, FollowedTopic DEF Topics
    <3> QED
      BY <3>1 DEF ToSet
  <2>3. c.t.gapRev # NoRev => c.t.gapInFlight
    BY <1>1, <1>4 DEF Settled, Gapped
  <2>4. c.t.gapInFlight => c.net["gap"] # NoCall /\ c.net["gap"].id = c.t.id
    BY <1>1, <1>4 DEF TopicTidy
  <2> QED
    BY <2>1, <2>2, <2>3, <2>4
<1> QED
  BY <1>2, <1>3, <1>4 DEF TypeOK

(* client.ts 926-1031: a topic that has to be polled has a rung of the      *)
(* ladder set or in flight, or its subscribe in flight; never two rungs are *)
(* in flight; a gap that was seen is being polled; the state has its types. *)
THEOREM LadderIsNeverStranded == Spec => []OneLadder
<1>1. ASSUME SyncInv PROVE OneLadder
  <2>1. TypeOK
    BY <1>1, SyncIsTyped
  <2>2. OneRung(c) /\ (ShouldPoll(c) => c.loop # "idle" \/ LastOwn(c))
    BY <1>1, SyncFacts DEF Core, Laddered
  <2>3. ShouldPoll(c) => c.loop # "idle" \/ c.ops # << >>
    BY <2>2 DEF LastOwn
  <2>4. c.net["rung"] # NoCall /\ ~c.closed => c.loop = "polling"
    BY <2>2 DEF OneRung
  <2> QED
    BY <2>1, <2>3, <2>4 DEF OneLadder
<1> QED
  BY <1>1, SyncIsInvariant, PTL

(* client.ts 577-594: pushes are held only by a topic that waits for its    *)
(* first answer or is being refreshed, so that an answer will replay them.  *)
THEOREM PushesAreHeldForAnAnswer == Spec => []HeldPushesAreAwaited
<1>1. ASSUME SyncInv PROVE HeldPushesAreAwaited
  <2>1. TopicTidy(c)
    BY <1>1, SyncFacts DEF Base
  <2> QED
    BY <2>1 DEF TopicTidy, HeldPushesAreAwaited
<1> QED
  BY <1>1, SyncIsInvariant, PTL

(* client.ts 530-701: an event up to the held rev was applied, or read by   *)
(* the application, or is one that a poll sent without a cursor skipped.    *)
THEOREM OnlyFirstPollsLose == Spec => []LossIsOfFirstPolls
<1>1. ASSUME SyncInv PROVE LossIsOfFirstPolls
  <2>1. TopicCovered(c, log)
    BY <1>1, SyncFacts DEF Covered
  <2> QED
    BY <2>1 DEF TopicCovered, Covers, KnownOf, LossIsOfFirstPolls, Known
<1> QED
  BY <1>1, SyncIsInvariant, PTL

(* client.ts 785-875, viewset.py `subscribe`: with no socket call of the    *)
(* topic in flight, the scope the client takes for subscribed is the one    *)
(* the server pushes, but for a subscription the server dropped.            *)
THEOREM ServerServesSubscribed == Spec => []SubscribedIsServed
<1>1. ASSUME SyncInv PROVE SubscribedIsServed
  BY <1>1 DEF SyncInv, ServedInv, Under, SubscribedIsServed
<1> QED
  BY <1>1, SyncIsInvariant, PTL

(* client.ts 670-701: a topic without scopes never lowers the rev it holds, *)
(* whichever order pushes and answers take. With scopes it may (line 683).  *)
THEOREM UnscopedRevNeverGoesBack == ~Scoped => (Spec => HeldRevGrows)
<1> SUFFICES ASSUME ~Scoped PROVE Spec => HeldRevGrows
  OBVIOUS
<1>1. SyncInv /\ [Next]_vars => [Followed(c) /\ c.t.id = c'.t.id /\ c.t.scope = c'.t.scope => c'.t.rev >= c.t.rev]_vars
  BY SyncInvNext DEF Grows
<1> QED
  BY <1>1, SyncIsInvariant, PTL DEF Spec, HeldRevGrows

=============================================================================
