------------------------- MODULE EventServer_proofs --------------------------
(***************************************************************************)
(* What the two sides of the events' server promise. The store: for every  *)
(* number of processes and pollers, every log size and every MAX_REV, as   *)
(* long as a counter is lost only while every clock is past its rev        *)
(* (CalmDrops). The delivery: for any number of sockets, topics and        *)
(* events, and any limit.                                                  *)
(***************************************************************************)
EXTENDS EventStore, EventDelivery, FiniteSetTheorems, TLAPS

------------------------------------------------------------------------------
(* The event store                                                          *)

LEMMA NextRevType ==
    ASSUME TypeOK, EventStoreAssumption, NEW p \in Procs
    PROVE  NextRev(p) \in Nat /\ NextRev(p) > rev /\ NextRev(p) >= clock[p]
BY DEF TypeOK, EventStoreAssumption, NextRev, Revs

(* The log of the newest LogSize entries: nothing newer than a kept entry   *)
(* is cut off, and the newest is kept when anything is.                     *)
LEMMA TrimKeepsNewest ==
    ASSUME NEW S, IsFiniteSet(S), S \subseteq Events, EventStoreAssumption
    PROVE  /\ Trim(S) \subseteq S /\ IsFiniteSet(Trim(S))
           /\ \A e \in Trim(S), g \in S : g.rev > e.rev => g \in Trim(S)
<1>1. Trim(S) \subseteq S
  BY DEF Trim
<1>2. IsFiniteSet(Trim(S))
  BY <1>1, FS_Subset
<1>3. ASSUME NEW e \in Trim(S), NEW g \in S, g.rev > e.rev PROVE g \in Trim(S)
  <2> DEFINE Above(x) == {f \in S : f.rev > x.rev}
  <2>1. Above(g) \subseteq Above(e)
    BY <1>1, <1>3 DEF Events, Revs, EventStoreAssumption
  <2>2. IsFiniteSet(Above(e)) /\ IsFiniteSet(Above(g))
    BY FS_Subset
  <2>3. Cardinality(Above(g)) <= Cardinality(Above(e))
    BY <2>1, <2>2, FS_Subset
  <2>4. Cardinality(Above(e)) \in Nat /\ Cardinality(Above(g)) \in Nat
    BY <2>2, FS_CardinalityType
  <2>5. Cardinality(Above(e)) < LogSize
    BY DEF Trim
  <2>6. Cardinality(Above(g)) < LogSize
    BY <2>3, <2>4, <2>5 DEF EventStoreAssumption
  <2>7. QED
    BY <2>6 DEF Trim
<1>4. QED
  BY <1>1, <1>2, <1>3

LEMMA InitIInv == EventStoreAssumption /\ Init => IInv
<1> SUFFICES ASSUME EventStoreAssumption, Init PROVE IInv
  OBVIOUS
<1>1. TypeOK
  BY DEF Init, TypeOK, EventStoreAssumption, Revs, Events, Answers
<1>2. Fresh /\ Distinct
  BY DEF Init, Fresh, Distinct
<1>3. Chained
  BY FS_EmptySet DEF Init, Chained
<1>4. PollsKnow /\ NothingSkipped
  BY DEF Init, PollsKnow, Issued, NothingSkipped, Given
<1>5. QED
  BY <1>1, <1>2, <1>3, <1>4 DEF IInv

-----------------------------------------------------------------------------
(* Typing                                                                   *)

LEMMA SinceType == TypeOK => \A c : Since(c) \subseteq log /\ {e.rev : e \in Since(c)} \subseteq Revs
BY DEF TypeOK, Since, Events

(* `max` over the log from the cursor on and the rev read before: the log   *)
(* ends with the newest event, so it is that one's rev or the one read.     *)
LEMMA AnswerRevMax ==
    ASSUME TypeOK, EventStoreAssumption, Fresh, Chained, NEW q \in Polls, NEW c,
           Since(c) # {}, Issued(seen[q])
    PROVE  /\ AnswerRev(q, Since(c)) = rev
           /\ \E e \in Since(c) : e.rev = rev
<1>1. PICK e \in Since(c) : e.rev = rev
  <2>1. PICK h \in log : h.rev = rev
    BY DEF Chained, Since
  <2>2. PICK g \in Since(c) : TRUE
    OBVIOUS
  <2>3. PICK f \in log : f.prev = c /\ f.rev <= g.rev
    BY <2>2 DEF Since
  <2>4. g \in log /\ log \subseteq Events /\ log \subseteq ever
    BY <2>2 DEF Since, TypeOK, Chained
  <2>5. f.rev \in Nat /\ g.rev \in Nat /\ h.rev \in Nat
    BY <2>1, <2>3, <2>4 DEF Events, Revs, EventStoreAssumption
  <2>6. g.rev <= rev
    BY <2>4 DEF Fresh, Chained
  <2>7. h \in Since(c)
    BY <2>1, <2>3, <2>5, <2>6 DEF Since
  <2>8. QED
    BY <2>1, <2>7
<1> DEFINE S == {seen[q]} \cup {x.rev : x \in Since(c)}
<1>2. rev \in S
  BY <1>1
<1>3. ASSUME NEW y \in S PROVE y \in Nat /\ y <= rev
  <2>1. rev \in Nat /\ seen[q] \in Nat /\ rev # 0
    BY <1>1 DEF TypeOK, Revs, EventStoreAssumption, Chained, Since
  <2>2. CASE y = seen[q]
    <3>1. CASE seen[q] = 0
      BY <2>1, <2>2, <3>1
    <3>2. CASE seen[q] # 0
      <4>1. PICK x \in ever : seen[q] <= x.rev
        BY <3>2 DEF Issued
      <4>2. x.rev \in Nat /\ x.rev <= rev
        BY <2>1 DEF Fresh, TypeOK, Events, Revs, EventStoreAssumption
      <4>3. QED
        BY <2>1, <2>2, <4>1, <4>2
    <3>3. QED
      BY <3>1, <3>2
  <2>3. CASE \E x \in Since(c) : y = x.rev
    BY <2>1, <2>3 DEF Since, Chained, Fresh, TypeOK, Events, Revs, EventStoreAssumption
  <2>4. QED
    BY <2>2, <2>3
<1>4. Max(S) = rev
  <2>1. \A y \in S : rev >= y
    BY <1>2, <1>3
  <2>2. ASSUME NEW x \in S, \A y \in S : x >= y PROVE x = rev
    <3>1. x >= rev /\ x \in Nat /\ x <= rev /\ rev \in Nat
      BY <1>2, <1>3, <2>2
    <3>2. QED
      BY <3>1
  <2>3. QED
    BY <1>2, <2>1, <2>2 DEF Max
<1>5. QED
  BY <1>1, <1>4 DEF AnswerRev

LEMMA AnswerType ==
    ASSUME TypeOK, NEW q \in Polls, NEW kind \in {"events", "null"}, NEW r \in Revs,
           NEW events \in SUBSET Revs, Answer(q, kind, r, events)
    PROVE  /\ answer' \in [Polls -> Answers]
           /\ pc' \in [Polls -> {"idle", "revs", "since", "log", "done"}]
BY DEF TypeOK, Answer, Answers

LEMMA TypeOKStep ==
    ASSUME EventStoreAssumption, IInv, [Next]_vars
    PROVE  TypeOK'
<1> USE DEF IInv
<1> USE DEF TypeOK, store, poll
<1>1. ASSUME NEW p \in Procs, Tick(p) PROVE TypeOK'
  BY <1>1 DEF Tick, EventStoreAssumption
<1>2. ASSUME NEW p \in Procs, NEW shown \in {"yes", "no"}, Append(p, shown) PROVE TypeOK'
  <2> DEFINE event == [rev |-> NextRev(p), prev |-> rev, shown |-> shown]
  <2>1. NextRev(p) \in Revs
    BY <1>2, NextRevType DEF Append, Revs, EventStoreAssumption
  <2>2. event \in Events
    BY <2>1 DEF Events
  <2>3. log' \subseteq log \cup {event} /\ ever' = ever \cup {event} /\ rev' = NextRev(p)
    BY <1>2 DEF Append, Trim
  <2>4. QED
    BY <1>2, <2>1, <2>2, <2>3 DEF Append
<1>3. CASE Expire \/ Drop
  BY <1>3 DEF Expire, Drop, Revs, EventStoreAssumption
<1>4. ASSUME NEW q \in Polls, Ask(q) PROVE TypeOK'
  <2>1. {e.rev : e \in ever} \subseteq Revs /\ 0 \in Revs
    BY DEF Events, Revs, EventStoreAssumption
  <2>2. cursor' \in [Polls -> Revs \cup {NoCursor}]
    BY <1>4, <2>1 DEF Ask
  <2>3. answer' \in [Polls -> Answers]
    BY <1>4, <2>1 DEF Ask, Answers
  <2>4. QED
    BY <1>4, <2>1, <2>2, <2>3 DEF Ask
<1>5. ASSUME NEW q \in Polls, ReadRevs(q) PROVE TypeOK'
  <2>1. CASE cursor[q] \in {NoCursor, rev}
    BY <1>5, <2>1, AnswerType DEF ReadRevs
  <2>2. CASE cursor[q] \notin {NoCursor, rev}
    BY <1>5, <2>2 DEF ReadRevs
  <2>3. QED
    BY <2>1, <2>2
<1>6. ASSUME NEW q \in Polls, ReadRev(q) PROVE TypeOK'
  <2>1. CASE cursor[q] = rev
    BY <1>6, <2>1, AnswerType DEF ReadRev
  <2>2. CASE cursor[q] # rev
    BY <1>6, <2>2 DEF ReadRev
  <2>3. QED
    BY <2>1, <2>2
<1>7. ASSUME NEW q \in Polls, ReadLog(q) PROVE TypeOK'
  <2> DEFINE logged == Since(cursor[q])
             given == {e.rev : e \in {f \in logged : f.shown = "yes"}}
  <2>1. given \subseteq Revs
    BY SinceType
  <2>2. logged # {} => AnswerRev(q, logged) \in Revs
    BY AnswerRevMax DEF PollsKnow
  <2>3. /\ answer' \in [Polls -> Answers]
        /\ pc' \in [Polls -> {"idle", "revs", "since", "log", "done"}]
    BY <1>7, <2>1, <2>2, AnswerType DEF ReadLog
  <2>4. QED
    BY <1>7, <2>3 DEF ReadLog
<1>8. CASE UNCHANGED vars
  BY <1>8 DEF vars
<1>9. QED
  BY <1>1, <1>2, <1>3, <1>4, <1>5, <1>6, <1>7, <1>8 DEF Next

-----------------------------------------------------------------------------
(* The store                                                                *)

(* A new rev is past every rev issued, also after a lost counter. *)
LEMMA AppendIsNewest ==
    ASSUME EventStoreAssumption, IInv, NEW p \in Procs
    PROVE  \A e \in ever : e.rev < NextRev(p)
<1>1. \A e \in ever : e.rev \in Nat
  BY DEF IInv, TypeOK, Events, Revs, EventStoreAssumption
<1>2. rev \in Nat /\ clock[p] \in Nat
  BY DEF IInv, TypeOK, Revs, EventStoreAssumption
<1>3. QED
  BY <1>1, <1>2, NextRevType DEF IInv, Fresh

LEMMA StoreStep ==
    ASSUME EventStoreAssumption, CalmDrops, IInv, [Next]_vars
    PROVE  Fresh' /\ Distinct' /\ Chained'
<1> DEFINE Goal == Fresh /\ Distinct /\ Chained
<1> USE DEF IInv, store, poll
<1>t. /\ \A e \in ever : e.rev \in Nat /\ e.prev \in Nat
      /\ rev \in Nat /\ \A p \in Procs : clock[p] \in Nat
  BY DEF TypeOK, Events, Revs, EventStoreAssumption
<1>1. ASSUME NEW p \in Procs, Tick(p) PROVE Goal'
  <2>1. \A r \in Procs : clock'[r] \in Nat /\ clock'[r] >= clock[r]
    BY <1>1, <1>t DEF Tick, TypeOK
  <2>2. Fresh'
    BY <1>1, <1>t, <2>1 DEF Tick, Fresh
  <2>3. QED
    BY <1>1, <2>2 DEF Tick, Distinct, Chained
<1>2. ASSUME NEW p \in Procs, NEW shown \in {"yes", "no"}, Append(p, shown) PROVE Goal'
  <2> DEFINE event == [rev |-> NextRev(p), prev |-> rev, shown |-> shown]
             S == log \cup {event}
  <2>1. /\ rev' = NextRev(p) /\ log' = Trim(S) /\ ever' = ever \cup {event}
        /\ clock' = clock /\ drops' = drops
    BY <1>2 DEF Append
  <2>2. NextRev(p) \in Nat /\ NextRev(p) > rev /\ \A e \in ever : e.rev < NextRev(p)
    BY AppendIsNewest, NextRevType
  <2>3. Fresh' /\ Distinct'
    BY <1>t, <2>1, <2>2 DEF Fresh, Distinct
  <2>4. S \subseteq Events /\ IsFiniteSet(S)
    <3>1. NextRev(p) \in Revs
      BY <1>2, <2>2 DEF Append, Revs, EventStoreAssumption
    <3>2. event \in Events
      BY <3>1 DEF TypeOK, Events
    <3>3. S \subseteq Events
      BY <3>2 DEF TypeOK
    <3>4. IsFiniteSet(S)
      BY FS_AddElement DEF Chained
    <3>5. QED
      BY <3>3, <3>4
  <2>5. /\ log' \subseteq S /\ IsFiniteSet(log')
        /\ \A e \in log', g \in S : g.rev > e.rev => g \in log'
    BY <2>1, <2>4, TrimKeepsNewest
  <2>6. log' # {} => event \in log'
    BY <2>2, <2>5 DEF Chained
  <2>7. \A e \in log', g \in ever' : g.rev > e.rev => g \in log'
    <3> TAKE e \in log', g \in ever'
    <3> HAVE g.rev > e.rev
    <3>1. CASE g = event
      BY <2>5, <3>1
    <3>2. CASE g \in ever /\ e = event
      BY <1>t, <2>2, <3>2
    <3>3. CASE g \in ever /\ e \in log
      BY <2>5, <3>3 DEF Chained
    <3>4. QED
      BY <2>1, <2>5, <3>1, <3>2, <3>3
  <2>8. \A e \in log', g \in ever' : e.prev # 0 \/ drops' = 0 => g.rev <= e.prev \/ e.rev <= g.rev
    <3> TAKE e \in log', g \in ever'
    <3> HAVE e.prev # 0 \/ drops' = 0
    <3>1. CASE e = event /\ g \in ever
      <4>1. e.prev = rev /\ drops' = drops
        BY <2>1, <3>1
      <4>2. rev # 0 \/ drops = 0
        BY <4>1
      <4>3. rev # 0 => g.rev <= rev
        BY <3>1 DEF Fresh
      <4>4. rev # 0
        BY <3>1, <4>2 DEF Fresh
      <4>5. QED
        BY <4>1, <4>3, <4>4
    <3>2. CASE e \in log /\ g = event
      BY <1>t, <2>2, <3>2 DEF Chained
    <3>3. CASE e \in log /\ g \in ever
      BY <2>1, <3>3 DEF Chained
    <3>4. CASE e = event /\ g = event
      BY <2>2, <3>4
    <3>5. e \in log \cup {event} /\ g \in ever \cup {event}
      BY <2>1, <2>5
    <3>6. QED
      BY <3>1, <3>2, <3>3, <3>4, <3>5
  <2>9. Chained'
    <3>1. /\ log' \subseteq ever' /\ IsFiniteSet(log')
          /\ \A e \in ever' : e.prev < e.rev
      <4>1. log \subseteq ever /\ \A e \in ever : e.prev < e.rev
        BY DEF Chained
      <4>2. event.prev < event.rev
        BY <1>t, <2>2
      <4>3. QED
        BY <2>1, <2>5, <4>1, <4>2
    <3>2. log' # {} => rev' # 0 /\ \E e \in log' : e.rev = rev'
      BY <1>t, <2>1, <2>2, <2>6
    <3>3. QED
      BY <2>7, <2>8, <3>1, <3>2 DEF Chained
  <2>10. QED
    BY <2>3, <2>9
<1>3. CASE Expire
  BY <1>3, FS_EmptySet DEF Expire, Fresh, Distinct, Chained
<1>4. CASE Drop
  <2>1. /\ rev' = 0 /\ log' = {} /\ ever' = ever /\ clock' = clock /\ rev # 0
        /\ \A p \in Procs : clock[p] > rev
    BY <1>4 DEF Drop
  <2>2. drops' # 0
    BY <1>4 DEF Drop, TypeOK, EventStoreAssumption
  <2>3. \A e \in ever, p \in Procs : e.rev < clock[p]
    BY <1>t, <2>1 DEF Fresh
  <2>4. Fresh'
    BY <2>1, <2>2, <2>3 DEF Fresh
  <2>5. Distinct'
    BY <2>1 DEF Distinct
  <2>6. Chained'
    BY <2>1, FS_EmptySet DEF Chained
  <2>7. QED
    BY <2>4, <2>5, <2>6
<1>5. ASSUME NEW q \in Polls, Ask(q) \/ ReadRevs(q) \/ ReadRev(q) \/ ReadLog(q) PROVE Goal'
  BY <1>5 DEF Ask, ReadRevs, ReadRev, ReadLog, Fresh, Distinct, Chained
<1>6. CASE UNCHANGED vars
  BY <1>6 DEF vars, Fresh, Distinct, Chained
<1>7. QED
  BY <1>1, <1>2, <1>3, <1>4, <1>5, <1>6 DEF Next

-----------------------------------------------------------------------------
(* The polls                                                                *)

(* What was issued stays issued. *)
LEMMA IssuedStays ==
    ASSUME ever \subseteq ever', NEW r, Issued(r)
    PROVE  r = 0 \/ \E e \in ever' : r <= e.rev
BY DEF Issued

LEMMA PollsKnowStep ==
    ASSUME EventStoreAssumption, IInv, [Next]_vars
    PROVE  PollsKnow'
<1> USE DEF IInv, store, poll
<1>1. ASSUME NEW p \in Procs, Tick(p) PROVE PollsKnow'
  BY <1>1 DEF Tick, PollsKnow, Issued
<1>2. ASSUME NEW p \in Procs, NEW shown \in {"yes", "no"}, Append(p, shown) PROVE PollsKnow'
  <2>1. ever \subseteq ever' /\ \E e \in ever' : e.rev = rev'
    BY <1>2 DEF Append
  <2>2. rev' \in Nat
    BY <1>2, NextRevType DEF Append
  <2>3. Issued(rev)'
    BY <2>1, <2>2 DEF Issued
  <2>4. \A q \in Polls : Issued(seen[q])' /\ Issued(answer[q].rev)'
    BY <1>2, <2>1 DEF Append, PollsKnow, Issued
  <2>5. QED
    BY <2>3, <2>4 DEF PollsKnow
<1>3. CASE Expire \/ Drop
  BY <1>3 DEF Expire, Drop, PollsKnow, Issued
<1>4. ASSUME NEW q \in Polls, Ask(q) \/ ReadRevs(q) \/ ReadRev(q) PROVE PollsKnow'
  <2>1. rev' = rev /\ ever' = ever
    BY <1>4 DEF Ask, ReadRevs, ReadRev
  <2>2. \A r \in Polls : seen'[r] \in {0, rev, seen[r]}
    BY <1>4 DEF Ask, ReadRevs, ReadRev, TypeOK
  <2>3. \A r \in Polls : answer'[r].rev \in {0, rev, seen[r], answer[r].rev}
    BY <1>4 DEF Ask, ReadRevs, ReadRev, Answer, TypeOK
  <2>4. QED
    BY <2>1, <2>2, <2>3 DEF PollsKnow, Issued
<1>5. ASSUME NEW q \in Polls, ReadLog(q) PROVE PollsKnow'
  <2>1. rev' = rev /\ ever' = ever /\ seen' = seen
    BY <1>5 DEF ReadLog
  <2>2. \A r \in Polls : answer'[r].rev \in {rev, seen[r], answer[r].rev}
    BY <1>5, AnswerRevMax DEF ReadLog, Answer, TypeOK, PollsKnow
  <2>3. QED
    BY <2>1, <2>2 DEF PollsKnow, Issued
<1>6. CASE UNCHANGED vars
  BY <1>6 DEF vars, PollsKnow, Issued
<1>7. QED
  BY <1>1, <1>2, <1>3, <1>4, <1>5, <1>6 DEF Next

(* The log from the cursor on is every event after it. *)
LEMMA SinceIsComplete ==
    ASSUME EventStoreAssumption, IInv, NEW c \in Revs, Since(c) # {}, c # 0 \/ drops = 0
    PROVE  Since(c) = {g \in ever : c < g.rev /\ g.rev <= rev}
<1>t. /\ \A e \in ever : e.rev \in Nat /\ e.prev \in Nat
      /\ rev \in Nat /\ c \in Nat
  BY DEF IInv, TypeOK, Events, Revs, EventStoreAssumption
<1>l. log \subseteq ever /\ rev # 0
  BY DEF IInv, Chained, Since
<1>1. ASSUME NEW g \in Since(c) PROVE g \in ever /\ c < g.rev /\ g.rev <= rev
  <2>1. PICK f \in log : f.prev = c /\ f.rev <= g.rev
    BY DEF Since
  <2>2. f.prev < f.rev
    BY <1>l DEF IInv, Chained
  <2>3. g \in ever /\ g.rev <= rev
    BY <1>l DEF IInv, Fresh, Since
  <2>4. QED
    BY <1>t, <1>l, <2>1, <2>2, <2>3
<1>2. ASSUME NEW g \in ever, c < g.rev, g.rev <= rev PROVE g \in Since(c)
  <2>1. PICK f \in log : f.prev = c
    BY DEF Since
  <2>2. g.rev <= f.prev \/ f.rev <= g.rev
    BY <2>1 DEF IInv, Chained
  <2>3. f.rev <= g.rev
    BY <1>t, <1>2, <2>1, <2>2
  <2>4. g \in log
    <3>1. CASE f.rev = g.rev
      BY <1>l, <2>1, <3>1 DEF IInv, Distinct
    <3>2. CASE g.rev > f.rev
      BY <2>1, <3>2 DEF IInv, Chained
    <3>3. QED
      BY <1>t, <1>l, <2>1, <2>3, <3>1, <3>2
  <2>5. QED
    BY <2>1, <2>3, <2>4 DEF Since
<1>3. QED
  BY <1>1, <1>2

(* Of the polls a step does not answer, what was given stays complete: the  *)
(* events it adds are past the answer's rev.                                *)
LEMMA GivenStays ==
    ASSUME EventStoreAssumption, IInv, [Next]_vars, NEW q \in Polls,
           answer'[q] = answer[q], cursor'[q] = cursor[q], (cursor[q] # 0 \/ drops' = 0), Given(q)
    PROVE  answer'[q].events = {e.rev : e \in {f \in ever' : f.shown = "yes"
                                   /\ cursor[q] < f.rev /\ f.rev <= answer[q].rev}}
<1> USE DEF IInv
<1>t. /\ \A e \in ever : e.rev \in Nat
      /\ answer[q].rev \in Nat /\ rev \in Nat /\ drops \in Nat
  BY DEF TypeOK, Answers, Events, Revs, EventStoreAssumption
<1>1. drops' = 0 => drops = 0
  <2>1. CASE Drop
    BY <1>t, <2>1 DEF Drop
  <2>2. CASE ~Drop
    BY <2>2 DEF Next, Tick, Append, Expire, Ask, ReadRevs, ReadRev, ReadLog, vars, store
  <2>3. QED
    BY <2>1, <2>2
<1>2. answer[q].events = {e.rev : e \in {f \in ever : f.shown = "yes"
                             /\ cursor[q] < f.rev /\ f.rev <= answer[q].rev}}
  BY <1>1 DEF NothingSkipped, After
<1>3. \A f \in ever' \ ever : f.rev \in Nat /\ f.rev > answer[q].rev
  <2>1. ASSUME NEW p \in Procs, NEW shown \in {"yes", "no"}, Append(p, shown)
        PROVE  \A f \in ever' \ ever : f.rev \in Nat /\ f.rev > answer[q].rev
    <3>1. \A f \in ever' \ ever : f.rev = NextRev(p)
      BY <2>1 DEF Append
    <3>2. NextRev(p) \in Nat /\ NextRev(p) > rev /\ \A e \in ever : e.rev < NextRev(p)
      BY AppendIsNewest, NextRevType
    <3>3. Issued(answer[q].rev)
      BY DEF PollsKnow
    <3>4. NextRev(p) > answer[q].rev
      BY <1>t, <3>2, <3>3 DEF Issued
    <3>5. QED
      BY <3>1, <3>2, <3>4
  <2>2. CASE ever' = ever
    BY <2>2
  <2>3. QED
    BY <2>1, <2>2 DEF Next, Tick, Expire, Drop, Ask, ReadRevs, ReadRev, ReadLog, vars, store
<1>4. ever \subseteq ever'
  BY DEF Next, Tick, Append, Expire, Drop, Ask, ReadRevs, ReadRev, ReadLog, vars, store
<1>5. \A f \in ever' : f.rev <= answer[q].rev => f \in ever
  BY <1>t, <1>3
<1>6. QED
  BY <1>2, <1>4, <1>5

LEMMA NothingSkippedStep ==
    ASSUME EventStoreAssumption, IInv, [Next]_vars
    PROVE  NothingSkipped'
<1> USE DEF IInv
<1> SUFFICES ASSUME NEW q \in Polls, Given(q)', (cursor[q] # 0 \/ drops = 0)'
             PROVE  answer'[q].events = After(cursor[q], answer[q].rev)'
  BY DEF NothingSkipped
<1>1. CASE answer'[q] = answer[q] /\ cursor'[q] = cursor[q]
  BY <1>1, GivenStays DEF Given, After
<1>2. CASE Ask(q)
  BY <1>2 DEF Ask, Given, TypeOK
<1>3. CASE ReadRevs(q)
  <2>1. CASE cursor[q] = rev
    <3>1. answer'[q].rev = rev /\ answer'[q].events = {} /\ cursor'[q] = rev /\ ever' = ever
      BY <1>3, <2>1 DEF ReadRevs, Answer, TypeOK, store
    <3>2. \A e \in ever : ~(rev < e.rev /\ e.rev <= rev)
      BY DEF TypeOK, Events, Revs, EventStoreAssumption
    <3>3. QED
      BY <3>1, <3>2 DEF After
  <2>2. CASE cursor[q] = NoCursor
    BY <1>3, <2>2 DEF ReadRevs, Given
  <2>3. CASE cursor[q] \notin {NoCursor, rev}
    BY <1>1, <1>3, <2>3 DEF ReadRevs
  <2>4. QED
    BY <2>1, <2>2, <2>3
<1>4. CASE ReadRev(q)
  <2>1. CASE cursor[q] = rev
    <3>1. /\ answer'[q].rev = seen[q] /\ answer'[q].events = {}
          /\ cursor'[q] = rev /\ ever' = ever /\ drops' = drops
      BY <1>4, <2>1 DEF ReadRev, Answer, TypeOK, store
    <3>2. \A e \in ever : ~(rev < e.rev)
      <4>1. \A e \in ever : e.rev \in Nat /\ rev \in Nat
        BY DEF TypeOK, Events, Revs, EventStoreAssumption
      <4>2. rev # 0 \/ drops = 0
        BY <3>1
      <4>3. QED
        BY <4>1, <4>2 DEF Fresh
    <3>3. QED
      BY <3>1, <3>2 DEF After
  <2>2. CASE cursor[q] # rev
    BY <1>1, <1>4, <2>2 DEF ReadRev
  <2>3. QED
    BY <2>1, <2>2
<1>5. CASE ReadLog(q)
  <2> DEFINE c == cursor[q]
  <2>1. Since(c) # {} /\ c # NoCursor
    BY <1>5 DEF ReadLog, Answer, Given, TypeOK
  <2>2. c \in Revs
    BY <2>1 DEF TypeOK
  <2>3. /\ answer'[q].rev = AnswerRev(q, Since(c)) /\ cursor'[q] = c
        /\ answer'[q].events = {e.rev : e \in {f \in Since(c) : f.shown = "yes"}}
        /\ ever' = ever /\ drops' = drops
    BY <1>5, <2>1 DEF ReadLog, Answer, TypeOK, store
  <2>4. AnswerRev(q, Since(c)) = rev
    BY <2>1, AnswerRevMax DEF PollsKnow
  <2>5. Since(c) = {g \in ever : c < g.rev /\ g.rev <= rev}
    BY <2>1, <2>2, <2>3, SinceIsComplete
  <2>6. QED
    BY <2>3, <2>4, <2>5 DEF After
<1>6. CASE ~(Ask(q) \/ ReadRevs(q) \/ ReadRev(q) \/ ReadLog(q))
  <2>1. ASSUME NEW r \in Polls, Ask(r) \/ ReadRevs(r) \/ ReadRev(r) \/ ReadLog(r)
        PROVE  answer'[q] = answer[q] /\ cursor'[q] = cursor[q]
    <3>1. r # q
      BY <1>6, <2>1
    <3>2. CASE Ask(r)
      BY <3>1, <3>2 DEF Ask, TypeOK
    <3>3. CASE ReadRevs(r)
      BY <3>1, <3>3 DEF ReadRevs, Answer, TypeOK
    <3>4. CASE ReadRev(r)
      BY <3>1, <3>4 DEF ReadRev, Answer, TypeOK
    <3>5. CASE ReadLog(r)
      BY <3>1, <3>5 DEF ReadLog, Answer, TypeOK
    <3>6. QED
      BY <2>1, <3>2, <3>3, <3>4, <3>5
  <2>2. answer'[q] = answer[q] /\ cursor'[q] = cursor[q]
    BY <2>1 DEF Next, Tick, Append, Expire, Drop, vars, poll
  <2>3. QED
    BY <1>1, <2>2
<1>7. QED
  BY <1>2, <1>3, <1>4, <1>5, <1>6

-----------------------------------------------------------------------------
(* The theorems                                                             *)

LEMMA Inductive == EventStoreAssumption /\ CalmDrops /\ IInv /\ [Next]_vars => IInv'
BY TypeOKStep, StoreStep, PollsKnowStep, NothingSkippedStep DEF IInv

LEMMA Invariance == ASSUME CalmDrops PROVE Spec => []IInv
<1>1. Init => IInv
  BY EventStoreAssumption, InitIInv
<1>2. IInv /\ [Next]_vars => IInv'
  BY EventStoreAssumption, Inductive
<1>3. QED
  BY <1>1, <1>2, PTL DEF Spec

(* Every variable keeps its type: no rev reaches MAX_REV, also after lost   *)
(* counters.                                                                *)
THEOREM StoreTypeCorrect == ASSUME CalmDrops PROVE Spec => []TypeOK
BY Invariance, PTL DEF IInv

(* A poll's events are all the poller may have between its cursor and the   *)
(* answer's rev, for every log size and whatever other processes append,    *)
(* trim, expire or drop between the three reads.                            *)
THEOREM NothingIsSkipped == ASSUME CalmDrops PROVE Spec => []NothingSkipped
BY Invariance, PTL DEF IInv

(* A new rev is past every rev issued before it. *)
THEOREM RevsOnlyGrow == ASSUME CalmDrops PROVE Spec => RevsGrow
<1>1. IInv /\ [Next]_vars => [\A e \in ever' \ ever : \A f \in ever : f.rev < e.rev]_vars
  <2> SUFFICES ASSUME IInv, [Next]_vars
               PROVE  [\A e \in ever' \ ever : \A f \in ever : f.rev < e.rev]_vars
    OBVIOUS
  <2>1. ASSUME NEW p \in Procs, NEW shown \in {"yes", "no"}, Append(p, shown)
        PROVE  \A e \in ever' \ ever : \A f \in ever : f.rev < e.rev
    BY <2>1, AppendIsNewest, EventStoreAssumption DEF Append
  <2>2. CASE ever' = ever
    BY <2>2
  <2>3. QED
    BY <2>1, <2>2 DEF Next, Tick, Expire, Drop, Ask, ReadRevs, ReadRev, ReadLog, vars, store
<1>2. QED
  BY <1>1, Invariance, PTL DEF Spec, RevsGrow

-----------------------------------------------------------------------------
(* Answers are current                                                      *)

(* Since the poll was sent the counter only grew, unless it was dropped;    *)
(* what `revs` answered is between the two.                                 *)
AskedKnown(q) ==
    /\ asked[q].rev <= rev
    /\ pc[q] \in {"since", "log"} => asked[q].rev <= seen[q]
    /\ pc[q] = "done" => asked[q].rev <= answer[q].rev

AskedInv == \A q \in Polls : asked[q].drops <= drops /\ (asked[q].drops = drops => AskedKnown(q))

LEMMA AskedTypes ==
    ASSUME TypeOK, EventStoreAssumption, NEW q \in Polls
    PROVE  /\ rev \in Nat /\ drops \in Nat /\ seen[q] \in Nat /\ answer[q].rev \in Nat
           /\ asked[q].rev \in Nat /\ asked[q].drops \in Nat
BY DEF TypeOK, Revs, Answers, EventStoreAssumption

(* A poll asks, and each of its reads answers no less than the one before.  *)
LEMMA PollStaysCurrent ==
    ASSUME EventStoreAssumption, IInv, AskedInv, NEW q \in Polls,
           Ask(q) \/ ReadRevs(q) \/ ReadRev(q) \/ ReadLog(q)
    PROVE  AskedInv'
<1> USE DEF IInv
<1>1. rev' = rev /\ drops' = drops
  BY DEF Ask, ReadRevs, ReadRev, ReadLog, store
<1>2. ASSUME NEW r \in Polls, r # q
      PROVE  /\ pc'[r] = pc[r] /\ seen'[r] = seen[r] /\ answer'[r] = answer[r] /\ asked'[r] = asked[r]
  <2>1. CASE Ask(q)
    BY <1>2, <2>1 DEF Ask, TypeOK
  <2>2. CASE ReadRevs(q)
    BY <1>2, <2>2 DEF ReadRevs, Answer, TypeOK
  <2>3. CASE ReadRev(q)
    BY <1>2, <2>3 DEF ReadRev, Answer, TypeOK
  <2>4. CASE ReadLog(q)
    BY <1>2, <2>4 DEF ReadLog, Answer, TypeOK
  <2>5. QED
    BY <2>1, <2>2, <2>3, <2>4
<1>3. asked'[q].drops <= drops /\ (asked'[q].drops = drops => AskedKnown(q)')
  <2>1. CASE Ask(q)
    <3>1. pc'[q] = "revs" /\ asked'[q] = [rev |-> rev, drops |-> drops]
      BY <2>1 DEF Ask, TypeOK
    <3>2. QED
      BY <1>1, <3>1, AskedTypes DEF AskedKnown
  <2>2. CASE ReadRevs(q)
    <3>1. /\ asked'[q] = asked[q] /\ seen'[q] = rev /\ pc'[q] \in {"since", "done"}
          /\ pc'[q] = "done" => answer'[q].rev = rev
      BY <2>2 DEF ReadRevs, Answer, TypeOK
    <3>2. QED
      BY <1>1, <3>1 DEF AskedInv, AskedKnown
  <2>3. CASE ReadRev(q)
    <3>1. /\ asked'[q] = asked[q] /\ seen'[q] = seen[q] /\ pc[q] = "since" /\ pc'[q] \in {"log", "done"}
          /\ pc'[q] = "done" => answer'[q].rev = seen[q]
      BY <2>3 DEF ReadRev, Answer, TypeOK
    <3>2. QED
      BY <1>1, <3>1 DEF AskedInv, AskedKnown
  <2>4. CASE ReadLog(q)
    <3>1. asked'[q] = asked[q] /\ pc[q] = "log" /\ pc'[q] = "done"
      BY <2>4 DEF ReadLog, Answer, TypeOK
    <3>2. CASE Since(cursor[q]) = {}
      <4>1. answer'[q].rev = seen[q]
        BY <2>4, <3>2 DEF ReadLog, Answer, TypeOK
      <4>2. QED
        BY <1>1, <3>1, <4>1 DEF AskedInv, AskedKnown
    <3>3. CASE Since(cursor[q]) # {}
      <4>1. answer'[q].rev = AnswerRev(q, Since(cursor[q]))
        BY <2>4, <3>3 DEF ReadLog, Answer, TypeOK
      <4>2. AnswerRev(q, Since(cursor[q])) = rev
        BY <3>3, AnswerRevMax DEF PollsKnow
      <4>3. QED
        BY <1>1, <3>1, <4>1, <4>2 DEF AskedInv, AskedKnown
    <3>4. QED
      BY <3>2, <3>3
  <2>5. QED
    BY <2>1, <2>2, <2>3, <2>4
<1>4. QED
  BY <1>1, <1>2, <1>3 DEF AskedInv, AskedKnown

(* The store moves on under the polls.                                      *)
LEMMA StoreStaysPast ==
    ASSUME EventStoreAssumption, IInv, AskedInv, UNCHANGED <<pc, seen, answer, asked>>,
           (drops' = drops /\ rev' \in Nat /\ rev' >= rev) \/ drops' = drops + 1
    PROVE  AskedInv'
<1> SUFFICES ASSUME NEW q \in Polls
             PROVE  asked[q].drops <= drops' /\ (asked[q].drops = drops' => AskedKnown(q)')
  BY DEF AskedInv
<1>1. /\ rev \in Nat /\ drops \in Nat /\ asked[q].rev \in Nat /\ asked[q].drops \in Nat
  BY AskedTypes DEF IInv
<1>2. asked[q].drops <= drops /\ (asked[q].drops = drops => AskedKnown(q))
  BY DEF AskedInv
<1>3. QED
  BY <1>1, <1>2 DEF AskedKnown

LEMMA AskedStep == ASSUME EventStoreAssumption, IInv, AskedInv, [Next]_vars PROVE AskedInv'
<1>1. ASSUME NEW p \in Procs, Tick(p) \/ \E shown \in {"yes", "no"} : Append(p, shown) PROVE AskedInv'
  <2>1. rev' \in Nat /\ rev' >= rev /\ drops' = drops /\ UNCHANGED <<pc, seen, answer, asked>>
    BY <1>1, NextRevType, AskedTypes DEF Tick, Append, store, poll, IInv, TypeOK, Revs, EventStoreAssumption
  <2>2. QED
    BY <2>1, StoreStaysPast
<1>2. CASE Expire \/ Drop
  <2>1. rev \in Nat /\ UNCHANGED <<pc, seen, answer, asked>>
    BY <1>2 DEF Expire, Drop, poll, IInv, TypeOK, Revs, EventStoreAssumption
  <2>2. (drops' = drops /\ rev' = rev) \/ drops' = drops + 1
    BY <1>2 DEF Expire, Drop
  <2>3. QED
    BY <2>1, <2>2, StoreStaysPast
<1>3. CASE UNCHANGED vars
  BY <1>3 DEF vars, store, poll, AskedInv, AskedKnown
<1>4. QED
  BY <1>1, <1>2, <1>3, PollStaysCurrent DEF Next

(* An answer covers every event that was appended before its poll was sent, *)
(* unless the counter was lost meanwhile.                                   *)
THEOREM AnswersAreCurrent == ASSUME CalmDrops PROVE Spec => []AnswerIsCurrent
<1>1. Init => AskedInv
  BY EventStoreAssumption DEF Init, AskedInv, AskedKnown
<1>2. IInv /\ AskedInv /\ [Next]_vars => AskedInv'
  BY EventStoreAssumption, AskedStep
<1>3. IInv /\ AskedInv => AnswerIsCurrent
  <2> SUFFICES ASSUME IInv, AskedInv, NEW q \in Polls, pc[q] = "done", asked[q].drops = drops
               PROVE  answer[q].rev >= asked[q].rev
    BY DEF AnswerIsCurrent
  <2>1. asked[q].rev <= answer[q].rev
    BY DEF AskedInv, AskedKnown
  <2>2. QED
    BY <2>1, EventStoreAssumption, AskedTypes DEF IInv
<1>4. QED
  BY <1>1, <1>2, <1>3, Invariance, PTL DEF Spec

------------------------------------------------------------------------------
(* The delivery                                                             *)

LEMMA DeliveryInitIInv == DeliveryInit => DeliveryIInv
<1> SUFFICES ASSUME DeliveryInit PROVE DeliveryIInv
  OBVIOUS
<1> USE EventDeliveryAssumption DEF EventDeliveryAssumption, DeliveryInit
<1>1. Made = {} /\ Cardinality(Made) = 0 /\ Made = 1 .. 0
  BY FS_EmptySet DEF Made
<1>2. \A p \in Peers : Held(p) = {} /\ Cardinality(Held(p)) = 0
  BY FS_EmptySet DEF Held
<1>3. DeliveryTypeOK
  BY <1>1, <1>2 DEF DeliveryTypeOK, Made, Subs, SubRecords, Calls, NoCall, TaskStates, PushStates
<1>4. HeldIsItsOwn /\ TablesAgree /\ MarkedIsWatched /\ HeldIsMarked /\ LastSubscribeHolds
  BY <1>2 DEF HeldIsItsOwn, TablesAgree, MarkedIsWatched, HeldIsMarked, LastSubscribeHolds
<1>5. QED
  BY <1>3, <1>4 DEF DeliveryIInv

-----------------------------------------------------------------------------
(* The tables                                                               *)

(* The number of the next object. *)
LEMMA MadeIsCounted ==
    ASSUME DeliveryTypeOK
    PROVE  /\ IsFiniteSet(Made) /\ Cardinality(Made) \in Nat
           /\ Cardinality(Made) + 1 \notin Made
           /\ Made \cup {Cardinality(Made) + 1} = 1 .. Cardinality(Made) + 1
           /\ Cardinality(1 .. Cardinality(Made) + 1) = Cardinality(Made) + 1
<1>0. MaxSubs \in Nat /\ MaxSubs \in Int /\ 1 \in Int
  BY EventDeliveryAssumption DEF EventDeliveryAssumption
<1>1. IsFiniteSet(Subs) /\ Made \subseteq Subs /\ Made = 1 .. Cardinality(Made)
  <2>1. IsFiniteSet(1 .. MaxSubs)
    BY <1>0, FS_Interval
  <2>2. QED
    BY <2>1 DEF DeliveryTypeOK, Subs
<1>2. IsFiniteSet(Made) /\ Cardinality(Made) \in Nat
  BY <1>1, FS_Subset, FS_CardinalityType
<1> DEFINE n == Cardinality(Made)
<1>3. n \in Nat /\ Made = 1 .. n
  BY <1>1, <1>2
<1> HIDE DEF n
<1>4. n + 1 \notin Made /\ Made \cup {n + 1} = 1 .. n + 1
  BY <1>3
<1>5. Cardinality(1 .. n + 1) = n + 1
  BY <1>3, FS_Interval
<1>6. QED
  BY <1>2, <1>4, <1>5 DEF n

LEMMA HeldIsFinite ==
    ASSUME DeliveryTypeOK, NEW p \in Peers
    PROVE  IsFiniteSet(Held(p)) /\ Cardinality(Held(p)) \in Nat /\ Cardinality(Held(p)) <= Limit
<1>0. MaxSubs \in Int /\ 0 \in Int
  BY EventDeliveryAssumption DEF EventDeliveryAssumption
<1>1. IsFiniteSet(0 .. MaxSubs)
  BY <1>0, FS_Interval
<1>2. Held(p) \subseteq 0 .. MaxSubs
  BY DEF DeliveryTypeOK, Held
<1>3. Cardinality(Held(p)) <= Limit
  BY DEF DeliveryTypeOK
<1>4. QED
  BY <1>1, <1>2, <1>3, FS_Subset, FS_CardinalityType

LEMMA RemoveEffect ==
    ASSUME DeliveryTypeOK, NEW S, Remove(S), UNCHANGED sub
    PROVE  /\ byPeer' \in [Peers -> [Topics -> 0 .. MaxSubs]]
           /\ byTopic' \in [Stores -> [Peers \X Topics -> 0 .. MaxSubs]]
           /\ \A p \in Peers, t \in Topics :
                  byPeer'[p][t] = IF byPeer[p][t] \in S THEN 0 ELSE byPeer[p][t]
           /\ \A p \in Peers : Cardinality(Held(p)') <= Limit
           /\ HeldIsItsOwn => HeldIsItsOwn'
           /\ 0 \notin S /\ TablesAgree => TablesAgree'
<1>1. /\ \A p \in Peers, t \in Topics :
             byPeer'[p][t] = IF byPeer[p][t] \in S THEN 0 ELSE byPeer[p][t]
      /\ \A s \in Stores, p \in Peers, t \in Topics :
             byTopic'[s][<<p, t>>] = IF byTopic[s][<<p, t>>] \in S THEN 0 ELSE byTopic[s][<<p, t>>]
  BY DEF Remove, ByPeerWithout, ByTopicWithout
<1>2. /\ byPeer' \in [Peers -> [Topics -> 0 .. MaxSubs]]
      /\ byTopic' \in [Stores -> [Peers \X Topics -> 0 .. MaxSubs]]
  BY EventDeliveryAssumption DEF Remove, ByPeerWithout, ByTopicWithout, DeliveryTypeOK, EventDeliveryAssumption
<1>3. ASSUME NEW p \in Peers PROVE Cardinality(Held(p)') <= Limit
  <2>1. Held(p)' \subseteq Held(p)
    BY <1>1 DEF Held
  <2>2. Cardinality(Held(p)') <= Cardinality(Held(p)) /\ IsFiniteSet(Held(p)')
    BY <2>1, HeldIsFinite, FS_Subset
  <2>3. Cardinality(Held(p)') \in Nat
    BY <2>2, FS_CardinalityType
  <2>4. QED
    BY <2>2, <2>3, HeldIsFinite, EventDeliveryAssumption DEF EventDeliveryAssumption
<1>4. HeldIsItsOwn => HeldIsItsOwn'
  BY <1>1 DEF HeldIsItsOwn, Made
<1>5. 0 \notin S /\ TablesAgree => TablesAgree'
  <2> SUFFICES ASSUME 0 \notin S, TablesAgree, NEW s \in Stores, NEW p \in Peers, NEW t \in Topics
               PROVE  byTopic'[s][<<p, t>>] =
                          IF byPeer'[p][t] # 0 /\ sub'[byPeer'[p][t]].store = s
                          THEN byPeer'[p][t] ELSE 0
    BY DEF TablesAgree
  <2>1. byTopic[s][<<p, t>>] =
            IF byPeer[p][t] # 0 /\ sub[byPeer[p][t]].store = s THEN byPeer[p][t] ELSE 0
    BY DEF TablesAgree
  <2>2. sub' = sub
    OBVIOUS
  <2>3. CASE byPeer[p][t] \in S
    BY <2>1, <2>2, <2>3, <1>1
  <2>4. CASE byPeer[p][t] \notin S
    BY <2>1, <2>2, <2>4, <1>1
  <2>5. QED
    BY <2>3, <2>4
<1>6. QED
  BY <1>1, <1>2, <1>3, <1>4, <1>5

(* Object o is the next one, its record r is for a topic the socket holds    *)
(* `previous` on, and there is room for it.                                 *)
IsNext(o, r, previous) ==
    /\ o = Cardinality(Made) + 1 /\ o <= MaxSubs
    /\ previous = byPeer[r.peer][r.topic]
    /\ previous # 0 \/ Cardinality(Held(r.peer)) < Limit

(* An object is put where the socket held `previous` on the topic. *)
LEMMA PutEffect ==
    ASSUME DeliveryTypeOK, HeldIsItsOwn, TablesAgree, NEW r \in SubRecords, NEW previous, NEW o,
           IsNext(o, r, previous), Put(o, r, previous)
    PROVE  /\ Made' = Made \cup {o} /\ Made' = 1 .. Cardinality(Made') /\ Made' \subseteq Subs
           /\ sub' \in [Made' -> SubRecords] /\ sub'[o] = r /\ \A x \in Made : sub'[x] = sub[x]
           /\ byPeer' \in [Peers -> [Topics -> 0 .. MaxSubs]]
           /\ byTopic' \in [Stores -> [Peers \X Topics -> 0 .. MaxSubs]]
           /\ \A p \in Peers, t \in Topics :
                  byPeer'[p][t] = IF p = r.peer /\ t = r.topic THEN o ELSE byPeer[p][t]
           /\ \A p \in Peers : Cardinality(Held(p)') <= Limit
           /\ HeldIsItsOwn' /\ TablesAgree'
<1> DEFINE q == r.peer
           u == r.topic
<1> USE DEF IsNext
<1>0. q \in Peers /\ u \in Topics /\ r.store \in Stores /\ o \in Subs /\ o # 0 /\ o \in Nat
  BY MadeIsCounted DEF SubRecords, Subs
<1>1. /\ sub' = [x \in Made \cup {o} |-> IF x = o THEN r ELSE sub[x]]
      /\ o \notin Made /\ Made \subseteq Subs
      /\ Made' = Made \cup {o} /\ sub'[o] = r /\ \A x \in Made : sub'[x] = sub[x]
  BY MadeIsCounted DEF Put, Made, DeliveryTypeOK
<1>2. Made' = 1 .. Cardinality(Made') /\ Made' \subseteq Subs
  <2>1. Made' = 1 .. o /\ Cardinality(1 .. o) = o
    BY <1>1, MadeIsCounted
  <2>2. QED
    BY <2>1, <1>0, <1>1
<1>3. sub' \in [Made' -> SubRecords]
  BY <1>1 DEF DeliveryTypeOK
<1>4. /\ ByPeerWithout({previous}) \in [Peers -> [Topics -> 0 .. MaxSubs]]
      /\ ByTopicWithout({previous}) \in [Stores -> [Peers \X Topics -> 0 .. MaxSubs]]
  BY EventDeliveryAssumption DEF ByPeerWithout, ByTopicWithout, DeliveryTypeOK, EventDeliveryAssumption
<1>5. /\ byPeer' = [ByPeerWithout({previous}) EXCEPT ![q][u] = o]
      /\ byTopic' = [ByTopicWithout({previous}) EXCEPT ![r.store][<<q, u>>] = o]
  BY DEF Put
<1>6. /\ byPeer' \in [Peers -> [Topics -> 0 .. MaxSubs]]
      /\ byTopic' \in [Stores -> [Peers \X Topics -> 0 .. MaxSubs]]
  <2>1. o \in 0 .. MaxSubs /\ <<q, u>> \in Peers \X Topics
    BY <1>0 DEF Subs
  <2>2. QED
    BY <2>1, <1>0, <1>4, <1>5
<1>7. \A p \in Peers, t \in Topics :
          byPeer'[p][t] = IF p = q /\ t = u THEN o ELSE byPeer[p][t]
  <2> SUFFICES ASSUME NEW p \in Peers, NEW t \in Topics
               PROVE  byPeer'[p][t] = IF p = q /\ t = u THEN o ELSE byPeer[p][t]
    OBVIOUS
  <2>1. byPeer'[p][t] = IF p = q /\ t = u THEN o ELSE ByPeerWithout({previous})[p][t]
    BY <1>0, <1>4, <1>5
  <2>2. ByPeerWithout({previous})[p][t] = IF byPeer[p][t] = previous THEN 0 ELSE byPeer[p][t]
    BY DEF ByPeerWithout
  <2>3. ASSUME byPeer[p][t] = previous, previous # 0 PROVE p = q /\ t = u
    BY <2>3, <1>0 DEF HeldIsItsOwn
  <2>4. QED
    BY <2>1, <2>2, <2>3
<1>8. \A s \in Stores, p \in Peers, t \in Topics :
          byTopic'[s][<<p, t>>] =
              IF s = r.store /\ p = q /\ t = u THEN o
              ELSE IF byTopic[s][<<p, t>>] = previous THEN 0 ELSE byTopic[s][<<p, t>>]
  <2> SUFFICES ASSUME NEW s \in Stores, NEW p \in Peers, NEW t \in Topics
               PROVE  byTopic'[s][<<p, t>>] =
                          IF s = r.store /\ p = q /\ t = u THEN o
                          ELSE IF byTopic[s][<<p, t>>] = previous THEN 0 ELSE byTopic[s][<<p, t>>]
    OBVIOUS
  <2> DEFINE k == <<p, t>>
             l == <<q, u>>
  <2>1. k \in Peers \X Topics /\ l \in Peers \X Topics /\ (k = l <=> p = q /\ t = u)
    BY <1>0
  <2>2. ByTopicWithout({previous})[s][k] = IF byTopic[s][k] = previous THEN 0 ELSE byTopic[s][k]
    BY <2>1 DEF ByTopicWithout
  <2>3. byTopic' = [ByTopicWithout({previous}) EXCEPT ![r.store][l] = o]
    BY <1>5
  <2> HIDE DEF k, l
  <2>4. byTopic'[s][k] = IF s = r.store /\ k = l THEN o ELSE ByTopicWithout({previous})[s][k]
    BY <2>1, <2>3, <1>0, <1>4
  <2>5. QED
    BY <2>1, <2>2, <2>4 DEF k
<1>9. ASSUME NEW p \in Peers PROVE Cardinality(Held(p)') <= Limit
  <2> DEFINE rest == Held(p) \ {previous}
  <2>0. Limit \in Nat
    BY EventDeliveryAssumption DEF EventDeliveryAssumption
  <2>1. CASE p # q
    <3>1. Held(p)' = Held(p)
      BY <2>1, <1>7 DEF Held
    <3>2. QED
      BY <3>1, HeldIsFinite
  <2>2. CASE p = q
    <3>1. Held(p)' \subseteq rest \cup {o}
      <4> SUFFICES ASSUME NEW t \in Topics, byPeer'[p][t] # 0
                   PROVE  byPeer'[p][t] = o
                          \/ (byPeer[p][t] = byPeer'[p][t] /\ byPeer'[p][t] # previous)
        BY DEF Held
      <4>1. CASE t = u
        <5>1. p = q /\ t = u
          BY <4>1, <2>2
        <5>2. byPeer'[p][t] = o
          BY <5>1, <1>7
        <5>3. QED
          BY <5>2
      <4>2. CASE t # u
        <5>1. byPeer'[p][t] = byPeer[p][t]
          BY <4>2, <1>7
        <5>2. sub[byPeer[p][t]].topic = t
          BY <5>1 DEF HeldIsItsOwn
        <5>3. previous # 0 => sub[previous].topic = u
          BY <1>0 DEF HeldIsItsOwn
        <5>4. QED
          BY <4>2, <5>1, <5>2, <5>3
      <4>3. QED
        BY <4>1, <4>2
    <3>2. IsFiniteSet(rest) /\ Cardinality(rest) + 1 <= Limit /\ Cardinality(rest) \in Nat
      <4>1. CASE previous = 0
        <5>1. rest = Held(p)
          BY <4>1 DEF Held
        <5>2. QED
          BY <5>1, <4>1, <2>0, <2>2, HeldIsFinite
      <4>2. CASE previous # 0
        <5>1. previous \in Held(p)
          BY <4>2, <2>2, <1>0 DEF Held
        <5>2. IsFiniteSet(rest) /\ Cardinality(rest) = Cardinality(Held(p)) - 1
          <6>1. IsFiniteSet(Held(p))
            BY HeldIsFinite
          <6>2. QED
            BY <5>1, <6>1, FS_RemoveElement
        <5>3. Cardinality(rest) \in Nat
          BY <5>2, FS_CardinalityType
        <5>4. QED
          BY <5>2, <5>3, <2>0, HeldIsFinite
      <4>3. QED
        BY <4>1, <4>2
    <3> HIDE DEF rest
    <3>3. /\ IsFiniteSet(rest \cup {o})
          /\ Cardinality(rest \cup {o}) <= Cardinality(rest) + 1
      <4>1. /\ IsFiniteSet(rest \cup {o})
            /\ Cardinality(rest \cup {o}) = IF o \in rest THEN Cardinality(rest)
                                            ELSE Cardinality(rest) + 1
        BY <3>2, FS_AddElement
      <4>2. QED
        BY <4>1, <3>2
    <3>4. /\ IsFiniteSet(Held(p)')
          /\ Cardinality(Held(p)') <= Cardinality(rest \cup {o})
      BY <3>1, <3>3, FS_Subset
    <3>5. Cardinality(Held(p)') \in Nat /\ Cardinality(rest \cup {o}) \in Nat
      BY <3>3, <3>4, FS_CardinalityType
    <3>6. QED
      BY <3>2, <3>3, <3>4, <3>5, <2>0
  <2>3. QED
    BY <2>1, <2>2
<1>10. HeldIsItsOwn'
  BY <1>0, <1>1, <1>7 DEF HeldIsItsOwn
<1>11. TablesAgree'
  <2> SUFFICES ASSUME NEW s \in Stores, NEW p \in Peers, NEW t \in Topics
               PROVE  byTopic'[s][<<p, t>>] =
                          IF byPeer'[p][t] # 0 /\ sub'[byPeer'[p][t]].store = s
                          THEN byPeer'[p][t] ELSE 0
    BY DEF TablesAgree
  <2>1. byTopic[s][<<p, t>>] =
            IF byPeer[p][t] # 0 /\ sub[byPeer[p][t]].store = s THEN byPeer[p][t] ELSE 0
    BY DEF TablesAgree
  <2>2. CASE p = q /\ t = u
    <3>1. byPeer'[p][t] = o /\ sub'[o] = r /\ byPeer[p][t] = previous
      BY <2>2, <1>1, <1>7
    <3>2. QED
      BY <3>1, <2>1, <2>2, <1>0, <1>8
  <2>3. CASE ~(p = q /\ t = u)
    <3>1. byPeer'[p][t] = byPeer[p][t] /\ (previous # 0 => byPeer[p][t] # previous)
      BY <2>3, <1>0, <1>7 DEF HeldIsItsOwn
    <3>2. byPeer[p][t] # 0 => sub'[byPeer[p][t]] = sub[byPeer[p][t]]
      BY <1>1 DEF HeldIsItsOwn
    <3>3. byTopic'[s][<<p, t>>] = byTopic[s][<<p, t>>]
      BY <2>1, <2>3, <3>1, <1>8
    <3>4. QED
      BY <2>1, <3>1, <3>2, <3>3
  <2>4. QED
    BY <2>2, <2>3
<1>12. QED
  BY <1>1, <1>2, <1>3, <1>6, <1>7, <1>9, <1>10, <1>11

-----------------------------------------------------------------------------
(* The step                                                                 *)

(* The types of what the tables do not hold. *)
RestTyped ==
    /\ sock \in [Peers -> {"open", "closing", "closed"}]
    /\ handler \subseteq Peers /\ installed \subseteq Peers
    /\ aged \in 0 .. MaxSubs
    /\ call \in [Peers -> [Topics -> Calls]]
    /\ task \in [Subs -> TaskStates]
    /\ DOMAIN push \subseteq 1 .. MaxEvents
    /\ push \in [DOMAIN push -> [Subs -> PushStates]]
    /\ sought \in [Peers -> [Topics -> 0 .. MaxSubs]]

(* A step that leaves the tables alone. *)
LEMMA TablesStay ==
    ASSUME DeliveryIInv, RestTyped', UNCHANGED <<byPeer, byTopic, sub, installed>>, handler' = handler,
           \A p \in Peers : sock'[p] = "closed" => Held(p) = {},
           \A p \in Peers, t \in Topics : byPeer[p][t] # 0 => sought'[p][t] = sought[p][t]
    PROVE  DeliveryIInv'
<1>1. Made' = Made /\ \A p \in Peers : Held(p)' = Held(p)
  BY DEF Made, Held
<1>2. DeliveryTypeOK'
  BY <1>1 DEF DeliveryIInv, DeliveryTypeOK, RestTyped
<1>3. HeldIsItsOwn' /\ TablesAgree' /\ MarkedIsWatched'
  BY <1>1 DEF DeliveryIInv, HeldIsItsOwn, TablesAgree, MarkedIsWatched
<1>4. HeldIsMarked'
  BY <1>1 DEF DeliveryIInv, HeldIsMarked
<1>5. LastSubscribeHolds'
  BY DEF DeliveryIInv, LastSubscribeHolds
<1>6. QED
  BY <1>2, <1>3, <1>4, <1>5 DEF DeliveryIInv

(* A step that removes objects. *)
LEMMA TablesShrink ==
    ASSUME DeliveryIInv, RestTyped', UNCHANGED sub, NEW S, 0 \notin S, Remove(S),
           installed' \subseteq handler',
           \A p \in Peers : p \in installed' \/ Held(p) \subseteq S \/ UNCHANGED installed,
           \A p \in Peers : sock'[p] # "closed" \/ Held(p) \subseteq S \/ UNCHANGED sock,
           \A p \in Peers, t \in Topics :
               byPeer[p][t] \in S \/ byPeer[p][t] = 0 \/ sought'[p][t] = sought[p][t]
    PROVE  DeliveryIInv'
<1>1. /\ byPeer' \in [Peers -> [Topics -> 0 .. MaxSubs]]
      /\ byTopic' \in [Stores -> [Peers \X Topics -> 0 .. MaxSubs]]
      /\ \A p \in Peers, t \in Topics :
             byPeer'[p][t] = IF byPeer[p][t] \in S THEN 0 ELSE byPeer[p][t]
      /\ \A p \in Peers : Cardinality(Held(p)') <= Limit
      /\ HeldIsItsOwn' /\ TablesAgree'
  BY RemoveEffect DEF DeliveryIInv
<1>2. DeliveryTypeOK'
  BY <1>1 DEF DeliveryIInv, DeliveryTypeOK, RestTyped, Made
<1>3. HeldIsMarked'
  <2> SUFFICES ASSUME NEW p \in Peers, Held(p)' # {}
               PROVE  p \in installed' /\ sock'[p] # "closed"
    BY DEF HeldIsMarked
  <2>1. PICK t \in Topics : byPeer'[p][t] # 0
    BY DEF Held
  <2>2. byPeer[p][t] # 0 /\ byPeer[p][t] \notin S
    BY <2>1, <1>1
  <2>3. byPeer[p][t] \in Held(p)
    BY <2>2 DEF Held
  <2>4. Held(p) # {} /\ ~(Held(p) \subseteq S)
    BY <2>2, <2>3
  <2>5. p \in installed /\ sock[p] # "closed"
    BY <2>4 DEF DeliveryIInv, HeldIsMarked
  <2>6. QED
    BY <2>4, <2>5
<1>4. LastSubscribeHolds'
  <2> SUFFICES ASSUME NEW p \in Peers, NEW t \in Topics, byPeer'[p][t] # 0
               PROVE  sub[byPeer'[p][t]].origin = sought'[p][t]
    BY DEF LastSubscribeHolds
  <2>1. byPeer'[p][t] = byPeer[p][t] /\ byPeer[p][t] \notin S /\ byPeer[p][t] # 0
    BY <1>1
  <2>2. sought'[p][t] = sought[p][t]
    BY <2>1
  <2>3. QED
    BY <2>1, <2>2 DEF DeliveryIInv, LastSubscribeHolds
<1>5. QED
  BY <1>1, <1>2, <1>3, <1>4 DEF DeliveryIInv, MarkedIsWatched

(* A step that puts the next object where the socket held `previous`. *)
LEMMA TablesGrow ==
    ASSUME DeliveryIInv, RestTyped', NEW r \in SubRecords, NEW previous, NEW o,
           IsNext(o, r, previous), Put(o, r, previous), UNCHANGED sock,
           installed \subseteq installed', installed' \subseteq handler',
           r.peer \in installed' /\ sock[r.peer] # "closed",
           \A p \in Peers, t \in Topics :
               sought'[p][t] = IF p = r.peer /\ t = r.topic THEN r.origin ELSE sought[p][t]
    PROVE  DeliveryIInv'
<1>1. /\ Made' = 1 .. Cardinality(Made') /\ Made' \subseteq Subs
      /\ sub' \in [Made' -> SubRecords] /\ sub'[o] = r /\ \A x \in Made : sub'[x] = sub[x]
      /\ byPeer' \in [Peers -> [Topics -> 0 .. MaxSubs]]
      /\ byTopic' \in [Stores -> [Peers \X Topics -> 0 .. MaxSubs]]
      /\ \A p \in Peers, t \in Topics :
             byPeer'[p][t] = IF p = r.peer /\ t = r.topic THEN o ELSE byPeer[p][t]
      /\ \A p \in Peers : Cardinality(Held(p)') <= Limit
      /\ HeldIsItsOwn' /\ TablesAgree'
  <2>0. DeliveryTypeOK /\ HeldIsItsOwn /\ TablesAgree
    BY DEF DeliveryIInv
  <2>1. Made' = 1 .. Cardinality(Made') /\ Made' \subseteq Subs
    BY <2>0, PutEffect
  <2>2. sub' \in [Made' -> SubRecords] /\ sub'[o] = r
    BY <2>0, PutEffect
  <2>3. \A x \in Made : sub'[x] = sub[x]
    BY <2>0, PutEffect
  <2>4. byPeer' \in [Peers -> [Topics -> 0 .. MaxSubs]]
    BY <2>0, PutEffect
  <2>5. byTopic' \in [Stores -> [Peers \X Topics -> 0 .. MaxSubs]]
    BY <2>0, PutEffect
  <2>6. \A p \in Peers, t \in Topics :
            byPeer'[p][t] = IF p = r.peer /\ t = r.topic THEN o ELSE byPeer[p][t]
    BY <2>0, PutEffect
  <2>7. (\A p \in Peers : Cardinality(Held(p)') <= Limit) /\ HeldIsItsOwn' /\ TablesAgree'
    BY <2>0, PutEffect
  <2>8. QED
    BY <2>1, <2>2, <2>3, <2>4, <2>5, <2>6, <2>7
<1>2. DeliveryTypeOK'
  BY <1>1 DEF DeliveryTypeOK, RestTyped
<1>3. HeldIsMarked'
  <2> SUFFICES ASSUME NEW p \in Peers, Held(p)' # {}
               PROVE  p \in installed' /\ sock'[p] # "closed"
    BY DEF HeldIsMarked
  <2>1. CASE p = r.peer
    BY <2>1
  <2>2. CASE p # r.peer
    <3>0. \A t \in Topics : byPeer'[p][t] = byPeer[p][t]
      BY <2>2, <1>1
    <3>1. Held(p)' = Held(p)
      BY <3>0 DEF Held
    <3>2. p \in installed /\ sock[p] # "closed"
      BY <3>1 DEF DeliveryIInv, HeldIsMarked
    <3>3. QED
      BY <3>2
  <2>3. QED
    BY <2>1, <2>2
<1>4. LastSubscribeHolds'
  <2> SUFFICES ASSUME NEW p \in Peers, NEW t \in Topics, byPeer'[p][t] # 0
               PROVE  sub'[byPeer'[p][t]].origin = sought'[p][t]
    BY DEF LastSubscribeHolds
  <2>1. CASE p = r.peer /\ t = r.topic
    BY <2>1, <1>1
  <2>2. CASE ~(p = r.peer /\ t = r.topic)
    <3>1. byPeer'[p][t] = byPeer[p][t] /\ sought'[p][t] = sought[p][t]
      BY <2>2, <1>1
    <3>2. sub'[byPeer[p][t]] = sub[byPeer[p][t]]
      BY <3>1, <1>1 DEF DeliveryIInv, HeldIsItsOwn
    <3>3. QED
      BY <3>1, <3>2 DEF DeliveryIInv, LastSubscribeHolds
  <2>3. QED
    BY <2>1, <2>2
<1>5. QED
  BY <1>1, <1>2, <1>3, <1>4 DEF DeliveryIInv, MarkedIsWatched

LEMMA RestIsTyped == ASSUME DeliveryTypeOK, DeliveryNext PROVE RestTyped'
<1> USE DEF RestTyped
<1>0. RestTyped /\ \A n \in DOMAIN push, o \in Made : o \in Subs
  BY DEF DeliveryTypeOK
<1> DEFINE count == Cardinality(Made) + 1
<1>1. count \in Nat /\ count # 0
  BY MadeIsCounted
<1>2. count <= MaxSubs + 1
  <2>1. Made = 1 .. Cardinality(Made) /\ Made \subseteq 1 .. MaxSubs /\ Cardinality(Made) \in Nat
    BY MadeIsCounted DEF DeliveryTypeOK, Subs
  <2>2. MaxSubs \in Nat
    BY EventDeliveryAssumption DEF EventDeliveryAssumption
  <2>3. CASE Cardinality(Made) = 0
    BY <2>2, <2>3
  <2>4. CASE Cardinality(Made) # 0
    BY <2>1, <2>2, <2>4
  <2>5. QED
    BY <2>3, <2>4
<1> HIDE DEF count
<1>3. ASSUME NEW p \in Peers, NEW t \in Topics, Command(p, t) PROVE RestTyped'
  <2>1. ASSUME NEW verdict \in Stores \cup {Refused}, Gate(p, t, verdict) PROVE RestTyped'
    BY <1>0, <2>1 DEF Gate, Calls, NoCall, table
  <2>2. NoCall \in Calls
    BY DEF NoCall, Calls
  <2>3. CASE SubscribeRefused(p, t)
    BY <1>0, <2>2, <2>3, EventDeliveryAssumption
    DEF SubscribeRefused, EndCall, EventDeliveryAssumption
  <2>4. CASE SubscribeInVain(p, t)
    BY <1>0, <2>2, <2>4 DEF SubscribeInVain, EndCall, table
  <2>5. CASE Subscribe(p, t)
    <3>1. /\ handler' \subseteq Peers /\ installed' \subseteq Peers
          /\ call' \in [Peers -> [Topics -> Calls]]
          /\ UNCHANGED <<sock, aged, task, push>>
      BY <1>0, <2>2, <2>5 DEF Subscribe, EndCall
    <3>2. count <= MaxSubs /\ sought' = [sought EXCEPT ![p][t] = count]
      BY <2>5 DEF Subscribe, count
    <3>3. count \in 0 .. MaxSubs
      BY <3>2, <1>1, EventDeliveryAssumption DEF EventDeliveryAssumption
    <3>4. sought' \in [Peers -> [Topics -> 0 .. MaxSubs]]
      BY <3>2, <3>3, <1>0
    <3>5. QED
      BY <1>0, <3>1, <3>4
  <2>6. CASE Unsubscribe(p, t)
    BY <1>0, <2>6, EventDeliveryAssumption DEF Unsubscribe, EventDeliveryAssumption
  <2>7. QED
    BY <1>3, <2>1, <2>3, <2>4, <2>5, <2>6 DEF Command
<1>4. ASSUME NEW p \in Peers, Socket(p) PROVE RestTyped'
  <2>1. CASE Close(p)
    BY <1>0, <2>1 DEF Close, table
  <2>2. CASE RunHandlers(p)
    BY <1>0, <2>2 DEF RunHandlers, DropPeer, table
  <2>3. CASE Reuse(p)
    BY <1>0, <2>3, EventDeliveryAssumption DEF Reuse, table, EventDeliveryAssumption
  <2>4. QED
    BY <1>4, <2>1, <2>2, <2>3 DEF Socket
<1>5. ASSUME NEW s \in Stores, Deliver(s) PROVE RestTyped'
  <2> DEFINE n == Cardinality(DOMAIN push) + 1
  <2>1. n \in 1 .. MaxEvents
    <3>1. MaxEvents \in Nat /\ MaxEvents \in Int /\ 1 \in Int
      BY EventDeliveryAssumption DEF EventDeliveryAssumption
    <3>2. IsFiniteSet(1 .. MaxEvents)
      BY <3>1, FS_Interval
    <3>3. IsFiniteSet(DOMAIN push)
      BY <3>2, <1>0, FS_Subset
    <3>4. Cardinality(DOMAIN push) \in Nat
      BY <3>3, FS_CardinalityType
    <3>5. QED
      BY <3>1, <3>4, <1>5 DEF Deliver
  <2> HIDE DEF n
  <2>2. push' = [m \in DOMAIN push \cup {n} |->
                    IF m # n THEN push[m]
                    ELSE [o \in Subs |-> IF o \in Range(byTopic[s]) \ {0} THEN "start" ELSE "none"]]
    BY <1>5 DEF Deliver, n
  <2>3. DOMAIN push' \subseteq 1 .. MaxEvents
    BY <2>1, <2>2, <1>0
  <2>4. push' \in [DOMAIN push' -> [Subs -> PushStates]]
    BY <2>2, <1>0 DEF PushStates
  <2>5. QED
    BY <1>0, <1>5, <2>3, <2>4 DEF Deliver, table
<1>6. ASSUME NEW s \in Stores, DropSubscriptions(s) PROVE RestTyped'
  BY <1>0, <1>6 DEF DropSubscriptions
<1>7. CASE Age
  <2>1. aged' \in 0 .. MaxSubs
    <3>1. aged < Cardinality(Made) /\ Cardinality(Made) <= MaxSubs /\ Cardinality(Made) \in Nat
      BY <1>2, <1>7, MadeIsCounted, EventDeliveryAssumption DEF Age, count, EventDeliveryAssumption
    <3>2. QED
      BY <3>1, <1>0, <1>7, EventDeliveryAssumption DEF Age, EventDeliveryAssumption
  <2>2. QED
    BY <1>0, <1>7, <2>1 DEF Age, table
<1>8. ASSUME NEW o \in Made, Reauthorization(o) PROVE RestTyped'
  <2> USE DEF TaskStates, PushStates
  <2>1. ASSUME NEW verdict \in {"refused", "failed", "same", "other"}, Regate(o, verdict)
        PROVE  RestTyped'
    BY <1>0, <2>1 DEF Regate, table
  <2>2. CASE Reauthorize(o)
    <3>1. ASSUME NEW good \in BOOLEAN, Conclude(o, good)
          PROVE  /\ task' \in [Subs -> TaskStates]
                 /\ DOMAIN push' = DOMAIN push
                 /\ push' \in [DOMAIN push' -> [Subs -> PushStates]]
      BY <1>0, <3>1 DEF Conclude
    <3>2. Passes(task[o]) \in BOOLEAN
      BY DEF Passes
    <3>3. QED
      BY <1>0, <2>2, <3>1, <3>2 DEF Reauthorize
  <2>3. CASE Forget(o)
    BY <1>0, <2>3 DEF Forget, table
  <2>4. QED
    BY <1>8, <2>1, <2>2, <2>3 DEF Reauthorization
<1>9. ASSUME NEW o \in Made, NEW n \in DOMAIN push, Push(n, o) PROVE RestTyped'
  <2>0. o \in Subs
    BY <1>0
  <2>00. ASSUME NEW state \in PushStates, PushBecomes(n, o, state)
         PROVE  DOMAIN push' = DOMAIN push /\ push' \in [DOMAIN push' -> [Subs -> PushStates]]
    BY <1>0, <2>0, <2>00 DEF PushBecomes
  <2>01. {"waiting", "send", "sent", "ended"} \subseteq PushStates
    BY DEF PushStates
  <2>1. CASE StartPush(n, o)
    <3>1. PICK state \in {"waiting", "send", "ended"} : PushBecomes(n, o, state)
      BY <2>1 DEF StartPush
    <3>2. task' \in [Subs -> TaskStates]
      BY <1>0, <2>0, <2>1 DEF StartPush, TaskStates
    <3>3. QED
      BY <1>0, <2>00, <2>01, <2>1, <3>1, <3>2 DEF StartPush, table
  <2>2. CASE EndPush(n, o)
    BY <1>0, <2>00, <2>01, <2>2 DEF EndPush, table
  <2>3. CASE Notify(n, o)
    <3>1. PICK state \in {"sent", "ended"} : PushBecomes(n, o, state)
      BY <2>3 DEF Notify
    <3>2. installed' \subseteq installed /\ UNCHANGED <<sock, handler, aged, call, task, sought>>
      BY <2>3 DEF Notify, DropPeer, table
    <3>3. QED
      BY <1>0, <2>00, <2>01, <3>1, <3>2
  <2>4. QED
    BY <1>9, <2>1, <2>2, <2>3 DEF Push
<1>10. QED
  BY <1>3, <1>4, <1>5, <1>6, <1>7, <1>8, <1>9 DEF DeliveryNext

(* The objects a removal takes, in the words of TablesShrink. *)
LEMMA DropsPeer ==
    ASSUME DeliveryIInv, RestTyped', NEW p \in Peers, DropPeer(p), UNCHANGED <<sub, sought>>,
           \A q \in Peers \ {p} : sock'[q] = sock[q],
           handler \ {p} \subseteq handler'
    PROVE  DeliveryIInv'
<1>1. Remove(Held(p)) /\ 0 \notin Held(p) /\ installed' = installed \ {p}
  BY DEF DropPeer, Held
<1>2. installed' \subseteq handler'
  BY <1>1 DEF DeliveryIInv, MarkedIsWatched
<1>3. ASSUME NEW q \in Peers, q # p, Held(q) # {}
      PROVE  q \in installed' /\ sock'[q] # "closed"
  BY <1>1, <1>3 DEF DeliveryIInv, HeldIsMarked
<1>4. \A q \in Peers : (q \in installed' /\ sock'[q] # "closed") \/ Held(q) \subseteq Held(p)
  BY <1>3
<1>5. QED
  BY <1>1, <1>2, <1>4, TablesShrink

LEMMA DeliveryStep == DeliveryIInv /\ [DeliveryNext]_deliveryVars => DeliveryIInv'
<1> SUFFICES ASSUME DeliveryIInv, [DeliveryNext]_deliveryVars PROVE DeliveryIInv'
  OBVIOUS
<1>0. DeliveryTypeOK /\ HeldIsItsOwn /\ HeldIsMarked /\ MarkedIsWatched
  BY DEF DeliveryIInv
<1>1. CASE UNCHANGED deliveryVars
  <2>1. RestTyped'
    BY <1>0, <1>1 DEF DeliveryTypeOK, RestTyped, deliveryVars, table
  <2>2. QED
    BY <1>0, <1>1, <2>1, TablesStay DEF deliveryVars, table, HeldIsMarked
<1>2. CASE DeliveryNext
  <2>0. RestTyped'
    BY <1>0, <1>2, RestIsTyped
  <2>1. ASSUME NEW p \in Peers, NEW t \in Topics, Command(p, t) PROVE DeliveryIInv'
    <3>0. sought \in [Peers -> [Topics -> 0 .. MaxSubs]]
      BY <1>0 DEF DeliveryTypeOK
    <3>1. ASSUME NEW verdict \in Stores \cup {Refused}, Gate(p, t, verdict) PROVE DeliveryIInv'
      BY <1>0, <2>0, <3>1, TablesStay DEF Gate, table, HeldIsMarked
    <3>2. CASE SubscribeRefused(p, t)
      BY <1>0, <2>0, <3>0, <3>2, TablesShrink DEF SubscribeRefused, MarkedIsWatched
    <3>3. CASE SubscribeInVain(p, t)
      BY <1>0, <2>0, <3>3, TablesStay DEF SubscribeInVain, table, HeldIsMarked
    <3>4. CASE Subscribe(p, t)
      <4> DEFINE o == Cardinality(Made) + 1
                 r == [peer |-> p, topic |-> t, store |-> call[p][t].answer, origin |-> o]
      <4>1. /\ o <= MaxSubs /\ HasRoom(p, t) /\ sock[p] = "open"
            /\ Put(o, r, byPeer[p][t])
            /\ installed' = installed \cup {p}
            /\ handler' = IF p \in installed THEN handler ELSE handler \cup {p}
            /\ sought' = [sought EXCEPT ![p][t] = o]
            /\ UNCHANGED sock
        BY <3>4 DEF Subscribe
      <4>2. o \in Subs
        BY <1>0, <4>1, MadeIsCounted, EventDeliveryAssumption DEF Subs, EventDeliveryAssumption
      <4>3. call[p][t].answer \in Stores
        BY <1>0, <3>4 DEF DeliveryTypeOK, Subscribe, Calls
      <4>4. r \in SubRecords /\ r.peer = p /\ r.topic = t /\ r.origin = o
        BY <4>2, <4>3 DEF SubRecords
      <4>5. o = Cardinality(Made) + 1
        OBVIOUS
      <4> HIDE DEF o, r
      <4>6. IsNext(o, r, byPeer[p][t])
        BY <4>1, <4>4, <4>5 DEF IsNext, HasRoom
      <4>7. installed \subseteq installed' /\ installed' \subseteq handler' /\ r.peer \in installed'
        BY <1>0, <4>1, <4>4 DEF MarkedIsWatched
      <4>8. \A q \in Peers, u \in Topics :
                sought'[q][u] = IF q = r.peer /\ u = r.topic THEN r.origin ELSE sought[q][u]
        BY <3>0, <4>1, <4>4
      <4>9. QED
        BY <2>0, <4>1, <4>4, <4>6, <4>7, <4>8, TablesGrow
    <3>5. CASE Unsubscribe(p, t)
      <4>1. /\ 0 \notin {byPeer[p][t]} /\ Remove({byPeer[p][t]})
            /\ UNCHANGED <<sock, handler, installed, sub>>
            /\ sought' = [sought EXCEPT ![p][t] = 0]
        BY <3>5 DEF Unsubscribe
      <4>2. \A q \in Peers, u \in Topics :
                byPeer[q][u] \in {byPeer[p][t]} \/ byPeer[q][u] = 0 \/ sought'[q][u] = sought[q][u]
        BY <3>0, <4>1
      <4>3. QED
        BY <1>0, <2>0, <4>1, <4>2, TablesShrink DEF MarkedIsWatched
    <3>6. QED
      BY <2>1, <3>1, <3>2, <3>3, <3>4, <3>5 DEF Command
  <2>2. ASSUME NEW p \in Peers, Socket(p) PROVE DeliveryIInv'
    <3>0. sock \in [Peers -> {"open", "closing", "closed"}]
      BY <1>0 DEF DeliveryTypeOK
    <3>1. CASE Close(p)
      <4>1. \A q \in Peers : sock'[q] = "closed" => sock[q] = "closed"
        BY <3>0, <3>1 DEF Close
      <4>2. QED
        BY <1>0, <2>0, <3>1, <4>1, TablesStay DEF Close, table, HeldIsMarked
    <3>2. CASE RunHandlers(p)
      <4>1. \A q \in Peers \ {p} : sock'[q] = sock[q]
        BY <3>0, <3>2 DEF RunHandlers
      <4>2. CASE p \in handler
        BY <2>0, <3>2, <4>1, <4>2, DropsPeer DEF RunHandlers
      <4>3. CASE p \notin handler
        <5>1. Held(p) = {}
          BY <1>0, <4>3 DEF HeldIsMarked, MarkedIsWatched
        <5>2. \A q \in Peers : sock'[q] = "closed" => Held(q) = {}
          BY <1>0, <4>1, <5>1 DEF HeldIsMarked
        <5>3. QED
          BY <2>0, <3>2, <4>3, <5>2, TablesStay DEF RunHandlers, table
      <4>4. QED
        BY <4>2, <4>3
    <3>3. CASE Reuse(p)
      <4>1. Held(p) = {}
        BY <1>0, <3>3 DEF Reuse, HeldIsMarked
      <4>2. \A q \in Peers : sock'[q] = "closed" => Held(q) = {}
        BY <1>0, <3>0, <3>3 DEF Reuse, HeldIsMarked
      <4>3. \A q \in Peers, t \in Topics : byPeer[q][t] # 0 => sought'[q][t] = sought[q][t]
        <5>1. sought \in [Peers -> [Topics -> 0 .. MaxSubs]]
          BY <1>0 DEF DeliveryTypeOK
        <5>2. \A t \in Topics : byPeer[p][t] = 0
          BY <4>1 DEF Held
        <5>3. QED
          BY <3>3, <5>1, <5>2 DEF Reuse
      <4>4. QED
        BY <2>0, <3>3, <4>2, <4>3, TablesStay DEF Reuse, table
    <3>4. QED
      BY <2>2, <3>1, <3>2, <3>3 DEF Socket
  <2>3. ASSUME NEW s \in Stores, Deliver(s) PROVE DeliveryIInv'
    BY <1>0, <2>0, <2>3, TablesStay DEF Deliver, table, HeldIsMarked
  <2>4. ASSUME NEW s \in Stores, DropSubscriptions(s) PROVE DeliveryIInv'
    <3> DEFINE S == Range(byTopic[s]) \ {0}
    <3>1. 0 \notin S /\ Remove(S) /\ UNCHANGED <<sock, handler, installed, sub, sought>>
      BY <2>4 DEF DropSubscriptions
    <3> HIDE DEF S
    <3>2. QED
      BY <1>0, <2>0, <3>1, TablesShrink DEF MarkedIsWatched
  <2>5. CASE Age
    BY <1>0, <2>0, <2>5, TablesStay DEF Age, table, HeldIsMarked
  <2>6. ASSUME NEW o \in Made, Reauthorization(o) PROVE DeliveryIInv'
    <3>1. ASSUME NEW verdict \in {"refused", "failed", "same", "other"}, Regate(o, verdict)
          PROVE  DeliveryIInv'
      BY <1>0, <2>0, <3>1, TablesStay DEF Regate, table, HeldIsMarked
    <3>2. CASE Reauthorize(o)
      <4>0. UNCHANGED <<sock, handler, installed, sought>>
        BY <3>2 DEF Reauthorize
      <4>1. o \in Subs /\ o # 0 /\ sub[o] \in SubRecords
        BY <1>0 DEF DeliveryTypeOK, Subs
      <4>2. CASE UNCHANGED <<sub, byPeer, byTopic>>
        BY <1>0, <2>0, <4>0, <4>2, TablesStay DEF HeldIsMarked
      <4>3. CASE Withdraw(o)
        BY <1>0, <2>0, <4>0, <4>1, <4>3, TablesShrink DEF Withdraw, MarkedIsWatched
      <4>4. CASE Renew(o) /\ IsHeld(o)
        <5> DEFINE new == Cardinality(Made) + 1
                   r == sub[o]
        <5>1. new <= MaxSubs /\ Put(new, r, o) /\ byPeer[r.peer][r.topic] = o
          BY <4>4 DEF Renew, IsHeld
        <5>2. IsNext(new, r, o)
          BY <4>1, <5>1 DEF IsNext
        <5>3. r.peer \in Peers /\ r.topic \in Topics
          BY <4>1 DEF SubRecords
        <5>4. o \in Held(r.peer)
          BY <4>1, <5>1, <5>3 DEF Held
        <5>5. r.peer \in installed /\ sock[r.peer] # "closed"
          BY <1>0, <5>3, <5>4 DEF HeldIsMarked
        <5>6. r.origin = sought[r.peer][r.topic]
          BY <4>1, <5>1, <5>3 DEF DeliveryIInv, LastSubscribeHolds
        <5>7. r \in SubRecords
          BY <4>1
        <5> HIDE DEF new, r
        <5>8. QED
          BY <1>0, <2>0, <4>0, <5>1, <5>2, <5>5, <5>6, <5>7, TablesGrow DEF MarkedIsWatched
      <4>5. QED
        BY <3>2, <4>2, <4>3, <4>4 DEF Reauthorize, Renew
    <3>3. CASE Forget(o)
      BY <1>0, <2>0, <3>3, TablesStay DEF Forget, table, HeldIsMarked
    <3>4. QED
      BY <2>6, <3>1, <3>2, <3>3 DEF Reauthorization
  <2>7. ASSUME NEW o \in Made, NEW n \in DOMAIN push, Push(n, o) PROVE DeliveryIInv'
    <3>1. CASE StartPush(n, o)
      BY <1>0, <2>0, <3>1, TablesStay DEF StartPush, table, HeldIsMarked
    <3>2. CASE EndPush(n, o)
      BY <1>0, <2>0, <3>2, TablesStay DEF EndPush, table, HeldIsMarked
    <3>3. CASE Notify(n, o)
      <4>1. sub[o].peer \in Peers
        BY <1>0 DEF DeliveryTypeOK, SubRecords
      <4>2. CASE sock[sub[o].peer] = "open"
        BY <1>0, <2>0, <3>3, <4>2, TablesStay DEF Notify, table, HeldIsMarked
      <4>3. CASE sock[sub[o].peer] # "open"
        BY <2>0, <3>3, <4>1, <4>3, DropsPeer DEF Notify
      <4>4. QED
        BY <4>2, <4>3
    <3>4. QED
      BY <2>7, <3>1, <3>2, <3>3 DEF Push
  <2>8. QED
    BY <1>2, <2>1, <2>2, <2>3, <2>4, <2>5, <2>6, <2>7 DEF DeliveryNext
<1>3. QED
  BY <1>1, <1>2

-----------------------------------------------------------------------------
(* The theorems                                                             *)

THEOREM DeliveryInvariance == DeliverySpec => []DeliveryIInv
<1>1. QED
  BY DeliveryInitIInv, DeliveryStep, PTL DEF DeliverySpec

(* The objects and the tables have their types, and no socket holds more    *)
(* subscriptions than the limit, however its commands interleave.           *)
THEOREM DeliveryTypeCorrect == DeliverySpec => []DeliveryTypeOK
<1>1. DeliveryIInv => DeliveryTypeOK
  BY DEF DeliveryIInv
<1>2. QED
  BY <1>1, DeliveryInvariance, PTL

(* `_by_peer` and `_by_topic` always hold the same subscriptions, each      *)
(* under its own store topic only.                                          *)
THEOREM TablesAlwaysAgree == DeliverySpec => []TablesAgree
<1>1. DeliveryIInv => TablesAgree
  BY DEF DeliveryIInv
<1>2. QED
  BY <1>1, DeliveryInvariance, PTL

(* No socket is left with subscriptions that no close handler will drop.    *)
THEOREM HeldIsAlwaysWatched == DeliverySpec => []HeldIsWatched
<1>1. DeliveryIInv => HeldIsWatched
  BY DEF DeliveryIInv, HeldIsMarked, MarkedIsWatched, HeldIsWatched
<1>2. QED
  BY <1>1, DeliveryInvariance, PTL

(* What a socket holds on a topic is what it subscribed to last.            *)
THEOREM LastSubscribeAlwaysHolds == DeliverySpec => []LastSubscribeHolds
<1>1. DeliveryIInv => LastSubscribeHolds
  BY DEF DeliveryIInv
<1>2. QED
  BY <1>1, DeliveryInvariance, PTL

(* A verdict of `_reauthorize`: where the task of an object becomes "no".   *)
LEMMA OnlyReauthorizeDenies ==
    ASSUME DeliveryTypeOK, DeliveryNext, NEW o \in Made, task[o] \in {"refused", "other"}, task'[o] = "no"
    PROVE  Reauthorize(o)
<1>0. task \in [Subs -> TaskStates] /\ Made \subseteq Subs
  BY DEF DeliveryTypeOK
<1>1. task' # task
  BY <1>0
<1>2. ASSUME NEW p \in Peers, Socket(p) PROVE FALSE
  BY <1>1, <1>2 DEF Socket, Close, RunHandlers, Reuse
<1>3. ASSUME NEW p \in Peers, NEW t \in Topics, Command(p, t) PROVE FALSE
  BY <1>1, <1>3
  DEF Command, Gate, SubscribeRefused, SubscribeInVain, Subscribe, Unsubscribe
<1>4. ASSUME NEW s \in Stores, Deliver(s) \/ DropSubscriptions(s) PROVE FALSE
  BY <1>1, <1>4 DEF Deliver, DropSubscriptions
<1>5. CASE Age
  BY <1>1, <1>5 DEF Age
<1>6. ASSUME NEW x \in Made, NEW n \in DOMAIN push, Push(n, x) PROVE FALSE
  BY <1>0, <1>6 DEF Push, StartPush, EndPush, Notify
<1>7. ASSUME NEW x \in Made, Reauthorization(x) PROVE x = o /\ Reauthorize(o)
  <2>1. ASSUME NEW verdict \in {"refused", "failed", "same", "other"}, Regate(x, verdict)
        PROVE  FALSE
    BY <1>0, <2>1 DEF Regate
  <2>2. CASE Forget(x)
    BY <1>0, <2>2 DEF Forget
  <2>3. CASE Reauthorize(x)
    BY <1>0, <2>3 DEF Reauthorize, Conclude
  <2>4. QED
    BY <1>7, <2>1, <2>2, <2>3 DEF Reauthorization
<1>8. QED
  BY <1>2, <1>3, <1>4, <1>5, <1>6, <1>7 DEF DeliveryNext

(* A reauthorization takes away only the subscription it was run for,       *)
(* whatever replaced it while its gate was sought.                           *)
THEOREM OnlyItsOwnIsWithdrawn == DeliverySpec => OnlyItsOwnSubscription
<1> DEFINE Kept ==
        \A o \in Made : task[o] \in {"refused", "other"} /\ task'[o] = "no" =>
            \A p \in Peers, t \in Topics : byPeer[p][t] # o => byPeer'[p][t] = byPeer[p][t]
<1>1. DeliveryIInv /\ [DeliveryNext]_deliveryVars => [Kept]_deliveryVars
  <2> SUFFICES ASSUME DeliveryIInv, DeliveryNext, NEW o \in Made,
                      task[o] \in {"refused", "other"}, task'[o] = "no",
                      NEW p \in Peers, NEW t \in Topics, byPeer[p][t] # o
               PROVE  byPeer'[p][t] = byPeer[p][t]
    OBVIOUS
  <2>1. Reauthorize(o)
    BY OnlyReauthorizeDenies DEF DeliveryIInv
  <2>2. Remove({o})
    BY <2>1 DEF Reauthorize, Withdraw
  <2>3. QED
    BY <2>2 DEF Remove, ByPeerWithout
<1>2. QED
  BY <1>1, DeliveryInvariance, PTL DEF DeliverySpec, OnlyItsOwnSubscription

(* No event is sent to a subscription that is due before its gate has       *)
(* answered the store topic it is held under.                               *)
THEOREM PushIsAlwaysAuthorized == DeliverySpec => PushIsAuthorized
<1> DEFINE Authorized ==
        \A n \in DOMAIN push, o \in Made :
            push[n][o] # "send" /\ push'[n][o] = "send" => ~IsDue(o) \/ task[o] \in {"same", "yes"}
<1>1. DeliveryIInv /\ [DeliveryNext]_deliveryVars => [Authorized]_deliveryVars
  <2> SUFFICES ASSUME DeliveryIInv, DeliveryNext, NEW n \in DOMAIN push, NEW o \in Made,
                      push[n][o] # "send", push'[n][o] = "send"
               PROVE  ~IsDue(o) \/ task[o] \in {"same", "yes"}
    OBVIOUS
  <2>0. push \in [DOMAIN push -> [Subs -> PushStates]] /\ o \in Subs /\ push' # push
    BY DEF DeliveryIInv, DeliveryTypeOK
  <2>1. ASSUME NEW p \in Peers, Socket(p) PROVE FALSE
    BY <2>0, <2>1 DEF Socket, Close, RunHandlers, Reuse
  <2>2. ASSUME NEW p \in Peers, NEW t \in Topics, Command(p, t) PROVE FALSE
    BY <2>0, <2>2
    DEF Command, Gate, SubscribeRefused, SubscribeInVain, Subscribe, Unsubscribe
  <2>3. ASSUME NEW s \in Stores, DropSubscriptions(s) PROVE FALSE
    BY <2>0, <2>3 DEF DropSubscriptions
  <2>4. ASSUME NEW s \in Stores, Deliver(s) PROVE FALSE
    BY <2>0, <2>4 DEF Deliver
  <2>5. CASE Age
    BY <2>0, <2>5 DEF Age
  <2>6. ASSUME NEW x \in Made, NEW m \in DOMAIN push, Push(m, x)
        PROVE  ~IsDue(o) \/ task[o] \in {"same", "yes"}
    <3>1. \A state : PushBecomes(m, x, state) => m = n /\ x = o /\ state = "send"
      BY <2>0 DEF PushBecomes
    <3>2. CASE StartPush(m, x)
      BY <3>1, <3>2 DEF StartPush
    <3>3. CASE EndPush(m, x) \/ Notify(m, x)
      BY <3>1, <3>3 DEF EndPush, Notify
    <3>4. QED
      BY <2>6, <3>2, <3>3 DEF Push
  <2>7. ASSUME NEW x \in Made, Reauthorization(x) PROVE task[o] = "same"
    <3>1. CASE Reauthorize(x)
      <4>1. Conclude(x, Passes(task[x]))
        BY <3>1 DEF Reauthorize
      <4>2. x = o /\ Passes(task[x])
        BY <2>0, <4>1 DEF Conclude
      <4>3. QED
        BY <4>2 DEF Passes
    <3>2. ASSUME NEW verdict \in {"refused", "failed", "same", "other"}, Regate(x, verdict)
          PROVE  FALSE
      BY <2>0, <3>2 DEF Regate
    <3>3. CASE Forget(x)
      BY <2>0, <3>3 DEF Forget
    <3>4. QED
      BY <2>7, <3>1, <3>2, <3>3 DEF Reauthorization
  <2>8. QED
    BY <2>1, <2>2, <2>3, <2>4, <2>5, <2>6, <2>7 DEF DeliveryNext
<1>2. QED
  BY <1>1, DeliveryInvariance, PTL DEF DeliverySpec, PushIsAuthorized
==============================================================================
