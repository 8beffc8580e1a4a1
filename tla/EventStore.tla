------------------------------ MODULE EventStore ------------------------------
(***************************************************************************)
(* One topic of the event store (fastapi_viewsets/events/store.py and      *)
(* redis.py) and the `poll` of the events viewset (viewset.py) that reads  *)
(* it. Events are appended by several processes, each with its own clock,  *)
(* since `append` sends the caller's time to Redis. A poll reads the store *)
(* in three commands, MGET of the revs, GET of the rev and LRANGE of the   *)
(* log, and anything may happen between two of them; a MemoryEventStore    *)
(* answers the last two at once, which is one of the interleavings.        *)
(*                                                                         *)
(* The log is a set: revs order it. LRANGE and the loop over it that       *)
(* collects from the newest entry to the one whose `prev` is the cursor    *)
(* are `Since`.                                                            *)
(***************************************************************************)
EXTENDS Integers, FiniteSets, FiniteSetsExt

CONSTANTS
    Procs,      \* the publishing processes
    Polls,      \* the pollers; each polls again and again
    LogSize,    \* viewsets_event_log_size
    MaxRev,     \* MAX_REV
    MaxClock,   \* bound: the clocks stop here
    MaxDrops,   \* bound: how often the counter is dropped or lost
    CalmDrops,  \* a counter is lost only while every clock is past its rev
    NoCursor    \* a null cursor

ASSUME EventStoreAssumption ==
    /\ LogSize \in Nat /\ MaxRev \in Nat \ {0} /\ MaxClock \in Nat \ {0} /\ MaxDrops \in Nat
    /\ CalmDrops \in BOOLEAN
    /\ NoCursor \notin Nat

VARIABLES
    clock,      \* clock[p]: `_now_ms()` of process p
    rev,        \* the counter `rev:{topic}`, 0 without one
    log,        \* the entries of `log:{topic}`
    pc,         \* pc[q]: the command poll q sends next
    cursor,     \* cursor[q]: the rev the poll carries
    seen,       \* seen[q]: what `revs` answered it
    answer,     \* answer[q]: the `TopicAnswer`
    asked,      \* history: the rev and the drops when the poll was sent
    ever,       \* history: every event appended
    drops       \* history: how often the counter was dropped or lost

store == <<rev, log, ever, drops>>
poll  == <<pc, cursor, seen, answer, asked>>
vars  == <<clock, store, poll>>

Revs == 0 .. (MaxRev - 1)

(* `shown`: the delivery filters let the poller have the event. *)
Events == [rev : Revs, prev : Revs, shown : {"yes", "no"}]

Answers == [kind : {"none", "events", "null"}, rev : Revs, events : SUBSET Revs]

Init ==
    /\ clock \in [Procs -> {1}]
    /\ rev = 0 /\ log = {} /\ ever = {} /\ drops = 0
    /\ pc = [q \in Polls |-> "idle"]
    /\ cursor = [q \in Polls |-> NoCursor]
    /\ seen = [q \in Polls |-> 0]
    /\ answer = [q \in Polls |-> [kind |-> "none", rev |-> 0, events |-> {}]]
    /\ asked = [q \in Polls |-> [rev |-> 0, drops |-> 0]]

-----------------------------------------------------------------------------
(* The store                                                                *)

Tick(p) ==
    /\ clock[p] < MaxClock
    /\ clock' = [clock EXCEPT ![p] = @ + 1]
    /\ UNCHANGED <<store, poll>>

(* Mutant of NextRev: the clock alone. *)
ClockRev(p) == clock[p]

(* `next_rev`, and the first lines of _APPEND_SCRIPT. *)
NextRev(p) == IF clock[p] > rev THEN clock[p] ELSE rev + 1

(* LTRIM: the newest `LogSize` entries. *)
Trim(S) == {e \in S : Cardinality({f \in S : f.rev > e.rev}) < LogSize}

(* `append`; at MAX_REV it raises and changes nothing. *)
Append(p, shown) ==
    LET event == [rev |-> NextRev(p), prev |-> rev, shown |-> shown] IN
    /\ NextRev(p) < MaxRev
    /\ rev' = event.rev
    /\ log' = Trim(log \cup {event})
    /\ ever' = ever \cup {event}
    /\ UNCHANGED <<clock, drops, poll>>

(* The log's TTL is over; the counter stays. *)
Expire ==
    /\ log # {}
    /\ log' = {}
    /\ UNCHANGED <<clock, rev, ever, drops, poll>>

(* `drop`, or a Redis that lost the counter with the log. *)
Drop ==
    /\ rev # 0 /\ drops < MaxDrops
    /\ CalmDrops => \A p \in Procs : clock[p] > rev
    /\ rev' = 0 /\ log' = {}
    /\ drops' = drops + 1
    /\ UNCHANGED <<clock, ever, poll>>

-----------------------------------------------------------------------------
(* `poll`                                                                   *)

(* A poller holds a rev it was given, by an event, or by an answer while    *)
(* the topic had none (0), or holds nothing yet.                            *)
Ask(q) ==
    /\ pc[q] \in {"idle", "done"}
    /\ \E c \in {NoCursor, 0} \cup {e.rev : e \in ever} :
           cursor' = [cursor EXCEPT ![q] = c]
    /\ pc' = [pc EXCEPT ![q] = "revs"]
    /\ answer' = [answer EXCEPT ![q] = [kind |-> "none", rev |-> 0, events |-> {}]]
    /\ asked' = [asked EXCEPT ![q] = [rev |-> rev, drops |-> drops]]
    /\ seen' = [seen EXCEPT ![q] = 0]
    /\ UNCHANGED <<clock, store>>

Answer(q, kind, r, events) ==
    /\ answer' = [answer EXCEPT ![q] = [kind |-> kind, rev |-> r, events |-> events]]
    /\ pc' = [pc EXCEPT ![q] = "done"]

(* MGET: a null cursor and one that is current are answered at once. *)
ReadRevs(q) ==
    /\ pc[q] = "revs"
    /\ seen' = [seen EXCEPT ![q] = rev]
    /\ IF cursor[q] \in {NoCursor, rev}
         THEN Answer(q, "events", rev, {})
         ELSE pc' = [pc EXCEPT ![q] = "since"] /\ UNCHANGED answer
    /\ UNCHANGED <<clock, store, cursor, asked>>

(* The GET in `since`. *)
ReadRev(q) ==
    /\ pc[q] = "since"
    /\ IF cursor[q] = rev
         THEN Answer(q, "events", seen[q], {})
         ELSE pc' = [pc EXCEPT ![q] = "log"] /\ UNCHANGED answer
    /\ UNCHANGED <<clock, store, cursor, seen, asked>>

(* Mutant of Since: what the log has after the cursor. *)
NewerThan(after) == {e \in log : e.rev > after}

(* The entry whose `prev` is the cursor, and every newer one. *)
Since(after) == {e \in log : \E f \in log : f.prev = after /\ f.rev <= e.rev}

(* Mutant of AnswerRev: the newest event that passed the filters. *)
ShownRev(q, logged) == Max({0} \cup {e.rev : e \in {f \in logged : f.shown = "yes"}})

(* `max([rev, *(e.rev for e in logged)])` *)
AnswerRev(q, logged) == Max({seen[q]} \cup {e.rev : e \in logged})

(* LRANGE, and the answer. *)
ReadLog(q) ==
    LET logged == Since(cursor[q]) IN
    /\ pc[q] = "log"
    /\ IF logged = {}
         THEN Answer(q, "null", seen[q], {})
         ELSE Answer(q, "events", AnswerRev(q, logged), {e.rev : e \in {f \in logged : f.shown = "yes"}})
    /\ UNCHANGED <<clock, store, cursor, seen, asked>>

-----------------------------------------------------------------------------
Next ==
    \/ \E p \in Procs : Tick(p) \/ \E shown \in {"yes", "no"} : Append(p, shown)
    \/ Expire \/ Drop
    \/ \E q \in Polls : Ask(q) \/ ReadRevs(q) \/ ReadRev(q) \/ ReadLog(q)

Spec == Init /\ [][Next]_vars

-----------------------------------------------------------------------------
(* Properties                                                               *)

TypeOK ==
    /\ clock \in [Procs -> 1 .. MaxClock]
    /\ rev \in Revs /\ log \subseteq Events /\ ever \subseteq Events /\ drops \in 0 .. MaxDrops
    /\ pc \in [Polls -> {"idle", "revs", "since", "log", "done"}]
    /\ cursor \in [Polls -> Revs \cup {NoCursor}]
    /\ seen \in [Polls -> Revs]
    /\ answer \in [Polls -> Answers]
    /\ asked \in [Polls -> [rev : Revs, drops : 0 .. MaxDrops]]

After(c, r) == {e.rev : e \in {f \in ever : f.shown = "yes" /\ c < f.rev /\ f.rev <= r}}

Given(q) == answer[q].kind = "events" /\ cursor[q] # NoCursor

(* An answer with events holds exactly the events the poller may have       *)
(* between its cursor and the answer's rev, whatever is appended, trimmed,  *)
(* expired or dropped between the three reads. The exception is a cursor 0  *)
(* on a topic whose counter was lost.                                       *)
NothingSkipped ==
    \A q \in Polls : Given(q) /\ (cursor[q] # 0 \/ drops = 0) =>
        answer[q].events = After(cursor[q], answer[q].rev)

(* An answer is no older than its poll: its rev covers every event appended *)
(* before the poll was sent.                                                *)
AnswerIsCurrent ==
    \A q \in Polls : pc[q] = "done" /\ asked[q].drops = drops => answer[q].rev >= asked[q].rev

(* docs/guide/events.md: a rev is larger than every rev issued before the   *)
(* topic's counter was lost or dropped.                                     *)
RevsGrow == [][\A e \in ever' \ ever : \A f \in ever : f.rev < e.rev]_vars

-----------------------------------------------------------------------------
(* The inductive invariant behind NothingSkipped                            *)

(* What a counter restarts from is past every rev issued. *)
Fresh ==
    /\ rev # 0 => \A e \in ever : e.rev <= rev
    /\ rev = 0 => \A e \in ever, p \in Procs : e.rev < clock[p]
    /\ drops = 0 /\ rev = 0 => ever = {}

Distinct == \A e, f \in ever : e.rev = f.rev => e = f

(* The log holds the newest events, the very newest included, and none is   *)
(* missing between an entry and its `prev`.                                 *)
Chained ==
    /\ log \subseteq ever /\ IsFiniteSet(log)
    /\ \A e \in ever : e.prev < e.rev
    /\ log # {} => rev # 0 /\ \E e \in log : e.rev = rev
    /\ \A e \in log, g \in ever : g.rev > e.rev => g \in log
    /\ \A e \in log, g \in ever : e.prev # 0 \/ drops = 0 => g.rev <= e.prev \/ e.rev <= g.rev

Issued(r) == r = 0 \/ \E e \in ever : r <= e.rev

PollsKnow ==
    /\ Issued(rev)
    /\ \A q \in Polls : Issued(seen[q]) /\ Issued(answer[q].rev)

IInv == TypeOK /\ Fresh /\ Distinct /\ Chained /\ PollsKnow /\ NothingSkipped
=============================================================================
