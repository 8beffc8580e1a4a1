------------------------------- MODULE Records --------------------------------
(* The write actions of a viewset, on the Django backend (row locks taken in*)
(* key order inside one transaction, rows deleted one at a time) and on an  *)
(* in-memory collection (each action one step of the event loop), the event *)
(* that ChangeEvents publishes after each of them, and a frontend that keeps*)
(* a copy of the rows by `watch()`: it queues the events and reads the rows *)
(* they name. The database, the event log in between and the list that the  *)
(* application reloads on a resync are modelled from their use.             *)
EXTENDS Integers, Sequences, FiniteSets

CONSTANTS
    Keys, Columns, Values,
    Hidden,        \* keys of rows that get_queryset() excludes
    Unacceptable,  \* rows that the schema refuses
    WriteRequests,      \* the write calls
    Writers,       \* calls under way
    None,
    Blank,         \* the row that a create writes
    MaxFaults      \* bounds what goes wrong

RecordRows == [Columns -> Values]

(* `records` states some columns of each key; `order` is the order in which *)
(* the call names its keys, of a create the key that each new record states,*)
(* or None where it states none or one that is left out: Django gives the   *)
(* keys it assigns (_assigned_key) itself.                                  *)
UpdateRequests == [op : {"updated"}, order : Seq(Keys), records : UNION {[ks -> UNION {[cs -> Values] : cs \in SUBSET Columns}] : ks \in SUBSET Keys}]
CreateRequests == [op : {"created"}, order : Seq(Keys \cup {None})]
DeleteRequests == [op : {"deleted"}, order : Seq(Keys)]

Named(request) == Keys \cap {request.order[i] : i \in DOMAIN request.order}

(* The fetch of an event: the keys still to be read, and the rows read.     *)
Fetches == [left : SUBSET Keys, got : UNION {[ks -> RecordRows \cup {None}] : ks \in SUBSET Keys}]

ASSUME RecordsAssumption ==
    /\ Keys \subseteq Nat /\ IsFiniteSet(Keys) /\ Hidden \subseteq Keys
    /\ None \notin RecordRows \cup Fetches \cup Keys
    /\ WriteRequests \subseteq UpdateRequests \cup CreateRequests \cup DeleteRequests
    /\ \A r \in WriteRequests : r.op = "updated" => DOMAIN r.records = Named(r)
    /\ \A r \in WriteRequests : r.op # "updated" => r.order # <<>>
    /\ None \notin Writers
    /\ Blank \in RecordRows \ Unacceptable
    /\ MaxFaults \in Nat

VARIABLES
    backend,   \* "django" or "memory"
    rows,      \* rows[k]: the committed row, or None
    lock,      \* lock[k]: the transaction that holds the row, or None
    call,      \* call[w]: the write call that w runs
    log,       \* the events published, in the order of the store
    watch,     \* the frontend's copy and its queue
    faults,
    used,      \* history: the keys that have had a row
    excused    \* history: keys written without an event, or given to a second row

recordVars == <<backend, rows, lock, call, log, watch, faults, used, excused>>

(* `at` is the place in the keys of a delete, `got` the rows locked so far, *)
(* with the call's fields set, `pks` the keys of the event, `told` whether there *)
(* is a topic for it.                                                       *)
Idle == [pc |-> "idle", request |-> None, at |-> 1, got |-> <<>>, pks |-> {}, told |-> TRUE]

MaxOf(S) == IF S = {} THEN 0 ELSE CHOOSE k \in S : \A j \in S : j <= k

Acceptable(row) == row \notin Unacceptable

Visible(k) == rows[k] # None /\ k \notin Hidden

(* setattr of the fields stated: _writable_fields, without the primary key. *)
Merged(row, fields) == [c \in Columns |-> IF c \in DOMAIN fields THEN fields[c] ELSE row[c]]

Fault == faults < MaxFaults /\ faults' = faults + 1

------------------------------------------------------------------------------
(* ChangeEvents.execute: the topic is resolved before the action runs, and  *)
(* one that is missing raises then; a scope without a key runs the action   *)
(* and publishes nothing.                                                   *)

Proceed(w, r, told) ==
    call' = [call EXCEPT ![w] = [Idle EXCEPT !.pc = r.op, !.request = r, !.pks = Named(r),
                                              !.told = told]]

BeginWrite(w, r) ==
    /\ call[w].pc = "idle"
    /\ \/ Proceed(w, r, TRUE) /\ UNCHANGED faults
       \/ Proceed(w, r, FALSE) /\ Fault
       \/ call' = [call EXCEPT ![w].pc = "ended"] /\ Fault
    /\ UNCHANGED <<backend, rows, lock, log, watch, excused, used>>

Written(w) == call' = [call EXCEPT ![w].pc = "written"]

Raise(w) == call' = [call EXCEPT ![w].pc = "ended"]

(* The event goes out after the action has returned, in an order of its own;*)
(* a publish that fails raises over a write that is done.                   *)
Publish(w) ==
    /\ call[w].pc = "written"
    /\ Raise(w)
    /\ LET event == [op |-> call[w].request.op, pks |-> call[w].pks]
       IN \/ /\ call[w].told
             /\ log' = Append(log, event) /\ UNCHANGED <<faults, excused>>
          \/ /\ ~call[w].told \/ faults < MaxFaults
             /\ faults' = IF call[w].told THEN faults + 1 ELSE faults
             /\ excused' = excused \cup event.pks /\ UNCHANGED log
    /\ UNCHANGED <<backend, rows, lock, watch, used>>

------------------------------------------------------------------------------
(* The Django backend                                                       *)

(* The rows that a call has not locked yet.                                 *)
Left(w) == Named(call[w].request) \ DOMAIN call[w].got

Locking(w) == call[w].pc = "updated" /\ backend = "django" /\ Left(w) # {}

(* Mutant of NextKey: rows lock as the call names them.                     *)
NextNamed(w) ==
    LET order == call[w].request.order
    IN order[CHOOSE i \in DOMAIN order :
                 order[i] \in Left(w) /\ \A j \in 1..(i - 1) : order[j] \notin Left(w)]

(* The loop over the sorted keys of the call.                               *)
NextKey(w) == CHOOSE k \in Left(w) : \A j \in Left(w) : k <= j

(* The row as it is read, with the call's fields set.                       *)
WithRow(w, k) ==
    [j \in DOMAIN call[w].got \cup {k} |->
        IF j = k THEN Merged(rows[k], call[w].request.records[k]) ELSE call[w].got[j]]

Released(w) == [k \in Keys |-> IF lock[k] = w THEN None ELSE lock[k]]

(* Mutant of LockRow: the row is read without its lock.                     *)
ReadRow(w) ==
    /\ Locking(w)
    /\ IF Visible(NextKey(w))
       THEN call' = [call EXCEPT ![w].got = WithRow(w, NextKey(w))] /\ UNCHANGED lock
       ELSE lock' = Released(w) /\ Raise(w)
    /\ UNCHANGED <<backend, rows, log, watch, faults, used, excused>>

(* SELECT ... FOR UPDATE of the next row: waits for its lock; a row that is *)
(* not there, or not visible, ends the transaction.                         *)
LockRow(w) ==
    /\ Locking(w)
    /\ rows[NextKey(w)] # None => lock[NextKey(w)] = None
    /\ IF Visible(NextKey(w))
       THEN /\ lock' = [lock EXCEPT ![NextKey(w)] = w]
            /\ call' = [call EXCEPT ![w].got = WithRow(w, NextKey(w))]
       ELSE lock' = Released(w) /\ Raise(w)
    /\ UNCHANGED <<backend, rows, log, watch, faults, used, excused>>

(* Every row is locked and validated: all are saved, or none is.            *)
Save(w) ==
    /\ call[w].pc = "updated" /\ backend = "django" /\ ~Locking(w)
    /\ IF \A k \in DOMAIN call[w].got : Acceptable(call[w].got[k])
       THEN /\ rows' = [k \in Keys |-> IF k \in DOMAIN call[w].got THEN call[w].got[k] ELSE rows[k]]
            /\ Written(w)
       ELSE Raise(w) /\ UNCHANGED rows
    /\ lock' = Released(w)
    /\ UNCHANGED <<backend, log, watch, faults, used, excused>>

(* perform_destroy, row by row in the order of the call: the row is fetched,*)
(* then deleted, each in a transaction of its own. A row that is missing    *)
(* ends the call with those before it deleted.                              *)
Deleted(w) == {call[w].request.order[i] : i \in 1..(call[w].at - 1)}

FindRow(w) ==
    /\ call[w].pc = "deleted" /\ backend = "django"
    /\ IF Visible(call[w].request.order[call[w].at])
       THEN call' = [call EXCEPT ![w].pc = "found"] /\ UNCHANGED excused
       ELSE Raise(w) /\ excused' = excused \cup Deleted(w)
    /\ UNCHANGED <<backend, rows, lock, log, watch, faults, used>>

DeleteRow(w) ==
    /\ call[w].pc = "found"
    /\ lock[call[w].request.order[call[w].at]] = None
    /\ rows' = [rows EXCEPT ![call[w].request.order[call[w].at]] = None]
    /\ call' = [call EXCEPT ![w].at = @ + 1,
                   ![w].pc = IF call[w].at = Len(call[w].request.order) THEN "written" ELSE "deleted"]
    /\ UNCHANGED <<backend, lock, log, watch, faults, used, excused>>

------------------------------------------------------------------------------
(* An in-memory collection                                                  *)

(* The keys that the loop of a call reaches before one that is not there.   *)
Reached(request) ==
    {request.order[i] : i \in {i \in DOMAIN request.order :
        \A j \in 1..i : /\ rows[request.order[j]] # None
                        /\ request.op = "deleted" =>
                              \A h \in 1..(j - 1) : request.order[h] # request.order[j]}}

Changed(request) ==
    [k \in Keys |->
        IF k \notin Reached(request) THEN rows[k]
        ELSE IF request.op = "deleted" THEN None
        ELSE Merged(rows[k], request.records[k])]

(* What was written before a missing key stays, and is not published.       *)
WriteContainer(w) ==
    LET request == call[w].request
        reached == Reached(request)
    IN /\ call[w].pc \in {"updated", "deleted"} /\ backend = "memory"
       /\ rows' = Changed(request)
       /\ IF reached = Named(request)
          THEN Written(w) /\ UNCHANGED excused
          ELSE Raise(w) /\ excused' = excused \cup reached
       /\ UNCHANGED <<backend, lock, log, watch, faults, used>>

(* A key for a record that states none, after those added `before` it: one  *)
(* that the database has not given yet, or the container's greatest and one *)
(* (_handle_autoinc), which a deleted row may have had.                     *)
FreshKeys(before) ==
    IF backend = "django" THEN Keys \ (used \cup before)
    ELSE {k \in Keys : k = 1 + MaxOf({j \in Keys : rows[j] # None} \cup before)}

(* The keys that the records of a create may be given, one after the other. *)
NewKeys(request) ==
    {given \in [DOMAIN request.order -> Keys] :
        \A i \in DOMAIN given :
            IF request.order[i] # None THEN given[i] = request.order[i]
            ELSE given[i] \in FreshKeys({given[j] : j \in 1..(i - 1)})}

(* The database refuses a key that it has already.                          *)
Clash(given) ==
    \E i \in DOMAIN given : rows[given[i]] # None \/ \E j \in 1..(i - 1) : given[j] = given[i]

(* All the records of a create, or none (bulk_create is one transaction). A *)
(* mapping in memory keeps the last record of a key.                        *)
Create(w) ==
    /\ call[w].pc = "created"
    /\ \E given \in NewKeys(call[w].request) :
          LET added == {given[i] : i \in DOMAIN given}
          IN IF backend = "django" /\ Clash(given)
             THEN Raise(w) /\ UNCHANGED <<rows, used, excused>>
             ELSE /\ rows' = [k \in Keys |-> IF k \in added THEN Blank ELSE rows[k]]
                  /\ used' = used \cup added
                  /\ excused' = excused \cup {k \in added \cap used : rows[k] = None}
                  /\ call' = [call EXCEPT ![w].pc = "written", ![w].pks = added]
    /\ UNCHANGED <<backend, lock, log, watch, faults>>

------------------------------------------------------------------------------
(* The frontend: watchRecords                                               *)

Resync == [op |-> "resync", pks |-> {}]

(* The client hands on the events of the log in order, or finds that it has *)
(* missed some and asks for a reload.                                       *)
OnEvent ==
    /\ watch.next <= Len(log)
    /\ \/ watch' = [watch EXCEPT !.next = @ + 1, !.queue = Append(@, log[watch.next])]
          /\ UNCHANGED faults
       \/ watch' = [watch EXCEPT !.next = Len(log) + 1, !.queue = Append(@, Resync)]
          /\ Fault
    /\ UNCHANGED <<backend, rows, lock, call, log, excused, used>>

(* Mutant of Steps: what is queued is handed on after unsubscribe().        *)
StepsThough == watch.fetching = None /\ watch.queue # <<>>

(* Mutant of Steps: an event does not wait for the fetch of the one before. *)
StepsAtOnce == ~watch.stopped /\ watch.queue # <<>>

(* One queued step at a time; after unsubscribe() none runs.                *)
Steps == ~watch.stopped /\ watch.fetching = None /\ watch.queue # <<>>

Reloaded == [watch EXCEPT !.copy = [k \in Keys |-> IF Visible(k) THEN rows[k] ELSE None], !.fetching = None]

TakeEvent ==
    /\ Steps
    /\ LET event == Head(watch.queue)
           taken == [watch EXCEPT !.queue = Tail(@)]
       IN watch' = CASE event.op = "resync" -> [Reloaded EXCEPT !.queue = Tail(@)]
                     [] event.op = "deleted" ->
                          [taken EXCEPT !.copy = [k \in Keys |-> IF k \in event.pks THEN None ELSE @[k]]]
                     [] OTHER -> [taken EXCEPT !.fetching = [left |-> event.pks, got |-> <<>>]]
    /\ UNCHANGED <<backend, rows, lock, call, log, faults, used, excused>>

(* The retrieves of an event are answered one by one, a 404 as gone; one    *)
(* `fetch(pks)` call reads all of them at once.                             *)
Retrieve ==
    /\ watch.fetching # None /\ watch.fetching.left # {}
    /\ \E ks \in IF watch.fetch = "rows" THEN {watch.fetching.left}
                 ELSE {{k} : k \in watch.fetching.left} :
          watch' = [watch EXCEPT !.fetching =
              [left |-> watch.fetching.left \ ks,
               got |-> [k \in DOMAIN watch.fetching.got \cup ks |->
                  IF k \notin ks THEN watch.fetching.got[k] ELSE IF Visible(k) THEN rows[k] ELSE None]]]
    /\ UNCHANGED <<backend, rows, lock, call, log, faults, used, excused>>

(* `complete`: the rows found replace the copy's, the ones gone leave it; a *)
(* failed fetch becomes a resync.                                           *)
Complete ==
    /\ watch.fetching # None
    /\ \/ /\ watch.fetching.left = {}
          /\ watch' = [watch EXCEPT
                 !.copy = [k \in Keys |-> IF watch.stopped \/ k \notin DOMAIN watch.fetching.got
                                          THEN @[k] ELSE watch.fetching.got[k]],
                 !.fetching = None]
          /\ UNCHANGED faults
       \/ /\ watch' = IF watch.stopped THEN [watch EXCEPT !.fetching = None] ELSE Reloaded
          /\ Fault
    /\ UNCHANGED <<backend, rows, lock, call, log, excused, used>>

Unsubscribe ==
    /\ ~watch.stopped /\ Fault
    /\ watch' = [watch EXCEPT !.stopped = TRUE]
    /\ UNCHANGED <<backend, rows, lock, call, log, excused, used>>

------------------------------------------------------------------------------
RecordsInit ==
    /\ backend \in {"django", "memory"}
    /\ rows \in [Keys -> {None} \cup (RecordRows \ Unacceptable)]
    /\ lock = [k \in Keys |-> None]
    /\ call = [w \in Writers |-> Idle]
    /\ log = <<>>
    /\ watch \in [copy : {[k \in Keys |-> IF Visible(k) THEN rows[k] ELSE None]}, queue : {<<>>},
                  next : {1}, fetching : {None}, fetch : {"each", "rows"}, stopped : {FALSE}]
    /\ faults = 0 /\ used = {k \in Keys : rows[k] # None} /\ excused = {}

Writes(w) ==
    \/ \E r \in WriteRequests : BeginWrite(w, r)
    \/ LockRow(w) \/ Save(w) \/ FindRow(w) \/ DeleteRow(w) \/ Create(w) \/ WriteContainer(w)
    \/ Publish(w)

RecordsNext ==
    \/ \E w \in Writers : Writes(w)
    \/ OnEvent \/ TakeEvent \/ Retrieve \/ Complete \/ Unsubscribe

RecordsSpec == RecordsInit /\ [][RecordsNext]_recordVars

------------------------------------------------------------------------------
(* Every variable has its type; only a transaction under way holds locks.   *)
RecordsTypeOK ==
    /\ backend \in {"django", "memory"}
    /\ rows \in [Keys -> RecordRows \cup {None}]
    /\ lock \in [Keys -> Writers \cup {None}]
    /\ \A w \in Writers :
          /\ call[w].pc \in {"idle", "updated", "deleted", "created", "found", "written", "ended"}
          /\ call[w].request \in WriteRequests \cup {None}
          /\ call[w].pks \subseteq Keys /\ call[w].told \in BOOLEAN
          /\ DOMAIN call[w].got \subseteq Keys
    /\ \A k \in Keys : lock[k] # None => call[lock[k]].pc = "updated" /\ k \in DOMAIN call[lock[k]].got
    /\ used \subseteq Keys /\ excused \subseteq Keys
    /\ faults \in 0..MaxFaults

(* Overlapping bulk updates never wait for each other in a circle: of the   *)
(* calls that lock rows one at a time, one can always go on, whatever order *)
(* each call named its rows in (django_orm.py 257, "Rows lock in key order  *)
(* so overlapping bulk updates do not deadlock").                           *)
Blocked(w) == Visible(NextKey(w)) /\ lock[NextKey(w)] # None

NoLockCycle ==
    (\E w \in Writers : Locking(w)) =>
        \E w \in Writers : call[w].pc = "updated" /\ (Locking(w) => ~Blocked(w))

(* A rule over several fields holds of the rows that end up stored, however *)
(* the updates of its fields interleave (docs/guide/list-pipeline.md:407).  *)
StoredRowsAreAcceptable ==
    backend = "django" => \A k \in Keys : rows[k] # None => Acceptable(rows[k])

(* Every successful write takes effect at one moment, on the rows as they   *)
(* are then: an update reverts no field that it does not state, and is      *)
(* written as a whole or, where it raises, not at all (django_orm.py 252).  *)
WriteTable ==
    INSTANCE RecordTable WITH tbl <- rows, whole <- (backend = "django"),
                              Updates <- {r.records : r \in {r \in WriteRequests : r.op = "updated"}}

WritesAreAtomic == WriteTable!TableSpec

(* A frontend that keeps up has the rows of the table: when no call is under*)
(* way and every event has been handed on, its copy differs only where a    *)
(* write went without its event (a publish that failed, a bulk call that    *)
(* raised half way), or where a key was given to a second row. In whatever  *)
(* order the events of two calls are published, and whatever the rows became*)
(* while a fetch was under way (changes.py 160-180, changes.ts 206-251).    *)
WatchConverges ==
    /\ \A w \in Writers : call[w].pc \in {"idle", "ended"}
    /\ watch.next > Len(log) /\ watch.queue = <<>> /\ watch.fetching = None
    /\ ~watch.stopped
    => \A k \in Keys \ (Hidden \cup excused) : watch.copy[k] = rows[k]

(* No callback after unsubscribe(), also for an event that arrived before   *)
(* it or is being fetched (changes.ts 143-145).                             *)
NoCallbackAfterUnsubscribe == [][watch.stopped => watch'.copy = watch.copy]_recordVars
=============================================================================
