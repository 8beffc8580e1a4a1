------------------------------ MODULE CeleryCall ------------------------------
(***************************************************************************)
(* Calls of a celery_viewset action                                        *)
(* (fastapi_viewsets/decorators/celery_viewset/): the wrapper that sends   *)
(* the task and awaits its future (client.py), the reader that resolves    *)
(* the futures from this process's Redis list (result_reader.py), and the  *)
(* prefork worker, whose child runs the task and pushes the outcome and    *)
(* whose supervisor reports what ends an execution from outside            *)
(* (server.py). One task_prefix, one FastAPI process.                      *)
(*                                                                         *)
(* A payload is the call it is for and what it says: "result", "error"     *)
(* (what the action raised, or ActionFailedError), "interrupted",          *)
(* "not_run" (ActionDispatchError from the worker) or "failed" (reason     *)
(* `executor`).                                                            *)
(***************************************************************************)
EXTENDS Naturals, Sequences, FiniteSets

CONSTANTS
    Calls,
    Readers,    \* bound: the reader tasks ever started
    NoReader,   \* _reader_tasks has no entry
    NoCall,     \* the reader holds no payload
    MaxFaults,  \* bound: how often Redis, the broker or the reader fails or stops
    MaxCuts     \* bound: how often a call or an execution is cut off

ASSUME CeleryAssumption ==
    NoReader \notin Readers /\ NoCall \notin Calls /\ MaxFaults \in Nat /\ MaxCuts \in Nat

VARIABLES
    pc,         \* where the wrapper of a call is
    answer,     \* the state of its future and, once it ended, what the caller got
    thread,     \* the worker thread that runs send_task
    pending,    \* _pending_futures
    registered, \* _reader_tasks[queue_key]
    task,       \* the state of each reader task
    cancelled,  \* the reader tasks with a cancellation under way
    popped,     \* the payload a reader task has popped and not yet resolved
    stops,      \* the tasks a stop_result_reader awaits
    queue,      \* the Redis list of this process
    work,       \* the execution of a call in the worker
    reported,   \* _reported, per process of the worker
    first,      \* history: the first payload pushed for a call
    dropped,    \* history: calls with a payload nobody got, or none pushed
    faults, cuts

client == <<pc, answer, thread, pending>>
reading == <<registered, task, cancelled, popped, stops>>
worker == <<work, reported>>
vars == <<client, reading, queue, worker, first, dropped, faults, cuts>>

Said == {"result", "error", "interrupted", "not_run", "failed"}
Payloads == [call : Calls, says : Said]
Payload(c, o) == [call |-> c, says |-> o]
NoPayload == Payload(NoCall, "result")
Unknown == {"timeout", "stopped", "cancelled", "died"}
Answers == {"pending", "serialization", "send"} \cup Said \cup Unknown

Init ==
    /\ pc = [c \in Calls |-> "idle"]
    /\ answer = [c \in Calls |-> "pending"]
    /\ thread = [c \in Calls |-> "none"]
    /\ pending = {}
    /\ registered = NoReader
    /\ task = [r \in Readers |-> "none"]
    /\ cancelled = {} /\ stops = {}
    /\ popped = [r \in Readers |-> NoPayload]
    /\ queue = << >>
    /\ work = [c \in Calls |-> "none"]
    /\ reported = {}
    /\ first = [c \in Calls |-> "none"]
    /\ dropped = {} /\ faults = 0 /\ cuts = 0

Fault == faults < MaxFaults /\ faults' = faults + 1
Cut == cuts < MaxCuts /\ cuts' = cuts + 1

-----------------------------------------------------------------------------
(* The wrapper: async_client_wrapper                                        *)

Goto(c, l) == pc' = [pc EXCEPT ![c] = l]

(* The wrapper returns or raises; its `finally` takes the future out. *)
Ends(c, o) ==
    /\ Goto(c, "ended")
    /\ answer' = [answer EXCEPT ![c] = o]
    /\ pending' = pending \ {c}

(* The future is registered before anything is awaited: deferred context    *)
(* values and the encoding of the arguments follow.                         *)
Register(c) ==
    /\ pc[c] = "idle"
    /\ Goto(c, "encoding")
    /\ pending' = pending \cup {c}
    /\ UNCHANGED <<answer, thread, reading, queue, worker, first, dropped, faults, cuts>>

(* They are encoded, or an await raised. *)
Encoded(c) ==
    /\ pc[c] = "encoding"
    /\ \/ /\ Goto(c, "sending")
          /\ thread' = [thread EXCEPT ![c] = "sending"]
          /\ UNCHANGED <<answer, pending>>
       \/ Ends(c, "serialization") /\ UNCHANGED thread
    /\ UNCHANGED <<reading, queue, worker, first, dropped, faults, cuts>>

(* send_task in its thread, which a cancellation of the call does not stop. *)
(* It may raise although the broker has the message.                        *)
SendTask(c) ==
    /\ thread[c] = "sending"
    /\ \/ /\ thread' = [thread EXCEPT ![c] = "sent"]
          /\ work' = [work EXCEPT ![c] = "queued"]
          /\ UNCHANGED faults
       \/ /\ thread' = [thread EXCEPT ![c] = "raised"]
          /\ UNCHANGED <<work, faults>>
       \/ /\ Fault
          /\ thread' = [thread EXCEPT ![c] = "raised"]
          /\ work' = [work EXCEPT ![c] = "queued"]
    /\ UNCHANGED <<pc, answer, pending, reading, queue, reported, first, dropped, cuts>>

(* Back from the thread: the `dispatched` listeners are awaited before the  *)
(* future is.                                                               *)
Sent(c) ==
    /\ pc[c] = "sending"
    /\ \/ thread[c] = "sent" /\ Goto(c, "listeners") /\ UNCHANGED <<answer, pending>>
       \/ thread[c] = "raised" /\ Ends(c, "send")
    /\ UNCHANGED <<thread, reading, queue, worker, first, dropped, faults, cuts>>

Listened(c) ==
    /\ pc[c] = "listeners"
    /\ Goto(c, "waiting")
    /\ UNCHANGED <<answer, thread, pending, reading, queue, worker, first, dropped, faults, cuts>>

(* wait_for returns what the future holds, or raises it. *)
Answered(c) ==
    /\ pc[c] = "waiting" /\ answer[c] # "pending"
    /\ Ends(c, answer[c])
    /\ UNCHANGED <<thread, reading, queue, worker, first, dropped, faults, cuts>>

(* `result_timeout` has passed: wait_for cancels the future, and the        *)
(* wrapper resumes later.                                                   *)
GivesUp(c) ==
    /\ Cut
    /\ pc[c] = "waiting" /\ answer[c] = "pending"
    /\ answer' = [answer EXCEPT ![c] = "timeout"]
    /\ UNCHANGED <<pc, thread, pending, reading, queue, worker, first, dropped, faults>>

(* A cancellation of the wrapper. *)
Cancel(c) ==
    /\ Cut
    /\ pc[c] \in {"encoding", "sending", "listeners", "waiting"}
    /\ Ends(c, "cancelled")
    /\ UNCHANGED <<thread, reading, queue, worker, first, dropped, faults>>

-----------------------------------------------------------------------------
(* The reader                                                               *)

Running == {"created", "reading"}
ReaderRuns == \E r \in Readers : registered = r /\ task[r] \in Running

(* Mutant of Start: the task that runs is not asked for. *)
StartAnother ==
    \E r \in Readers :
        /\ task[r] = "none"
        /\ task' = [task EXCEPT ![r] = "created"]
        /\ registered' = r
        /\ UNCHANGED <<client, cancelled, popped, stops, queue, worker, first, dropped, faults, cuts>>

(* start_result_reader: one task at a time, by the registry. *)
Start ==
    /\ ~ReaderRuns
    /\ \E r \in Readers :
        /\ task[r] = "none"
        /\ task' = [task EXCEPT ![r] = "created"]
        /\ registered' = r
    /\ UNCHANGED <<client, cancelled, popped, stops, queue, worker, first, dropped, faults, cuts>>

(* Mutant of FailPending: the entries go, their futures stay as they are. *)
ForgetPending == pending' = {} /\ UNCHANGED answer

(* _fail_pending_futures *)
FailPending ==
    /\ pending' = {}
    /\ answer' = [c \in Calls |-> IF c \in pending /\ answer[c] = "pending" THEN "stopped" ELSE answer[c]]

(* stop_result_reader: the task leaves the registry and is cancelled (what  *)
(* it has popped is lost); a task that has ended is not awaited.            *)
Stop ==
    /\ Fault
    /\ registered' = NoReader
    /\ IF ReaderRuns
         THEN /\ cancelled' = cancelled \cup {registered}
              /\ stops' = stops \cup {registered}
              /\ dropped' = dropped \cup ({popped[registered].call} \cap Calls)
              /\ UNCHANGED client
         ELSE FailPending /\ UNCHANGED <<pc, thread, cancelled, stops, dropped>>
    /\ UNCHANGED <<task, popped, queue, worker, first, cuts>>

(* ... and its last step, after the await. *)
Stopped(r) ==
    /\ r \in stops /\ task[r] = "ended"
    /\ stops' = stops \ {r}
    /\ FailPending
    /\ UNCHANGED <<pc, thread, registered, task, cancelled, popped, queue, worker, first, dropped, faults, cuts>>

(* The first step of the task. *)
Begin(r) ==
    /\ task[r] = "created" /\ r \notin cancelled
    /\ task' = [task EXCEPT ![r] = "reading"]
    /\ UNCHANGED <<client, registered, cancelled, popped, stops, queue, worker, first, dropped, faults, cuts>>

(* LPOP runs in Redis; its reply is on the way. *)
Pop(r) ==
    /\ task[r] = "reading" /\ r \notin cancelled
    /\ popped[r] = NoPayload /\ queue # << >>
    /\ popped' = [popped EXCEPT ![r] = Head(queue)]
    /\ queue' = Tail(queue)
    /\ UNCHANGED <<client, registered, task, cancelled, stops, worker, first, dropped, faults, cuts>>

(* The payload is read: its future is taken out and resolved, unless it is  *)
(* done; a payload for no pending future is logged.                         *)
Resolve(c, o) ==
    /\ pending' = pending \ {c}
    /\ answer' = [answer EXCEPT ![c] = IF c \in pending /\ @ = "pending" THEN o ELSE @]

Deliver(r) ==
    /\ popped[r] # NoPayload /\ r \notin cancelled
    /\ popped' = [popped EXCEPT ![r] = NoPayload]
    /\ Resolve(popped[r].call, popped[r].says)
    /\ UNCHANGED <<pc, thread, registered, task, cancelled, stops, queue, worker, first, dropped, faults, cuts>>

(* The reply of the LPOP is lost with its connection. The loop logs and     *)
(* goes on.                                                                 *)
PopRaises(r) ==
    /\ Fault
    /\ popped[r] # NoPayload /\ r \notin cancelled
    /\ popped' = [popped EXCEPT ![r] = NoPayload]
    /\ dropped' = dropped \cup {popped[r].call}
    /\ UNCHANGED <<client, registered, task, cancelled, stops, queue, worker, first, cuts>>

(* The cancelled task ends; the `finally` of the loop runs only if the task *)
(* ever took a step.                                                        *)
Unwind(r) ==
    /\ r \in cancelled /\ task[r] \in Running
    /\ task' = [task EXCEPT ![r] = "ended"]
    /\ popped' = [popped EXCEPT ![r] = NoPayload]
    /\ IF task[r] = "reading" THEN FailPending ELSE UNCHANGED <<pending, answer>>
    /\ UNCHANGED <<pc, thread, registered, cancelled, stops, queue, worker, first, dropped, faults, cuts>>

(* RESULT_QUEUE_TTL after its last push, the list is gone. *)
QueueExpires ==
    /\ Fault
    /\ queue # << >>
    /\ queue' = << >>
    /\ dropped' = dropped \cup {queue[i].call : i \in DOMAIN queue}
    /\ UNCHANGED <<client, reading, worker, first, cuts>>

(* The FastAPI process dies; the next one has its list when it has its      *)
(* hostname and pid (a container's).                                        *)
Restart ==
    /\ Fault
    /\ pc' = [c \in Calls |-> IF pc[c] = "idle" THEN "idle" ELSE "ended"]
    /\ answer' = [c \in Calls |-> IF pc[c] \in {"idle", "ended"} THEN answer[c] ELSE "died"]
    /\ thread' = [c \in Calls |-> IF thread[c] = "sending" THEN "raised" ELSE thread[c]]
    /\ pending' = {}
    /\ registered' = NoReader
    /\ task' = [r \in Readers |-> IF task[r] \in Running THEN "ended" ELSE task[r]]
    /\ popped' = [r \in Readers |-> NoPayload]
    /\ stops' = {}
    /\ UNCHANGED <<cancelled, queue, worker, first, dropped, cuts>>

-----------------------------------------------------------------------------
(* The worker                                                               *)

(* Mutant of Enqueue: the payload goes to the head of the list.             *)
EnqueueFirst(c, o) ==
    /\ queue' = <<Payload(c, o)>> \o queue
    /\ first' = [first EXCEPT ![c] = IF @ = "none" THEN o ELSE @]

(* RPUSH *)
Enqueue(c, o) ==
    /\ queue' = Append(queue, Payload(c, o))
    /\ first' = [first EXCEPT ![c] = IF @ = "none" THEN o ELSE @]

(* push_payload: RPUSH, then EXPIRE. When it raises, the payload may be on  *)
(* the list all the same (`pushed`).                                        *)
Push(c, o) == Enqueue(c, o) /\ UNCHANGED <<dropped, faults>>

PushRaises(c, o) ==
    /\ Fault
    /\ \/ Enqueue(c, o) /\ UNCHANGED dropped
       \/ dropped' = dropped \cup {c} /\ UNCHANGED <<queue, first>>

WorkGoes(c, s) == work' = [work EXCEPT ![c] = s]

(* The child starts the task; it was acknowledged, and is never delivered   *)
(* again.                                                                   *)
Take(c) ==
    /\ work[c] = "queued"
    /\ WorkGoes(c, "running")
    /\ UNCHANGED <<client, reading, queue, reported, first, dropped, faults, cuts>>

(* The action returned and its result is encoded: the payload is pushed.    *)
(* When the push raises, `_fail` follows.                                   *)
Returns(c) ==
    /\ work[c] = "running"
    /\ \/ Push(c, "result") /\ WorkGoes(c, "returning")
       \/ PushRaises(c, "result") /\ WorkGoes(c, "failing")
    /\ UNCHANGED <<client, reading, reported, cuts>>

(* The action raised, its arguments or its result could not be coded. *)
Raises(c) ==
    /\ work[c] = "running"
    /\ WorkGoes(c, "failing")
    /\ UNCHANGED <<client, reading, queue, reported, first, dropped, faults, cuts>>

(* `_fail` pushes the error; what that push raises leaves the task. *)
Fail(c) ==
    /\ work[c] = "failing"
    /\ Push(c, "error") \/ PushRaises(c, "error")
    /\ WorkGoes(c, "returning")
    /\ UNCHANGED <<client, reading, reported, cuts>>

(* SIGTERM in the child: the execution unwinds as SystemExit and `_fail`    *)
(* pushes for it, under a supervisor as well.                               *)
Exit(c) ==
    /\ Cut
    /\ work[c] = "running"
    /\ Push(c, "interrupted") \/ PushRaises(c, "interrupted")
    /\ WorkGoes(c, "dead")
    /\ UNCHANGED <<client, reading, reported>>

(* The supervisor has the child's return. *)
HandedIn(c) ==
    /\ work[c] = "returning"
    /\ WorkGoes(c, "ended")
    /\ UNCHANGED <<client, reading, queue, reported, first, dropped, faults, cuts>>

InChild == {"running", "failing", "returning"}

(* The child is killed, or exits for good. *)
Die(c) ==
    /\ Cut
    /\ work[c] \in InChild
    /\ WorkGoes(c, "dead")
    /\ UNCHANGED <<client, reading, queue, reported, first, dropped, faults>>

(* Mutant of Report: the transition alone. *)
ReportSilently(p, c, o) ==
    /\ <<p, c>> \notin reported
    /\ reported' = reported \cup {<<p, c>>}
    /\ UNCHANGED <<queue, first, dropped, faults>>

(* `_report`: once per call and process; a push that raises is logged, and  *)
(* the transition is submitted either way.                                  *)
Report(p, c, o) ==
    /\ <<p, c>> \notin reported
    /\ reported' = reported \cup {<<p, c>>}
    /\ Push(c, o) \/ PushRaises(c, o)

(* task_revoked, task_unknown, task_rejected: the task will not run. *)
NotRun(c) ==
    /\ work[c] = "queued"
    /\ Report("supervisor", c, "not_run")
    /\ WorkGoes(c, "ended")
    /\ UNCHANGED <<client, reading, cuts>>

(* task_failure with TimeLimitExceeded or WorkerLostError, task_revoked of  *)
(* a terminated task: the supervisor has no return of the child. It kills   *)
(* the child afterwards, if it still runs.                                  *)
Interrupt(c) ==
    /\ \/ work[c] \in InChild /\ Cut
       \/ work[c] = "dead" /\ UNCHANGED cuts
    /\ Report("supervisor", c, "interrupted")
    /\ UNCHANGED <<client, reading, work>>

(* task_internal_error, in the child: the machinery around the execution    *)
(* failed, before it or after it.                                           *)
InternalError(c) ==
    /\ Cut
    /\ work[c] \in {"running", "returning"}
    /\ Report("child", c, "failed")
    /\ WorkGoes(c, "ended")
    /\ UNCHANGED <<client, reading>>

(* The broker or the worker loses the message. *)
MessageLost(c) ==
    /\ Fault
    /\ work[c] = "queued"
    /\ WorkGoes(c, "ended")
    /\ dropped' = dropped \cup {c}
    /\ UNCHANGED <<client, reading, queue, reported, first, cuts>>

-----------------------------------------------------------------------------
Call(c) == Register(c) \/ Encoded(c) \/ Sent(c) \/ Listened(c) \/ Answered(c)
Read(r) == Begin(r) \/ Pop(r) \/ Deliver(r) \/ Unwind(r)
Execute(c) == Returns(c) \/ Raises(c) \/ Fail(c) \/ HandedIn(c)
Work(c) ==
    \/ Take(c) \/ Execute(c) \/ Exit(c) \/ Die(c)
    \/ NotRun(c) \/ Interrupt(c) \/ InternalError(c) \/ MessageLost(c)

Next ==
    \/ \E c \in Calls :
        Call(c) \/ SendTask(c) \/ GivesUp(c) \/ Cancel(c) \/ Work(c)
    \/ \E r \in Readers : Read(r) \/ PopRaises(r) \/ Stopped(r)
    \/ Start \/ Stop \/ QueueExpires \/ Restart

Spec == Init /\ [][Next]_vars

(* The event loop runs its tasks, the application starts the reader, the    *)
(* worker takes what is queued, and a lost child is reported. Nobody has to *)
(* give up waiting: `result_timeout` may be None.                           *)
Fairness ==
    /\ \A c \in Calls :
        /\ WF_vars(Call(c)) /\ WF_vars(SendTask(c)) /\ WF_vars(Take(c))
        /\ WF_vars(Execute(c)) /\ WF_vars(work[c] = "dead" /\ Interrupt(c))
    /\ \A r \in Readers : WF_vars(Read(r)) /\ WF_vars(Stopped(r))
    /\ WF_vars(Start)

LiveSpec == Spec /\ Fairness
-----------------------------------------------------------------------------
(* Properties                                                               *)

TypeOK ==
    /\ pc \in [Calls -> {"idle", "encoding", "sending", "listeners", "waiting", "ended"}]
    /\ answer \in [Calls -> Answers]
    /\ thread \in [Calls -> {"none", "sending", "sent", "raised"}]
    /\ pending \subseteq Calls
    /\ registered \in Readers \cup {NoReader}
    /\ task \in [Readers -> {"none", "created", "reading", "ended"}]
    /\ cancelled \subseteq Readers /\ stops \subseteq Readers
    /\ popped \in [Readers -> Payloads \cup {NoPayload}]
    /\ queue \in Seq(Payloads)
    /\ work \in [Calls -> {"none", "queued", "dead", "ended"} \cup InChild]
    /\ reported \subseteq {"supervisor", "child"} \X Calls
    /\ first \in [Calls -> Said \cup {"none"}]
    /\ dropped \subseteq Calls
    /\ faults \in 0..MaxFaults /\ cuts \in 0..MaxCuts

InFlight(c) == pc[c] \notin {"idle", "ended"}

(* The registry holds the calls in flight that nobody resolved, and no      *)
(* other: a call that awaits its future can be found by the reader or       *)
(* failed by its end, and an ended call, however it ended, left nothing.    *)
RegistryIsTheUnresolved ==
    \A c \in Calls :
        /\ InFlight(c) /\ answer[c] = "pending" => c \in pending
        /\ c \in pending => InFlight(c)

(* Two tasks never read one list at once: the other one is cancelled and    *)
(* takes nothing more.                                                      *)
OneReader ==
    \A r, s \in Readers :
        r # s /\ task[r] \in Running /\ task[s] \in Running => r \in cancelled \/ s \in cancelled

(* docs/guide/routers.md: "its caller receives one outcome only". Of the    *)
(* payloads a child and its supervisor push for one call (a result and then *)
(* a time limit, a termination told by both) the caller gets the first,     *)
(* unless Redis or a connection lost that one.                              *)
FirstPayloadWins ==
    \A c \in Calls :
        pc[c] = "ended" /\ answer[c] \in Said => answer[c] = first[c] \/ c \in dropped

(* Nothing ends an execution silently: when the worker is done with a call  *)
(* somebody waits for, by its return or by the supervisor's report, a       *)
(* payload for it is on the list or in the reader's hands.                  *)
OutcomeIsOnItsWay ==
    \A c \in Calls :
        /\ work[c] = "ended" \/ (work[c] = "dead" /\ <<"supervisor", c>> \in reported)
        /\ InFlight(c) /\ answer[c] = "pending" /\ c \notin dropped
        => \/ \E i \in DOMAIN queue : queue[i].call = c
           \/ \E r \in Readers : popped[r].call = c

(* A call is answered without a timeout, unless its payload was lost or the *)
(* reader is not running.                                                   *)
EveryCallIsAnswered ==
    \A c \in Calls : pc[c] = "waiting" ~> (pc[c] = "ended" \/ c \in dropped \/ registered = NoReader)
-----------------------------------------------------------------------------
(* The inductive invariant                                                  *)

Unresolved(c) == c \in pending /\ answer[c] = "pending"

(* ... and none of its payloads was lost. *)
Outstanding(c) == Unresolved(c) /\ c \notin dropped

(* A payload was pushed for the call, or one was lost. *)
Told(c) == first[c] # "none" \/ c \in dropped

Queued(c) == \E i \in DOMAIN queue : queue[i].call = c

(* A reader that is not cancelled has popped a payload of the call. *)
InHand(c) == \E r \in Readers \ cancelled : popped[r].call = c

(* A task that still runs is the registered one, or cancelled; only a task  *)
(* that reads holds a payload.                                              *)
ReadersKnown ==
    \A r \in Readers :
        /\ task[r] \in Running => r = registered \/ r \in cancelled
        /\ popped[r] # NoPayload => task[r] = "reading"

(* Nothing is known of a call before it is made. *)
FreshIsUnknown ==
    \A c \in Calls :
        /\ pc[c] = "idle" => work[c] = "none" /\ thread[c] = "none" /\ answer[c] = "pending"
        /\ work[c] = "none" => first[c] = "none"

(* Without a first payload there is none. *)
PayloadsFollowTheFirst ==
    /\ \A i \in DOMAIN queue : first[queue[i].call] # "none"
    /\ \A r \in Readers : popped[r] # NoPayload => first[popped[r].call] # "none"

(* The first payload of an unresolved call is still under way, unless lost. *)
FirstIsUnderWay ==
    \A c \in Calls : Outstanding(c) /\ first[c] # "none" => Queued(c) \/ InHand(c)

(* ... and is what the reader meets first: it is in its hands, or the next  *)
(* of the call on the list.                                                 *)
FirstIsNext ==
    \A c \in Calls : Outstanding(c) =>
        /\ \A r \in Readers \ cancelled : popped[r].call = c => popped[r].says = first[c]
        /\ \A i \in DOMAIN queue :
               queue[i].call = c /\ ~InHand(c) /\ (\A j \in 1 .. i - 1 : queue[j].call # c)
               => queue[i].says = first[c]

AnswerIsTheFirst ==
    \A c \in Calls : answer[c] \in Said => answer[c] = first[c] \/ c \in dropped

(* Whatever ends an execution has told. *)
EndIsTold ==
    /\ \A c \in Calls : work[c] \in {"returning", "ended"} => Told(c)
    /\ \A e \in reported : Told(e[2])

IInv ==
    /\ TypeOK /\ RegistryIsTheUnresolved /\ ReadersKnown /\ FreshIsUnknown
    /\ PayloadsFollowTheFirst /\ FirstIsUnderWay /\ FirstIsNext
    /\ AnswerIsTheFirst /\ EndIsTold
=============================================================================
