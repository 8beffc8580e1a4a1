------------------------------- MODULE Executor -------------------------------
(* A process that executes actions for celery_viewset_server: what happens  *)
(* when an execution is cut off (a time limit, a termination), which set-up *)
(* runs before the first execution on an event loop, and how the changes of *)
(* state that Celery observes are reported to the listeners. Celery's pools *)
(* and signals are modelled from their use: a prefork child runs one task   *)
(* under a supervisor, the process of any other pool has none and is told   *)
(* of them itself. The action's own code lets an interruption pass.         *)
EXTENDS Integers, Sequences, FiniteSets

CONSTANTS
    Loops,        \* the threads (greenlets) that execute, an event loop each
    Tasks,        \* the messages, executed at most once (acks_late=False)
    ReportedKept, \* _REPORTED_KEPT
    MaxCuts       \* bounds what goes wrong

(* A lock that nobody holds, and a loop that has executed nothing.          *)
Free == "free"

ASSUME ExecutorAssumption ==
    ReportedKept \in Nat \ {0} /\ MaxCuts \in Nat /\ Free \notin Loops

Pools == {"prefork", "solo", "gevent", "threads"}

VARIABLES
    pool,
    startedPid,   \* _started_pid
    startedLoops, \* _started_loops
    setUp,        \* history: the loops that executor_started() completed on, in this process
    startedLock,  \* who holds _started_lock
    runs,         \* runs[l]: the execution on loop l
    reported,     \* _reported, the oldest first
    transitions,  \* what was submitted to the transition loop, and how far it is
    payloads,     \* payloads[k]: what was pushed for task k
    process,      \* up, draining or down
    drain,        \* the transitions a shutdown waits for
    due,          \* history: how many were submitted when it began
    cuts

executorVars ==
  <<pool, startedPid, startedLoops, setUp, startedLock, runs, reported, transitions, payloads, process, drain,
    due, cuts>>

(* _Run; `caught` leaves the loop, raised from `cause`; `seen` is what the  *)
(* execute() of the middlewares was given, `cut` whether an interruption    *)
(* struck the coroutine, `again` whether a second one struck its unwinding. *)
NoRun ==
    [pc |-> "idle", task |-> Free, coroutine |-> "none", interruption |-> "none", interrupting |-> "none",
     caught |-> "none", cause |-> "none", seen |-> "none", cut |-> FALSE, again |-> FALSE]

Supervised == pool = "prefork"

(* What may cut an execution off: the soft limit and a termination of a     *)
(* prefork child, the exit of a solo worker, the limit of a gevent pool.    *)
Signals == [prefork |-> {"soft", "exit"}, solo |-> {"exit"}, gevent |-> {"timeout"}, threads |-> {}][pool]

(* _soft_limit_raises: within an execution, ActionInterruptedError.         *)
Raised(l, signal) ==
    IF signal = "soft" /\ runs[l].pc \in {"running", "unwinding"} THEN "Interrupted" ELSE signal

(* Mutant of Translate: a cancellation is passed on as it is.               *)
TranslateButCancelled(run, error) ==
    CASE run.interruption # "none" /\ error = run.interrupting -> run.interruption
      [] error \in {"soft", "timeout"} -> "Interrupted"
      [] error = "celery" -> "Failed"
      [] OTHER -> error

Translate(run, error) ==
    CASE run.interruption # "none" /\ error \in {run.interrupting, "cancelled"} -> run.interruption
      [] error \in {"soft", "timeout"} -> "Interrupted"
      [] error = "celery" -> "Failed"
      [] OTHER -> error

(* _Run.interrupted                                                         *)
Interrupted(run, error) ==
    LET translated == IF error = "exit" THEN error ELSE Translate(run, error)
    IN IF translated \in {"exit", "Interrupted"}
       THEN [run EXCEPT !.interruption = translated, !.interrupting = error] ELSE run

Step(l, fields) ==
    runs' = [runs EXCEPT ![l] = [f \in DOMAIN NoRun |-> IF f \in DOMAIN fields THEN fields[f] ELSE @[f]]]

Cuts == cuts < MaxCuts /\ cuts' = cuts + 1

Queues == <<reported, transitions, payloads, process, drain, due>>

------------------------------------------------------------------------------
(* An execution: the set-up of its loop, the coroutine, its end             *)

(* Acknowledged when it is received: never delivered twice.                 *)
Taken(k) == payloads[k] # <<>> \/ \E l \in Loops : runs[l].task = k

Receive(l, k) ==
    /\ process = "up" /\ runs[l].pc = "idle" /\ ~Taken(k)
    /\ pool \in {"gevent", "threads"} \/ \A m \in Loops : runs[m].pc = "idle"
    /\ Step(l, [NoRun EXCEPT !.pc = "ensure", !.task = k])
    /\ UNCHANGED <<pool, startedPid, startedLoops, setUp, startedLock, cuts, Queues>>

(* Mutant of EnsureStarted: what a fork inherits counts as set up.          *)
EnsureInherited(l) ==
    /\ runs[l].pc = "ensure"
    /\ \/ /\ l \in startedLoops
          /\ Step(l, [pc |-> "running", coroutine |-> "running"])
          /\ UNCHANGED <<startedPid, startedLoops, startedLock>>
       \/ /\ l \notin startedLoops
          /\ startedLock = Free /\ startedLock' = l
          /\ startedPid' = "child" /\ UNCHANGED startedLoops
          /\ Step(l, [pc |-> "starting"])
    /\ UNCHANGED <<pool, setUp, cuts, Queues>>

(* _ensure_executor_started: once per loop of this process; what a forked   *)
(* child inherits of its parent's set is cleared.                           *)
EnsureStarted(l) ==
    /\ runs[l].pc = "ensure"
    /\ \/ /\ startedPid = "child" /\ l \in startedLoops
          /\ Step(l, [pc |-> "running", coroutine |-> "running"])
          /\ UNCHANGED <<startedPid, startedLoops, startedLock>>
       \/ /\ startedPid # "child" \/ l \notin startedLoops
          /\ startedLock = Free /\ startedLock' = l
          /\ startedPid' = "child"
          /\ startedLoops' = IF startedPid # "child" THEN {} ELSE startedLoops
          /\ Step(l, [pc |-> "starting"])
    /\ UNCHANGED <<pool, setUp, cuts, Queues>>

Started(l) ==
    /\ runs[l].pc = "starting"
    /\ startedLoops' = startedLoops \cup {l} /\ setUp' = setUp \cup {l}
    /\ startedLock' = Free
    /\ Step(l, [pc |-> "running", coroutine |-> "running"])
    /\ UNCHANGED <<pool, startedPid, cuts, Queues>>

(* executor_started() raises, or is cut off: an Exception is the call's     *)
(* ActionFailedError, the loop is tried again before its next execution.    *)
NotStarted(l) ==
    /\ runs[l].pc = "starting" /\ Cuts
    /\ \E error \in Signals \cup {"error"} :
          Step(l, [pc |-> "failing", caught |-> IF error \in {"soft", "error"} THEN "Failed" ELSE error])
    /\ startedLock' = Free
    /\ UNCHANGED <<pool, startedPid, startedLoops, setUp, Queues>>

(* The coroutine waits, with the loop idle, or goes on.                     *)
Suspend(l) ==
    /\ runs[l].pc = "running"
    /\ Step(l, [coroutine |-> IF runs[l].coroutine = "running" THEN "suspended" ELSE "running"])
    /\ UNCHANGED <<pool, startedPid, startedLoops, setUp, startedLock, cuts, Queues>>

(* The method returns or raises. The chain of execute() and what is around  *)
(* it translate an exception on its way out.                                *)
Return(l) ==
    /\ runs[l].pc = "running" /\ runs[l].coroutine = "running"
    /\ \/ Step(l, [pc |-> "pushing", coroutine |-> "done"])
       \/ \E error \in {"http", "error", "celery"} :
             Step(l, [pc |-> "failing", coroutine |-> "done", seen |-> Translate(runs[l], error),
                      caught |-> Translate(runs[l], error), cause |-> error])
    /\ UNCHANGED <<pool, startedPid, startedLoops, setUp, startedLock, cuts, Queues>>

(* A signal strikes inside the coroutine, in the chain or before it.        *)
CutInside(l) ==
    /\ runs[l].pc = "running" /\ runs[l].coroutine = "running" /\ Cuts
    /\ \E signal \in Signals :
          LET error == Raised(l, signal)
              out == Translate(runs[l], error)
          IN \/ Step(l, [pc |-> "failing", coroutine |-> "done", cut |-> TRUE,
                         seen |-> out, caught |-> out, cause |-> error])
             \/ Step(l, [pc |-> "failing", coroutine |-> "done", cut |-> TRUE, caught |-> error])
    /\ UNCHANGED <<pool, startedPid, startedLoops, setUp, startedLock, Queues>>

(* Mutant of CutSuspended: the coroutine is left where it is.               *)
CutAndLeave(l) ==
    /\ runs[l].pc = "running" /\ runs[l].coroutine = "suspended" /\ Cuts
    /\ \E signal \in Signals :
          LET error == Raised(l, signal)
          IN Step(l, [Interrupted(runs[l], error) EXCEPT !.pc = "failing", !.coroutine = "left",
                                                         !.cut = TRUE, !.caught = error])
    /\ UNCHANGED <<pool, startedPid, startedLoops, setUp, startedLock, Queues>>

(* _run_to_end: it strikes the idle loop; the coroutine is cancelled.       *)
CutSuspended(l) ==
    /\ runs[l].pc = "running" /\ runs[l].coroutine = "suspended" /\ Cuts
    /\ \E signal \in Signals :
          LET error == Raised(l, signal)
          IN Step(l, [Interrupted(runs[l], error) EXCEPT !.pc = "unwinding", !.coroutine = "cancelled",
                                                         !.cut = TRUE, !.caught = error])
    /\ UNCHANGED <<pool, startedPid, startedLoops, setUp, startedLock, Queues>>

(* It is run to its end with the cancellation, which execute() is given     *)
(* translated; what it raises or returns is suppressed.                     *)
Unwind(l) ==
    /\ runs[l].pc = "unwinding"
    /\ Step(l, [pc |-> "failing", coroutine |-> "done", seen |-> Translate(runs[l], "cancelled")])
    /\ UNCHANGED <<pool, startedPid, startedLoops, setUp, startedLock, cuts, Queues>>

(* A second signal meanwhile is suppressed too, and ends the unwinding.     *)
CutAgain(l) ==
    /\ runs[l].pc = "unwinding" /\ Cuts /\ Signals # {}
    /\ Step(l, [pc |-> "failing", coroutine |-> "left", again |-> TRUE])
    /\ UNCHANGED <<pool, startedPid, startedLoops, setUp, startedLock, Queues>>

PushPayload(k, payload) == payloads' = [payloads EXCEPT ![k] = Append(@, payload)]

(* The result is encoded and pushed; or that fails, or is cut off after it. *)
PushResult(l) ==
    /\ runs[l].pc = "pushing"
    /\ \/ PushPayload(runs[l].task, "result") /\ Step(l, [pc |-> "idle"]) /\ UNCHANGED cuts
       \/ /\ Cuts
          /\ Step(l, [pc |-> "failing", caught |-> "Failed"]) /\ UNCHANGED payloads
       \/ /\ Cuts
          /\ PushPayload(runs[l].task, "result")
          /\ \E signal \in Signals : Step(l, [pc |-> "failing", caught |-> Raised(l, signal)])
    /\ UNCHANGED <<pool, startedPid, startedLoops, setUp, startedLock, reported, transitions, process, drain, due>>

------------------------------------------------------------------------------
(* Reports                                                                  *)

IsReported(k) == \E i \in DOMAIN reported : reported[i] = k

(* Mutant of Remembered: nothing is forgotten.                              *)
RememberedAll(k) == Append(reported, k)

Remembered(k) ==
    LET all == Append(reported, k) IN SubSeq(all, IF Len(all) > ReportedKept THEN 2 ELSE 1, Len(all))

(* Mutant of Report: _first_report is not asked.                            *)
ReportEachTime(k, payload) ==
    /\ reported' = Remembered(k)
    /\ PushPayload(k, payload)
    /\ transitions' = Append(transitions, [task |-> k, state |-> "queued"])

(* _report: once per call, the payload and then the transition.             *)
Report(k, payload) ==
    IF IsReported(k) THEN UNCHANGED <<reported, payloads, transitions>>
    ELSE /\ reported' = Remembered(k)
         /\ PushPayload(k, payload)
         /\ transitions' = Append(transitions, [task |-> k, state |-> "queued"])

(* _fail: what the caller is answered. A limit of the pool and the exit of  *)
(* a process without supervisor are reported.                               *)
Fail(l) ==
    LET run == runs[l]
        error == Translate(run, run.caught)
        pushed == IF error = "exit" THEN "Interrupted" ELSE IF error = "error" THEN "Failed" ELSE error
    IN /\ run.pc = "failing"
       /\ IF "timeout" \in {run.caught, run.cause} THEN Report(run.task, "Interrupted")
          ELSE IF error = "exit" /\ ~Supervised THEN Report(run.task, pushed)
          ELSE PushPayload(run.task, pushed) /\ UNCHANGED <<reported, transitions>>
       /\ Step(l, [pc |-> "idle"])
       /\ UNCHANGED <<pool, startedPid, startedLoops, setUp, startedLock, process, drain, due, cuts>>

(* Celery's signals, in a process that is its own supervisor: a call that   *)
(* will not run, or one that was ended.                                     *)
Signal(k) ==
    /\ ~Supervised /\ process # "down" /\ Cuts
    /\ Report(k, IF Taken(k) THEN "Interrupted" ELSE "NotRun")
    /\ UNCHANGED <<pool, startedPid, startedLoops, setUp, startedLock, runs, process, drain, due>>

(* _TransitionLoop._serve: one at a time, in order.                         *)
Serve ==
    /\ process # "down"
    /\ \E i \in DOMAIN transitions :
          /\ transitions[i].state # "done"
          /\ \A j \in 1..(i - 1) : transitions[j].state = "done"
          /\ transitions' = [transitions EXCEPT ![i].state = IF @ = "queued" THEN "listened" ELSE "done"]
    /\ UNCHANGED <<pool, startedPid, startedLoops, setUp, startedLock, runs, reported, payloads, process, drain, due, cuts>>

(* Mutant of Shutdown: a transition that a listener has begun with is not   *)
(* waited for.                                                              *)
ShutdownForQueued ==
    /\ process = "up" /\ \A l \in Loops : runs[l].pc = "idle"
    /\ process' = "draining"
    /\ drain' = {i \in DOMAIN transitions : transitions[i].state = "queued"} /\ due' = Len(transitions)
    /\ UNCHANGED <<pool, startedPid, startedLoops, setUp, startedLock, runs, reported, transitions, payloads, cuts>>

(* _drain_transitions                                                       *)
Shutdown ==
    /\ process = "up" /\ \A l \in Loops : runs[l].pc = "idle"
    /\ process' = "draining"
    /\ drain' = {i \in DOMAIN transitions : transitions[i].state # "done"} /\ due' = Len(transitions)
    /\ UNCHANGED <<pool, startedPid, startedLoops, setUp, startedLock, runs, reported, transitions, payloads, cuts>>

(* The process ends, its daemon thread with it; a drain that takes too long *)
(* is given up.                                                             *)
Exit ==
    /\ process = "draining"
    /\ \/ /\ \A i \in drain : transitions[i].state = "done"
          /\ UNCHANGED <<drain, cuts>>
       \/ /\ Cuts
          /\ drain' = {}
    /\ process' = "down"
    /\ UNCHANGED <<pool, startedPid, startedLoops, setUp, startedLock, runs, reported, transitions, payloads, due>>

------------------------------------------------------------------------------
(* A prefork child may inherit what its parent has set up.                  *)
ExecutorInit ==
    /\ pool \in Pools
    /\ startedPid \in IF pool = "prefork" THEN {"none", "parent"} ELSE {"none"}
    /\ startedLoops = IF startedPid = "parent" THEN Loops ELSE {}
    /\ setUp = {} /\ startedLock = Free /\ cuts = 0
    /\ runs = [l \in Loops |-> NoRun]
    /\ reported = <<>> /\ transitions = <<>> /\ payloads = [k \in Tasks |-> <<>>]
    /\ process = "up" /\ drain = {} /\ due = 0

Executes(l) ==
    \/ \E k \in Tasks : Receive(l, k)
    \/ EnsureStarted(l) \/ Started(l) \/ NotStarted(l) \/ Suspend(l) \/ Return(l) \/ CutInside(l)
    \/ CutSuspended(l) \/ Unwind(l) \/ CutAgain(l) \/ PushResult(l) \/ Fail(l)

ExecutorNext ==
    \/ \E l \in Loops : Executes(l)
    \/ \E k \in Tasks : Signal(k)
    \/ Serve \/ Shutdown \/ Exit

ExecutorSpec == ExecutorInit /\ [][ExecutorNext]_executorVars
------------------------------------------------------------------------------
(* Every variable has its type, and what is remembered its limit.           *)
ExecutorTypeOK ==
    /\ pool \in Pools /\ startedPid \in {"none", "parent", "child"} /\ process \in {"up", "draining", "down"}
    /\ startedLoops \subseteq Loops /\ setUp \subseteq Loops /\ startedLock \in Loops \cup {Free}
    /\ \A l \in Loops :
          /\ DOMAIN runs[l] = DOMAIN NoRun
          /\ runs[l].pc \in {"idle", "ensure", "starting", "running", "unwinding", "pushing", "failing"}
          /\ runs[l].coroutine \in {"none", "running", "suspended", "cancelled", "done", "left"}
          /\ runs[l].task \in Tasks \cup {Free}
    /\ Len(reported) <= ReportedKept
    /\ drain \subseteq DOMAIN transitions /\ cuts \in 0..MaxCuts

(* An action executes only on a loop that executor_started() was completed  *)
(* on in this process, also in one forked from a process that had set it up,*)
(* and no two set-ups run at once (server.py 269-293).                      *)
SetUpBeforeUse ==
    /\ \A l \in Loops : runs[l].pc \in {"running", "unwinding", "pushing"} => l \in setUp
    /\ \A l \in Loops : runs[l].pc = "starting" => startedLock = l

(* No exception of Celery, and no bare cancellation, reaches the execute()  *)
(* of a middleware or the caller; the caller of an execution that was cut   *)
(* off is told that it was (server.py 170-202, 612-661).                    *)
InterruptionIsSeen ==
    /\ \A l \in Loops :
          /\ runs[l].seen \notin {"cancelled", "soft", "timeout", "celery"}
          /\ runs[l].pc = "idle" /\ runs[l].cut =>
                \E i \in DOMAIN payloads[runs[l].task] : payloads[runs[l].task][i] = "Interrupted"
    /\ \A k \in Tasks : \A i \in DOMAIN payloads[k] :
          payloads[k][i] \in {"result", "http", "Failed", "Interrupted", "NotRun"}

(* Once a call has ended nothing of its coroutine is left on the loop for   *)
(* the next execution to run on, unless a second signal struck while it     *)
(* unwound (server.py 232-246).                                             *)
NothingRunsOn ==
    \A l \in Loops : runs[l].pc \in {"idle", "pushing"} => runs[l].coroutine \in {"none", "done"} \/ runs[l].again

(* An execution has its loop to itself: set up before it, and with nothing  *)
(* of an earlier one left on it (server.py 232-246, 269-293).               *)
LoopIsItsOwn == SetUpBeforeUse /\ NothingRunsOn

(* A call is reported once, however many signals tell of it, while no more  *)
(* than _REPORTED_KEPT others were reported since (server.py 306-331).      *)
ReportedOnce ==
    \A i, j \in DOMAIN transitions :
        i < j /\ transitions[i].task = transitions[j].task => j - i > ReportedKept

(* The process does not end before the listeners were told of all that was  *)
(* submitted when it shut down, unless they take too long (server.py        *)
(* 399-411).                                                                *)
DrainedBeforeExit ==
    [][process' = "down" /\ process = "draining" /\ cuts' = cuts =>
          \A i \in 1..due : transitions[i].state = "done"]_executorVars
=============================================================================
