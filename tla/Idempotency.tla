----------------------------- MODULE Idempotency -----------------------------
(***************************************************************************)
(* The idempotency middleware with `redis_client`                          *)
(* (fastapi_viewsets/middleware/idempotency.py): calls carrying ONE        *)
(* Idempotency-Key reach the `Idempotency` instances of several processes. *)
(* Calls with different keys share nothing, so one key is the whole story. *)
(*                                                                         *)
(* A step is what happens between two awaits of one task: a command Redis  *)
(* executes, or the code that runs when its reply is in. Where the code    *)
(* reads only what the reply carried, executing the command and acting on  *)
(* the reply are one step; where it reads or writes state shared by the    *)
(* tasks of the process (`_runs`, a run's future and its `attached` flag), *)
(* they are two.                                                           *)
(*                                                                         *)
(* Time is abstracted to the order of events. A running record is extended *)
(* every third of the lock TTL while its call runs, so it expires under a  *)
(* live call only by the fault "lapse": every renewal of a whole lock TTL  *)
(* failed or came too late.                                                *)
(***************************************************************************)
EXTENDS Naturals, FiniteSets

CONSTANTS
    Calls,      \* the calls that carry the key; a call owns at most one run, so it also names the run
    Procs,      \* the server processes
    Fps,        \* request fingerprints: method, path, query, body
    SafeFps,    \* those of a GET or HEAD
    Faults,     \* which of FaultKinds may happen
    NoCall      \* no owner, no run

FaultKinds == {"lapse", "ttl", "crash", "abandon", "script", "publish"}

ASSUME IdempotencyAssumption ==
    /\ SafeFps \subseteq Fps
    /\ Faults \subseteq FaultKinds
    /\ NoCall \notin Calls

VARIABLES
    req,        \* req[c]: the process call c arrives at and its fingerprint
    pc,         \* pc[c]: the await call c stands at, or how it ended
    record,     \* the record under the storage key in Redis
    mark,       \* the ":attached" key in Redis: "1", or "none"
    subs,       \* the calls subscribed to the key's channel
    msgs,       \* those with an unread message
    runs,       \* runs[p]: `_runs.get(storage_key)` of process p
    attached,   \* the runs whose `run.attached` is set
    future,     \* future[r]: `run.future`
    fin,        \* fin[r]: the arguments `_finish` was called with
    waitsOn,    \* waitsOn[c]: the run call c attached to
    asleep,     \* asleep[c]: what the record was when c's get_message took its TTL as timeout
    answeredBy, \* answeredBy[c]: the run whose outcome c was answered with
    performed,  \* history: runs whose action ended with an outcome that can be stored
    lost,       \* history: runs whose record, running or outcome, is gone from Redis
    muted       \* history: runs whose completion was never published

redis   == <<record, mark, subs, msgs>>
local   == <<runs, attached, future>>
history == <<performed, lost, muted>>
vars    == <<req, pc, redis, local, fin, waitsOn, asleep, answeredBy, history>>

-----------------------------------------------------------------------------
(* The record: `{fingerprint, owner}` or `{fingerprint, outcome}`. The      *)
(* fingerprint of either is that of the owner's request, and the outcome is *)
(* named by the run that produced it.                                       *)

NoRecord   == [state |-> "none", owner |-> NoCall]
Records    == [state : {"running", "outcome"}, owner : Calls] \cup {NoRecord}
Running(r) == [state |-> "running", owner |-> r]
Stored(r)  == [state |-> "outcome", owner |-> r]

Modes    == {"never", "attached", "always"}
Finishes == [mode : Modes, outcome : {"none", "outcome"}, attached : {"0", "1"}]
NotYet   == [mode |-> "never", outcome |-> "none", attached |-> "0"]

Proc(c) == req[c].proc
Fp(c)   == req[c].fp

Ended == {"ran", "replayed", "reused", "gone"}          \* how a call ended
Live  == {"claimed", "running", "finish"}               \* owns a record it may still end
AttachedRemote == {"subscribe", "reread", "pttlRemote", "listen"}
Waiting == {"claim", "lookup", "attach", "waitLocal", "pttlLocal", "attachGet",
            "attachMark"} \cup AttachedRemote
PCs == Ended \cup Live \cup Waiting \cup {"publish", "resolve"}

Init ==
    /\ req \in [Calls -> [proc : Procs, fp : Fps]]
    /\ pc = [c \in Calls |-> "claim"]
    /\ record = NoRecord
    /\ mark = "none"
    /\ subs = {} /\ msgs = {}
    /\ runs = [p \in Procs |-> NoCall]
    /\ attached = {}
    /\ future = [c \in Calls |-> "pending"]
    /\ fin = [c \in Calls |-> NotYet]
    /\ waitsOn = [c \in Calls |-> NoCall]
    /\ asleep = [c \in Calls |-> "none"]
    /\ answeredBy = [c \in Calls |-> NoCall]
    /\ performed = {} /\ lost = {} /\ muted = {}

Goto(c, l) == pc' = [pc EXCEPT ![c] = l]

-----------------------------------------------------------------------------
(* The loop of `__call__`: claim the key, or learn who holds it.            *)

(* Mutants of Claim: the SET without NX, and one that respects only a       *)
(* running record.                                                          *)
ClaimOver(c, free) ==
    /\ pc[c] = "claim"
    /\ IF free
         THEN record' = Running(c) /\ Goto(c, "claimed")
         ELSE record' = record /\ Goto(c, "lookup")
    /\ UNCHANGED <<req, mark, subs, msgs, local, fin, waitsOn, asleep, answeredBy, history>>

ClaimWithoutNX(c) == ClaimOver(c, TRUE)
ClaimOverOutcome(c) == ClaimOver(c, record.state # "running")

(* SET NX PX: the running record is written where there is none. *)
Claim(c) ==
    /\ pc[c] = "claim"
    /\ IF record = NoRecord
         THEN record' = Running(c) /\ Goto(c, "claimed")
         ELSE record' = record /\ Goto(c, "lookup")
    /\ UNCHANGED <<req, mark, subs, msgs, local, fin, waitsOn, asleep, answeredBy, history>>

(* The reply to the SET is in: this process now holds the run, whatever     *)
(* happened to the record meanwhile, and its action starts.                 *)
StartRun(c) ==
    /\ pc[c] = "claimed"
    /\ runs' = [runs EXCEPT ![Proc(c)] = c]
    /\ Goto(c, "running")
    /\ UNCHANGED <<req, redis, attached, future, fin, waitsOn, asleep, answeredBy, history>>

(* A call that read an outcome: another fingerprint is refused (422),       *)
(* the same one replays the outcome.                                        *)
Judge(c) ==
    IF Fp(record.owner) # Fp(c)
      THEN Goto(c, "reused") /\ UNCHANGED answeredBy
      ELSE /\ Goto(c, "replayed")
           /\ answeredBy' = [answeredBy EXCEPT ![c] = record.owner]

(* GET after a SET NX that wrote nothing. *)
Lookup(c) ==
    /\ pc[c] = "lookup"
    /\ \/ record = NoRecord /\ Goto(c, "claim") /\ UNCHANGED answeredBy
       \/ record.state = "outcome" /\ Judge(c)
       \/ /\ record.state = "running"
          /\ Goto(c, IF Fp(record.owner) # Fp(c) THEN "reused" ELSE "attach")
          /\ UNCHANGED answeredBy
    /\ UNCHANGED <<req, redis, local, fin, waitsOn, asleep, history>>

(* `_attach`: a run of this process is awaited by its future, any other     *)
(* through Redis.                                                           *)
Attach(c) ==
    LET r == runs[Proc(c)] IN
    /\ pc[c] = "attach"
    /\ IF r # NoCall
         THEN /\ attached' = attached \cup {r}
              /\ waitsOn' = [waitsOn EXCEPT ![c] = r]
              /\ Goto(c, "waitLocal")
         ELSE Goto(c, "attachGet") /\ UNCHANGED <<attached, waitsOn>>
    /\ UNCHANGED <<req, redis, runs, future, fin, asleep, answeredBy, history>>

(* Top of the loop over `run.future`: done, or ask Redis how long the       *)
(* record lives (and then sleep at most that long).                         *)
WaitLocal(c) ==
    LET r == waitsOn[c] IN
    /\ pc[c] = "waitLocal"
    /\ \/ /\ future[r] = "pending"
          /\ Goto(c, "pttlLocal")
          /\ UNCHANGED <<waitsOn, answeredBy>>
       \/ /\ future[r] = "none"
          /\ Goto(c, "claim")
          /\ waitsOn' = [waitsOn EXCEPT ![c] = NoCall]
          /\ UNCHANGED answeredBy
       \/ /\ future[r] = "outcome"
          /\ Goto(c, "replayed")
          /\ answeredBy' = [answeredBy EXCEPT ![c] = r]
          /\ waitsOn' = [waitsOn EXCEPT ![c] = NoCall]
    /\ UNCHANGED <<req, redis, local, fin, asleep, history>>

(* PTTL: no record left sends the call back to claim, without another look  *)
(* at the future.                                                           *)
PttlLocal(c) ==
    /\ pc[c] = "pttlLocal"
    /\ IF record = NoRecord
         THEN Goto(c, "claim") /\ waitsOn' = [waitsOn EXCEPT ![c] = NoCall]
         ELSE Goto(c, "waitLocal") /\ UNCHANGED waitsOn
    /\ UNCHANGED <<req, redis, local, fin, asleep, answeredBy, history>>

-----------------------------------------------------------------------------
(* `_attach_remote`                                                         *)

(* Leaving `_attach_remote`: the `finally` unsubscribes. *)
Leave(c) ==
    /\ subs' = subs \ {c}
    /\ msgs' = msgs \ {c}
    /\ waitsOn' = [waitsOn EXCEPT ![c] = NoCall]
    /\ asleep' = [asleep EXCEPT ![c] = "none"]

AttachGet(c) ==
    /\ pc[c] = "attachGet"
    /\ \/ record = NoRecord /\ Goto(c, "claim") /\ UNCHANGED <<answeredBy, waitsOn>>
       \/ record.state = "outcome" /\ Judge(c) /\ UNCHANGED waitsOn
       \/ /\ record.state = "running"
          /\ waitsOn' = [waitsOn EXCEPT ![c] = record.owner]
          /\ Goto(c, "attachMark")
          /\ UNCHANGED answeredBy
    /\ UNCHANGED <<req, redis, local, fin, asleep, history>>

(* _ATTACH_SCRIPT: marks the run only while its running record is the one   *)
(* that was read.                                                           *)
AttachMark(c) ==
    /\ pc[c] = "attachMark"
    /\ mark' = IF record = Running(waitsOn[c]) THEN "1" ELSE mark
    /\ Goto(c, "subscribe")
    /\ UNCHANGED <<req, record, subs, msgs, local, fin, waitsOn, asleep, answeredBy, history>>

Subscribe(c) ==
    /\ pc[c] = "subscribe"
    /\ subs' = subs \cup {c}
    /\ Goto(c, "reread")
    /\ UNCHANGED <<req, record, mark, msgs, local, fin, waitsOn, asleep, answeredBy, history>>

(* The record is read again once the subscription stands, and after every   *)
(* message and timeout.                                                     *)
Reread(c) ==
    /\ pc[c] = "reread"
    /\ \/ record = NoRecord /\ Goto(c, "claim") /\ Leave(c) /\ UNCHANGED answeredBy
       \/ record.state = "outcome" /\ Judge(c) /\ Leave(c)
       \/ /\ record.state = "running"
          /\ Goto(c, "pttlRemote")
          /\ UNCHANGED <<subs, msgs, waitsOn, asleep, answeredBy>>
    /\ UNCHANGED <<req, record, mark, local, fin, history>>

PttlRemote(c) ==
    /\ pc[c] = "pttlRemote"
    /\ \/ record = NoRecord /\ Goto(c, "claim") /\ Leave(c)
       \/ /\ record # NoRecord
          /\ asleep' = [asleep EXCEPT ![c] = record.state]
          /\ Goto(c, "listen")
          /\ UNCHANGED <<subs, msgs, waitsOn>>
    /\ UNCHANGED <<req, record, mark, local, fin, answeredBy, history>>

(* get_message returns: a message, or the timeout. A timeout taken from a   *)
(* running record is at most the lock TTL; one taken from a stored outcome  *)
(* is the rest of that outcome's TTL.                                       *)
Wake(c) ==
    /\ pc[c] = "listen"
    /\ c \in msgs \/ asleep[c] # "outcome"
    /\ msgs' = msgs \ {c}
    /\ asleep' = [asleep EXCEPT ![c] = "none"]
    /\ Goto(c, "reread")
    /\ UNCHANGED <<req, record, mark, subs, local, fin, waitsOn, answeredBy, history>>

-----------------------------------------------------------------------------
(* `_run` and `_finish`                                                     *)

(* How an action ends, as `_finish` tells it apart: an outcome that can be  *)
(* stored (a result or an exception), one Redis cannot hold, or none to     *)
(* keep (dispatch error, cancelled, sets a cookie, unbuffered response).    *)
Endings == {"storable", "unencodable", "none"}

(* Mutant of FinishMode: by the method alone. *)
ModeByMethod(c, ending) == IF Fp(c) \in SafeFps THEN "attached" ELSE "always"

FinishMode(c, ending) ==
    IF ending # "storable" THEN "never"
    ELSE IF Fp(c) \in SafeFps THEN "attached" ELSE "always"

(* The action returns or raises; `run.attached` is read now, and the finish *)
(* script is on its way.                                                    *)
Complete(c, ending) ==
    /\ pc[c] = "running"
    /\ fin' = [fin EXCEPT ![c] = [mode     |-> FinishMode(c, ending),
                                  outcome  |-> IF ending = "none" THEN "none" ELSE "outcome",
                                  attached |-> IF c \in attached THEN "1" ELSE "0"]]
    /\ performed' = IF ending = "storable" THEN performed \cup {c} ELSE performed
    /\ Goto(c, "finish")
    /\ UNCHANGED <<req, redis, local, waitsOn, asleep, answeredBy, lost, muted>>

(* Mutant of Stores: the mark of another process is not asked for. *)
StoresOwnMark(c) == fin[c].mode = "always" \/ (fin[c].mode = "attached" /\ fin[c].attached = "1")

(* _FINISH_SCRIPT: the outcome replaces this run's running record, or the   *)
(* record is deleted; a record another call took over is left alone.        *)
Stores(c) == fin[c].mode = "always" \/ (fin[c].mode = "attached" /\ (fin[c].attached = "1" \/ mark = "1"))

FinishEffect(c) ==
    IF record = Running(c)
      THEN /\ mark' = "none"
           /\ IF Stores(c)
                THEN record' = Stored(c) /\ UNCHANGED lost
                ELSE record' = NoRecord /\ lost' = lost \cup {c}
      ELSE UNCHANGED <<record, mark, lost>>

FinishScript(c) ==
    /\ pc[c] = "finish"
    /\ FinishEffect(c)
    /\ Goto(c, "publish")
    /\ UNCHANGED <<req, subs, msgs, local, fin, waitsOn, asleep, answeredBy, performed, muted>>

(* The publish in the `finally` of `_finish_in_redis`. *)
Publish(c) ==
    /\ pc[c] = "publish"
    /\ msgs' = subs
    /\ Goto(c, "resolve")
    /\ UNCHANGED <<req, record, mark, subs, local, fin, waitsOn, asleep, answeredBy, history>>

(* Mutant of Resolve: `_runs` keeps the run. *)
ResolveKeepsRun(c) ==
    /\ pc[c] = "resolve"
    /\ future' = [future EXCEPT ![c] = fin[c].outcome]
    /\ Goto(c, "ran")
    /\ UNCHANGED <<req, redis, runs, attached, fin, waitsOn, asleep, answeredBy, history>>

(* The `finally` of `_finish`, and the call's own answer. *)
Resolve(c) ==
    /\ pc[c] = "resolve"
    /\ runs' = [p \in Procs |-> IF p = Proc(c) /\ runs[p] = c THEN NoCall ELSE runs[p]]
    /\ future' = [future EXCEPT ![c] = fin[c].outcome]
    /\ Goto(c, "ran")
    /\ UNCHANGED <<req, redis, attached, fin, waitsOn, asleep, answeredBy, history>>

-----------------------------------------------------------------------------
(* What goes wrong around the code                                          *)

(* The record's TTL is over; the mark has the same. *)
Expire ==
    /\ record' = NoRecord /\ mark' = "none"
    /\ lost' = lost \cup {record.owner}

(* Mutant of OrphanExpires: the claim wrote its record without a TTL. *)
NoLockTTL == FALSE

(* A running record nobody extends any more expires. *)
OrphanExpires ==
    /\ record.state = "running"
    /\ pc[record.owner] \notin Live
    /\ Expire
    /\ UNCHANGED <<req, pc, subs, msgs, local, fin, waitsOn, asleep, answeredBy, performed, muted>>

(* A running record expires under a live call: its renewals failed (they    *)
(* are logged and tried again) or the process stalled.                      *)
Lapse ==
    /\ "lapse" \in Faults
    /\ record.state = "running"
    /\ pc[record.owner] \in Live
    /\ Expire
    /\ UNCHANGED <<req, pc, subs, msgs, local, fin, waitsOn, asleep, answeredBy, performed, muted>>

(* A stored outcome reaches the end of its TTL, and so does the timeout of  *)
(* whoever took that TTL for one.                                           *)
OutcomeExpires ==
    /\ "ttl" \in Faults
    /\ record.state = "outcome"
    /\ Expire
    /\ asleep' = [c \in Calls |-> IF asleep[c] = "outcome" THEN "none" ELSE asleep[c]]
    /\ UNCHANGED <<req, pc, subs, msgs, local, fin, waitsOn, answeredBy, performed, muted>>

(* The finish script raises, or its await is cancelled, before Redis ran it *)
(* (when Redis did run it, this is FinishScript). The publish and the       *)
(* `finally` follow all the same.                                           *)
FinishFails(c) ==
    /\ "script" \in Faults
    /\ pc[c] = "finish"
    /\ Goto(c, "publish")
    /\ UNCHANGED <<req, redis, local, fin, waitsOn, asleep, answeredBy, history>>

(* The publish raises: nobody is told. *)
PublishFails(c) ==
    /\ "publish" \in Faults
    /\ pc[c] = "publish"
    /\ muted' = muted \cup {c}
    /\ Goto(c, "resolve")
    /\ UNCHANGED <<req, redis, local, fin, waitsOn, asleep, answeredBy, performed, lost>>

(* A call that does not run an action is cancelled or its Redis command     *)
(* raises. At "claimed" its record stays behind and nobody holds the run.   *)
Abandon(c) ==
    /\ "abandon" \in Faults
    /\ pc[c] \in Waiting \cup {"claimed"}
    /\ Goto(c, "gone")
    /\ Leave(c)
    /\ UNCHANGED <<req, record, mark, local, fin, answeredBy, history>>

(* A process dies with every task in it; what replaces it starts empty. *)
Crash(p) ==
    LET dead == {c \in Calls : Proc(c) = p /\ pc[c] \notin Ended} IN
    /\ "crash" \in Faults
    /\ dead # {}
    /\ pc' = [c \in Calls |-> IF c \in dead THEN "gone" ELSE pc[c]]
    /\ runs' = [runs EXCEPT ![p] = NoCall]
    /\ subs' = subs \ dead
    /\ msgs' = msgs \ dead
    /\ waitsOn' = [c \in Calls |-> IF c \in dead THEN NoCall ELSE waitsOn[c]]
    /\ asleep' = [c \in Calls |-> IF c \in dead THEN "none" ELSE asleep[c]]
    /\ muted' = muted \cup {c \in dead : pc[c] = "publish"}
    /\ UNCHANGED <<req, record, mark, attached, future, fin, answeredBy, performed, lost>>

-----------------------------------------------------------------------------
Wait(c) == Claim(c) \/ Lookup(c) \/ Attach(c) \/ WaitLocal(c) \/ PttlLocal(c)
           \/ AttachGet(c) \/ AttachMark(c) \/ Subscribe(c) \/ Reread(c)
           \/ PttlRemote(c) \/ Wake(c)

Run(c) == StartRun(c) \/ (\E e \in Endings : Complete(c, e)) \/ FinishScript(c)
          \/ Publish(c) \/ Resolve(c)

Step(c) == Wait(c) \/ Run(c)

Fault == \/ Lapse
         \/ \E c \in Calls : FinishFails(c) \/ PublishFails(c) \/ Abandon(c)
         \/ \E p \in Procs : Crash(p)

AllEnded == (\A c \in Calls : pc[c] \in Ended) /\ UNCHANGED vars

Next == (\E c \in Calls : Step(c)) \/ OrphanExpires \/ OutcomeExpires \/ Fault \/ AllEnded

Spec == Init /\ [][Next]_vars

(* Every task of a live process goes on (an action that runs also ends),    *)
(* and Redis drops a key whose TTL is over.                                 *)
Fairness == /\ \A c \in Calls : WF_vars(Step(c))
            /\ WF_vars(OrphanExpires) /\ WF_vars(OutcomeExpires)

FairSpec == Spec /\ Fairness
-----------------------------------------------------------------------------
(* Properties                                                               *)

TypeOK ==
    /\ req \in [Calls -> [proc : Procs, fp : Fps]]
    /\ pc \in [Calls -> PCs]
    /\ record \in Records
    /\ mark \in {"none", "1"}
    /\ subs \subseteq Calls /\ msgs \subseteq Calls
    /\ runs \in [Procs -> Calls \cup {NoCall}]
    /\ attached \subseteq Calls
    /\ future \in [Calls -> {"pending", "none", "outcome"}]
    /\ fin \in [Calls -> Finishes]
    /\ waitsOn \in [Calls -> Calls \cup {NoCall}]
    /\ asleep \in [Calls -> {"none", "running", "outcome"}]
    /\ answeredBy \in [Calls -> Calls \cup {NoCall}]
    /\ performed \subseteq Calls /\ lost \subseteq Calls /\ muted \subseteq Calls

Executing == {"claimed", "running"}

(* Two calls run their action at once only after the record of one of them  *)
(* expired under it: the claim, the renewals and the finish script keep one *)
(* owner per key, over every process.                                       *)
OneRunAtATime ==
    \A c, d \in Calls :
        c # d /\ pc[c] \in Executing /\ pc[d] \in Executing => c \in lost \/ d \in lost

(* A side-effecting action comes to an outcome once per key, unless Redis   *)
(* lost its record (expired under the call, never replaced, or its TTL is   *)
(* over). Fingerprints do not matter: a second request under the key is     *)
(* refused.                                                                 *)
ExactlyOnce ==
    \A c, d \in performed :
        c # d /\ Fp(c) \notin SafeFps /\ Fp(d) \notin SafeFps => c \in lost \/ d \in lost

(* A call answered with the outcome of a different request was caught in a  *)
(* change of owner: the record of the run it was answered by, or of the run *)
(* it had read, is gone. Without one, `_runs` and the record agree.         *)
MismatchNeedsALostRecord ==
    \A c \in Calls : answeredBy[c] # NoCall /\ Fp(answeredBy[c]) # Fp(c) =>
        \/ answeredBy[c] \in lost
        \/ \E d \in lost : Fp(d) = Fp(c)

(* The Rules table of docs/guide/idempotency.md: a call whose fingerprint   *)
(* differs gets a 422, whatever the record; so no call is ever answered     *)
(* with the outcome of a different request.                                 *)
ReplayMatches ==
    \A c \in Calls : answeredBy[c] # NoCall => Fp(answeredBy[c]) = Fp(c)

(* An outcome that must not be shared (a cookie, a cancelled or undelivered *)
(* call) is never the answer of another call, by Redis or by the future.    *)
NothingToShareIsNotShared ==
    \A c \in Calls : answeredBy[c] # NoCall => fin[answeredBy[c]].outcome = "outcome"

(* The attached mark never outlives the running record it was set for: a    *)
(* mark left behind would have a later GET stored that nobody attached to.  *)
MarkHasItsRecord == mark = "1" => record.state = "running"

(* A repeat on another process that attached to the run Redis still holds   *)
(* is counted by the mark, so a GET it waits for will be stored.            *)
RemoteWaiterIsCounted ==
    \A c \in Calls :
        pc[c] \in AttachedRemote /\ waitsOn[c] # NoCall /\ record = Running(waitsOn[c]) => mark = "1"

(* A subscribed repeat never sleeps over a stored outcome: the message is   *)
(* there, or the owner has still to publish it, unless that publish failed. *)
(* The subscription precedes the read that follows it.                      *)
NoMissedWakeup ==
    \A c \in Calls :
        pc[c] = "listen" /\ record.state = "outcome" =>
            \/ c \in msgs
            \/ pc[record.owner] = "publish"
            \/ record.owner \in muted

(* A future that somebody of the same process may wait for always has a     *)
(* task that will resolve it: `_runs` holds no finished run, and a waiter's *)
(* run is either resolved or on its way to `_finish`.                       *)
NobodyWaitsInVain ==
    /\ \A p \in Procs : runs[p] # NoCall =>
           /\ pc[runs[p]] \in {"running", "finish", "publish", "resolve"}
           /\ Proc(runs[p]) = p
           /\ future[runs[p]] = "pending"
    /\ \A c \in Calls : pc[c] \in {"waitLocal", "pttlLocal"} =>
           /\ waitsOn[c] # NoCall
           /\ \/ future[waitsOn[c]] # "pending"
              \/ pc[waitsOn[c]] \in {"running", "finish", "publish", "resolve"}

(* A record is ended by the run that owns it or by time, never by another   *)
(* call: a run that finishes late leaves alone what took its key over.      *)
OnlyTheOwnerEndsARecord ==
    [][record # NoRecord /\ record' # record =>
        \/ pc[record.owner] = "finish" /\ pc'[record.owner] = "publish"
        \/ record' = NoRecord /\ UNCHANGED pc]_vars

(* A GET somebody attached to before it ended is stored, and so answers the *)
(* repeat: attached through `run.attached` or through the mark.             *)
AwaitedOutcomeIsKept ==
    [][\A r \in Calls :
        /\ pc[r] = "finish" /\ pc'[r] = "publish" /\ record = Running(r)
        /\ record' # record /\ fin[r].mode # "never"
        /\ \/ fin[r].attached = "1"
           \/ \E c \in Calls : pc[c] \in AttachedRemote /\ waitsOn[c] = r
        => record' = Stored(r)]_vars

(* Every call is answered, whatever fails around it: nobody waits forever   *)
(* for a record, a message or a future.                                     *)
EveryCallEnds == \A c \in Calls : <>(pc[c] \in Ended)

-----------------------------------------------------------------------------
(* The inductive invariant behind the safety properties                     *)

Began(c) == pc[c] \in Live \cup {"publish", "resolve", "ran"}

(* A call that got the claim owns the record until Redis loses it. *)
Owned ==
    \A c \in Calls : Began(c) \/ c \in performed => record.owner = c \/ c \in lost

(* Whose record there is, and who is waited for, has claimed before. *)
HolderClaimed == record # NoRecord => pc[record.owner] \notin Waiting

WaitedForClaimed ==
    \A c \in Calls : pc[c] \in {"attachMark"} \cup AttachedRemote =>
        waitsOn[c] \in Calls /\ pc[waitsOn[c]] \notin Waiting

(* A call about to attach has read a record of its own fingerprint, which   *)
(* is still there or lost.                                                  *)
LostAlike(c) == \E d \in lost : Fp(d) = Fp(c)

ReadItsOwn ==
    \A c \in Calls : pc[c] = "attach" =>
        (record # NoRecord /\ Fp(record.owner) = Fp(c)) \/ LostAlike(c)

(* A run is resolved once, at its end. *)
PendingTillEnd == \A c \in Calls : future[c] # "pending" => pc[c] = "ran"

WaitsAtHome ==
    \A c \in Calls : pc[c] \in {"waitLocal", "pttlLocal"} =>
        /\ waitsOn[c] \in Calls /\ Proc(waitsOn[c]) = Proc(c)
        /\ Fp(waitsOn[c]) = Fp(c) \/ waitsOn[c] \in lost \/ LostAlike(c)

IInv ==
    /\ TypeOK /\ Owned /\ HolderClaimed /\ WaitedForClaimed /\ ReadItsOwn /\ WaitsAtHome
    /\ PendingTillEnd
    /\ MismatchNeedsALostRecord /\ NobodyWaitsInVain /\ MarkHasItsRecord /\ RemoteWaiterIsCounted
=============================================================================
