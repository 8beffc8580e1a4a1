-------------------------- MODULE CeleryCall_proofs --------------------------
(***************************************************************************)
(* What CeleryCall promises for any number of calls, reader tasks and      *)
(* faults.                                                                 *)
(***************************************************************************)
EXTENDS CeleryCall, SequenceTheorems, TLAPS

LEMMA InitIInv == CeleryAssumption /\ Init => IInv
<1> SUFFICES ASSUME CeleryAssumption, Init PROVE IInv
  OBVIOUS
<1>1. TypeOK
  BY DEF Init, TypeOK, CeleryAssumption, Answers, InChild, NoPayload, Payloads
<1>2. RegistryIsTheUnresolved /\ ReadersKnown /\ FreshIsUnknown
  BY DEF Init, RegistryIsTheUnresolved, InFlight, ReadersKnown, Running, FreshIsUnknown
<1>3. PayloadsFollowTheFirst /\ FirstIsUnderWay /\ FirstIsNext
  BY DEF Init, PayloadsFollowTheFirst, FirstIsUnderWay, FirstIsNext, Outstanding, Unresolved
<1>4. AnswerIsTheFirst /\ EndIsTold
  BY DEF Init, AnswerIsTheFirst, Said, EndIsTold, Told
<1>5. QED
  BY <1>1, <1>2, <1>3, <1>4 DEF IInv

-----------------------------------------------------------------------------
(* Typing                                                                   *)

LEMMA EnqueueType ==
    ASSUME TypeOK, NEW c \in Calls, NEW o \in Said, Enqueue(c, o)
    PROVE  queue' \in Seq(Payloads) /\ first' \in [Calls -> Said \cup {"none"}]
<1>1. Payload(c, o) \in Payloads
  BY DEF Payload, Payloads
<1>2. queue' \in Seq(Payloads)
  BY <1>1, AppendProperties DEF Enqueue, TypeOK
<1>3. QED
  BY <1>2 DEF Enqueue, TypeOK

LEMMA PushType ==
    ASSUME TypeOK, NEW c \in Calls, NEW o \in Said, Push(c, o) \/ PushRaises(c, o)
    PROVE  /\ queue' \in Seq(Payloads) /\ first' \in [Calls -> Said \cup {"none"}]
           /\ dropped' \subseteq Calls /\ faults' \in 0 .. MaxFaults
<1>1. CASE Push(c, o)
  BY <1>1, EnqueueType DEF Push, TypeOK
<1>2. CASE PushRaises(c, o)
  <2>1. faults' \in 0 .. MaxFaults
    BY <1>2, CeleryAssumption DEF PushRaises, Fault, TypeOK, CeleryAssumption
  <2>2. CASE Enqueue(c, o) /\ UNCHANGED dropped
    BY <2>1, <2>2, EnqueueType DEF TypeOK
  <2>3. CASE dropped' = dropped \cup {c} /\ UNCHANGED <<queue, first>>
    BY <2>1, <2>3 DEF TypeOK
  <2>4. QED
    BY <1>2, <2>2, <2>3 DEF PushRaises
<1>3. QED
  BY <1>1, <1>2

LEMMA HeadAndTail ==
    ASSUME TypeOK, queue # << >>
    PROVE  Head(queue) \in Payloads /\ Tail(queue) \in Seq(Payloads)
BY HeadTailProperties DEF TypeOK

LEMMA CallType ==
    ASSUME TypeOK, CeleryAssumption, NEW c \in Calls,
           Call(c) \/ SendTask(c) \/ GivesUp(c) \/ Cancel(c)
    PROVE  TypeOK'
<1> USE DEF TypeOK, CeleryAssumption, client, reading, worker, Fault, Cut, Goto, Ends, Answers, Unknown, InChild
<1>1. CASE Register(c)
  BY <1>1 DEF Register
<1>2. CASE Encoded(c)
  BY <1>2 DEF Encoded
<1>3. CASE Sent(c)
  BY <1>3 DEF Sent
<1>4. CASE Listened(c)
  BY <1>4 DEF Listened
<1>5. CASE Answered(c)
  BY <1>5 DEF Answered
<1>6. CASE SendTask(c)
  BY <1>6 DEF SendTask
<1>7. CASE GivesUp(c)
  BY <1>7 DEF GivesUp
<1>8. CASE Cancel(c)
  BY <1>8 DEF Cancel
<1>9. QED
  BY <1>1, <1>2, <1>3, <1>4, <1>5, <1>6, <1>7, <1>8 DEF Call

LEMMA ReadType ==
    ASSUME TypeOK, CeleryAssumption, NEW r \in Readers, Read(r) \/ PopRaises(r) \/ Stopped(r)
    PROVE  TypeOK'
<1> USE DEF TypeOK, CeleryAssumption, client, reading, worker, Fault, Answers, Unknown, InChild, FailPending
<1>1. CASE Begin(r)
  BY <1>1 DEF Begin
<1>2. CASE Pop(r)
  <2>1. popped' \in [Readers -> Payloads \cup {NoPayload}] /\ queue' \in Seq(Payloads)
    BY <1>2, HeadAndTail DEF Pop
  <2>2. QED
    BY <1>2, <2>1 DEF Pop
<1>3. CASE Deliver(r)
  <2>1. popped[r].call \in Calls /\ popped[r].says \in Said
    BY <1>3 DEF Deliver, Payloads
  <2>2. QED
    BY <1>3, <2>1 DEF Deliver, Resolve
<1>4. CASE Unwind(r)
  BY <1>4 DEF Unwind
<1>5. CASE PopRaises(r)
  <2>1. popped[r].call \in Calls
    BY <1>5 DEF PopRaises, Payloads
  <2>2. QED
    BY <1>5, <2>1 DEF PopRaises
<1>6. CASE Stopped(r)
  BY <1>6 DEF Stopped
<1>7. QED
  BY <1>1, <1>2, <1>3, <1>4, <1>5, <1>6 DEF Read

LEMMA ProcessType ==
    ASSUME TypeOK, CeleryAssumption, Start \/ Stop \/ QueueExpires \/ Restart
    PROVE  TypeOK'
<1> USE DEF TypeOK, CeleryAssumption, client, reading, worker, Fault, Answers, Unknown, InChild, FailPending
<1>1. CASE Start
  BY <1>1 DEF Start
<1>2. CASE Stop
  BY <1>2 DEF Stop, ReaderRuns
<1>3. CASE QueueExpires
  <2>1. {queue[i].call : i \in DOMAIN queue} \subseteq Calls
    <3>1. \A i \in DOMAIN queue : queue[i] \in Payloads
      BY ElementOfSeq DEF TypeOK
    <3>2. QED
      BY <3>1 DEF Payloads
  <2>2. << >> \in Seq(Payloads)
    OBVIOUS
  <2>3. QED
    BY <1>3, <2>1, <2>2 DEF QueueExpires
<1>4. CASE Restart
  BY <1>4 DEF Restart
<1>5. QED
  BY <1>1, <1>2, <1>3, <1>4

LEMMA WorkerType ==
    ASSUME TypeOK, CeleryAssumption, NEW c \in Calls, Work(c)
    PROVE  TypeOK'
<1> USE DEF TypeOK, CeleryAssumption, client, reading, worker, Cut, InChild, WorkGoes
<1>0. {"result", "error", "interrupted", "not_run", "failed"} = Said
  BY DEF Said
<1>1. CASE Take(c)
  BY <1>1 DEF Take
<1>2. CASE Returns(c)
  <2>1. queue' \in Seq(Payloads) /\ first' \in [Calls -> Said \cup {"none"}]
        /\ dropped' \subseteq Calls /\ faults' \in 0 .. MaxFaults
    BY <1>0, <1>2, PushType DEF Returns
  <2>2. QED
    BY <1>2, <2>1 DEF Returns
<1>3. CASE Raises(c)
  BY <1>3 DEF Raises
<1>4. CASE Fail(c)
  <2>1. queue' \in Seq(Payloads) /\ first' \in [Calls -> Said \cup {"none"}]
        /\ dropped' \subseteq Calls /\ faults' \in 0 .. MaxFaults
    BY <1>0, <1>4, PushType DEF Fail
  <2>2. QED
    BY <1>4, <2>1 DEF Fail
<1>5. CASE HandedIn(c)
  BY <1>5 DEF HandedIn
<1>6. CASE Exit(c)
  <2>1. queue' \in Seq(Payloads) /\ first' \in [Calls -> Said \cup {"none"}]
        /\ dropped' \subseteq Calls /\ faults' \in 0 .. MaxFaults
    BY <1>0, <1>6, PushType DEF Exit
  <2>2. cuts' \in 0 .. MaxCuts /\ work' = [work EXCEPT ![c] = "dead"]
    BY <1>6 DEF Exit
  <2>3. UNCHANGED <<client, reading, reported>>
    BY <1>6 DEF Exit
  <2>4. QED
    BY <2>1, <2>2, <2>3
<1>7. CASE Die(c)
  BY <1>7 DEF Die
<1>8. ASSUME NEW p \in {"supervisor", "child"}, NEW o \in Said, Report(p, c, o)
      PROVE  /\ queue' \in Seq(Payloads) /\ first' \in [Calls -> Said \cup {"none"}]
             /\ dropped' \subseteq Calls /\ faults' \in 0 .. MaxFaults
             /\ reported' \subseteq {"supervisor", "child"} \X Calls
  BY <1>8, PushType DEF Report
<1>9. CASE NotRun(c)
  BY <1>0, <1>8, <1>9 DEF NotRun
<1>10. CASE Interrupt(c)
  BY <1>0, <1>8, <1>10 DEF Interrupt
<1>11. CASE InternalError(c)
  BY <1>0, <1>8, <1>11 DEF InternalError
<1>12. CASE MessageLost(c)
  BY <1>12 DEF MessageLost, Fault
<1>13. QED
  BY <1>1, <1>2, <1>3, <1>4, <1>5, <1>6, <1>7, <1>9, <1>10, <1>11, <1>12 DEF Work, Execute

LEMMA StepType == TypeOK /\ CeleryAssumption /\ [Next]_vars => TypeOK'
<1> SUFFICES ASSUME TypeOK, CeleryAssumption, [Next]_vars PROVE TypeOK'
  OBVIOUS
<1>1. CASE UNCHANGED vars
  BY <1>1 DEF vars, client, reading, worker, TypeOK
<1>2. CASE Next
  BY <1>2, CallType, ReadType, ProcessType, WorkerType DEF Next
<1>3. QED
  BY <1>1, <1>2

-----------------------------------------------------------------------------
(* What the two processes do to each other's state                          *)

(* A push of the worker, whether it raised or not. *)
Tells(c) ==
    \/ \E o \in Said : Enqueue(c, o) /\ UNCHANGED dropped
    \/ dropped' = dropped \cup {c} /\ UNCHANGED <<queue, first>>

LEMMA PushTells ==
    ASSUME NEW c \in Calls, NEW o \in Said, Push(c, o) \/ PushRaises(c, o)
    PROVE  Tells(c)
BY DEF Push, PushRaises, Tells

(* The worker leaves the FastAPI process alone; it is silent or tells of    *)
(* the call it works for.                                                   *)
LEMMA WorkTells ==
    ASSUME TypeOK, NEW c \in Calls, Work(c)
    PROVE  /\ UNCHANGED <<client, reading>>
           /\ work[c] # "none" /\ work'[c] # "none"
           /\ \A d \in Calls : d # c => work'[d] = work[d]
           /\ Tells(c) \/ UNCHANGED <<queue, first, dropped>>
<1>0. {"result", "error", "interrupted", "not_run", "failed"} = Said
  BY DEF Said
<1>1. CASE Take(c)
  BY <1>1 DEF Take, WorkGoes, TypeOK
<1>2. CASE Returns(c)
  BY <1>0, <1>2, PushTells DEF Returns, WorkGoes, TypeOK
<1>3. CASE Raises(c)
  BY <1>3 DEF Raises, WorkGoes, TypeOK
<1>4. CASE Fail(c)
  BY <1>0, <1>4, PushTells DEF Fail, WorkGoes, TypeOK
<1>5. CASE HandedIn(c)
  BY <1>5 DEF HandedIn, WorkGoes, TypeOK
<1>6. CASE Exit(c)
  BY <1>0, <1>6, PushTells DEF Exit, WorkGoes, TypeOK
<1>7. CASE Die(c)
  BY <1>7 DEF Die, WorkGoes, InChild, TypeOK
<1>8. CASE NotRun(c)
  BY <1>0, <1>8, PushTells DEF NotRun, Report, WorkGoes, TypeOK
<1>9. CASE Interrupt(c)
  BY <1>0, <1>9, PushTells DEF Interrupt, Report, InChild, TypeOK
<1>10. CASE InternalError(c)
  BY <1>0, <1>10, PushTells DEF InternalError, Report, WorkGoes, TypeOK
<1>11. CASE MessageLost(c)
  BY <1>11 DEF MessageLost, WorkGoes, Tells, TypeOK
<1>12. QED
  BY <1>1, <1>2, <1>3, <1>4, <1>5, <1>6, <1>7, <1>8, <1>9, <1>10, <1>11 DEF Work, Execute

(* What a step of the wrapper, or the time it is given, does to its call. *)
CallKeeps(c) ==
    /\ UNCHANGED <<reading, queue, worker, first, dropped>>
    /\ \A d \in Calls \ {c} : (d \in pending' <=> d \in pending) /\ answer'[d] = answer[d] /\ pc'[d] = pc[d]
    /\ pc[c] # "idle" => (Unresolved(c)' => Unresolved(c))
    /\ pc'[c] # "idle"
    /\ answer'[c] \in Said => answer'[c] = answer[c]
    /\ InFlight(c)' /\ answer'[c] = "pending" => c \in pending'
    /\ c \in pending' => InFlight(c)'

LEMMA CallSteps ==
    ASSUME TypeOK, RegistryIsTheUnresolved, NEW c \in Calls, Call(c) \/ GivesUp(c) \/ Cancel(c)
    PROVE  CallKeeps(c)
<1> USE DEF CallKeeps, TypeOK, RegistryIsTheUnresolved, Unresolved, InFlight, Said, Goto, Ends
<1>1. CASE Register(c)
  BY <1>1 DEF Register
<1>2. CASE Encoded(c)
  BY <1>2 DEF Encoded
<1>3. CASE Sent(c)
  BY <1>3 DEF Sent
<1>4. CASE Listened(c)
  BY <1>4 DEF Listened
<1>5. CASE Answered(c)
  BY <1>5 DEF Answered
<1>6. CASE GivesUp(c)
  BY <1>6 DEF GivesUp
<1>7. CASE Cancel(c)
  BY <1>7 DEF Cancel
<1>8. QED
  BY <1>1, <1>2, <1>3, <1>4, <1>5, <1>6, <1>7 DEF Call

(* The end of a reader, of the stop or of the process: no call is           *)
(* unresolved, none has an answer it did not have.                          *)
Emptied ==
    /\ pending' = {}
    /\ \A c \in Calls :
        /\ answer'[c] \in Said => answer'[c] = answer[c]
        /\ pc'[c] = "idle" <=> pc[c] = "idle"
        /\ pc[c] = "idle" /\ c \notin pending => answer'[c] = answer[c]
        /\ ~(InFlight(c)' /\ answer'[c] = "pending")

LEMMA FailPendingEmpties ==
    ASSUME TypeOK, RegistryIsTheUnresolved, FailPending, UNCHANGED pc
    PROVE  Emptied
BY DEF FailPending, Emptied, TypeOK, RegistryIsTheUnresolved, InFlight, Said

LEMMA RestartEmpties ==
    ASSUME TypeOK, Restart
    PROVE  Emptied
BY DEF Restart, Emptied, TypeOK, InFlight, Said

-----------------------------------------------------------------------------
(* The registry and the readers                                             *)

LEMMA DeliverRegistry ==
    ASSUME TypeOK, RegistryIsTheUnresolved, NEW r \in Readers, Deliver(r)
    PROVE  RegistryIsTheUnresolved'
<1>1. popped[r].call \in Calls /\ popped[r].says \in Said
  BY DEF Deliver, TypeOK, Payloads
<1>2. QED
  BY <1>1 DEF Deliver, Resolve, RegistryIsTheUnresolved, InFlight, TypeOK, Said

LEMMA StepRegistry ==
    ASSUME TypeOK, RegistryIsTheUnresolved, [Next]_vars
    PROVE  RegistryIsTheUnresolved'
<1> USE DEF client
<1>1. CASE UNCHANGED <<pc, answer, pending>>
  BY <1>1 DEF RegistryIsTheUnresolved, InFlight
<1>2. CASE Emptied
  BY <1>2 DEF Emptied, RegistryIsTheUnresolved
<1>3. ASSUME NEW c \in Calls, Call(c) \/ GivesUp(c) \/ Cancel(c)
      PROVE  RegistryIsTheUnresolved'
  BY <1>3, CallSteps DEF CallKeeps, RegistryIsTheUnresolved, InFlight
<1>4. ASSUME NEW c \in Calls, SendTask(c) \/ Work(c)
      PROVE  RegistryIsTheUnresolved'
  BY <1>1, <1>4, WorkTells DEF SendTask
<1>5. ASSUME NEW r \in Readers, Read(r) \/ PopRaises(r) \/ Stopped(r)
      PROVE  RegistryIsTheUnresolved'
  <2>1. CASE Begin(r) \/ Pop(r) \/ PopRaises(r)
    BY <1>1, <2>1 DEF Begin, Pop, PopRaises
  <2>2. CASE Deliver(r)
    BY <2>2, DeliverRegistry
  <2>3. CASE Unwind(r)
    BY <1>1, <1>2, <2>3, FailPendingEmpties DEF Unwind
  <2>4. CASE Stopped(r)
    BY <1>2, <2>4, FailPendingEmpties DEF Stopped
  <2>5. QED
    BY <1>5, <2>1, <2>2, <2>3, <2>4 DEF Read
<1>6. CASE Start \/ QueueExpires
  BY <1>1, <1>6 DEF Start, QueueExpires
<1>7. CASE Stop
  BY <1>1, <1>2, <1>7, FailPendingEmpties DEF Stop
<1>8. CASE Restart
  BY <1>2, <1>8, RestartEmpties
<1>9. QED
  BY <1>1, <1>3, <1>4, <1>5, <1>6, <1>7, <1>8 DEF Next, vars

LEMMA StepReaders ==
    ASSUME TypeOK, CeleryAssumption, ReadersKnown, [Next]_vars
    PROVE  ReadersKnown'
<1> USE DEF TypeOK, ReadersKnown, Running, client, reading
<1>1. CASE UNCHANGED <<registered, task, cancelled, popped>>
  BY <1>1
<1>2. ASSUME NEW c \in Calls, Call(c) \/ SendTask(c) \/ GivesUp(c) \/ Cancel(c) \/ Work(c)
      PROVE  UNCHANGED reading
  <2>1. CASE SendTask(c) \/ GivesUp(c) \/ Cancel(c)
    BY <2>1 DEF SendTask, GivesUp, Cancel
  <2>2. CASE Call(c)
    BY <2>2 DEF Call, Register, Encoded, Sent, Listened, Answered
  <2>3. CASE Work(c)
    BY <2>3, WorkTells
  <2>4. QED
    BY <1>2, <2>1, <2>2, <2>3
<1>3. ASSUME NEW r \in Readers, Read(r) \/ PopRaises(r) \/ Stopped(r)
      PROVE  ReadersKnown'
  <2>1. CASE Begin(r)
    BY <2>1 DEF Begin
  <2>2. CASE Pop(r)
    BY <2>2 DEF Pop
  <2>3. CASE Deliver(r) \/ PopRaises(r)
    BY <2>3 DEF Deliver, PopRaises
  <2>4. CASE Unwind(r)
    BY <2>4 DEF Unwind
  <2>5. CASE Stopped(r)
    BY <2>5 DEF Stopped
  <2>6. QED
    BY <1>3, <2>1, <2>2, <2>3, <2>4, <2>5 DEF Read
<1>4. CASE Start
  BY <1>4 DEF Start, ReaderRuns
<1>5. CASE Stop
  BY <1>5 DEF Stop, ReaderRuns
<1>6. CASE QueueExpires
  BY <1>6 DEF QueueExpires
<1>7. CASE Restart
  BY <1>7 DEF Restart
<1>8. QED
  BY <1>1, <1>2, <1>3, <1>4, <1>5, <1>6, <1>7 DEF Next, vars

LEMMA OnlyPayloads ==
    ASSUME CeleryAssumption, NEW c \in Calls, NEW r \in Readers, popped[r].call = c
    PROVE  popped[r] # NoPayload
BY DEF NoPayload, Payload, CeleryAssumption

(* The one reader whose hands count. *)
LEMMA OnlyTheRegisteredReads ==
    ASSUME TypeOK, CeleryAssumption, ReadersKnown, NEW c \in Calls,
           NEW r \in Readers \ cancelled, popped[r].call = c
    PROVE  popped[r] # NoPayload /\ registered = r /\ ReaderRuns
<1>1. popped[r] # NoPayload
  BY DEF NoPayload, Payload, CeleryAssumption
<1>2. QED
  BY <1>1 DEF ReadersKnown, Running, ReaderRuns

-----------------------------------------------------------------------------
(* The list                                                                 *)

LEMMA EnqueueElements ==
    ASSUME TypeOK, NEW c \in Calls, NEW o \in Said, Enqueue(c, o)
    PROVE  /\ Len(queue) \in Nat /\ DOMAIN queue = 1 .. Len(queue)
           /\ DOMAIN queue' = 1 .. Len(queue) + 1
           /\ \A i \in 1 .. Len(queue) : queue'[i] = queue[i]
           /\ queue'[Len(queue) + 1] = Payload(c, o)
           /\ first' = [first EXCEPT ![c] = IF @ = "none" THEN o ELSE @]
<1>1. Payload(c, o) \in Payloads
  BY DEF Payload, Payloads
<1>2. QED
  BY <1>1, AppendProperties, LenProperties DEF TypeOK, Enqueue

LEMMA TailElements ==
    ASSUME TypeOK, queue # << >>
    PROVE  /\ Len(queue) \in Nat \ {0} /\ DOMAIN queue = 1 .. Len(queue)
           /\ Head(queue) = queue[1] /\ Head(queue) \in Payloads
           /\ DOMAIN Tail(queue) = 1 .. Len(queue) - 1
           /\ \A i \in 1 .. Len(queue) - 1 : Tail(queue)[i] = queue[i + 1]
<1>1. Len(queue) \in Nat /\ DOMAIN queue = 1 .. Len(queue)
  BY LenProperties DEF TypeOK
<1>2. Len(queue) # 0
  BY EmptySeq DEF TypeOK
<1>3. /\ Tail(queue) \in Seq(Payloads) /\ Len(Tail(queue)) = Len(queue) - 1
      /\ \A i \in 1 .. Len(Tail(queue)) : Tail(queue)[i] = queue[i + 1]
  BY HeadTailProperties DEF TypeOK
<1>4. Head(queue) = queue[1] /\ Head(queue) \in Payloads
  BY HeadAndTail DEF TypeOK
<1>5. QED
  BY <1>1, <1>2, <1>3, <1>4, LenProperties

(* What is told of one call changes the history of that call only, and      *)
(* never a first payload.                                                   *)
LEMMA TellsFirst ==
    ASSUME TypeOK, NEW c \in Calls, Tells(c) \/ UNCHANGED <<queue, first, dropped>>
    PROVE  /\ \A d \in Calls : d # c => first'[d] = first[d] /\ (d \in dropped' <=> d \in dropped)
           /\ first[c] # "none" => first'[c] = first[c]
           /\ Tells(c) => first'[c] # "none" \/ c \in dropped'
           /\ dropped \subseteq dropped'
<1>1. ASSUME NEW o \in Said, Enqueue(c, o), UNCHANGED dropped
      PROVE  first' = [first EXCEPT ![c] = IF @ = "none" THEN o ELSE @] /\ o # "none"
  BY <1>1 DEF Enqueue, Said
<1>2. QED
  BY <1>1 DEF Tells, TypeOK

LEMMA StepFresh ==
    ASSUME TypeOK, RegistryIsTheUnresolved, FreshIsUnknown, [Next]_vars
    PROVE  FreshIsUnknown'
<1> USE DEF FreshIsUnknown
<1>1. CASE UNCHANGED <<pc, work, thread, answer, first>>
  BY <1>1
<1>2. CASE Emptied /\ UNCHANGED <<worker, first, thread>>
  BY <1>2 DEF Emptied, worker, RegistryIsTheUnresolved, InFlight
<1>3. ASSUME NEW c \in Calls, Call(c) \/ GivesUp(c) \/ Cancel(c)
      PROVE  FreshIsUnknown'
  <2>1. \A d \in Calls \ {c} : thread'[d] = thread[d]
    BY <1>3 DEF Call, Register, Encoded, Sent, Listened, Answered, GivesUp, Cancel, TypeOK
  <2>2. QED
    BY <1>3, <2>1, CallSteps DEF CallKeeps, worker
<1>4. ASSUME NEW c \in Calls, SendTask(c)
      PROVE  FreshIsUnknown'
  BY <1>4 DEF SendTask, TypeOK
<1>5. ASSUME NEW c \in Calls, Work(c)
      PROVE  FreshIsUnknown'
  BY <1>5, WorkTells, TellsFirst DEF client
<1>6. ASSUME NEW r \in Readers, Deliver(r)
      PROVE  FreshIsUnknown'
  <2>1. popped[r].call \in Calls
    BY <1>6 DEF Deliver, TypeOK, Payloads
  <2>2. QED
    BY <1>6, <2>1 DEF Deliver, Resolve, TypeOK, RegistryIsTheUnresolved, InFlight, worker
<1>7. ASSUME NEW r \in Readers, Read(r) \/ PopRaises(r) \/ Stopped(r)
      PROVE  FreshIsUnknown'
  <2>1. CASE Begin(r) \/ Pop(r) \/ PopRaises(r)
    BY <1>1, <2>1 DEF Begin, Pop, PopRaises, client, worker
  <2>2. CASE Unwind(r)
    BY <1>1, <1>2, <2>2, FailPendingEmpties DEF Unwind, worker
  <2>3. CASE Stopped(r)
    BY <1>2, <2>3, FailPendingEmpties DEF Stopped
  <2>4. QED
    BY <1>6, <1>7, <2>1, <2>2, <2>3 DEF Read
<1>8. CASE Start \/ QueueExpires
  BY <1>1, <1>8 DEF Start, QueueExpires, client, worker
<1>9. CASE Stop
  BY <1>1, <1>2, <1>9, FailPendingEmpties DEF Stop, client, worker
<1>10. CASE Restart
  BY <1>10 DEF Restart, worker, TypeOK
<1>11. QED
  BY <1>1, <1>3, <1>4, <1>5, <1>7, <1>8, <1>9, <1>10 DEF Next, vars, client, worker

(* A first payload never goes away, so only a new payload can break this.   *)
LEMMA StepFollow ==
    ASSUME TypeOK, PayloadsFollowTheFirst, [Next]_vars
    PROVE  PayloadsFollowTheFirst'
<1> USE DEF PayloadsFollowTheFirst, client, reading, worker
<1>1. CASE UNCHANGED <<queue, popped, first>>
  BY <1>1
<1>2. ASSUME NEW c \in Calls, Work(c)
      PROVE  PayloadsFollowTheFirst'
  <2>1. ASSUME NEW o \in Said, Enqueue(c, o)
        PROVE  \A i \in DOMAIN queue' : first'[queue'[i].call] # "none"
    <3>0. o # "none" /\ first \in [Calls -> Said \cup {"none"}]
      BY DEF Said, TypeOK
    <3>1. first'[c] # "none" /\ queue'[Len(queue) + 1].call = c
      <4>1. queue'[Len(queue) + 1] = Payload(c, o) /\ first' = [first EXCEPT ![c] = IF @ = "none" THEN o ELSE @]
        BY <2>1, EnqueueElements
      <4>2. first'[c] # "none"
        BY <3>0, <4>1
      <4>3. QED
        BY <4>1, <4>2 DEF Payload
    <3>2. ASSUME NEW i \in 1 .. Len(queue) PROVE first'[queue[i].call] # "none"
      <4>1. queue[i] \in Payloads
        BY ElementOfSeq DEF TypeOK
      <4>2. queue[i].call \in Calls
        BY <4>1 DEF Payloads
      <4>3. QED
        BY <2>1, <3>0, <3>1, <4>2, EnqueueElements
    <3>3. QED
      BY <2>1, <3>1, <3>2, EnqueueElements
  <2>2. \A r \in Readers : popped[r] # NoPayload => popped[r].call \in Calls
    BY DEF TypeOK, Payloads
  <2>3. QED
    BY <1>2, <2>1, <2>2, WorkTells, TellsFirst DEF Tells
<1>3. ASSUME NEW c \in Calls, Call(c) \/ GivesUp(c) \/ Cancel(c) \/ SendTask(c)
      PROVE  UNCHANGED <<queue, popped, first>>
  BY <1>3 DEF Call, Register, Encoded, Sent, Listened, Answered, GivesUp, Cancel, SendTask
<1>4. ASSUME NEW r \in Readers, Read(r) \/ PopRaises(r) \/ Stopped(r)
      PROVE  PayloadsFollowTheFirst'
  <2>1. CASE Begin(r) \/ Stopped(r)
    BY <1>1, <2>1 DEF Begin, Stopped
  <2>2. CASE Pop(r)
    BY <2>2, TailElements DEF Pop, TypeOK
  <2>3. CASE Deliver(r) \/ PopRaises(r) \/ Unwind(r)
    BY <2>3 DEF Deliver, PopRaises, Unwind, TypeOK
  <2>4. QED
    BY <1>4, <2>1, <2>2, <2>3 DEF Read
<1>5. CASE Start \/ Stop
  BY <1>1, <1>5 DEF Start, Stop
<1>6. CASE QueueExpires
  BY <1>6 DEF QueueExpires
<1>7. CASE Restart
  BY <1>7 DEF Restart
<1>8. QED
  BY <1>1, <1>2, <1>3, <1>4, <1>5, <1>6, <1>7 DEF Next, vars

-----------------------------------------------------------------------------
(* The first payload of a call is what its caller gets                      *)

LEMMA WorkPayloads ==
    ASSUME TypeOK, CeleryAssumption, PayloadsFollowTheFirst, FirstIsUnderWay, FirstIsNext,
           NEW c \in Calls, Work(c)
    PROVE  FirstIsUnderWay' /\ FirstIsNext'
<1> USE DEF client, reading
<1>1. UNCHANGED <<pending, answer, popped, cancelled>>
  BY WorkTells
<1>2. \A d \in Calls : Outstanding(d)' => Outstanding(d)
  BY <1>1, WorkTells, TellsFirst DEF Outstanding, Unresolved
<1>3. \A d \in Calls : InHand(d)' <=> InHand(d)
  BY <1>1 DEF InHand
<1>4. CASE \E o \in Said : Enqueue(c, o)
  <2>1. PICK o \in Said : Enqueue(c, o)
    BY <1>4
  <2> DEFINE n == Len(queue)
  <2>2. /\ n \in Nat /\ DOMAIN queue = 1 .. n /\ DOMAIN queue' = 1 .. n + 1
        /\ \A i \in 1 .. n : queue'[i] = queue[i]
        /\ queue'[n + 1].call = c /\ queue'[n + 1].says = o
        /\ first'[c] = IF first[c] = "none" THEN o ELSE first[c]
        /\ \A d \in Calls \ {c} : first'[d] = first[d]
    <3>1. /\ n \in Nat /\ DOMAIN queue = 1 .. n /\ DOMAIN queue' = 1 .. n + 1
          /\ \A i \in 1 .. n : queue'[i] = queue[i]
          /\ queue'[n + 1] = Payload(c, o)
          /\ first' = [first EXCEPT ![c] = IF @ = "none" THEN o ELSE @]
      BY <2>1, EnqueueElements
    <3>2. queue'[n + 1].call = c /\ queue'[n + 1].says = o
      BY <3>1 DEF Payload
    <3>3. first \in [Calls -> Said \cup {"none"}]
      BY DEF TypeOK
    <3>4. QED
      BY <3>1, <3>2, <3>3
  <2> HIDE DEF n
  <2>3. \A d \in Calls : Queued(d) => Queued(d)'
    BY <2>2 DEF Queued
  <2>4. Queued(c)'
    BY <2>2 DEF Queued
  <2>5. FirstIsUnderWay'
    BY <1>2, <1>3, <2>2, <2>3, <2>4 DEF FirstIsUnderWay
  <2>6. ASSUME NEW d \in Calls, Outstanding(d)',
               NEW r \in Readers \ cancelled, popped[r].call = d
        PROVE  popped[r].says = first'[d]
    <3>1. first[d] # "none" /\ popped[r].says = first[d]
      BY <1>2, <2>6, OnlyPayloads DEF FirstIsNext, PayloadsFollowTheFirst
    <3>2. QED
      BY <2>2, <3>1
  <2>7. ASSUME NEW d \in Calls, Outstanding(d)', ~InHand(d),
               NEW i \in 1 .. n + 1, queue'[i].call = d,
               \A j \in 1 .. i - 1 : queue'[j].call # d
        PROVE  queue'[i].says = first'[d]
    <3>1. CASE i \in 1 .. n
      <4>1. queue[i].call = d /\ \A j \in 1 .. i - 1 : queue[j].call # d
        BY <2>2, <2>7, <3>1
      <4>2. queue[i].says = first[d] /\ first[d] # "none"
        BY <1>2, <2>2, <2>7, <3>1, <4>1 DEF FirstIsNext, PayloadsFollowTheFirst
      <4>3. QED
        BY <2>2, <3>1, <4>2
    <3>2. CASE i = n + 1
      <4>1. d = c /\ ~Queued(c)
        BY <2>2, <2>7, <3>2 DEF Queued
      <4>2. first[c] = "none"
        BY <1>2, <2>7, <4>1 DEF FirstIsUnderWay
      <4>3. QED
        BY <2>2, <3>2, <4>1, <4>2
    <3>3. QED
      BY <2>2, <3>1, <3>2
  <2>8. FirstIsNext'
    BY <1>1, <1>3, <2>2, <2>6, <2>7 DEF FirstIsNext
  <2>9. QED
    BY <2>5, <2>8
<1>5. CASE UNCHANGED <<queue, first>>
  <2>1. \A d \in Calls : Queued(d)' <=> Queued(d)
    BY <1>5 DEF Queued
  <2>2. QED
    BY <1>1, <1>2, <1>3, <1>5, <2>1 DEF FirstIsUnderWay, FirstIsNext
<1>6. QED
  BY <1>4, <1>5, WorkTells DEF Tells

(* Nobody is outstanding. *)
LEMMA EmptiedPayloads ==
    ASSUME pending' = {}
    PROVE  FirstIsUnderWay' /\ FirstIsNext'
BY DEF FirstIsUnderWay, FirstIsNext, Outstanding, Unresolved

LEMMA PopPayloads ==
    ASSUME TypeOK, CeleryAssumption, ReadersKnown, FirstIsUnderWay, FirstIsNext,
           NEW r \in Readers, Pop(r)
    PROVE  FirstIsUnderWay' /\ FirstIsNext'
<1> USE DEF client
<1> DEFINE n == Len(queue)
           h == queue[1]
<1>1. /\ n \in Nat \ {0} /\ DOMAIN queue = 1 .. n
      /\ DOMAIN queue' = 1 .. n - 1
      /\ \A i \in 1 .. n - 1 : queue'[i] = queue[i + 1]
      /\ popped' = [popped EXCEPT ![r] = h]
  BY TailElements DEF Pop
<1>2. r \notin cancelled /\ popped[r] = NoPayload /\ UNCHANGED <<pending, answer, cancelled, first, dropped>>
  BY DEF Pop
<1>3. \A d \in Calls : Outstanding(d)' <=> Outstanding(d)
  BY <1>2 DEF Outstanding, Unresolved
<1>4. \A s \in Readers : popped'[s] = IF s = r THEN h ELSE popped[s]
  BY <1>1 DEF TypeOK
<1>5. \A d \in Calls : ~InHand(d)
  <2>1. ASSUME NEW d \in Calls, NEW s \in Readers \ cancelled, popped[s].call = d PROVE FALSE
    <3>1. popped[s] # NoPayload /\ registered = s
      BY <2>1, OnlyTheRegisteredReads
    <3>2. registered = r
      BY <1>2 DEF Pop, ReadersKnown, Running
    <3>3. QED
      BY <1>2, <3>1, <3>2
  <2>2. QED
    BY <2>1 DEF InHand
<1>6. \A d \in Calls : InHand(d)' <=> h.call = d
  BY <1>2, <1>4, <1>5 DEF InHand
<1> HIDE DEF n, h
<1>7. FirstIsUnderWay'
  <2>1. ASSUME NEW d \in Calls, Outstanding(d), first[d] # "none"
        PROVE  Queued(d)' \/ InHand(d)'
    <3>1. PICK i \in 1 .. n : queue[i].call = d
      BY <1>1, <1>5, <2>1 DEF FirstIsUnderWay, Queued
    <3>2. CASE i = 1
      BY <1>6, <3>1, <3>2 DEF h
    <3>3. CASE i # 1
      <4>1. i - 1 \in 1 .. n - 1 /\ queue'[i - 1] = queue[i]
        BY <1>1, <3>1, <3>3
      <4>2. QED
        BY <1>1, <3>1, <4>1 DEF Queued
    <3>4. QED
      BY <3>2, <3>3
  <2>2. QED
    BY <1>2, <1>3, <2>1 DEF FirstIsUnderWay
<1>8. FirstIsNext'
  <2>1. ASSUME NEW d \in Calls, Outstanding(d), NEW s \in Readers \ cancelled, popped'[s].call = d
        PROVE  popped'[s].says = first[d]
    <3>1. popped'[s] = h /\ h.call = d
      BY <1>4, <1>5, <2>1 DEF InHand
    <3>2. h.says = first[d]
      BY <1>1, <1>5, <2>1, <3>1 DEF FirstIsNext, h
    <3>3. QED
      BY <3>1, <3>2
  <2>2. ASSUME NEW d \in Calls, Outstanding(d), NEW i \in 1 .. n - 1, queue'[i].call = d, h.call # d,
               \A j \in 1 .. i - 1 : queue'[j].call # d
        PROVE  queue'[i].says = first[d]
    <3>1. queue[i + 1].call = d /\ queue'[i] = queue[i + 1] /\ i + 1 \in 1 .. n
      BY <1>1, <2>2
    <3>2. ASSUME NEW j \in 1 .. i PROVE queue[j].call # d
      <4>1. CASE j = 1
        BY <2>2, <4>1 DEF h
      <4>2. CASE j # 1
        <5>1. j - 1 \in 1 .. i - 1 /\ j - 1 \in 1 .. n - 1 /\ queue'[j - 1] = queue[j]
          BY <1>1, <4>2
        <5>2. QED
          BY <2>2, <5>1
      <4>3. QED
        BY <4>1, <4>2
    <3>3. \A j \in 1 .. (i + 1) - 1 : queue[j].call # d
      BY <3>2
    <3>4. QED
      BY <1>1, <1>5, <2>2, <3>1, <3>3 DEF FirstIsNext
  <2>3. QED
    BY <1>1, <1>2, <1>3, <1>6, <2>1, <2>2 DEF FirstIsNext
<1>9. QED
  BY <1>7, <1>8

(* A reader's hands are emptied: the call is resolved, or its payload lost. *)
LEMMA HandsEmptied ==
    ASSUME TypeOK, CeleryAssumption, FirstIsUnderWay, FirstIsNext,
           NEW r \in Readers, popped' = [popped EXCEPT ![r] = NoPayload],
           UNCHANGED <<queue, cancelled, first>>,
           \A d \in Calls : Outstanding(d)' => Outstanding(d) /\ (r \in cancelled \/ d # popped[r].call)
    PROVE  FirstIsUnderWay' /\ FirstIsNext'
<1>1. \A s \in Readers : popped'[s] = IF s = r THEN NoPayload ELSE popped[s]
  BY DEF TypeOK
<1>2. \A d \in Calls : NoPayload.call # d
  BY DEF NoPayload, Payload, CeleryAssumption
<1>3. \A d \in Calls : Outstanding(d)' => (InHand(d)' <=> InHand(d))
  BY <1>1, <1>2 DEF InHand
<1>4. \A d \in Calls : Queued(d)' <=> Queued(d)
  BY DEF Queued
<1>5. FirstIsUnderWay'
  BY <1>3, <1>4 DEF FirstIsUnderWay
<1>6. FirstIsNext'
  BY <1>1, <1>2, <1>3 DEF FirstIsNext
<1>7. QED
  BY <1>5, <1>6

LEMMA StepPayloads ==
    ASSUME TypeOK, CeleryAssumption, RegistryIsTheUnresolved, ReadersKnown, FreshIsUnknown,
           PayloadsFollowTheFirst, FirstIsUnderWay, FirstIsNext, [Next]_vars
    PROVE  FirstIsUnderWay' /\ FirstIsNext'
<1> USE DEF client, reading, worker
<1>1. ASSUME UNCHANGED <<queue, popped, cancelled, first>>,
             \A d \in Calls : Outstanding(d)' => Outstanding(d) \/ first[d] = "none"
      PROVE  FirstIsUnderWay' /\ FirstIsNext'
  <2>1. \A d \in Calls : (InHand(d)' <=> InHand(d)) /\ (Queued(d)' <=> Queued(d))
    BY <1>1 DEF InHand, Queued
  <2>2. \A d \in Calls : first[d] = "none" => ~InHand(d) /\ ~Queued(d)
    BY OnlyPayloads DEF PayloadsFollowTheFirst, InHand, Queued
  <2>3. QED
    BY <1>1, <2>1, <2>2 DEF FirstIsUnderWay, FirstIsNext, InHand, Queued
<1>2. CASE UNCHANGED vars
  BY <1>1, <1>2 DEF vars, Outstanding, Unresolved
<1>3. ASSUME NEW c \in Calls, Call(c) \/ GivesUp(c) \/ Cancel(c)
      PROVE  FirstIsUnderWay' /\ FirstIsNext'
  <2>1. \A d \in Calls : Outstanding(d)' => Outstanding(d) \/ first[d] = "none"
    BY <1>3, CallSteps DEF CallKeeps, Outstanding, Unresolved, FreshIsUnknown
  <2>2. QED
    BY <1>1, <1>3, <2>1, CallSteps DEF CallKeeps
<1>4. ASSUME NEW c \in Calls, SendTask(c)
      PROVE  FirstIsUnderWay' /\ FirstIsNext'
  BY <1>1, <1>4 DEF SendTask, Outstanding, Unresolved
<1>5. ASSUME NEW r \in Readers, Read(r) \/ PopRaises(r) \/ Stopped(r)
      PROVE  FirstIsUnderWay' /\ FirstIsNext'
  <2>1. CASE Begin(r)
    BY <1>1, <2>1 DEF Begin, Outstanding, Unresolved
  <2>2. CASE Deliver(r)
    <3>1. popped[r].call \notin pending' /\ dropped' = dropped /\ pending' \subseteq pending
          /\ \A d \in Calls : d # popped[r].call => answer'[d] = answer[d]
      BY <2>2 DEF Deliver, Resolve, TypeOK
    <3>2. \A d \in Calls : Outstanding(d)' => Outstanding(d) /\ d # popped[r].call
      BY <3>1 DEF Outstanding, Unresolved
    <3>3. QED
      BY <2>2, <3>2, HandsEmptied DEF Deliver
  <2>3. CASE PopRaises(r)
    <3>1. \A d \in Calls : Outstanding(d)' => Outstanding(d) /\ d # popped[r].call
      BY <2>3 DEF PopRaises, Outstanding, Unresolved
    <3>2. QED
      BY <2>3, <3>1, HandsEmptied DEF PopRaises
  <2>4. CASE Unwind(r) /\ FailPending
    BY <2>4, EmptiedPayloads DEF FailPending
  <2>5. CASE Unwind(r) /\ UNCHANGED <<pending, answer>>
    <3>1. r \in cancelled /\ \A d \in Calls : Outstanding(d)' => Outstanding(d)
      BY <2>5 DEF Unwind, Outstanding, Unresolved
    <3>2. QED
      BY <2>5, <3>1, HandsEmptied DEF Unwind
  <2>6. CASE Stopped(r)
    BY <2>6, EmptiedPayloads DEF Stopped, FailPending
  <2>7. CASE Pop(r)
    BY <2>7, PopPayloads
  <2>8. QED
    BY <1>5, <2>1, <2>2, <2>3, <2>4, <2>5, <2>6, <2>7 DEF Read, Unwind
<1>6. CASE Start
  BY <1>1, <1>6 DEF Start, Outstanding, Unresolved
<1>7. CASE Stop
  <2>1. CASE ~ReaderRuns
    BY <1>7, <2>1, EmptiedPayloads DEF Stop, FailPending
  <2>2. CASE ReaderRuns
    <3>1. /\ cancelled' = cancelled \cup {registered}
          /\ dropped' = dropped \cup ({popped[registered].call} \cap Calls)
          /\ UNCHANGED <<pending, answer, popped, queue, first>>
      BY <1>7, <2>2 DEF Stop
    <3>2. \A d \in Calls : Outstanding(d)' => Outstanding(d) /\ ~InHand(d) /\ ~InHand(d)'
      BY <3>1, OnlyTheRegisteredReads DEF Outstanding, Unresolved, InHand
    <3>3. \A d \in Calls : Queued(d)' <=> Queued(d)
      BY <3>1 DEF Queued
    <3>4. QED
      BY <3>1, <3>2, <3>3 DEF FirstIsUnderWay, FirstIsNext
  <2>3. QED
    BY <2>1, <2>2
<1>8. CASE QueueExpires
  <2>1. \A d \in Calls : Outstanding(d)' => Outstanding(d) /\ ~Queued(d)
    BY <1>8 DEF QueueExpires, Outstanding, Unresolved, Queued
  <2>2. \A d \in Calls : InHand(d)' <=> InHand(d)
    BY <1>8 DEF QueueExpires, InHand
  <2>3. QED
    BY <1>8, <2>1, <2>2 DEF QueueExpires, FirstIsUnderWay, FirstIsNext
<1>9. CASE Restart
  BY <1>9, EmptiedPayloads DEF Restart
<1>10. QED
  BY <1>2, <1>3, <1>4, <1>5, <1>6, <1>7, <1>8, <1>9, WorkPayloads DEF Next

LEMMA StepAnswer ==
    ASSUME TypeOK, CeleryAssumption, RegistryIsTheUnresolved, ReadersKnown, FirstIsNext,
           AnswerIsTheFirst, [Next]_vars
    PROVE  AnswerIsTheFirst'
<1> USE DEF AnswerIsTheFirst, client
<1>1. ASSUME \A d \in Calls : answer'[d] \in Said => answer'[d] = answer[d],
             UNCHANGED first, dropped \subseteq dropped'
      PROVE  AnswerIsTheFirst'
  BY <1>1
<1>2. CASE UNCHANGED vars
  BY <1>1, <1>2 DEF vars
<1>3. ASSUME NEW c \in Calls, Call(c) \/ GivesUp(c) \/ Cancel(c)
      PROVE  AnswerIsTheFirst'
  BY <1>1, <1>3, CallSteps DEF CallKeeps
<1>4. ASSUME NEW c \in Calls, SendTask(c)
      PROVE  AnswerIsTheFirst'
  BY <1>1, <1>4 DEF SendTask
<1>5. ASSUME NEW c \in Calls, Work(c)
      PROVE  AnswerIsTheFirst'
  BY <1>5, WorkTells, TellsFirst DEF Said
<1>6. ASSUME NEW r \in Readers, Deliver(r)
      PROVE  AnswerIsTheFirst'
  <2> DEFINE c == popped[r].call
  <2>1. c \in Calls /\ r \notin cancelled
    BY <1>6 DEF Deliver, TypeOK, Payloads
  <2>2. Outstanding(c) => popped[r].says = first[c]
    BY <2>1 DEF FirstIsNext
  <2>3. /\ \A d \in Calls \ {c} : answer'[d] = answer[d]
        /\ answer'[c] = IF Unresolved(c) THEN popped[r].says ELSE answer[c]
        /\ UNCHANGED <<first, dropped>>
    BY <1>6, <2>1 DEF Deliver, Resolve, Unresolved, TypeOK
  <2>4. QED
    BY <2>1, <2>2, <2>3 DEF Outstanding
<1>7. ASSUME NEW r \in Readers, Read(r) \/ PopRaises(r) \/ Stopped(r)
      PROVE  AnswerIsTheFirst'
  <2>1. CASE Begin(r) \/ Pop(r)
    BY <1>1, <2>1 DEF Begin, Pop
  <2>2. CASE PopRaises(r)
    BY <1>1, <2>2 DEF PopRaises
  <2>3. CASE Unwind(r) \/ Stopped(r)
    BY <1>1, <2>3, FailPendingEmpties DEF Unwind, Stopped, Emptied
  <2>4. QED
    BY <1>6, <1>7, <2>1, <2>2, <2>3 DEF Read
<1>8. CASE Start
  BY <1>1, <1>8 DEF Start
<1>9. CASE QueueExpires
  BY <1>1, <1>9 DEF QueueExpires
<1>10. CASE Stop
  BY <1>1, <1>10, FailPendingEmpties DEF Stop, Emptied
<1>11. CASE Restart
  BY <1>1, <1>11, RestartEmpties DEF Restart, Emptied
<1>12. QED
  BY <1>2, <1>3, <1>4, <1>5, <1>7, <1>8, <1>9, <1>10, <1>11 DEF Next

-----------------------------------------------------------------------------
(* The worker never ends silently                                           *)

LEMMA ReportTells ==
    ASSUME NEW c \in Calls, NEW p, NEW o \in Said, Report(p, c, o)
    PROVE  Tells(c) /\ reported' = reported \cup {<<p, c>>}
BY PushTells DEF Report

LEMMA WorkEnds ==
    ASSUME TypeOK, EndIsTold, NEW c \in Calls, Work(c)
    PROVE  EndIsTold'
<1> USE DEF TypeOK, InChild
<1>0. {"result", "error", "interrupted", "not_run", "failed"} = Said
  BY DEF Said
<1>1. \A d \in Calls : Told(d) => Told(d)'
  BY WorkTells, TellsFirst DEF Told
<1>2. Tells(c) => Told(c)'
  BY TellsFirst DEF Told
<1>3. ASSUME \/ Tells(c)
             \/ work'[c] \notin {"returning", "ended"} /\ UNCHANGED reported
             \/ work[c] = "returning" /\ UNCHANGED reported,
             reported' \subseteq reported \cup {<<p, c>> : p \in {"supervisor", "child"}}
      PROVE  EndIsTold'
  <2>1. \A d \in Calls \ {c} : work'[d] \in {"returning", "ended"} => Told(d)'
    BY <1>1, WorkTells DEF EndIsTold
  <2>2. work'[c] \in {"returning", "ended"} => Told(c)'
    BY <1>1, <1>2, <1>3 DEF EndIsTold
  <2>3. ASSUME NEW e \in reported' PROVE Told(e[2])'
    <3>1. CASE e \in reported
      BY <1>1, <3>1 DEF EndIsTold
    <3>2. CASE e \notin reported
      BY <1>2, <1>3, <3>2
    <3>3. QED
      BY <3>1, <3>2
  <2>4. QED
    BY <2>1, <2>2, <2>3 DEF EndIsTold
<1>4. CASE Take(c) \/ Raises(c) \/ Die(c)
  BY <1>3, <1>4 DEF Take, Raises, Die, WorkGoes
<1>5. CASE Returns(c) \/ Fail(c) \/ Exit(c)
  <2>1. Tells(c) \/ work'[c] = "failing"
    BY <1>0, <1>5, PushTells DEF Returns, Fail, Exit, WorkGoes
  <2>2. UNCHANGED reported
    BY <1>5 DEF Returns, Fail, Exit
  <2>3. QED
    BY <1>3, <2>1, <2>2
<1>6. CASE HandedIn(c)
  BY <1>3, <1>6 DEF HandedIn, WorkGoes
<1>7. CASE NotRun(c) \/ Interrupt(c) \/ InternalError(c)
  BY <1>0, <1>3, <1>7, ReportTells DEF NotRun, Interrupt, InternalError
<1>8. CASE MessageLost(c)
  BY <1>3, <1>8 DEF MessageLost, Tells
<1>9. QED
  BY <1>4, <1>5, <1>6, <1>7, <1>8 DEF Work, Execute

LEMMA StepEnds ==
    ASSUME TypeOK, RegistryIsTheUnresolved, EndIsTold, [Next]_vars
    PROVE  EndIsTold'
<1> USE DEF worker
<1>1. ASSUME UNCHANGED <<work, reported, first>>, dropped \subseteq dropped'
      PROVE  EndIsTold'
  BY <1>1 DEF EndIsTold, Told
<1>2. CASE UNCHANGED vars
  BY <1>1, <1>2 DEF vars
<1>3. ASSUME NEW c \in Calls, Call(c) \/ GivesUp(c) \/ Cancel(c)
      PROVE  EndIsTold'
  BY <1>1, <1>3, CallSteps DEF CallKeeps
<1>4. ASSUME NEW c \in Calls, SendTask(c)
      PROVE  EndIsTold'
  <2>1. \A d \in Calls : work'[d] = work[d] \/ work'[d] = "queued"
    BY <1>4 DEF SendTask, TypeOK
  <2>2. QED
    BY <1>4, <2>1 DEF SendTask, EndIsTold, Told
<1>5. ASSUME NEW r \in Readers, Read(r) \/ PopRaises(r) \/ Stopped(r)
      PROVE  EndIsTold'
  BY <1>1, <1>5 DEF Read, Begin, Pop, Deliver, Unwind, PopRaises, Stopped
<1>6. CASE Start \/ Stop \/ QueueExpires \/ Restart
  BY <1>1, <1>6 DEF Start, Stop, QueueExpires, Restart
<1>7. QED
  BY <1>2, <1>3, <1>4, <1>5, <1>6, WorkEnds DEF Next

-----------------------------------------------------------------------------
(* The theorems                                                             *)

LEMMA Inductive == Spec => []IInv
<1>1. Init => IInv
  BY InitIInv, CeleryAssumption
<1>2. IInv /\ [Next]_vars => IInv'
  BY CeleryAssumption, StepType, StepRegistry, StepReaders, StepFresh, StepFollow,
     StepPayloads, StepAnswer, StepEnds DEF IInv
<1>3. QED
  BY <1>1, <1>2, PTL DEF Spec

(* Every variable keeps its type. *)
THEOREM TypeCorrect == Spec => []TypeOK
<1>1. IInv => TypeOK
  BY DEF IInv
<1>2. QED
  BY <1>1, Inductive, PTL

(* client.py, result_reader.py: `_pending_futures` holds every unresolved    *)
(* call in flight, and no call that has ended.                               *)
THEOREM RegistryIsExact == Spec => []RegistryIsTheUnresolved
<1>1. IInv => RegistryIsTheUnresolved
  BY DEF IInv
<1>2. QED
  BY <1>1, Inductive, PTL

(* result_reader.py: two tasks never read one list, whatever stops, starts   *)
(* and restarts come together.                                               *)
THEOREM AtMostOneReader == Spec => []OneReader
<1>1. IInv => OneReader
  BY DEF IInv, ReadersKnown, OneReader
<1>2. QED
  BY <1>1, Inductive, PTL

(* server.py: of the payloads pushed for one call its caller gets the first, *)
(* unless one was lost.                                                      *)
THEOREM FirstIsAnswered == Spec => []FirstPayloadWins
<1>1. IInv => FirstPayloadWins
  BY DEF IInv, AnswerIsTheFirst, FirstPayloadWins
<1>2. QED
  BY <1>1, Inductive, PTL

(* server.py: when the worker is done with a call somebody waits for, a      *)
(* payload for it is on its way, unless one was lost.                        *)
THEOREM EndIsNeverSilent == Spec => []OutcomeIsOnItsWay
<1>1. IInv => OutcomeIsOnItsWay
  <2> SUFFICES ASSUME IInv, NEW c \in Calls,
                      work[c] = "ended" \/ (work[c] = "dead" /\ <<"supervisor", c>> \in reported),
                      InFlight(c), answer[c] = "pending", c \notin dropped
               PROVE  Queued(c) \/ InHand(c)
    BY DEF OutcomeIsOnItsWay, Queued, InHand
  <2>1. Outstanding(c)
    BY DEF IInv, RegistryIsTheUnresolved, Outstanding, Unresolved
  <2>2. Told(c)
    BY DEF IInv, EndIsTold
  <2>3. QED
    BY <2>1, <2>2 DEF IInv, FirstIsUnderWay, Told
<1>2. QED
  BY <1>1, Inductive, PTL
=============================================================================
