-------------------------- MODULE Idempotency_proofs --------------------------
(* Proofs about Idempotency for any number of calls, processes and          *)
(* fingerprints, and any of the faults.                                     *)
EXTENDS Idempotency, TLAPS

LEMMA InitTypeOK == Init => TypeOK
  BY IdempotencyAssumption
  DEF Init, TypeOK, PCs, Waiting, AttachedRemote, Records, NoRecord, Finishes, Modes, NotYet

LEMMA TypeOKStep == TypeOK /\ [Next]_vars => TypeOK'
<1> SUFFICES ASSUME TypeOK, [Next]_vars PROVE TypeOK'
  OBVIOUS
<1> USE IdempotencyAssumption
    DEF TypeOK, redis, local, history, Goto, PCs, Ended, Live, Waiting, AttachedRemote
<1> DEFINE Held == /\ record.owner \in Calls
                   /\ record.state \in {"running", "outcome"}
<1>a. record = NoRecord \/ Held
  BY DEF Records
<1>b. ASSUME NEW c \in Calls PROVE Proc(c) \in Procs
  BY DEF Proc
<1>c. ASSUME NEW c \in Calls, Leave(c)
      PROVE  /\ subs' \subseteq Calls /\ msgs' \subseteq Calls
             /\ waitsOn' \in [Calls -> Calls \cup {NoCall}]
             /\ asleep' \in [Calls -> {"none", "running", "outcome"}]
  BY <1>c DEF Leave
<1>1. ASSUME NEW c \in Calls, Claim(c) PROVE TypeOK'
  BY <1>1 DEF Claim, Records, Running, NoRecord
<1>2. ASSUME NEW c \in Calls, Lookup(c) PROVE TypeOK'
  <2>1. pc' \in [Calls -> PCs]
    BY <1>2 DEF Lookup, Judge
  <2>2. answeredBy' \in [Calls -> Calls \cup {NoCall}]
    BY <1>2, <1>a DEF Lookup, Judge, NoRecord
  <2>3. QED
    BY <1>2, <2>1, <2>2 DEF Lookup
<1>3. ASSUME NEW c \in Calls, Attach(c) PROVE TypeOK'
  <2>1. CASE runs[Proc(c)] = NoCall
    BY <1>3, <2>1 DEF Attach
  <2>2. CASE runs[Proc(c)] # NoCall
    BY <1>3, <1>b, <2>2 DEF Attach
  <2>3. QED
    BY <2>1, <2>2
<1>4. ASSUME NEW c \in Calls, WaitLocal(c) PROVE TypeOK'
  BY <1>4 DEF WaitLocal
<1>5. ASSUME NEW c \in Calls, PttlLocal(c) PROVE TypeOK'
  BY <1>5 DEF PttlLocal
<1>6. ASSUME NEW c \in Calls, AttachGet(c) PROVE TypeOK'
  <2>1. pc' \in [Calls -> PCs]
    BY <1>6 DEF AttachGet, Judge
  <2>2. /\ answeredBy' \in [Calls -> Calls \cup {NoCall}]
        /\ waitsOn' \in [Calls -> Calls \cup {NoCall}]
    BY <1>6, <1>a DEF AttachGet, Judge, NoRecord
  <2>3. QED
    BY <1>6, <2>1, <2>2 DEF AttachGet
<1>7. ASSUME NEW c \in Calls, AttachMark(c) PROVE TypeOK'
  BY <1>7 DEF AttachMark
<1>8. ASSUME NEW c \in Calls, Subscribe(c) PROVE TypeOK'
  BY <1>8 DEF Subscribe
<1>9. ASSUME NEW c \in Calls, Reread(c) PROVE TypeOK'
  <2>1. pc' \in [Calls -> PCs]
    BY <1>9 DEF Reread, Judge
  <2>2. answeredBy' \in [Calls -> Calls \cup {NoCall}]
    BY <1>9, <1>a DEF Reread, Judge, NoRecord
  <2>3. Leave(c) \/ UNCHANGED <<subs, msgs, waitsOn, asleep>>
    BY <1>9 DEF Reread
  <2>4. QED
    BY <1>9, <2>1, <2>2, <2>3, <1>c DEF Reread
<1>10. ASSUME NEW c \in Calls, PttlRemote(c) PROVE TypeOK'
  <2>1. pc' \in [Calls -> PCs]
    BY <1>10 DEF PttlRemote
  <2>2. CASE Leave(c)
    BY <1>10, <2>1, <2>2, <1>c DEF PttlRemote
  <2>3. CASE record # NoRecord /\ asleep' = [asleep EXCEPT ![c] = record.state]
             /\ UNCHANGED <<subs, msgs, waitsOn>>
    BY <1>10, <2>1, <2>3, <1>a DEF PttlRemote
  <2>4. QED
    BY <1>10, <2>2, <2>3 DEF PttlRemote
<1>11. ASSUME NEW c \in Calls, Wake(c) PROVE TypeOK'
  BY <1>11 DEF Wake
<1>12. ASSUME NEW c \in Calls, StartRun(c) PROVE TypeOK'
  BY <1>12 DEF StartRun
<1>13. ASSUME NEW c \in Calls, NEW e \in Endings, Complete(c, e) PROVE TypeOK'
  BY <1>13 DEF Complete, FinishMode, Finishes, Modes
<1>14. ASSUME NEW c \in Calls, FinishScript(c) PROVE TypeOK'
  BY <1>14 DEF FinishScript, FinishEffect, Records, Stored, NoRecord
<1>15. ASSUME NEW c \in Calls, Publish(c) PROVE TypeOK'
  BY <1>15 DEF Publish
<1>16. ASSUME NEW c \in Calls, Resolve(c) PROVE TypeOK'
  BY <1>16 DEF Resolve, Finishes
<1>17. CASE OrphanExpires
  BY <1>17 DEF OrphanExpires, Expire, Records, NoRecord
<1>18. CASE OutcomeExpires
  BY <1>18 DEF OutcomeExpires, Expire, Records, NoRecord
<1>19. CASE Lapse
  BY <1>19 DEF Lapse, Expire, Records, NoRecord
<1>20. ASSUME NEW c \in Calls, FinishFails(c) PROVE TypeOK'
  BY <1>20 DEF FinishFails
<1>21. ASSUME NEW c \in Calls, PublishFails(c) PROVE TypeOK'
  BY <1>21 DEF PublishFails
<1>22. ASSUME NEW c \in Calls, Abandon(c) PROVE TypeOK'
  BY <1>22 DEF Abandon, Leave
<1>23. ASSUME NEW p \in Procs, Crash(p) PROVE TypeOK'
  BY <1>23 DEF Crash
<1>24. CASE UNCHANGED vars
  BY <1>24 DEF vars
<1>25. QED
  BY <1>1, <1>2, <1>3, <1>4, <1>5, <1>6, <1>7, <1>8, <1>9, <1>10, <1>11, <1>12, <1>13,
     <1>14, <1>15, <1>16, <1>17, <1>18, <1>19, <1>20, <1>21, <1>22, <1>23, <1>24
  DEF Next, Step, Wait, Run, Fault, AllEnded

(* Type correctness of the middleware's state, in its processes and in     *)
(* Redis.                                                                   *)
THEOREM TypeCorrect == Spec => []TypeOK
  BY InitTypeOK, TypeOKStep, PTL DEF Spec


-----------------------------------------------------------------------------
(* What the steps have in common                                            *)

(* The steps of a call that neither claims nor runs. *)
Look(c) == \/ Lookup(c) \/ Attach(c) \/ WaitLocal(c) \/ PttlLocal(c) \/ AttachGet(c)
           \/ AttachMark(c) \/ Subscribe(c) \/ Reread(c) \/ PttlRemote(c) \/ Wake(c)

(* A call that looks changes nobody's record, run or future, and moves only *)
(* itself, among the awaits of a waiting call or to an answer.              *)
LEMMA LookEffect ==
    ASSUME TypeOK, NEW c \in Calls, Look(c)
    PROVE  /\ UNCHANGED <<req, record, runs, future, fin, history>>
           /\ pc[c] \in Waiting
           /\ pc'[c] \in Waiting \cup {"replayed", "reused"}
           /\ \A d \in Calls : d # c => pc'[d] = pc[d] /\ waitsOn'[d] = waitsOn[d]
                                        /\ answeredBy'[d] = answeredBy[d]
<1> USE DEF TypeOK, redis, local, history, Goto, Waiting, AttachedRemote
<1>1. CASE Lookup(c)
  BY <1>1 DEF Lookup, Judge
<1>2. CASE Attach(c)
  BY <1>2 DEF Attach
<1>3. CASE WaitLocal(c)
  BY <1>3 DEF WaitLocal
<1>4. CASE PttlLocal(c)
  BY <1>4 DEF PttlLocal
<1>5. CASE AttachGet(c)
  BY <1>5 DEF AttachGet, Judge
<1>6. CASE AttachMark(c)
  BY <1>6 DEF AttachMark
<1>7. CASE Subscribe(c)
  BY <1>7 DEF Subscribe
<1>8. CASE Reread(c)
  BY <1>8 DEF Reread, Judge, Leave
<1>9. CASE PttlRemote(c)
  BY <1>9 DEF PttlRemote, Leave
<1>10. CASE Wake(c)
  BY <1>10 DEF Wake
<1>11. QED
  BY <1>1, <1>2, <1>3, <1>4, <1>5, <1>6, <1>7, <1>8, <1>9, <1>10 DEF Look

(* The steps of a run that leave the record alone. *)
Quiet(c) == StartRun(c) \/ (\E e \in Endings : Complete(c, e)) \/ Publish(c) \/ Resolve(c)
            \/ FinishFails(c) \/ PublishFails(c)

(* They move a call that claimed on towards its end, and record what it     *)
(* performed.                                                               *)
LEMMA QuietEffect ==
    ASSUME TypeOK, NEW c \in Calls, Quiet(c)
    PROVE  /\ UNCHANGED <<req, record, mark, waitsOn, answeredBy, lost>>
           /\ Began(c) /\ pc'[c] \in {"running", "finish", "publish", "resolve", "ran"}
           /\ \A d \in Calls : d # c => pc'[d] = pc[d]
           /\ performed' \subseteq performed \cup {c}
<1> USE DEF TypeOK, redis, local, history, Goto, Began, Live
<1>1. CASE StartRun(c)
  BY <1>1 DEF StartRun
<1>2. ASSUME NEW e \in Endings, Complete(c, e)
      PROVE  /\ UNCHANGED <<req, record, mark, waitsOn, answeredBy, lost>>
             /\ Began(c) /\ pc'[c] \in {"running", "finish", "publish", "resolve", "ran"}
             /\ \A d \in Calls : d # c => pc'[d] = pc[d]
             /\ performed' \subseteq performed \cup {c}
  BY <1>2 DEF Complete
<1>3. CASE Publish(c)
  BY <1>3 DEF Publish
<1>4. CASE Resolve(c)
  BY <1>4 DEF Resolve
<1>5. CASE FinishFails(c)
  BY <1>5 DEF FinishFails
<1>6. CASE PublishFails(c)
  BY <1>6 DEF PublishFails
<1>7. QED
  BY <1>1, <1>2, <1>3, <1>4, <1>5, <1>6 DEF Quiet

(* Time takes the record, and nothing else. *)
LEMMA ExpiryEffect ==
    ASSUME TypeOK, OrphanExpires \/ OutcomeExpires \/ Lapse
    PROVE  /\ UNCHANGED <<req, pc, runs, attached, future, fin, waitsOn, answeredBy, performed>>
           /\ record # NoRecord /\ record.owner \in Calls
           /\ record' = NoRecord /\ mark' = "none" /\ lost' = lost \cup {record.owner}
  BY DEF TypeOK, OrphanExpires, OutcomeExpires, Lapse, Expire, local, history, Records, NoRecord

(* Calls that are given up, or whose process dies, stop where they are.     *)
Dies == (\E c \in Calls : Abandon(c)) \/ (\E p \in Procs : Crash(p))

LEMMA DeathEffect ==
    ASSUME TypeOK, Dies
    PROVE  /\ UNCHANGED <<req, record, mark, attached, future, fin, answeredBy, performed, lost>>
           /\ \A d \in Calls : \/ pc'[d] = pc[d] /\ waitsOn'[d] = waitsOn[d]
                               \/ pc'[d] = "gone"
           /\ \A p \in Procs : runs'[p] = runs[p] \/ runs'[p] = NoCall
<1> USE DEF TypeOK, redis, local, history, Goto
<1>1. ASSUME NEW c \in Calls, Abandon(c)
      PROVE  /\ UNCHANGED <<req, record, mark, runs, attached, future, fin, answeredBy, performed, lost>>
             /\ \A d \in Calls : \/ pc'[d] = pc[d] /\ waitsOn'[d] = waitsOn[d]
                                 \/ pc'[d] = "gone"
  BY <1>1 DEF Abandon, Leave
<1>2. ASSUME NEW p \in Procs, Crash(p)
      PROVE  /\ UNCHANGED <<req, record, mark, attached, future, fin, answeredBy, performed, lost>>
             /\ \A d \in Calls : \/ pc'[d] = pc[d] /\ waitsOn'[d] = waitsOn[d]
                                 \/ pc'[d] = "gone"
             /\ \A q \in Procs : runs'[q] = runs[q] \/ runs'[q] = NoCall
  BY <1>2 DEF Crash
<1>3. QED
  BY <1>1, <1>2 DEF Dies

(* Every step is one of these kinds. *)
LEMMA Kinds ==
    ASSUME [Next]_vars
    PROVE  \/ \E c \in Calls : Claim(c)
           \/ \E c \in Calls : Look(c)
           \/ \E c \in Calls : Quiet(c)
           \/ \E c \in Calls : FinishScript(c)
           \/ OrphanExpires \/ OutcomeExpires \/ Lapse
           \/ Dies
           \/ UNCHANGED vars
  BY DEF Next, Step, Wait, Run, Fault, AllEnded, Look, Quiet, Dies

-----------------------------------------------------------------------------
(* The inductive invariant                                                  *)

LEMMA InitIInv == Init => IInv
<1> SUFFICES ASSUME Init PROVE IInv
  OBVIOUS
<1>1. TypeOK
  BY InitTypeOK
<1>2. QED
  BY <1>1, IdempotencyAssumption
  DEF Init, IInv, Owned, Began, Live, HolderClaimed, WaitedForClaimed, AttachedRemote, ReadItsOwn,
      WaitsAtHome, PendingTillEnd, MismatchNeedsALostRecord, NobodyWaitsInVain,
      MarkHasItsRecord, RemoteWaiterIsCounted

(* Claiming needs the record gone, so whoever claimed before has lost it;   *)
(* a finish script ends only its own record.                                *)
LEMMA OwnedStep == IInv /\ [Next]_vars => Owned'
<1> SUFFICES ASSUME IInv, [Next]_vars, NEW d \in Calls, Began(d)' \/ d \in performed'
             PROVE  record'.owner = d \/ d \in lost'
  BY DEF Owned
<1> USE DEF IInv, Owned, Began, Live
<1>1. ASSUME NEW c \in Calls, Claim(c) PROVE record'.owner = d \/ d \in lost'
  BY <1>1, IdempotencyAssumption DEF Claim, Goto, TypeOK, Running, NoRecord, history, Waiting
<1>2. ASSUME NEW c \in Calls, Look(c) PROVE record'.owner = d \/ d \in lost'
  BY <1>2, LookEffect DEF history, Waiting, AttachedRemote
<1>3. ASSUME NEW c \in Calls, Quiet(c) PROVE record'.owner = d \/ d \in lost'
  BY <1>3, QuietEffect
<1>4. ASSUME NEW c \in Calls, FinishScript(c) PROVE record'.owner = d \/ d \in lost'
  BY <1>4 DEF FinishScript, FinishEffect, Goto, TypeOK, Running, Stored, NoRecord
<1>5. CASE OrphanExpires \/ OutcomeExpires \/ Lapse
  BY <1>5, ExpiryEffect
<1>6. CASE Dies
  BY <1>6, DeathEffect
<1>7. CASE UNCHANGED vars
  BY <1>7 DEF vars, redis, history
<1>8. QED
  BY <1>1, <1>2, <1>3, <1>4, <1>5, <1>6, <1>7, Kinds

LEMMA HolderClaimedStep == IInv /\ [Next]_vars => HolderClaimed'
<1> SUFFICES ASSUME IInv, [Next]_vars, record' # NoRecord
             PROVE  pc'[record'.owner] \notin Waiting
  BY DEF HolderClaimed, NoRecord
<1> USE DEF IInv, HolderClaimed
<1>1. ASSUME NEW c \in Calls, Claim(c) PROVE pc'[record'.owner] \notin Waiting
  BY <1>1 DEF Claim, Goto, TypeOK, Running, NoRecord, Waiting, AttachedRemote, Records
<1>2. ASSUME NEW c \in Calls, Look(c) PROVE pc'[record'.owner] \notin Waiting
  BY <1>2, LookEffect DEF TypeOK, Records
<1>3. ASSUME NEW c \in Calls, Quiet(c) PROVE pc'[record'.owner] \notin Waiting
  BY <1>3, QuietEffect DEF TypeOK, Records, Waiting, AttachedRemote
<1>4. ASSUME NEW c \in Calls, FinishScript(c) PROVE pc'[record'.owner] \notin Waiting
  BY <1>4 DEF FinishScript, FinishEffect, Goto, TypeOK, Records, Running, Stored, NoRecord, Waiting,
              AttachedRemote
<1>5. CASE OrphanExpires \/ OutcomeExpires \/ Lapse
  BY <1>5, ExpiryEffect
<1>6. CASE Dies
  BY <1>6, DeathEffect DEF TypeOK, Records, Waiting, AttachedRemote
<1>7. CASE UNCHANGED vars
  BY <1>7 DEF vars, redis
<1>8. QED
  BY <1>1, <1>2, <1>3, <1>4, <1>5, <1>6, <1>7, Kinds

(* A call waits through Redis for the owner of a record it read. *)
LEMMA WaitedForClaimedStep == IInv /\ [Next]_vars => WaitedForClaimed'
<1> DEFINE OK(d) == waitsOn[d] \in Calls /\ pc[waitsOn[d]] \notin Waiting
<1> SUFFICES ASSUME IInv, [Next]_vars, NEW d \in Calls,
                    pc'[d] \in {"attachMark"} \cup AttachedRemote
             PROVE  OK(d)'
  BY DEF WaitedForClaimed
<1> USE DEF IInv, WaitedForClaimed
<1>1. ASSUME NEW c \in Calls, Claim(c) PROVE OK(d)'
  BY <1>1 DEF Claim, Goto, TypeOK, Waiting, AttachedRemote
<1>2. ASSUME NEW c \in Calls, Look(c) PROVE OK(d)'
  <2>0. \A e \in Calls : pc[e] \notin Waiting => pc'[e] \notin Waiting
    BY <1>2, LookEffect
  <2>1. CASE d # c
    BY <1>2, <2>0, <2>1, LookEffect
  <2>2. CASE d = c /\ AttachGet(c)
    BY <2>0, <2>2 DEF AttachGet, Judge, Goto, TypeOK, Records, NoRecord, HolderClaimed, AttachedRemote
  <2>3. CASE d = c /\ ~ AttachGet(c)
    <3>1. pc[d] \in {"attachMark"} \cup AttachedRemote /\ waitsOn'[d] = waitsOn[d]
      BY <1>2, <2>3 DEF Look, Lookup, Judge, Attach, WaitLocal, PttlLocal, AttachMark, Subscribe,
            Reread, PttlRemote, Wake, Leave, Goto, TypeOK, AttachedRemote
    <3>2. QED
      BY <2>0, <3>1
  <2>4. QED
    BY <2>1, <2>2, <2>3
<1>3. ASSUME NEW c \in Calls, Quiet(c) PROVE OK(d)'
  BY <1>3, QuietEffect DEF Waiting, AttachedRemote
<1>4. ASSUME NEW c \in Calls, FinishScript(c) PROVE OK(d)'
  BY <1>4 DEF FinishScript, Goto, TypeOK, Waiting, AttachedRemote
<1>5. CASE OrphanExpires \/ OutcomeExpires \/ Lapse
  BY <1>5, ExpiryEffect
<1>6. CASE Dies
  BY <1>6, DeathEffect DEF Waiting, AttachedRemote
<1>7. CASE UNCHANGED vars
  BY <1>7 DEF vars
<1>8. QED
  BY <1>1, <1>2, <1>3, <1>4, <1>5, <1>6, <1>7, Kinds

(* What is lost stays lost, and a record that goes is lost. *)
LEMMA LostGrows ==
    ASSUME TypeOK, [Next]_vars
    PROVE  /\ UNCHANGED req
           /\ lost \subseteq lost'
           /\ record # NoRecord => record.owner = record'.owner \/ record.owner \in lost'
<1> DEFINE G == /\ UNCHANGED req
                /\ lost \subseteq lost'
                /\ record # NoRecord => record.owner = record'.owner \/ record.owner \in lost'
<1>1. ASSUME NEW c \in Calls, Claim(c) PROVE G
  BY <1>1 DEF Claim, history
<1>2. ASSUME NEW c \in Calls, Look(c) PROVE G
  BY <1>2, LookEffect DEF history
<1>3. ASSUME NEW c \in Calls, Quiet(c) PROVE G
  BY <1>3, QuietEffect
<1>4. ASSUME NEW c \in Calls, FinishScript(c) PROVE G
  BY <1>4 DEF FinishScript, FinishEffect, Running, Stored, NoRecord
<1>5. CASE OrphanExpires \/ OutcomeExpires \/ Lapse
  BY <1>5, ExpiryEffect
<1>6. CASE Dies
  BY <1>6, DeathEffect
<1>7. CASE UNCHANGED vars
  BY <1>7 DEF vars, redis, history
<1>8. QED
  BY <1>1, <1>2, <1>3, <1>4, <1>5, <1>6, <1>7, Kinds

LEMMA ReadItsOwnStep == IInv /\ [Next]_vars => ReadItsOwn'
<1> DEFINE Alike(d) == record # NoRecord /\ Fp(record.owner) = Fp(d)
<1> SUFFICES ASSUME IInv, [Next]_vars, NEW d \in Calls, pc'[d] = "attach"
             PROVE  Alike(d)' \/ LostAlike(d)'
  BY DEF ReadItsOwn
<1>g. /\ UNCHANGED req
      /\ lost \subseteq lost'
      /\ record # NoRecord => record.owner = record'.owner \/ record.owner \in lost'
  BY LostGrows DEF IInv
<1>1. CASE pc[d] = "attach"
  <2>1. CASE LostAlike(d)
    BY <2>1, <1>g DEF LostAlike, Fp
  <2>2. CASE Alike(d)
    <3>1. record.owner \in Calls /\ NoRecord.owner = NoCall
      BY <2>2 DEF IInv, TypeOK, Records, NoRecord
    <3>2. QED
      BY <2>2, <1>g, <3>1, IdempotencyAssumption DEF LostAlike, Fp
  <2>3. QED
    BY <1>1, <2>1, <2>2 DEF IInv, ReadItsOwn
<1>2. CASE pc[d] # "attach"
  <2>2. CASE Lookup(d)
    BY <2>2, <1>2, <1>g DEF Lookup, Judge, Goto, IInv, TypeOK, redis, Fp, NoRecord
  <2>3. CASE ~ Lookup(d)
    <3>1. ASSUME NEW c \in Calls, Look(c) PROVE FALSE
      <4>1. c = d
        BY <3>1, <1>2, LookEffect DEF IInv
      <4>2. QED
        BY <3>1, <4>1, <1>2, <2>3 DEF Look, Attach, WaitLocal, PttlLocal, AttachGet, Judge,
           AttachMark, Subscribe, Reread, PttlRemote, Wake, Goto, IInv, TypeOK
    <3>2. ASSUME NEW c \in Calls, Claim(c) \/ FinishScript(c) PROVE FALSE
      BY <3>2, <1>2 DEF Claim, FinishScript, Goto, IInv, TypeOK
    <3>3. ASSUME NEW c \in Calls, Quiet(c) PROVE FALSE
      BY <3>3, <1>2, QuietEffect DEF IInv
    <3>4. CASE Dies
      BY <3>4, <1>2, DeathEffect DEF IInv
    <3>5. CASE OrphanExpires \/ OutcomeExpires \/ Lapse
      BY <3>5, <1>2, ExpiryEffect DEF IInv
    <3>6. CASE UNCHANGED vars
      BY <3>6, <1>2 DEF vars
    <3>7. QED
      BY <3>1, <3>2, <3>3, <3>4, <3>5, <3>6, Kinds
  <2>4. QED
    BY <2>2, <2>3
<1>3. QED
  BY <1>1, <1>2

(* `_attach` takes the run its process holds: either the run of the record  *)
(* it read, or one of the two has lost its record.                          *)
LEMMA WaitsAtHomeStep == IInv /\ [Next]_vars => WaitsAtHome'
<1> DEFINE AtHome(d) == waitsOn[d] \in Calls /\ Proc(waitsOn[d]) = Proc(d)
           Excused(d) == Fp(waitsOn[d]) = Fp(d) \/ waitsOn[d] \in lost \/ LostAlike(d)
           Local(d) == pc[d] \in {"waitLocal", "pttlLocal"}
<1> SUFFICES ASSUME IInv, [Next]_vars, NEW d \in Calls, Local(d)'
             PROVE  AtHome(d)' /\ Excused(d)'
  BY DEF WaitsAtHome
<1>g. UNCHANGED req /\ lost \subseteq lost'
  BY LostGrows DEF IInv
<1>h. Local(d) => AtHome(d) /\ Excused(d)
  BY DEF IInv, WaitsAtHome
<1>1. CASE Local(d) /\ waitsOn'[d] = waitsOn[d]
  BY <1>1, <1>g, <1>h DEF LostAlike, Fp, Proc
<1>2. CASE Attach(d)
  <2> DEFINE r == runs[Proc(d)]
  <2>1. r \in Calls /\ waitsOn'[d] = r /\ pc[d] = "attach" /\ lost' = lost
    BY <1>2 DEF Attach, Goto, IInv, TypeOK, Proc, history
  <2>2. Proc(r) = Proc(d) /\ Began(r)
    <3>1. Proc(d) \in Procs /\ r # NoCall
      BY <2>1, IdempotencyAssumption DEF IInv, TypeOK, Proc
    <3>2. QED
      BY <3>1 DEF IInv, NobodyWaitsInVain, Began, Live
  <2>3. record.owner = r \/ r \in lost
    BY <2>1, <2>2 DEF IInv, Owned
  <2>4. Fp(record.owner) = Fp(d) \/ LostAlike(d)
    BY <2>1 DEF IInv, ReadItsOwn
  <2>5. QED
    BY <1>g, <2>1, <2>2, <2>3, <2>4 DEF LostAlike, Fp, Proc
<1>3. CASE ~ Attach(d) /\ ~ (Local(d) /\ waitsOn'[d] = waitsOn[d])
  <2> USE DEF IInv, TypeOK
  <2>1. ASSUME NEW c \in Calls, Look(c) PROVE FALSE
    <3>1. CASE c # d
      BY <2>1, <3>1, <1>3, LookEffect
    <3>2. CASE c = d
      BY <2>1, <3>2, <1>3 DEF Look, Lookup, WaitLocal, PttlLocal, AttachGet, Judge,
         AttachMark, Subscribe, Reread, PttlRemote, Wake, Goto
    <3>3. QED
      BY <3>1, <3>2
  <2>2. ASSUME NEW c \in Calls, Claim(c) \/ FinishScript(c) PROVE FALSE
    BY <2>2, <1>3 DEF Claim, FinishScript, Goto
  <2>3. ASSUME NEW c \in Calls, Quiet(c) PROVE FALSE
    BY <2>3, <1>3, QuietEffect
  <2>4. CASE Dies
    BY <2>4, <1>3, DeathEffect
  <2>5. CASE OrphanExpires \/ OutcomeExpires \/ Lapse
    BY <2>5, <1>3, ExpiryEffect
  <2>6. CASE UNCHANGED vars
    BY <2>6, <1>3 DEF vars
  <2>7. QED
    BY <2>1, <2>2, <2>3, <2>4, <2>5, <2>6, Kinds
<1>4. QED
  BY <1>1, <1>2, <1>3

(* An answer comes from the record, whose fingerprint was compared, or from *)
(* the future of a run the call waited for at home.                         *)
LEMMA MismatchStep == IInv /\ [Next]_vars => MismatchNeedsALostRecord'
<1> SUFFICES ASSUME IInv, [Next]_vars, NEW d \in Calls,
                    answeredBy'[d] # NoCall, Fp(answeredBy[d])' # Fp(d)'
             PROVE  answeredBy'[d] \in lost' \/ LostAlike(d)'
  BY DEF MismatchNeedsALostRecord, LostAlike
<1>g. UNCHANGED req /\ lost \subseteq lost'
  BY LostGrows DEF IInv
<1>1. CASE answeredBy'[d] = answeredBy[d]
  BY <1>1, <1>g DEF IInv, MismatchNeedsALostRecord, LostAlike, Fp
<1>2. CASE answeredBy'[d] # answeredBy[d]
  <2>1. PICK c \in Calls : Look(c)
    BY <1>2, Kinds, QuietEffect, ExpiryEffect, DeathEffect DEF Claim, FinishScript, vars, IInv
  <2>2. c = d /\ lost' = lost
    BY <1>2, <2>1, LookEffect DEF IInv, history
  <2>3. CASE WaitLocal(d)
    <3>1. answeredBy'[d] = waitsOn[d]
      BY <1>2, <2>3 DEF WaitLocal, IInv, TypeOK
    <3>2. QED
      BY <2>2, <2>3, <3>1, <1>g DEF WaitLocal, IInv, WaitsAtHome, LostAlike, Fp
  <2>4. CASE ~ WaitLocal(d)
    <3>1. answeredBy'[d] = record.owner /\ Fp(record.owner) = Fp(d)
      BY <1>2, <2>1, <2>2, <2>4 DEF Look, Lookup, Attach, PttlLocal, AttachGet, Judge,
         AttachMark, Subscribe, Reread, PttlRemote, Wake, IInv, TypeOK
    <3>2. QED
      BY <3>1, <1>g DEF Fp
  <2>5. QED
    BY <2>3, <2>4
<1>3. QED
  BY <1>1, <1>2

Awaited(r) == pc[r] \in {"running", "finish", "publish", "resolve"}
AtLocal(d) == pc[d] \in {"waitLocal", "pttlLocal"}

HeldRuns == \A p \in Procs : runs[p] # NoCall =>
                Awaited(runs[p]) /\ Proc(runs[p]) = p /\ future[runs[p]] = "pending"
LocalWaits == \A d \in Calls : AtLocal(d) =>
                waitsOn[d] # NoCall /\ (future[waitsOn[d]] # "pending" \/ Awaited(waitsOn[d]))

LEMMA VainParts == NobodyWaitsInVain <=> HeldRuns /\ LocalWaits
  BY DEF NobodyWaitsInVain, HeldRuns, LocalWaits, Awaited, AtLocal

(* A step that ends no run and makes nobody wait keeps both. *)
LEMMA CalmStep ==
    ASSUME TypeOK, HeldRuns, LocalWaits, UNCHANGED <<req, runs, future>>,
           \A r \in Calls : Awaited(r) => Awaited(r)',
           \A d \in Calls : AtLocal(d)' => AtLocal(d) /\ waitsOn'[d] = waitsOn[d]
    PROVE  HeldRuns' /\ LocalWaits'
<1>1. HeldRuns'
  BY DEF TypeOK, HeldRuns, Proc
<1>2. LocalWaits'
  BY DEF TypeOK, LocalWaits
<1>3. QED
  BY <1>1, <1>2

(* Whoever is in `_runs`, and whoever is waited for, goes on to `_finish`   *)
(* and resolves its future on the way out; a process that dies takes the    *)
(* run and those who wait for it along.                                     *)
LEMMA NobodyWaitsInVainStep == IInv /\ [Next]_vars => NobodyWaitsInVain'
<1> SUFFICES ASSUME IInv, [Next]_vars PROVE HeldRuns' /\ LocalWaits'
  BY VainParts DEF NobodyWaitsInVain, HeldRuns, LocalWaits, Awaited, AtLocal
<1>k. TypeOK /\ HeldRuns /\ LocalWaits
  BY VainParts DEF IInv
<1>n. NoCall \notin Calls
  BY IdempotencyAssumption
<1> USE DEF TypeOK, redis, local, history, Goto, Awaited, AtLocal
<1>1. ASSUME NEW c \in Calls, Claim(c) PROVE HeldRuns' /\ LocalWaits'
  BY <1>1, <1>k, CalmStep DEF Claim
<1>2. ASSUME NEW c \in Calls, Look(c), ~ Attach(c) PROVE HeldRuns' /\ LocalWaits'
  <2>1. AtLocal(c)' => AtLocal(c) /\ waitsOn'[c] = waitsOn[c]
    BY <1>2, <1>k DEF Look, Lookup, WaitLocal, PttlLocal, AttachGet, Judge,
       AttachMark, Subscribe, Reread, PttlRemote, Wake
  <2>2. \A d \in Calls : AtLocal(d)' => AtLocal(d) /\ waitsOn'[d] = waitsOn[d]
    BY <1>2, <1>k, <2>1, LookEffect
  <2>3. \A r \in Calls : Awaited(r) => Awaited(r)'
    BY <1>2, <1>k, LookEffect DEF Waiting, AttachedRemote
  <2>4. QED
    BY <1>2, <1>k, <2>2, <2>3, LookEffect, CalmStep
<1>3. ASSUME NEW c \in Calls, Attach(c) PROVE HeldRuns' /\ LocalWaits'
  <2>1. UNCHANGED <<req, runs, future>> /\ \A r \in Calls : Awaited(r) => Awaited(r)'
    BY <1>3, <1>k DEF Attach
  <2>2. HeldRuns'
    BY <1>k, <2>1 DEF HeldRuns, Proc
  <2>3. ASSUME NEW d \in Calls, AtLocal(d)'
        PROVE  waitsOn'[d] # NoCall /\ (future'[waitsOn'[d]] # "pending" \/ Awaited(waitsOn[d])')
    <3>1. CASE d = c
      <4>1. Proc(c) \in Procs /\ runs[Proc(c)] # NoCall /\ waitsOn'[c] = runs[Proc(c)]
        BY <1>3, <1>k, <2>3, <3>1 DEF Attach, Proc
      <4>2. Awaited(runs[Proc(c)]) /\ runs[Proc(c)] \in Calls
        BY <1>k, <4>1 DEF HeldRuns
      <4>3. QED
        BY <2>1, <3>1, <4>1, <4>2
    <3>2. CASE d # c
      BY <1>3, <1>k, <2>1, <2>3, <3>2 DEF Attach, LocalWaits
    <3>3. QED
      BY <3>1, <3>2
  <2>4. QED
    BY <2>2, <2>3 DEF LocalWaits
<1>4. ASSUME NEW c \in Calls, StartRun(c) PROVE HeldRuns' /\ LocalWaits'
  <2>1. future[c] = "pending"
    BY <1>4 DEF StartRun, IInv, PendingTillEnd
  <2>2. HeldRuns'
    BY <1>4, <1>k, <2>1 DEF StartRun, HeldRuns, Proc
  <2>3. LocalWaits'
    BY <1>4, <1>k DEF StartRun, LocalWaits
  <2>4. QED
    BY <2>2, <2>3
<1>5. ASSUME NEW c \in Calls, NEW e \in Endings, Complete(c, e) PROVE HeldRuns' /\ LocalWaits'
  BY <1>5, <1>k, CalmStep DEF Complete
<1>6. ASSUME NEW c \in Calls, FinishScript(c) PROVE HeldRuns' /\ LocalWaits'
  BY <1>6, <1>k, CalmStep DEF FinishScript
<1>7. ASSUME NEW c \in Calls, FinishFails(c) PROVE HeldRuns' /\ LocalWaits'
  BY <1>7, <1>k, CalmStep DEF FinishFails
<1>8. ASSUME NEW c \in Calls, Publish(c) PROVE HeldRuns' /\ LocalWaits'
  BY <1>8, <1>k, CalmStep DEF Publish
<1>9. ASSUME NEW c \in Calls, PublishFails(c) PROVE HeldRuns' /\ LocalWaits'
  BY <1>9, <1>k, CalmStep DEF PublishFails
<1>10. ASSUME NEW c \in Calls, Resolve(c) PROVE HeldRuns' /\ LocalWaits'
  <2>1. \A p \in Procs : runs'[p] = runs[p] \/ runs'[p] = NoCall
    BY <1>10, <1>k DEF Resolve
  <2>2. \A p \in Procs : runs'[p] # c
    BY <1>10, <1>k, <1>n DEF Resolve, HeldRuns
  <2>3. HeldRuns'
    BY <1>10, <1>k, <2>1, <2>2 DEF Resolve, HeldRuns, Proc
  <2>4. LocalWaits'
    BY <1>10, <1>k DEF Resolve, LocalWaits, IInv, Finishes
  <2>5. QED
    BY <2>3, <2>4
<1>11. CASE OrphanExpires \/ OutcomeExpires \/ Lapse
  BY <1>11, <1>k, ExpiryEffect, CalmStep
<1>12. ASSUME NEW c \in Calls, Abandon(c) PROVE HeldRuns' /\ LocalWaits'
  BY <1>12, <1>k, CalmStep DEF Abandon, Leave, Waiting, AttachedRemote
<1>13. ASSUME NEW p \in Procs, Crash(p) PROVE HeldRuns' /\ LocalWaits'
  <2>1. HeldRuns'
    BY <1>13, <1>k DEF Crash, HeldRuns, Proc
  <2>2. ASSUME NEW d \in Calls, AtLocal(d)'
        PROVE  waitsOn'[d] # NoCall /\ (future'[waitsOn'[d]] # "pending" \/ Awaited(waitsOn[d])')
    <3>1. AtLocal(d) /\ waitsOn'[d] = waitsOn[d] /\ Proc(d) # p /\ UNCHANGED future
      BY <1>13, <1>k, <2>2 DEF Crash, Ended
    <3>2. waitsOn[d] \in Calls /\ Proc(waitsOn[d]) # p
      BY <3>1 DEF IInv, WaitsAtHome
    <3>3. Awaited(waitsOn[d]) => Awaited(waitsOn[d])'
      BY <1>13, <1>k, <3>1, <3>2 DEF Crash
    <3>4. QED
      BY <1>k, <3>1, <3>3 DEF LocalWaits
  <2>3. QED
    BY <2>1, <2>2 DEF LocalWaits
<1>14. CASE UNCHANGED vars
  BY <1>14, <1>k, CalmStep DEF vars
<1>15. QED
  BY <1>1, <1>2, <1>3, <1>4, <1>5, <1>6, <1>7, <1>8, <1>9, <1>10, <1>11, <1>12, <1>13, <1>14,
     Kinds DEF Quiet, Dies, Look

LEMMA PendingTillEndStep == IInv /\ [Next]_vars => PendingTillEnd'
<1> SUFFICES ASSUME IInv, [Next]_vars, NEW d \in Calls, future'[d] # "pending"
             PROVE  pc'[d] = "ran"
  BY DEF PendingTillEnd
<1> USE DEF IInv, PendingTillEnd, TypeOK, redis, local, history, Goto
<1>1. ASSUME NEW c \in Calls, Claim(c) \/ FinishScript(c) PROVE pc'[d] = "ran"
  BY <1>1 DEF Claim, FinishScript
<1>2. ASSUME NEW c \in Calls, Look(c) PROVE pc'[d] = "ran"
  BY <1>2, LookEffect DEF Waiting, AttachedRemote
<1>3. ASSUME NEW c \in Calls, Quiet(c) PROVE pc'[d] = "ran"
  BY <1>3 DEF Quiet, StartRun, Complete, Publish, Resolve, FinishFails, PublishFails
<1>4. CASE OrphanExpires \/ OutcomeExpires \/ Lapse
  BY <1>4, ExpiryEffect
<1>5. CASE Dies
  BY <1>5 DEF Dies, Abandon, Leave, Crash, Ended, Waiting, AttachedRemote
<1>6. CASE UNCHANGED vars
  BY <1>6 DEF vars
<1>7. QED
  BY <1>1, <1>2, <1>3, <1>4, <1>5, <1>6, Kinds

(* The attach script sets the mark only on the running record it names, and *)
(* whatever ends that record takes the mark along.                          *)
LEMMA MarkStep == IInv /\ [Next]_vars => MarkHasItsRecord'
<1> SUFFICES ASSUME IInv, [Next]_vars, mark' = "1" PROVE record'.state = "running"
  BY DEF MarkHasItsRecord
<1> USE DEF IInv, MarkHasItsRecord, redis
<1>1. ASSUME NEW c \in Calls, Claim(c) PROVE record'.state = "running"
  BY <1>1 DEF Claim, Running
<1>2. ASSUME NEW c \in Calls, Look(c) PROVE record'.state = "running"
  BY <1>2 DEF Look, Lookup, Attach, WaitLocal, PttlLocal, AttachGet, Judge,
     AttachMark, Subscribe, Reread, PttlRemote, Wake, Running
<1>3. ASSUME NEW c \in Calls, Quiet(c) PROVE record'.state = "running"
  BY <1>3, QuietEffect
<1>4. ASSUME NEW c \in Calls, FinishScript(c) PROVE record'.state = "running"
  BY <1>4 DEF FinishScript, FinishEffect
<1>5. CASE OrphanExpires \/ OutcomeExpires \/ Lapse
  BY <1>5, ExpiryEffect
<1>6. CASE Dies
  BY <1>6, DeathEffect
<1>7. CASE UNCHANGED vars
  BY <1>7 DEF vars
<1>8. QED
  BY <1>1, <1>2, <1>3, <1>4, <1>5, <1>6, <1>7, Kinds

(* A repeat past the attach script either marked the record it read or read *)
(* one that is gone; a run it waits for never claims again.                 *)
LEMMA RemoteCountStep == IInv /\ [Next]_vars => RemoteWaiterIsCounted'
<1> SUFFICES ASSUME IInv, [Next]_vars, NEW d \in Calls, pc'[d] \in AttachedRemote,
                    record' = Running(waitsOn'[d])
             PROVE  mark' = "1"
  BY DEF RemoteWaiterIsCounted, Running
<1> USE DEF IInv, TypeOK, redis, local, history, Goto, AttachedRemote
<1>1. ASSUME NEW c \in Calls, Claim(c) PROVE mark' = "1"
  <2>1. pc[d] \in AttachedRemote /\ waitsOn'[d] = waitsOn[d] /\ d # c
    BY <1>1 DEF Claim
  <2>2. waitsOn[d] \in Calls /\ waitsOn[d] # c
    BY <1>1, <2>1 DEF WaitedForClaimed, Claim, Waiting
  <2>3. record' = record /\ UNCHANGED mark
    BY <1>1, <2>1, <2>2 DEF Claim, Running
  <2>4. QED
    BY <2>1, <2>2, <2>3, IdempotencyAssumption DEF RemoteWaiterIsCounted
<1>2. ASSUME NEW c \in Calls, Look(c) PROVE mark' = "1"
  <2>0. mark = "1" => mark' = "1"
    BY <1>2 DEF Look, Lookup, Attach, WaitLocal, PttlLocal, AttachGet,
       AttachMark, Subscribe, Reread, PttlRemote, Wake
  <2>1. CASE d = c /\ AttachMark(c)
    BY <2>1 DEF AttachMark
  <2>2. CASE ~ (d = c /\ AttachMark(c))
    <3>1. pc[d] \in AttachedRemote /\ waitsOn'[d] = waitsOn[d] /\ record' = record
      <4>1. CASE d # c
        BY <1>2, <4>1, LookEffect
      <4>2. CASE d = c
        BY <1>2, <2>2, <4>2 DEF Look, Lookup, Judge, Attach, WaitLocal, PttlLocal, AttachGet,
           Subscribe, Reread, PttlRemote, Wake, Leave
      <4>3. QED
        BY <4>1, <4>2
    <3>2. QED
      BY <2>0, <3>1, IdempotencyAssumption DEF RemoteWaiterIsCounted, WaitedForClaimed
  <2>3. QED
    BY <2>1, <2>2
<1>3. ASSUME NEW c \in Calls, Quiet(c) PROVE mark' = "1"
  <2>1. pc[d] \in AttachedRemote /\ UNCHANGED <<waitsOn, record, mark>>
    BY <1>3, QuietEffect
  <2>2. QED
    BY <2>1, IdempotencyAssumption DEF RemoteWaiterIsCounted, WaitedForClaimed
<1>4. ASSUME NEW c \in Calls, FinishScript(c) PROVE mark' = "1"
  <2>1. pc[d] \in AttachedRemote /\ UNCHANGED waitsOn
    BY <1>4 DEF FinishScript
  <2>2. record' = record /\ mark' = mark
    BY <1>4 DEF FinishScript, FinishEffect, Stored, NoRecord, Running
  <2>3. QED
    BY <2>1, <2>2, IdempotencyAssumption DEF RemoteWaiterIsCounted, WaitedForClaimed
<1>5. CASE OrphanExpires \/ OutcomeExpires \/ Lapse
  BY <1>5, ExpiryEffect DEF NoRecord, Running
<1>6. CASE Dies
  <2>1. pc[d] \in AttachedRemote /\ waitsOn'[d] = waitsOn[d] /\ UNCHANGED <<record, mark>>
    BY <1>6, DeathEffect
  <2>2. QED
    BY <2>1, IdempotencyAssumption DEF RemoteWaiterIsCounted, WaitedForClaimed
<1>7. CASE UNCHANGED vars
  BY <1>7, IdempotencyAssumption DEF vars, RemoteWaiterIsCounted, WaitedForClaimed
<1>8. QED
  BY <1>1, <1>2, <1>3, <1>4, <1>5, <1>6, <1>7, Kinds

LEMMA Inductive == Spec => []IInv
<1>1. IInv /\ [Next]_vars => IInv'
  BY TypeOKStep, OwnedStep, HolderClaimedStep, WaitedForClaimedStep, ReadItsOwnStep, WaitsAtHomeStep,
     PendingTillEndStep, MismatchStep, NobodyWaitsInVainStep, MarkStep, RemoteCountStep DEF IInv
<1>2. QED
  BY InitIInv, <1>1, PTL DEF Spec

-----------------------------------------------------------------------------
(* The theorems                                                             *)

(* Over all processes, two calls with one key run their action at the same  *)
(* time only if the record of one of them expired under it.                 *)
THEOREM MutualExclusion == Spec => []OneRunAtATime
<1>1. IInv => OneRunAtATime
  BY DEF IInv, Owned, Began, Live, OneRunAtATime, Executing
<1>2. QED
  BY Inductive, <1>1, PTL

(* Two side-effecting calls with one key both come to an outcome only if    *)
(* Redis lost the record of one of them.                                    *)
THEOREM AtMostOnce == Spec => []ExactlyOnce
<1>1. IInv => ExactlyOnce
  BY DEF IInv, TypeOK, Owned, ExactlyOnce
<1>2. QED
  BY Inductive, <1>1, PTL

(* A call is answered with the outcome of a different request only around a *)
(* record that is gone: for as long as Redis keeps every record, the        *)
(* fingerprints of the answered and the answering call agree.               *)
THEOREM MismatchIsExplained == Spec => []MismatchNeedsALostRecord
<1>1. IInv => MismatchNeedsALostRecord
  BY DEF IInv
<1>2. QED
  BY Inductive, <1>1, PTL

(* Every future somebody may wait for has a task that will resolve it.      *)
THEOREM FuturesHaveATask == Spec => []NobodyWaitsInVain
<1>1. IInv => NobodyWaitsInVain
  BY DEF IInv
<1>2. QED
  BY Inductive, <1>1, PTL

(* The attached mark lives and dies with the running record, and counts     *)
(* every repeat that waits through Redis for the run that holds it.         *)
THEOREM MarkIsExact == Spec => [](MarkHasItsRecord /\ RemoteWaiterIsCounted)
<1>1. IInv => MarkHasItsRecord /\ RemoteWaiterIsCounted
  BY DEF IInv
<1>2. QED
  BY Inductive, <1>1, PTL

(* Only the owner's finish script or time ends a record.                    *)
THEOREM OwnerEndsRecord == Spec => OnlyTheOwnerEndsARecord
<1> DEFINE Act == record # NoRecord /\ record' # record =>
                    \/ pc[record.owner] = "finish" /\ pc'[record.owner] = "publish"
                    \/ record' = NoRecord /\ UNCHANGED pc
<1>1. ASSUME TypeOK, [Next]_vars PROVE [Act]_vars
  <2>1. ASSUME NEW c \in Calls, Claim(c) PROVE Act
    BY <2>1 DEF Claim
  <2>2. ASSUME NEW c \in Calls, Look(c) PROVE Act
    BY <1>1, <2>2, LookEffect
  <2>3. ASSUME NEW c \in Calls, Quiet(c) PROVE Act
    BY <1>1, <2>3, QuietEffect
  <2>4. ASSUME NEW c \in Calls, FinishScript(c) PROVE Act
    BY <1>1, <2>4 DEF FinishScript, FinishEffect, Goto, TypeOK, Running
  <2>5. CASE OrphanExpires \/ OutcomeExpires \/ Lapse
    BY <1>1, <2>5, ExpiryEffect
  <2>6. CASE Dies
    BY <1>1, <2>6, DeathEffect
  <2>7. QED
    BY <1>1, <2>1, <2>2, <2>3, <2>4, <2>5, <2>6, Kinds
<1>2. QED
  BY TypeCorrect, <1>1, PTL DEF Spec, OnlyTheOwnerEndsARecord

(* A GET that a repeat attached to, at home before it ended or from another *)
(* process, is stored when its finish script touches the record.            *)
THEOREM AwaitedIsKept == Spec => AwaitedOutcomeIsKept
<1> DEFINE Due(r) == /\ pc[r] = "finish" /\ pc'[r] = "publish" /\ record = Running(r)
                     /\ record' # record /\ fin[r].mode # "never"
                     /\ \/ fin[r].attached = "1"
                        \/ \E c \in Calls : pc[c] \in AttachedRemote /\ waitsOn[c] = r
           Act == \A r \in Calls : Due(r) => record' = Stored(r)
<1>1. ASSUME IInv, [Next]_vars PROVE [Act]_vars
  <2> SUFFICES ASSUME NEW r \in Calls, Due(r) PROVE record' = Stored(r)
    OBVIOUS
  <2> USE <1>1 DEF IInv
  <2>1. ASSUME NEW c \in Calls, FinishScript(c) PROVE record' = Stored(r)
    <3>1. c = r
      BY <2>1 DEF FinishScript, Goto, TypeOK
    <3>2. Stores(r)
      <4>1. fin[r].mode \in {"attached", "always"}
        BY DEF TypeOK, Finishes, Modes
      <4>2. ASSUME NEW c2 \in Calls, pc[c2] \in AttachedRemote, waitsOn[c2] = r PROVE mark = "1"
        BY <4>2, IdempotencyAssumption DEF RemoteWaiterIsCounted
      <4>3. QED
        BY <4>1, <4>2 DEF Stores
    <3>3. QED
      BY <2>1, <3>1, <3>2 DEF FinishScript, FinishEffect
  <2>2. ASSUME NEW c \in Calls, Claim(c) \/ Look(c) \/ Quiet(c) PROVE FALSE
    BY <2>2, LookEffect, QuietEffect DEF Claim, NoRecord, Running
  <2>3. CASE OrphanExpires \/ OutcomeExpires \/ Lapse
    BY <2>3, ExpiryEffect
  <2>4. CASE Dies
    BY <2>4, DeathEffect
  <2>5. CASE UNCHANGED vars
    BY <2>5 DEF vars
  <2>6. QED
    BY <2>1, <2>2, <2>3, <2>4, <2>5, Kinds
<1>2. QED
  BY Inductive, <1>1, PTL DEF Spec, AwaitedOutcomeIsKept, Due

-----------------------------------------------------------------------------
(* No missed wake-up                                                        *)

(* Between its re-read and its sleep a repeat is as safe as asleep.         *)
Told(c) == c \in msgs \/ pc[record.owner] = "publish" \/ record.owner \in muted

WakeInv ==
    \A c \in Calls :
        /\ pc[c] \in AttachedRemote \ {"subscribe"} => c \in subs
        /\ pc[c] \in {"pttlRemote", "listen"} /\ record.state = "outcome" => Told(c)

LEMMA WakeStep == IInv /\ WakeInv /\ [Next]_vars => WakeInv'
<1> DEFINE Sub(d) == pc[d] \in AttachedRemote \ {"subscribe"} => d \in subs
           Safe(d) == pc[d] \in {"pttlRemote", "listen"} /\ record.state = "outcome" => Told(d)
<1> SUFFICES ASSUME IInv, WakeInv, [Next]_vars, NEW d \in Calls PROVE Sub(d)' /\ Safe(d)'
  BY DEF WakeInv, Told
<1>k. TypeOK /\ Sub(d) /\ Safe(d)
  BY DEF IInv, WakeInv
<1>r. record # NoRecord => record.owner \in Calls
  BY <1>k DEF TypeOK, Records
<1> USE DEF TypeOK, redis, local, history, Goto, AttachedRemote, Told
<1>1. ASSUME NEW c \in Calls, Claim(c) PROVE Sub(d)' /\ Safe(d)'
  BY <1>1, <1>k, <1>r DEF Claim, Running
<1>2. ASSUME NEW c \in Calls, Look(c), c # d PROVE Sub(d)' /\ Safe(d)'
  <2>1. d \in subs => d \in subs'
    BY <1>2, <1>k DEF Look, Lookup, Attach, WaitLocal, PttlLocal, AttachGet,
       AttachMark, Subscribe, Reread, PttlRemote, Wake, Leave
  <2>2. d \in msgs => d \in msgs'
    BY <1>2, <1>k DEF Look, Lookup, Attach, WaitLocal, PttlLocal, AttachGet,
       AttachMark, Subscribe, Reread, PttlRemote, Wake, Leave
  <2>3. record' = record /\ muted' = muted /\ pc'[d] = pc[d]
    BY <1>2, <1>k, LookEffect
  <2>4. record # NoRecord /\ pc[record.owner] = "publish" => pc'[record.owner] = "publish"
    BY <1>2, <1>k, <1>r, LookEffect DEF Waiting
  <2>5. record.state = "outcome" => record # NoRecord
    BY DEF NoRecord
  <2>6. QED
    BY <1>k, <2>1, <2>2, <2>3, <2>4, <2>5
<1>3. ASSUME Look(d) PROVE Sub(d)' /\ Safe(d)'
  <2>1. CASE Subscribe(d)
    BY <1>k, <2>1 DEF Subscribe
  <2>2. CASE Reread(d)
    BY <1>k, <2>2 DEF Reread, Judge, NoRecord
  <2>3. CASE PttlRemote(d)
    <3>1. CASE record = NoRecord
      BY <1>k, <2>3, <3>1 DEF PttlRemote
    <3>2. CASE record # NoRecord
      BY <1>k, <1>r, <2>3, <3>2 DEF PttlRemote
    <3>3. QED
      BY <3>1, <3>2
  <2>4. CASE Wake(d)
    BY <1>k, <2>4 DEF Wake
  <2>5. CASE Lookup(d) \/ Attach(d) \/ WaitLocal(d) \/ PttlLocal(d) \/ AttachGet(d) \/ AttachMark(d)
    BY <1>k, <2>5 DEF Lookup, Judge, Attach, WaitLocal, PttlLocal, AttachGet, AttachMark
  <2>6. QED
    BY <1>3, <2>1, <2>2, <2>3, <2>4, <2>5 DEF Look
<1>4. ASSUME NEW c \in Calls, StartRun(c) PROVE Sub(d)' /\ Safe(d)'
  BY <1>4, <1>k, <1>r DEF StartRun, NoRecord
<1>5. ASSUME NEW c \in Calls, NEW e \in Endings, Complete(c, e) PROVE Sub(d)' /\ Safe(d)'
  BY <1>5, <1>k, <1>r DEF Complete, NoRecord
<1>6. ASSUME NEW c \in Calls, FinishScript(c) PROVE Sub(d)' /\ Safe(d)'
  BY <1>6, <1>k, <1>r DEF FinishScript, FinishEffect, NoRecord, Stored, Running
<1>7. ASSUME NEW c \in Calls, FinishFails(c) PROVE Sub(d)' /\ Safe(d)'
  BY <1>7, <1>k, <1>r DEF FinishFails, NoRecord
<1>8. ASSUME NEW c \in Calls, Publish(c) PROVE Sub(d)' /\ Safe(d)'
  BY <1>8, <1>k DEF Publish
<1>9. ASSUME NEW c \in Calls, PublishFails(c) PROVE Sub(d)' /\ Safe(d)'
  BY <1>9, <1>k, <1>r DEF PublishFails, NoRecord
<1>10. ASSUME NEW c \in Calls, Resolve(c) PROVE Sub(d)' /\ Safe(d)'
  BY <1>10, <1>k, <1>r DEF Resolve, NoRecord
<1>11. CASE OrphanExpires \/ OutcomeExpires \/ Lapse
  BY <1>11, <1>k DEF OrphanExpires, OutcomeExpires, Lapse, Expire, NoRecord
<1>12. ASSUME NEW c \in Calls, Abandon(c) PROVE Sub(d)' /\ Safe(d)'
  BY <1>12, <1>k, <1>r DEF Abandon, Leave, Waiting, NoRecord
<1>13. ASSUME NEW p \in Procs, Crash(p) PROVE Sub(d)' /\ Safe(d)'
  BY <1>13, <1>k, <1>r DEF Crash, Ended, NoRecord
<1>14. CASE UNCHANGED vars
  BY <1>14, <1>k DEF vars
<1>15. QED
  BY <1>1, <1>2, <1>3, <1>4, <1>5, <1>6, <1>7, <1>8, <1>9, <1>10, <1>11, <1>12, <1>13, <1>14,
     Kinds DEF Quiet, Dies

(* A subscribed repeat never sleeps over an outcome that its owner will not *)
(* or could not announce: subscribing before the re-read is what makes it so.*)
THEOREM NoWakeupIsMissed == Spec => []NoMissedWakeup
<1>1. Init => WakeInv
  BY DEF Init, WakeInv, AttachedRemote
<1>2. WakeInv => NoMissedWakeup
  BY DEF WakeInv, NoMissedWakeup, Told
<1>3. QED
  BY Inductive, WakeStep, <1>1, <1>2, PTL DEF Spec

-----------------------------------------------------------------------------
(* Outcomes that may be shared                                              *)

(* What is stored, in a future or an answer is an outcome; a run at its end *)
(* has one only to keep or to pass on.                                      *)
KeptOutcome(r) == fin[r].outcome = "outcome"

ShareInv ==
    /\ \A c \in Calls : fin[c].mode # "never" => KeptOutcome(c)
    /\ \A c \in Calls : pc[c] \in Waiting \cup {"claimed", "running"} => fin[c] = NotYet
    /\ record.state = "outcome" => KeptOutcome(record.owner)
    /\ \A c \in Calls : future[c] = "outcome" => KeptOutcome(c)
    /\ NothingToShareIsNotShared

(* `_finish` is called once per run, so its outcome stays what it is.       *)
LEMMA OutcomeStays ==
    ASSUME TypeOK, ShareInv, [Next]_vars
    PROVE  /\ \A r \in Calls : KeptOutcome(r) => KeptOutcome(r)'
           /\ \A r \in Calls : fin'[r].mode # "never" => KeptOutcome(r)'
           /\ \A r \in Calls : pc'[r] \in Waiting \cup {"claimed", "running"} => fin'[r] = NotYet
<1> DEFINE Good(r) == /\ KeptOutcome(r) => KeptOutcome(r)'
                      /\ fin'[r].mode # "never" => KeptOutcome(r)'
                      /\ pc'[r] \in Waiting \cup {"claimed", "running"} => fin'[r] = NotYet
<1> SUFFICES ASSUME NEW r \in Calls PROVE Good(r)
  OBVIOUS
<1>a. /\ fin[r].mode # "never" => KeptOutcome(r)
      /\ pc[r] \in Waiting \cup {"claimed", "running"} => fin[r] = NotYet
  BY DEF ShareInv
<1> USE DEF TypeOK, redis, local, history, Goto
<1>1. ASSUME NEW c \in Calls, Claim(c) PROVE Good(r)
  BY <1>1, <1>a DEF Claim, KeptOutcome, Waiting
<1>2. ASSUME NEW c \in Calls, Look(c) PROVE Good(r)
  <2>1. /\ fin' = fin /\ pc[c] \in Waiting /\ pc'[c] \in Waiting \cup {"replayed", "reused"}
        /\ r # c => pc'[r] = pc[r]
    BY <1>2, LookEffect
  <2>2. QED
    BY <2>1, <1>a DEF KeptOutcome
<1>3. ASSUME NEW c \in Calls, StartRun(c) PROVE Good(r)
  BY <1>3, <1>a DEF StartRun, KeptOutcome, Waiting, AttachedRemote
<1>4. ASSUME NEW c \in Calls, NEW e \in Endings, Complete(c, e) PROVE Good(r)
  <2>1. CASE r = c
    <3>1. pc[r] = "running" /\ pc'[r] = "finish" /\ fin[r] = NotYet
      BY <1>4, <2>1, <1>a DEF Complete
    <3>2. fin'[r] = [mode |-> FinishMode(c, e), outcome |-> IF e = "none" THEN "none" ELSE "outcome",
                     attached |-> IF c \in attached THEN "1" ELSE "0"]
      BY <1>4, <2>1 DEF Complete
    <3>3. fin'[r].mode # "never" => fin'[r].outcome = "outcome"
      BY <3>2 DEF FinishMode
    <3>4. QED
      BY <3>1, <3>3 DEF KeptOutcome, NotYet, Waiting, AttachedRemote
  <2>2. CASE r # c
    BY <1>4, <2>2, <1>a DEF Complete, KeptOutcome
  <2>3. QED
    BY <2>1, <2>2
<1>5. ASSUME NEW c \in Calls, Publish(c) \/ Resolve(c) \/ FinishFails(c) \/ PublishFails(c) \/ FinishScript(c)
      PROVE  Good(r)
  <2>1. fin' = fin /\ pc' = [pc EXCEPT ![c] = pc'[c]] /\ pc'[c] \in {"publish", "resolve", "ran"}
    BY <1>5 DEF Publish, Resolve, FinishFails, PublishFails, FinishScript
  <2>2. QED
    BY <2>1, <1>a DEF KeptOutcome, Waiting, AttachedRemote
<1>6. CASE OrphanExpires \/ OutcomeExpires \/ Lapse
  BY <1>6, <1>a, ExpiryEffect DEF KeptOutcome
<1>7. CASE Dies
  <2>1. fin' = fin /\ (pc'[r] = pc[r] \/ pc'[r] = "gone")
    BY <1>7, DeathEffect
  <2>2. QED
    BY <2>1, <1>a DEF KeptOutcome, Waiting, AttachedRemote
<1>8. CASE UNCHANGED vars
  BY <1>8, <1>a DEF vars, KeptOutcome
<1>9. QED
  BY <1>1, <1>2, <1>3, <1>4, <1>5, <1>6, <1>7, <1>8, Kinds DEF Quiet

(* The finish script stores, the future passes on and a repeat reads only   *)
(* what may be shared.                                                      *)
LEMMA ShareStep == IInv /\ ShareInv /\ [Next]_vars => ShareInv'
<1> SUFFICES ASSUME IInv, TypeOK, ShareInv, [Next]_vars
             PROVE  /\ record'.state = "outcome" => fin'[record'.owner].outcome = "outcome"
                    /\ \A c \in Calls : future'[c] = "outcome" => KeptOutcome(c)'
                    /\ NothingToShareIsNotShared'
  BY OutcomeStays DEF ShareInv, IInv, KeptOutcome
<1> USE DEF TypeOK, redis, local, history, Goto
<1>a. \A r \in Calls : KeptOutcome(r) => KeptOutcome(r)'
  BY OutcomeStays
<1>b. /\ record.state = "outcome" => record.owner \in Calls /\ KeptOutcome(record.owner)
      /\ \A c \in Calls : future[c] = "outcome" => KeptOutcome(c)
      /\ \A c \in Calls : answeredBy[c] # NoCall => answeredBy[c] \in Calls /\ KeptOutcome(answeredBy[c])
  BY DEF ShareInv, NothingToShareIsNotShared, KeptOutcome, Records, NoRecord
<1>c. record' = record => (record'.state = "outcome" => fin'[record'.owner].outcome = "outcome")
  BY <1>a, <1>b DEF KeptOutcome
<1>d. future' = future => \A c \in Calls : future'[c] = "outcome" => KeptOutcome(c)'
  BY <1>a, <1>b
<1>e. (\A c \in Calls : answeredBy'[c] = answeredBy[c] \/ (answeredBy'[c] \in Calls /\ KeptOutcome(answeredBy'[c])))
      => NothingToShareIsNotShared'
  <2> SUFFICES ASSUME \A c \in Calls : \/ answeredBy'[c] = answeredBy[c]
                                       \/ answeredBy'[c] \in Calls /\ KeptOutcome(answeredBy'[c]),
                      NEW c \in Calls, answeredBy'[c] # NoCall
               PROVE  fin'[answeredBy'[c]].outcome = "outcome"
    BY DEF NothingToShareIsNotShared
  <2>1. PICK r \in Calls : r = answeredBy'[c] /\ KeptOutcome(r)
    BY <1>b
  <2>2. KeptOutcome(r)'
    BY <1>a, <2>1
  <2>3. QED
    BY <2>1, <2>2 DEF KeptOutcome
<1>1. ASSUME NEW c \in Calls, Claim(c)
      PROVE  record'.state = "outcome" => fin'[record'.owner].outcome = "outcome"
  BY <1>1, <1>c DEF Claim, Running
<1>2. ASSUME NEW c \in Calls, FinishScript(c)
      PROVE  record'.state = "outcome" => fin'[record'.owner].outcome = "outcome"
  <2>1. CASE record = Running(c) /\ Stores(c)
    <3>1. record' = Stored(c)
      BY <1>2, <2>1 DEF FinishScript, FinishEffect
    <3>2. KeptOutcome(c)
      BY <2>1 DEF Stores, ShareInv
    <3>3. QED
      BY <3>1, <3>2, <1>a DEF Stored, KeptOutcome
  <2>2. CASE record = Running(c) /\ ~Stores(c)
    BY <1>2, <2>2 DEF FinishScript, FinishEffect, NoRecord
  <2>3. CASE record # Running(c)
    BY <1>2, <2>3, <1>c DEF FinishScript, FinishEffect
  <2>4. QED
    BY <2>1, <2>2, <2>3
<1>3. ASSUME NEW c \in Calls, Resolve(c)
      PROVE  \A r \in Calls : future'[r] = "outcome" => KeptOutcome(r)'
  BY <1>3, <1>a, <1>b DEF Resolve, KeptOutcome
<1>4. ASSUME NEW c \in Calls, Look(c)
      PROVE  \A d \in Calls : \/ answeredBy'[d] = answeredBy[d]
                              \/ answeredBy'[d] \in Calls /\ KeptOutcome(answeredBy'[d])
  <2>1. \A d \in Calls : d # c => answeredBy'[d] = answeredBy[d]
    BY <1>4, LookEffect
  <2>2. \/ answeredBy'[c] = answeredBy[c]
        \/ record.state = "outcome" /\ answeredBy'[c] = record.owner
        \/ WaitLocal(c) /\ future[waitsOn[c]] = "outcome" /\ answeredBy'[c] = waitsOn[c]
    BY <1>4 DEF Look, Lookup, Attach, WaitLocal, PttlLocal, AttachGet, AttachMark, Subscribe, Reread, PttlRemote,
       Wake, Judge
  <2>3. CASE WaitLocal(c) /\ future[waitsOn[c]] = "outcome" /\ answeredBy'[c] = waitsOn[c]
    <3>1. waitsOn[c] \in Calls
      BY <2>3 DEF IInv, WaitsAtHome, WaitLocal
    <3>2. QED
      BY <2>1, <2>3, <3>1, <1>b
  <2>4. QED
    BY <1>b, <2>1, <2>2, <2>3
<1>5. CASE OrphanExpires \/ OutcomeExpires \/ Lapse
  <2>1. record'.state # "outcome" /\ future' = future /\ answeredBy' = answeredBy
    BY <1>5, ExpiryEffect DEF NoRecord
  <2>2. QED
    BY <2>1, <1>d, <1>e
<1>6. CASE Dies
  <2>1. record' = record /\ future' = future /\ answeredBy' = answeredBy
    BY <1>6, DeathEffect
  <2>2. QED
    BY <2>1, <1>c, <1>d, <1>e
<1>7. CASE UNCHANGED vars
  BY <1>7, <1>c, <1>d, <1>e DEF vars
<1>8. ASSUME NEW c \in Calls, Quiet(c), ~Resolve(c)
      PROVE  record' = record /\ future' = future /\ answeredBy' = answeredBy
  BY <1>8 DEF Quiet, StartRun, Complete, Publish, FinishFails, PublishFails
<1>9. ASSUME NEW c \in Calls, Resolve(c) PROVE record' = record /\ answeredBy' = answeredBy
  BY <1>9 DEF Resolve
<1>10. ASSUME NEW c \in Calls, Claim(c) \/ FinishScript(c) PROVE future' = future /\ answeredBy' = answeredBy
  BY <1>10 DEF Claim, FinishScript
<1>11. ASSUME NEW c \in Calls, Look(c) PROVE record' = record /\ future' = future
  BY <1>11 DEF Look, Lookup, Attach, WaitLocal, PttlLocal, AttachGet, AttachMark, Subscribe, Reread, PttlRemote, Wake
<1>12. QED
  BY <1>c, <1>d, <1>e, <1>1, <1>2, <1>3, <1>4, <1>5, <1>6, <1>7, <1>8, <1>9, <1>10, <1>11, Kinds

(* An outcome that must not be shared answers nobody but its own call.      *)
THEOREM UnsharedIsNotAnswered == Spec => []NothingToShareIsNotShared
<1>1. Init => ShareInv
  BY DEF Init, ShareInv, KeptOutcome, NotYet, NoRecord, NothingToShareIsNotShared
<1>2. ShareInv => NothingToShareIsNotShared
  BY DEF ShareInv
<1>3. QED
  BY Inductive, ShareStep, <1>1, <1>2, PTL DEF Spec
=============================================================================
