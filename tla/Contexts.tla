------------------------------- MODULE Contexts -------------------------------
(* A value of a request's context that is computed when it is first awaited:*)
(* the user of a LazyObject, or the scope key of a _Deferred. Tasks await   *)
(* one future; copies of the context are made for other calls and handed to *)
(* a worker, with the value where it was resolved and the kind carries it,  *)
(* and else with the recipe to resolve it anew. What resolving answers may  *)
(* change at any time. The event loop is modelled from its use: cancelling  *)
(* a task cancels the future that it awaits.                                *)
EXTENDS Integers, FiniteSets

CONSTANTS
    Answers,     \* what resolving may answer
    Awaiters,    \* the tasks that await the value
    Copies,      \* the copies of the context, the request's own the first
    FirstCopy,
    NoAnswer,
    MaxChanges   \* bounds the changes of what resolving answers

ASSUME ContextsAssumption ==
    /\ FirstCopy \in Copies /\ "none" \notin Copies /\ "request" \notin Copies
    /\ NoAnswer \notin Answers /\ MaxChanges \in Nat

(* Whether the value travels once it was resolved: of a JWT or static user  *)
(* it does, of Django's only the recipe; a _Deferred is awaited before it   *)
(* travels, as a plain value.                                               *)
ValueKinds == {"value", "recipe", "deferred"}

VARIABLES
    kind,      \* the kind of the value
    sync,      \* whether resolve() answers at once instead of an awaitable
    truth,     \* what resolving answers now
    changes,
    copies,    \* copies[i]: made from, carried, future, answer
    awaiters   \* awaiters[t]: on, pc, got

contextVars == <<kind, sync, truth, changes, copies, awaiters>>

NoCopy == [from |-> "none", carried |-> NoAnswer, future |-> "none", answer |-> NoAnswer, resolved |-> 0]

NoTask == [on |-> "none", pc |-> "idle", got |-> NoAnswer, cancelled |-> FALSE]

Made(i) == copies[i].from # "none"

Resolved(i) == copies[i].carried # NoAnswer \/ copies[i].future \in {"done", "failed", "cancelled"}

------------------------------------------------------------------------------
(* _ensure_future: the carried value, or one call of resolve(). The kinds   *)
(* that answer at once do not raise.                                        *)
EnsureFuture(i) ==
    LET copy == copies[i]
        Becomes(future, answer) ==
            copies' = [copies EXCEPT ![i] =
                [from |-> copy.from, carried |-> copy.carried, future |-> future, answer |-> answer,
                 resolved |-> IF copy.carried = NoAnswer THEN copy.resolved + 1 ELSE copy.resolved]]
    IN IF copy.future # "none" THEN UNCHANGED copies
       ELSE IF copy.carried # NoAnswer THEN Becomes("done", copy.carried)
       ELSE IF sync THEN Becomes("done", truth)
       ELSE Becomes("pending", NoAnswer)

Await(t, i) ==
    /\ awaiters[t].pc = "idle" /\ Made(i)
    /\ EnsureFuture(i)
    /\ awaiters' = [awaiters EXCEPT ![t] = [NoTask EXCEPT !.on = i, !.pc = "waiting"]]
    /\ UNCHANGED <<kind, sync, truth, changes>>

(* The task of the awaitable ends.                                          *)
Resolve(i) ==
    /\ copies[i].future = "pending"
    /\ \/ copies' = [copies EXCEPT ![i].future = "done", ![i].answer = truth]
       \/ copies' = [copies EXCEPT ![i].future = "failed"]
    /\ UNCHANGED <<kind, sync, truth, changes, awaiters>>

Wake(t) ==
    /\ awaiters[t].pc = "waiting" /\ copies[awaiters[t].on].future # "pending"
    /\ awaiters' = [awaiters EXCEPT
          ![t].pc = IF awaiters[t].cancelled THEN "cancelled"
                    ELSE [done |-> "got", failed |-> "raised", cancelled |-> "cancelled"][copies[awaiters[t].on].future],
          ![t].got = copies[awaiters[t].on].answer]
    /\ UNCHANGED <<kind, sync, truth, changes, copies>>

(* Mutant of CancelTask: the copies share the future.                       *)
CancelEverywhere(t) ==
    /\ awaiters[t].pc = "waiting" /\ ~awaiters[t].cancelled
    /\ awaiters' = [awaiters EXCEPT ![t].cancelled = TRUE]
    /\ copies' = [i \in Copies |-> IF copies[i].future = "pending"
                                   THEN [copies[i] EXCEPT !.future = "cancelled"] ELSE copies[i]]
    /\ UNCHANGED <<kind, sync, truth, changes>>

(* The call that awaits is cancelled, and with it the future under way.     *)
CancelTask(t) ==
    /\ awaiters[t].pc = "waiting" /\ ~awaiters[t].cancelled
    /\ awaiters' = [awaiters EXCEPT ![t].cancelled = TRUE]
    /\ copies' = [copies EXCEPT ![awaiters[t].on].future = IF @ = "pending" THEN "cancelled" ELSE @]
    /\ UNCHANGED <<kind, sync, truth, changes>>

(* What was resolved of copy i, or was carried to it.                       *)
ValueOf(i) == IF copies[i].carried # NoAnswer THEN copies[i].carried ELSE copies[i].answer

Succeeded(i) == copies[i].carried # NoAnswer \/ copies[i].future = "done"

(* Mutant of Serializes: a deferred value is not awaited before it travels. *)
SerializesAsItIs(i) == kind = "value" /\ Resolved(i) => Succeeded(i)

(* Whether serialize_context ends: a deferred value is awaited, the value   *)
(* of an object that is resolved is read; one that failed raises.           *)
Serializes(i) ==
    /\ kind = "deferred" => Succeeded(i)
    /\ kind = "value" /\ Resolved(i) => Succeeded(i)

(* What the payload holds beside the recipe, and deserialize_context gives  *)
(* to the copy.                                                             *)
CarriedValue(i) == IF kind = "recipe" \/ ~Resolved(i) THEN NoAnswer ELSE ValueOf(i)

(* clone_for_command, and the dispatch to a worker. Where serializing       *)
(* raises there is no copy.                                                 *)
Copy(i, j) ==
    /\ Made(i) /\ ~Made(j)
    /\ Serializes(i)
    /\ copies' = [copies EXCEPT ![j] = [from |-> i, carried |-> CarriedValue(i), future |-> "none",
                                        answer |-> NoAnswer, resolved |-> 0]]
    /\ UNCHANGED <<kind, sync, truth, changes, awaiters>>

(* The session ends or is renewed, the user moves to another scope.         *)
TruthChanges ==
    /\ changes < MaxChanges
    /\ truth' \in Answers \ {truth}
    /\ changes' = changes + 1
    /\ UNCHANGED <<kind, sync, copies, awaiters>>

ContextsInit ==
    /\ kind \in ValueKinds
    /\ sync \in BOOLEAN /\ (kind = "recipe" => ~sync) /\ (kind = "deferred" => ~sync)
    /\ truth \in Answers /\ changes = 0
    /\ copies = [i \in Copies |-> IF i = FirstCopy THEN [NoCopy EXCEPT !.from = "request"] ELSE NoCopy]
    /\ awaiters = [t \in Awaiters |-> NoTask]

ContextsNext ==
    \/ \E t \in Awaiters : (\E i \in Copies : Await(t, i)) \/ Wake(t) \/ CancelTask(t)
    \/ \E i \in Copies : Resolve(i) \/ \E j \in Copies : Copy(i, j)
    \/ TruthChanges

ContextsSpec == ContextsInit /\ [][ContextsNext]_contextVars
------------------------------------------------------------------------------
ContextsTypeOK ==
    /\ kind \in ValueKinds /\ sync \in BOOLEAN /\ truth \in Answers /\ changes \in 0..MaxChanges
    /\ copies \in [Copies -> [from : Copies \cup {"none", "request"}, carried : Answers \cup {NoAnswer},
                              future : {"none", "pending", "done", "failed", "cancelled"},
                              answer : Answers \cup {NoAnswer}, resolved : 0..1]]
    /\ awaiters \in [Awaiters -> [on : Copies \cup {"none"}, pc : {"idle", "waiting", "got", "raised", "cancelled"},
                                  got : Answers \cup {NoAnswer}, cancelled : BOOLEAN]]

(* Whoever awaits one context is given one answer, though it changes in     *)
(* between (context/__init__.py 74-75: once, awaiters share the result).    *)
AwaitersAgree ==
    \A t, u \in Awaiters :
        /\ awaiters[t].pc = "got" /\ awaiters[u].pc = "got" /\ awaiters[t].on = awaiters[u].on
        => awaiters[t].got = awaiters[u].got /\ awaiters[t].got \in Answers

(* A scope key is one for the request and all copies of its context, so the *)
(* events of a call are never published under two keys (changes.py 94-96).  *)
OneKeyForTheCall ==
    kind = "deferred" =>
        \A t, u \in Awaiters :
            awaiters[t].pc = "got" /\ awaiters[u].pc = "got" => awaiters[t].got = awaiters[u].got

(* A copy made of a resolved value that travels answers as its original,    *)
(* without resolving it again (clone_for_command 236-240).                  *)
CopiesKeepTheirValue ==
    \A i, j \in Copies :
        /\ copies[j].from = i /\ copies[j].carried # NoAnswer
        => copies[j].resolved = 0 /\ copies[j].carried \in {copies[i].answer, copies[i].carried}

(* A task is cancelled by what was done to one that shares its future, and  *)
(* by nothing else: the copy of another call never cancels it.              *)
CancelledWithASharer ==
    \A t \in Awaiters :
        awaiters[t].pc = "cancelled" =>
            \E u \in Awaiters : awaiters[u].cancelled /\ awaiters[u].on = awaiters[t].on

(* A value of the context is one: for the tasks of a call, for the copies   *)
(* that are made of it and, of a scope key, for all of them together,       *)
(* however what resolving answers changes; and so is the cancellation of    *)
(* the tasks that wait for it (context/__init__.py 74-86, 236-246, 306-319).*)
OneValue == AwaitersAgree /\ OneKeyForTheCall /\ CopiesKeepTheirValue /\ CancelledWithASharer
=============================================================================
