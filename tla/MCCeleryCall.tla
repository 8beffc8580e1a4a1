----------------------------- MODULE MCCeleryCall -----------------------------
(***************************************************************************)
(* CeleryCall with two calls, of which the second may have ended before    *)
(* the first is made. One call alone meets every failure the bounds allow; *)
(* two calls together meet one call or execution cut off.                  *)
(***************************************************************************)
EXTENDS CeleryCall, TLC

CONSTANT Second     \* the second call


OneCall == pc[Second] = "ended"

Started ==
    /\ pc \in {[c \in Calls |-> "idle"], [c \in Calls |-> IF c = Second THEN "ended" ELSE "idle"]}
    /\ answer = [c \in Calls |-> IF c = Second /\ OneCall THEN "cancelled" ELSE "pending"]
    /\ thread = [c \in Calls |-> "none"]
    /\ pending = {} /\ registered = NoReader
    /\ task = [r \in Readers |-> "none"]
    /\ cancelled = {} /\ stops = {}
    /\ popped = [r \in Readers |-> NoPayload]
    /\ queue = << >>
    /\ work = [c \in Calls |-> "none"]
    /\ reported = {}
    /\ first = [c \in Calls |-> "none"]
    /\ dropped = {}
    /\ faults = (IF OneCall THEN 0 ELSE MaxFaults)
    /\ cuts = (IF OneCall THEN 0 ELSE MaxCuts - 1)

MCSpec == Started /\ [][Next]_vars /\ Fairness
=============================================================================
