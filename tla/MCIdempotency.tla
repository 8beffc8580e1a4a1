---------------------------- MODULE MCIdempotency ----------------------------
(* Idempotency on small instances: three calls, two of them at one process  *)
(* and one at another; processes share nothing but Redis, so a third would  *)
(* only make one more call remote, and without a second none is. The safety *)
(* run takes every assignment of fingerprints with a GET among them, up to  *)
(* symmetry. The liveness run, which may use no symmetry, numbers calls and *)
(* processes and starts from one assignment.                                *)
EXTENDS Idempotency, TLC

Symmetric == Permutations(Calls) \cup Permutations(Procs)

SafeInit ==
    /\ Init
    /\ \A p \in Procs : \E c \in Calls : Proc(c) = p
    /\ \E c \in Calls : Fp(c) \in SafeFps

SafeSpec == SafeInit /\ [][Next]_vars

LiveInit == Init /\ Proc(1) = 1 /\ Proc(2) = 1 /\ Proc(3) = 2

LiveSpec == LiveInit /\ [][Next]_vars /\ Fairness
=============================================================================
