----------------------------- MODULE MCEventSync ------------------------------
(* EventSync with model values for the scope keys.                          *)
EXTENDS EventSync, TLC

(* The unscoped run starts with the socket open; a fault may close it at    *)
(* any time. The other runs start with both.                                *)
OpenInit == Init /\ c.open

OpenSpec == OpenInit /\ [][Next]_vars

Symmetric == Permutations(Keys)
=============================================================================
