---------------------------- MODULE MCKvRecovery ----------------------------
(* Model-checking instances of KvRecovery. *)
EXTENDS KvRecovery

CONSTANTS r1, r2, r3

AllDiffer == [r \in Requests |-> r]
Twins23 == [r \in Requests |-> IF r = r3 THEN r2 ELSE r]
==============================================================================
