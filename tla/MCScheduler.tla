----------------------------- MODULE MCScheduler -----------------------------
(* Model-checking instances of Scheduler: the .cfg files name requests r1 to   *)
(* r3 and pick the per-request functions from these.                           *)
EXTENDS Scheduler

CONSTANTS r1, r2, r3

PerRequest(n1, n2, n3) ==
  [r \in Requests |-> IF r = r1 THEN n1 ELSE IF r = r2 THEN n2 ELSE n3]

None == PerRequest(0, 0, 0)
All2 == PerRequest(2, 2, 2)
Outputs322 == PerRequest(3, 2, 2)
Rank123 == PerRequest(1, 2, 3)
Rank321 == PerRequest(3, 2, 1)
Prompts214 == PerRequest(2, 1, 4)
Loras112 == PerRequest(1, 2, 1)
==============================================================================
