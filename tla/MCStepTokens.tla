---------------------------- MODULE MCStepTokens ----------------------------
(* Model-checking instance of StepTokens: two requests that share items, apart *)
(* from each other, and two with items of their own, one right after the other.*)
EXTENDS StepTokens

CONSTANTS r1, r2, a, b, c, d

Sizes == [i \in Items |-> IF i = c THEN 1 ELSE 2]
At(start, item) == [start |-> start, item |-> item]
Apart == [r \in Requests |-> IF r = r1 THEN <<At(1, a), At(4, b)>>
                                        ELSE <<At(1, c), At(2, a), At(5, a)>>]
Adjacent == [r \in Requests |-> IF r = r1 THEN <<At(1, a), At(3, b)>>
                                           ELSE <<At(1, c), At(2, d)>>]
InOrder == <<r1, r2>>
ByRank == [r \in Requests |-> IF r = r1 THEN 2 ELSE 1]
Prompts == [r \in Requests |-> IF r = r1 THEN 6 ELSE 7]
Outputs == [r \in Requests |-> IF r = r1 THEN 3 ELSE 2]
Combinations ==
  [eagle : BOOLEAN, whole : BOOLEAN, mamba : BOOLEAN, priority : BOOLEAN,
   threshold : {0, 2}, cache : {3, 4, 7}, features : {Apart, Adjacent}]
\* The combinations in which the options meet each other.
AllConfigs == {cfg \in Combinations :
  /\ cfg.cache = 3 => cfg.features = Apart /\ ~cfg.priority
  /\ cfg.cache = 4 => cfg.features = Adjacent \/ cfg.priority
  /\ cfg.threshold = 2 => ~cfg.whole /\ cfg.cache = 7 /\ cfg.features = Adjacent
  /\ cfg.priority => ~cfg.whole /\ ~cfg.mamba /\ cfg.threshold = 0 /\ cfg.cache = 4
                      /\ cfg.features = Apart
  /\ cfg.whole => cfg.features = Apart /\ cfg.cache = 7}
==============================================================================
