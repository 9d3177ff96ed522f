----------------------------- MODULE Collections -----------------------------
(***************************************************************************)
(* What is kept of a sequence, and what a set of numbers comes to.         *)
(* SelectSeq has no definition that a proof can expand, and would need an  *)
(* operator as its argument: a proof can speak of a set.                   *)
(***************************************************************************)
EXTENDS Integers, Sequences, FiniteSetsExt

\* The elements of s that are in S, in the order of s.
Sift(s, S) ==
  LET kept[n \in 0..Len(s)] ==
        IF n = 0 THEN <<>>
        ELSE IF s[n] \in S THEN Append(kept[n - 1], s[n]) ELSE kept[n - 1]
  IN  kept[Len(s)]

\* The sum of f[x] over the elements x of S.
Total(f, S) == FoldSet(LAMBDA x, n : n + f[x], 0, S)
==============================================================================
