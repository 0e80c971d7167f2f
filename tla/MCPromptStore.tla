---------------------------- MODULE MCPromptStore ----------------------------
(***************************************************************************)
(* Small instances of PromptStore: two processes, two promoted evaluations   *)
(* and as many activation ids as a configuration names.                     *)
(***************************************************************************)
EXTENDS PromptStore, FiniteSets, TLC

CONSTANTS p1, p2, e1, e2, a1, a2, a3

OneProc == {p1}
TwoProcs == {p1, p2}
TwoEvaluations == {e1, e2}
TwoIds == {a1, a2}
ThreeIds == {a1, a2, a3}

\* Operators who take turns make three activations, concurrent commands two.
Bound == turns \/ Cardinality(drawn) <= 2

Symmetry == Permutations(Procs) \cup Permutations(Evaluations) \cup Permutations(Ids)

=============================================================================
