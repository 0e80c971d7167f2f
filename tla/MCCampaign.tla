----------------------------- MODULE MCCampaign -----------------------------
(***************************************************************************)
(* Small instances of Campaign.  The sets that Symmetry permutes are model  *)
(* values that the specification only compares.                            *)
(***************************************************************************)
EXTENDS Campaign, TLC

CONSTANTS p1, p2, b1, b2, b3, h1, h2, e1, e2

OneProc == {p1}
TwoProcs == {p1, p2}
OneBuild == {b1}
TwoBuilds == {b1, b2}
ThreeBuilds == {b1, b2, b3}
OneHoldout == {h1}
TwoHoldouts == {h1, h2}
OneEvaluator == {e1}
TwoEvaluators == {e1, e2}
BothKinds == {"source", "prompt-optimization"}
OnlyPrompt == {"prompt-optimization"}

Symmetry ==
    Permutations(Procs) \cup Permutations(Builds)
        \cup Permutations(Holdouts) \cup Permutations(Evaluators)

=============================================================================
