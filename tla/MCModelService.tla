--------------------------- MODULE MCModelService ---------------------------
(***************************************************************************)
(* Small instances of ModelService.  All sets are model values that the    *)
(* specification only compares, so every permutation of them is a symmetry. *)
(***************************************************************************)
EXTENDS ModelService, TLC

CONSTANTS p1, p2, fast, reason, s1, s2, s3

TwoProcs == {p1, p2}
TwoProfiles == {fast, reason}
TwoPids == {s1, s2}
ThreePids == {s1, s2, s3}
OnlyForeign == {Foreign}

Symmetry ==
    Permutations(Procs) \cup Permutations(Profiles) \cup Permutations(Pids)

=============================================================================
