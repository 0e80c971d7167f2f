----------------------------- MODULE MCIndexing -----------------------------
(***************************************************************************)
(* Small instances of Indexing.                                            *)
(***************************************************************************)
EXTENDS Indexing, TLC

CONSTANTS p1, p2, c1, c2, r1, r2, d1

TwoProcs == {p1, p2}
TwoCommits == {c1, c2}
TwoRepos == {r1, r2}
TwoDirts == {Clean, d1}

\* Commands that disturb one another index and register one repository, over
\* a worktree at rest.
Bound ==
    \/ calm
    \/ /\ head = c1 /\ dirt = Clean /\ tools = Tools
       /\ registry[r2] = Absent /\ Corrupt \notin {zoekt, ctags}
       /\ \A p \in Procs : ~At(p, "search") /\ op[p].repo = r1

Symmetry == Permutations(Procs)

=============================================================================
