---------------------------- MODULE MCEvaluation ----------------------------
(* Instances of Evaluation for TLC. *)
EXTENDS Evaluation

\* "base" is the baseline, "cand" the candidate, "stray" a later commit that
\* touches a protected path.
MCCommits == {"base", "cand", "stray"}
MCDescends == {<<a, b>> \in MCCommits \X MCCommits :
                  a = b \/ b = "base" \/ (a = "stray" /\ b = "cand")}
MCTouched == [p \in MCCommits \X MCCommits |->
                IF p[1] = p[2] THEN {}
                ELSE IF "stray" \in {p[1], p[2]} THEN {"code", "policy"} ELSE {"code"}]
MCDevelopment == <<"edit">>
MCHoldout == <<"scope">>

Moved == {g \in Generations : tree[g] # [head |-> row[g], clean |-> TRUE]}
Missed == {i \in DOMAIN results : ~results[i].ok}
Flaws == {f \in {"clean", "sound"} : ~lineage[f]}

\* BOUND: at most two of these happen in an evaluation: a result is not ok, the
\* worktree of a generation is touched, the build's audit tells a flaw.  The
\* worktrees of an evaluation that is over, or of a prompt's, do not matter.
Few ==
    /\ kind = "prompt" => tree["baseline"] = tree["candidate"] /\ tree["baseline"].head = "base"
    /\ row # None =>
         IF kind = "prompt"
           THEN Cardinality(Missed) + Cardinality(Flaws) <= 2
           ELSE /\ Cardinality(Missed) + Cardinality(Flaws) + Cardinality(Moved) <= 2
                /\ pc \in {"ended", "lost"} => Moved = {}
==============================================================================
