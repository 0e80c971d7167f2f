--------------------------- MODULE MCQualification ---------------------------
(* Instances of Qualification for TLC. *)
EXTENDS Qualification, TLC

CONSTANTS p1, p2

MCProcs == {p1, p2}
MCSymmetry == Permutations(MCProcs)
MCRoleOf == [c \in {"plan", "review", "repair", "plan1", "review1", "review2"} |->
                IF c \in {"plan", "plan1"} THEN "planner" ELSE "reviewer"]
MCGrades == [c \in DOMAIN MCRoleOf |->
               CASE c \in {"plan", "plan1", "review"} -> {3, 5}
                 [] c = "repair" -> {-1, 5}
                 [] c = "review1" -> {3, 4, 5}
                 [] OTHER -> {-1, 2, 5}]

\* A reviewer is scored in fifths.  Of the losses of exactly 0.2 a case, from
\* scores to scores a policy accepts, floats put these beyond -0.2.
MCRoundsBeyond ==
    [r \in Roles |->
       IF r = "planner" THEN {}
       ELSE {<< <<4>>, <<3>> >>,
             << <<3, 5>>, <<3, 3>> >>, << <<4, 4>>, <<3, 3>> >>, << <<4, 5>>, <<3, 4>> >>,
             << <<4, 5>>, <<4, 3>> >>, << <<5, 3>>, <<3, 3>> >>, << <<5, 4>>, <<3, 4>> >>,
             << <<5, 4>>, <<4, 3>> >>}]

\* BOUND: while the visible cases run, one command at a time, once for a profile,
\* and in the profile experiment nothing else changes: its commands share no
\* file.  Nobody starts to collect a subject whose collection is complete, and one
\* comparison runs at a time.
Quiet ==
    /\ stage # "holdout" =>
         /\ Cardinality({p \in Procs : pc[p] # "idle"}) <= 1
         /\ \A p \in Procs : pc[p] # "idle" => filed[job[p].subject] = None
         /\ stage = "profile" => ~deployed /\ head = "c1"
    /\ Cardinality({p \in Procs : pc[p] = "compare"}) <= 1
    /\ \A p \in Procs : pc[p] = "reserve" => completed[job[p].subject] = None
==============================================================================
