---------------------------- MODULE Qualification ----------------------------
(***************************************************************************)
(* How a role of the coder earns a larger model: real-task evidence is       *)
(* collected on visible cases for every tuned profile (evaluation/           *)
(* real_task_profile_tuning.py, real_task_prompt_tuning.py), the best profile *)
(* of each role is selected, and a protocol that names the selection is       *)
(* frozen; then each subject answers the sealed cases once                  *)
(* (real_task_holdout.py), under a reservation that outlives the process, and *)
(* a comparison claims roles that runtime/role_profiles.py may activate.      *)
(*                                                                         *)
(* Commands are processes that may run at the same time and be killed after   *)
(* any step.  Report files and receipts are created by hard link and never    *)
(* replaced.  The answers of a model are drawn when its report is written.    *)
(***************************************************************************)
EXTENDS Integers, FiniteSets, FiniteSetsExt, Functions

CONSTANTS
    Procs,          \* commands that may run at the same time
    Commits,        \* clean commits the commands may run from
    Profiles,       \* profiles an experiment compares
    Control,        \* the profile the others are compared with
    Visible,        \* cases of the development suite
    Sealed,         \* cases of the holdout suite
    RoleOf,         \* the role a case exercises
    Repeats,        \* attempts at each visible case
    Dims,           \* dimensions an answer is scored in
    Grades,         \* the grades each case may earn
    MinCase,        \* least grade of any attempt
    MinGain,        \* least gain of a role over all its attempts
    MaxDrop,        \* a case may lose this much per attempt
    RoundsBeyond,   \* of each role, the scores of a case before and after whose
                    \* loss of exactly that much floats put beyond it
    None

Roles == {"planner", "reviewer"}
Subjects == {"baseline", "candidate"}
Error == -1         \* the adapter failed: no answer to score

ASSUME QualificationAssumption ==
    /\ Control \in Profiles
    /\ None \notin [by : Procs, commit : Commits]
    /\ IsFiniteSet(Visible) /\ IsFiniteSet(Sealed)
    /\ RoleOf \in [Visible \cup Sealed -> Roles]
    /\ \A r \in Roles : \E c \in Visible, d \in Sealed : RoleOf[c] = r /\ RoleOf[d] = r
    /\ Grades \in [Visible \cup Sealed -> SUBSET (Error .. Dims)]
    /\ {Repeats, Dims, MinCase, MinGain} \subseteq Nat \ {0}
    /\ MaxDrop \in Nat

VARIABLES
    head,       \* the commit checked out
    deployed,   \* some optimised planner or reviewer prompt is active
    stage,      \* the protocol in force: "profile", "prompt" or "holdout"
    pc,         \* where each command is
    job,        \* what each command has read
    filed,      \* the newest report of each profile or subject
    selection,  \* the selection report of the experiment
    frozen,     \* the prompts the holdout protocol assigns to the candidate
    reserved,   \* the reservation receipt of each subject
    completed,  \* the completion receipt of each subject
    opened,     \* how many collections have read the sealed cases for a subject
    claim,      \* the holdout comparison
    active      \* the candidate serves planner and reviewer

world == <<head, deployed>>
receipts == <<reserved, completed, opened>>
decisions == <<stage, selection, frozen, claim, active>>
vars == <<world, pc, job, filed, receipts, decisions>>

------------------------------------------------------------------------------
(* Scores.  An attempt is graded by the dimensions it passes: 0 is an answer  *)
(* without the schema, Dims a success.                                       *)

\* A slot is one attempt at one case.
VisibleSlots == Visible \X (1 .. Repeats)
SealedSlots == Sealed \X {1}
Subject == IF stage = "holdout" THEN Subjects ELSE Profiles

Gradings(slots) == {g \in [slots -> Error .. Dims] : \A s \in slots : g[s] \in Grades[s[1]]}
VisibleGradings == Gradings(VisibleSlots)
SealedGradings == Gradings(SealedSlots)

OfRole(g, r) == {s \in DOMAIN g : RoleOf[s[1]] = r}
OfCase(g, c) == {s \in DOMAIN g : s[1] = c}
CasesOf(g, S) == {s[1] : s \in S}

\* score: the share of the dimensions passed, none when the adapter failed.
Score(x) == IF x = Error THEN 0 ELSE x

\* summarize: mean scores of reports on one suite compare as their totals do,
\* unless the totals are equal, or differ by exactly the limit compared with.
Total(g, S) == SumFunctionOnSet([s \in S |-> Score(g[s])], S)
Least(g, S) == Min({Score(g[s]) : s \in S})
Successes(g, S) == Cardinality({s \in S : g[s] = Dims})

\* The hard gates: every attempt answered, in the schema, and not too poorly.
ProfileEligible(g, S) ==
    /\ \A s \in S : g[s] # Error
    /\ \A s \in S : g[s] # 0
    /\ Least(g, S) >= MinCase

\* The scores of a case, attempt by attempt.
Scores(g, c) == [i \in {s[2] : s \in OfCase(g, c)} |-> Score(g[<<c, i>>])]

Loss(base, cand, c) == Total(base, OfCase(base, c)) - Total(cand, OfCase(cand, c))

\* _material_regressions: the cases of a role that lost more than the policy lets,
\* as floats tell it: the difference of two means is compared without a tolerance.
MaterialRegressions(base, cand, r) ==
    {c \in CasesOf(base, OfRole(base, r)) :
        LET limit == MaxDrop * Cardinality(OfCase(base, c)) IN
        \/ Loss(base, cand, c) > limit
        \/ /\ Loss(base, cand, c) = limit
           /\ <<Scores(base, c), Scores(cand, c)>> \in RoundsBeyond[r]}

\* Compared with a tolerance, so exact.
Gain(base, cand, r) == Total(cand, OfRole(cand, r)) - Total(base, OfRole(base, r))

------------------------------------------------------------------------------
(* The world the commands run in.                                            *)

Init ==
    /\ head \in Commits
    /\ deployed = FALSE
    /\ stage = "profile"
    /\ pc = [p \in Procs |-> "idle"]
    /\ job = [p \in Procs |-> None]
    /\ filed = [s \in Profiles |-> None]
    /\ selection = None
    /\ frozen = None
    /\ reserved = [s \in Subjects |-> None]
    /\ completed = [s \in Subjects |-> None]
    /\ opened = [s \in Subjects |-> 0]
    /\ claim = None
    /\ active = FALSE

\* Another commit is checked out.
Checkout ==
    /\ head' \in Commits \ {head}
    /\ UNCHANGED <<deployed, pc, job, filed, receipts, decisions>>

\* activate-prompt or rollback-prompt changes the prompts that are active.
Deploy ==
    /\ deployed' = ~deployed
    /\ UNCHANGED <<head, pc, job, filed, receipts, decisions>>

\* mutant: a command that ends leaves what it read behind.
EndKeepsJob(p) == pc' = [pc EXCEPT ![p] = "idle"] /\ UNCHANGED job

End(p) ==
    /\ pc' = [pc EXCEPT ![p] = "idle"]
    /\ job' = [job EXCEPT ![p] = None]

\* A command is killed, a model server does not match, a file is malformed: the
\* command stops and what it has written stays.
Abort(p) ==
    /\ pc[p] # "idle"
    /\ End(p)
    /\ UNCHANGED <<world, filed, receipts, decisions>>

------------------------------------------------------------------------------
(* Collection.                                                               *)

\* validate_selection_report: the holdout opens for both roles or for none, and
\* the protocol assigns the prompts the frozen comparison selected.
SelectionMatches ==
    /\ selection # None
    /\ selection.ready = Roles
    /\ frozen = selection.chosen

\* Prompt tuning and the holdout compare prompts with the ones in the code.
RequireCodeBaseline == stage \in {"prompt", "holdout"} => ~deployed

\* The reads before anything is written: protocol, suite, commit, active
\* prompts and the model server.
Preflight(p, s) ==
    /\ pc[p] = "idle"
    /\ stage = "holdout" => SelectionMatches
    /\ RequireCodeBaseline
    /\ pc' = [pc EXCEPT ![p] = IF stage = "holdout" THEN "reserve" ELSE "run"]
    /\ job' = [job EXCEPT ![p] =
                 [stage |-> stage, subject |-> s, commit |-> head, prompts |-> deployed]]
    /\ UNCHANGED <<world, filed, receipts, decisions>>

Receipt(p) == [by |-> p, commit |-> job[p].commit]

\* mutant: the receipt of an interrupted run is written over.
ReserveOver(p) ==
    LET s == job[p].subject IN
    /\ pc[p] = "reserve"
    /\ reserved' = [reserved EXCEPT ![s] = Receipt(p)]
    /\ pc' = [pc EXCEPT ![p] = "open"]
    /\ UNCHANGED <<world, job, filed, completed, opened, decisions>>

\* reserve_holdout_run: the receipt is linked into place or the run stops.
Reserve(p) ==
    LET s == job[p].subject IN
    /\ pc[p] = "reserve"
    /\ reserved[s] = None
    /\ reserved' = [reserved EXCEPT ![s] = Receipt(p)]
    /\ pc' = [pc EXCEPT ![p] = "open"]
    /\ UNCHANGED <<world, job, filed, completed, opened, decisions>>

\* load_holdout_bundle: the trusted payload is read.
OpenSealed(p) ==
    /\ pc[p] = "open"
    /\ opened' = [opened EXCEPT ![job[p].subject] = @ + 1]
    /\ pc' = [pc EXCEPT ![p] = "run"]
    /\ UNCHANGED <<world, job, filed, reserved, completed, decisions>>

PromptsUnchanged(p) == deployed = job[p].prompts

\* What a report says; validate_report accepts no other.
Report(p, g) == [commit |-> job[p].commit, prompts |-> job[p].prompts, grades |-> g]

\* Every case has run: the prompts are read again, and the report is validated
\* and written.  A development experiment ends there.  No comparison of a later
\* protocol accepts a report of an earlier one, whose command may as well Abort.
Publish(p) ==
    /\ pc[p] = "run"
    /\ job[p].stage = stage
    /\ PromptsUnchanged(p)
    /\ \E g \in IF stage = "holdout" THEN SealedGradings ELSE VisibleGradings :
         /\ filed' = [filed EXCEPT ![job[p].subject] = Report(p, g)]
         /\ IF stage = "holdout"
              THEN pc' = [pc EXCEPT ![p] = "complete"] /\ UNCHANGED job
              ELSE End(p)
    /\ UNCHANGED <<world, receipts, decisions>>

\* complete_holdout_run: a second receipt binds the report to the reservation.
Complete(p) ==
    LET s == job[p].subject IN
    /\ pc[p] = "complete"
    /\ completed[s] = None
    /\ completed' = [completed EXCEPT ![s] =
                       [reservation |-> Receipt(p), report |-> filed[s]]]
    /\ End(p)
    /\ UNCHANGED <<world, filed, reserved, opened, decisions>>

------------------------------------------------------------------------------
(* Selection on the visible cases.                                           *)

Comparable ==
    /\ \A s \in Profiles : filed[s] # None
    /\ \A s \in Profiles : /\ filed[s].commit = filed[Control].commit
                           /\ filed[s].prompts = filed[Control].prompts

\* _rank: the eligible profiles with the best mean score in a role.  Rounding of
\* the means, stability, the least score, spread and latency settle a tie.
BestProfiles(r) ==
    LET g(s) == filed[s].grades
        total(s) == Total(g(s), OfRole(g(s), r))
        eligible == {s \in Profiles : ProfileEligible(g(s), OfRole(g(s), r))}
    IN  {s \in eligible : \A t \in eligible : total(t) <= total(s)}

\* mutant: a profile may be selected although it did worse on one case.
HoldoutReadyOnGain(r, s) == Gain(filed[Control].grades, filed[s].grades, r) >= MinGain

HoldoutReady(r, s) ==
    /\ Gain(filed[Control].grades, filed[s].grades, r) >= MinGain
    /\ MaterialRegressions(filed[Control].grades, filed[s].grades, r) = {}

\* compare_reports of both experiments.
Select ==
    /\ stage # "holdout"
    /\ selection = None
    /\ Comparable
    /\ \E s \in Profiles : ProfileEligible(filed[s].grades, VisibleSlots)
    /\ \E chosen \in [Roles -> Profiles] :
         /\ \A r \in Roles : chosen[r] \in BestProfiles(r)
         /\ selection' = [chosen |-> chosen, ready |-> {r \in Roles : HoldoutReady(r, chosen[r])}]
    /\ UNCHANGED <<world, pc, job, filed, receipts, stage, frozen, claim, active>>

\* The maintainers commit the next protocol: prompt tuning at the generation
\* profiles they settled on, then the holdout with the prompts it compares.
FreezeProtocol ==
    /\ selection # None
    /\ \/ /\ stage = "profile"
          /\ stage' = "prompt"
          /\ selection' = None
          /\ filed' = [s \in Profiles |-> None]
          /\ UNCHANGED frozen
       \/ /\ stage = "prompt"
          /\ stage' = "holdout"
          /\ frozen' \in [Roles -> Profiles]
          /\ filed' = [s \in Subjects |-> None]
          /\ UNCHANGED selection
    /\ UNCHANGED <<world, pc, job, receipts, claim, active>>

------------------------------------------------------------------------------
(* The claim, and what rests on it.                                          *)

\* mutant: a report is accepted without the receipt of a finished run.
ReceiptsReserved(s) == reserved[s] # None

\* _require_completion_receipt.
Receipted(s) ==
    /\ reserved[s] # None
    /\ completed[s] # None
    /\ completed[s].reservation = reserved[s]
    /\ completed[s].report = filed[s]

\* The decision on one role.
Qualifies(base, cand, r) ==
    /\ ProfileEligible(cand, OfRole(cand, r))
    /\ Gain(base, cand, r) >= MinGain
    /\ Successes(cand, OfRole(cand, r)) >= Successes(base, OfRole(base, r))
    /\ MaterialRegressions(base, cand, r) = {}

\* _compare: the sealed cases are loaded once the selection is validated, before
\* any report or receipt is read, and however often the command is given.
OpenComparison(p) ==
    /\ pc[p] = "idle"
    /\ stage = "holdout"
    /\ SelectionMatches
    /\ pc' = [pc EXCEPT ![p] = "compare"]
    /\ UNCHANGED <<world, job, filed, receipts, decisions>>

\* The rest of _compare: the reports decide the claim, so a second comparison
\* repeats it.  Where a check fails the command stops instead (Abort).
CompareHoldout(p) ==
    /\ pc[p] = "compare"
    /\ claim = None
    /\ \A s \in Subjects : filed[s] # None
    /\ filed["baseline"].commit = filed["candidate"].commit
    /\ \A s \in Subjects : Receipted(s)
    /\ claim' = [reports |-> filed,
                 qualified |-> {r \in Roles : Qualifies(filed["baseline"].grades,
                                                        filed["candidate"].grades, r)}]
    /\ pc' = [pc EXCEPT ![p] = "idle"]
    /\ UNCHANGED <<world, job, filed, receipts, stage, selection, frozen, active>>

\* load_role_activation: a committed manifest, enabled or not, that rests on a
\* claim of both roles; the control has no instructions to activate.
Activate ==
    /\ claim # None
    /\ claim.qualified = Roles
    /\ \A r \in Roles : frozen[r] # Control
    /\ active' = ~active
    /\ UNCHANGED <<world, pc, job, filed, receipts, stage, selection, frozen, claim>>

Next ==
    \/ Checkout \/ Deploy \/ Select \/ FreezeProtocol \/ Activate
    \/ \E p \in Procs :
         \/ \E s \in Subject : Preflight(p, s)
         \/ Reserve(p) \/ OpenSealed(p) \/ Publish(p) \/ Complete(p) \/ Abort(p)
         \/ OpenComparison(p) \/ CompareHoldout(p)

Spec == Init /\ [][Next]_vars

------------------------------------------------------------------------------
(* Properties.                                                               *)

Job == [stage : {"profile", "prompt", "holdout"}, subject : Profiles \cup Subjects,
        commit : Commits, prompts : BOOLEAN]
Choice == [Roles -> Profiles]
Reports(gradings) == [commit : Commits, prompts : BOOLEAN, grades : gradings]

\* Every collection holds what it read exactly while it runs, under a protocol that
\* has been in force; reports belong to the protocol in force, and evidence about
\* the sealed cases exists only after the holdout protocol was frozen.
TypeOK ==
    /\ head \in Commits /\ deployed \in BOOLEAN /\ active \in BOOLEAN
    /\ stage \in {"profile", "prompt", "holdout"}
    /\ pc \in [Procs -> {"idle", "reserve", "open", "run", "complete", "compare"}]
    /\ \A p \in Procs : IF pc[p] \in {"idle", "compare"} THEN job[p] = None ELSE job[p] \in Job
    /\ DOMAIN filed = Subject
    /\ \A s \in Subject : filed[s] # None => 
         filed[s] \in Reports(IF stage = "holdout" THEN SealedGradings ELSE VisibleGradings)
    /\ selection # None => selection \in [chosen : Choice, ready : SUBSET Roles]
    /\ IF stage = "holdout" THEN frozen \in Choice ELSE frozen = None
    /\ opened \in [Subjects -> Nat]
    /\ reserved \in [Subjects -> [by : Procs, commit : Commits] \cup {None}]
    /\ \A s \in Subjects : completed[s] # None =>
         completed[s] \in [reservation : [by : Procs, commit : Commits], report : Reports(SealedGradings)]
    /\ stage # "holdout" => /\ \A s \in Subjects : reserved[s] = None /\ completed[s] = None
                           /\ claim = None

\* docs/QWYTHOS_HOLDOUT_QUALIFICATION.md, "One-shot behavior": whatever commands
\* race, fail or are killed, at most one collection puts the sealed cases to a
\* subject, under a reservation, and never before the visible cases had opened both
\* roles for the very prompts the candidate is frozen at.  What a comparison
\* loads is no part of this: _compare asks for no reservation, whatever the
\* docstring of load_holdout_bundle says (real_task_holdout.py:476).
CollectedOnce ==
    \A s \in Subjects :
        /\ opened[s] <= 1
        /\ opened[s] = 1 =>
             /\ reserved[s] # None
             /\ selection # None
             /\ selection.ready = Roles
             /\ \A r \in Roles : frozen[r] = selection.chosen[r] /\ frozen[r] # Control

\* The rule of docs/QWYTHOS_HOLDOUT_QUALIFICATION.md, attempt by attempt: full
\* reliability, no poor case, a gain of the role, no fewer successes, no case
\* that lost more than is allowed.
EarnsRole(base, cand, r, allowed) ==
    LET slots == {s \in SealedSlots : RoleOf[s[1]] = r}
        won == [s \in slots |-> Score(cand[s]) - Score(base[s])]
    IN  /\ \A s \in slots : cand[s] > 0 /\ cand[s] >= MinCase /\ won[s] >= -allowed
        /\ SumFunctionOnSet(won, slots) >= MinGain
        /\ Cardinality({s \in slots : base[s] = Dims /\ cand[s] < Dims})
             <= Cardinality({s \in slots : base[s] < Dims /\ cand[s] = Dims})

\* A claim rests on the one collection of each subject: the reports are those the
\* reserved runs completed, on one commit and on the code's own prompts, every role
\* it names has earned it, and every role that earned it without a loss of the very
\* limit is named (what floats make of that loss is left open).  The candidate
\* serves only when it earned both.
ClaimIsEarned ==
    /\ claim # None =>
         /\ \A s \in Subjects :
              /\ opened[s] = 1
              /\ completed[s] # None
              /\ claim.reports[s] = completed[s].report
              /\ completed[s].reservation = reserved[s]
              /\ claim.reports[s].commit = reserved[s].commit
              /\ ~claim.reports[s].prompts
         /\ reserved["baseline"].commit = reserved["candidate"].commit
         /\ \A r \in Roles :
              LET earns(allowed) == EarnsRole(claim.reports["baseline"].grades,
                                              claim.reports["candidate"].grades, r, allowed)
              IN  /\ r \in claim.qualified => earns(MaxDrop)
                  /\ earns(MaxDrop - 1) => r \in claim.qualified
    /\ active => claim # None /\ claim.qualified = Roles

\* docs/QWYTHOS_PROFILE_TUNING.md: a role goes on to the holdout only with a
\* profile that answered every visible attempt in the schema, that no reliable
\* profile beats in the role, and that, against the control on the same commit
\* and prompts, gained enough and lost more than is allowed on no case.
EarnsHoldout(r, s, allowed) ==
    LET slots == {k \in VisibleSlots : RoleOf[k[1]] = r}
        grade(t, k) == filed[t].grades[k]
        sum(t, S) == SumFunctionOnSet([k \in S |-> Score(grade(t, k))], S)
        reliable(t) == \A k \in slots : grade(t, k) > 0 /\ grade(t, k) >= MinCase
    IN  /\ reliable(s)
        /\ \A t \in Profiles : reliable(t) => sum(t, slots) <= sum(s, slots)
        /\ sum(s, slots) >= sum(Control, slots) + MinGain
        /\ \A c \in Visible : RoleOf[c] = r =>
             LET same == {k \in slots : k[1] = c}
             IN  sum(Control, same) <= sum(s, same) + allowed
        /\ \A t \in Profiles : /\ filed[t].commit = filed[s].commit
                               /\ filed[t].prompts = filed[s].prompts

\* Every selection the comparison writes opens only roles that earned it, and all
\* that earned it without a loss of the very limit (what floats make of that loss is
\* left open).
SelectionIsEarned ==
    [][selection' # selection /\ selection' # None =>
         \A r \in Roles :
            LET earns(allowed) == EarnsHoldout(r, selection'.chosen[r], allowed)
            IN  /\ r \in selection'.ready => earns(MaxDrop * Repeats)
                /\ earns(MaxDrop * Repeats - 1) => r \in selection'.ready]_vars
==============================================================================
