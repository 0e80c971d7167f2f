--------------------------- MODULE CampaignProofs ---------------------------
(***************************************************************************)
(* Theorems about Campaign for any processes, builds, identities and limit: *)
(* what survives every interleaving of the commands and every crash, and   *)
(* what holds while no two commands overlap: the limits of the campaign,    *)
(* its bindings, its audit, and CampaignLedger, which the store implements. *)
(***************************************************************************)
EXTENDS Campaign, FiniteSetTheorems, TLAPS

-----------------------------------------------------------------------------
(***************************************************************************)
(* Type correctness.                                                       *)
(***************************************************************************)

\* Statements that are about a build, and about a verdict.
BuildStatements ==
    {"building", "build_complete", "build_fail", "bind", "bind_count",
     "bind_write", "eval_check", "eval_count", "eval_insert", "evaluating",
     "decide_insert"}

CloseStatements == {"close_decisions", "close_write"}

\* A process past a command's first checks has named a build, or read evidence.
NamesBuild ==
    \A p \in Procs :
        /\ pc[p] \in BuildStatements => build[p] \in Builds
        /\ pc[p] \in CloseStatements => verdict[p] \in Closed

LocalsInv == LocalsType /\ NamesBuild

TypeInv == TablesType /\ LocalsInv

\* A command that ends forgets its variables.
LEMMA FinishLocals ==
    ASSUME LocalsInv, NEW p \in Procs, Finish(p)
    PROVE  LocalsInv'
  <1>1. NoOffer \in Identities
    BY DEF NoOffer, Identities
  <1>2. /\ pc' = [pc EXCEPT ![p] = "idle"]
        /\ job' = [job EXCEPT ![p] = "none"]
        /\ build' = [build EXCEPT ![p] = None]
        /\ offer' = [offer EXCEPT ![p] = NoOffer]
        /\ field' = [field EXCEPT ![p] = "evaluator"]
        /\ choice' = [choice EXCEPT ![p] = "none"]
        /\ seen' = [seen EXCEPT ![p] = {}]
        /\ verdict' = [verdict EXCEPT ![p] = "none"]
    BY DEF Finish, Goto
  <1>3. LocalsType'
    BY <1>1, <1>2 DEF LocalsInv, LocalsType, Statements, Jobs
  <1>4. NamesBuild'
    BY <1>2 DEF LocalsInv, LocalsType, NamesBuild, BuildStatements,
                CloseStatements
  <1>5. QED
    BY <1>3, <1>4 DEF LocalsInv

\* A command goes on to a statement it is ready for.
LEMMA GotoLocals ==
    ASSUME LocalsInv, NEW p \in Procs, NEW l \in Statements, Goto(p, l),
           UNCHANGED locals,
           l \in BuildStatements => build[p] \in Builds,
           l \in CloseStatements => verdict[p] \in Closed
    PROVE  LocalsInv'
  BY DEF LocalsInv, LocalsType, NamesBuild, Goto, locals

LEMMA CheckLocals ==
    ASSUME LocalsInv, NEW p \in Procs, NEW l \in Statements, NEW ok,
           Check(p, ok, l),
           l \in BuildStatements => build[p] \in Builds,
           l \in CloseStatements => verdict[p] \in Closed
    PROVE  LocalsInv'
  BY FinishLocals, GotoLocals DEF Check

LEMMA TablesKept ==
    ASSUME TablesType, UNCHANGED tables
    PROVE  TablesType'
  BY DEF TablesType, tables

LEMMA InitType == Init => TypeInv
  <1> SUFFICES ASSUME Init
               PROVE  TypeInv
    OBVIOUS
  <1>1. TablesType
    BY DEF Init, TablesType, NoCampaign, NoEvaluation
  <1>2. LocalsType
    BY DEF Init, LocalsType, NoOffer, Identities, Statements, Jobs
  <1>3. NamesBuild
    BY DEF Init, NamesBuild, BuildStatements, CloseStatements
  <1>4. QED
    BY <1>1, <1>2, <1>3 DEF TypeInv, LocalsInv

LEMMA NextLocals == TypeInv /\ [Next]_vars => LocalsInv'
  <1> SUFFICES ASSUME TypeInv, [Next]_vars
               PROVE  LocalsInv'
    OBVIOUS
  <1> USE DEF TypeInv
  <1>1. ASSUME NEW p \in Procs, CreateCampaign(p)
        PROVE  LocalsInv'
    BY <1>1 DEF CreateCampaign, Begin, Goto, LocalsInv, LocalsType,
       NamesBuild, BuildStatements, CloseStatements, Statements, Jobs
  <1>2. ASSUME NEW p \in Procs, AddBrief(p)
        PROVE  LocalsInv'
    BY <1>2, FinishLocals DEF AddBrief
  <1>3. ASSUME NEW p \in Procs, ApproveBrief(p)
        PROVE  LocalsInv'
    BY <1>3 DEF ApproveBrief, locals, LocalsInv, LocalsType, NamesBuild,
       BuildStatements, CloseStatements, Statements, Jobs
  <1>4. ASSUME NEW p \in Procs, BeginBuild(p)
        PROVE  LocalsInv'
    BY <1>4 DEF BeginBuild, Begin, Goto, LocalsInv, LocalsType, NamesBuild,
       BuildStatements, CloseStatements, Statements, Jobs
  <1>5. ASSUME NEW p \in Procs, CheckBuild(p)
        PROVE  LocalsInv'
    BY <1>5, CheckLocals DEF CheckBuild, Statements, LocalsInv, LocalsType,
       NamesBuild, BuildStatements, CloseStatements
  <1>6. ASSUME NEW p \in Procs, CountBuilds(p)
        PROVE  LocalsInv'
    BY <1>6, CheckLocals DEF CountBuilds, Statements, LocalsInv, LocalsType,
       NamesBuild, BuildStatements, CloseStatements
  <1>7. ASSUME NEW p \in Procs, InsertBuild(p)
        PROVE  LocalsInv'
    BY <1>7 DEF InsertBuild, Goto, LocalsInv, LocalsType, NamesBuild,
       BuildStatements, CloseStatements, Statements, Jobs
  <1>8. ASSUME NEW p \in Procs, ProduceCandidate(p)
        PROVE  LocalsInv'
    BY <1>8, GotoLocals DEF ProduceCandidate, Statements, LocalsInv,
       NamesBuild, BuildStatements, CloseStatements
  <1>9. ASSUME NEW p \in Procs, CompleteBuild(p)
        PROVE  LocalsInv'
    BY <1>9, FinishLocals DEF CompleteBuild
  <1>10. ASSUME NEW p \in Procs, BuildRaises(p)
        PROVE  LocalsInv'
    BY <1>10, GotoLocals DEF BuildRaises, Statements, LocalsInv, NamesBuild,
       BuildStatements, CloseStatements
  <1>11. ASSUME NEW p \in Procs, FailBuild(p)
        PROVE  LocalsInv'
    BY <1>11, FinishLocals DEF FailBuild
  <1>12. ASSUME NEW p \in Procs, BeginEvaluation(p)
        PROVE  LocalsInv'
    BY <1>12 DEF BeginEvaluation, Begin, Goto, Identities, LocalsInv,
       LocalsType, NamesBuild, BuildStatements, CloseStatements, Statements,
       Jobs
  <1>13. ASSUME NEW p \in Procs, ReadIdentity(p)
        PROVE  LocalsInv'
    <2>1. CASE Bound(p) /\ UNCHANGED <<job, build, offer, choice, seen, verdict>>
      BY <2>1, <1>13 DEF ReadIdentity, Bound, Goto, LocalsInv, LocalsType, NamesBuild, BuildStatements, CloseStatements, Statements, Jobs
    <2>2. CASE Goto(p, "bind_count") /\ UNCHANGED locals
      BY <2>2, <1>13, GotoLocals DEF ReadIdentity, Statements, LocalsInv, NamesBuild,
         BuildStatements, CloseStatements
    <2>3. CASE Finish(p)
      BY <2>3, FinishLocals
    <2>4. QED
      BY <1>13, <2>1, <2>2, <2>3 DEF ReadIdentity
  <1>14. ASSUME NEW p \in Procs, CountBeforeBinding(p)
        PROVE  LocalsInv'
    BY <1>14, CheckLocals DEF CountBeforeBinding, Statements, LocalsInv,
       LocalsType, NamesBuild, BuildStatements, CloseStatements
  <1>15. ASSUME NEW p \in Procs, WriteIdentity(p)
        PROVE  LocalsInv'
    BY <1>15 DEF WriteIdentity, Bound, Goto, LocalsInv, LocalsType, NamesBuild, BuildStatements, CloseStatements, Statements, Jobs
  <1>16. ASSUME NEW p \in Procs, CheckEvaluation(p)
        PROVE  LocalsInv'
    BY <1>16, CheckLocals DEF CheckEvaluation, Statements, LocalsInv,
       LocalsType, NamesBuild, BuildStatements, CloseStatements
  <1>17. ASSUME NEW p \in Procs, CountEvaluations(p)
        PROVE  LocalsInv'
    BY <1>17, CheckLocals DEF CountEvaluations, Statements, LocalsInv,
       LocalsType, NamesBuild, BuildStatements, CloseStatements
  <1>18. ASSUME NEW p \in Procs, InsertEvaluation(p)
        PROVE  LocalsInv'
    <2>1. CASE Finish(p)
      BY <2>1, FinishLocals
    <2>2. CASE Goto(p, "evaluating") /\ UNCHANGED locals
      BY <2>2, <1>18, GotoLocals DEF InsertEvaluation, Statements, LocalsInv, NamesBuild,
         BuildStatements, CloseStatements
    <2>3. QED
      BY <1>18, <2>1, <2>2 DEF InsertEvaluation
  <1>19. ASSUME NEW p \in Procs, CompleteEvaluation(p)
        PROVE  LocalsInv'
    BY <1>19, FinishLocals DEF CompleteEvaluation
  <1>20. ASSUME NEW p \in Procs, BeginDecision(p)
        PROVE  LocalsInv'
    BY <1>20 DEF BeginDecision, Begin, Goto, Evaluated, LocalsInv, LocalsType,
       NamesBuild, BuildStatements, CloseStatements, Statements, Jobs
  <1>21. ASSUME NEW p \in Procs, InsertDecision(p)
        PROVE  LocalsInv'
    BY <1>21, CheckLocals DEF InsertDecision, Statements, LocalsInv,
       LocalsType, NamesBuild, BuildStatements, CloseStatements
  <1>22. ASSUME NEW p \in Procs, BeginClose(p)
        PROVE  LocalsInv'
    BY <1>22 DEF BeginClose, Begin, Goto, LocalsInv, LocalsType, NamesBuild,
       BuildStatements, CloseStatements, Statements, Jobs
  <1>23. ASSUME NEW p \in Procs, BeginFinalize(p)
        PROVE  LocalsInv'
    BY <1>23 DEF BeginFinalize, Begin, Goto, Due, LocalsInv, LocalsType,
       NamesBuild, BuildStatements, CloseStatements, Statements, Jobs
  <1>24. ASSUME NEW p \in Procs, ReadStatus(p)
        PROVE  LocalsInv'
    BY <1>24 DEF ReadStatus, Goto, locals, LocalsInv, LocalsType, NamesBuild,
       BuildStatements, CloseStatements, Statements, Jobs
  <1>25. ASSUME NEW p \in Procs, ReadEvaluations(p)
        PROVE  LocalsInv'
    <2>1. CASE Finish(p)
      BY <2>1, FinishLocals
    <2>2. CASE ~Finish(p)
      BY <2>2, <1>25 DEF ReadEvaluations, Verdict, Closed, Evaluated, Goto, LocalsInv, LocalsType, NamesBuild, BuildStatements, CloseStatements, Statements, Jobs
    <2>3. QED
      BY <2>1, <2>2
  <1>26. ASSUME NEW p \in Procs, ReadDecisions(p)
        PROVE  LocalsInv'
    BY <1>26, CheckLocals DEF ReadDecisions, Statements, LocalsInv,
       LocalsType, NamesBuild, BuildStatements, CloseStatements
  <1>27. ASSUME NEW p \in Procs, WriteStatus(p)
        PROVE  LocalsInv'
    BY <1>27, CheckLocals DEF WriteStatus, Statements, LocalsInv, LocalsType,
       NamesBuild, BuildStatements, CloseStatements
  <1>28. ASSUME NEW p \in Procs, AuditCampaign(p)
        PROVE  LocalsInv'
    BY <1>28, FinishLocals DEF AuditCampaign
  <1>29. ASSUME NEW p \in Procs, Crash(p)
        PROVE  LocalsInv'
    BY <1>29, FinishLocals DEF Crash
  <1>30. CASE UNCHANGED vars
    BY <1>30 DEF vars, locals, LocalsInv, LocalsType, NamesBuild
  <1> HIDE DEF TypeInv
  <1>31. QED
    BY <1>1, <1>2, <1>3, <1>4, <1>5, <1>6, <1>7, <1>8, <1>9, <1>10, <1>11,
       <1>12, <1>13, <1>14, <1>15, <1>16, <1>17, <1>18, <1>19, <1>20, <1>21,
       <1>22, <1>23, <1>24, <1>25, <1>26, <1>27, <1>28, <1>29, <1>30
       DEF Next, Creating, Building, Evaluating, Deciding, Closing

LEMMA NextTables == TypeInv /\ [Next]_vars => TablesType'
  <1> SUFFICES ASSUME TypeInv, [Next]_vars
               PROVE  TablesType'
    OBVIOUS
  <1> USE DEF TypeInv
  <1>1. ASSUME NEW p \in Procs, CreateCampaign(p)
        PROVE  TablesType'
    BY <1>1 DEF CreateCampaign, TablesType, Identities
  <1>2. ASSUME NEW p \in Procs, AddBrief(p)
        PROVE  TablesType'
    BY <1>2 DEF AddBrief, TablesType, LocalsInv, LocalsType, NamesBuild,
       BuildStatements, CloseStatements, Closed
  <1>3. ASSUME NEW p \in Procs, ApproveBrief(p)
        PROVE  TablesType'
    BY <1>3 DEF ApproveBrief, TablesType, LocalsInv, LocalsType, NamesBuild,
       BuildStatements, CloseStatements, Closed
  <1>4. ASSUME NEW p \in Procs, BeginBuild(p)
        PROVE  TablesType'
    BY <1>4, TablesKept DEF BeginBuild
  <1>5. ASSUME NEW p \in Procs, CheckBuild(p)
        PROVE  TablesType'
    BY <1>5, TablesKept DEF CheckBuild
  <1>6. ASSUME NEW p \in Procs, CountBuilds(p)
        PROVE  TablesType'
    BY <1>6, TablesKept DEF CountBuilds
  <1>7. ASSUME NEW p \in Procs, InsertBuild(p)
        PROVE  TablesType'
    BY <1>7 DEF InsertBuild, TablesType, LocalsInv, LocalsType, NamesBuild,
       BuildStatements, CloseStatements, Closed
  <1>8. ASSUME NEW p \in Procs, ProduceCandidate(p)
        PROVE  TablesType'
    BY <1>8 DEF ProduceCandidate, TablesType, LocalsInv, LocalsType,
       NamesBuild, BuildStatements, CloseStatements, Closed
  <1>9. ASSUME NEW p \in Procs, CompleteBuild(p)
        PROVE  TablesType'
    BY <1>9 DEF CompleteBuild, TablesType, LocalsInv, LocalsType, NamesBuild,
       BuildStatements, CloseStatements, Closed
  <1>10. ASSUME NEW p \in Procs, BuildRaises(p)
        PROVE  TablesType'
    BY <1>10, TablesKept DEF BuildRaises
  <1>11. ASSUME NEW p \in Procs, FailBuild(p)
        PROVE  TablesType'
    BY <1>11 DEF FailBuild, TablesType, LocalsInv, LocalsType, NamesBuild,
       BuildStatements, CloseStatements, Closed
  <1>12. ASSUME NEW p \in Procs, BeginEvaluation(p)
        PROVE  TablesType'
    BY <1>12, TablesKept DEF BeginEvaluation
  <1>13. ASSUME NEW p \in Procs, ReadIdentity(p)
        PROVE  TablesType'
    BY <1>13, TablesKept DEF ReadIdentity
  <1>14. ASSUME NEW p \in Procs, CountBeforeBinding(p)
        PROVE  TablesType'
    BY <1>14, TablesKept DEF CountBeforeBinding
  <1>15. ASSUME NEW p \in Procs, WriteIdentity(p)
        PROVE  TablesType'
    <2>1. offer[p] \in Identities /\ field[p] \in {"holdout", "evaluator"}
      BY DEF LocalsInv, LocalsType
    <2>2. CASE field[p] = "holdout"
      BY <1>15, <2>1, <2>2 DEF WriteIdentity, TablesType, Identities
    <2>3. CASE field[p] = "evaluator"
      BY <1>15, <2>1, <2>3 DEF WriteIdentity, TablesType, Identities
    <2>4. QED
      BY <2>1, <2>2, <2>3
  <1>16. ASSUME NEW p \in Procs, CheckEvaluation(p)
        PROVE  TablesType'
    BY <1>16, TablesKept DEF CheckEvaluation
  <1>17. ASSUME NEW p \in Procs, CountEvaluations(p)
        PROVE  TablesType'
    BY <1>17, TablesKept DEF CountEvaluations
  <1>18. ASSUME NEW p \in Procs, InsertEvaluation(p)
        PROVE  TablesType'
    <2>1. /\ offer[p].holdout \in Holdouts \cup {None}
          /\ offer[p].evaluator \in Evaluators \cup {None}
      BY DEF LocalsInv, LocalsType, Identities
    <2>2. QED
      BY <1>18, <2>1 DEF InsertEvaluation, TablesType
  <1>19. ASSUME NEW p \in Procs, CompleteEvaluation(p)
        PROVE  TablesType'
    <2>1. build[p] \in Builds
      BY <1>19 DEF CompleteEvaluation, LocalsInv, NamesBuild, BuildStatements
    <2>2. PICK t \in Terminal, s \in Scores :
             evals' = [evals EXCEPT ![build[p]] =
                                      [@ EXCEPT !.status = t, !.score = s]]
      BY <1>19 DEF CompleteEvaluation
    <2>3. [evals[build[p]] EXCEPT !.status = t, !.score = s]
            \in [status : {"none", "running"} \cup Terminal,
                 score : {"none"} \cup Scores,
                 holdout : Holdouts \cup {None},
                 evaluator : Evaluators \cup {None}]
      <3>1. evals[build[p]] \in [status : {"none", "running"} \cup Terminal,
                                score : {"none"} \cup Scores,
                                holdout : Holdouts \cup {None},
                                evaluator : Evaluators \cup {None}]
        BY <2>1 DEF TablesType
      <3>2. QED
        BY <3>1
    <2>4. evals' \in [Builds -> [status : {"none", "running"} \cup Terminal,
                                score : {"none"} \cup Scores,
                                holdout : Holdouts \cup {None},
                                evaluator : Evaluators \cup {None}]]
      BY <2>1, <2>2, <2>3 DEF TablesType
    <2>5. QED
      BY <1>19, <2>4 DEF CompleteEvaluation, TablesType
  <1>20. ASSUME NEW p \in Procs, BeginDecision(p)
        PROVE  TablesType'
    BY <1>20, TablesKept DEF BeginDecision
  <1>21. ASSUME NEW p \in Procs, InsertDecision(p)
        PROVE  TablesType'
    BY <1>21 DEF InsertDecision, TablesType, LocalsInv, LocalsType,
       NamesBuild, BuildStatements, CloseStatements, Closed
  <1>22. ASSUME NEW p \in Procs, BeginClose(p)
        PROVE  TablesType'
    BY <1>22, TablesKept DEF BeginClose
  <1>23. ASSUME NEW p \in Procs, BeginFinalize(p)
        PROVE  TablesType'
    BY <1>23, TablesKept DEF BeginFinalize
  <1>24. ASSUME NEW p \in Procs, ReadStatus(p)
        PROVE  TablesType'
    BY <1>24, TablesKept DEF ReadStatus
  <1>25. ASSUME NEW p \in Procs, ReadEvaluations(p)
        PROVE  TablesType'
    BY <1>25, TablesKept DEF ReadEvaluations
  <1>26. ASSUME NEW p \in Procs, ReadDecisions(p)
        PROVE  TablesType'
    BY <1>26, TablesKept DEF ReadDecisions
  <1>27. ASSUME NEW p \in Procs, WriteStatus(p)
        PROVE  TablesType'
    BY <1>27 DEF WriteStatus, TablesType, LocalsInv, LocalsType, NamesBuild,
       BuildStatements, CloseStatements, Closed
  <1>28. ASSUME NEW p \in Procs, AuditCampaign(p)
        PROVE  TablesType'
    BY <1>28, TablesKept DEF AuditCampaign
  <1>29. ASSUME NEW p \in Procs, Crash(p)
        PROVE  TablesType'
    BY <1>29, TablesKept DEF Crash
  <1>30. CASE UNCHANGED vars
    BY <1>30, TablesKept DEF vars
  <1> HIDE DEF TypeInv
  <1>31. QED
    BY <1>1, <1>2, <1>3, <1>4, <1>5, <1>6, <1>7, <1>8, <1>9, <1>10, <1>11,
       <1>12, <1>13, <1>14, <1>15, <1>16, <1>17, <1>18, <1>19, <1>20, <1>21,
       <1>22, <1>23, <1>24, <1>25, <1>26, <1>27, <1>28, <1>29, <1>30
       DEF Next, Creating, Building, Evaluating, Deciding, Closing

\* TypeOK: the stored rows and the variables of the commands keep their types
\* whatever commands run, interleave and crash.
THEOREM TypeCorrect == Spec => []TypeOK
  <1>1. Init => TypeInv
    BY InitType
  <1>2. TypeInv /\ [Next]_vars => TypeInv'
    BY NextLocals, NextTables DEF TypeInv
  <1>3. TypeInv => TypeOK
    BY DEF TypeInv, LocalsInv, TypeOK
  <1>4. QED
    BY <1>1, <1>2, <1>3, PTL DEF Spec

-----------------------------------------------------------------------------
(***************************************************************************)
(* Evidence.  A running build or evaluation belongs to one process, the     *)
(* only one that will end it; what a process has checked about the rows it  *)
(* works from stays true until it uses them.                               *)
(***************************************************************************)

BuildOwners == {"building", "build_complete", "build_fail"}

EvaluationStatements ==
    {"bind", "bind_count", "bind_write", "eval_check", "eval_count",
     "eval_insert", "evaluating"}

Owners ==
    /\ \A p \in Procs :
          /\ pc[p] \in BuildOwners => builds[build[p]] = "running"
          /\ pc[p] = "evaluating" => evals[build[p]].status = "running"
    /\ \A p, q \in Procs :
          p # q /\ pc[p] \in BuildOwners /\ pc[q] \in BuildOwners
              => build[p] # build[q]
    /\ \A p, q \in Procs :
          p # q /\ pc[p] = "evaluating" /\ pc[q] = "evaluating"
              => build[p] # build[q]

\* Nothing happens before the campaign is created, and an evaluation is of a
\* ready build under an approved brief.
Ready ==
    /\ campaign.status = "none" =>
          /\ \A p \in Procs : pc[p] = "idle"
          /\ \A b \in Builds : builds[b] = "none"
    /\ \A p \in Procs : pc[p] \in EvaluationStatements =>
          builds[build[p]] = "ready" /\ brief = "approved"
    /\ \A b \in Builds :
          /\ evals[b].status # "none" => builds[b] = "ready" /\ brief = "approved"
          /\ builds[b] = "ready" /\ Prompt => artifact[b] = "ready"

\* A decision is about a terminal scorecard, and a promotion about an eligible
\* one; a process about to record one holds the same.
Decided ==
    /\ \A b \in Builds :
          /\ evals[b].score = "eligible" => evals[b].status = "completed"
          /\ decision[b] # "none" => Settled(b)
          /\ decision[b] = "promote" => Eligible(b)
    /\ \A p \in Procs : pc[p] = "decide_insert" =>
          /\ Settled(build[p]) /\ choice[p] # "none"
          /\ choice[p] = "promote" => Eligible(build[p])

EvidenceInv == TypeInv /\ Owners /\ Ready /\ Decided /\ CloseRestsOnDecisions

LEMMA NextOwners == EvidenceInv /\ [Next]_vars => Owners'
  <1> SUFFICES ASSUME EvidenceInv, [Next]_vars
               PROVE  Owners'
    OBVIOUS
  <1>1. /\ Owners
        /\ pc \in [Procs -> Statements] /\ build \in [Procs -> Builds \cup {None}]
        /\ builds \in [Builds -> {"none", "running", "failed"} \cup BuildOutcomes]
        /\ DOMAIN evals = Builds
        /\ \A p \in Procs : pc[p] \in BuildStatements => build[p] \in Builds
    BY DEF EvidenceInv, TypeInv, TablesType, LocalsInv, LocalsType, NamesBuild
  <1> USE <1>1 DEF Owners, Goto, BuildOwners, BuildStatements, tables, locals
  <1>2. ASSUME NEW p \in Procs, CreateCampaign(p)
        PROVE  Owners'
    BY <1>2 DEF CreateCampaign, Begin
  <1>3. ASSUME NEW p \in Procs, AddBrief(p)
        PROVE  Owners'
    BY <1>3 DEF AddBrief, Finish
  <1>4. ASSUME NEW p \in Procs, ApproveBrief(p)
        PROVE  Owners'
    BY <1>4 DEF ApproveBrief
  <1>5. ASSUME NEW p \in Procs, BeginBuild(p)
        PROVE  Owners'
    BY <1>5 DEF BeginBuild, Begin
  <1>6. ASSUME NEW p \in Procs, CheckBuild(p)
        PROVE  Owners'
    BY <1>6 DEF CheckBuild, Check, Finish
  <1>7. ASSUME NEW p \in Procs, CountBuilds(p)
        PROVE  Owners'
    BY <1>7 DEF CountBuilds, Check, Finish
  <1>8. ASSUME NEW p \in Procs, InsertBuild(p)
        PROVE  Owners'
    BY <1>8 DEF InsertBuild, Attempts
  <1>9. ASSUME NEW p \in Procs, ProduceCandidate(p)
        PROVE  Owners'
    BY <1>9 DEF ProduceCandidate
  <1>10. ASSUME NEW p \in Procs, CompleteBuild(p)
        PROVE  Owners'
    BY <1>10 DEF CompleteBuild, Finish
  <1>11. ASSUME NEW p \in Procs, BuildRaises(p)
        PROVE  Owners'
    BY <1>11 DEF BuildRaises
  <1>12. ASSUME NEW p \in Procs, FailBuild(p)
        PROVE  Owners'
    BY <1>12 DEF FailBuild, Finish
  <1>13. ASSUME NEW p \in Procs, BeginEvaluation(p)
        PROVE  Owners'
    BY <1>13 DEF BeginEvaluation, Begin
  <1>14. ASSUME NEW p \in Procs, ReadIdentity(p)
        PROVE  Owners'
    BY <1>14 DEF ReadIdentity, Bound, Finish
  <1>15. ASSUME NEW p \in Procs, CountBeforeBinding(p)
        PROVE  Owners'
    BY <1>15 DEF CountBeforeBinding, Check, Finish
  <1>16. ASSUME NEW p \in Procs, WriteIdentity(p)
        PROVE  Owners'
    BY <1>16 DEF WriteIdentity, Bound
  <1>17. ASSUME NEW p \in Procs, CheckEvaluation(p)
        PROVE  Owners'
    BY <1>17 DEF CheckEvaluation, Check, Finish
  <1>18. ASSUME NEW p \in Procs, CountEvaluations(p)
        PROVE  Owners'
    BY <1>18 DEF CountEvaluations, Check, Finish
  <1>19. ASSUME NEW p \in Procs, InsertEvaluation(p)
        PROVE  Owners'
    BY <1>19 DEF InsertEvaluation, Finish, Evaluated
  <1>20. ASSUME NEW p \in Procs, CompleteEvaluation(p)
        PROVE  Owners'
    BY <1>20 DEF CompleteEvaluation, Finish
  <1>21. ASSUME NEW p \in Procs, BeginDecision(p)
        PROVE  Owners'
    BY <1>21 DEF BeginDecision, Begin
  <1>22. ASSUME NEW p \in Procs, InsertDecision(p)
        PROVE  Owners'
    BY <1>22 DEF InsertDecision, Check, Finish
  <1>23. ASSUME NEW p \in Procs, BeginClose(p)
        PROVE  Owners'
    BY <1>23 DEF BeginClose, Begin
  <1>24. ASSUME NEW p \in Procs, BeginFinalize(p)
        PROVE  Owners'
    BY <1>24 DEF BeginFinalize, Begin
  <1>25. ASSUME NEW p \in Procs, ReadStatus(p)
        PROVE  Owners'
    BY <1>25 DEF ReadStatus
  <1>26. ASSUME NEW p \in Procs, ReadEvaluations(p)
        PROVE  Owners'
    BY <1>26 DEF ReadEvaluations, Finish
  <1>27. ASSUME NEW p \in Procs, ReadDecisions(p)
        PROVE  Owners'
    BY <1>27 DEF ReadDecisions, Check, Finish
  <1>28. ASSUME NEW p \in Procs, WriteStatus(p)
        PROVE  Owners'
    BY <1>28 DEF WriteStatus, Check, Finish
  <1>29. ASSUME NEW p \in Procs, AuditCampaign(p)
        PROVE  Owners'
    BY <1>29 DEF AuditCampaign, Finish
  <1>30. ASSUME NEW p \in Procs, Crash(p)
        PROVE  Owners'
    BY <1>30 DEF Crash, Finish
  <1>31. CASE UNCHANGED vars
    BY <1>31 DEF vars, tables, locals
  <1> HIDE DEF Owners, Goto, BuildOwners, BuildStatements, tables, locals
  <1>32. QED
    BY <1>2, <1>3, <1>4, <1>5, <1>6, <1>7, <1>8, <1>9, <1>10, <1>11, <1>12,
       <1>13, <1>14, <1>15, <1>16, <1>17, <1>18, <1>19, <1>20, <1>21, <1>22,
       <1>23, <1>24, <1>25, <1>26, <1>27, <1>28, <1>29, <1>30, <1>31
       DEF Next, Creating, Building, Evaluating, Deciding, Closing

LEMMA NextReady == EvidenceInv /\ [Next]_vars => Ready'
  <1> SUFFICES ASSUME EvidenceInv, [Next]_vars
               PROVE  Ready'
    OBVIOUS
  <1>1. /\ Owners /\ Ready
        /\ pc \in [Procs -> Statements] /\ build \in [Procs -> Builds \cup {None}]
        /\ builds \in [Builds -> {"none", "running", "failed"} \cup BuildOutcomes]
        /\ artifact \in [Builds -> {"none"} \cup BuildOutcomes]
        /\ DOMAIN evals = Builds
        /\ \A p \in Procs :
              /\ pc[p] \in BuildStatements => build[p] \in Builds
              /\ pc[p] \in CloseStatements => verdict[p] \in Closed
              /\ field[p] \in {"holdout", "evaluator"}
        /\ campaign \in [status : {"none", "active"} \cup Closed,
                         kind : Kinds \cup {"none"},
                         holdout : Holdouts \cup {None},
                         evaluator : Evaluators \cup {None}]
    BY DEF EvidenceInv, TypeInv, TablesType, LocalsInv, LocalsType, NamesBuild
  <1> USE <1>1 DEF Ready, Owners, Goto, BuildOwners, EvaluationStatements, BuildStatements, CloseStatements, Prompt, Closed, tables, locals
  <1>2. ASSUME NEW p \in Procs, CreateCampaign(p)
        PROVE  Ready'
    BY <1>2 DEF CreateCampaign, Begin
  <1>3. ASSUME NEW p \in Procs, AddBrief(p)
        PROVE  Ready'
    BY <1>3 DEF AddBrief, Finish
  <1>4. ASSUME NEW p \in Procs, ApproveBrief(p)
        PROVE  Ready'
    BY <1>4 DEF ApproveBrief
  <1>5. ASSUME NEW p \in Procs, BeginBuild(p)
        PROVE  Ready'
    BY <1>5 DEF BeginBuild, Begin
  <1>6. ASSUME NEW p \in Procs, CheckBuild(p)
        PROVE  Ready'
    BY <1>6 DEF CheckBuild, Check, Finish
  <1>7. ASSUME NEW p \in Procs, CountBuilds(p)
        PROVE  Ready'
    BY <1>7 DEF CountBuilds, Check, Finish
  <1>8. ASSUME NEW p \in Procs, InsertBuild(p)
        PROVE  Ready'
    BY <1>8 DEF InsertBuild, Attempts
  <1>9. ASSUME NEW p \in Procs, ProduceCandidate(p)
        PROVE  Ready'
    BY <1>9 DEF ProduceCandidate
  <1>10. ASSUME NEW p \in Procs, CompleteBuild(p)
        PROVE  Ready'
    BY <1>10 DEF CompleteBuild, Finish
  <1>11. ASSUME NEW p \in Procs, BuildRaises(p)
        PROVE  Ready'
    BY <1>11 DEF BuildRaises
  <1>12. ASSUME NEW p \in Procs, FailBuild(p)
        PROVE  Ready'
    BY <1>12 DEF FailBuild, Finish
  <1>13. ASSUME NEW p \in Procs, BeginEvaluation(p)
        PROVE  Ready'
    BY <1>13 DEF BeginEvaluation, Begin
  <1>14. ASSUME NEW p \in Procs, ReadIdentity(p)
        PROVE  Ready'
    BY <1>14 DEF ReadIdentity, Bound, Finish
  <1>15. ASSUME NEW p \in Procs, CountBeforeBinding(p)
        PROVE  Ready'
    BY <1>15 DEF CountBeforeBinding, Check, Finish
  <1>16. ASSUME NEW p \in Procs, WriteIdentity(p)
        PROVE  Ready'
    BY <1>16 DEF WriteIdentity, Bound
  <1>17. ASSUME NEW p \in Procs, CheckEvaluation(p)
        PROVE  Ready'
    BY <1>17 DEF CheckEvaluation, Check, Finish
  <1>18. ASSUME NEW p \in Procs, CountEvaluations(p)
        PROVE  Ready'
    BY <1>18 DEF CountEvaluations, Check, Finish
  <1>19. ASSUME NEW p \in Procs, InsertEvaluation(p)
        PROVE  Ready'
    BY <1>19 DEF InsertEvaluation, Finish, Evaluated
  <1>20. ASSUME NEW p \in Procs, CompleteEvaluation(p)
        PROVE  Ready'
    BY <1>20 DEF CompleteEvaluation, Finish
  <1>21. ASSUME NEW p \in Procs, BeginDecision(p)
        PROVE  Ready'
    BY <1>21 DEF BeginDecision, Begin, Evaluated
  <1>22. ASSUME NEW p \in Procs, InsertDecision(p)
        PROVE  Ready'
    BY <1>22 DEF InsertDecision, Check, Finish
  <1>23. ASSUME NEW p \in Procs, BeginClose(p)
        PROVE  Ready'
    BY <1>23 DEF BeginClose, Begin
  <1>24. ASSUME NEW p \in Procs, BeginFinalize(p)
        PROVE  Ready'
    BY <1>24 DEF BeginFinalize, Begin, Evaluated
  <1>25. ASSUME NEW p \in Procs, ReadStatus(p)
        PROVE  Ready'
    BY <1>25 DEF ReadStatus
  <1>26. ASSUME NEW p \in Procs, ReadEvaluations(p)
        PROVE  Ready'
    BY <1>26 DEF ReadEvaluations, Finish
  <1>27. ASSUME NEW p \in Procs, ReadDecisions(p)
        PROVE  Ready'
    BY <1>27 DEF ReadDecisions, Check, Finish
  <1>28. ASSUME NEW p \in Procs, WriteStatus(p)
        PROVE  Ready'
    BY <1>28 DEF WriteStatus, Check, Finish
  <1>29. ASSUME NEW p \in Procs, AuditCampaign(p)
        PROVE  Ready'
    BY <1>29 DEF AuditCampaign, Finish
  <1>30. ASSUME NEW p \in Procs, Crash(p)
        PROVE  Ready'
    BY <1>30 DEF Crash, Finish
  <1>31. CASE UNCHANGED vars
    BY <1>31 DEF vars, tables, locals
  <1> HIDE DEF Ready, Owners, Goto, BuildOwners, EvaluationStatements, BuildStatements, CloseStatements, Prompt, Closed, tables, locals
  <1>32. QED
    BY <1>2, <1>3, <1>4, <1>5, <1>6, <1>7, <1>8, <1>9, <1>10, <1>11, <1>12,
       <1>13, <1>14, <1>15, <1>16, <1>17, <1>18, <1>19, <1>20, <1>21, <1>22,
       <1>23, <1>24, <1>25, <1>26, <1>27, <1>28, <1>29, <1>30, <1>31
       DEF Next, Creating, Building, Evaluating, Deciding, Closing

LEMMA NextDecided == EvidenceInv /\ [Next]_vars => Decided'
  <1> SUFFICES ASSUME EvidenceInv, [Next]_vars
               PROVE  Decided'
    OBVIOUS
  <1>1. /\ Owners /\ Ready /\ Decided
        /\ pc \in [Procs -> Statements] /\ build \in [Procs -> Builds \cup {None}]
        /\ choice \in [Procs -> {"none", "promote", "reject"}]
        /\ evals \in [Builds -> [status : {"none", "running"} \cup Terminal,
                                score : {"none"} \cup Scores,
                                holdout : Holdouts \cup {None},
                                evaluator : Evaluators \cup {None}]]
        /\ decision \in [Builds -> {"none", "promote", "reject"}]
        /\ \A p \in Procs : pc[p] \in BuildStatements => build[p] \in Builds
    BY DEF EvidenceInv, TypeInv, TablesType, LocalsInv, LocalsType, NamesBuild
  <1> USE <1>1 DEF Decided, Owners, Settled, Eligible, Terminal, Scores, Goto, BuildStatements, tables, locals
  <1>2. ASSUME NEW p \in Procs, CreateCampaign(p)
        PROVE  Decided'
    BY <1>2 DEF CreateCampaign, Begin
  <1>3. ASSUME NEW p \in Procs, AddBrief(p)
        PROVE  Decided'
    BY <1>3 DEF AddBrief, Finish
  <1>4. ASSUME NEW p \in Procs, ApproveBrief(p)
        PROVE  Decided'
    BY <1>4 DEF ApproveBrief
  <1>5. ASSUME NEW p \in Procs, BeginBuild(p)
        PROVE  Decided'
    BY <1>5 DEF BeginBuild, Begin
  <1>6. ASSUME NEW p \in Procs, CheckBuild(p)
        PROVE  Decided'
    BY <1>6 DEF CheckBuild, Check, Finish
  <1>7. ASSUME NEW p \in Procs, CountBuilds(p)
        PROVE  Decided'
    BY <1>7 DEF CountBuilds, Check, Finish
  <1>8. ASSUME NEW p \in Procs, InsertBuild(p)
        PROVE  Decided'
    BY <1>8 DEF InsertBuild
  <1>9. ASSUME NEW p \in Procs, ProduceCandidate(p)
        PROVE  Decided'
    BY <1>9 DEF ProduceCandidate
  <1>10. ASSUME NEW p \in Procs, CompleteBuild(p)
        PROVE  Decided'
    BY <1>10 DEF CompleteBuild, Finish
  <1>11. ASSUME NEW p \in Procs, BuildRaises(p)
        PROVE  Decided'
    BY <1>11 DEF BuildRaises
  <1>12. ASSUME NEW p \in Procs, FailBuild(p)
        PROVE  Decided'
    BY <1>12 DEF FailBuild, Finish
  <1>13. ASSUME NEW p \in Procs, BeginEvaluation(p)
        PROVE  Decided'
    BY <1>13 DEF BeginEvaluation, Begin
  <1>14. ASSUME NEW p \in Procs, ReadIdentity(p)
        PROVE  Decided'
    BY <1>14 DEF ReadIdentity, Bound, Finish
  <1>15. ASSUME NEW p \in Procs, CountBeforeBinding(p)
        PROVE  Decided'
    BY <1>15 DEF CountBeforeBinding, Check, Finish
  <1>16. ASSUME NEW p \in Procs, WriteIdentity(p)
        PROVE  Decided'
    BY <1>16 DEF WriteIdentity, Bound
  <1>17. ASSUME NEW p \in Procs, CheckEvaluation(p)
        PROVE  Decided'
    BY <1>17 DEF CheckEvaluation, Check, Finish
  <1>18. ASSUME NEW p \in Procs, CountEvaluations(p)
        PROVE  Decided'
    BY <1>18 DEF CountEvaluations, Check, Finish
  <1>19. ASSUME NEW p \in Procs, InsertEvaluation(p)
        PROVE  Decided'
    BY <1>19 DEF InsertEvaluation, Finish, Evaluated
  <1>20. ASSUME NEW p \in Procs, CompleteEvaluation(p)
        PROVE  Decided'
    BY <1>20 DEF CompleteEvaluation, Finish
  <1>21. ASSUME NEW p \in Procs, BeginDecision(p)
        PROVE  Decided'
    BY <1>21 DEF BeginDecision, Begin, Evaluated
  <1>22. ASSUME NEW p \in Procs, InsertDecision(p)
        PROVE  Decided'
    BY <1>22 DEF InsertDecision, Check, Finish
  <1>23. ASSUME NEW p \in Procs, BeginClose(p)
        PROVE  Decided'
    BY <1>23 DEF BeginClose, Begin
  <1>24. ASSUME NEW p \in Procs, BeginFinalize(p)
        PROVE  Decided'
    BY <1>24 DEF BeginFinalize, Begin, Evaluated, Due
  <1>25. ASSUME NEW p \in Procs, ReadStatus(p)
        PROVE  Decided'
    BY <1>25 DEF ReadStatus
  <1>26. ASSUME NEW p \in Procs, ReadEvaluations(p)
        PROVE  Decided'
    BY <1>26 DEF ReadEvaluations, Finish
  <1>27. ASSUME NEW p \in Procs, ReadDecisions(p)
        PROVE  Decided'
    BY <1>27 DEF ReadDecisions, Check, Finish
  <1>28. ASSUME NEW p \in Procs, WriteStatus(p)
        PROVE  Decided'
    BY <1>28 DEF WriteStatus, Check, Finish
  <1>29. ASSUME NEW p \in Procs, AuditCampaign(p)
        PROVE  Decided'
    BY <1>29 DEF AuditCampaign, Finish
  <1>30. ASSUME NEW p \in Procs, Crash(p)
        PROVE  Decided'
    BY <1>30 DEF Crash, Finish
  <1>31. CASE UNCHANGED vars
    BY <1>31 DEF vars, tables, locals
  <1> HIDE DEF Decided, Owners, Settled, Eligible, Terminal, Scores, Goto, BuildStatements, tables, locals
  <1>32. QED
    BY <1>2, <1>3, <1>4, <1>5, <1>6, <1>7, <1>8, <1>9, <1>10, <1>11, <1>12,
       <1>13, <1>14, <1>15, <1>16, <1>17, <1>18, <1>19, <1>20, <1>21, <1>22,
       <1>23, <1>24, <1>25, <1>26, <1>27, <1>28, <1>29, <1>30, <1>31
       DEF Next, Creating, Building, Evaluating, Deciding, Closing

LEMMA NextClose == EvidenceInv /\ [Next]_vars => CloseRestsOnDecisions'
  <1> SUFFICES ASSUME EvidenceInv, [Next]_vars
               PROVE  CloseRestsOnDecisions'
    OBVIOUS
  <1>1. /\ CloseRestsOnDecisions /\ Decided
        /\ pc \in [Procs -> Statements] /\ seen \in [Procs -> SUBSET Builds]
        /\ build \in [Procs -> Builds \cup {None}]
        /\ decision \in [Builds -> {"none", "promote", "reject"}]
        /\ \A p \in Procs : pc[p] \in BuildStatements => build[p] \in Builds
        /\ campaign \in [status : {"none", "active"} \cup Closed,
                         kind : Kinds \cup {"none"},
                         holdout : Holdouts \cup {None},
                         evaluator : Evaluators \cup {None}]
        /\ \A p \in Procs : field[p] \in {"holdout", "evaluator"}
    BY DEF EvidenceInv, TypeInv, TablesType, LocalsInv, LocalsType, NamesBuild
  <1> USE <1>1 DEF CloseRestsOnDecisions, Decided, Goto, BuildStatements, Closed, tables, locals
  <1>2. ASSUME NEW p \in Procs, CreateCampaign(p)
        PROVE  CloseRestsOnDecisions'
    BY <1>2 DEF CreateCampaign, Begin
  <1>3. ASSUME NEW p \in Procs, AddBrief(p)
        PROVE  CloseRestsOnDecisions'
    BY <1>3 DEF AddBrief, Finish
  <1>4. ASSUME NEW p \in Procs, ApproveBrief(p)
        PROVE  CloseRestsOnDecisions'
    BY <1>4 DEF ApproveBrief
  <1>5. ASSUME NEW p \in Procs, BeginBuild(p)
        PROVE  CloseRestsOnDecisions'
    BY <1>5 DEF BeginBuild, Begin
  <1>6. ASSUME NEW p \in Procs, CheckBuild(p)
        PROVE  CloseRestsOnDecisions'
    BY <1>6 DEF CheckBuild, Check, Finish
  <1>7. ASSUME NEW p \in Procs, CountBuilds(p)
        PROVE  CloseRestsOnDecisions'
    BY <1>7 DEF CountBuilds, Check, Finish
  <1>8. ASSUME NEW p \in Procs, InsertBuild(p)
        PROVE  CloseRestsOnDecisions'
    BY <1>8 DEF InsertBuild
  <1>9. ASSUME NEW p \in Procs, ProduceCandidate(p)
        PROVE  CloseRestsOnDecisions'
    BY <1>9 DEF ProduceCandidate
  <1>10. ASSUME NEW p \in Procs, CompleteBuild(p)
        PROVE  CloseRestsOnDecisions'
    BY <1>10 DEF CompleteBuild, Finish
  <1>11. ASSUME NEW p \in Procs, BuildRaises(p)
        PROVE  CloseRestsOnDecisions'
    BY <1>11 DEF BuildRaises
  <1>12. ASSUME NEW p \in Procs, FailBuild(p)
        PROVE  CloseRestsOnDecisions'
    BY <1>12 DEF FailBuild, Finish
  <1>13. ASSUME NEW p \in Procs, BeginEvaluation(p)
        PROVE  CloseRestsOnDecisions'
    BY <1>13 DEF BeginEvaluation, Begin
  <1>14. ASSUME NEW p \in Procs, ReadIdentity(p)
        PROVE  CloseRestsOnDecisions'
    BY <1>14 DEF ReadIdentity, Bound, Finish
  <1>15. ASSUME NEW p \in Procs, CountBeforeBinding(p)
        PROVE  CloseRestsOnDecisions'
    BY <1>15 DEF CountBeforeBinding, Check, Finish
  <1>16. ASSUME NEW p \in Procs, WriteIdentity(p)
        PROVE  CloseRestsOnDecisions'
    BY <1>16 DEF WriteIdentity, Bound
  <1>17. ASSUME NEW p \in Procs, CheckEvaluation(p)
        PROVE  CloseRestsOnDecisions'
    BY <1>17 DEF CheckEvaluation, Check, Finish
  <1>18. ASSUME NEW p \in Procs, CountEvaluations(p)
        PROVE  CloseRestsOnDecisions'
    BY <1>18 DEF CountEvaluations, Check, Finish
  <1>19. ASSUME NEW p \in Procs, InsertEvaluation(p)
        PROVE  CloseRestsOnDecisions'
    BY <1>19 DEF InsertEvaluation, Finish
  <1>20. ASSUME NEW p \in Procs, CompleteEvaluation(p)
        PROVE  CloseRestsOnDecisions'
    BY <1>20 DEF CompleteEvaluation, Finish
  <1>21. ASSUME NEW p \in Procs, BeginDecision(p)
        PROVE  CloseRestsOnDecisions'
    BY <1>21 DEF BeginDecision, Begin
  <1>22. ASSUME NEW p \in Procs, InsertDecision(p)
        PROVE  CloseRestsOnDecisions'
    BY <1>22 DEF InsertDecision, Check, Finish
  <1>23. ASSUME NEW p \in Procs, BeginClose(p)
        PROVE  CloseRestsOnDecisions'
    BY <1>23 DEF BeginClose, Begin
  <1>24. ASSUME NEW p \in Procs, BeginFinalize(p)
        PROVE  CloseRestsOnDecisions'
    BY <1>24 DEF BeginFinalize, Begin
  <1>25. ASSUME NEW p \in Procs, ReadStatus(p)
        PROVE  CloseRestsOnDecisions'
    BY <1>25 DEF ReadStatus
  <1>26. ASSUME NEW p \in Procs, ReadEvaluations(p)
        PROVE  CloseRestsOnDecisions'
    BY <1>26 DEF ReadEvaluations, Finish
  <1>27. ASSUME NEW p \in Procs, ReadDecisions(p)
        PROVE  CloseRestsOnDecisions'
    BY <1>27 DEF ReadDecisions, Check, Finish
  <1>28. ASSUME NEW p \in Procs, WriteStatus(p)
        PROVE  CloseRestsOnDecisions'
    BY <1>28 DEF WriteStatus, Check, Finish
  <1>29. ASSUME NEW p \in Procs, AuditCampaign(p)
        PROVE  CloseRestsOnDecisions'
    BY <1>29 DEF AuditCampaign, Finish
  <1>30. ASSUME NEW p \in Procs, Crash(p)
        PROVE  CloseRestsOnDecisions'
    BY <1>30 DEF Crash, Finish
  <1>31. CASE UNCHANGED vars
    BY <1>31 DEF vars, tables, locals
  <1> HIDE DEF CloseRestsOnDecisions, Decided, Goto, BuildStatements, Closed, tables, locals
  <1>32. QED
    BY <1>2, <1>3, <1>4, <1>5, <1>6, <1>7, <1>8, <1>9, <1>10, <1>11, <1>12,
       <1>13, <1>14, <1>15, <1>16, <1>17, <1>18, <1>19, <1>20, <1>21, <1>22,
       <1>23, <1>24, <1>25, <1>26, <1>27, <1>28, <1>29, <1>30, <1>31
       DEF Next, Creating, Building, Evaluating, Deciding, Closing

LEMMA InitEvidence == Init => EvidenceInv
  <1> SUFFICES ASSUME Init
               PROVE  EvidenceInv
    OBVIOUS
  <1>1. TypeInv
    BY InitType
  <1>2. Owners
    BY DEF Init, Owners, BuildOwners
  <1>3. Ready
    BY DEF Init, Ready, NoEvaluation, EvaluationStatements
  <1>4. Decided
    BY DEF Init, Decided, NoEvaluation
  <1>5. CloseRestsOnDecisions
    BY DEF Init, CloseRestsOnDecisions, NoCampaign, Closed
  <1>6. QED
    BY <1>1, <1>2, <1>3, <1>4, <1>5 DEF EvidenceInv

LEMMA Evidence == Spec => []EvidenceInv
  <1>1. Init => EvidenceInv
    BY InitEvidence
  <1>2. EvidenceInv /\ [Next]_vars => EvidenceInv'
    <2> SUFFICES ASSUME EvidenceInv, [Next]_vars
                 PROVE  EvidenceInv'
      OBVIOUS
    <2>1. TypeInv'
      BY NextLocals, NextTables DEF EvidenceInv, TypeInv
    <2>2. Owners' /\ Ready' /\ Decided' /\ CloseRestsOnDecisions'
      BY NextOwners, NextReady, NextDecided, NextClose
    <2>3. QED
      BY <2>1, <2>2 DEF EvidenceInv
  <1>3. QED
    BY <1>1, <1>2, PTL DEF Spec

\* PromotionIsEarned: a promotion on record rests on a completed evaluation that
\* passed every gate, of a ready build, under an approved brief.
THEOREM Promotion == Spec => []PromotionIsEarned
  <1>1. EvidenceInv => PromotionIsEarned
    <2> SUFFICES ASSUME EvidenceInv, NEW b \in Builds, decision[b] = "promote"
                 PROVE  /\ evals[b].status = "completed" /\ Eligible(b)
                        /\ builds[b] = "ready"
                        /\ brief = "approved"
      BY DEF PromotionIsEarned
    <2>1. Eligible(b) /\ evals[b].status = "completed"
      BY DEF EvidenceInv, Decided, Eligible
    <2>2. builds[b] = "ready" /\ brief = "approved"
      BY <2>1 DEF EvidenceInv, Ready
    <2>3. QED
      BY <2>1, <2>2
  <1>2. QED
    BY <1>1, Evidence, PTL

\* EvaluatedBuildIsReady: whatever has been evaluated is a ready build, with the
\* artifact that says so.
THEOREM EvaluatedReady == Spec => []EvaluatedBuildIsReady
  <1>1. EvidenceInv => EvaluatedBuildIsReady
    BY DEF EvidenceInv, Ready, EvaluatedBuildIsReady, Evaluated
  <1>2. QED
    BY <1>1, Evidence, PTL

\* CloseRestsOnDecisions: a campaign is closed on evaluations that were all
\* decided, and there was one at least.
THEOREM ClosesOnDecisions == Spec => []CloseRestsOnDecisions
  <1>1. EvidenceInv => CloseRestsOnDecisions
    BY DEF EvidenceInv
  <1>2. QED
    BY <1>1, Evidence, PTL

Final ==
    \A b \in Builds :
        /\ Settled(b) => evals'[b] = evals[b]
        /\ decision[b] # "none" => decision'[b] = decision[b]

LEMMA NextFinal == EvidenceInv /\ [Next]_vars => Final
  <1> SUFFICES ASSUME EvidenceInv, [Next]_vars
               PROVE  Final
    OBVIOUS
  <1>1. /\ Owners /\ Decided
        /\ evals \in [Builds -> [status : {"none", "running"} \cup Terminal,
                                score : {"none"} \cup Scores,
                                holdout : Holdouts \cup {None},
                                evaluator : Evaluators \cup {None}]]
        /\ decision \in [Builds -> {"none", "promote", "reject"}]
        /\ \A p \in Procs : pc[p] \in BuildStatements => build[p] \in Builds
    BY DEF EvidenceInv, TypeInv, TablesType, LocalsInv, LocalsType, NamesBuild
  <1> USE <1>1 DEF Final, Owners, Settled, Terminal, BuildStatements, tables, locals
  <1>2. ASSUME NEW p \in Procs, CreateCampaign(p)
        PROVE  Final
    BY <1>2 DEF CreateCampaign, Begin
  <1>3. ASSUME NEW p \in Procs, AddBrief(p)
        PROVE  Final
    BY <1>3 DEF AddBrief, Finish
  <1>4. ASSUME NEW p \in Procs, ApproveBrief(p)
        PROVE  Final
    BY <1>4 DEF ApproveBrief
  <1>5. ASSUME NEW p \in Procs, BeginBuild(p)
        PROVE  Final
    BY <1>5 DEF BeginBuild, Begin
  <1>6. ASSUME NEW p \in Procs, CheckBuild(p)
        PROVE  Final
    BY <1>6 DEF CheckBuild, Check, Finish
  <1>7. ASSUME NEW p \in Procs, CountBuilds(p)
        PROVE  Final
    BY <1>7 DEF CountBuilds, Check, Finish
  <1>8. ASSUME NEW p \in Procs, InsertBuild(p)
        PROVE  Final
    BY <1>8 DEF InsertBuild
  <1>9. ASSUME NEW p \in Procs, ProduceCandidate(p)
        PROVE  Final
    BY <1>9 DEF ProduceCandidate
  <1>10. ASSUME NEW p \in Procs, CompleteBuild(p)
        PROVE  Final
    BY <1>10 DEF CompleteBuild, Finish
  <1>11. ASSUME NEW p \in Procs, BuildRaises(p)
        PROVE  Final
    BY <1>11 DEF BuildRaises
  <1>12. ASSUME NEW p \in Procs, FailBuild(p)
        PROVE  Final
    BY <1>12 DEF FailBuild, Finish
  <1>13. ASSUME NEW p \in Procs, BeginEvaluation(p)
        PROVE  Final
    BY <1>13 DEF BeginEvaluation, Begin
  <1>14. ASSUME NEW p \in Procs, ReadIdentity(p)
        PROVE  Final
    BY <1>14 DEF ReadIdentity, Bound, Finish
  <1>15. ASSUME NEW p \in Procs, CountBeforeBinding(p)
        PROVE  Final
    BY <1>15 DEF CountBeforeBinding, Check, Finish
  <1>16. ASSUME NEW p \in Procs, WriteIdentity(p)
        PROVE  Final
    BY <1>16 DEF WriteIdentity, Bound
  <1>17. ASSUME NEW p \in Procs, CheckEvaluation(p)
        PROVE  Final
    BY <1>17 DEF CheckEvaluation, Check, Finish
  <1>18. ASSUME NEW p \in Procs, CountEvaluations(p)
        PROVE  Final
    BY <1>18 DEF CountEvaluations, Check, Finish
  <1>19. ASSUME NEW p \in Procs, InsertEvaluation(p)
        PROVE  Final
    BY <1>19 DEF InsertEvaluation, Finish, Evaluated
  <1>20. ASSUME NEW p \in Procs, CompleteEvaluation(p)
        PROVE  Final
    BY <1>20 DEF CompleteEvaluation, Finish
  <1>21. ASSUME NEW p \in Procs, BeginDecision(p)
        PROVE  Final
    BY <1>21 DEF BeginDecision, Begin
  <1>22. ASSUME NEW p \in Procs, InsertDecision(p)
        PROVE  Final
    BY <1>22 DEF InsertDecision, Check, Finish
  <1>23. ASSUME NEW p \in Procs, BeginClose(p)
        PROVE  Final
    BY <1>23 DEF BeginClose, Begin
  <1>24. ASSUME NEW p \in Procs, BeginFinalize(p)
        PROVE  Final
    BY <1>24 DEF BeginFinalize, Begin
  <1>25. ASSUME NEW p \in Procs, ReadStatus(p)
        PROVE  Final
    BY <1>25 DEF ReadStatus
  <1>26. ASSUME NEW p \in Procs, ReadEvaluations(p)
        PROVE  Final
    BY <1>26 DEF ReadEvaluations, Finish
  <1>27. ASSUME NEW p \in Procs, ReadDecisions(p)
        PROVE  Final
    BY <1>27 DEF ReadDecisions, Check, Finish
  <1>28. ASSUME NEW p \in Procs, WriteStatus(p)
        PROVE  Final
    BY <1>28 DEF WriteStatus, Check, Finish
  <1>29. ASSUME NEW p \in Procs, AuditCampaign(p)
        PROVE  Final
    BY <1>29 DEF AuditCampaign, Finish
  <1>30. ASSUME NEW p \in Procs, Crash(p)
        PROVE  Final
    BY <1>30 DEF Crash, Finish
  <1>31. CASE UNCHANGED vars
    BY <1>31 DEF vars, tables, locals
  <1> HIDE DEF Final, Owners, Settled, Terminal, BuildStatements, tables, locals
  <1>32. QED
    BY <1>2, <1>3, <1>4, <1>5, <1>6, <1>7, <1>8, <1>9, <1>10, <1>11, <1>12,
       <1>13, <1>14, <1>15, <1>16, <1>17, <1>18, <1>19, <1>20, <1>21, <1>22,
       <1>23, <1>24, <1>25, <1>26, <1>27, <1>28, <1>29, <1>30, <1>31
       DEF Next, Creating, Building, Evaluating, Deciding, Closing

\* EvidenceIsFinal: no command, interleaved or killed, changes a terminal
\* scorecard or a recorded decision.
THEOREM EvidenceStands == Spec => EvidenceIsFinal
  <1>1. EvidenceInv /\ [Next]_vars => [Final]_vars
    BY NextFinal
  <1>2. QED
    BY <1>1, Evidence, PTL DEF Spec, EvidenceIsFinal, Final

-----------------------------------------------------------------------------
(***************************************************************************)
(* Commands that do not overlap.  What a command has counted, compared or    *)
(* read of the campaign is then still so when it writes: the limits hold,    *)
(* the identities are bound once, and a close is made on all the evidence.   *)
(***************************************************************************)

\* No command begins while another runs; commands may still be killed.
Alone == \A p, q \in Procs : pc[p] # "idle" /\ pc[q] # "idle" => p = q

Open == campaign.status = "active" /\ brief = "approved"

Binding == {"bind", "bind_count", "bind_write"}
Entering == {"eval_check", "eval_count", "eval_insert"}

\* Where a command stands, and what it knows there.
CountsBuilds(p) ==
    /\ pc[p] \in {"build_count", "build_insert"} => Open
    /\ pc[p] = "build_insert" => Cardinality(Attempts) < MaxCandidates

BindsIdentity(p) ==
    /\ pc[p] \in Binding \cup Entering =>
          offer[p].holdout # None /\ (Prompt <=> offer[p].evaluator # None)
    /\ pc[p] \in Binding => Prompt
    /\ pc[p] \in Entering \/ (pc[p] \in Binding /\ field[p] = "holdout") =>
          offer[p].evaluator = campaign.evaluator
    /\ pc[p] \in {"bind_count", "bind_write"} =>
          campaign.status = "active" /\ campaign[field[p]] = None
    /\ pc[p] = "bind_write" => Evaluated = {}

Enters(p) ==
    /\ pc[p] \in {"eval_count", "eval_insert"} =>
          Open /\ campaign.holdout = offer[p].holdout
    /\ pc[p] = "eval_insert" => Cardinality(Evaluated) < MaxCandidates

Closes(p) ==
    pc[p] \in CloseStatements =>
        /\ campaign.status = "active"
        /\ seen[p] = Evaluated /\ verdict[p] = Verdict(Evaluated)

Knows(p) == CountsBuilds(p) /\ BindsIdentity(p) /\ Enters(p) /\ Closes(p)

\* Every evaluation was made against the identities the campaign is bound to.
SameIdentities ==
    /\ \A b \in Evaluated :
          /\ evals[b].holdout = campaign.holdout
          /\ evals[b].evaluator = campaign.evaluator
    /\ Evaluated # {} => campaign.holdout # None /\ (Prompt => campaign.evaluator # None)
    /\ ~Prompt => campaign.evaluator = None

\* A finished prompt build has the outcome its artifact states.
Stated ==
    Prompt => \A b \in Builds : builds[b] \in BuildOutcomes => artifact[b] = builds[b]

\* A campaign is closed on all of its evaluations, each decided.
ClosedOnAll ==
    campaign.status \in Closed =>
        /\ Evaluated # {} /\ \A b \in Evaluated : decision[b] # "none"
        /\ campaign.status = Verdict(Evaluated)

Serial == WithinLimits /\ SameIdentities /\ Stated /\ ClosedOnAll

SerialInv == Serial /\ \A p \in Procs : Knows(p)

\* The evaluator's identity is bound first.
Rested == \A p \in Procs : pc[p] = "idle" => field[p] = "evaluator"

\* Statements at which a command knows nothing of these tables.
Plain == Statements \ ({"build_count", "build_insert"} \cup Binding \cup Entering
                          \cup CloseStatements)

LEMMA PlainKnows ==
    ASSUME NEW p, pc'[p] \in Plain
    PROVE  Knows(p)'
  <1>1. pc'[p] \notin {"build_count", "build_insert"} \cup Binding \cup Entering
                          \cup CloseStatements
    BY DEF Plain
  <1>2. CountsBuilds(p)'
    BY <1>1 DEF CountsBuilds
  <1>3. BindsIdentity(p)'
    BY <1>1 DEF BindsIdentity, Binding
  <1>4. Enters(p)'
    BY <1>1 DEF Enters, Entering
  <1>5. Closes(p)'
    BY <1>1 DEF Closes
  <1>6. QED
    BY <1>2, <1>3, <1>4, <1>5 DEF Knows

LEMMA PlainStatements ==
    {"idle", "add_brief", "build_check", "building", "build_complete", "build_fail",
     "evaluating", "decide_insert", "close_read", "final_status", "audit"} \subseteq Plain
  BY DEF Plain, Statements, Binding, Entering, CloseStatements

\* While one command moves, the others are idle, and know nothing.
LEMMA OthersIdle ==
    ASSUME Alone, Alone', TypeInv, NEW p \in Procs, NEW l \in Statements, Goto(p, l),
           pc[p] # "idle" \/ l # "idle", Knows(p)'
    PROVE  \A q \in Procs : Knows(q)'
  <1>1. pc \in [Procs -> Statements] /\ pc' = [pc EXCEPT ![p] = l]
    BY DEF TypeInv, LocalsInv, LocalsType, Goto
  <1>2. ASSUME NEW q \in Procs, q # p PROVE Knows(q)'
    <2>1. pc'[q] = pc[q] /\ pc'[p] = l
      BY <1>1, <1>2
    <2>2. pc'[q] = "idle"
      BY <1>2, <2>1 DEF Alone
    <2>3. QED
      BY <2>2, PlainStatements, PlainKnows
  <1>3. QED
    BY <1>2

\* What Serial and a command's knowledge are about stays the same with the tables.
LEMMA Frame ==
    ASSUME UNCHANGED tables
    PROVE  /\ Attempts' = Attempts /\ Evaluated' = Evaluated
           /\ (Prompt' <=> Prompt) /\ (Open' <=> Open)
           /\ Verdict(Evaluated)' = Verdict(Evaluated)
           /\ UNCHANGED <<campaign, brief, builds, artifact, evals, decision>>
  <1>1. UNCHANGED <<campaign, brief, builds, artifact, evals, decision>>
    BY DEF tables
  <1>2. Attempts' = Attempts /\ Evaluated' = Evaluated
    BY <1>1 DEF Attempts, Evaluated
  <1>3. (Prompt' <=> Prompt) /\ (Open' <=> Open)
    BY <1>1 DEF Prompt, Open
  <1>4. Verdict(Evaluated)' = Verdict(Evaluated)
    BY <1>1, <1>2 DEF Verdict, Clean
  <1>5. QED
    BY <1>1, <1>2, <1>3, <1>4

LEMMA SerialKept ==
    ASSUME Serial, UNCHANGED tables
    PROVE  Serial'
  <1>1. /\ Attempts' = Attempts /\ Evaluated' = Evaluated
        /\ (Prompt' <=> Prompt)
        /\ Verdict(Evaluated)' = Verdict(Evaluated)
        /\ UNCHANGED <<campaign, brief, builds, artifact, evals, decision>>
    BY Frame
  <1>2. WithinLimits' /\ SameIdentities'
    BY <1>1 DEF Serial, WithinLimits, SameIdentities
  <1>3. Stated'
    BY <1>1 DEF Serial, Stated
  <1>4. ClosedOnAll'
    BY <1>1 DEF Serial, ClosedOnAll
  <1>5. QED
    BY <1>2, <1>3, <1>4 DEF Serial

\* A command that reads, and ends or goes on to a statement it is ready for.
LEMMA ReadsOn ==
    ASSUME Alone, Alone', TypeInv, SerialInv, UNCHANGED tables,
           NEW p \in Procs, NEW l \in Statements, Goto(p, l),
           pc[p] # "idle" \/ l # "idle", Knows(p)'
    PROVE  SerialInv'
  BY SerialKept, OthersIdle DEF SerialInv

LEMMA Ends ==
    ASSUME Alone, Alone', TypeInv, Serial', NEW p \in Procs, pc[p] # "idle", Finish(p)
    PROVE  SerialInv'
  <1>1. Goto(p, "idle") /\ "idle" \in Statements
    BY DEF Finish, Statements
  <1>2. pc'[p] = "idle"
    BY <1>1 DEF Goto, TypeInv, LocalsInv, LocalsType
  <1>3. Knows(p)'
    BY <1>2, PlainStatements, PlainKnows
  <1>4. QED
    BY <1>1, <1>3, OthersIdle DEF SerialInv

LEMMA GoesPlain ==
    ASSUME Alone, Alone', TypeInv, Serial', NEW p \in Procs, NEW l \in Plain,
           pc[p] # "idle" \/ l # "idle", Goto(p, l)
    PROVE  SerialInv'
  <1>1. l \in Statements
    BY DEF Plain
  <1>2. pc'[p] = l
    BY DEF Goto, TypeInv, LocalsInv, LocalsType
  <1>3. Knows(p)'
    BY <1>2, PlainKnows
  <1>4. QED
    BY <1>1, <1>3, OthersIdle DEF SerialInv

LEMMA InitSerial == Init => SerialInv
  <1> SUFFICES ASSUME Init PROVE SerialInv
    OBVIOUS
  <1>1. Attempts = {} /\ Evaluated = {}
    BY DEF Init, Attempts, Evaluated, NoEvaluation
  <1>2. Cardinality({}) = 0
    BY FS_EmptySet
  <1>3. WithinLimits
    BY <1>1, <1>2, CampaignAssumption DEF WithinLimits
  <1>4. SameIdentities /\ Stated /\ ClosedOnAll
    BY <1>1 DEF Init, SameIdentities, Stated, ClosedOnAll, NoCampaign, Closed,
                BuildOutcomes, Prompt
  <1>5. \A p \in Procs : pc[p] = "idle"
    BY DEF Init
  <1>6. \A p \in Procs : Knows(p)
    BY <1>5 DEF Knows, CountsBuilds, BindsIdentity, Enters, Closes, Binding, Entering,
                CloseStatements
  <1>7. QED
    BY <1>3, <1>4, <1>6 DEF SerialInv, Serial

-----------------------------------------------------------------------------
(* The commands, statement by statement.                                     *)

LEMMA Facts ==
    ASSUME EvidenceInv
    PROVE  /\ TypeInv
           /\ pc \in [Procs -> Statements] /\ offer \in [Procs -> Identities]
           /\ field \in [Procs -> {"holdout", "evaluator"}]
           /\ build \in [Procs -> Builds \cup {None}]
           /\ seen \in [Procs -> SUBSET Builds]
           /\ verdict \in [Procs -> {"none"} \cup Closed]
           /\ campaign \in [status : {"none", "active"} \cup Closed,
                            kind : Kinds \cup {"none"},
                            holdout : Holdouts \cup {None},
                            evaluator : Evaluators \cup {None}]
           /\ builds \in [Builds -> {"none", "running", "failed"} \cup BuildOutcomes]
           /\ artifact \in [Builds -> {"none"} \cup BuildOutcomes]
           /\ evals \in [Builds -> [status : {"none", "running"} \cup Terminal,
                                   score : {"none"} \cup Scores,
                                   holdout : Holdouts \cup {None},
                                   evaluator : Evaluators \cup {None}]]
           /\ decision \in [Builds -> {"none", "promote", "reject"}]
           /\ \A p \in Procs : pc[p] \in BuildStatements => build[p] \in Builds
  BY DEF EvidenceInv, TypeInv, TablesType, LocalsInv, LocalsType, NamesBuild

\* Sets of builds can be counted.
LEMMA Counts ==
    /\ IsFiniteSet(Attempts) /\ Cardinality(Attempts) \in Nat
    /\ IsFiniteSet(Evaluated) /\ Cardinality(Evaluated) \in Nat
    /\ MaxCandidates \in Nat \ {0}
  <1>1. Attempts \subseteq Builds /\ Evaluated \subseteq Builds
    BY DEF Attempts, Evaluated
  <1>2. IsFiniteSet(Attempts) /\ IsFiniteSet(Evaluated)
    BY <1>1, FS_Subset, CampaignAssumption
  <1>3. QED
    BY <1>2, FS_CardinalityType, CampaignAssumption

LEMMA NextRested == EvidenceInv /\ Rested /\ [Next]_vars => Rested'
  <1> SUFFICES ASSUME EvidenceInv, Rested, [Next]_vars
               PROVE  Rested'
    OBVIOUS
  <1> DEFINE Stays(p) == field' = field /\ (pc' = pc \/ \E l \in Statements \ {"idle"} : Goto(p, l))
  <1>1. ASSUME NEW p \in Procs, Finish(p) PROVE Rested'
    BY <1>1, Facts DEF Finish, Goto, Rested
  <1>2. ASSUME NEW p \in Procs, Bound(p) PROVE Rested'
    BY <1>2, Facts DEF Bound, Goto, Rested
  <1>3. ASSUME NEW p \in Procs, Stays(p) PROVE Rested'
    BY <1>3, Facts DEF Goto, Rested
  <1>4. CASE UNCHANGED vars
    BY <1>4 DEF vars, locals, Rested
  <1>5. ASSUME NEW p \in Procs, CreateCampaign(p) PROVE Rested'
    BY <1>5, <1>3 DEF CreateCampaign, Begin, Statements
  <1>6. ASSUME NEW p \in Procs, AddBrief(p) PROVE Rested'
    BY <1>6, <1>1 DEF AddBrief
  <1>7. ASSUME NEW p \in Procs, ApproveBrief(p) PROVE Rested'
    BY <1>7, <1>3 DEF ApproveBrief, Statements, locals
  <1>8. ASSUME NEW p \in Procs, BeginBuild(p) PROVE Rested'
    BY <1>8, <1>3 DEF BeginBuild, Begin, Statements
  <1>9. ASSUME NEW p \in Procs, CheckBuild(p) PROVE Rested'
    BY <1>9, <1>1, <1>3 DEF CheckBuild, Check, Statements, locals
  <1>10. ASSUME NEW p \in Procs, CountBuilds(p) PROVE Rested'
    BY <1>10, <1>1, <1>3 DEF CountBuilds, Check, Statements, locals
  <1>11. ASSUME NEW p \in Procs, InsertBuild(p) PROVE Rested'
    BY <1>11, <1>3 DEF InsertBuild, Statements, locals
  <1>12. ASSUME NEW p \in Procs, ProduceCandidate(p) PROVE Rested'
    BY <1>12, <1>3 DEF ProduceCandidate, Statements, locals
  <1>13. ASSUME NEW p \in Procs, CompleteBuild(p) PROVE Rested'
    BY <1>13, <1>1 DEF CompleteBuild
  <1>14. ASSUME NEW p \in Procs, BuildRaises(p) PROVE Rested'
    BY <1>14, <1>3 DEF BuildRaises, Statements, locals
  <1>15. ASSUME NEW p \in Procs, FailBuild(p) PROVE Rested'
    BY <1>15, <1>1 DEF FailBuild
  <1>16. ASSUME NEW p \in Procs, BeginEvaluation(p) PROVE Rested'
    BY <1>16, <1>3 DEF BeginEvaluation, Begin, Statements
  <1>17. ASSUME NEW p \in Procs, ReadIdentity(p) PROVE Rested'
    BY <1>17, <1>1, <1>2, <1>3 DEF ReadIdentity, Statements, locals
  <1>18. ASSUME NEW p \in Procs, CountBeforeBinding(p) PROVE Rested'
    BY <1>18, <1>1, <1>3 DEF CountBeforeBinding, Check, Statements, locals
  <1>19. ASSUME NEW p \in Procs, WriteIdentity(p) PROVE Rested'
    BY <1>19, <1>2 DEF WriteIdentity
  <1>20. ASSUME NEW p \in Procs, CheckEvaluation(p) PROVE Rested'
    BY <1>20, <1>1, <1>3 DEF CheckEvaluation, Check, Statements, locals
  <1>21. ASSUME NEW p \in Procs, CountEvaluations(p) PROVE Rested'
    BY <1>21, <1>1, <1>3 DEF CountEvaluations, Check, Statements, locals
  <1>22. ASSUME NEW p \in Procs, InsertEvaluation(p) PROVE Rested'
    BY <1>22, <1>1, <1>3 DEF InsertEvaluation, Statements, locals
  <1>23. ASSUME NEW p \in Procs, CompleteEvaluation(p) PROVE Rested'
    BY <1>23, <1>1 DEF CompleteEvaluation
  <1>24. ASSUME NEW p \in Procs, BeginDecision(p) PROVE Rested'
    BY <1>24, <1>3 DEF BeginDecision, Begin, Statements
  <1>25. ASSUME NEW p \in Procs, InsertDecision(p) PROVE Rested'
    BY <1>25, <1>1, <1>3 DEF InsertDecision, Check, Statements, locals
  <1>26. ASSUME NEW p \in Procs, BeginClose(p) PROVE Rested'
    BY <1>26, <1>3 DEF BeginClose, Begin, Statements
  <1>27. ASSUME NEW p \in Procs, BeginFinalize(p) PROVE Rested'
    BY <1>27, <1>3 DEF BeginFinalize, Begin, Statements
  <1>28. ASSUME NEW p \in Procs, ReadStatus(p) PROVE Rested'
    BY <1>28, <1>3 DEF ReadStatus, Statements, locals
  <1>29. ASSUME NEW p \in Procs, ReadEvaluations(p) PROVE Rested'
    BY <1>29, <1>1, <1>3 DEF ReadEvaluations, Statements, locals
  <1>30. ASSUME NEW p \in Procs, ReadDecisions(p) PROVE Rested'
    BY <1>30, <1>1, <1>3 DEF ReadDecisions, Check, Statements, locals
  <1>31. ASSUME NEW p \in Procs, WriteStatus(p) PROVE Rested'
    BY <1>31, <1>1, <1>3 DEF WriteStatus, Check, Statements, locals
  <1>32. ASSUME NEW p \in Procs, AuditCampaign(p) PROVE Rested'
    BY <1>32, <1>1 DEF AuditCampaign
  <1>33. ASSUME NEW p \in Procs, Crash(p) PROVE Rested'
    BY <1>33, <1>1 DEF Crash
  <1>34. QED
    BY <1>4, <1>5, <1>6, <1>7, <1>8, <1>9, <1>10, <1>11, <1>12, <1>13, <1>14,
       <1>15, <1>16, <1>17, <1>18, <1>19, <1>20, <1>21, <1>22, <1>23, <1>24,
       <1>25, <1>26, <1>27, <1>28, <1>29, <1>30, <1>31, <1>32, <1>33
       DEF Next, Creating, Building, Evaluating, Deciding, Closing

LEMMA CreateSerial ==
    ASSUME EvidenceInv, SerialInv, Alone, Alone', NEW p \in Procs, CreateCampaign(p)
    PROVE  SerialInv'
  <1>1. /\ campaign.status = "none" /\ Goto(p, "add_brief")
        /\ UNCHANGED <<brief, builds, artifact, evals, decision>>
    BY DEF CreateCampaign, Begin
  <1>2. PICK k \in Kinds, i \in Identities :
          /\ k = "source" => i.holdout # None /\ i.evaluator = None
          /\ campaign' = [status |-> "active", kind |-> k,
                          holdout |-> i.holdout, evaluator |-> i.evaluator]
    BY DEF CreateCampaign
  <1>3. \A b \in Builds : builds[b] = "none" /\ evals[b].status = "none"
    BY <1>1 DEF EvidenceInv, Ready
  <1>4. Attempts' = {} /\ Evaluated' = {}
    BY <1>1, <1>3 DEF Attempts, Evaluated
  <1>5. Cardinality({}) = 0
    BY FS_EmptySet
  <1>6. WithinLimits'
    BY <1>4, <1>5, CampaignAssumption DEF WithinLimits
  <1>7. (~Prompt)' => k = "source"
    BY <1>2, CampaignAssumption DEF Prompt
  <1>8. (~Prompt)' => campaign'.evaluator = None
    BY <1>2, <1>7
  <1>9. SameIdentities'
    BY <1>4, <1>8 DEF SameIdentities
  <1>10. Stated'
    BY <1>1, <1>3 DEF Stated, BuildOutcomes
  <1>11. ClosedOnAll'
    BY <1>2 DEF ClosedOnAll, Closed
  <1>12. QED
    BY <1>1, <1>6, <1>9, <1>10, <1>11, Facts, GoesPlain, PlainStatements DEF Serial

\* A brief changes nothing but what is open.
LEMMA BriefKeeps ==
    ASSUME Serial, UNCHANGED <<campaign, builds, artifact, evals, decision>>
    PROVE  Serial'
  <1>1. Attempts' = Attempts /\ Evaluated' = Evaluated /\ (Prompt' <=> Prompt)
    BY DEF Attempts, Evaluated, Prompt
  <1>2. Verdict(Evaluated)' = Verdict(Evaluated)
    BY <1>1 DEF Verdict, Clean
  <1>3. WithinLimits' /\ SameIdentities'
    BY <1>1 DEF Serial, WithinLimits, SameIdentities
  <1>4. Stated' /\ ClosedOnAll'
    BY <1>1, <1>2 DEF Serial, Stated, ClosedOnAll
  <1>5. QED
    BY <1>3, <1>4 DEF Serial

LEMMA AddBriefSerial ==
    ASSUME EvidenceInv, SerialInv, Alone, Alone', NEW p \in Procs, AddBrief(p)
    PROVE  SerialInv'
  <1>1. pc[p] # "idle" /\ Finish(p) /\ UNCHANGED <<campaign, builds, artifact, evals, decision>>
    BY DEF AddBrief
  <1>2. Serial'
    BY <1>1, BriefKeeps DEF SerialInv
  <1>3. QED
    BY <1>1, <1>2, Facts, Ends

LEMMA ApproveSerial ==
    ASSUME EvidenceInv, SerialInv, Alone, Alone', NEW p \in Procs, ApproveBrief(p)
    PROVE  SerialInv'
  <1>1. /\ brief' = "approved"
        /\ UNCHANGED <<campaign, builds, artifact, evals, decision, pc, locals>>
    BY DEF ApproveBrief
  <1>2. Serial'
    BY <1>1, BriefKeeps DEF SerialInv
  <1>3. UNCHANGED <<build, offer, field, seen, verdict>>
    BY <1>1 DEF locals
  <1>4. Attempts' = Attempts /\ Evaluated' = Evaluated /\ (Prompt' <=> Prompt)
    BY <1>1 DEF Attempts, Evaluated, Prompt
  <1>5. Verdict(Evaluated)' = Verdict(Evaluated)
    BY <1>1, <1>4 DEF Verdict, Clean
  <1>6. Open => Open'
    BY <1>1 DEF Open
  <1>7. ASSUME NEW q \in Procs PROVE Knows(q)'
    <2>1. Knows(q)
      BY DEF SerialInv
    <2>2. CountsBuilds(q)' /\ Enters(q)'
      BY <1>1, <1>3, <1>4, <1>6, <2>1 DEF Knows, CountsBuilds, Enters
    <2>3. BindsIdentity(q)'
      BY <1>1, <1>3, <1>4, <2>1 DEF Knows, BindsIdentity
    <2>4. Closes(q)'
      BY <1>1, <1>3, <1>4, <1>5, <2>1 DEF Knows, Closes
    <2>5. QED
      BY <2>2, <2>3, <2>4 DEF Knows
  <1>8. QED
    BY <1>2, <1>7 DEF SerialInv

LEMMA CheckBuildSerial ==
    ASSUME EvidenceInv, SerialInv, Alone, Alone', NEW p \in Procs, CheckBuild(p)
    PROVE  SerialInv'
  <1>1. pc[p] # "idle" /\ UNCHANGED tables
    BY DEF CheckBuild
  <1>2. CASE Finish(p)
    BY <1>1, <1>2, Facts, SerialKept, Ends DEF SerialInv
  <1>3. CASE ~Finish(p)
    <2>1. Open /\ Goto(p, "build_count")
      BY <1>3 DEF CheckBuild, Check, Open
    <2>2. pc'[p] = "build_count"
      BY <2>1, Facts DEF Goto
    <2>3. Open'
      BY <1>1, <2>1, Frame
    <2>4. Knows(p)'
      BY <2>2, <2>3 DEF Knows, CountsBuilds, BindsIdentity, Enters, Closes, Binding,
                        Entering, CloseStatements
    <2>5. QED
      BY <1>1, <2>1, <2>4, Facts, ReadsOn DEF Statements
  <1>4. QED
    BY <1>2, <1>3

LEMMA CountBuildsSerial ==
    ASSUME EvidenceInv, SerialInv, Alone, Alone', NEW p \in Procs, CountBuilds(p)
    PROVE  SerialInv'
  <1>1. pc[p] = "build_count" /\ UNCHANGED tables
    BY DEF CountBuilds
  <1>2. CASE Finish(p)
    BY <1>1, <1>2, Facts, SerialKept, Ends DEF SerialInv
  <1>3. CASE ~Finish(p)
    <2>1. Cardinality(Attempts) < MaxCandidates /\ Goto(p, "build_insert")
      BY <1>3 DEF CountBuilds, Check
    <2>2. pc'[p] = "build_insert"
      BY <2>1, Facts DEF Goto
    <2>3. Open
      BY <1>1 DEF SerialInv, Knows, CountsBuilds
    <2>4. Open' /\ Attempts' = Attempts
      BY <1>1, <2>3, Frame
    <2>5. Knows(p)'
      BY <2>1, <2>2, <2>4 DEF Knows, CountsBuilds, BindsIdentity, Enters, Closes, Binding,
                              Entering, CloseStatements
    <2>6. QED
      BY <1>1, <2>1, <2>5, Facts, ReadsOn DEF Statements
  <1>4. QED
    BY <1>2, <1>3

LEMMA InsertBuildSerial ==
    ASSUME EvidenceInv, SerialInv, Alone, Alone', NEW p \in Procs, InsertBuild(p)
    PROVE  SerialInv'
  <1>1. /\ pc[p] = "build_insert" /\ Goto(p, "building")
        /\ UNCHANGED <<campaign, brief, artifact, evals, decision>>
    BY DEF InsertBuild
  <1>2. PICK b \in Builds \ Attempts : builds' = [builds EXCEPT ![b] = "running"]
    BY DEF InsertBuild
  <1>3. Attempts' = Attempts \cup {b}
    BY <1>2, Facts DEF Attempts
  <1>4. Cardinality(Attempts) < MaxCandidates
    BY <1>1 DEF SerialInv, Knows, CountsBuilds
  <1>5. Cardinality(Attempts') <= MaxCandidates
    <2> DEFINE n == Cardinality(Attempts)
    <2>1. Cardinality(Attempts') = n + 1
      BY <1>2, <1>3, Counts, FS_AddElement
    <2>2. n \in Nat /\ n < MaxCandidates
      BY <1>4, Counts
    <2> HIDE DEF n
    <2>3. QED
      BY <2>1, <2>2, Counts
  <1>6. Evaluated' = Evaluated /\ (Prompt' <=> Prompt)
    BY <1>1 DEF Evaluated, Prompt
  <1>7. Verdict(Evaluated)' = Verdict(Evaluated)
    BY <1>1, <1>6 DEF Verdict, Clean
  <1>8. WithinLimits' /\ SameIdentities' /\ ClosedOnAll'
    BY <1>1, <1>5, <1>6, <1>7 DEF SerialInv, Serial, WithinLimits, SameIdentities, ClosedOnAll
  <1>9. Stated'
    BY <1>1, <1>2, <1>6, Facts DEF SerialInv, Serial, Stated, BuildOutcomes
  <1>10. QED
    BY <1>1, <1>8, <1>9, Facts, GoesPlain, PlainStatements DEF Serial

\* The row of a running build ends, and the number of attempts stays.
LEMMA BuildEnds ==
    ASSUME EvidenceInv, SerialInv, NEW b \in Builds, builds[b] = "running",
           NEW o \in BuildOutcomes \cup {"failed"}, builds' = [builds EXCEPT ![b] = o],
           Prompt /\ o # "failed" => o = artifact[b],
           UNCHANGED <<campaign, brief, artifact, evals, decision>>
    PROVE  Serial'
  <1>1. Attempts' = Attempts
    BY Facts DEF Attempts, BuildOutcomes
  <1>2. Evaluated' = Evaluated /\ (Prompt' <=> Prompt)
    BY DEF Evaluated, Prompt
  <1>3. Verdict(Evaluated)' = Verdict(Evaluated)
    BY <1>2 DEF Verdict, Clean
  <1>4. WithinLimits' /\ SameIdentities' /\ ClosedOnAll'
    BY <1>1, <1>2, <1>3 DEF SerialInv, Serial, WithinLimits, SameIdentities, ClosedOnAll
  <1>5. Stated'
    BY <1>2, Facts DEF SerialInv, Serial, Stated, BuildOutcomes
  <1>6. QED
    BY <1>4, <1>5 DEF Serial

LEMMA ProduceSerial ==
    ASSUME EvidenceInv, SerialInv, Alone, Alone', NEW p \in Procs, ProduceCandidate(p)
    PROVE  SerialInv'
  <1>1. /\ pc[p] = "building" /\ builds[build[p]] = "running"
        /\ Goto(p, "build_complete") /\ build[p] \in Builds
        /\ UNCHANGED <<campaign, brief, builds, evals, decision>>
    BY Facts DEF ProduceCandidate, BuildStatements
  <1>2. \A b \in Builds : builds[b] # "running" => artifact'[b] = artifact[b]
    BY <1>1, Facts DEF ProduceCandidate
  <1>3. Attempts' = Attempts /\ Evaluated' = Evaluated /\ (Prompt' <=> Prompt)
    BY <1>1 DEF Attempts, Evaluated, Prompt
  <1>4. Verdict(Evaluated)' = Verdict(Evaluated)
    BY <1>1, <1>3 DEF Verdict, Clean
  <1>5. WithinLimits' /\ SameIdentities' /\ ClosedOnAll'
    BY <1>1, <1>3, <1>4 DEF SerialInv, Serial, WithinLimits, SameIdentities, ClosedOnAll
  <1>6. Stated'
    BY <1>1, <1>2, <1>3 DEF SerialInv, Serial, Stated, BuildOutcomes
  <1>7. QED
    BY <1>1, <1>5, <1>6, Facts, GoesPlain, PlainStatements DEF Serial

LEMMA CompleteBuildSerial ==
    ASSUME EvidenceInv, SerialInv, Alone, Alone', NEW p \in Procs, CompleteBuild(p)
    PROVE  SerialInv'
  <1>1. /\ pc[p] = "build_complete" /\ Finish(p)
        /\ UNCHANGED <<campaign, brief, artifact, evals, decision>>
    BY DEF CompleteBuild
  <1>2. PICK o \in BuildOutcomes \cup {"failed"} :
          /\ Prompt => o = artifact[build[p]]
          /\ builds' = [builds EXCEPT ![build[p]] = o]
    BY DEF CompleteBuild
  <1>3. build[p] \in Builds /\ builds[build[p]] = "running"
    BY <1>1, Facts DEF BuildStatements, EvidenceInv, Owners, BuildOwners
  <1>4. Serial'
    BY <1>1, <1>2, <1>3, BuildEnds
  <1>5. QED
    BY <1>1, <1>4, Facts, Ends

LEMMA FailBuildSerial ==
    ASSUME EvidenceInv, SerialInv, Alone, Alone', NEW p \in Procs, FailBuild(p)
    PROVE  SerialInv'
  <1>1. /\ pc[p] = "build_fail" /\ Finish(p) /\ builds' = [builds EXCEPT ![build[p]] = "failed"]
        /\ UNCHANGED <<campaign, brief, artifact, evals, decision>>
    BY DEF FailBuild
  <1>2. build[p] \in Builds /\ builds[build[p]] = "running"
    BY <1>1, Facts DEF BuildStatements, EvidenceInv, Owners, BuildOwners
  <1>3. Serial'
    BY <1>1, <1>2, BuildEnds
  <1>4. QED
    BY <1>1, <1>3, Facts, Ends

LEMMA BeginEvaluationSerial ==
    ASSUME EvidenceInv, SerialInv, Rested, Alone, Alone', NEW p \in Procs, BeginEvaluation(p)
    PROVE  SerialInv'
  <1>1. /\ Goto(p, IF Prompt THEN "bind" ELSE "eval_check")
        /\ UNCHANGED tables /\ field' = field /\ pc[p] = "idle"
    BY DEF BeginEvaluation, Begin
  <1>2. PICK i \in Identities :
          /\ i.holdout # None /\ (Prompt <=> i.evaluator # None)
          /\ offer' = [offer EXCEPT ![p] = i]
    BY DEF BeginEvaluation
  <1>3. pc'[p] = (IF Prompt THEN "bind" ELSE "eval_check") /\ offer'[p] = i
    BY <1>1, <1>2, Facts DEF Goto
  <1>4. (Prompt' <=> Prompt) /\ campaign' = campaign
    BY <1>1, Frame
  <1>5. field'[p] = "evaluator"
    BY <1>1 DEF Rested
  <1>6. CASE Prompt
    <2>1. pc'[p] = "bind"
      BY <1>3, <1>6
    <2>2. BindsIdentity(p)'
      BY <1>2, <1>3, <1>4, <1>5, <1>6, <2>1 DEF BindsIdentity, Binding, Entering
    <2>3. Knows(p)'
      BY <2>1, <2>2 DEF Knows, CountsBuilds, Enters, Closes, CloseStatements
    <2>4. QED
      BY <1>1, <1>6, <2>3, Facts, ReadsOn DEF Statements
  <1>7. CASE ~Prompt
    <2>1. pc'[p] = "eval_check" /\ i.evaluator = None
      BY <1>2, <1>3, <1>7
    <2>2. campaign.evaluator = None
      BY <1>7 DEF SerialInv, Serial, SameIdentities
    <2>3. BindsIdentity(p)'
      BY <1>2, <1>3, <1>4, <1>7, <2>1, <2>2 DEF BindsIdentity, Binding, Entering
    <2>4. Knows(p)'
      BY <2>1, <2>3 DEF Knows, CountsBuilds, Enters, Closes, CloseStatements
    <2>5. QED
      BY <1>1, <1>7, <2>4, Facts, ReadsOn DEF Statements
  <1>8. QED
    BY <1>6, <1>7

\* A command whose identity is the campaign's goes on to the next one.
LEMMA BoundOn ==
    ASSUME EvidenceInv, SerialInv, Serial', Alone, Alone', NEW p \in Procs,
           pc[p] \in Binding, Bound(p), offer' = offer, campaign'.kind = campaign.kind,
           field[p] = "evaluator" => campaign'.evaluator = offer[p].evaluator,
           field[p] = "holdout" => campaign'.evaluator = campaign.evaluator
    PROVE  SerialInv'
  <1> DEFINE l == IF field[p] = "evaluator" THEN "bind" ELSE "eval_check"
  <1>1. Goto(p, l) /\ field' = [field EXCEPT ![p] = "holdout"]
    BY DEF Bound
  <1>2. pc'[p] = l /\ field'[p] = "holdout" /\ field[p] \in {"evaluator", "holdout"}
    BY <1>1, Facts DEF Goto
  <1>3. (Prompt' <=> Prompt) /\ offer'[p] = offer[p]
    BY DEF Prompt
  <1>4. /\ offer[p].holdout # None /\ (Prompt <=> offer[p].evaluator # None) /\ Prompt
        /\ field[p] = "holdout" => offer[p].evaluator = campaign.evaluator
    BY DEF SerialInv, Knows, BindsIdentity
  <1>5. campaign'.evaluator = offer'[p].evaluator
    BY <1>2, <1>3, <1>4
  <1>6. l \in {"bind", "eval_check"} /\ l \in Statements
    BY DEF Statements
  <1> HIDE DEF l
  <1>7. BindsIdentity(p)'
    BY <1>2, <1>3, <1>4, <1>5, <1>6 DEF BindsIdentity, Binding, Entering
  <1>8. Knows(p)'
    BY <1>2, <1>6, <1>7 DEF Knows, CountsBuilds, Enters, Closes, CloseStatements
  <1>9. pc[p] # "idle"
    BY DEF Binding
  <1>10. QED
    BY <1>1, <1>6, <1>8, <1>9, Facts, OthersIdle DEF SerialInv

LEMMA ReadIdentitySerial ==
    ASSUME EvidenceInv, SerialInv, Alone, Alone', NEW p \in Procs, ReadIdentity(p)
    PROVE  SerialInv'
  <1>1. pc[p] = "bind" /\ UNCHANGED tables /\ campaign' = campaign
    BY DEF ReadIdentity, tables
  <1>2. field[p] \in {"holdout", "evaluator"}
    BY Facts
  <1>3. Serial'
    BY <1>1, SerialKept DEF SerialInv
  <1>4. CASE campaign[field[p]] = offer[p][field[p]] /\ Bound(p) /\ offer' = offer
    <2>1. /\ field[p] = "evaluator" => campaign'.evaluator = offer[p].evaluator
          /\ field[p] = "holdout" => campaign'.evaluator = campaign.evaluator
      BY <1>1, <1>4
    <2>2. pc[p] \in Binding
      BY <1>1 DEF Binding
    <2>3. QED
      BY <1>1, <1>3, <1>4, <2>1, <2>2, BoundOn
  <1>5. CASE /\ campaign.status = "active" /\ campaign[field[p]] = None
             /\ Goto(p, "bind_count") /\ UNCHANGED locals
    <2>1. /\ pc'[p] = "bind_count" /\ offer' = offer /\ field' = field
          /\ (Prompt' <=> Prompt)
      BY <1>1, <1>5, Facts, Frame DEF Goto, locals
    <2>2. BindsIdentity(p)
      BY DEF SerialInv, Knows
    <2>3. BindsIdentity(p)'
      BY <1>1, <1>5, <2>1, <2>2 DEF BindsIdentity, Binding, Entering
    <2>4. Knows(p)'
      BY <2>1, <2>3 DEF Knows, CountsBuilds, Enters, Closes, CloseStatements
    <2>5. QED
      BY <1>1, <1>5, <2>4, Facts, ReadsOn DEF Statements
  <1>6. CASE Finish(p)
    BY <1>1, <1>3, <1>6, Facts, Ends
  <1>7. QED
    BY <1>4, <1>5, <1>6 DEF ReadIdentity

LEMMA CountBeforeBindingSerial ==
    ASSUME EvidenceInv, SerialInv, Alone, Alone', NEW p \in Procs, CountBeforeBinding(p)
    PROVE  SerialInv'
  <1>1. pc[p] = "bind_count" /\ UNCHANGED tables
    BY DEF CountBeforeBinding
  <1>2. CASE Finish(p)
    BY <1>1, <1>2, Facts, SerialKept, Ends DEF SerialInv
  <1>3. CASE ~Finish(p)
    <2>1. Evaluated = {} /\ Goto(p, "bind_write") /\ UNCHANGED locals
      BY <1>3 DEF CountBeforeBinding, Check
    <2>2. /\ pc'[p] = "bind_write" /\ offer' = offer /\ field' = field
      BY <2>1, Facts DEF Goto, locals
    <2>3. campaign' = campaign /\ Evaluated' = {} /\ (Prompt' <=> Prompt)
      BY <1>1, <2>1, Frame
    <2>4. BindsIdentity(p)
      BY DEF SerialInv, Knows
    <2>5. BindsIdentity(p)'
      BY <1>1, <2>2, <2>3, <2>4 DEF BindsIdentity, Binding, Entering
    <2>6. Knows(p)'
      BY <2>2, <2>5 DEF Knows, CountsBuilds, Enters, Closes, CloseStatements
    <2>7. QED
      BY <1>1, <2>1, <2>6, Facts, ReadsOn DEF Statements
  <1>4. QED
    BY <1>2, <1>3

LEMMA WriteIdentitySerial ==
    ASSUME EvidenceInv, SerialInv, Alone, Alone', NEW p \in Procs, WriteIdentity(p)
    PROVE  SerialInv'
  <1>1. /\ pc[p] = "bind_write" /\ Bound(p) /\ offer' = offer
        /\ campaign' = [campaign EXCEPT ![field[p]] = offer[p][field[p]]]
        /\ UNCHANGED <<brief, builds, artifact, evals, decision>>
    BY DEF WriteIdentity
  <1>2. field[p] \in {"holdout", "evaluator"}
    BY Facts
  <1>3. /\ campaign'.kind = campaign.kind /\ campaign'.status = campaign.status
        /\ field[p] = "evaluator" => campaign'.evaluator = offer[p].evaluator
        /\ field[p] = "holdout" => campaign'.evaluator = campaign.evaluator
    BY <1>1, <1>2, Facts
  <1>4. Attempts' = Attempts /\ Evaluated' = Evaluated /\ (Prompt' <=> Prompt)
    BY <1>1, <1>3 DEF Attempts, Evaluated, Prompt
  <1>5. Evaluated = {} /\ Prompt /\ campaign.status = "active"
    BY <1>1 DEF SerialInv, Knows, BindsIdentity, Binding
  <1>6. WithinLimits'
    BY <1>4 DEF SerialInv, Serial, WithinLimits
  <1>7. SameIdentities'
    BY <1>4, <1>5 DEF SameIdentities
  <1>8. Stated' /\ ClosedOnAll'
    BY <1>1, <1>3, <1>4, <1>5 DEF SerialInv, Serial, Stated, ClosedOnAll, Closed
  <1>9. Serial' /\ pc[p] \in Binding
    BY <1>1, <1>6, <1>7, <1>8 DEF Serial, Binding
  <1>10. QED
    BY <1>1, <1>3, <1>9, BoundOn

LEMMA CheckEvaluationSerial ==
    ASSUME EvidenceInv, SerialInv, Alone, Alone', NEW p \in Procs, CheckEvaluation(p)
    PROVE  SerialInv'
  <1>1. pc[p] = "eval_check" /\ UNCHANGED tables
    BY DEF CheckEvaluation
  <1>2. CASE Finish(p)
    BY <1>1, <1>2, Facts, SerialKept, Ends DEF SerialInv
  <1>3. CASE ~Finish(p)
    <2>1. /\ Open /\ campaign.holdout = offer[p].holdout
          /\ Goto(p, "eval_count") /\ UNCHANGED locals
      BY <1>3 DEF CheckEvaluation, Check, Open
    <2>2. pc'[p] = "eval_count" /\ offer' = offer /\ field' = field
      BY <2>1, Facts DEF Goto, locals
    <2>3. campaign' = campaign /\ Open' /\ (Prompt' <=> Prompt)
      BY <1>1, <2>1, Frame
    <2>4. BindsIdentity(p)
      BY DEF SerialInv, Knows
    <2>5. BindsIdentity(p)' /\ Enters(p)'
      BY <1>1, <2>1, <2>2, <2>3, <2>4 DEF BindsIdentity, Enters, Binding, Entering
    <2>6. Knows(p)'
      BY <2>2, <2>5 DEF Knows, CountsBuilds, Closes, CloseStatements
    <2>7. QED
      BY <1>1, <2>1, <2>6, Facts, ReadsOn DEF Statements
  <1>4. QED
    BY <1>2, <1>3

LEMMA CountEvaluationsSerial ==
    ASSUME EvidenceInv, SerialInv, Alone, Alone', NEW p \in Procs, CountEvaluations(p)
    PROVE  SerialInv'
  <1>1. pc[p] = "eval_count" /\ UNCHANGED tables
    BY DEF CountEvaluations
  <1>2. CASE Finish(p)
    BY <1>1, <1>2, Facts, SerialKept, Ends DEF SerialInv
  <1>3. CASE ~Finish(p)
    <2>1. /\ Cardinality(Evaluated) < MaxCandidates
          /\ Goto(p, "eval_insert") /\ UNCHANGED locals
      BY <1>3 DEF CountEvaluations, Check
    <2>2. pc'[p] = "eval_insert" /\ offer' = offer /\ field' = field
      BY <2>1, Facts DEF Goto, locals
    <2>3. campaign' = campaign /\ (Open' <=> Open) /\ (Prompt' <=> Prompt) /\ Evaluated' = Evaluated
      BY <1>1, Frame
    <2>4. BindsIdentity(p) /\ Enters(p)
      BY DEF SerialInv, Knows
    <2>5. BindsIdentity(p)' /\ Enters(p)'
      BY <1>1, <2>1, <2>2, <2>3, <2>4 DEF BindsIdentity, Enters, Binding, Entering
    <2>6. Knows(p)'
      BY <2>2, <2>5 DEF Knows, CountsBuilds, Closes, CloseStatements
    <2>7. QED
      BY <1>1, <2>1, <2>6, Facts, ReadsOn DEF Statements
  <1>4. QED
    BY <1>2, <1>3

LEMMA InsertEvaluationSerial ==
    ASSUME EvidenceInv, SerialInv, Alone, Alone', NEW p \in Procs, InsertEvaluation(p)
    PROVE  SerialInv'
  <1>1. /\ pc[p] = "eval_insert" /\ build[p] \in Builds
        /\ UNCHANGED <<campaign, brief, builds, artifact, decision>>
    BY Facts DEF InsertEvaluation, BuildStatements
  <1>2. /\ Open /\ campaign.holdout = offer[p].holdout
        /\ Cardinality(Evaluated) < MaxCandidates
        /\ offer[p].holdout # None /\ (Prompt <=> offer[p].evaluator # None)
        /\ offer[p].evaluator = campaign.evaluator
    BY <1>1 DEF SerialInv, Knows, Enters, BindsIdentity, Entering
  <1>3. CASE build[p] \in Evaluated
    <2>1. Finish(p) /\ UNCHANGED tables
      BY <1>1, <1>3 DEF InsertEvaluation, tables
    <2>2. QED
      BY <1>1, <2>1, Facts, SerialKept, Ends DEF SerialInv
  <1>4. CASE build[p] \notin Evaluated
    <2> DEFINE e == [status |-> "running", score |-> "none",
                     holdout |-> offer[p].holdout, evaluator |-> offer[p].evaluator]
    <2>1. evals' = [evals EXCEPT ![build[p]] = e] /\ Goto(p, "evaluating")
      BY <1>4 DEF InsertEvaluation
    <2>2. /\ e.status = "running"
          /\ e.holdout = campaign.holdout /\ e.evaluator = campaign.evaluator
      BY <1>2
    <2> HIDE DEF e
    <2>3. Evaluated' = Evaluated \cup {build[p]}
      BY <1>1, <2>1, <2>2, Facts DEF Evaluated
    <2>4. Attempts' = Attempts /\ (Prompt' <=> Prompt)
      BY <1>1 DEF Attempts, Prompt
    <2>5. Cardinality(Evaluated') <= MaxCandidates
      <3> DEFINE n == Cardinality(Evaluated)
      <3>1. Cardinality(Evaluated') = n + 1
        BY <1>4, <2>3, Counts, FS_AddElement
      <3>2. n \in Nat /\ n < MaxCandidates
        BY <1>2, Counts
      <3> HIDE DEF n
      <3>3. QED
        BY <3>1, <3>2, Counts
    <2>6. WithinLimits'
      BY <2>4, <2>5 DEF SerialInv, Serial, WithinLimits
    <2>7. \A b \in Evaluated' : /\ evals'[b].holdout = campaign'.holdout
                                /\ evals'[b].evaluator = campaign'.evaluator
      <3>1. \A b \in Evaluated : b \in Builds /\ b # build[p] /\ evals'[b] = evals[b]
        BY <1>4, <2>1, Facts DEF Evaluated
      <3>2. evals'[build[p]] = e
        BY <1>1, <2>1, Facts
      <3>3. QED
        BY <1>1, <2>2, <2>3, <3>1, <3>2 DEF SerialInv, Serial, SameIdentities
    <2>8. SameIdentities'
      BY <1>1, <1>2, <2>4, <2>7 DEF SerialInv, Serial, SameIdentities
    <2>9. Stated' /\ ClosedOnAll'
      BY <1>1, <1>2, <2>4 DEF SerialInv, Serial, Stated, ClosedOnAll, Open, Closed
    <2>10. QED
      BY <1>1, <2>1, <2>6, <2>8, <2>9, Facts, GoesPlain, PlainStatements DEF Serial
  <1>5. QED
    BY <1>3, <1>4

LEMMA CompleteEvaluationSerial ==
    ASSUME EvidenceInv, SerialInv, Alone, Alone', NEW p \in Procs, CompleteEvaluation(p)
    PROVE  SerialInv'
  <1>1. /\ pc[p] = "evaluating" /\ Finish(p) /\ build[p] \in Builds
        /\ UNCHANGED <<campaign, brief, builds, artifact, decision>>
    BY Facts DEF CompleteEvaluation, BuildStatements
  <1>2. PICK t \in Terminal, s \in Scores :
          evals' = [evals EXCEPT ![build[p]] = [@ EXCEPT !.status = t, !.score = s]]
    BY DEF CompleteEvaluation
  <1>3. evals[build[p]].status = "running"
    BY <1>1 DEF EvidenceInv, Owners
  <1>4. t # "none"
    BY DEF Terminal
  <1>5. \A b \in Builds : /\ evals'[b].status # "none" <=> evals[b].status # "none"
                          /\ evals'[b].holdout = evals[b].holdout
                          /\ evals'[b].evaluator = evals[b].evaluator
    BY <1>1, <1>2, <1>3, <1>4, Facts
  <1>6. Evaluated' = Evaluated /\ Attempts' = Attempts /\ (Prompt' <=> Prompt)
    BY <1>1, <1>5 DEF Evaluated, Attempts, Prompt
  <1>7. campaign.status \notin Closed
    <2> SUFFICES ASSUME campaign.status \in Closed PROVE FALSE
      OBVIOUS
    <2>1. build[p] \in Evaluated
      BY <1>1, <1>3 DEF Evaluated
    <2>2. decision[build[p]] # "none"
      BY <2>1 DEF SerialInv, Serial, ClosedOnAll
    <2>3. Settled(build[p])
      BY <1>1, <2>2 DEF EvidenceInv, Decided
    <2>4. QED
      BY <1>3, <2>3 DEF Settled, Terminal
  <1>8. WithinLimits' /\ Stated' /\ ClosedOnAll'
    BY <1>1, <1>6, <1>7 DEF SerialInv, Serial, WithinLimits, Stated, ClosedOnAll
  <1>9. SameIdentities'
    BY <1>1, <1>5, <1>6 DEF SerialInv, Serial, SameIdentities, Evaluated
  <1>10. QED
    BY <1>1, <1>8, <1>9, Facts, Ends DEF Serial

LEMMA InsertDecisionSerial ==
    ASSUME EvidenceInv, SerialInv, Alone, Alone', NEW p \in Procs, InsertDecision(p)
    PROVE  SerialInv'
  <1>1. /\ pc[p] = "decide_insert" /\ build[p] \in Builds
        /\ UNCHANGED <<campaign, brief, builds, artifact, evals>>
    BY Facts DEF InsertDecision, BuildStatements
  <1>2. \A b \in Builds : decision[b] # "none" => decision'[b] # "none"
    BY <1>1, Facts DEF InsertDecision
  <1>3. Attempts' = Attempts /\ Evaluated' = Evaluated /\ (Prompt' <=> Prompt)
    BY <1>1 DEF Attempts, Evaluated, Prompt
  <1>4. Verdict(Evaluated)' = Verdict(Evaluated)
    BY <1>1, <1>3 DEF Verdict, Clean
  <1>5. WithinLimits' /\ SameIdentities' /\ Stated'
    BY <1>1, <1>3 DEF SerialInv, Serial, WithinLimits, SameIdentities, Stated
  <1>6. ClosedOnAll'
    BY <1>1, <1>2, <1>3, <1>4 DEF SerialInv, Serial, ClosedOnAll, Evaluated
  <1>7. Serial'
    BY <1>5, <1>6 DEF Serial
  <1>8. Finish(p) \/ Goto(p, "final_status")
    BY DEF InsertDecision, Check
  <1>9. QED
    BY <1>1, <1>7, <1>8, Facts, Ends, GoesPlain, PlainStatements

LEMMA ReadEvaluationsSerial ==
    ASSUME EvidenceInv, SerialInv, Alone, Alone', NEW p \in Procs, ReadEvaluations(p)
    PROVE  SerialInv'
  <1>1. pc[p] = "close_read" /\ UNCHANGED tables
    BY DEF ReadEvaluations
  <1>2. CASE campaign.status = "active"
    <2>1. /\ seen' = [seen EXCEPT ![p] = Evaluated]
          /\ verdict' = [verdict EXCEPT ![p] = Verdict(Evaluated)]
          /\ Goto(p, "close_decisions")
      BY <1>2 DEF ReadEvaluations
    <2>2. /\ pc'[p] = "close_decisions" /\ seen'[p] = Evaluated
          /\ verdict'[p] = Verdict(Evaluated)
      BY <2>1, Facts DEF Goto
    <2>3. /\ Evaluated' = Evaluated /\ campaign' = campaign
          /\ Verdict(Evaluated)' = Verdict(Evaluated)
      BY <1>1, Frame
    <2>4. Closes(p)'
      BY <1>2, <2>2, <2>3 DEF Closes
    <2>5. Knows(p)'
      BY <2>2, <2>4 DEF Knows, CountsBuilds, BindsIdentity, Enters, Binding, Entering
    <2>6. QED
      BY <1>1, <2>1, <2>5, Facts, ReadsOn DEF Statements
  <1>3. CASE campaign.status # "active"
    <2>1. Finish(p)
      BY <1>3 DEF ReadEvaluations
    <2>2. QED
      BY <1>1, <2>1, Facts, SerialKept, Ends DEF SerialInv
  <1>4. QED
    BY <1>2, <1>3

LEMMA ReadDecisionsSerial ==
    ASSUME EvidenceInv, SerialInv, Alone, Alone', NEW p \in Procs, ReadDecisions(p)
    PROVE  SerialInv'
  <1>1. pc[p] = "close_decisions" /\ UNCHANGED tables
    BY DEF ReadDecisions
  <1>2. CASE Finish(p)
    BY <1>1, <1>2, Facts, SerialKept, Ends DEF SerialInv
  <1>3. CASE ~Finish(p)
    <2>1. Goto(p, "close_write") /\ UNCHANGED locals
      BY <1>3 DEF ReadDecisions, Check
    <2>2. pc'[p] = "close_write" /\ seen' = seen /\ verdict' = verdict
      BY <2>1, Facts DEF Goto, locals
    <2>3. /\ Evaluated' = Evaluated /\ campaign' = campaign
          /\ Verdict(Evaluated)' = Verdict(Evaluated)
      BY <1>1, Frame
    <2>4. Closes(p)
      BY DEF SerialInv, Knows
    <2>5. Closes(p)'
      BY <1>1, <2>2, <2>3, <2>4 DEF Closes, CloseStatements
    <2>6. Knows(p)'
      BY <2>2, <2>5 DEF Knows, CountsBuilds, BindsIdentity, Enters, Binding, Entering
    <2>7. QED
      BY <1>1, <2>1, <2>6, Facts, ReadsOn DEF Statements
  <1>4. QED
    BY <1>2, <1>3

LEMMA WriteStatusSerial ==
    ASSUME EvidenceInv, SerialInv, Alone, Alone', NEW p \in Procs, WriteStatus(p)
    PROVE  SerialInv'
  <1>1. /\ pc[p] = "close_write"
        /\ campaign' = [campaign EXCEPT !.status = verdict[p]]
        /\ UNCHANGED <<brief, builds, artifact, evals, decision>>
    BY DEF WriteStatus
  <1>2. seen[p] = Evaluated /\ verdict[p] = Verdict(Evaluated)
    BY <1>1 DEF SerialInv, Knows, Closes, CloseStatements
  <1>3. seen[p] # {} /\ \A b \in seen[p] : decision[b] # "none"
    BY <1>1 DEF EvidenceInv, CloseRestsOnDecisions
  <1>4. /\ campaign'.status = Verdict(Evaluated) /\ campaign'.kind = campaign.kind
        /\ campaign'.holdout = campaign.holdout /\ campaign'.evaluator = campaign.evaluator
    BY <1>1, <1>2, Facts
  <1>5. Attempts' = Attempts /\ Evaluated' = Evaluated /\ (Prompt' <=> Prompt)
    BY <1>1, <1>4 DEF Attempts, Evaluated, Prompt
  <1>6. Verdict(Evaluated)' = Verdict(Evaluated)
    BY <1>1, <1>5 DEF Verdict, Clean
  <1>7. WithinLimits' /\ SameIdentities' /\ Stated'
    BY <1>1, <1>4, <1>5 DEF SerialInv, Serial, WithinLimits, SameIdentities, Stated
  <1>8. ClosedOnAll'
    BY <1>1, <1>2, <1>3, <1>4, <1>5, <1>6 DEF ClosedOnAll
  <1>9. Finish(p) \/ Goto(p, "audit")
    BY DEF WriteStatus, Check
  <1>10. QED
    BY <1>1, <1>7, <1>8, <1>9, Facts, Ends, GoesPlain, PlainStatements DEF Serial

\* The statements that read nothing the invariant is about.
LEMMA PlainSteps ==
    ASSUME EvidenceInv, SerialInv, Alone, Alone', NEW p \in Procs,
           \/ BeginBuild(p) \/ BuildRaises(p) \/ BeginDecision(p) \/ BeginClose(p)
           \/ BeginFinalize(p) \/ ReadStatus(p) \/ AuditCampaign(p) \/ Crash(p)
    PROVE  SerialInv'
  <1>1. UNCHANGED tables
    BY DEF BeginBuild, BuildRaises, BeginDecision, BeginClose, BeginFinalize, ReadStatus,
           AuditCampaign, Crash
  <1>2. \/ pc[p] # "idle" /\ Finish(p)
        \/ \E l \in Plain \ {"idle"} : Goto(p, l)
    BY PlainStatements
       DEF BeginBuild, BuildRaises, BeginDecision, BeginClose, BeginFinalize, ReadStatus,
           AuditCampaign, Crash, Begin
  <1>3. Serial'
    BY <1>1, SerialKept DEF SerialInv
  <1>4. QED
    BY <1>2, <1>3, Facts, Ends, GoesPlain

LEMMA NextSerial ==
    EvidenceInv /\ SerialInv /\ Rested /\ Alone /\ Alone' /\ [Next]_vars => SerialInv'
  <1> SUFFICES ASSUME EvidenceInv, SerialInv, Rested, Alone, Alone', [Next]_vars
               PROVE  SerialInv'
    OBVIOUS
  <1>1. CASE UNCHANGED vars
    <2>1. UNCHANGED tables /\ UNCHANGED <<pc, locals>>
      BY <1>1 DEF vars
    <2>2. UNCHANGED <<offer, field, seen, verdict>>
      BY <2>1 DEF locals
    <2>3. ASSUME NEW q \in Procs PROVE Knows(q)'
      <3>1. /\ Attempts' = Attempts /\ Evaluated' = Evaluated
            /\ (Prompt' <=> Prompt) /\ (Open' <=> Open)
            /\ Verdict(Evaluated)' = Verdict(Evaluated) /\ campaign' = campaign
        BY <2>1, Frame
      <3>2. Knows(q)
        BY DEF SerialInv
      <3>3. CountsBuilds(q)' /\ Enters(q)'
        BY <2>1, <2>2, <3>1, <3>2 DEF Knows, CountsBuilds, Enters
      <3>4. BindsIdentity(q)'
        BY <2>1, <2>2, <3>1, <3>2 DEF Knows, BindsIdentity
      <3>5. Closes(q)'
        BY <2>1, <2>2, <3>1, <3>2 DEF Knows, Closes
      <3>6. QED
        BY <3>3, <3>4, <3>5 DEF Knows
    <2>4. QED
      BY <2>1, <2>3, SerialKept DEF SerialInv
  <1>2. ASSUME NEW p \in Procs, Creating(p) PROVE SerialInv'
    BY <1>2, CreateSerial, AddBriefSerial, ApproveSerial DEF Creating
  <1>3. ASSUME NEW p \in Procs, Building(p) PROVE SerialInv'
    BY <1>3, PlainSteps, CheckBuildSerial, CountBuildsSerial, InsertBuildSerial,
       ProduceSerial, CompleteBuildSerial, FailBuildSerial DEF Building
  <1>4. ASSUME NEW p \in Procs, Evaluating(p) PROVE SerialInv'
    BY <1>4, BeginEvaluationSerial, ReadIdentitySerial, CountBeforeBindingSerial,
       WriteIdentitySerial, CheckEvaluationSerial, CountEvaluationsSerial,
       InsertEvaluationSerial, CompleteEvaluationSerial DEF Evaluating
  <1>5. ASSUME NEW p \in Procs, Deciding(p) PROVE SerialInv'
    BY <1>5, PlainSteps, InsertDecisionSerial DEF Deciding
  <1>6. ASSUME NEW p \in Procs, Closing(p) PROVE SerialInv'
    BY <1>6, PlainSteps, ReadEvaluationsSerial, ReadDecisionsSerial, WriteStatusSerial
       DEF Closing
  <1>7. ASSUME NEW p \in Procs, Crash(p) PROVE SerialInv'
    BY <1>7, PlainSteps
  <1>8. QED
    BY <1>1, <1>2, <1>3, <1>4, <1>5, <1>6, <1>7 DEF Next

LEMMA SerialHolds == Spec /\ []Alone => [](EvidenceInv /\ SerialInv)
  <1>1. Init => SerialInv /\ Rested
    BY InitSerial DEF Init, Rested
  <1>2. EvidenceInv /\ Rested /\ [Next]_vars => Rested'
    BY NextRested
  <1>3. EvidenceInv /\ SerialInv /\ Rested /\ Alone /\ Alone' /\ [Next]_vars => SerialInv'
    BY NextSerial
  <1>4. Spec => []EvidenceInv
    BY Evidence
  <1>5. QED
    BY <1>1, <1>2, <1>3, <1>4, PTL DEF Spec

\* WithinLimits: as long as commands do not overlap, a campaign never has more
\* attempts or evaluations than it allows, however many of them are killed.
THEOREM LimitsHold == Spec /\ []Alone => []WithinLimits
  <1>1. SerialInv => WithinLimits
    BY DEF SerialInv, Serial
  <1>2. QED
    BY <1>1, SerialHolds, PTL

\* HoldoutBoundOnce: as long as commands do not overlap, every evaluation was made
\* against the one holdout of its campaign.
THEOREM BoundOnce == Spec /\ []Alone => []HoldoutBoundOnce
  <1>1. SerialInv => HoldoutBoundOnce
    BY DEF SerialInv, Serial, SameIdentities, HoldoutBoundOnce
  <1>2. QED
    BY <1>1, SerialHolds, PTL

LEMMA AuditFollows == EvidenceInv /\ SerialInv => ClosedPassesAudit
  <1> SUFFICES ASSUME EvidenceInv, SerialInv, campaign.status \in Closed,
                      \A b \in Attempts : /\ builds[b] # "running"
                                          /\ Prompt => builds[b] # "failed"
               PROVE  AuditPasses
    BY DEF ClosedPassesAudit
  <1>1. /\ Evaluated # {} /\ \A b \in Evaluated : decision[b] # "none"
        /\ campaign.status = Verdict(Evaluated)
    BY DEF SerialInv, Serial, ClosedOnAll
  <1>2. \A b \in Evaluated : b \in Builds /\ builds[b] = "ready" /\ brief = "approved"
    BY DEF Evaluated, EvidenceInv, Ready
  <1>3. CampaignIdentityOK /\ brief = "approved"
    BY <1>1, <1>2 DEF CampaignIdentityOK, SerialInv, Serial, SameIdentities
  <1>4. Cardinality(Attempts) \in 1 .. MaxCandidates /\ Cardinality(Evaluated) \in 1 .. MaxCandidates
    <2>1. Evaluated \subseteq Attempts /\ Attempts # {}
      BY <1>1, <1>2 DEF Attempts
    <2>2. Cardinality(Attempts) # 0 /\ Cardinality(Evaluated) # 0
      BY <1>1, <2>1, Counts, FS_EmptySet
    <2>3. Cardinality(Attempts) <= MaxCandidates /\ Cardinality(Evaluated) <= MaxCandidates
      BY DEF SerialInv, Serial, WithinLimits
    <2> DEFINE n == Cardinality(Attempts)
               m == Cardinality(Evaluated)
    <2>4. n \in Nat /\ m \in Nat /\ n # 0 /\ m # 0 /\ n <= MaxCandidates /\ m <= MaxCandidates
      BY <2>2, <2>3, Counts
    <2> HIDE DEF n, m
    <2>5. n \in 1 .. MaxCandidates /\ m \in 1 .. MaxCandidates
      BY <2>4, Counts
    <2>6. QED
      BY <2>5 DEF n, m
  <1>5. BuildsOK
    <2>1. ASSUME Prompt, NEW b \in Attempts PROVE artifact[b] = builds[b]
      <3>1. b \in Builds /\ builds[b] \in BuildOutcomes
        BY <2>1, Facts DEF Attempts
      <3>2. QED
        BY <2>1, <3>1 DEF SerialInv, Serial, Stated
    <2>2. QED
      BY <1>4, <2>1 DEF BuildsOK
  <1>6. EvaluationsOK
    <2>1. \A b \in Evaluated : evals[b].status \in Terminal
      BY <1>1, <1>2 DEF EvidenceInv, Decided, Settled
    <2>2. QED
      BY <1>2, <1>4, <2>1 DEF EvaluationsOK, SerialInv, Serial, SameIdentities
  <1>7. DecisionsOK
    BY <1>1, <1>2 DEF DecisionsOK, EvidenceInv, Decided, Eligible
  <1>8. QED
    BY <1>1, <1>3, <1>5, <1>6, <1>7 DEF AuditPasses

\* ClosedPassesAudit: as long as commands do not overlap, a closed campaign passes
\* the audit, except for builds that were abandoned or, of prompts, failed.
THEOREM AuditHolds == Spec /\ []Alone => []ClosedPassesAudit
  BY AuditFollows, SerialHolds, PTL

-----------------------------------------------------------------------------
(***************************************************************************)
(* The store implements CampaignLedger while commands do not overlap.        *)
(***************************************************************************)

\* The ledger's identity and outcome, as functions of the tables.
Identity == [holdout |-> campaign.holdout, evaluator |-> campaign.evaluator]

Outcome ==
    [b \in Builds |-> IF Settled(b) THEN evals[b].score ELSE evals[b].status]

\* A terminal evaluation has a scorecard, and an error record is not `completed'.
Scored ==
    \A b \in Builds : Settled(b) =>
        evals[b].score \in Scores /\ (evals[b].status = "completed" <=> evals[b].score # "error")

LEMMA NextScored == EvidenceInv /\ Scored /\ [Next]_vars => Scored'
  <1> SUFFICES ASSUME EvidenceInv, Scored, [Next]_vars
               PROVE  Scored'
    OBVIOUS
  <1>1. CASE UNCHANGED evals
    BY <1>1 DEF Scored, Settled
  <1>2. ASSUME NEW p \in Procs, InsertEvaluation(p), ~UNCHANGED evals
        PROVE  Scored'
    <2> DEFINE row == [status |-> "running", score |-> "none",
                       holdout |-> offer[p].holdout, evaluator |-> offer[p].evaluator]
    <2>1. evals' = [evals EXCEPT ![build[p]] = row]
      BY <1>2 DEF InsertEvaluation
    <2>2. row.status \notin Terminal
      BY DEF Terminal
    <2> HIDE DEF row
    <2>3. ASSUME NEW b \in Builds
          PROVE  (b = build[p] /\ evals'[b] = row) \/ (evals'[b] = evals[b])
      BY <2>1, Facts
    <2>4. QED
      BY <2>2, <2>3 DEF Scored, Settled
  <1>3. ASSUME NEW p \in Procs, CompleteEvaluation(p)
        PROVE  Scored'
    <2>1. PICK t \in Terminal, s \in Scores :
              /\ t = "completed" <=> s # "error"
              /\ evals' = [evals EXCEPT ![build[p]] =
                                           [@ EXCEPT !.status = t, !.score = s]]
      BY <1>3 DEF CompleteEvaluation
    <2> DEFINE row == [evals[build[p]] EXCEPT !.status = t, !.score = s]
    <2>2. build[p] \in Builds
      BY <1>3, Facts DEF CompleteEvaluation, BuildStatements
    <2>3. row.status = t /\ row.score = s
      BY <2>2, Facts
    <2>4. evals' = [evals EXCEPT ![build[p]] = row]
      BY <2>1
    <2> HIDE DEF row
    <2>5. ASSUME NEW b \in Builds
          PROVE  (b = build[p] /\ evals'[b] = row) \/ (evals'[b] = evals[b])
      BY <2>4, Facts
    <2>6. QED
      BY <2>1, <2>3, <2>5 DEF Scored, Settled
  <1>4. ASSUME NEW p \in Procs, Creating(p) \/ Building(p) \/ Deciding(p) \/ Closing(p) \/ Crash(p)
        PROVE  UNCHANGED evals
    BY <1>4 DEF Creating, CreateCampaign, AddBrief, ApproveBrief,
       Building, BeginBuild, CheckBuild, CountBuilds, InsertBuild, ProduceCandidate,
       CompleteBuild, BuildRaises, FailBuild, Deciding, BeginDecision, InsertDecision,
       Closing, BeginClose, BeginFinalize, ReadStatus, ReadEvaluations, ReadDecisions,
       WriteStatus, AuditCampaign, Crash, tables
  <1>5. ASSUME NEW p \in Procs, Evaluating(p)
        PROVE  UNCHANGED evals \/ InsertEvaluation(p) \/ CompleteEvaluation(p)
    BY <1>5 DEF Evaluating, BeginEvaluation, ReadIdentity, CountBeforeBinding,
       WriteIdentity, CheckEvaluation, CountEvaluations, tables
  <1>6. CASE UNCHANGED vars
    BY <1>1, <1>6 DEF vars, tables
  <1>7. QED
    BY <1>1, <1>2, <1>3, <1>4, <1>5, <1>6 DEF Next

\* What is joined in the ledger is evaluated here.
LEMMA JoinedEvaluated ==
    ASSUME EvidenceInv, Scored
    PROVE  /\ Evaluated = {b \in Builds : Outcome[b] # "none"}
           /\ \A b \in Builds :
                 /\ evals[b].status = "running" => Outcome[b] = "running"
                 /\ Settled(b) => Outcome[b] = evals[b].score /\ Outcome[b] \in Scores
                 /\ Clean(b) <=> Outcome[b] \in {"eligible", "clean"}
  <1>1. ASSUME NEW b \in Builds
        PROVE  /\ evals[b].status # "none" <=> Outcome[b] # "none"
               /\ evals[b].status = "running" => Outcome[b] = "running"
               /\ Settled(b) => Outcome[b] = evals[b].score /\ Outcome[b] \in Scores
               /\ Clean(b) <=> Outcome[b] \in {"eligible", "clean"}
    <2>1. evals[b].status \in {"none", "running"} \cup Terminal
      BY Facts
    <2>2. Outcome[b] = IF Settled(b) THEN evals[b].score ELSE evals[b].status
      BY DEF Outcome
    <2>3. CASE Settled(b)
      BY <2>1, <2>2, <2>3 DEF Scored, Settled, Scores, Terminal, Clean
    <2>4. CASE ~Settled(b)
      BY <2>1, <2>2, <2>4 DEF Settled, Terminal, Clean
    <2>5. QED
      BY <2>3, <2>4
  <1>2. QED
    BY <1>1 DEF Evaluated

\* A row of evaluation_runs is what one entry of the ledger's outcome depends on.
LEMMA OutcomeOfRow ==
    ASSUME EvidenceInv, NEW b \in Builds, NEW row, evals' = [evals EXCEPT ![b] = row]
    PROVE  Outcome' = [Outcome EXCEPT ![b] =
                          IF row.status \in Terminal THEN row.score ELSE row.status]
  <1>1. \A c \in Builds : evals'[c] = IF c = b THEN row ELSE evals[c]
    BY Facts
  <1>2. Outcome' = [c \in Builds |-> IF evals'[c].status \in Terminal
                                     THEN evals'[c].score ELSE evals'[c].status]
    BY DEF Outcome, Settled
  <1>3. \A c \in Builds : Outcome[c] = IF evals[c].status \in Terminal
                                       THEN evals[c].score ELSE evals[c].status
    BY DEF Outcome, Settled
  <1>4. Outcome = [c \in Builds |-> Outcome[c]]
    BY DEF Outcome
  <1>5. QED
    BY <1>1, <1>2, <1>3, <1>4

\* The ledger counts as the store does.
LEMMA SameCount == \A S : Ledger!Cardinality(S) = Cardinality(S)
  BY DEF Ledger!Cardinality, Cardinality

LEMMA OpenStep ==
    ASSUME NEW p \in Procs, CreateCampaign(p), EvidenceInv
    PROVE  Ledger!Open
  <1>1. PICK k \in Kinds, i \in Identities :
            campaign' = [status |-> "active", kind |-> k,
                         holdout |-> i.holdout, evaluator |-> i.evaluator]
    BY DEF CreateCampaign
  <1>2. Identity' \in [holdout : Holdouts \cup {None}, evaluator : Evaluators \cup {None}]
    BY <1>1 DEF Identity, Identities
  <1>3. campaign.status = "none" /\ campaign'.status = "active"
    BY <1>1 DEF CreateCampaign
  <1>4. UNCHANGED <<brief, Attempts, Outcome, decision>>
    BY DEF CreateCampaign, Attempts, Outcome, Settled
  <1>5. QED
    BY <1>2, <1>3, <1>4 DEF Ledger!Open, Identity, Outcome

LEMMA ProposeStep ==
    ASSUME NEW p \in Procs, AddBrief(p), EvidenceInv
    PROVE  Ledger!Propose \/ UNCHANGED tables
  <1>1. campaign.status # "none"
    BY DEF AddBrief, EvidenceInv, Ready
  <1>2. UNCHANGED <<campaign, builds, artifact, evals, decision>>
    BY DEF AddBrief
  <1>3. UNCHANGED <<campaign.status, Identity, Attempts, Outcome, decision>>
    BY <1>2 DEF Identity, Attempts, Outcome, Settled
  <1>4. CASE brief = "none"
    BY <1>1, <1>3, <1>4 DEF AddBrief, Ledger!Propose, Identity, Outcome
  <1>5. CASE brief # "none"
    BY <1>2, <1>5 DEF AddBrief, tables
  <1>6. QED
    BY <1>4, <1>5

LEMMA ApproveStep ==
    ASSUME NEW p \in Procs, ApproveBrief(p)
    PROVE  Ledger!Approve
  <1>1. UNCHANGED <<campaign.status, Identity, Attempts, Outcome, decision>>
    BY DEF ApproveBrief, Identity, Attempts, Outcome, Settled
  <1>2. QED
    BY <1>1 DEF ApproveBrief, Ledger!Approve, Identity, Outcome

LEMMA AttemptStep ==
    ASSUME NEW p \in Procs, InsertBuild(p), EvidenceInv, SerialInv
    PROVE  \E b \in Builds : Ledger!Attempt(b)
  <1>1. PICK b \in Builds \ Attempts : builds' = [builds EXCEPT ![b] = "running"]
    BY DEF InsertBuild
  <1>2. Attempts' = Attempts \cup {b}
    BY <1>1, Facts DEF Attempts
  <1>3. Open /\ Cardinality(Attempts) < MaxCandidates
    BY DEF InsertBuild, SerialInv, Knows, CountsBuilds
  <1>4. UNCHANGED <<campaign.status, brief, Identity, Outcome, decision>>
    BY DEF InsertBuild, Identity, Outcome, Settled
  <1>5. Ledger!Attempt(b)
    BY SameCount, <1>1, <1>2, <1>3, <1>4 DEF Ledger!Attempt, Identity, Outcome, Open
  <1>6. QED
    BY <1>1, <1>5

\* A build that ends is still an attempt.
LEMMA AttemptStays ==
    ASSUME NEW p \in Procs, CompleteBuild(p) \/ FailBuild(p) \/ ProduceCandidate(p), EvidenceInv
    PROVE  UNCHANGED <<campaign.status, brief, Identity, Attempts, Outcome, decision>>
  <1>1. UNCHANGED <<campaign, brief, evals, decision>>
    BY DEF CompleteBuild, FailBuild, ProduceCandidate
  <1>2. build[p] \in Builds /\ (CompleteBuild(p) \/ FailBuild(p) => builds[build[p]] = "running")
    BY Facts DEF CompleteBuild, FailBuild, ProduceCandidate, BuildStatements, EvidenceInv,
       Owners, BuildOwners
  <1>3. \/ builds' = builds
        \/ /\ builds[build[p]] = "running"
           /\ \E o \in BuildOutcomes \cup {"failed"} : builds' = [builds EXCEPT ![build[p]] = o]
    BY <1>2 DEF CompleteBuild, FailBuild, ProduceCandidate
  <1>4. Attempts' = Attempts
    BY <1>2, <1>3, Facts DEF Attempts, BuildOutcomes
  <1>5. QED
    BY <1>1, <1>4 DEF Identity, Outcome, Settled

LEMMA BindStep ==
    ASSUME NEW p \in Procs, WriteIdentity(p), EvidenceInv, SerialInv, Scored
    PROVE  \/ \E h \in Holdouts : Ledger!Bind("holdout", h)
           \/ \E e \in Evaluators : Ledger!Bind("evaluator", e)
  <1>1. /\ campaign.status = "active" /\ campaign[field[p]] = None /\ Evaluated = {}
        /\ offer[p].holdout # None /\ offer[p].evaluator # None
        /\ field[p] \in {"holdout", "evaluator"} /\ offer[p] \in Identities
    BY Facts DEF WriteIdentity, SerialInv, Knows, BindsIdentity, Binding
  <1>2. {b \in Builds : Outcome[b] # "none"} = {}
    BY <1>1, JoinedEvaluated
  <1>3. UNCHANGED <<brief, Attempts, Outcome, decision>>
    BY DEF WriteIdentity, Attempts, Outcome, Settled
  <1>4. campaign' = [campaign EXCEPT ![field[p]] = offer[p][field[p]]]
    BY DEF WriteIdentity
  <1>5. campaign'.status = campaign.status
    BY <1>1, <1>4, Facts
  <1>6. Identity' = [Identity EXCEPT ![field[p]] = offer[p][field[p]]]
    BY <1>1, <1>4, Facts DEF Identity
  <1>7. Identity[field[p]] = None
    BY <1>1 DEF Identity
  <1>8. Ledger!Bind(field[p], offer[p][field[p]])
    BY <1>1, <1>2, <1>3, <1>5, <1>6, <1>7 DEF Ledger!Bind, Ledger!Joined, Identity, Outcome
  <1>9. offer[p].holdout \in Holdouts /\ offer[p].evaluator \in Evaluators
    BY <1>1 DEF Identities
  <1>10. QED
    BY <1>1, <1>8, <1>9

LEMMA JoinStep ==
    ASSUME NEW p \in Procs, InsertEvaluation(p), EvidenceInv, SerialInv, Scored
    PROVE  (\E b \in Builds : Ledger!Join(b)) \/ UNCHANGED tables
  <1>1. CASE build[p] \in Evaluated
    BY <1>1 DEF InsertEvaluation, tables
  <1>2. CASE build[p] \notin Evaluated
    <2>0. PICK a \in Builds : a = build[p]
      BY Facts DEF InsertEvaluation, BuildStatements
    <2> DEFINE row == [status |-> "running", score |-> "none",
                       holdout |-> offer[p].holdout, evaluator |-> offer[p].evaluator]
    <2>1. /\ evals' = [evals EXCEPT ![a] = row]
          /\ UNCHANGED <<campaign, brief, builds, artifact, decision>>
      BY <1>2, <2>0 DEF InsertEvaluation
    <2>2. row.status = "running" /\ "running" \notin Terminal
      BY DEF Terminal
    <2>3. /\ Open /\ campaign.holdout # None
          /\ Cardinality(Evaluated) < MaxCandidates
      BY DEF InsertEvaluation, SerialInv, Knows, BindsIdentity, Enters, Entering
    <2>4. a \in Builds /\ builds[a] = "ready"
      BY <2>0 DEF InsertEvaluation, EvidenceInv, Ready, EvaluationStatements
    <2>5. a \in Attempts
      BY <2>4 DEF Attempts
    <2> HIDE DEF row
    <2>6. Outcome' = [Outcome EXCEPT ![a] = "running"]
      BY <2>1, <2>2, <2>4, OutcomeOfRow
    <2>7. UNCHANGED <<campaign.status, brief, Identity, Attempts, decision>>
      BY <2>1 DEF Identity, Attempts
    <2>8. Evaluated = {c \in Builds : Outcome[c] # "none"}
      BY JoinedEvaluated
    <2>9. a \notin Evaluated
      BY <1>2, <2>0
    <2>10. Ledger!Join(a)
      BY SameCount, <2>3, <2>5, <2>6, <2>7, <2>8, <2>9 DEF Ledger!Join, Ledger!Joined, Identity, Outcome, Open
    <2>11. QED
      BY <2>10
  <1>3. QED
    BY <1>1, <1>2

LEMMA ConcludeStep ==
    ASSUME NEW p \in Procs, CompleteEvaluation(p), EvidenceInv, Scored
    PROVE  \E b \in Builds : \E s \in Scores : Ledger!Conclude(b, s)
  <1>1. PICK t \in Terminal, s \in Scores :
            evals' = [evals EXCEPT ![build[p]] = [@ EXCEPT !.status = t, !.score = s]]
    BY DEF CompleteEvaluation
  <1> DEFINE b == build[p]
             row == [evals[b] EXCEPT !.status = t, !.score = s]
  <1>2. b \in Builds /\ evals[b].status = "running"
    BY Facts DEF CompleteEvaluation, BuildStatements, EvidenceInv, Owners
  <1>3. row.status = t /\ row.score = s
    BY <1>2, Facts
  <1>4. evals' = [evals EXCEPT ![b] = row]
    BY <1>1
  <1> HIDE DEF row, b
  <1>5. Outcome' = [Outcome EXCEPT ![b] = s]
    BY <1>1, <1>2, <1>3, <1>4, OutcomeOfRow
  <1>6. Outcome[b] = "running"
    BY <1>2, JoinedEvaluated
  <1>7. UNCHANGED <<campaign.status, brief, Identity, Attempts, decision>>
    BY DEF CompleteEvaluation, Identity, Attempts
  <1>8. Ledger!Conclude(b, s)
    BY <1>5, <1>6, <1>7 DEF Ledger!Conclude, Identity, Outcome
  <1>9. QED
    BY <1>2, <1>8

LEMMA DecideStep ==
    ASSUME NEW p \in Procs, InsertDecision(p), EvidenceInv, Scored
    PROVE  \/ \E b \in Builds : \E d \in {"promote", "reject"} : Ledger!Decide(b, d)
           \/ UNCHANGED tables
  <1> DEFINE b == build[p]
             d == choice[p]
  <1>1. UNCHANGED <<campaign, brief, builds, artifact, evals>>
    BY DEF InsertDecision
  <1>2. /\ b \in Builds /\ Settled(b) /\ d \in {"promote", "reject"}
        /\ d = "promote" => Eligible(b)
    BY DEF InsertDecision, EvidenceInv, Decided, TypeInv, LocalsInv, LocalsType, NamesBuild,
       BuildStatements
  <1>3. CASE decision[b] # "none"
    BY <1>1, <1>3 DEF InsertDecision, tables
  <1>4. CASE decision[b] = "none"
    <2>1. decision' = [decision EXCEPT ![b] = d]
      BY <1>4 DEF InsertDecision
    <2>2. Outcome[b] \in Scores /\ (d = "promote" => Outcome[b] = "eligible")
      BY <1>2, JoinedEvaluated DEF Eligible
    <2>3. UNCHANGED <<campaign.status, brief, Identity, Attempts, Outcome>>
      BY <1>1 DEF Identity, Attempts, Outcome, Settled
    <2>4. Ledger!Decide(b, d)
      BY <1>4, <2>1, <2>2, <2>3 DEF Ledger!Decide, Ledger!Scores, Scores, Identity, Outcome
    <2>5. QED
      BY <1>2, <2>4
  <1>5. QED
    BY <1>3, <1>4

LEMMA CloseStep ==
    ASSUME NEW p \in Procs, WriteStatus(p), EvidenceInv, SerialInv, Scored
    PROVE  Ledger!Close
  <1>1. /\ campaign.status = "active" /\ verdict[p] = Verdict(Evaluated)
        /\ Evaluated # {} /\ \A b \in Evaluated : decision[b] # "none"
    BY DEF WriteStatus, SerialInv, Knows, Closes, CloseStatements, EvidenceInv,
       CloseRestsOnDecisions
  <1>2. Evaluated = {b \in Builds : Outcome[b] # "none"}
    BY JoinedEvaluated
  <1>3. campaign' = [campaign EXCEPT !.status = verdict[p]]
    BY DEF WriteStatus
  <1>4. campaign'.status = verdict[p] /\ Identity' = Identity
    BY <1>3, Facts DEF Identity
  <1>5. UNCHANGED <<brief, Attempts, Outcome, decision>>
    BY DEF WriteStatus, Attempts, Outcome, Settled
  <1>6. Verdict(Evaluated) = IF \A b \in Evaluated : Outcome[b] \in {"eligible", "clean"}
                             THEN "completed_clean" ELSE "completed_regression"
    <2>1. \A b \in Evaluated : Clean(b) <=> Outcome[b] \in {"eligible", "clean"}
      BY JoinedEvaluated DEF Evaluated
    <2>2. QED
      BY <2>1 DEF Verdict
  <1>7. QED
    BY <1>1, <1>2, <1>4, <1>5, <1>6 DEF Ledger!Close, Ledger!Joined, Identity, Outcome

\* A step of a command is a step of the ledger, or leaves it as it is.
LEMMA StepsOfLedger ==
    EvidenceInv /\ SerialInv /\ Scored /\ [Next]_vars => [Ledger!Next]_(Ledger!vars)
  <1> SUFFICES ASSUME EvidenceInv, SerialInv, Scored, [Next]_vars
               PROVE  Ledger!Next \/ UNCHANGED <<campaign.status, brief, Identity, Attempts,
                                                 Outcome, decision>>
    BY DEF Ledger!vars, Identity, Outcome
  <1> DEFINE Same == UNCHANGED <<campaign.status, brief, Identity, Attempts, Outcome, decision>>
  <1>1. ASSUME UNCHANGED tables PROVE Same
    BY <1>1 DEF tables, Identity, Attempts, Outcome, Settled
  <1> HIDE DEF Same
  <1>2. ASSUME NEW p \in Procs, Creating(p) PROVE Ledger!Next \/ Same
    BY <1>1, <1>2, OpenStep, ProposeStep, ApproveStep DEF Creating, Ledger!Next
  <1>3. ASSUME NEW p \in Procs, Building(p) PROVE Ledger!Next \/ Same
    <2>1. \/ UNCHANGED tables \/ InsertBuild(p)
          \/ CompleteBuild(p) \/ FailBuild(p) \/ ProduceCandidate(p)
      BY <1>3 DEF Building, BeginBuild, CheckBuild, CountBuilds, BuildRaises
    <2>2. InsertBuild(p) => Ledger!Next
      BY AttemptStep DEF Ledger!Next
    <2>3. CompleteBuild(p) \/ FailBuild(p) \/ ProduceCandidate(p) => Same
      BY AttemptStays DEF Same
    <2>4. QED
      BY <1>1, <2>1, <2>2, <2>3
  <1>4. ASSUME NEW p \in Procs, Evaluating(p) PROVE Ledger!Next \/ Same
    <2>1. \/ UNCHANGED tables \/ WriteIdentity(p)
          \/ InsertEvaluation(p) \/ CompleteEvaluation(p)
      BY <1>4 DEF Evaluating, BeginEvaluation, ReadIdentity, CountBeforeBinding,
         CheckEvaluation, CountEvaluations
    <2>2. WriteIdentity(p) => Ledger!Next
      BY BindStep DEF Ledger!Next
    <2>3. InsertEvaluation(p) => Ledger!Next \/ UNCHANGED tables
      BY JoinStep DEF Ledger!Next
    <2>4. CompleteEvaluation(p) => Ledger!Next
      BY ConcludeStep DEF Ledger!Next, Ledger!Scores, Scores
    <2>5. QED
      BY <1>1, <2>1, <2>2, <2>3, <2>4
  <1>5. ASSUME NEW p \in Procs, Deciding(p) PROVE Ledger!Next \/ Same
    <2>1. UNCHANGED tables \/ InsertDecision(p)
      BY <1>5 DEF Deciding, BeginDecision
    <2>2. InsertDecision(p) => Ledger!Next \/ UNCHANGED tables
      BY DecideStep DEF Ledger!Next
    <2>3. QED
      BY <1>1, <2>1, <2>2
  <1>6. ASSUME NEW p \in Procs, Closing(p) \/ Crash(p) PROVE Ledger!Next \/ Same
    <2>1. UNCHANGED tables \/ WriteStatus(p)
      BY <1>6 DEF Closing, Crash, BeginClose, BeginFinalize, ReadStatus, ReadEvaluations,
         ReadDecisions, AuditCampaign
    <2>2. WriteStatus(p) => Ledger!Next
      BY CloseStep DEF Ledger!Next
    <2>3. QED
      BY <1>1, <2>1, <2>2
  <1>7. ASSUME UNCHANGED vars PROVE Same
    BY <1>1, <1>7 DEF vars
  <1>8. Ledger!Next \/ Same
    BY <1>2, <1>3, <1>4, <1>5, <1>6, <1>7 DEF Next
  <1>9. QED
    BY <1>8 DEF Same

LEMMA InitLedger == Init => Ledger!Init /\ Scored
  <1> SUFFICES ASSUME Init PROVE Ledger!Init /\ Scored
    OBVIOUS
  <1>1. \A b \in Builds : evals[b].status = "none" /\ ~Settled(b)
    BY DEF Init, NoEvaluation, Settled, Terminal
  <1>2. Scored
    BY <1>1 DEF Scored
  <1>3. Outcome = [b \in Builds |-> "none"]
    BY <1>1 DEF Outcome
  <1>4. Attempts = {} /\ Identity = [holdout |-> None, evaluator |-> None]
    BY DEF Init, Attempts, NoCampaign, Identity
  <1>5. campaign.status = "none" /\ brief = "none" /\ decision = [b \in Builds |-> "none"]
    BY DEF Init, NoCampaign
  <1>6. QED
    BY <1>2, <1>3, <1>4, <1>5 DEF Ledger!Init, Identity, Outcome

\* ImplementsLedger: as long as commands do not overlap, however many are killed,
\* every step of the store is one the campaign's ledger allows, or none.
THEOREM KeepsLedger == Spec /\ []Alone => ImplementsLedger
  <1>1. Init => Ledger!Init /\ Scored
    BY InitLedger
  <1>2. EvidenceInv /\ Scored /\ [Next]_vars => Scored'
    BY NextScored
  <1>3. EvidenceInv /\ SerialInv /\ Scored /\ [Next]_vars => [Ledger!Next]_(Ledger!vars)
    BY StepsOfLedger
  <1>4. QED
    BY <1>1, <1>2, <1>3, SerialHolds, PTL DEF Spec, ImplementsLedger, Ledger!Spec

=============================================================================
