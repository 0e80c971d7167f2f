------------------------------ MODULE Campaign ------------------------------
(***************************************************************************)
(* One improvement campaign in the SQLite store (runtime/state.py) and the  *)
(* CLI commands that drive it (local-coder.py, evaluation/supervisor.py,    *)
(* evaluation/prompt_evaluator.py, evaluation/prompt_deployment.py):        *)
(* create-campaign, approve-brief, build-candidate, evaluate,               *)
(* record-decision, close-campaign and finalize-prompt-campaign.            *)
(*                                                                         *)
(* Python's sqlite3 opens a transaction at the first INSERT or UPDATE, so   *)
(* every SELECT before it sees the database of its own moment.  A store     *)
(* method that checks and then writes is therefore several steps here, and  *)
(* other processes move in between.  Rows never change back in what the     *)
(* checks ask of them (an approved brief stays approved, a ready build      *)
(* ready), so consecutive SELECTs are one step unless they read something   *)
(* that another process can still change to the checker's disadvantage.     *)
(*                                                                         *)
(* Ctrl-C and crashes end a command between any two steps.  A process is    *)
(* `idle' or at the statement it executes next.                            *)
(***************************************************************************)
EXTENDS Integers, FiniteSets

CONSTANTS
    Procs,          \* processes an operator runs commands in
    Builds,         \* candidate-build ids; an evaluation is known by its build
    Holdouts,       \* identities of external holdouts
    Evaluators,     \* identities of prompt evaluators
    Kinds,          \* kinds of campaign: "source", "prompt-optimization"
    MaxCandidates,  \* max_candidates of the campaign
    None

ASSUME CampaignAssumption ==
    /\ Kinds \subseteq {"source", "prompt-optimization"}
    /\ MaxCandidates \in Nat \ {0}
    /\ IsFiniteSet(Builds)
    /\ None \notin Procs \cup Builds \cup Holdouts \cup Evaluators

VARIABLES
    campaign,  \* the row of evaluation_campaigns
    brief,     \* the status in improvement_briefs (UNIQUE(campaign_id))
    builds,    \* builds[b]: status in candidate_builds, "none" if there is no row
    artifact,  \* artifact[b]: build_outcome in its prompt_candidate artifact
    evals,     \* evals[b]: the row of evaluation_runs with build_id b
    decision,  \* decision[b]: promotion_decisions of that evaluation
    pc,        \* the statement each process executes next
    job,       \* the command it runs
    build,     \* the build, or evaluation, the command is about
    offer,     \* the identities this evaluator computes
    field,     \* the identity it is binding
    choice,    \* the decision it records
    seen,      \* the evaluations close_campaign_from_evidence has read
    verdict    \* the status it derived from them

tables == <<campaign, brief, builds, artifact, evals, decision>>
locals == <<job, build, offer, field, choice, seen, verdict>>
vars == <<tables, pc, locals>>

-----------------------------------------------------------------------------
(***************************************************************************)
(* State.                                                                  *)
(***************************************************************************)

Closed == {"completed_clean", "completed_regression"}

\* The outcome of a finished build: `ready' is candidate_ready of a prompt build
\* and awaiting_approval or needs_attention of a source build; `unfit' is
\* candidate_rejected or no_improvement, and no_changes.
BuildOutcomes == {"ready", "unfit"}

\* What a scorecard says: every gate passed; safety and regression did; one of
\* the two did not; or it is an error record.
Scores == {"eligible", "clean", "regressed", "error"}

Terminal == {"completed", "failed", "budget_exhausted"}

Identities == [holdout : Holdouts \cup {None}, evaluator : Evaluators \cup {None}]

NoCampaign == [status |-> "none", kind |-> "none", holdout |-> None,
               evaluator |-> None]

NoEvaluation == [status |-> "none", score |-> "none", holdout |-> None,
                 evaluator |-> None]

NoOffer == [holdout |-> None, evaluator |-> None]

Statements ==
    {"idle", "add_brief", "build_check", "build_count", "build_insert",
     "building", "build_complete", "build_fail", "bind", "bind_count",
     "bind_write", "eval_check", "eval_count", "eval_insert", "evaluating",
     "decide_insert", "close_read", "close_decisions", "close_write",
     "final_status", "audit"}

Jobs == {"none", "create", "build", "evaluate", "decide", "close", "finalize"}

TablesType ==
    /\ campaign \in [status : {"none", "active"} \cup Closed,
                     kind : Kinds \cup {"none"},
                     holdout : Holdouts \cup {None},
                     evaluator : Evaluators \cup {None}]
    /\ brief \in {"none", "pending_approval", "approved"}
    /\ builds \in [Builds -> {"none", "running", "failed"} \cup BuildOutcomes]
    /\ artifact \in [Builds -> {"none"} \cup BuildOutcomes]
    /\ evals \in [Builds -> [status : {"none", "running"} \cup Terminal,
                             score : {"none"} \cup Scores,
                             holdout : Holdouts \cup {None},
                             evaluator : Evaluators \cup {None}]]
    /\ decision \in [Builds -> {"none", "promote", "reject"}]

LocalsType ==
    /\ pc \in [Procs -> Statements]
    /\ job \in [Procs -> Jobs]
    /\ build \in [Procs -> Builds \cup {None}]
    /\ offer \in [Procs -> Identities]
    /\ field \in [Procs -> {"holdout", "evaluator"}]
    /\ choice \in [Procs -> {"none", "promote", "reject"}]
    /\ seen \in [Procs -> SUBSET Builds]
    /\ verdict \in [Procs -> {"none"} \cup Closed]

TypeOK == TablesType /\ LocalsType

Init ==
    /\ campaign = NoCampaign
    /\ brief = "none"
    /\ builds = [b \in Builds |-> "none"]
    /\ artifact = [b \in Builds |-> "none"]
    /\ evals = [b \in Builds |-> NoEvaluation]
    /\ decision = [b \in Builds |-> "none"]
    /\ pc = [p \in Procs |-> "idle"]
    /\ job = [p \in Procs |-> "none"]
    /\ build = [p \in Procs |-> None]
    /\ offer = [p \in Procs |-> NoOffer]
    /\ field = [p \in Procs |-> "evaluator"]
    /\ choice = [p \in Procs |-> "none"]
    /\ seen = [p \in Procs |-> {}]
    /\ verdict = [p \in Procs |-> "none"]

Prompt == campaign.kind = "prompt-optimization"

Attempts == {b \in Builds : builds[b] # "none"}

Evaluated == {b \in Builds : evals[b].status # "none"}

\* Safety and regression gates passed in a completed evaluation.
Clean(b) == evals[b].status = "completed" /\ evals[b].score \in {"eligible", "clean"}

\* scorecard_allows_promotion
Eligible(b) == evals[b].score = "eligible"

\* The decision the scorecard calls for.
Due(b) == IF Eligible(b) THEN "promote" ELSE "reject"

\* What close_campaign_from_evidence makes of a set of evaluations.
Verdict(B) ==
    IF \A b \in B : Clean(b) THEN "completed_clean" ELSE "completed_regression"

-----------------------------------------------------------------------------
(***************************************************************************)
(* Commands begin, go on to their next statement, and end.                 *)
(***************************************************************************)

Goto(p, l) == pc' = [pc EXCEPT ![p] = l]

Begin(p, j, l) ==
    /\ pc[p] = "idle"
    /\ Goto(p, l)
    /\ job' = [job EXCEPT ![p] = j]

\* The command returns, fails closed, or is killed.
Finish(p) ==
    /\ Goto(p, "idle")
    /\ job' = [job EXCEPT ![p] = "none"]
    /\ build' = [build EXCEPT ![p] = None]
    /\ offer' = [offer EXCEPT ![p] = NoOffer]
    /\ field' = [field EXCEPT ![p] = "evaluator"]
    /\ choice' = [choice EXCEPT ![p] = "none"]
    /\ seen' = [seen EXCEPT ![p] = {}]
    /\ verdict' = [verdict EXCEPT ![p] = "none"]

\* A check: the command goes on, or ends.
Check(p, ok, l) ==
    IF ok THEN Goto(p, l) /\ UNCHANGED locals ELSE Finish(p)

-----------------------------------------------------------------------------
(***************************************************************************)
(* create-campaign and approve-brief.                                      *)
(***************************************************************************)

\* create_campaign commits by itself.  A source campaign freezes its holdout
\* here; a prompt campaign may defer it, and one from before schema version 10
\* has no evaluator identity.
CreateCampaign(p) ==
    /\ campaign.status = "none"
    /\ Begin(p, "create", "add_brief")
    /\ \E k \in Kinds, i \in Identities :
          /\ k = "source" => i.holdout # None /\ i.evaluator = None
          /\ campaign' = [status |-> "active", kind |-> k,
                          holdout |-> i.holdout, evaluator |-> i.evaluator]
    /\ UNCHANGED <<brief, builds, artifact, evals, decision,
                   build, offer, field, choice, seen, verdict>>

AddBrief(p) ==
    /\ pc[p] = "add_brief"
    /\ brief' = IF brief = "none" THEN "pending_approval" ELSE brief
    /\ Finish(p)
    /\ UNCHANGED <<campaign, builds, artifact, evals, decision>>

\* One conditional UPDATE, in one transaction with the INSERT of the approval.
ApproveBrief(p) ==
    /\ pc[p] = "idle"
    /\ brief = "pending_approval"
    /\ brief' = "approved"
    /\ UNCHANGED <<campaign, builds, artifact, evals, decision, pc, locals>>

-----------------------------------------------------------------------------
(***************************************************************************)
(* build-candidate.                                                        *)
(***************************************************************************)

BeginBuild(p) ==
    /\ campaign.status # "none"
    /\ Begin(p, "build", "build_check")
    /\ UNCHANGED <<tables, build, offer, field, choice, seen, verdict>>

\* The campaign is active and its brief approved.
CheckBuild(p) ==
    /\ pc[p] = "build_check"
    /\ Check(p, campaign.status = "active" /\ brief = "approved", "build_count")
    /\ UNCHANGED tables

CountBuildsUpTo(p) ==   \* mutant: `>' in place of `>='
    /\ pc[p] = "build_count"
    /\ Check(p, Cardinality(Attempts) <= MaxCandidates, "build_insert")
    /\ UNCHANGED tables

CountBuilds(p) ==
    /\ pc[p] = "build_count"
    /\ Check(p, Cardinality(Attempts) < MaxCandidates, "build_insert")
    /\ UNCHANGED tables

InsertBuild(p) ==
    /\ pc[p] = "build_insert"
    /\ \E b \in Builds \ Attempts :
          /\ builds' = [builds EXCEPT ![b] = "running"]
          /\ build' = [build EXCEPT ![p] = b]
    /\ Goto(p, "building")
    /\ UNCHANGED <<campaign, brief, artifact, evals, decision,
                   job, offer, field, choice, seen, verdict>>

\* GEPA, or the agent run of a source build, ends; a prompt build stores its
\* candidate with add_candidate_artifact.
ProduceCandidate(p) ==
    /\ pc[p] = "building"
    /\ builds[build[p]] = "running"
    /\ IF Prompt
       THEN \E o \in BuildOutcomes : artifact' = [artifact EXCEPT ![build[p]] = o]
       ELSE UNCHANGED artifact
    /\ Goto(p, "build_complete")
    /\ UNCHANGED <<campaign, brief, builds, evals, decision, locals>>

CompleteBuildUnchecked(p) ==   \* mutant: any status of the run is stored
    /\ pc[p] = "build_complete"
    /\ \E o \in BuildOutcomes \cup {"failed_verification"} :
          /\ Prompt => o = artifact[build[p]]
          /\ builds' = [builds EXCEPT ![build[p]] = o]
    /\ Finish(p)
    /\ UNCHANGED <<campaign, brief, artifact, evals, decision>>

CompleteBuildInTry(p) ==   \* mutant: the report is printed inside the try
    /\ pc[p] = "build_complete"
    /\ \E o \in BuildOutcomes \cup {"failed"} :
          /\ Prompt => o = artifact[build[p]]
          /\ builds' = [builds EXCEPT ![build[p]] = o]
    /\ UNCHANGED <<campaign, brief, artifact, evals, decision, pc, locals>>

\* complete_candidate_build, with the outcome the artifact states, or that of the
\* agent run, which reports a failure of its own as `failed'.
CompleteBuild(p) ==
    /\ pc[p] = "build_complete"
    /\ \E o \in BuildOutcomes \cup {"failed"} :
          /\ Prompt => o = artifact[build[p]]
          /\ builds' = [builds EXCEPT ![build[p]] = o]
    /\ Finish(p)
    /\ UNCHANGED <<campaign, brief, artifact, evals, decision>>

\* An exception while building, storing the artifact or completing.
BuildRaises(p) ==
    /\ pc[p] \in {"building", "build_complete"}
    /\ Goto(p, "build_fail")
    /\ UNCHANGED <<tables, locals>>

FailBuild(p) ==
    /\ pc[p] = "build_fail"
    /\ builds' = [builds EXCEPT ![build[p]] = "failed"]
    /\ Finish(p)
    /\ UNCHANGED <<campaign, brief, artifact, evals, decision>>

-----------------------------------------------------------------------------
(***************************************************************************)
(* evaluate.                                                               *)
(***************************************************************************)

\* The command names a finished build, and its checks ahead of any binding have
\* passed.  The identities are those this process computes from its inputs and
\* its checkout.
BeginEvaluation(p) ==
    /\ Begin(p, "evaluate", IF Prompt THEN "bind" ELSE "eval_check")
    /\ brief = "approved"
    /\ \E b \in Builds, i \in Identities :
          /\ builds[b] = "ready" /\ (Prompt => artifact[b] = "ready")
          /\ i.holdout # None /\ (Prompt <=> i.evaluator # None)
          /\ build' = [build EXCEPT ![p] = b]
          /\ offer' = [offer EXCEPT ![p] = i]
    /\ UNCHANGED <<tables, field, choice, seen, verdict>>

\* Where the evaluation goes when the identity `field' is the campaign's.
Bound(p) ==
    /\ Goto(p, IF field[p] = "evaluator" THEN "bind" ELSE "eval_check")
    /\ field' = [field EXCEPT ![p] = "holdout"]

ReadIdentityRebinds(p) ==   \* mutant: a bound identity may be replaced
    /\ pc[p] = "bind"
    /\ IF campaign.status = "active"
       THEN Goto(p, "bind_count") /\ UNCHANGED locals
       ELSE Finish(p)
    /\ UNCHANGED tables

\* bind_prompt_campaign_evaluator, then bind_prompt_campaign_holdout: SELECT.
ReadIdentity(p) ==
    /\ pc[p] = "bind"
    /\ LET current == campaign[field[p]]
           mine == offer[p][field[p]]
       IN  \/ /\ campaign.status = "active" /\ current = mine
              /\ Bound(p)
              /\ UNCHANGED <<job, build, offer, choice, seen, verdict>>
           \/ /\ campaign.status = "active" /\ current = None
              /\ Goto(p, "bind_count")
              /\ UNCHANGED locals
           \/ /\ campaign.status # "active" \/ current \notin {None, mine}
              /\ Finish(p)
    /\ UNCHANGED tables

CountBeforeBinding(p) ==
    /\ pc[p] = "bind_count"
    /\ Check(p, Evaluated = {}, "bind_write")
    /\ UNCHANGED tables

WriteIdentity(p) ==
    /\ pc[p] = "bind_write"
    /\ campaign' = [campaign EXCEPT ![field[p]] = offer[p][field[p]]]
    /\ Bound(p)
    /\ UNCHANGED <<brief, builds, artifact, evals, decision,
                   job, build, offer, choice, seen, verdict>>

CheckEvaluationAnyHoldout(p) ==   \* mutant: the holdout is not compared
    /\ pc[p] = "eval_check"
    /\ Check(p, /\ campaign.status = "active" /\ brief = "approved"
                /\ builds[build[p]] = "ready"
                /\ Prompt => artifact[build[p]] # "none",
             "eval_count")
    /\ UNCHANGED tables

\* create_evaluation: the campaign is active, its brief approved, the build
\* ready, with its artifact, and the frozen holdout is the one loaded.
CheckEvaluation(p) ==
    /\ pc[p] = "eval_check"
    /\ Check(p, /\ campaign.status = "active" /\ brief = "approved"
                /\ builds[build[p]] = "ready"
                /\ Prompt => artifact[build[p]] # "none"
                /\ campaign.holdout = offer[p].holdout,
             "eval_count")
    /\ UNCHANGED tables

CountEvaluations(p) ==
    /\ pc[p] = "eval_count"
    /\ Check(p, Cardinality(Evaluated) < MaxCandidates, "eval_insert")
    /\ UNCHANGED tables

InsertEvaluationAgain(p) ==   \* mutant: no UNIQUE index on build_id
    /\ pc[p] = "eval_insert"
    /\ evals' = [evals EXCEPT ![build[p]] =
                    [status |-> "running", score |-> "none",
                     holdout |-> offer[p].holdout,
                     evaluator |-> offer[p].evaluator]]
    /\ Goto(p, "evaluating")
    /\ UNCHANGED <<campaign, brief, builds, artifact, decision, locals>>

\* evaluation_runs has a UNIQUE index on build_id.
InsertEvaluation(p) ==
    /\ pc[p] = "eval_insert"
    /\ IF build[p] \in Evaluated
       THEN Finish(p) /\ UNCHANGED evals
       ELSE /\ evals' = [evals EXCEPT ![build[p]] =
                           [status |-> "running", score |-> "none",
                            holdout |-> offer[p].holdout,
                            evaluator |-> offer[p].evaluator]]
            /\ Goto(p, "evaluating")
            /\ UNCHANGED locals
    /\ UNCHANGED <<campaign, brief, builds, artifact, decision>>

\* The paired cases end and complete_evaluation stores the scorecard, or an
\* error record when an EvaluationError (of a prompt evaluation: any Exception)
\* ends them.
CompleteEvaluation(p) ==
    /\ pc[p] = "evaluating"
    /\ \E t \in Terminal, s \in Scores :
          /\ t = "completed" <=> s # "error"
          /\ evals' = [evals EXCEPT ![build[p]] =
                                       [@ EXCEPT !.status = t, !.score = s]]
    /\ Finish(p)
    /\ UNCHANGED <<campaign, brief, builds, artifact, decision>>

-----------------------------------------------------------------------------
(***************************************************************************)
(* record-decision.                                                        *)
(***************************************************************************)

BeginAnyDecision(p) ==   \* mutant: the gates are not tested
    /\ Begin(p, "decide", "decide_insert")
    /\ \E b \in Evaluated, d \in {"promote", "reject"} :
          /\ evals[b].status \in Terminal
          /\ build' = [build EXCEPT ![p] = b]
          /\ choice' = [choice EXCEPT ![p] = d]
    /\ UNCHANGED <<tables, offer, field, seen, verdict>>

\* The evaluation is terminal; a promotion needs every gate passed.
BeginDecision(p) ==
    /\ Begin(p, "decide", "decide_insert")
    /\ \E b \in Evaluated, d \in {"promote", "reject"} :
          /\ evals[b].status \in Terminal
          /\ d = "promote" => Eligible(b)
          /\ build' = [build EXCEPT ![p] = b]
          /\ choice' = [choice EXCEPT ![p] = d]
    /\ UNCHANGED <<tables, offer, field, seen, verdict>>

\* promotion_decisions has a UNIQUE evaluation_id: a second INSERT fails.
InsertDecision(p) ==
    /\ pc[p] = "decide_insert"
    /\ IF decision[build[p]] # "none" THEN UNCHANGED decision
       ELSE decision' = [decision EXCEPT ![build[p]] = choice[p]]
    /\ Check(p, job[p] = "finalize" /\ decision[build[p]] = "none", "final_status")
    /\ UNCHANGED <<campaign, brief, builds, artifact, evals>>

-----------------------------------------------------------------------------
(***************************************************************************)
(* close-campaign: close_campaign_from_evidence.                           *)
(***************************************************************************)

BeginClose(p) ==
    /\ campaign.status # "none"
    /\ Begin(p, "close", "close_read")
    /\ UNCHANGED <<tables, build, offer, field, choice, seen, verdict>>

\* campaign_details reads the campaign and its evaluations ...
ReadEvaluations(p) ==
    /\ pc[p] = "close_read"
    /\ IF campaign.status = "active"
       THEN /\ seen' = [seen EXCEPT ![p] = Evaluated]
            /\ verdict' = [verdict EXCEPT ![p] = Verdict(Evaluated)]
            /\ Goto(p, "close_decisions")
            /\ UNCHANGED <<job, build, offer, field, choice>>
       ELSE Finish(p)
    /\ UNCHANGED tables

ReadNoDecisions(p) ==   \* mutant: undecided evaluations do not matter
    /\ pc[p] = "close_decisions"
    /\ Check(p, seen[p] # {}, "close_write")
    /\ UNCHANGED tables

\* ... and then the decisions about these evaluations: there must be as many.
ReadDecisions(p) ==
    /\ pc[p] = "close_decisions"
    /\ Check(p, seen[p] # {} /\ \A b \in seen[p] : decision[b] # "none",
             "close_write")
    /\ UNCHANGED tables

\* update_campaign_status, unconditionally.
WriteStatus(p) ==
    /\ pc[p] = "close_write"
    /\ campaign' = [campaign EXCEPT !.status = verdict[p]]
    /\ Check(p, job[p] = "finalize", "audit")
    /\ UNCHANGED <<brief, builds, artifact, evals, decision>>

-----------------------------------------------------------------------------
(***************************************************************************)
(* finalize-prompt-campaign: decide, close, audit.                         *)
(***************************************************************************)

FinalizeOnlyUndecided(p) ==   \* mutant: an interrupted finalization is not resumed
    /\ Begin(p, "finalize", "decide_insert")
    /\ Prompt
    /\ \E b \in Builds :
          /\ Evaluated = {b} /\ evals[b].status = "completed"
          /\ decision[b] = "none"
          /\ build' = [build EXCEPT ![p] = b]
          /\ choice' = [choice EXCEPT ![p] = Due(b)]
    /\ UNCHANGED <<tables, offer, field, seen, verdict>>

\* Exactly one evaluation, and it is completed.  The decision the scorecard
\* calls for is recorded unless it has been already.
BeginFinalize(p) ==
    /\ pc[p] = "idle"
    /\ Prompt
    /\ \E b \in Builds :
          /\ Evaluated = {b} /\ evals[b].status = "completed"
          /\ decision[b] \in {"none", Due(b)}
          /\ Begin(p, "finalize", IF decision[b] = "none"
                                  THEN "decide_insert" ELSE "final_status")
          /\ build' = [build EXCEPT ![p] = b]
          /\ choice' = [choice EXCEPT ![p] = Due(b)]
    /\ UNCHANGED <<tables, offer, field, seen, verdict>>

\* An active campaign is closed first, a closed one only audited.
ReadStatus(p) ==
    /\ pc[p] = "final_status"
    /\ Goto(p, IF campaign.status = "active" THEN "close_read" ELSE "audit")
    /\ UNCHANGED <<tables, locals>>

\* audit_campaign reads, and the command reports.
AuditCampaign(p) ==
    /\ pc[p] = "audit"
    /\ Finish(p)
    /\ UNCHANGED tables

-----------------------------------------------------------------------------
\* Ctrl-C or a crash, at any statement; also an exception no handler catches,
\* such as one before the `try' of an evaluation.
Crash(p) ==
    /\ pc[p] # "idle"
    /\ Finish(p)
    /\ UNCHANGED tables

Creating(p) == CreateCampaign(p) \/ AddBrief(p) \/ ApproveBrief(p)

Building(p) ==
    \/ BeginBuild(p) \/ CheckBuild(p) \/ CountBuilds(p) \/ InsertBuild(p)
    \/ ProduceCandidate(p) \/ CompleteBuild(p) \/ BuildRaises(p) \/ FailBuild(p)

Evaluating(p) ==
    \/ BeginEvaluation(p)
    \/ ReadIdentity(p) \/ CountBeforeBinding(p) \/ WriteIdentity(p)
    \/ CheckEvaluation(p) \/ CountEvaluations(p) \/ InsertEvaluation(p)
    \/ CompleteEvaluation(p)

Deciding(p) == BeginDecision(p) \/ InsertDecision(p)

Closing(p) ==
    \/ BeginClose(p) \/ BeginFinalize(p) \/ ReadStatus(p)
    \/ ReadEvaluations(p) \/ ReadDecisions(p) \/ WriteStatus(p)
    \/ AuditCampaign(p)

Next ==
    \E p \in Procs :
        Creating(p) \/ Building(p) \/ Evaluating(p) \/ Deciding(p) \/ Closing(p)
        \/ Crash(p)

Spec == Init /\ [][Next]_vars

\* The statements of a command that has begun.
Progress(p) ==
    \/ AddBrief(p)
    \/ CheckBuild(p) \/ CountBuilds(p) \/ InsertBuild(p)
    \/ ProduceCandidate(p) \/ CompleteBuild(p) \/ FailBuild(p)
    \/ ReadIdentity(p) \/ CountBeforeBinding(p) \/ WriteIdentity(p)
    \/ CheckEvaluation(p) \/ CountEvaluations(p) \/ InsertEvaluation(p)
    \/ CompleteEvaluation(p) \/ InsertDecision(p)
    \/ ReadStatus(p) \/ ReadEvaluations(p) \/ ReadDecisions(p)
    \/ WriteStatus(p) \/ AuditCampaign(p)

\* Every command goes on until it ends or is killed, and an operator repeats
\* finalize-prompt-campaign until none of its statements is killed for ever.
Fairness ==
    \A p \in Procs :
        /\ WF_vars(Progress(p))
        /\ SF_vars(BeginFinalize(p)) /\ SF_vars(InsertDecision(p))
        /\ SF_vars(ReadStatus(p)) /\ SF_vars(ReadEvaluations(p))
        /\ SF_vars(ReadDecisions(p)) /\ SF_vars(WriteStatus(p))

FairSpec == Spec /\ Fairness

-----------------------------------------------------------------------------
(***************************************************************************)
(* audit_campaign (evaluation/audit.py), on the tables.                    *)
(***************************************************************************)

CampaignIdentityOK ==
    campaign.holdout # None /\ (Prompt => campaign.evaluator # None)

BuildsOK ==
    /\ Cardinality(Attempts) \in 1..MaxCandidates
    /\ \A b \in Attempts : builds[b] # "running"
    /\ Prompt => \A b \in Attempts : artifact[b] = builds[b]

EvaluationsOK ==
    /\ Cardinality(Evaluated) \in 1..MaxCandidates
    /\ \A b \in Evaluated :
          /\ builds[b] = "ready"
          /\ evals[b].status \in Terminal
          /\ evals[b].holdout = campaign.holdout
          /\ evals[b].evaluator = campaign.evaluator

DecisionsOK ==
    \A b \in Evaluated :
        /\ decision[b] # "none"
        /\ decision[b] = "promote" => evals[b].status = "completed" /\ Eligible(b)

AuditPasses ==
    /\ CampaignIdentityOK /\ brief = "approved"
    /\ BuildsOK /\ EvaluationsOK /\ DecisionsOK
    /\ campaign.status = Verdict(Evaluated)

-----------------------------------------------------------------------------
(***************************************************************************)
(* Properties that hold however many processes run commands.               *)
(***************************************************************************)

\* "A scorecard can only recommend promotion": a promotion on record rests on
\* a completed evaluation that passed every gate, of a ready build, under an
\* approved brief.
PromotionIsEarned ==
    \A b \in Builds : decision[b] = "promote" =>
        /\ evals[b].status = "completed" /\ Eligible(b)
        /\ builds[b] = "ready"
        /\ brief = "approved"

\* What the evaluation of a prompt build rests on is what the artifact it stored
\* says: an evaluated build is ready, and stays so.
EvaluatedBuildIsReady ==
    \A b \in Evaluated :
        builds[b] = "ready" /\ (Prompt => artifact[b] = "ready")

\* A scorecard is the immutable record of its evaluation: what a process reads
\* of a terminal one to decide or to close stays true.
Settled(b) == evals[b].status \in Terminal

EvidenceIsFinal ==
    [][\A b \in Builds :
          /\ Settled(b) => evals'[b] = evals[b]
          /\ decision[b] # "none" => decision'[b] = decision[b]]_vars

\* Whatever closes a campaign has read at least one evaluation, each decided.
CloseRestsOnDecisions ==
    /\ \A p \in Procs : pc[p] = "close_write" =>
          seen[p] # {} /\ \A b \in seen[p] : decision[b] # "none"
    /\ campaign.status \in Closed => \E b \in Builds : decision[b] # "none"

-----------------------------------------------------------------------------
(***************************************************************************)
(* Properties of one process at a time.                                    *)
(***************************************************************************)

\* "Reserve one bounded candidate-build attempt": the limits of the campaign.
WithinLimits ==
    /\ Cardinality(Attempts) <= MaxCandidates
    /\ Cardinality(Evaluated) <= MaxCandidates

\* "A deferred campaign binds to its first external holdout identity exactly
\* once": no evaluation of the campaign was made against another.
HoldoutBoundOnce ==
    \A b \in Evaluated : evals[b].holdout = campaign.holdout

\* "Closes and audits": a closed campaign passes the audit, unless a build was
\* abandoned or a prompt build failed without the artifact that the audit wants of
\* each of them.
ClosedPassesAudit ==
    /\ campaign.status \in Closed
    /\ \A b \in Attempts : builds[b] # "running" /\ (Prompt => builds[b] # "failed")
    => AuditPasses

\* The store keeps the promises of the campaign.
Ledger == INSTANCE CampaignLedger WITH
    stage <- campaign.status,
    identity <- [holdout |-> campaign.holdout, evaluator |-> campaign.evaluator],
    attempts <- Attempts,
    outcome <- [b \in Builds |->
                   IF Settled(b) THEN evals[b].score ELSE evals[b].status]

ImplementsLedger == Ledger!Spec

\* Wherever finalize-prompt-campaign was killed, running it again closes the
\* campaign, unless a second evaluation was made or somebody recorded a decision
\* the scorecard does not call for.
FinalizationResumes ==
    \A b \in Builds :
        (Prompt /\ campaign.status = "active" /\ evals[b].status = "completed")
        ~> \/ campaign.status \in Closed
           \/ Evaluated # {b}
           \/ decision[b] \notin {"none", Due(b)}

=============================================================================
