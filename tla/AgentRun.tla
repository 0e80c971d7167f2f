------------------------------ MODULE AgentRun ------------------------------
(***************************************************************************)
(* One agent run (runtime/orchestrator.py): the process that opens the run  *)
(* record, allocates a worktree, lets the manager delegate to the managed   *)
(* agents, then checks the worktree itself and settles the status an        *)
(* operator decides by.  The models are not trusted: the manager calls the  *)
(* agents in any order and goes on after any of them has raised.            *)
(*                                                                         *)
(* `at' is where the process is.  An exception unwinds: the agent's finally *)
(* ("leave"), the manager step's finally ("unwind"), run's handler          *)
(* ("abort").  The operator may interrupt it anywhere and it may be killed  *)
(* anywhere.  The audit rows of the run are summed up in `log'.             *)
(***************************************************************************)
EXTENDS Naturals, FiniteSets

CONSTANTS
    Paths,            \* files of the worktree
    Scope,            \* expected_changed_paths: what may be edited
    Litter,           \* files running `make verify' may change
    MaxFiles,         \* MAX_STEP_FILES: files of one edit request
    MaxSteps,         \* max_steps of the manager
    MaxDelegations,   \* bound: calls the manager's code makes in the run
    MaxCalls,         \* max_model_calls of the budget
    MaxTokens,        \* max_prompt_tokens, max_completion_tokens: one sort of token
    Usages,           \* tokens one model call may report
    MaxRequests,      \* requests one prediction may send: the adapter asks again
                      \* in another format, the client tries again
    None              \* no verdict, file, artifact, row, usage

ASSUME AgentRunAssumption ==
    /\ Scope \subseteq Paths /\ Litter \subseteq Paths \ Scope
    /\ {MaxFiles, MaxSteps, MaxDelegations, MaxCalls, MaxTokens, MaxRequests}
          \subseteq Nat \ {0}
    /\ Usages \subseteq Nat
    /\ None \notin Nat \cup {"pass", "fail"}

VARIABLES
    at, raised,    \* where the process is; what it unwinds with
    status,        \* runs.status
    step,          \* steps.status of the manager's step and the last agent's
    job,           \* who is at work, on which files, which are still to write
    tree,          \* the worktree: each file as committed (FALSE) or changed
    violations,    \* ToolContext.scope_violations, shared by all the contexts
    budget,        \* ModelUsageBudget
    held,          \* is a route session open?
    file,          \* REVIEW.json of the run
    verdict,       \* last_review_verdict of the context that reviewed
    log,           \* the audit rows of the run
    left,          \* steps and delegations left to the manager
    made,          \* history: requests sent to the models
    torn,          \* history: a batch stopped between two of its files
    lost           \* history: killed, or raised where nothing catches

rows == <<status, step, log>>
work == <<tree, violations, file, verdict>>
usage == <<budget, held, made>>
vars == <<at, raised, rows, job, work, usage, left, torn, lost>>

-----------------------------------------------------------------------------
(***************************************************************************)
(* State.                                                                  *)
(***************************************************************************)
\* A reader is the explorer or the planner.
Roles == {"orchestrator", "reader", "implementer", "repairer", "reviewer"}
\* "fail" stands for "needs_attention" as well: nothing tells them apart.
Verdicts == {"pass", "fail"}
Settlements == {"no_changes", "failed_verification", "needs_attention",
                "awaiting_approval"}
Terminal == Settlements \cup {"cancelled", "failed"}

Base == [p \in Paths |-> FALSE]
Changed == {p \in Paths : tree[p]}
Trees == [Paths -> BOOLEAN]
Checked == [tree : Trees, passed : BOOLEAN]
Reviewed == [tree : Trees, verdict : Verdicts]

\* The diff artifact, the last verification and review, whether the review is
\* the later of the two, verifications, failed calls of the editor and of any
\* tool, rows of model_metrics, the tokens they report.
EmptyLog == [diff |-> None, verified |-> None, reviewed |-> None, fresh |-> FALSE,
             attempts |-> 0, editErrors |-> FALSE, toolErrors |-> FALSE,
             calls |-> 0, tokens |-> 0]

Nobody == [role |-> "orchestrator", files |-> {}, todo |-> {}, final |-> FALSE]

Unused == [calls |-> 0, tokens |-> 0]
AllLeft == [steps |-> MaxSteps, delegations |-> MaxDelegations]

Init ==
    /\ at = "preflight" /\ raised = "none"
    /\ status = "none" /\ step = [manager |-> "none", agent |-> "none"]
    /\ job = Nobody
    /\ tree = Base /\ violations = {}
    /\ budget = Unused /\ held = FALSE
    /\ file = None /\ verdict = None
    /\ log = EmptyLog
    /\ left = AllLeft
    /\ made = 0 /\ torn = FALSE /\ lost = FALSE

\* The process ends, and what only it remembered is gone.
Gone ==
    /\ at' = "ended"
    /\ job' = Nobody /\ violations' = {} /\ verdict' = None
    /\ budget' = Unused /\ held' = FALSE /\ left' = AllLeft

\* _prediction_usage and normalize_model_response: what a call reports, if it does.
Reports == Usages \cup {None}
Known(u) == IF u = None THEN 0 ELSE u

\* A batch has begun and not ended: some files are written, some are not.
Midway == at = "write" /\ job.todo # job.files

-----------------------------------------------------------------------------
(***************************************************************************)
(* The run's record and its worktree.                                      *)
(***************************************************************************)
\* Attached repositories and the model service; no run exists yet.
Preflight ==
    /\ at = "preflight"
    /\ at' \in {"create", "ended"}
    /\ UNCHANGED <<raised, rows, job, work, usage, left, torn, lost>>

CreateRun ==
    /\ at = "create"
    /\ status' = "created" /\ at' = "context"
    /\ UNCHANGED <<raised, step, log, job, work, usage, left, torn, lost>>

\* set_run_context, before the try: nothing catches what it raises.
SetContext ==
    /\ at = "context"
    /\ \/ at' = "worktree" /\ UNCHANGED lost
       \/ at' = "ended" /\ lost' = TRUE
    /\ UNCHANGED <<raised, rows, job, work, usage, left, torn>>

\* create_worktree, the task file, skills and agents, the manager's step.
Allocate ==
    /\ at = "worktree"
    /\ \/ status' = "running" /\ step' = [step EXCEPT !.manager = "running"]
          /\ at' = "ask" /\ UNCHANGED raised
       \/ status' \in {"created", "running"} /\ UNCHANGED step
          /\ at' = "abort" /\ raised' = "exception"
    /\ UNCHANGED <<log, job, work, usage, left, torn, lost>>

-----------------------------------------------------------------------------
(***************************************************************************)
(* Model calls: the manager's (AuditedModel.generate) and the agents'.       *)
(***************************************************************************)
Manager == job.role = "orchestrator"

\* What a model call or a tool has raised reaches: the manager's own call ends
\* the run, an agent's ends the agent.
Unwinding == IF Manager THEN "unwind" ELSE "leave"
RaiseHere == at' = Unwinding /\ raised' = "exception"

\* mutant: to the manager an exhausted budget is a step that failed
RefusedSwallowed ==
    /\ at = "ask"
    /\ budget.calls >= MaxCalls
    /\ IF Manager THEN at' = "acting" /\ UNCHANGED raised ELSE RaiseHere
    /\ log' = IF Manager THEN log ELSE [log EXCEPT !.calls = @ + 1]
    /\ UNCHANGED <<status, step, job, work, usage, left, torn, lost>>

\* reserve_call refuses: the agent's finally still writes a row of metrics.
Refused ==
    /\ at = "ask"
    /\ budget.calls >= MaxCalls
    /\ RaiseHere
    /\ log' = IF Manager THEN log ELSE [log EXCEPT !.calls = @ + 1]
    /\ UNCHANGED <<status, step, job, work, usage, left, torn, lost>>

Ask ==
    /\ at = "ask"
    /\ budget.calls < MaxCalls
    /\ budget' = [budget EXCEPT !.calls = @ + 1]
    /\ held' = TRUE /\ at' = "answer"
    /\ UNCHANGED <<raised, rows, job, work, made, left, torn, lost>>

Metered(l, u) == [l EXCEPT !.calls = @ + 1, !.tokens = @ + Known(u)]

\* record_usage has raised: usage missing, or more than the budget.
Exceeded(u) == u = None \/ budget.tokens + Known(u) > MaxTokens

\* Where an answer leads: the manager's code runs, a reader is done, edits are
\* applied.
Answered ==
    CASE job.role = "orchestrator" -> "acting"
      [] job.role = "reader" -> "leave"
      [] OTHER -> "apply"

\* What an agent's model returned breaks the contract of its role.
OutputRefused == ~Manager

\* The requests of one reserved call: the manager's model sends one, a prediction
\* as many as its adapter and its client find necessary.
Requested == IF Manager THEN {1} ELSE 1..MaxRequests

Answer ==
    /\ at = "answer"
    /\ held' = FALSE
    /\ \E n \in Requested : made' = made + n
    /\ left' = IF Manager THEN [left EXCEPT !.steps = @ - 1] ELSE left
    /\ \E u \in Reports :
          /\ log' = Metered(log, u)
          /\ budget' = [budget EXCEPT !.tokens = @ + Known(u)]
          /\ \/ Exceeded(u) /\ RaiseHere
             \/ ~Exceeded(u) /\ at' = Answered /\ UNCHANGED raised
             \/ ~Exceeded(u) /\ OutputRefused /\ RaiseHere
    /\ UNCHANGED <<status, step, job, work, torn, lost>>

\* mutant: the route session outlives a call that failed
AnswerFailsHeld ==
    /\ at = "answer"
    /\ UNCHANGED held
    /\ \E n \in {0} \cup Requested : made' = made + n
    /\ log' = Metered(log, None)
    /\ RaiseHere
    /\ UNCHANGED <<status, step, job, work, budget, left, torn, lost>>

\* The service or the provider has failed: no usage, and record_usage is not
\* reached.
AnswerFails ==
    /\ at = "answer"
    /\ held' = FALSE
    /\ \E n \in {0} \cup Requested : made' = made + n
    /\ log' = Metered(log, None)
    /\ RaiseHere
    /\ UNCHANGED <<status, step, job, work, budget, left, torn, lost>>

-----------------------------------------------------------------------------
(***************************************************************************)
(* The manager's code.                                                     *)
(***************************************************************************)
Delegated(role, files, loc) ==
    /\ step' = [step EXCEPT !.agent = "running"]
    /\ job' = [Nobody EXCEPT !.role = role, !.files = files, !.todo = files]
    /\ left' = [left EXCEPT !.delegations = @ - 1]
    /\ at' = loc

CanDelegate == at = "acting" /\ left.delegations > 0
Requests == {f \in SUBSET Paths : Cardinality(f) \in 1..MaxFiles}

DelegateReader ==
    /\ CanDelegate
    /\ Delegated("reader", {}, "ask")
    /\ UNCHANGED <<raised, status, log, work, usage, torn, lost>>

\* _implementer_files, load_editable_files: a request for a file that is missing
\* or protected is refused; one that leaves the scope is a violation as well.  The
\* finally of a refused agent writes its row of metrics all the same.
DelegateImplementer ==
    /\ CanDelegate
    /\ \E files \in Requests, missing \in BOOLEAN :
          LET sound == ~missing /\ files \subseteq Scope
          IN  /\ Delegated("implementer", files, IF sound THEN "ask" ELSE "leave")
              /\ raised' = IF sound THEN raised ELSE "exception"
              /\ log' = IF sound THEN log ELSE Metered(log, None)
              /\ violations' = IF missing THEN violations
                               ELSE violations \cup (files \ Scope)
    /\ UNCHANGED <<status, tree, file, verdict, usage, torn, lost>>

LatestFailed == log.verified # None /\ ~log.verified.passed

\* Paths outside the scope are dropped from a request to the repairer, and others
\* take their place.
RepairerFiles == {f \in Requests : f \subseteq Scope}

DelegateRepairer ==
    /\ CanDelegate
    /\ IF LatestFailed
       THEN /\ \E files \in RepairerFiles : Delegated("repairer", files, "ask")
            /\ UNCHANGED <<raised, log>>
       ELSE /\ Delegated("repairer", {}, "leave")
            /\ raised' = "exception" /\ log' = Metered(log, None)
    /\ UNCHANGED <<status, work, usage, torn, lost>>

DelegateReviewer ==
    /\ CanDelegate
    /\ Delegated("reviewer", {}, "verify")
    /\ UNCHANGED <<raised, status, log, work, usage, torn, lost>>

\* The manager's own run_verification.
ManagerVerifies ==
    /\ CanDelegate
    /\ left' = [left EXCEPT !.delegations = @ - 1]
    /\ at' = "verify"
    /\ UNCHANGED <<raised, rows, job, work, usage, torn, lost>>

\* The step is over (also when its code raised); out of steps, or with a final
\* answer, so is the manager.
EndStep ==
    /\ at = "acting"
    /\ at' \in (IF left.steps > 0 THEN {"ask", "unwind"} ELSE {"unwind"})
    /\ UNCHANGED <<raised, rows, job, work, usage, left, torn, lost>>

-----------------------------------------------------------------------------
(***************************************************************************)
(* The native editor (runtime/editor.py), under apply_prepared_atomic_edits. *)
(***************************************************************************)
EditFailed(l) == [l EXCEPT !.editErrors = TRUE, !.toolErrors = TRUE]

\* parse_edit_payload, load_editable_files, validate_edits: the files a valid
\* batch changes, found before any of them is written.
Batches == (SUBSET job.files) \ {{}}

Apply ==
    /\ at = "apply"
    /\ \/ /\ job.files \subseteq Scope
          /\ \E files \in Batches : job' = [job EXCEPT !.files = files, !.todo = files]
          /\ at' = "write" /\ UNCHANGED <<log, raised>>
       \/ log' = EditFailed(log) /\ RaiseHere /\ UNCHANGED job
    /\ UNCHANGED <<status, step, work, usage, left, torn, lost>>

\* _write_atomically replaces one file; a change may take an earlier one back.
Write ==
    /\ at = "write"
    /\ \E p \in job.todo :
          /\ tree' = [tree EXCEPT ![p] = ~@]
          /\ job' = [job EXCEPT !.todo = @ \ {p}]
          /\ at' = IF job.todo = {p} THEN "inspect" ELSE "write"
    /\ UNCHANGED <<raised, rows, violations, file, verdict, usage, left, torn, lost>>

WriteFails ==
    /\ at = "write"
    /\ log' = EditFailed(log) /\ RaiseHere
    /\ torn' = (torn \/ Midway)
    /\ UNCHANGED <<status, step, job, work, usage, left, lost>>

\* _verify_edit_result: a path once refused is found changed.
Unexpected == Changed \cap violations

Inspect ==
    /\ at = "inspect"
    /\ IF Unexpected = {}
       THEN /\ at' = IF job.role = "repairer" THEN "verify" ELSE "leave"
            /\ UNCHANGED <<log, raised>>
       ELSE log' = EditFailed(log) /\ RaiseHere
    /\ UNCHANGED <<status, step, job, work, usage, left, torn, lost>>

-----------------------------------------------------------------------------
(***************************************************************************)
(* Verification and review.                                                *)
(***************************************************************************)
Verify ==
    /\ at = "verify"
    /\ \E passed \in BOOLEAN, litter \in SUBSET Litter :
          /\ log' = [log EXCEPT !.verified = [tree |-> tree, passed |-> passed],
                                !.attempts = @ + 1, !.fresh = FALSE]
          /\ tree' = [p \in Paths |-> p \in litter \/ tree[p]]
    /\ at' = IF job.final \/ job.role = "reviewer" THEN "review"
             ELSE IF job.role = "repairer" THEN "leave" ELSE "acting"
    /\ UNCHANGED <<raised, status, step, job, violations, file, verdict, usage, left,
                   torn, lost>>

\* The verdict of an earlier review is forgotten, and its file removed.
StartReview ==
    /\ at = "review"
    /\ verdict' = None /\ file' = None
    /\ held' = TRUE /\ at' = "reviewing"
    /\ UNCHANGED <<raised, rows, job, tree, violations, budget, made, left, torn, lost>>

AfterReview == IF job.final THEN "settle" ELSE "leave"

\* What review-diff.py may write: it verifies again and asks the reviewer, if
\* there is anything to review.
Written == IF tree = Base THEN {} ELSE [tree : {tree}, verdict : Verdicts]

\* The subprocess has ended, also without a verdict.
ReviewEnds ==
    /\ at = "reviewing"
    /\ held' = FALSE /\ at' = AfterReview
    /\ file' \in Written \cup {file}
    /\ \E u \in Reports, asked \in 0..MaxRequests :
          /\ file' = file \/ asked > 0
          /\ made' = made + asked
          /\ IF file' = None
             THEN log' = [log EXCEPT !.toolErrors = TRUE] /\ verdict' = None
             ELSE /\ log' = [Metered(log, u) EXCEPT !.reviewed = file', !.fresh = TRUE]
                  /\ verdict' = file'.verdict
    /\ UNCHANGED <<raised, status, step, job, tree, violations, budget, left, torn, lost>>

-----------------------------------------------------------------------------
(***************************************************************************)
(* Ways out.                                                               *)
(***************************************************************************)
\* A repairer whose verification failed.
RepairFailed == job.role = "repairer" /\ LatestFailed

\* The agent's finally; its context goes with it.  A step fails by an Exception or
\* as a repair that did not help; the manager's code may catch the exception, and a
\* later step may follow if it does not.
Leave ==
    /\ at = "leave"
    /\ step' = [step EXCEPT !.agent = IF raised = "exception" \/ RepairFailed
                                      THEN "failed" ELSE "completed"]
    /\ job' = Nobody /\ verdict' = None
    /\ IF raised = "interrupt"
       THEN at' = "unwind" /\ UNCHANGED raised
       ELSE at' = "acting" /\ raised' = "none"
    /\ UNCHANGED <<status, log, tree, violations, file, usage, left, torn, lost>>

\* The finally of the manager's step.
Unwind ==
    /\ at = "unwind"
    /\ step' = [step EXCEPT !.manager =
                   CASE raised = "interrupt" -> "cancelled"
                     [] raised = "exception" -> "failed"
                     [] OTHER -> "completed"]
    /\ at' = IF raised = "none" THEN "diff" ELSE "abort"
    /\ UNCHANGED <<raised, status, log, job, work, usage, left, torn, lost>>

\* inspect_diff; without a diff there is nothing to verify or review.
Diff ==
    /\ at = "diff"
    /\ job' = [Nobody EXCEPT !.final = TRUE]
    /\ IF tree = Base
       THEN at' = "settle" /\ UNCHANGED log
       ELSE at' = "verify" /\ log' = [log EXCEPT !.diff = tree]
    /\ UNCHANGED <<raised, status, step, work, usage, left, torn, lost>>

\* mutant: the calls of the editor that failed are not counted
DetermineForgiving(hasDiff, passed, violated, edited) ==
    CASE ~hasDiff -> IF violated \/ edited THEN "needs_attention" ELSE "no_changes"
      [] hasDiff /\ ~passed -> "failed_verification"
      [] hasDiff /\ passed /\ violated -> "needs_attention"
      [] OTHER -> IF verdict = "pass" THEN "awaiting_approval" ELSE "needs_attention"

\* determine_run_status
Determine(hasDiff, passed, violated, edited) ==
    CASE ~hasDiff -> IF violated \/ edited THEN "needs_attention" ELSE "no_changes"
      [] hasDiff /\ ~passed -> "failed_verification"
      [] hasDiff /\ passed /\ (violated \/ edited) -> "needs_attention"
      [] OTHER -> IF verdict = "pass" THEN "awaiting_approval" ELSE "needs_attention"

Settle ==
    /\ at = "settle"
    /\ status' = Determine(log.diff # None, log.verified # None /\ log.verified.passed,
                           violations # {}, log.editErrors)
    /\ at' = "return"
    /\ UNCHANGED <<raised, step, log, job, work, usage, left, torn, lost>>

Return ==
    /\ at = "return"
    /\ Gone
    /\ UNCHANGED <<raised, rows, tree, file, made, torn, lost>>

\* run's handlers; an interrupt also stops the managed models and goes on.
Abort ==
    /\ at = "abort"
    /\ status' = IF raised = "interrupt" THEN "cancelled" ELSE "failed"
    /\ Gone
    /\ UNCHANGED <<raised, step, log, tree, file, made, torn, lost>>

\* An exception of the orchestrator's own: Git, the file system, the database.
Break ==
    /\ at \in {"diff", "settle"} \/ (job.final /\ at \in {"verify", "review"})
    /\ raised' = "exception" /\ at' = "abort"
    /\ UNCHANGED <<rows, job, work, usage, left, torn, lost>>

-----------------------------------------------------------------------------
(***************************************************************************)
(* The operator, and death.                                                *)
(***************************************************************************)
\* mutant: run's handler catches an Exception only
InterruptedUncaught ==
    IF at \in {"preflight", "create", "context", "abort"} THEN "ended"
    ELSE IF step.agent = "running" /\ at # "leave" THEN "leave"
    ELSE IF step.manager = "running" THEN "unwind" ELSE "ended"

\* Where Ctrl-C is first met: the finally of the agent, of the manager's step,
\* run's handler, or nothing.
Interrupted ==
    IF at \in {"preflight", "create", "context", "abort"} THEN "ended"
    ELSE IF step.agent = "running" /\ at # "leave" THEN "leave"
    ELSE IF step.manager = "running" /\ at # "unwind" THEN "unwind" ELSE "abort"

\* A call under way, or an agent's that is about to be reserved, is measured by the
\* agent's finally, whatever it had sent.  A second Ctrl-C, before the first has
\* unwound, does no more than Kill.
Measured == at = "answer" \/ (at = "ask" /\ ~Manager)

Sent ==
    CASE at = "answer" -> {0} \cup Requested
      [] at = "reviewing" -> 0..MaxRequests
      [] OTHER -> {0}

Interrupt ==
    /\ at # "ended" /\ raised # "interrupt"
    /\ at' = Interrupted /\ raised' = "interrupt"
    /\ lost' = (lost \/ at \in {"context", "abort", "leave", "unwind"})
    /\ held' = FALSE /\ job' = Nobody
    /\ log' = IF Measured THEN Metered(log, None) ELSE log
    /\ \E n \in Sent : made' = made + n
    /\ torn' = (torn \/ Midway)
    /\ UNCHANGED <<status, step, work, budget, left>>

Kill ==
    /\ at # "ended"
    /\ Gone /\ lost' = TRUE
    /\ torn' = (torn \/ Midway)
    /\ UNCHANGED <<raised, rows, tree, file, made>>

-----------------------------------------------------------------------------
(***************************************************************************)
(* What candidate_trajectory_evidence makes of the rows of the run: the      *)
(* failures that keep a candidate build from promotion.                     *)
(***************************************************************************)
RetryLimit == 2

\* mutant: only failed calls of the editor count
TrajectoryFailuresEditor(l, s) ==
    {f \in {"run_not_awaiting_approval", "rejected_editor_attempts", "tool_errors",
            "retry_limit", "final_verification", "final_review",
            "stale_or_missing_review", "model_budget"} :
       CASE f = "run_not_awaiting_approval" -> s # "awaiting_approval"
         [] f \in {"rejected_editor_attempts", "tool_errors"} -> l.editErrors
         [] f = "retry_limit" -> l.attempts > RetryLimit + 1
         [] f = "final_verification" -> l.verified = None \/ ~l.verified.passed
         [] f = "final_review" -> l.reviewed = None \/ l.reviewed.verdict # "pass"
         [] f = "stale_or_missing_review" -> ~l.fresh
         [] f = "model_budget" -> l.calls > MaxCalls \/ l.tokens > MaxTokens}

TrajectoryFailures(l, s) ==
    {f \in {"run_not_awaiting_approval", "rejected_editor_attempts", "tool_errors",
            "retry_limit", "final_verification", "final_review",
            "stale_or_missing_review", "model_budget"} :
       CASE f = "run_not_awaiting_approval" -> s # "awaiting_approval"
         [] f = "rejected_editor_attempts" -> l.editErrors
         [] f = "tool_errors" -> l.toolErrors
         [] f = "retry_limit" -> l.attempts > RetryLimit + 1
         [] f = "final_verification" -> l.verified = None \/ ~l.verified.passed
         [] f = "final_review" -> l.reviewed = None \/ l.reviewed.verdict # "pass"
         [] f = "stale_or_missing_review" -> ~l.fresh
         [] f = "model_budget" -> l.calls > MaxCalls \/ l.tokens > MaxTokens}

Promotable == TrajectoryFailures(log, status) = {}

-----------------------------------------------------------------------------
Delegation ==
    \/ DelegateReader \/ DelegateImplementer \/ DelegateRepairer
    \/ DelegateReviewer \/ ManagerVerifies \/ EndStep

Proceed ==
    \/ Preflight \/ CreateRun \/ SetContext \/ Allocate
    \/ Refused \/ Ask \/ Answer \/ AnswerFails
    \/ Delegation
    \/ Apply \/ Write \/ WriteFails \/ Inspect
    \/ Verify \/ StartReview \/ ReviewEnds
    \/ Leave \/ Unwind \/ Diff \/ Settle \/ Return \/ Abort

Next == Proceed \/ Break \/ Interrupt \/ Kill

Spec == Init /\ [][Next]_vars

\* The process runs: model calls, commands and the manager's code come back.
FairSpec == Spec /\ WF_vars(Proceed)

-----------------------------------------------------------------------------
(***************************************************************************)
(* Properties.                                                             *)
(***************************************************************************)
Locations == {"preflight", "create", "context", "worktree", "ask", "answer",
              "acting", "apply", "write", "inspect", "verify", "review",
              "reviewing", "leave", "unwind", "diff", "settle", "return",
              "abort", "ended"}
StepStates == {"none", "running", "completed", "failed", "cancelled"}

\* The type invariant of a run: locations, rows, worktree, budget and history.
TypeOK ==
    /\ at \in Locations /\ raised \in {"none", "exception", "interrupt"}
    /\ status \in {"none", "created", "running"} \cup Terminal
    /\ step \in [manager : StepStates, agent : StepStates]
    /\ job \in [role : Roles, files : SUBSET Paths, todo : SUBSET Paths, final : BOOLEAN]
    /\ job.todo \subseteq job.files
    /\ tree \in Trees /\ violations \subseteq Paths \ Scope
    /\ budget \in [calls : 0..MaxCalls, tokens : Nat]
    /\ held = (at \in {"answer", "reviewing"})
    /\ file \in Reviewed \cup {None} /\ verdict \in Verdicts \cup {None}
    /\ log.diff \in Trees \cup {None} /\ log.verified \in Checked \cup {None}
    /\ log.reviewed \in Reviewed \cup {None} /\ log.fresh \in BOOLEAN
    /\ {log.attempts, log.calls, log.tokens, made} \subseteq Nat
    /\ log.editErrors => log.toolErrors
    /\ left \in [steps : 0..MaxSteps, delegations : 0..MaxDelegations]
    /\ torn \in BOOLEAN /\ lost \in BOOLEAN

\* Equal in all but what `make verify' may have changed.
Same(t, u) == \A p \in Paths \ Litter : t[p] = u[p]

\* What an operator is offered for approval: the worktree is the one whose diff is
\* on record, which passed the last verification and the review that followed;
\* only approved paths were edited, and no batch of edits was left half applied,
\* whatever the manager let happen in between (orchestrator.py:53, tools.py:481).
ApprovalIsEarned ==
    status = "awaiting_approval" =>
        /\ log.diff # None /\ Same(log.diff, tree)
        /\ log.verified # None /\ log.verified.passed /\ Same(log.verified.tree, tree)
        /\ log.reviewed # None /\ log.reviewed.verdict = "pass"
        /\ Same(log.reviewed.tree, tree)
        /\ Changed \subseteq Scope \cup Litter
        /\ ~torn

\* A build without a trajectory failure sent no more requests than its budget allows
\* predictions to send, though the reviewer's calls are never reserved and a review
\* that failed leaves no row of metrics (outcomes.py:227, models.py:39): the audit
\* counts what the budget did not, but it counts predictions, not requests.
PromotableWithinBudget == Promotable => made <= MaxRequests * MaxCalls

\* A run whose process has ended says how: unless it was killed, or interrupted
\* where nothing catches, its status is terminal and its steps are closed, also
\* when it was interrupted in a model call (orchestrator.py:351).
Settled ==
    at = "ended" /\ ~lost /\ status # "none" =>
        /\ status \in Terminal
        /\ "running" \notin {step.manager, step.agent}
        /\ raised = "interrupt" => status = "cancelled"

\* Every run ends: the manager cannot keep it going past its steps, whatever
\* raises in its agents (orchestrator.py:175).
RunEnds == <>(at = "ended")

=============================================================================
