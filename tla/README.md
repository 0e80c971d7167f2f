# local-coder: a TLA+ verification development

local-coder is a command-line coding agent that runs on one workstation with
local language models. Python processes started by an operator share three
things: one llama.cpp server at a time (the machine has one GPU), one SQLite
database of runs and improvement campaigns, and a few JSON stores on disk. No
daemon coordinates them. What makes the system hard is therefore what happens
*between* processes: two of them interleave, one is interrupted by Ctrl-C or
dies, a server exits, a disk is full, a worktree moves while it is evaluated.

This directory models those parts in TLA+, checks them with TLC on small
instances and proves the main results with TLAPS for every instance.

## 1. Inventory

| component | source | state | operations | what is hard |
|---|---|---|---|---|
| serial model service | `runtime/model_service.py` | llama-server processes, `switch.lock`, `state.json` | `ensure_route`, `route_session`, `switch_profile`, `stop`, `stop_managed`, Ctrl-C handler | processes compete for one server; stale pids; crashes while a server loads; failed switches and restores |
| state store | `runtime/state.py` | SQLite tables of runs, campaigns, builds, evaluations, decisions | one method per statement group | `sqlite3` opens a transaction only at the first write: each check before it sees another moment |
| campaign commands | `local-coder.py`, `evaluation/supervisor.py`, `evaluation/prompt_evaluator.py`, `evaluation/prompt_deployment.py` | position in a sequence of store calls | `create-campaign`, `approve-brief`, `build-candidate`, `evaluate`, `record-decision`, `close-campaign`, `finalize-prompt-campaign` | killed between two calls; two operators at once |
| campaign audit | `evaluation/audit.py` | none (reads) | `audit_campaign` | must accept what the commands produce, and nothing else |
| prompt activation store | `runtime/prompt_activation.py` | `active/<role>.json`, `history/`, evidence rows | `activate_prompt_candidate`, `rollback_active_prompt` | pointer, history and evidence are three writes; no lock |
| schema migrations | `runtime/migrations.py` | schema, ledger, `user_version` | `migrate` | concurrent openers, crash inside |
| index manager, index lock | `runtime/search/index_manager.py` | lock files, status files, index directories | `build`, `refresh`, `ensure_current`, `status` | stale-lock breaking; record and snapshot read before the lock |
| repository registry | `runtime/search/registry.py` | `registry.json` | `add`, `update`, `remove`, `get` | read-modify-write without a lock |
| run orchestrator | `runtime/orchestrator.py` | one row of `runs`, a Git worktree | `run` | cancellation and failure at any step |
| agents, models | `runtime/agents.py`, `runtime/models.py` | steps, tool calls, a shared usage budget | model calls, tool calls | budgets at their limits |
| tools, editor | `runtime/tools.py`, `runtime/editor.py` | files of a worktree | atomic edits, verification, diff | several files, one failure |
| plans | `runtime/plans.py` | a plan file | validate, run one step | order of steps |
| scorecards, outcomes | `evaluation/scorecard.py`, `evaluation/outcomes.py` | none | lexicographic gates, trajectory evidence | boundaries of the gates |
| miner, prompt campaigns | `evaluation/miner.py`, `evaluation/prompt_campaign.py` | none | brief mining, artifact validation | hash lineage |
| evaluation processes | `evaluation/supervisor.py`, `evaluation/prompt_evaluator.py`, `evaluation/contract_worker.py`, `evaluation/process_guard.py`, `evaluation/manifests.py` | one row of `evaluation_runs`, its cases, budgets | run a pair's schedule, score it, settle the row | budgets that run out in the middle; worktrees that move; rows left running |
| real-task evaluation | `evaluation/real_task_*.py`, `runtime/role_profiles.py` | reports, receipts, protocols, the active profile | collect, compare, reserve, run, complete, claim | one-shot receipts against crashes and retries; stale prompts and commits |
| search backends, routing | rest of `runtime/search/` | external indexes | queries | budgets of the context compiler |
| skills, profiles, DSPy/GEPA, diagnostics | `runtime/skills*.py`, `runtime/*_profiles.py`, `runtime/dspy_programs/`, `runtime/live_e2e*.py`, `runtime/route_*` | configuration and reports | validation, reports, experiments | pure functions or pure I/O |

How they interact: agents call `route_session(route)` of the model service
around every model request. `build-candidate` runs the orchestrator (source
campaigns) or GEPA (prompt campaigns) and records the outcome in the store;
`evaluate` runs the supervisor or the prompt evaluator and records a scorecard;
`finalize-prompt-campaign` decides, closes, audits, and may activate a prompt in
the activation store, which the role programs read.

Correctness of each modelled component, in a sentence: the *model service* must
never change the model under a running request, never stop a server it does not
recognize, never leave two of its own running and never keep its lock; a
*campaign* must promote only what earned it, keep its limits and its frozen
identities, never change evidence once it is used, and close only on decided
evaluations, so that the audit accepts what was closed. A *search* must serve
only what an index of the present files says, and the registry must keep its
records; an *agent run* must offer for approval only the files that were
verified and reviewed, and must end with a terminal status; an *evaluation* must
call eligible only what was better on the whole schedule within every budget; a
*qualification* must put its sealed cases to a subject once, and claim only what
they show.

How the modules meet: `AgentRun` is what `build-candidate` does between
`InsertBuild` and `CompleteBuild` or `FailBuild` of `Campaign`, and its `Promotable` is the
trajectory evidence that `Evaluation` takes as `lineage`; `Evaluation` is what
happens between `InsertEvaluation` and `CompleteEvaluation` of `Campaign`;
`PromptStore` is what `Qualification` reads as `deployed`; `ModelService` holds
the lease under every model call of `AgentRun` (`held`). The modules are checked
apart: each takes the others' outcomes as nondeterministic choices.

`PROJECT.json` lists the hazards, each at its line, with the properties that
would catch it, or why none does yet.

## 2. Modules

| module | what it is |
|---|---|
| `ModelService` | the model service and the world around it |
| `ModelLease` | what it promises: a lease on one model |
| `MCModelService` | instances for TLC |
| `ModelServiceProofs` | theorems |
| `Campaign` | one campaign: tables, commands, audit |
| `CampaignLedger` | what it promises: a ledger of attempts, evaluations and decisions |
| `MCCampaign` | instances for TLC |
| `CampaignProofs` | theorems |
| `PromptStore` | pointer, history and evidence of the active prompt of one role |
| `PromptStack` | what it promises: a stack of activations |
| `MCPromptStore` | instances for TLC |
| `PromptStoreProofs` | theorems |
| `Indexing`, `MCIndexing`, `IndexingProofs` | registry, indexes, index lock and searches; instances; theorems |
| `AgentRun`, `MCAgentRun`, `AgentRunProofs` | one agent run from its record to its status; instances; theorems |
| `Evaluation`, `MCEvaluation`, `EvaluationProofs` | one paired evaluation of a source or prompt candidate; instances; theorems |
| `Qualification`, `MCQualification`, `QualificationProofs` | profile tuning, selection, one-shot holdout, claim; instances; theorems |
| `SumLemmas` | sums over finite sets, for the theorems about scores |

### ModelService

`lock` is the owner of the flock, `state` the contents of `state.json`, `cmd[s]`
and `says[s]` the command line and the reported identity of the llama-server
with pid `s`, `healthy` the one that owns the port. `managed`, a history
variable, is the set of live servers that local-coder launched. The other
variables are a process's program counter and local variables, with the names
they have in the code (`want` is `desired`, `prev` is `previous_profile_id`,
`child` is `started_pid`).

| action | code (`runtime/model_service.py`) |
|---|---|
| `Request`, `Acquire`, `Release`, `InterruptWaiting` | `flock` in `_locked_switch`, `route_session`, `stop`, `stop_managed` |
| `Probe` | `current_identity` in `_switch_locked` and `stop` |
| `AlreadyServing`, `Refuse`, `BeginSwitch`, `BeginStop` | `_discover_server_pid` and the checks after it |
| `FindServer`, `VerifyServer`, `KillServer` | `_stop_active_server`, `_stop_pid` |
| `Launch`, `LaunchFails`, `Record` | `_start_profile`: Popen, then `state.json` |
| `AwaitReady`, `AwaitFails` | `_wait_for_profile` |
| `Undo` | the `except` clause: stop the child, restore the previous profile |
| `CheckRecord`, `KillRecord`, `Unlink` | `_stop_managed_server_locked` |
| `Interrupt`, `Crash` | `KeyboardInterrupt` inside the region, death of the process |
| `ServerReady`, `ServerExit`, `OperatorLaunch` | the environment |

A profile, an identity and a command line are compared only, so all are members
of `Profiles` or the value `Foreign`: a trusted command line is the profile it
belongs to. `Reads(i)` lets a probe of a healthy server come back empty, because
`current_identity` returns `None` on any error of `/health`, a two-second timeout
of a busy server among them. `current_identity` and `_discover_server_pid` are
separate steps: the code makes one after the other. `_discover_server_pid` and
the comparison of the command line that follows it are one step. `status` and
`load_service_config` only read and are not actions.

A pid is not reused while a local-coder process is its parent or is stopping it
(`Free`). The first holds of every Unix kernel (the child is a zombie until it
is reaped); the second leaves out a reuse within the few milliseconds between
a discovery and the signal.

### Campaign

The tables are `campaign` (the row of `evaluation_campaigns`), `brief`,
`builds[b]`, `artifact[b]`, `evals[b]` and `decision[b]`. `UNIQUE` constraints
make a brief unique per campaign, an evaluation per build and a decision per
evaluation, so an evaluation is known by its build. A process is at the
statement it executes next (`pc`).

Python's `sqlite3` (default isolation) starts a transaction at the first INSERT
or UPDATE and not at a SELECT. `create_candidate_build` is therefore
`CheckBuild`, `CountBuilds`, `InsertBuild`; a binding is `ReadIdentity`,
`CountBeforeBinding`, `WriteIdentity`; an evaluation `CheckEvaluation`,
`CountEvaluations`, `InsertEvaluation`, `CompleteEvaluation`; a close
`ReadEvaluations`, `ReadDecisions`, `WriteStatus`. Consecutive SELECTs are one
step where no other process can falsify what they found (an approved brief
stays approved, a ready build ready). `ApproveBrief` is one action: its UPDATE
is conditional and shares a transaction with the INSERT. The read of a
campaign's status in `campaign_details` is merged with that of its evaluations.

Data that no property tells apart is abstracted: a scorecard is `eligible`
(all gates passed), `clean` (safety and regression did), `regressed`, or `error`;
a build outcome is `ready` or `unfit`. Commits, suites, budgets and environment
hashes are compared with the campaign's by the code and fail closed; they never
change after creation, and are left out. Standalone evaluations (no campaign)
are left out. `update_campaign_status(..., "cancelled")` has no caller.

`AuditPasses` is `audit_campaign` on these tables.

### PromptStore

`pointer` is `active/ROLE.json`, `program[a]` and `metadata[a]` are the two files
of `history/a`, `archived` and `latest` the evidence rows (which activations have
one, and what the newest row says is active). Each file is replaced atomically
(`_write_atomic`), so a write is one step and either happens or raises.

| action | code (`runtime/prompt_activation.py`) |
|---|---|
| `BeginActivation`, `RepeatActivation` | the checks up to `read_active_prompt`, the idempotent return |
| `Capture` | the id, the raw pointer, `history.mkdir` |
| `WriteProgram`, `WriteMetadata`, `WritePointer`, `Archive` | the `try` block, write by write |
| `ActivationFails`, `RestorePointer`, `RemoveHistory` | the `except` clause |
| `Report` | what the command prints |
| `BeginRollback`, `FindTarget`, `RollbackRefused` | `rollback_active_prompt` up to the event |
| `MovePointer`, `LogRollback`, `RollbackFails`, `Reinstate` | its `try` and `except` |
| `RestoreFails`, `Crash` | the undo raises too; Ctrl-C (not an `Exception`) or death |

One role is modelled: roles have their own pointers and share only the
namespace of random ids. `Evaluations` are the promoted evaluations of cleanly
closed campaigns, which is what the first checks of an activation accept;
`Campaign` shows that such an evaluation and its decision never change. The
content and hash of a program are the evaluation it belongs to. A pointer and the
history file it names are read in one step, because a history that is found
complete was complete when the pointer was read: files of an id are written once,
before its pointer.

`turns` is chosen at the start of a behaviour: with it the operators start a
command only when none is running. Failures and crashes happen in both cases.

### Indexing

`registry` is `registry.json` (the stamp `last_indexed_commit` of each record),
`zoekt` and `ctags` what the two indexes of the main repository were built from,
`lock` and `temporary` the lock file and the temporary status file, `head` and
`dirt` the worktree. `op[p]` holds what a process has read. `calm` is chosen at
the start: with it, commands take turns and nothing fails or moves under them.

| action | code |
|---|---|
| `ReadRegistry`, `WriteRegistry`, `Update` | `RepositoryRegistry.add`, `remove`, `update`: a read, then `_write` |
| `Enter`, `Acquire`, `Unlink`, `Create`, `Release` | `IndexLock.__enter__` with the breaking of a stale lock, `__exit__` |
| `Wipe`, `IndexZoekt`, `IndexCtags`, `Deferred`, `Stamp`, `Replace` | `IndexManager.build`, in its order |
| `WriteStatus`, `RenameStatus` | `_write_status` |
| `ZoektHits`, `CtagsHits`, `Persistent`, `Serve`, `ServeLive` | `RepositorySearchEngine.search` and the two backends |

The content of an index is the snapshot it was built from; a search's hits are the
snapshots of the indexes it used. `mishaps` records what lets two processes harm
one another: a stale lock broken just as another process created its own
(`robbed`), and two replacements of the registry that overlap (`overlapped`).
The two invariants are claimed without them, and TLC refutes both claims when
the exception is dropped: the code has these races.

### AgentRun

`at` is where the process of one run is, `status` and `step` its rows, `log` the
sum of its audit rows, `tree` the worktree, `budget` the usage budget that all
agents share, `file` the `REVIEW.json`. The model is not trusted: the manager
(smolagents, external) calls the agents in any order and may go on after any of
them raised. The explorer and the planner are one `reader`; `Litter` are files
that running `make verify` may change, and since the code makes no scope check
after a verification these are left to the supervisor's path policy.
Exceptions unwind as in the code: the agent's `finally` (`leave`), the manager
step's (`unwind`), the handler of `run` (`abort`). `lost` marks the runs that
nothing in the code can settle: killed, interrupted again in a handler, or failed
in `set_run_context`, which is outside the `try`. The prompt and completion
budgets are one sort of token.

A reserved call is not a request. The manager's model sends one request per call
(`AuditedModel.generate`); the prediction of an agent sends one to `MaxRequests`
(`Requested`), because DSPy's adapter, which is external, may ask again in another
format and its client may try again, all under one `reserve_call` and one row of
metrics. `made` counts requests, `budget.calls` and `log.calls` what the code counts.
An agent whose request is refused before its call still leaves a row, from its
`finally`.

### Evaluation

`kind` chooses between `supervisor.evaluate_pair` and
`prompt_evaluator.evaluate_prompt_pair`. The schedule is a function of the row
(`Slot`): generation by generation, round by round, case by case; `results` is
what has been persisted so far. `spent` are the budgets used. Time is counted in
units that a process or a prediction uses. `lineage` says what the audit of the
build told (trajectory evidence of a source build, the artifact of a prompt
build). Gates are the scorecards', evaluated in their order on the results.

| action | code |
|---|---|
| `StartSource`, `StartPrompt` | `handle_evaluate`, `_handle_prompt_evaluate` up to the row |
| `Load`, `Crash` | programs and cases loaded after the row; Git in a removed worktree |
| `PathPolicy`, `Sandboxed` | `run_path_policy`; `_run` with `run_contract` or `run_candidate_verification` |
| `Predict`, `PredictionFails`, `CallBlocked` | one case of the prompt schedule and its exceptions |
| `Exhausted`, `Unable` | the budget checks before a case; what becomes an `EvaluationError` |
| `Complete` | the scorecard and `complete_evaluation` |
| `Commit`, `Edit`, `Remove`, `Die` | the operator's worktrees, the process |

A score is 0 or 1 (the code's ratio is only compared and summed), a result's
observation is the expected one, another, or none.

### Qualification

`filed` are the newest reports, `selection` the selection report, `frozen` the
prompts of the holdout protocol, `reserved` and `completed` the receipts,
`opened` (history) how many collections have read the sealed cases for a subject.
Receipts and reports are created by hard link and never replaced, which is the
guard of `Reserve` and `Publish`. A comparison is two steps, as in `_compare`:
`OpenComparison` loads the sealed cases, `CompareHoldout` reads reports and receipts
and decides; a second comparison of the same reports repeats the claim. The
service's build and the environment are folded into the commit, which, like them,
is read before the cases and not after.

A grade is a number of dimensions answered, or `Error`; the rates that the protocol
sets to 1.0 are quantifiers. The code computes with floats and the model with
integers, the totals of the grades. Two means that differ, and do not differ by exactly the
limit they are compared with, compare as their totals do: they are at least a
dimension of one attempt apart, far more than a rounding error. That leaves three
places. The *gain* is compared with a tolerance of 1e-12, so it is exact. The *loss of a case* is
compared without one (`_material_regressions`): where it is exactly the limit, the
rounding of the two scores decides, and the constant `RoundsBeyond` lists per role
the scores before and after that round beyond it. A *tie* in the ranking may go
either way by rounding, and by stability, the least score, spread and latency if
not: `BestProfiles` are all profiles with the best total.

## 3. Runs

| run | expects | what it shows |
|---|---|---|
| `ModelService_safety` | pass | two processes, two profiles, two pids, trusted servers started by hand, failing writes, stuck kills: requests keep their model, nothing unrecognized is stopped, the lease is implemented |
| `ModelService_live` | pass | without disk faults and stuck kills: one managed server, every lease is released, every waiter gets through |
| `ModelService_stranger` | violation | finding 1 |
| `ModelService_diskfull` | violation | finding 2 |
| `Campaign_concurrent` | pass | two processes: promotion, readiness, finality, close |
| `Campaign_serial` | pass | one process: limits, identities, audit, ledger, resumed finalization |
| `PromptStore_commands` | pass | two processes, failing writes, failing undo, crashes: history on record is kept; while operators take turns the store is a stack, its chain can be loaded, evidence names the active prompt |
| `PromptStore_evidence` | violation | finding 3 |
| `Indexing_commands` | pass | two processes, two repositories, edits and commits, missing tools, failing writes, kills: searches serve current hits, the lock excludes, the registry keeps its records, each under the stated condition |
| `AgentRun_run` | pass | one run with every failure, interrupt and kill: approvals are earned, promotable evidence rests on no more requests than its budgeted predictions may send, the run ends and is settled |
| `Evaluation_pair` | pass | one source or prompt evaluation while worktrees move and budgets run out: eligible is earned, the evaluation settles |
| `Qualification_pipeline` | pass | two commands over two profiles, two subjects: the sealed cases are put to a subject once, selections and claims are earned |

**Bounds of ModelService.** Two processes: one that holds the lease and one that
may interfere (every property relates at most two). Two profiles: the
desired one and another. Two pids: `OneManagedServer` and "several servers" need
two at once, and a pid freed by one server is taken by the next, so a stale
`state.json` is reached. Nothing in the module counts, so no bound appears in a
guard. In `ModelService_safety` operators may start any *trusted* command by
hand (`ByHand`), whatever identity it reports; with a foreign command
`NeverStopsUnknown` fails, which is finding 1. In `ModelService_live` the two
fault switches are off because with `WriteFaults` the property fails (finding 2),
and with `StuckKills` a server that survives SIGKILL stays.

**Bounds of Campaign.** `MaxCandidates` is 1 with two builds in the concurrent
run and 2 with three builds in the serial one: one more build id than the limit,
so that a counting error shows. The code draws fresh random ids; in the model
`InsertBuild` needs an unused one, and `Builds` is large enough for every
attempt of the passing serial run. In the concurrent run two processes can both
pass the count (section 4) and reserve both builds. Two holdouts let identities
differ; one evaluator suffices because the code path is that of the holdout.

**Bounds of PromptStore.** Two evaluations (one to replace the other), two
processes, and three activation ids while operators take turns, so that there is a
chain to roll back and a failing activation on top of it; two ids when commands
run concurrently (`Bound`). Ids are not drawn twice (uuid4), so a behaviour ends
when they are used up. Deadlock is not checked: concurrent commands can leave a
pointer whose history is gone, and then every command refuses.

**Bounds of Indexing.** Two processes, two commits, two repositories and one
uncommitted state: a stamp can be wrong in either part, and a record can be lost
to another one's. `Bound`: when commands disturb one another, they index and
register one repository over a worktree at rest and do not search, since
`ServedIsCurrent` is claimed of `calm` behaviours only.

**Bounds of AgentRun.** Three files (two in scope, one that only verification
changes), edits of up to two files, so that a batch can be torn; two manager
steps with three delegations (`MaxDelegations`, which bounds what the manager's
code may do inside a step), enough for edit, verification, repair and review in
any order; three calls; predictions of one or two requests. Tokens are counted by
the budget: a call reports too few to matter, too many at once, or nothing.
`Affordable`: a run is followed up to the call that overspends its tokens; how a run
goes on from an answer that was refused is seen after a call that reports nothing,
which the code refuses in the same place (`Exceeded`).

**Bounds of Evaluation.** One development and one holdout case with one
repetition: eight slots of a source evaluation, four of a prompt's; a second
repetition appends rounds of the same shape. The campaign has two units of time,
a process two, so that the first process can use all of it and a later one be
cut short; six processes are exactly what a source schedule needs; five calls
and five tokens can run out at the last prediction. `Few`: at most two
of these happen: a result is not ok, a worktree is touched while the evaluation
runs, the build's audit tells a flaw.

**Bounds of Qualification.** Two profiles, three visible cases (two of one role)
with two attempts, three sealed cases. An answer has five dimensions, as a
reviewer's (a planner's has six), so that a loss of one is the 0.2 of the
protocols; a case has two or three grades: a failed answer, answers one or two
dimensions apart and the full score, so that each rule is met and missed by one.
The list in `MCRoundsBeyond` is that of IEEE doubles, computed with the code's own
expression (a sum divided by a count, subtracted, compared with -0.2) for every pair of grades of 3 to
5, one and two attempts; for a planner's sixths no loss is exactly 0.2. `Quiet`: while the
visible cases run one command works at a time and each profile is collected once,
because commands on visible cases share no file; a subject whose collection is
complete is not collected again (its reservation refuses); one comparison runs at
a time.

**Symmetry** is used only in the safety runs.

**Fairness of ModelService.** `WF(Progress(p))`: each step under the lease is
bounded in time in the code: HTTP reads by 2 s, kills by the stop timeouts,
start-up by `startup_timeout_seconds`, a model request by the 600 s timeout of
its client. `SF(Acquire(p))`: the kernel queues waiters of a flock. Nothing is
assumed of servers, operators, Ctrl-C or crashes.

**Fairness of Campaign.** `WF(Progress(p))`: a command that has begun goes on
until it ends or is killed. For the statements of `finalize-prompt-campaign`
strong fairness: an operator repeats the command until it is not killed. This is
what `FinalizationResumes` is about (does a repetition carry on?), and is not a
claim about unattended operation.

**Fairness of AgentRun.** `WF(Proceed)`: the process goes on unless it is
interrupted or killed; model calls, verification and review have timeouts, and
the manager has `max_steps`. Its deadlock check is off because a run ends.

**Fairness of Evaluation.** `WF(Step)`: the evaluator goes on unless it is
killed; processes are killed at their timeout and model calls have one. The end
of an evaluation is the end of the behaviour, so deadlock is not checked.

Deadlock is checked in all runs but those of `AgentRun`, `Evaluation` and
`PromptStore`.

## 4. What the checks found

1. *A stranger may be stopped* (`ModelService_stranger`). `_stop_active_server`
   discovers a pid again and stops it without comparing identity or command
   line. `docs/MODEL_SWITCHING.md:43` says an unknown live process is not
   stopped automatically.
2. *Two servers after a full disk* (`ModelService_diskfull`). When writing
   `state.json` raises after Popen, the child's pid is lost, the child is left
   running and the previous profile is launched beside it.
3. *An activation that is never archived* (`PromptStore_evidence`). Killed after
   it replaced the pointer and repeated, `activate_prompt_candidate` finds the
   evaluation active and returns success without adding the evidence row.
   `docs/GEPA_CAMPAIGNS.md:33` says every activation is archived. One process
   suffices.

Three more disagreements between the code and what is written about it show when the
properties of the passing runs are put as the documents put them; TLC then refutes
each on the instance of the run, within two minutes.

- *More requests than the ceiling.* The agents reserve one call and then run a
  prediction that may send several requests (`runtime/agents.py:398-414`), and the
  audit of a build has one row for it. `runtime/models.py:28` calls the budget a
  "Shared hard ceiling across every model route in one candidate build" and line 38
  says "Reserve one request before sending it". `Promotable => made <= MaxCalls` is
  refuted; what the code does keep is `PromotableWithinBudget`, the requests of as many
  predictions as the budget allows.
- *A loss of exactly 0.2.* `_material_regressions`
  (`evaluation/real_task_profile_tuning.py:828`) compares the difference of two float
  means with -0.2 and no tolerance. `0.6 - 0.8` is -0.20000000000000007, so a reviewer
  whose case falls from 0.8 to 0.6 is refused, and one whose case falls from 1.0 to
  0.8 is not. `docs/QWYTHOS_PROFILE_TUNING.md:40` says "no case regression greater than
  0.2", and so does `docs/QWYTHOS_HOLDOUT_QUALIFICATION.md:34` of the claim, where the
  same function decides. `SelectionIsEarned` with `MaxDrop * Repeats` in both its halves
  is refuted, by a case of two attempts from (0.6, 1.0) to (0.6, 0.6). The error is on
  the safe side: no role opens that the documents would refuse (the first half of
  `SelectionIsEarned` and of `ClaimIsEarned`).
- *The comparison opens the sealed cases.* `_compare` loads the holdout
  (`evaluation/real_task_holdout.py:1184`) before it has read a report or a receipt,
  with nothing reserved, as often as it is given. The docstring at line 476 says "Load
  the trusted holdout only after one-shot reservation." That a command at `compare`
  finds some reservation is refuted; `CollectedOnce` is therefore claimed of what is
  put to a subject, and not of what is loaded.

Two races of `Campaign` show when `Campaign_serial`'s properties are checked with
two processes. `bind_prompt_campaign_holdout` (`runtime/state.py:870`) is
SELECT, COUNT, UPDATE without a transaction, so two evaluations bind two holdouts
though the docstring at line 851 says "exactly once" (`HoldoutBoundOnce`). COUNT
and INSERT of `create_candidate_build` (line 659) are not atomic, so two
commands exceed `max_candidates` (`WithinLimits`). The serial run shows that one
process keeps both properties, and `LimitsHold` and `BoundOnce` (section 5) that any
number of processes do whose commands do not overlap.

The three properties of `PromptStore` that assume `turns` fail without it, as TLC
shows when `turns` is dropped from them: two activations that both read the same
previous pointer lose one of the two from the rollback chain; a failing activation
restores the pointer it read at the start over a later one; and when the history of
an activation that failed was meanwhile named as previous, the pointer is left
where activation, rollback and the role programs all refuse it.

Smaller observations that are part of the model: a prompt build that failed or
was abandoned makes every later audit of its campaign fail, which is why
`ClosedPassesAudit` excludes it; two concurrent closers may write different
terminal statuses, and an evaluation may join a campaign while it is being
closed, which is why the ledger refinement is a property of one process; an
evaluation killed while running can be neither decided nor repeated, so its
campaign stays open.

Observed while modelling the other parts; no run stands behind these, each can be
read off the module's actions:

- *Indexing.* The two races named under `mishaps` in section 2.
- *AgentRun.* `runtime/models.py:48` and `docs/HANDOFF.md:244` say that a missing
  usage stops the run. The exception of a managed agent is the manager's to
  swallow, and `outcomes._sum_known` skips rows without usage, so such evidence can
  still be promotable; the reviewer's calls never go through the budget.
  `PromotableWithinBudget` therefore speaks of calls, whose rows the audit does
  count, and of the requests these may send, and not of tokens.
  `_repairer_files` redirects a repair to other files where
  `docs/TASK_PLANS.md` says a request outside the scope is rejected.
- *Evaluation.* Worktrees are checked once: later cases run on what the tree holds
  then, so a verdict on the recorded candidate commit may rest on another (docstring
  `evaluation/supervisor.py:644`). `ModelCallBudgetExceeded` does not mention a
  budget, so an evaluation whose calls ran out is recorded as `failed`
  rather than `budget_exhausted`. The usage of a prediction that raised is never
  added to the totals. Between the row and the `try` of `evaluate_prompt_pair`, an
  error leaves the row `running`.
- *Qualification.* Receipts are keyed by the protocol id: a second id with the same
  payload opens the cases again, although
  `docs/QWYTHOS_HOLDOUT_QUALIFICATION.md` asks for a new payload as well. A prompt
  that is activated and rolled back while the cases run is not noticed.

## 5. Theorems

For any sets of processes, profiles, pids, builds, holdouts, evaluators,
evaluations, activation ids, repositories, files, worktrees, commits, cases and
grades, and any limits. Every module names its assumptions on the constants
(`ModelServiceAssumption`, `CampaignAssumption`, `PromptStoreAssumption`,
`IndexingAssumption`, `AgentRunAssumption`, `EvaluationAssumption` with
`NoneAssumption`, `QualificationAssumption`), and TLC evaluates them in every run.
They say that special values are distinct from real ones, limits are positive
numbers, the sets of builds and of cases are finite, suites are not empty and
sealed cases are not visible ones.

| theorem | states |
|---|---|
| `ModelServiceProofs!TypeCorrect` | `Spec => []TypeOK` |
| `LeaseExclusive` | `Spec => []LeaseInv` |
| `RightModel` | `Spec => []RightModelServes` |
| `LeaseProtects` | `Spec => LeaseProtectsInference` |
| `Refinement` | `Spec => ImplementsLease` |
| `OneServer` | `~WriteFaults /\ ~StuckKills` implies `Spec => []OneManagedServer` |
| `StopsOnlyRecorded` | `Spec => ManagedStopOnlyRecorded` |
| `StopsOnlyKnown` | `ByHand \subseteq Profiles` implies `Spec => NeverStopsUnknown` |
| `CampaignProofs!TypeCorrect` | `Spec => []TypeOK` |
| `Promotion` | `Spec => []PromotionIsEarned` |
| `EvaluatedReady` | `Spec => []EvaluatedBuildIsReady` |
| `ClosesOnDecisions` | `Spec => []CloseRestsOnDecisions` |
| `EvidenceStands` | `Spec => EvidenceIsFinal` |
| `LimitsHold` | `Spec /\ []Alone => []WithinLimits` |
| `BoundOnce` | `Spec /\ []Alone => []HoldoutBoundOnce` |
| `AuditHolds` | `Spec /\ []Alone => []ClosedPassesAudit` |
| `KeepsLedger` | `Spec /\ []Alone => ImplementsLedger` |
| `PromptStoreProofs!TypeCorrect` | `Spec => []TypeOK` |
| `RecordKept` | `Spec => []ArchivedIsKept` |
| `ChainStands` | `Spec => []ChainResolves` |
| `EvidenceTrue` | `Spec => []EvidenceNamesActive` |
| `Refinement` | `Spec => ImplementsStack` |
| `IndexingProofs!TypeCorrect` | `Spec => []TypeOK` |
| `LockExcludes` | `Spec => []LockedApart` |
| `RegistryStands` | `Spec => []RegistryKept` |
| `SearchServesCurrent` | `Spec => []ServedIsCurrent` |
| `AgentRunProofs!TypeCorrect` | `Spec => []TypeOK` |
| `ApprovalEarned` | `Spec => []ApprovalIsEarned` |
| `PromotionWithinBudget` | `Spec => []PromotableWithinBudget` |
| `EndsSettled` | `Spec => []Settled` |
| `EvaluationProofs!TypeCorrect` | `Spec => []TypeOK` |
| `VerdictsEarned` | `Spec => []EligibleIsEarned` |
| `QualificationProofs!TypeCorrect` | `Spec => []TypeOK` |
| `CollectionsOnce` | `Spec => []CollectedOnce` |
| `ClaimsEarned` | `Spec => []ClaimIsEarned` |
| `SelectionsEarned` | `Spec => SelectionIsEarned` |

*The model service.* `TypeOK` alone is not enough: that the right
model serves during `infer` follows from what the process knew when it was about
to launch (nothing it manages is alive), when it awaited its child (the child is
the only managed server) and from the fact that nobody else moves meanwhile. So
the inductive invariant `IInv` adds `LeaseInv` (a process inside the locked
region is the owner of the lock, hence alone) and, for each location of the
region, what holds of the process's variables and of the managed servers there.
Each action of another process is then impossible inside the region, and each
step of the environment only removes managed servers. The refinement maps
`using[p]` to the wanted profile of a process in `infer` and `models` to the
profiles of the managed servers; a switch is a `Switch` of the lease because no
process is then in `infer`. `OneServer` needs both fault switches off, and its
invariant says in addition that a process that is about to launch has no managed
server left.

*What the model service stops.* A managed stop checks the command line of the
recorded pid and signals it afterwards. `RecordInv` says that between the two the
record still stands (only the owner of the lock writes `state.json`) and the pid
runs what was checked or nothing (`Free`: it is not reused). For
`NeverStopsUnknown`, `KnownInv` says that from the first look of a switch until its
end no server with a foreign command line lives. `ByHand \subseteq Profiles` is
needed, and is what finding 1 is about: a stranger that takes the port between the
look and the stop is stopped.

*The campaign.* `EvidenceInv` adds to the types: `Owners` (a build
in status `running`, and an evaluation in status `running`, belongs to at most
one process, the one that inserted it: hence a terminal row has no writer left),
`Ready` (an evaluation rests on a ready build and a build that is ready has no
writer), `Decided` (what a process that decides has read stays true) and
`CloseRestsOnDecisions`. Each is preserved by every statement of every command,
one lemma per conjunct and one step per action.

*The campaign without overlap.* `Alone` says that at most one command is under way;
any number of processes take turns, and each may be killed at any statement.
`[]Alone` is a hypothesis of four theorems because each of the four is false without it:
check and write are separate statements (section 4). Their invariant `SerialInv`
adds what the tables satisfy (`Serial`: the limits, one identity for all
evaluations, artifacts that state the outcome of their build, a closed campaign
whose evaluations are all decided) and what the command under way has read and may
rely on: there is room for the build it counted for (`CountsBuilds`), the identity
it is about to bind is unbound and nothing was evaluated yet (`BindsIdentity`), there
is room for the evaluation and it offers the bound identities (`Enters`), the
evaluations it read are all there are (`Closes`). A killed command leaves the tables
between two of its statements; the second part then says nothing of it, so the first
must hold at each. `ClosedPassesAudit` follows from `EvidenceInv` and the first part.
The refinement takes each statement to a step of `CampaignLedger` or a stutter, one
lemma per step of the ledger.

*The prompt store.* `HistoryInv` says that a history directory
under construction belongs to one process, has no evidence row, and is complete
when its pointer is about to be written; hence no undo removes a directory on
record, whoever runs beside it. `Sequential` holds while operators take turns: at
most one process is busy, so what it read is still what is there, and the
directory it may remove is neither the pointer it will restore nor below any
complete activation. `Stacked` ties the pointer to the history variable
`replaced` at each step of a command; from it every step is `Activate`,
`TakeAway`, `PutBack` or a stutter of `PromptStack`. `RecordInv` says what
the newest evidence row names at each step: the pointer, or, between the write
of the pointer and that of its evidence, the pointer the command had found.

*Indexing.* `LockedApart`: the owner named in the lock file is the only process
that indexes, until a lock that is no longer stale is unlinked as stale
(`robbed`). `RegistryKept`: what a process read of the registry is still what is there when
it replaces it, unless two replacements overlap. For `ServedIsCurrent`, one stamp
stands for two indexes, which are wiped, built and stamped in separate steps that
may each be skipped. `CalmInv` says that the stamp and the indexes agree whenever no
command runs (`Consistent`), and for each phase of the one that does which
of the three it has already brought up to date.

*The agent run.* The agents may be called in any order and may fail anywhere, so
nothing is assumed of the course of a run. `Final` follows the orchestrator's own
last checks in their order: the diff on record is of the tree as it is, and then so
are the verification (`VerificationStands`) and the review (`ReviewStands`), up to the
files only a verification may touch. `TornIsKnown` says that a batch left half
applied is on record as an edit error, or the run ends without being offered.
`Metering` says that the requests sent are at most `MaxRequests` for each row of
the log, or the log holds a tool error (a review, which has no row, may have failed), which
by itself makes the run unfit for promotion, or the run was cut off. An audit that
finds no more rows than the budget allows then bounds the requests.
`Closing` says where a step may be open and a status unsettled while an exception
passes through its handlers.

*The evaluation.* A verdict is computed once and nothing it rests on changes
later, so the invariant is `TypeInv` and the promise itself. The work is in the
gates: they count and add up over all slots of a generation, and the promise is of
single slots. `Periodic` shows that a slot of the candidate and the slot of the
baseline half a round before it are of the same case; a count can then be equal
only when nothing fails (`SourceEarns`), and a sum can grow only at a slot
(`PromptEarns`).

*The qualification.* `OneRun` says that the receipt of a subject names the one process
that collects it and that its cases are put to it once, under that receipt; `Reported`
that a sealed report is that process's collection, whole. A second command, a
restart or a crash finds the receipt. What a claim or a selection says is
computed from reports that are never replaced; `ClaimRule` and `SelectionRule`
show that the counts and sums of the code decide what the documents state
case by case. They do so for any `RoundsBeyond`, about which nothing is assumed: a
role that is named earned it (a loss beyond the limit is always a regression), and
a role that earned it with every loss below the limit is named. That the two cannot
be one equivalence is the second disagreement of section 4; `RegressionsBound` holds the step.

*Sums.* `SumLemmas` proves what a sum over a finite set is when a member is taken out,
when it is compared term by term with another, and when it is renamed. Each
induction there is a smallest counterexample: the sets for which the
fact fails would have a least one.

Every inductive invariant was checked by TLC on the instance of the component's
run before it was proved.

**Only model-checked.** The five liveness properties: `LeaseReleased`,
`RequestResolves`, `FinalizationResumes`, `RunEnds` and `EvaluationSettles`. They rest
on fairness, which the prover does not reason about. All invariants and action properties
of the runs, and the three refinements, are theorems; in the instances of the serial
campaign run, of `ModelService_safety` and of `ModelService_live` the hypotheses
of the theorems with hypotheses hold.

## 6. Plan

Theorems to add: what the migrations and the receipts below promise; that the
step from `Evaluation`'s verdict to `Campaign`'s `Eligible` preserves its meaning
(one composed statement, where section 1 relates the modules in words); which parts
of `SerialInv` survive two commands that overlap only in a read.

Modules to add:

1. `Migrations`: concurrent openers and crashes against an abstract atomic
   upgrade.
2. The activation step of `finalize-prompt-campaign` in `Campaign`: only audited
   campaigns are activated by it, and what `activate-prompt` alone guarantees.
3. The rules that compare route reports (`runtime/route_qualification.py`) and the
   miner's, as operators checked against reference definitions.
4. An abstract ledger of one-shot receipts that `Qualification` implements.

## 7. Not modelled

The text of prompts, diffs, scorecards and reports; hashing; what language models
answer; Git's own operations; external search tools; what runs inside a sandbox.
Without a module: schema migrations (planned), execution plans (validation of a
file the operator wrote, then one run at a time, which is `AgentRun`), the
campaign miner (a pure choice over past runs), diagnostics and route
qualification (sequential scripts that read services and write a report). The
components that are modelled in part, and what of them is left out, are in
`PROJECT.json`.
