----------------------------- MODULE Evaluation -----------------------------
(***************************************************************************)
(* One paired evaluation of a candidate: of a source generation, whose cases *)
(* run in sandboxed processes (evaluation/supervisor.py), or of a prompt,     *)
(* whose cases are answered by the model (evaluation/prompt_evaluator.py).    *)
(* The cases run one by one, baseline first, under budgets of time, processes, *)
(* model calls and tokens; the results pass ordered gates, and the row of the *)
(* evaluation is completed with the outcome.  Campaign models what a campaign *)
(* does with the row.                                                       *)
(*                                                                         *)
(* Meanwhile the worktrees are the operator's: they are checked once, at the  *)
(* start.  A result is written to the database as soon as it is known.        *)
(***************************************************************************)
EXTENDS Integers, Sequences, FiniteSets, FiniteSetsExt, Functions

CONSTANTS
    Commits,            \* commits a worktree may be at
    Descends,           \* the pairs of a commit and one of its ancestors
    Touched,            \* the paths that differ between two commits
    Allowed,            \* paths the candidate may change
    Protected,          \* paths no candidate may change
    Development,        \* the development cases, in order
    Holdout,            \* the holdout cases, in order
    Targets,            \* cases a source candidate must improve
    MaxRepetitions,
    CampaignSeconds, ProcessSeconds, MaxProcesses, MaxCalls, MaxTokens,
    Gone, None

Kinds == {"source", "prompt"}
Generations == {"baseline", "candidate"}
Cases == Development \o Holdout
Visible == Range(Development)
Sealed == Range(Holdout)

ASSUME EvaluationAssumption ==
    /\ Descends \subseteq Commits \X Commits
    /\ \A c \in Commits : <<c, c>> \in Descends
    /\ {CampaignSeconds, ProcessSeconds, MaxProcesses, MaxCalls, MaxTokens,
        MaxRepetitions} \subseteq Nat \ {0}
    /\ Development \in Seq(Visible) \ {<<>>} /\ Holdout \in Seq(Sealed) \ {<<>>}
    /\ Visible \cap Sealed = {}
    /\ Targets # {}

VARIABLES
    kind,       \* what is evaluated
    tree,       \* the worktree of each generation: its commit, whether it is clean
    pc,         \* where the evaluator is
    row,        \* the evaluation row
    lineage,    \* the build of a campaign's candidate, as its audit tells it
    results,    \* the results, in order
    spent       \* what has been used of each budget

vars == <<kind, tree, pc, row, lineage, results, spent>>

------------------------------------------------------------------------------
(* The schedule of the cases.                                                *)

Round == (IF kind = "source" THEN <<"path-policy", "verification">> ELSE <<>>) \o Cases
PerGeneration == row.repetitions * Len(Round)
Scheduled == 2 * PerGeneration

Slot(i) ==
    [generation |-> IF i <= PerGeneration THEN "baseline" ELSE "candidate",
     case |-> Round[((i - 1) % Len(Round)) + 1]]

Turn == Slot(Len(results) + 1)
More == Len(results) < Scheduled

Ours(g) == {i \in DOMAIN results : Slot(i).generation = g}

\* The result the baseline had in the slot of a candidate's result.
Counterpart(i) == results[i - PerGeneration]

------------------------------------------------------------------------------
(* The start.                                                                *)

Init ==
    /\ kind \in Kinds
    /\ tree \in [Generations -> [head : Commits, clean : {TRUE}]]
    /\ pc = "idle"
    /\ row = None
    /\ lineage = None
    /\ results = <<>>
    /\ spent = [seconds |-> 0, processes |-> 0, calls |-> 0, tokens |-> 0, blocked |-> 0]

\* A commit is made or checked out, a file is edited, a worktree is removed.
Commit(g) ==
    /\ tree[g] # Gone
    /\ \E c \in Commits :
         /\ c # tree[g].head
         /\ <<c, tree[g].head>> \in Descends
         /\ tree' = [tree EXCEPT ![g] = [head |-> c, clean |-> TRUE]]
    /\ UNCHANGED <<kind, pc, row, lineage, results, spent>>

Edit(g) ==
    /\ tree[g] # Gone
    /\ tree[g].clean
    /\ tree' = [tree EXCEPT ![g].clean = FALSE]
    /\ UNCHANGED <<kind, pc, row, lineage, results, spent>>

Remove(g) ==
    /\ tree[g] # Gone
    /\ tree' = [tree EXCEPT ![g] = Gone]
    /\ UNCHANGED <<kind, pc, row, lineage, results, spent>>

\* committed_generation and candidate_patch.
CommittedPair ==
    /\ \A g \in Generations : tree[g] # Gone
    /\ \A g \in Generations : tree[g].clean
    /\ <<tree["candidate"].head, tree["baseline"].head>> \in Descends

NewRow(base, cand, n) ==
    [status |-> "running", verdict |-> None, baseline |-> base, candidate |-> cand,
     repetitions |-> n]

\* evaluate_pair: what is evaluated is fixed, and the row is there before the first
\* case runs.
SourceRow(n) ==
    /\ CommittedPair
    /\ row' = NewRow(tree["baseline"].head, tree["candidate"].head, n)
    /\ pc' = "running"

\* handle_evaluate: a campaign's candidate comes with the evidence of its build.
StartSource ==
    /\ kind = "source"
    /\ pc = "idle"
    /\ \E n \in 1 .. MaxRepetitions : SourceRow(n)
    /\ lineage' \in [campaign : BOOLEAN, clean : BOOLEAN, sound : BOOLEAN]
    /\ lineage'.campaign \/ (lineage'.clean /\ lineage'.sound)
    /\ UNCHANGED <<kind, tree, results, spent>>

\* evaluate_prompt_pair: the row is created, and what the predictions need is
\* loaded after that.
PromptRow(n) ==
    /\ row' = NewRow(None, None, n)
    /\ pc' = "loading"

\* _handle_prompt_evaluate: a prompt is always a campaign's.
StartPrompt ==
    /\ kind = "prompt"
    /\ pc = "idle"
    /\ \E n \in 1 .. MaxRepetitions : PromptRow(n)
    /\ lineage' \in [campaign : {TRUE}, clean : BOOLEAN, sound : BOOLEAN]
    /\ UNCHANGED <<kind, tree, results, spent>>

Load ==
    /\ pc = "loading"
    /\ pc' = "running"
    /\ UNCHANGED <<kind, tree, row, lineage, results, spent>>

Lost ==
    /\ pc' = "lost"
    /\ UNCHANGED <<kind, tree, row, lineage, results, spent>>

\* The evaluator is killed.
Die == pc \in {"loading", "running"} /\ Lost

\* An exception that nobody turns into an outcome: what the predictions need does
\* not load, or Git is run in a worktree that is gone.
Crash ==
    /\ \/ pc = "loading"
       \/ /\ pc = "running"
          /\ More
          /\ Turn.case = "path-policy"
          /\ tree[Turn.generation] = Gone
    /\ Lost

------------------------------------------------------------------------------
(* The end of an evaluation that did not run all its cases.                   *)

Settle(status, verdict) ==
    /\ row' = [row EXCEPT !.status = status, !.verdict = verdict]
    /\ pc' = "ended"

\* mutant: only an exhausted budget is written to the row.
StopOnBudget(status) ==
    IF status = "budget_exhausted"
      THEN Settle(status, None)
      ELSE pc' = "ended" /\ UNCHANGED row

\* The handler of EvaluationError and PromptEvaluationError.
Stop(status) == Settle(status, None)

OutOfTime == spent.seconds >= CampaignSeconds
OutOfProcesses == spent.processes >= MaxProcesses

\* A budget is gone before the next case starts.
Exhausted ==
    /\ pc = "running"
    /\ More
    /\ \/ OutOfTime
       \/ kind = "source" /\ OutOfProcesses
    /\ kind = "source" => Turn.case # "path-policy"
    /\ Stop("budget_exhausted")
    /\ UNCHANGED <<kind, tree, lineage, results, spent>>

\* Git does not answer in time or says too much, the sandbox or the project's
\* environment is missing, the model does not report its usage.
Unable ==
    /\ pc = "running"
    /\ More
    /\ Turn.case = "path-policy" => tree[Turn.generation] # Gone
    /\ kind = "prompt" => ~OutOfTime
    /\ \/ Stop("failed")
       \/ Turn.case = "path-policy" /\ Stop("budget_exhausted")
    /\ UNCHANGED <<kind, tree, lineage, results, spent>>

------------------------------------------------------------------------------
(* Source cases.                                                             *)

\* ok: the oracle agrees; policy: no limit was hit; control: nothing malformed.
Result(ok, policy, control, score, seconds) ==
    [ok |-> ok, policy |-> policy, control |-> control, score |-> score,
     seconds |-> seconds]

Report(r) == results' = Append(results, r)

Changed(g) == Touched[tree[g].head, row.baseline]
May(g) == IF g = "candidate" THEN Allowed ELSE {}

\* run_path_policy: the paths the worktree has changed by now.
PathPolicy ==
    LET g == Turn.generation
        clear == Changed(g) \cap Protected = {} /\ Changed(g) \subseteq May(g)
    IN
    /\ kind = "source"
    /\ pc = "running"
    /\ More
    /\ Turn.case = "path-policy"
    /\ tree[g] # Gone
    /\ Report(Result(clear, clear, TRUE, 0, 0))
    /\ UNCHANGED <<kind, tree, pc, row, lineage, spent>>

Timeout == Min({ProcessSeconds, CampaignSeconds - spent.seconds})

\* run_contract: the result of a process that was or was not cut off, said too
\* much, exited with zero, and printed the expected observation, another or none.
Contract(late, verbose, zero, printed, seconds) ==
    LET limits == ~late /\ ~verbose
    IN  Result(limits /\ zero /\ printed = "expected", limits,
               limits /\ zero /\ printed # "garbage", 0, seconds)

\* run_candidate_verification: a verification that fails is a finding.
CandidateVerification(late, verbose, zero, seconds) ==
    LET limits == ~late /\ ~verbose
    IN  Result(limits /\ zero, limits, limits, 0, seconds)

\* _run: the process runs until it ends or is killed at the timeout.
Sandboxed ==
    /\ kind = "source"
    /\ pc = "running"
    /\ More
    /\ Turn.case # "path-policy"
    /\ ~OutOfProcesses
    /\ ~OutOfTime
    /\ \E needed \in 0 .. ProcessSeconds, verbose, zero \in BOOLEAN,
          printed \in {"expected", "other", "garbage"} :
         LET late == needed >= Timeout
             seconds == Min({needed, Timeout})
         IN  /\ late \/ tree[Turn.generation] = Gone => ~zero
             /\ Report(IF Turn.case = "verification"
                         THEN CandidateVerification(late, verbose, zero, seconds)
                         ELSE Contract(late, verbose, zero, printed, seconds))
             /\ spent' = [spent EXCEPT !.seconds = @ + seconds, !.processes = @ + 1]
    /\ UNCHANGED <<kind, tree, pc, row, lineage>>

------------------------------------------------------------------------------
(* Prompt cases.                                                             *)

\* mutant: the budget is looked at once a prediction, not before every call.
CallsOnce(n) ==
    IF spent.calls < MaxCalls
      THEN [spent EXCEPT !.calls = @ + n]
      ELSE [spent EXCEPT !.blocked = @ + 1]

\* ModelCallBudget.consume, called before every model call of a prediction.
Calls(n) ==
    IF spent.calls + n <= MaxCalls
      THEN [spent EXCEPT !.calls = @ + n]
      ELSE [spent EXCEPT !.calls = MaxCalls, !.blocked = @ + 1]

Predicting ==
    /\ kind = "prompt"
    /\ pc = "running"
    /\ More
    /\ ~OutOfTime
    /\ UNCHANGED <<kind, tree, lineage>>

\* predict: the model answers within the call budget, and its usage is counted
\* once it is known; a total above the limit ends the evaluation.
Predict ==
    \E n \in 1 .. 2, t \in 1 .. 2, s \in 0 .. ProcessSeconds, ok \in BOOLEAN, score \in 0 .. 1 :
      LET used == [Calls(n) EXCEPT !.tokens = @ + t, !.seconds = @ + s] IN
      /\ n <= t
      /\ Predicting
      /\ used.blocked = spent.blocked
      /\ spent' = used
      /\ IF used.tokens > MaxTokens
           THEN Stop("budget_exhausted") /\ UNCHANGED results
           ELSE Report(Result(ok, ok, TRUE, score, s)) /\ UNCHANGED <<pc, row>>

\* The program raises: the prediction scores nothing, and its usage is unknown.
PredictionFails ==
    \E n \in 1 .. 2, s \in 0 .. ProcessSeconds :
      /\ Predicting
      /\ spent' = [Calls(n) EXCEPT !.seconds = @ + s]
      /\ Report(Result(FALSE, FALSE, TRUE, 0, s))
      /\ UNCHANGED <<pc, row>>

\* The call budget stops the program; its message does not name a budget.
CallBlocked ==
    \E n \in 1 .. 2 :
      /\ Predicting
      /\ spent' = Calls(n)
      /\ spent'.blocked > spent.blocked
      /\ Stop("failed")
      /\ UNCHANGED results

------------------------------------------------------------------------------
(* The scorecard.                                                            *)

Seconds(S) == SumFunctionOnSet([i \in S |-> results[i].seconds], S)
Scored(g, cases) ==
    LET S == {i \in Ours(g) : Slot(i).case \in cases}
    IN  SumFunctionOnSet([i \in S |-> results[i].score], S)
Passes(g, cases) == Cardinality({i \in Ours(g) : Slot(i).case \in cases /\ results[i].ok})

Safety ==
    IF kind = "source" THEN \A i \in Ours("candidate") : results[i].policy
                       ELSE lineage.sound

Correctness == \A i \in Ours("candidate") : results[i].ok

NoPassIsLost == \A i \in Ours("candidate") : Counterpart(i).ok => results[i].ok
NoSealedScoreFalls ==
    \A i \in Ours("candidate") :
        Slot(i).case \in Sealed => results[i].score >= Counterpart(i).score
Regression == IF kind = "source" THEN NoPassIsLost ELSE NoSealedScoreFalls

ProcessesBehaved ==
    /\ \A i \in Ours("candidate") : results[i].control
    /\ lineage.campaign => lineage.clean
CallsWereGranted == spent.calls <= MaxCalls /\ spent.blocked = 0 /\ spent.tokens <= MaxTokens
Control ==
    IF kind = "source" THEN ProcessesBehaved ELSE CallsWereGranted /\ lineage.clean

\* mutant: a candidate that does no worse on the whole is an improvement.
ImprovementAtLeast ==
    IF kind = "source"
      THEN Passes("candidate", Targets) >= Passes("baseline", Targets)
      ELSE Scored("candidate", Visible) >= Scored("baseline", Visible)

Improvement ==
    IF kind = "source"
      THEN Passes("candidate", Targets) > Passes("baseline", Targets)
      ELSE Scored("candidate", Visible) > Scored("baseline", Visible)

Efficiency ==
    IF kind = "source"
      THEN /\ Seconds(Ours("candidate")) <= CampaignSeconds
           /\ Cardinality(Ours("candidate")) <= MaxProcesses
           /\ lineage.campaign => lineage.sound
      ELSE Seconds(DOMAIN results) <= CampaignSeconds /\ spent.calls <= MaxCalls

\* The gates in their order, and the first that does not open.
Gates == <<"safety", "correctness", "regression", "control", "improvement", "efficiency">>
Open(gate) ==
    CASE gate = "safety" -> Safety
      [] gate = "correctness" -> Correctness
      [] gate = "regression" -> Regression
      [] gate = "control" -> Control
      [] gate = "improvement" -> Improvement
      [] gate = "efficiency" -> Efficiency

Recommendation ==
    LET closed == {i \in DOMAIN Gates : ~Open(Gates[i])}
    IN  IF closed = {} THEN "eligible_for_promotion" ELSE Gates[Min(closed)]

Complete ==
    /\ pc = "running"
    /\ ~More
    /\ Settle("completed", Recommendation)
    /\ UNCHANGED <<kind, tree, lineage, results, spent>>

------------------------------------------------------------------------------
Step ==
    \/ Load \/ Crash \/ Exhausted \/ Unable \/ PathPolicy \/ Sandboxed
    \/ Predict \/ PredictionFails \/ CallBlocked \/ Complete

World == \E g \in Generations : kind = "source" /\ (Commit(g) \/ Edit(g) \/ Remove(g))

Next == StartSource \/ StartPrompt \/ Step \/ Die \/ World

Spec == Init /\ [][Next]_vars

\* An evaluator that is not killed goes on; every process and every call it waits
\* for has a timeout.
FairSpec == Spec /\ WF_vars(Step)

------------------------------------------------------------------------------
(* Properties.                                                               *)

Verdicts == Range(Gates) \cup {"eligible_for_promotion"}
Row ==
    [status : {"running", "completed", "failed", "budget_exhausted"},
     verdict : Verdicts \cup {None},
     baseline : Commits \cup {None}, candidate : Commits \cup {None},
     repetitions : 1 .. MaxRepetitions]
Lineage == [campaign : BOOLEAN, clean : BOOLEAN, sound : BOOLEAN]

ASSUME NoneAssumption == None \notin Row \cup Lineage \cup Verdicts

\* The evaluator works on a running row and leaves it only with an outcome, unless
\* it is lost; a verdict is given exactly to a completed row, and no budget of
\* time, processes or calls is ever overdrawn by more than the model's last answer.
TypeOK ==
    /\ kind \in Kinds
    /\ \A g \in Generations : tree[g] # Gone => tree[g] \in [head : Commits, clean : BOOLEAN]
    /\ pc \in {"idle", "loading", "running", "ended", "lost"}
    /\ pc = "idle" <=> row = None
    /\ row = None <=> lineage = None
    /\ row # None =>
         /\ row \in Row
         /\ lineage \in Lineage
         /\ Len(results) <= Scheduled
         /\ row.status = "completed" <=> row.verdict # None
         /\ pc \in {"loading", "running", "lost"} => row.status = "running"
    /\ \A i \in DOMAIN results :
         results[i] \in [ok : BOOLEAN, policy : BOOLEAN, control : BOOLEAN, score : 0 .. 1,
                         seconds : 0 .. ProcessSeconds]
    /\ spent.seconds <= CampaignSeconds + IF kind = "prompt" THEN ProcessSeconds ELSE 0
    /\ spent.processes <= MaxProcesses
    /\ spent.calls <= MaxCalls
    /\ spent.tokens <= MaxTokens + 2

\* What "eligible_for_promotion" promises of a source candidate: each case of both
\* generations ran, the candidate kept every limit and passed every case, some
\* target failed before and passes now, its changes were seen to stay within the
\* approved paths, and the whole pair kept the budget.
SourceIsBetter ==
    LET n == PerGeneration
        sees(i) == results[n + i]
    IN  /\ Len(results) = 2 * n
        /\ \A i \in 1 .. n : sees(i).ok /\ sees(i).policy /\ sees(i).control
        /\ \E i \in 1 .. n : Slot(i).case \in Targets /\ ~results[i].ok
        /\ spent.seconds <= CampaignSeconds
        /\ spent.processes <= MaxProcesses
        /\ lineage.campaign => lineage.clean /\ lineage.sound

\* What it promises of a prompt: valid answers everywhere, no sealed case worse,
\* the visible ones better, and no call or token beyond what was granted.
PromptIsBetter ==
    LET n == PerGeneration
        gain == [i \in 1 .. n |-> results[n + i].score - results[i].score]
        visible == {i \in 1 .. n : Slot(i).case \in Visible}
    IN  /\ Len(results) = 2 * n
        /\ \A i \in 1 .. n : results[n + i].ok /\ (i \notin visible => gain[i] >= 0)
        /\ SumFunctionOnSet(gain, visible) > 0
        /\ spent.blocked = 0 /\ spent.tokens <= MaxTokens
        /\ Seconds(1 .. 2 * n) <= CampaignSeconds
        /\ lineage.clean /\ lineage.sound

\* An evaluation recommends a candidate only when it is better on the evidence of
\* the whole schedule and every budget was kept; a candidate that is not is never
\* called eligible, whatever was cut off, blocked, moved or removed on the way.
EligibleIsEarned ==
    row # None =>
        (row.verdict = "eligible_for_promotion" =>
            IF kind = "source" THEN SourceIsBetter ELSE PromptIsBetter)

\* An evaluation that started gets an outcome, unless its evaluator is lost.
EvaluationSettles ==
    (pc \in {"loading", "running"}) ~>
        (pc = "lost" \/ (row # None /\ (row # None => row.status # "running")))
==============================================================================
