--------------------------- MODULE CampaignLedger ---------------------------
(***************************************************************************)
(* What an improvement campaign promises its operators: one brief, approved *)
(* before any candidate is built; a bounded number of attempts and          *)
(* evaluations; holdout and evaluator identities that never change once     *)
(* bound; one decision for each concluded evaluation, a promotion only on   *)
(* an eligible scorecard; and a close that comes last and says "clean" only *)
(* of clean evidence.                                                       *)
(***************************************************************************)
EXTENDS Naturals, FiniteSets

CONSTANTS Builds, Holdouts, Evaluators, MaxCandidates, None

VARIABLES
    stage,      \* of the campaign
    brief,      \* of its improvement brief
    identity,   \* the frozen holdout and evaluator
    attempts,   \* the candidate builds reserved
    outcome,    \* outcome[b]: of the evaluation of build b
    decision    \* decision[b]: the actor's decision about it

vars == <<stage, brief, identity, attempts, outcome, decision>>

Scores == {"eligible", "clean", "regressed", "error"}

Joined == {b \in Builds : outcome[b] # "none"}

Init ==
    /\ stage = "none"
    /\ brief = "none"
    /\ identity = [holdout |-> None, evaluator |-> None]
    /\ attempts = {}
    /\ outcome = [b \in Builds |-> "none"]
    /\ decision = [b \in Builds |-> "none"]

\* A campaign opens with whatever identities are frozen at creation.
Open ==
    /\ stage = "none"
    /\ stage' = "active"
    /\ identity' \in [holdout : Holdouts \cup {None},
                      evaluator : Evaluators \cup {None}]
    /\ UNCHANGED <<brief, attempts, outcome, decision>>

Propose ==
    /\ stage # "none" /\ brief = "none"
    /\ brief' = "pending_approval"
    /\ UNCHANGED <<stage, identity, attempts, outcome, decision>>

Approve ==
    /\ brief = "pending_approval"
    /\ brief' = "approved"
    /\ UNCHANGED <<stage, identity, attempts, outcome, decision>>

Attempt(b) ==
    /\ stage = "active" /\ brief = "approved"
    /\ b \notin attempts /\ Cardinality(attempts) < MaxCandidates
    /\ attempts' = attempts \cup {b}
    /\ UNCHANGED <<stage, brief, identity, outcome, decision>>

\* An identity is bound once, and before the first evaluation.
Bind(f, h) ==
    /\ stage = "active" /\ identity[f] = None /\ Joined = {}
    /\ identity' = [identity EXCEPT ![f] = h]
    /\ UNCHANGED <<stage, brief, attempts, outcome, decision>>

Join(b) ==
    /\ stage = "active" /\ brief = "approved" /\ identity.holdout # None
    /\ b \in attempts \ Joined /\ Cardinality(Joined) < MaxCandidates
    /\ outcome' = [outcome EXCEPT ![b] = "running"]
    /\ UNCHANGED <<stage, brief, identity, attempts, decision>>

Conclude(b, s) ==
    /\ outcome[b] = "running"
    /\ outcome' = [outcome EXCEPT ![b] = s]
    /\ UNCHANGED <<stage, brief, identity, attempts, decision>>

Decide(b, d) ==
    /\ outcome[b] \in Scores /\ decision[b] = "none"
    /\ d = "promote" => outcome[b] = "eligible"
    /\ decision' = [decision EXCEPT ![b] = d]
    /\ UNCHANGED <<stage, brief, identity, attempts, outcome>>

Close ==
    /\ stage = "active"
    /\ Joined # {} /\ \A b \in Joined : decision[b] # "none"
    /\ stage' = IF \A b \in Joined : outcome[b] \in {"eligible", "clean"}
                THEN "completed_clean" ELSE "completed_regression"
    /\ UNCHANGED <<brief, identity, attempts, outcome, decision>>

Next ==
    \/ Open \/ Propose \/ Approve \/ Close
    \/ \E h \in Holdouts : Bind("holdout", h)
    \/ \E e \in Evaluators : Bind("evaluator", e)
    \/ \E b \in Builds :
          \/ Attempt(b)
          \/ Join(b)
          \/ \E s \in Scores : Conclude(b, s)
          \/ \E d \in {"promote", "reject"} : Decide(b, d)

Spec == Init /\ [][Next]_vars

=============================================================================
