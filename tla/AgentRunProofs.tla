--------------------------- MODULE AgentRunProofs ---------------------------
(***************************************************************************)
(* Theorems about AgentRun for any files, scope, budget and number of steps  *)
(* and delegations.                                                        *)
(***************************************************************************)
EXTENDS AgentRun, TLAPS

-----------------------------------------------------------------------------
(***************************************************************************)
(* Type correctness.                                                       *)
(***************************************************************************)

Jobs == [role : Roles, files : SUBSET Paths, todo : SUBSET Paths, final : BOOLEAN]

Logs ==
    [diff : Trees \cup {None}, verified : Checked \cup {None},
     reviewed : Reviewed \cup {None}, fresh : BOOLEAN, attempts : Nat,
     editErrors : BOOLEAN, toolErrors : BOOLEAN, calls : Nat, tokens : Nat]

ProcessType ==
    /\ at \in Locations /\ raised \in {"none", "exception", "interrupt"}
    /\ status \in {"none", "created", "running"} \cup Terminal
    /\ step \in [manager : StepStates, agent : StepStates]
    /\ torn \in BOOLEAN /\ lost \in BOOLEAN

WorkType ==
    /\ job \in Jobs /\ job.todo \subseteq job.files
    /\ tree \in Trees /\ violations \subseteq Paths \ Scope
    /\ file \in Reviewed \cup {None} /\ verdict \in Verdicts \cup {None}

UsageType ==
    /\ budget \in [calls : 0..MaxCalls, tokens : Nat]
    /\ made \in Nat
    /\ log \in Logs /\ (log.editErrors => log.toolErrors)

HeldType == held = (at \in {"answer", "reviewing"})

\* The manager asks its model only with a step left.
LeftType ==
    /\ left \in [steps : 0..MaxSteps, delegations : 0..MaxDelegations]
    /\ at \in {"preflight", "create", "context", "worktree"} => left.steps > 0
    /\ at \in {"ask", "answer"} /\ Manager => left.steps > 0

TypeInv == ProcessType /\ WorkType /\ UsageType /\ HeldType /\ LeftType

LEMMA TypeImplied == TypeInv => TypeOK
  BY DEF TypeInv, ProcessType, WorkType, UsageType, HeldType, LeftType, TypeOK, Jobs, Logs

LEMMA InitType == Init => TypeInv
  <1> SUFFICES ASSUME Init PROVE TypeInv
    OBVIOUS
  <1>1. ProcessType
    BY DEF Init, ProcessType, Locations, StepStates
  <1>2. WorkType
    BY DEF Init, WorkType, Nobody, Jobs, Roles, Base, Trees
  <1>3. UsageType
    <2>1. EmptyLog \in Logs /\ ~EmptyLog.editErrors
      BY DEF EmptyLog, Logs
    <2>2. Unused \in [calls : 0..MaxCalls, tokens : Nat]
      BY AgentRunAssumption DEF Unused
    <2>3. QED
      BY <2>1, <2>2 DEF Init, UsageType
  <1>4. HeldType
    <2>1. (at \in {"answer", "reviewing"}) = FALSE /\ held = FALSE
      BY DEF Init
    <2>2. QED
      BY <2>1 DEF HeldType
  <1>5. LeftType
    BY AgentRunAssumption DEF Init, LeftType, AllLeft
  <1>6. QED
    BY <1>1, <1>2, <1>3, <1>4, <1>5 DEF TypeInv

\* What a row of metrics, a failed edit and an error add to the log.
LEMMA LogGrows ==
    ASSUME NEW l \in Logs, l.editErrors => l.toolErrors
    PROVE  /\ \A u \in Reports :
                 /\ Metered(l, u) \in Logs
                 /\ Metered(l, u).calls = l.calls + 1
                 /\ Metered(l, u).toolErrors = l.toolErrors
                 /\ Metered(l, u).editErrors = l.editErrors
                 /\ Metered(l, u).diff = l.diff
                 /\ Metered(l, u).verified = l.verified
           /\ EditFailed(l) \in Logs
           /\ EditFailed(l).editErrors /\ EditFailed(l).toolErrors
           /\ EditFailed(l).diff = l.diff
           /\ EditFailed(l).verified = l.verified
           /\ [l EXCEPT !.toolErrors = TRUE] \in Logs
           /\ [l EXCEPT !.calls = @ + 1] \in Logs
  <1>1. ASSUME NEW u \in Reports
        PROVE  /\ Metered(l, u) \in Logs
               /\ Metered(l, u).calls = l.calls + 1
               /\ Metered(l, u).toolErrors = l.toolErrors
               /\ Metered(l, u).editErrors = l.editErrors
               /\ Metered(l, u).diff = l.diff
               /\ Metered(l, u).verified = l.verified
    <2>1. Known(u) \in Nat
      BY AgentRunAssumption DEF Known, Reports
    <2> DEFINE k == Known(u)
    <2>2. Metered(l, u) = [l EXCEPT !.calls = l.calls + 1, !.tokens = l.tokens + k]
      BY DEF Metered, Logs
    <2>3. l.calls + 1 \in Nat /\ l.tokens + k \in Nat
      BY <2>1 DEF Logs
    <2> HIDE DEF k
    <2>4. Metered(l, u) \in Logs
      BY <2>2, <2>3 DEF Logs
    <2>5. QED
      BY <2>2, <2>4 DEF Logs
  <1>2. EditFailed(l) \in Logs
    BY DEF EditFailed, Logs
  <1>3. /\ EditFailed(l).editErrors /\ EditFailed(l).toolErrors
        /\ EditFailed(l).diff = l.diff
        /\ EditFailed(l).verified = l.verified
    BY DEF EditFailed, Logs
  <1>4. [l EXCEPT !.toolErrors = TRUE] \in Logs
    BY DEF Logs
  <1>5. [l EXCEPT !.calls = @ + 1] \in Logs
    BY DEF Logs
  <1>6. QED
    BY <1>1, <1>2, <1>3, <1>4, <1>5

LEMMA NextProcessType == TypeInv /\ [Next]_vars => ProcessType'
  <1> SUFFICES ASSUME TypeInv, [Next]_vars PROVE ProcessType'
    OBVIOUS
  <1>a. ProcessType
    BY DEF TypeInv
  <1> USE DEF ProcessType, Locations, rows
  <1>1. CASE UNCHANGED vars
    BY <1>1, <1>a DEF vars
  <1>2. CASE Preflight \/ CreateRun \/ SetContext
    BY <1>2, <1>a DEF Preflight, CreateRun, SetContext
  <1>3. CASE Allocate
    BY <1>3, <1>a DEF Allocate, StepStates
  <1>4. CASE Refused \/ Ask \/ Answer \/ AnswerFails
    BY <1>4, <1>a DEF Refused, Ask, Answer, AnswerFails, RaiseHere, Unwinding, Answered
  <1>5. CASE Delegation
    BY <1>5, <1>a DEF Delegation, DelegateReader, DelegateImplementer, DelegateRepairer,
                      DelegateReviewer, ManagerVerifies, EndStep, Delegated, StepStates
  <1>6. CASE Apply \/ Write \/ WriteFails \/ Inspect
    BY <1>6, <1>a DEF Apply, Write, WriteFails, Inspect, RaiseHere, Unwinding
  <1>7. CASE Verify \/ StartReview \/ ReviewEnds
    BY <1>7, <1>a DEF Verify, StartReview, ReviewEnds, AfterReview
  <1>8. CASE Leave \/ Unwind \/ Diff
    BY <1>8, <1>a DEF Leave, Unwind, Diff, StepStates
  <1>9. CASE Settle
    BY <1>9, <1>a DEF Settle, Determine, Terminal, Settlements
  <1>10. CASE Return \/ Abort \/ Break \/ Kill
    BY <1>10, <1>a DEF Return, Abort, Break, Kill, Gone, Terminal, Midway
  <1>11. CASE Interrupt
    <2>1. at' \in Locations
      BY <1>11 DEF Interrupt, Interrupted
    <2>2. QED
      BY <1>11, <1>a, <2>1 DEF Interrupt, Midway
  <1>12. QED
    BY <1>1, <1>2, <1>3, <1>4, <1>5, <1>6, <1>7, <1>8, <1>9, <1>10, <1>11
       DEF Next, Proceed

LEMMA NextWorkType == TypeInv /\ [Next]_vars => WorkType'
  <1> SUFFICES ASSUME TypeInv, [Next]_vars PROVE WorkType'
    OBVIOUS
  <1>a. WorkType
    BY DEF TypeInv
  <1>b. Nobody \in Jobs /\ Nobody.todo \subseteq Nobody.files
        /\ [Nobody EXCEPT !.final = TRUE] \in Jobs
        /\ [Nobody EXCEPT !.final = TRUE].todo = {}
    BY DEF Nobody, Jobs, Roles
  <1> USE DEF WorkType
  <1>1. CASE UNCHANGED vars
    BY <1>1, <1>a DEF vars, work
  <1>2. CASE Preflight \/ CreateRun \/ SetContext \/ Allocate
    BY <1>2, <1>a DEF Preflight, CreateRun, SetContext, Allocate, work
  <1>3. CASE Refused \/ Ask \/ Answer \/ AnswerFails
    BY <1>3, <1>a DEF Refused, Ask, Answer, AnswerFails, work
  <1>4. ASSUME NEW role \in Roles, NEW files \in SUBSET Paths, NEW loc,
               Delegated(role, files, loc)
        PROVE  job' \in Jobs /\ job'.todo \subseteq job'.files
    BY <1>4 DEF Delegated, Nobody, Jobs
  <1>5. CASE Delegation
    <2>1. CASE DelegateReader \/ DelegateReviewer
      BY <2>1, <1>a, <1>4 DEF DelegateReader, DelegateReviewer, work, Roles
    <2>2. CASE DelegateImplementer
      <3>1. PICK files \in Requests, missing \in BOOLEAN :
               /\ \E loc : Delegated("implementer", files, loc)
               /\ violations' = IF missing THEN violations
                                ELSE violations \cup (files \ Scope)
        BY <2>2 DEF DelegateImplementer
      <3>2. files \in SUBSET Paths
        BY DEF Requests
      <3>3. job' \in Jobs /\ job'.todo \subseteq job'.files
        BY <1>4, <3>1, <3>2 DEF Roles
      <3>4. violations' \subseteq Paths \ Scope
        BY <1>a, <3>1, <3>2
      <3>5. QED
        BY <1>a, <2>2, <3>3, <3>4 DEF DelegateImplementer
    <2>3. CASE DelegateRepairer
      <3>1. PICK files \in SUBSET Paths : \E loc : Delegated("repairer", files, loc)
        BY <2>3 DEF DelegateRepairer, RepairerFiles, Requests
      <3>2. job' \in Jobs /\ job'.todo \subseteq job'.files
        BY <1>4, <3>1 DEF Roles
      <3>3. QED
        BY <1>a, <2>3, <3>2 DEF DelegateRepairer, work
    <2>4. CASE ManagerVerifies \/ EndStep
      BY <2>4, <1>a DEF ManagerVerifies, EndStep, work
    <2>5. QED
      BY <1>5, <2>1, <2>2, <2>3, <2>4 DEF Delegation
  <1>6. CASE Apply
    <2>1. CASE UNCHANGED job
      BY <2>1, <1>6, <1>a DEF Apply, work
    <2>2. CASE \E files \in Batches : job' = [job EXCEPT !.files = files, !.todo = files]
      <3>1. PICK files \in Batches : job' = [job EXCEPT !.files = files, !.todo = files]
        BY <2>2
      <3>2. files \in SUBSET Paths
        BY <1>a DEF Batches, Jobs
      <3>3. job' \in Jobs /\ job'.todo \subseteq job'.files
        BY <1>a, <3>1, <3>2 DEF Jobs
      <3>4. QED
        BY <1>6, <1>a, <3>3 DEF Apply, work
    <2>3. QED
      BY <1>6, <2>1, <2>2 DEF Apply
  <1>7. CASE Write
    <2>1. PICK p \in job.todo : /\ tree' = [tree EXCEPT ![p] = ~@]
                                /\ job' = [job EXCEPT !.todo = @ \ {p}]
      BY <1>7 DEF Write
    <2>2. job' \in Jobs /\ job'.todo \subseteq job'.files
      BY <1>a, <2>1 DEF Jobs
    <2>3. tree' \in Trees
      BY <1>a, <2>1 DEF Trees
    <2>4. QED
      BY <1>7, <1>a, <2>2, <2>3 DEF Write
  <1>8. CASE WriteFails \/ Inspect
    BY <1>8, <1>a DEF WriteFails, Inspect, work
  <1>9. CASE Verify
    <2>1. PICK litter \in SUBSET Litter : tree' = [p \in Paths |-> p \in litter \/ tree[p]]
      BY <1>9 DEF Verify
    <2>2. tree' \in Trees
      BY <2>1 DEF Trees
    <2>3. QED
      BY <1>9, <1>a, <2>2 DEF Verify
  <1>10. CASE StartReview
    BY <1>10, <1>a DEF StartReview
  <1>11. CASE ReviewEnds
    <2>1. file' \in Reviewed \cup {None}
      BY <1>11, <1>a DEF ReviewEnds, Written, Reviewed
    <2>2. verdict' \in Verdicts \cup {None}
      <3>1. verdict' = None \/ (file' # None /\ verdict' = file'.verdict)
        BY <1>11 DEF ReviewEnds
      <3>2. QED
        BY <2>1, <3>1 DEF Reviewed
    <2>3. QED
      BY <1>11, <1>a, <2>1, <2>2 DEF ReviewEnds
  <1>12. CASE Leave \/ Unwind \/ Diff \/ Settle \/ Return \/ Abort
    BY <1>12, <1>a, <1>b DEF Leave, Unwind, Diff, Settle, Return, Abort, Gone, work
  <1>13. CASE Break \/ Interrupt \/ Kill
    BY <1>13, <1>a, <1>b DEF Break, Interrupt, Kill, Gone, work
  <1>14. QED
    BY <1>1, <1>2, <1>3, <1>5, <1>6, <1>7, <1>8, <1>9, <1>10, <1>11, <1>12, <1>13
       DEF Next, Proceed

\* What one prediction or one review may send.
LEMMA RequestBounds ==
    /\ MaxRequests \in Nat \ {0}
    /\ \A n \in {0} \cup Requested : n \in 0..MaxRequests
    /\ \A n \in Sent : n \in 0..MaxRequests
  <1>1. MaxRequests \in Nat \ {0}
    BY AgentRunAssumption
  <1>2. \A n \in {0} \cup Requested : n \in 0..MaxRequests
    BY <1>1 DEF Requested
  <1>3. QED
    BY <1>1, <1>2 DEF Sent

\* A refused delegation leaves a row of metrics, any other step of the manager none.
LEMMA DelegationLog == Delegation => log' = log \/ log' = Metered(log, None)
  BY DEF Delegation, DelegateReader, DelegateImplementer, DelegateRepairer,
         DelegateReviewer, ManagerVerifies, EndStep, rows

LEMMA NextUsageType == TypeInv /\ [Next]_vars => UsageType'
  <1> SUFFICES ASSUME TypeInv, [Next]_vars PROVE UsageType'
    OBVIOUS
  <1>a. /\ log \in Logs /\ (log.editErrors => log.toolErrors)
        /\ budget \in [calls : 0..MaxCalls, tokens : Nat] /\ made \in Nat
        /\ tree \in Trees
    BY DEF TypeInv, UsageType, WorkType
  <1>b. None \in Reports
    BY DEF Reports
  <1>c. Unused \in [calls : 0..MaxCalls, tokens : Nat]
    BY AgentRunAssumption DEF Unused
  <1> USE DEF UsageType, usage, rows
  <1>e. /\ Metered(log, None) \in Logs
        /\ Metered(log, None).editErrors => Metered(log, None).toolErrors
    BY <1>a, <1>b, LogGrows
  \* The log, when the budget and the number of calls stay what they are.
  <1>d. ASSUME NEW l \in Logs, l.editErrors => l.toolErrors, log' = l,
               budget' \in [calls : 0..MaxCalls, tokens : Nat], made' \in Nat
        PROVE  UsageType'
    BY <1>d
  <1>1. CASE UNCHANGED vars
    BY <1>1, <1>a DEF vars
  <1>2. CASE Preflight \/ CreateRun \/ SetContext \/ Allocate
    BY <1>2, <1>a DEF Preflight, CreateRun, SetContext, Allocate
  <1>3. CASE Refused
    <2>1. log' = log \/ log' = [log EXCEPT !.calls = @ + 1]
      BY <1>3 DEF Refused
    <2>2. [log EXCEPT !.calls = @ + 1] \in Logs
      BY <1>a, LogGrows
    <2>3. [log EXCEPT !.calls = @ + 1].editErrors => [log EXCEPT !.calls = @ + 1].toolErrors
      BY <1>a DEF Logs
    <2>4. QED
      BY <1>3, <1>a, <2>1, <2>2, <2>3 DEF Refused
  <1>4. CASE Ask
    BY <1>4, <1>a, AgentRunAssumption DEF Ask
  <1>5. CASE Answer
    <2>1. PICK u \in Reports : /\ log' = Metered(log, u)
                               /\ budget' = [budget EXCEPT !.tokens = @ + Known(u)]
      BY <1>5 DEF Answer
    <2>2. Known(u) \in Nat
      BY AgentRunAssumption DEF Known, Reports
    <2>3. budget' \in [calls : 0..MaxCalls, tokens : Nat]
      BY <1>a, <2>1, <2>2
    <2>4. made' \in Nat
      BY <1>5, <1>a, RequestBounds DEF Answer
    <2>5. QED
      BY <1>a, <2>1, <2>3, <2>4, LogGrows
  <1>6. CASE AnswerFails
    <2>1. Metered(log, None) \in Logs
          /\ (Metered(log, None).editErrors => Metered(log, None).toolErrors)
      BY <1>a, <1>b, LogGrows
    <2>2. made' \in Nat
      BY <1>6, <1>a, RequestBounds DEF AnswerFails
    <2>3. QED
      BY <1>6, <1>a, <2>1, <2>2 DEF AnswerFails
  <1>7. CASE Delegation
    <2>1. log' = log \/ log' = Metered(log, None)
      BY <1>7, DelegationLog
    <2>2. UNCHANGED <<budget, made>>
      BY <1>7 DEF Delegation, DelegateReader, DelegateImplementer, DelegateRepairer,
                  DelegateReviewer, ManagerVerifies, EndStep
    <2>3. QED
      BY <1>a, <1>e, <2>1, <2>2
  <1>8. CASE Apply \/ WriteFails \/ Inspect
    <2>1. log' = log \/ log' = EditFailed(log)
      BY <1>8 DEF Apply, WriteFails, Inspect
    <2>2. UNCHANGED <<budget, made>>
      BY <1>8 DEF Apply, WriteFails, Inspect
    <2>3. QED
      BY <1>a, <2>1, <2>2, LogGrows
  <1>9. CASE Write \/ StartReview
    BY <1>9, <1>a DEF Write, StartReview
  <1>10. CASE Verify
    <2>1. PICK passed \in BOOLEAN :
             log' = [log EXCEPT !.verified = [tree |-> tree, passed |-> passed],
                                !.attempts = @ + 1, !.fresh = FALSE]
      BY <1>10 DEF Verify
    <2>2. [tree |-> tree, passed |-> passed] \in Checked
      BY <1>a DEF Checked
    <2> DEFINE c == [tree |-> tree, passed |-> passed]
    <2> HIDE DEF c
    <2>3. log' \in Logs
      <3>1. log.attempts + 1 \in Nat
        BY <1>a DEF Logs
      <3>2. log' = [log EXCEPT !.verified = c, !.attempts = log.attempts + 1,
                               !.fresh = FALSE]
        BY <1>a, <2>1 DEF c, Logs
      <3>3. QED
        BY <1>a, <2>2, <3>1, <3>2 DEF Logs, c
    <2>4. log'.editErrors = log.editErrors /\ log'.toolErrors = log.toolErrors
      BY <1>a, <2>1 DEF Logs
    <2>5. QED
      BY <1>10, <1>a, <2>3, <2>4 DEF Verify
  <1>11. CASE ReviewEnds
    <2>1. PICK u \in Reports, asked \in 0..MaxRequests :
             /\ made' = made + asked
             /\ IF file' = None
                THEN log' = [log EXCEPT !.toolErrors = TRUE] /\ verdict' = None
                ELSE /\ log' = [Metered(log, u) EXCEPT !.reviewed = file', !.fresh = TRUE]
                     /\ verdict' = file'.verdict
      BY <1>11 DEF ReviewEnds
    <2>2. made' \in Nat /\ UNCHANGED budget
      BY <1>11, <1>a, <2>1, RequestBounds DEF ReviewEnds
    <2>3. CASE file' = None
      <3>1. log' \in Logs
        BY <1>a, <2>1, <2>3, LogGrows
      <3>2. log'.toolErrors
        BY <1>a, <2>1, <2>3 DEF Logs
      <3>3. QED
        BY <1>a, <2>2, <3>1, <3>2
    <2>4. CASE file' # None
      <3> DEFINE l == Metered(log, u)
      <3>1. l \in Logs /\ (l.editErrors => l.toolErrors)
        BY <1>a, LogGrows
      <3>2. log' = [l EXCEPT !.reviewed = file', !.fresh = TRUE]
        BY <2>1, <2>4
      <3>3. file' \in Reviewed \cup {None}
        BY NextWorkType DEF WorkType
      <3> HIDE DEF l
      <3>4. log' \in Logs
        BY <3>1, <3>2, <3>3 DEF Logs
      <3>5. log'.editErrors = l.editErrors /\ log'.toolErrors = l.toolErrors
        BY <3>1, <3>2 DEF Logs
      <3>6. QED
        BY <1>a, <2>2, <3>1, <3>4, <3>5
    <2>5. QED
      BY <2>3, <2>4
  <1>12. CASE Leave \/ Unwind \/ Settle \/ Return \/ Abort \/ Break \/ Kill
    BY <1>12, <1>a, <1>c DEF Leave, Unwind, Settle, Return, Abort, Break, Kill, Gone
  <1>13. CASE Diff
    <2>1. log' = log \/ log' = [log EXCEPT !.diff = tree]
      BY <1>13 DEF Diff
    <2>2. [log EXCEPT !.diff = tree] \in Logs
      BY <1>a DEF Logs
    <2>3. [log EXCEPT !.diff = tree].editErrors => [log EXCEPT !.diff = tree].toolErrors
      BY <1>a DEF Logs
    <2>4. QED
      BY <1>13, <1>a, <2>1, <2>2, <2>3 DEF Diff
  <1>14. CASE Interrupt
    <2>1. log' = log \/ log' = Metered(log, None)
      BY <1>14 DEF Interrupt
    <2>2. made' \in Nat /\ UNCHANGED budget
      BY <1>14, <1>a, RequestBounds DEF Interrupt
    <2>3. QED
      BY <1>a, <1>e, <2>1, <2>2
  <1>15. QED
    BY <1>1, <1>2, <1>3, <1>4, <1>5, <1>6, <1>7, <1>8, <1>9, <1>10, <1>11, <1>12, <1>13,
       <1>14
       DEF Next, Proceed

LEMMA NextHeldType == TypeInv /\ [Next]_vars => HeldType'
  <1> SUFFICES ASSUME TypeInv, [Next]_vars PROVE HeldType'
    OBVIOUS
  <1>a. held = (at \in {"answer", "reviewing"})
    BY DEF TypeInv, HeldType
  <1>b. ASSUME UNCHANGED held,
               at \in {"answer", "reviewing"} <=> at' \in {"answer", "reviewing"}
        PROVE  HeldType'
    BY <1>a, <1>b DEF HeldType
  <1>c. ASSUME held' = FALSE, at' \notin {"answer", "reviewing"} PROVE HeldType'
    <2>1. (at' \in {"answer", "reviewing"}) = FALSE
      BY <1>c
    <2>2. QED
      BY <1>c, <2>1 DEF HeldType
  <1>1. CASE UNCHANGED vars
    BY <1>1, <1>b DEF vars, usage
  <1>2. CASE Preflight \/ CreateRun \/ SetContext \/ Allocate
    BY <1>2, <1>b DEF Preflight, CreateRun, SetContext, Allocate, usage
  <1>3. CASE Refused
    BY <1>3, <1>b DEF Refused, RaiseHere, Unwinding, usage
  <1>4. CASE Ask \/ StartReview
    <2>1. (at' \in {"answer", "reviewing"}) = TRUE /\ held' = TRUE
      BY <1>4 DEF Ask, StartReview
    <2>2. QED
      BY <2>1 DEF HeldType
  <1>5. CASE Answer \/ AnswerFails
    BY <1>5, <1>c DEF Answer, AnswerFails, RaiseHere, Unwinding, Answered
  <1>6. CASE Delegation
    <2>1. UNCHANGED held
      BY <1>6 DEF Delegation, DelegateReader, DelegateImplementer, DelegateRepairer,
                  DelegateReviewer, ManagerVerifies, EndStep, usage
    <2>2. at = "acting" /\ at' \in {"ask", "leave", "verify", "unwind"}
      BY <1>6 DEF Delegation, DelegateReader, DelegateImplementer, DelegateRepairer,
                  DelegateReviewer, ManagerVerifies, EndStep, CanDelegate, Delegated
    <2>3. QED
      BY <1>b, <2>1, <2>2
  <1>7. CASE Apply \/ Write \/ WriteFails \/ Inspect
    BY <1>7, <1>b DEF Apply, Write, WriteFails, Inspect, RaiseHere, Unwinding, usage
  <1>8. CASE Verify
    <2>1. at' \in {"review", "leave", "acting"}
      BY <1>8 DEF Verify
    <2>2. QED
      BY <1>8, <1>b, <2>1 DEF Verify, usage
  <1>9. CASE ReviewEnds
    BY <1>9, <1>c DEF ReviewEnds, AfterReview
  <1>10. CASE Leave \/ Unwind \/ Diff \/ Settle \/ Break
    BY <1>10, <1>b DEF Leave, Unwind, Diff, Settle, Break, usage
  <1>11. CASE Return \/ Abort \/ Kill
    BY <1>11, <1>c DEF Return, Abort, Kill, Gone
  <1>12. CASE Interrupt
    <2>1. at' \in {"ended", "leave", "unwind", "abort"}
      BY <1>12 DEF Interrupt, Interrupted
    <2>2. QED
      BY <1>12, <1>c, <2>1 DEF Interrupt
  <1>13. QED
    BY <1>1, <1>2, <1>3, <1>4, <1>5, <1>6, <1>7, <1>8, <1>9, <1>10, <1>11, <1>12
       DEF Next, Proceed

LEMMA NextLeftType == TypeInv /\ [Next]_vars => LeftType'
  <1> SUFFICES ASSUME TypeInv, [Next]_vars PROVE LeftType'
    OBVIOUS
  <1>a. LeftType /\ MaxSteps \in Nat \ {0} /\ MaxDelegations \in Nat \ {0} /\ job \in Jobs
    BY AgentRunAssumption DEF TypeInv, WorkType
  <1> USE DEF LeftType, Manager
  <1>1. CASE UNCHANGED vars
    BY <1>1, <1>a DEF vars
  <1>2. CASE Preflight \/ CreateRun \/ SetContext \/ Allocate
    BY <1>2, <1>a DEF Preflight, CreateRun, SetContext, Allocate
  <1>3. CASE Refused \/ Ask \/ AnswerFails
    BY <1>3, <1>a DEF Refused, Ask, AnswerFails, RaiseHere, Unwinding
  <1>4. CASE Answer
    <2>1. at' \notin {"preflight", "create", "context", "worktree", "ask", "answer"}
      BY <1>4 DEF Answer, RaiseHere, Unwinding, Answered
    <2>2. left' \in [steps : 0..MaxSteps, delegations : 0..MaxDelegations]
      BY <1>4, <1>a DEF Answer
    <2>3. QED
      BY <2>1, <2>2
  <1>5. ASSUME NEW role \in {"reader", "implementer", "repairer", "reviewer"},
               NEW files, NEW loc \in {"ask", "leave", "verify"}, CanDelegate,
               Delegated(role, files, loc)
        PROVE  LeftType'
    <2>1. job'.role = role
      BY <1>5 DEF Delegated, Nobody
    <2>2. left' \in [steps : 0..MaxSteps, delegations : 0..MaxDelegations]
      BY <1>5, <1>a DEF Delegated, CanDelegate
    <2>3. QED
      BY <1>5, <2>1, <2>2 DEF Delegated
  <1>6. CASE Delegation
    <2>1. CASE DelegateReader \/ DelegateReviewer \/ DelegateImplementer \/ DelegateRepairer
      BY <2>1, <1>5 DEF DelegateReader, DelegateReviewer, DelegateImplementer,
                        DelegateRepairer
    <2>2. CASE ManagerVerifies \/ EndStep
      BY <2>2, <1>a DEF ManagerVerifies, EndStep, CanDelegate
    <2>3. QED
      BY <1>6, <2>1, <2>2 DEF Delegation
  <1>7. CASE Apply \/ Write \/ WriteFails \/ Inspect
    BY <1>7, <1>a DEF Apply, Write, WriteFails, Inspect, RaiseHere, Unwinding
  <1>8. CASE Verify \/ StartReview \/ ReviewEnds
    BY <1>8, <1>a DEF Verify, StartReview, ReviewEnds, AfterReview
  <1>9. CASE Leave \/ Unwind \/ Diff \/ Settle \/ Break
    BY <1>9, <1>a DEF Leave, Unwind, Diff, Settle, Break
  <1>10. CASE Return \/ Abort \/ Kill
    BY <1>10, <1>a DEF Return, Abort, Kill, Gone, AllLeft
  <1>11. CASE Interrupt
    BY <1>11, <1>a DEF Interrupt, Interrupted
  <1>12. QED
    BY <1>1, <1>2, <1>3, <1>4, <1>6, <1>7, <1>8, <1>9, <1>10, <1>11 DEF Next, Proceed

LEMMA TypeHolds == Spec => []TypeInv
  <1>1. TypeInv /\ [Next]_vars => TypeInv'
    BY NextProcessType, NextWorkType, NextUsageType, NextHeldType, NextLeftType DEF TypeInv
  <1>2. QED
    BY <1>1, InitType, PTL DEF Spec

\* TypeOK: wherever the run is interrupted, killed or fails, its record, its
\* worktree and its budget keep their types, and a route session is open exactly
\* during a model call.
THEOREM TypeCorrect == Spec => []TypeOK
  BY TypeHolds, TypeImplied, PTL

-----------------------------------------------------------------------------
(***************************************************************************)
(* What the process unwinds with.                                          *)
(***************************************************************************)
Unwinds ==
    /\ raised # "none" => at \in {"leave", "unwind", "abort", "ended"}
    /\ lost => at = "ended" \/ raised = "interrupt"

LEMMA NextUnwinds == TypeInv /\ Unwinds /\ [Next]_vars => Unwinds'
  <1> SUFFICES ASSUME TypeInv, Unwinds, [Next]_vars PROVE Unwinds'
    OBVIOUS
  <1> USE DEF Unwinds
  \* A step of a process that goes on, or begins to unwind.
  <1>a. ASSUME UNCHANGED lost, at \notin {"leave", "unwind", "abort", "ended"},
               raised' = raised \/ at' \in {"leave", "unwind", "abort"}
        PROVE  Unwinds'
    BY <1>a
  <1>1. CASE UNCHANGED vars
    BY <1>1 DEF vars
  <1>2. CASE Preflight \/ CreateRun \/ SetContext \/ Allocate
    BY <1>2 DEF Preflight, CreateRun, SetContext, Allocate
  <1>3. CASE Refused \/ Ask \/ Answer \/ AnswerFails
    BY <1>3, <1>a DEF Refused, Ask, Answer, AnswerFails, RaiseHere, Unwinding
  <1>4. CASE Delegation
    BY <1>4, <1>a DEF Delegation, DelegateReader, DelegateImplementer, DelegateRepairer,
                      DelegateReviewer, ManagerVerifies, EndStep, CanDelegate, Delegated
  <1>5. CASE Apply \/ Write \/ WriteFails \/ Inspect
    BY <1>5, <1>a DEF Apply, Write, WriteFails, Inspect, RaiseHere, Unwinding
  <1>6. CASE Verify \/ StartReview \/ ReviewEnds \/ Diff \/ Settle \/ Break
    BY <1>6, <1>a DEF Verify, StartReview, ReviewEnds, Diff, Settle, Break
  <1>7. CASE Leave \/ Unwind \/ Return \/ Abort \/ Kill
    BY <1>7 DEF Leave, Unwind, Return, Abort, Kill, Gone
  <1>8. CASE Interrupt
    BY <1>8 DEF Interrupt, Interrupted
  <1>9. QED
    BY <1>1, <1>2, <1>3, <1>4, <1>5, <1>6, <1>7, <1>8 DEF Next, Proceed

LEMMA UnwindsHolds == Spec => []Unwinds
  <1>1. Init => Unwinds
    BY DEF Init, Unwinds
  <1>2. QED
    BY <1>1, NextUnwinds, TypeHolds, PTL DEF Spec

-----------------------------------------------------------------------------
(***************************************************************************)
(* How a run ends.                                                         *)
(***************************************************************************)
AgentPlaces == {"ask", "answer", "apply", "write", "inspect", "verify", "review",
                "reviewing"}

\* A step is open only where something will close it, and a settled run returns.
Closing ==
    ~lost =>
        /\ at \in {"preflight", "create"} => status = "none"
        /\ at \in {"preflight", "create", "context", "worktree"} => ~job.final
        /\ step.manager = "running" =>
              /\ at \in AgentPlaces \cup {"acting", "leave", "unwind"}
              /\ ~job.final
        /\ step.agent = "running" =>
              \/ at = "leave"
              \/ at \in AgentPlaces /\ ~Manager /\ ~job.final
        /\ step.agent = "running" /\ at = "verify" => job.role \in {"repairer", "reviewer"}
        /\ at = "return" => status \in Settlements
        /\ Settled

LEMMA InitClosing == Init => Closing
  BY DEF Init, Closing, Settled, Nobody

LEMMA NextClosing == TypeInv /\ Unwinds /\ Closing /\ [Next]_vars => Closing'
  <1> SUFFICES ASSUME TypeInv, Unwinds, Closing, [Next]_vars, ~lost'
               PROVE  Closing'
    BY DEF Closing
  <1>a. /\ step \in [manager : StepStates, agent : StepStates] /\ job \in Jobs
        /\ raised \in {"none", "exception", "interrupt"}
    BY DEF TypeInv, ProcessType, WorkType
  <1>b. ~lost
    BY DEF Next, Proceed, vars, Preflight, CreateRun, SetContext, Allocate, Refused, Ask,
           Answer, AnswerFails, Delegation, DelegateReader, DelegateImplementer,
           DelegateRepairer, DelegateReviewer, ManagerVerifies, EndStep, Apply, Write,
           WriteFails, Inspect, Verify, StartReview, ReviewEnds, Leave, Unwind, Diff,
           Settle, Return, Abort, Break, Interrupt, Kill
  <1> USE <1>b DEF Closing, Settled, AgentPlaces, Manager, rows
  <1>1. CASE UNCHANGED vars
    BY <1>1 DEF vars
  <1>2. CASE Preflight \/ CreateRun \/ SetContext
    BY <1>2 DEF Preflight, CreateRun, SetContext
  <1>3. CASE Allocate
    <2>1. step'.agent = step.agent /\ step'.agent # "running"
      BY <1>3, <1>a DEF Allocate
    <2>2. step'.manager = "running" => at' = "ask"
      BY <1>3, <1>a DEF Allocate
    <2>3. ~job.final
      BY <1>3 DEF Allocate
    <2>4. QED
      BY <1>3, <2>1, <2>2, <2>3 DEF Allocate
  <1>4. CASE Refused \/ Ask \/ Answer \/ AnswerFails
    BY <1>4 DEF Refused, Ask, Answer, AnswerFails, RaiseHere, Unwinding, Answered
  <1>5. CASE Delegation
    <2>1. step'.manager = step.manager /\ UNCHANGED status
      BY <1>5, <1>a DEF Delegation, DelegateReader, DelegateImplementer, DelegateRepairer,
                        DelegateReviewer, ManagerVerifies, EndStep, Delegated
    <2>2. at = "acting" /\ at' \in {"ask", "leave", "verify", "unwind"}
      BY <1>5 DEF Delegation, DelegateReader, DelegateImplementer, DelegateRepairer,
                  DelegateReviewer, ManagerVerifies, EndStep, CanDelegate, Delegated
    <2>3. \/ UNCHANGED <<step, job>>
          \/ /\ job'.role \in Roles \ {"orchestrator"} /\ ~job'.final
             /\ at' = "verify" => job'.role = "reviewer"
             /\ at' # "unwind"
      BY <1>5 DEF Delegation, DelegateReader, DelegateImplementer, DelegateRepairer,
                  DelegateReviewer, ManagerVerifies, EndStep, Delegated, Nobody, Roles
    <2>4. QED
      BY <2>1, <2>2, <2>3
  <1>6. CASE Apply \/ Write \/ WriteFails \/ Inspect
    <2>1. /\ UNCHANGED <<step, status>> /\ job'.role = job.role /\ job'.final = job.final
          /\ at \in {"apply", "write", "inspect"}
          /\ at' \in {"write", "inspect", "verify", "leave", "unwind"}
          /\ at' = "verify" => job.role = "repairer"
          /\ at' = "unwind" => Manager
      BY <1>6, <1>a DEF Apply, Write, WriteFails, Inspect, RaiseHere, Unwinding, Jobs
    <2>2. QED
      BY <2>1
  <1>7. CASE Verify \/ StartReview \/ ReviewEnds
    <2>1. /\ UNCHANGED <<step, status, job>>
          /\ at \in {"verify", "review", "reviewing"}
          /\ at' \in {"review", "reviewing", "leave", "acting", "settle"}
          /\ at' = "settle" => job.final
          /\ at' = "acting" => at = "verify" /\ job.role \notin {"repairer", "reviewer"}
      BY <1>7 DEF Verify, StartReview, ReviewEnds, AfterReview
    <2>2. QED
      BY <2>1
  <1>8. CASE Leave
    <2>1. /\ step'.agent # "running" /\ step'.manager = step.manager
          /\ ~job'.final /\ at' \in {"unwind", "acting"}
      BY <1>8, <1>a DEF Leave, Nobody
    <2>2. QED
      BY <1>8, <2>1 DEF Leave
  <1>9. CASE Unwind
    <2>1. step'.agent = step.agent /\ step'.manager # "running"
      BY <1>9, <1>a DEF Unwind
    <2>2. step.agent # "running" /\ at' \in {"diff", "abort"}
      BY <1>9 DEF Unwind
    <2>3. QED
      BY <1>9, <2>1, <2>2 DEF Unwind
  <1>10. CASE Diff \/ Settle
    <2>1. /\ UNCHANGED step /\ at \in {"diff", "settle"}
          /\ at' \in {"settle", "verify", "return"}
          /\ at' = "return" => status' \in Settlements
      BY <1>10 DEF Diff, Settle, Determine, Settlements
    <2>2. QED
      BY <2>1
  <1>11. CASE Return
    <2>1. /\ UNCHANGED <<step, status, raised>> /\ at = "return" /\ at' = "ended"
      BY <1>11 DEF Return, Gone
    <2>2. raised = "none"
      BY <2>1, <1>a DEF Unwinds
    <2>3. QED
      BY <2>1, <2>2 DEF Terminal
  <1>12. CASE Abort
    <2>1. /\ UNCHANGED <<step, raised>> /\ at = "abort" /\ at' = "ended"
          /\ status' = IF raised = "interrupt" THEN "cancelled" ELSE "failed"
      BY <1>12 DEF Abort, Gone
    <2>2. QED
      BY <2>1 DEF Terminal
  <1>13. CASE Break
    <2>1. /\ UNCHANGED <<step, status>> /\ at' = "abort"
          /\ at \in {"diff", "settle"} \/ (job.final /\ at \in {"verify", "review"})
      BY <1>13 DEF Break
    <2>2. QED
      BY <2>1
  <1>14. CASE Interrupt
    <2>1. /\ UNCHANGED <<step, status>> /\ at' = Interrupted /\ ~job'.final
          /\ at \notin {"context", "abort", "leave", "unwind", "ended"}
      BY <1>14 DEF Interrupt, Nobody
    <2>2. CASE at \in {"preflight", "create"}
      BY <2>1, <2>2 DEF Interrupted
    <2>3. CASE at \notin {"preflight", "create"} /\ step.agent = "running"
      BY <2>1, <2>3 DEF Interrupted
    <2>4. CASE /\ at \notin {"preflight", "create"} /\ step.agent # "running"
               /\ step.manager = "running"
      BY <2>1, <2>4 DEF Interrupted
    <2>5. CASE /\ at \notin {"preflight", "create"} /\ step.agent # "running"
               /\ step.manager # "running"
      BY <2>1, <2>5 DEF Interrupted
    <2>6. QED
      BY <2>2, <2>3, <2>4, <2>5
  <1>15. CASE Kill
    BY <1>15 DEF Kill
  <1>16. QED
    BY <1>1, <1>2, <1>3, <1>4, <1>5, <1>6, <1>7, <1>8, <1>9, <1>10, <1>11, <1>12, <1>13,
       <1>14, <1>15
       DEF Next, Proceed

\* Settled: a run whose process has ended says how, and has no step left open,
\* wherever it raised or was interrupted, unless nothing could catch that.
THEOREM EndsSettled == Spec => []Settled
  <1>1. Closing => Settled
    BY DEF Closing, Settled
  <1>2. QED
    BY <1>1, TypeHolds, UnwindsHolds, InitClosing, NextClosing, PTL DEF Spec

-----------------------------------------------------------------------------
(***************************************************************************)
(* What an approval rests on.                                              *)
(***************************************************************************)
\* Edits of the scope are all that is ever written.
InScope ==
    /\ Changed \subseteq Scope \cup Litter
    /\ at = "write" => job.files \subseteq Scope

\* A batch that was left half applied is on record, or the run will not settle.
TornIsKnown ==
    torn => log.editErrors \/ (raised = "interrupt" /\ status # "awaiting_approval")
            \/ (at = "ended" /\ status # "awaiting_approval")

VerificationStands == log.verified # None => Same(log.verified.tree, tree)
ReviewStands ==
    /\ log.reviewed # None /\ log.reviewed.verdict = verdict
    /\ Same(log.reviewed.tree, tree)

\* The orchestrator's own checks, in their order: diff, verification, review.
Final ==
    /\ log.diff # None =>
          \/ at \in {"return", "abort", "ended"}
          \/ job.final /\ at \in {"verify", "review", "reviewing", "settle"}
    /\ log.diff # None /\ at \in {"verify", "review", "reviewing", "settle"} =>
          /\ Same(log.diff, tree)
          /\ at \in {"review", "reviewing", "settle"} => VerificationStands
          /\ at = "settle" /\ verdict = "pass" => ReviewStands
    /\ at = "reviewing" => file = None /\ verdict = None

\* Nothing happens after a run has been settled.
Offered ==
    status = "awaiting_approval" =>
        /\ at \in {"return", "abort", "ended"}
        /\ ApprovalIsEarned

ApprovalInv == InScope /\ TornIsKnown /\ Final /\ Offered

LEMMA InitApproval == Init => ApprovalInv
  BY DEF Init, ApprovalInv, InScope, TornIsKnown, Final, Offered, Changed, Base, EmptyLog

LEMMA SameTree == ASSUME NEW t PROVE Same(t, t)
  BY DEF Same

LEMMA NextInScope == TypeInv /\ InScope /\ [Next]_vars => InScope'
  <1> SUFFICES ASSUME TypeInv, InScope, [Next]_vars PROVE InScope'
    OBVIOUS
  <1>a. tree \in Trees /\ job \in Jobs /\ job.todo \subseteq job.files /\ Scope \subseteq Paths
    BY AgentRunAssumption DEF TypeInv, WorkType
  <1>b. ASSUME UNCHANGED tree, at' # "write" PROVE InScope'
    BY <1>b DEF InScope, Changed
  <1>1. CASE UNCHANGED vars
    BY <1>1 DEF vars, work, InScope, Changed
  <1>2. CASE Preflight \/ CreateRun \/ SetContext \/ Allocate
    BY <1>2, <1>b DEF Preflight, CreateRun, SetContext, Allocate, work
  <1>3. CASE Refused \/ Ask \/ AnswerFails
    BY <1>3, <1>b DEF Refused, Ask, AnswerFails, RaiseHere, Unwinding, work
  <1>4. CASE Answer
    BY <1>4, <1>b DEF Answer, RaiseHere, Unwinding, Answered, work
  <1>5. CASE Delegation
    BY <1>5, <1>b DEF Delegation, DelegateReader, DelegateImplementer, DelegateRepairer,
                      DelegateReviewer, ManagerVerifies, EndStep, Delegated, work
  <1>6. CASE Apply
    <2>1. CASE at' = "write"
      <3>1. PICK files \in Batches : job' = [job EXCEPT !.files = files, !.todo = files]
        BY <1>6, <2>1 DEF Apply, RaiseHere, Unwinding
      <3>2. job.files \subseteq Scope
        BY <1>6, <2>1 DEF Apply, RaiseHere, Unwinding
      <3>3. job'.files \subseteq Scope
        BY <1>a, <3>1, <3>2 DEF Batches, Jobs
      <3>4. QED
        BY <1>6, <3>3 DEF Apply, InScope, Changed, work
    <2>2. CASE at' # "write"
      BY <1>6, <1>b, <2>2 DEF Apply, work
    <2>3. QED
      BY <2>1, <2>2
  <1>7. CASE Write
    <2>1. PICK p \in job.todo : /\ tree' = [tree EXCEPT ![p] = ~@]
                                /\ job' = [job EXCEPT !.todo = @ \ {p}]
      BY <1>7 DEF Write
    <2>2. job'.files = job.files /\ job.files \subseteq Scope
      BY <1>7, <1>a, <2>1 DEF Write, InScope, Jobs
    <2>3. Changed' \subseteq Changed \cup {p}
      BY <1>a, <2>1 DEF Changed, Trees
    <2>4. p \in Scope
      BY <1>a, <2>2
    <2>5. QED
      BY <2>2, <2>3, <2>4 DEF InScope
  <1>8. CASE WriteFails \/ Inspect
    BY <1>8, <1>b DEF WriteFails, Inspect, RaiseHere, Unwinding, work
  <1>9. CASE Verify
    <2>1. PICK litter \in SUBSET Litter : tree' = [p \in Paths |-> p \in litter \/ tree[p]]
      BY <1>9 DEF Verify
    <2>2. Changed' \subseteq Changed \cup Litter
      BY <2>1 DEF Changed
    <2>3. at' # "write"
      BY <1>9 DEF Verify
    <2>4. QED
      BY <2>2, <2>3 DEF InScope
  <1>10. CASE StartReview \/ ReviewEnds
    BY <1>10, <1>b DEF StartReview, ReviewEnds, AfterReview
  <1>11. CASE Leave \/ Unwind \/ Diff \/ Settle \/ Return \/ Abort \/ Break \/ Kill
    BY <1>11, <1>b DEF Leave, Unwind, Diff, Settle, Return, Abort, Break, Kill, Gone, work
  <1>12. CASE Interrupt
    BY <1>12, <1>b DEF Interrupt, Interrupted, work
  <1>13. QED
    BY <1>1, <1>2, <1>3, <1>4, <1>5, <1>6, <1>7, <1>8, <1>9, <1>10, <1>11, <1>12
       DEF Next, Proceed

\* Errors of the editor stay on record.
LEMMA ErrorsStay ==
    TypeInv /\ [Next]_vars =>
        /\ log.editErrors => log'.editErrors
        /\ log.toolErrors => log'.toolErrors
  <1> SUFFICES ASSUME TypeInv, [Next]_vars
               PROVE  /\ log.editErrors => log'.editErrors
                      /\ log.toolErrors => log'.toolErrors
    OBVIOUS
  <1>a. log \in Logs /\ (log.editErrors => log.toolErrors)
    BY DEF TypeInv, UsageType
  <1>1. CASE log' = log \/ log' = EditFailed(log)
    BY <1>1, <1>a, LogGrows
  <1>2. CASE \E u \in Reports : log' = Metered(log, u)
    BY <1>2, <1>a, LogGrows
  <1>3. CASE \E u \in Reports : \/ log' = [log EXCEPT !.toolErrors = TRUE]
                                \/ log' = [Metered(log, u) EXCEPT !.reviewed = file',
                                                                  !.fresh = TRUE]
    <2> PICK u \in Reports : \/ log' = [log EXCEPT !.toolErrors = TRUE]
                             \/ log' = [Metered(log, u) EXCEPT !.reviewed = file',
                                                               !.fresh = TRUE]
      BY <1>3
    <2> DEFINE l == Metered(log, u)
    <2>1. l \in Logs /\ (log.editErrors => l.editErrors) /\ (log.toolErrors => l.toolErrors)
      BY <1>a, LogGrows
    <2> HIDE DEF l
    <2>2. CASE log' = [log EXCEPT !.toolErrors = TRUE]
      BY <1>a, <2>2 DEF Logs
    <2>3. CASE log' = [l EXCEPT !.reviewed = file', !.fresh = TRUE]
      BY <2>1, <2>3 DEF Logs
    <2>4. QED
      BY <2>2, <2>3 DEF l
  <1>4. CASE \/ log' = [log EXCEPT !.calls = @ + 1] \/ log' = [log EXCEPT !.diff = tree]
             \/ \E c, n : log' = [log EXCEPT !.verified = c, !.attempts = n, !.fresh = FALSE]
    BY <1>4, <1>a DEF Logs
  <1>5. CASE UNCHANGED vars \/ Delegation \/ Break \/ Kill
    BY <1>5, <1>1, <1>2, DelegationLog DEF vars, rows, Break, Kill, Reports
  <1>6. CASE Verify
    <2>1. \E c, n : log' = [log EXCEPT !.verified = c, !.attempts = n, !.fresh = FALSE]
      BY <1>6, <1>a DEF Verify, Logs
    <2>2. QED
      BY <1>4, <2>1
  <1>7. CASE ReviewEnds
    BY <1>7, <1>3 DEF ReviewEnds
  <1>8. CASE Answer \/ AnswerFails
    BY <1>8, <1>2 DEF Answer, AnswerFails, Reports
  <1>9. CASE Refused \/ Diff \/ Interrupt
    BY <1>9, <1>1, <1>2, <1>4 DEF Refused, Diff, Interrupt, Reports
  <1>10. CASE \/ Preflight \/ CreateRun \/ SetContext \/ Allocate \/ Ask \/ Apply \/ Write
              \/ WriteFails \/ Inspect \/ StartReview \/ Leave \/ Unwind \/ Settle
              \/ Return \/ Abort
    BY <1>10, <1>1
       DEF Preflight, CreateRun, SetContext, Allocate, Ask, Apply, Write, WriteFails,
           Inspect, StartReview, Leave, Unwind, Settle, Return, Abort, rows
  <1>11. QED
    BY <1>5, <1>6, <1>7, <1>8, <1>9, <1>10 DEF Next, Proceed

LEMMA NextTorn ==
    TypeInv /\ Unwinds /\ TornIsKnown /\ Offered /\ [Next]_vars => TornIsKnown'
  <1> SUFFICES ASSUME TypeInv, Unwinds, TornIsKnown, Offered, [Next]_vars, torn'
               PROVE  TornIsKnown'
    BY DEF TornIsKnown
  <1>a. log.editErrors => log'.editErrors
    BY ErrorsStay
  <1> USE DEF TornIsKnown
  <1>1. CASE UNCHANGED vars
    BY <1>1 DEF vars, rows
  <1>2. CASE Settle
    <2>1. UNCHANGED <<torn, log>> /\ raised = "none" /\ at = "settle"
      BY <1>2 DEF Settle, Unwinds
    <2>2. QED
      BY <2>1
  <1>3. CASE WriteFails
    BY <1>3, LogGrows DEF WriteFails, TypeInv, UsageType
  <1>4. CASE Interrupt
    <2>1. CASE torn
      BY <1>4, <1>a, <2>1 DEF Interrupt, Offered, Unwinds
    <2>2. CASE ~torn
      <3>1. at = "write"
        BY <1>4, <2>2 DEF Interrupt, Midway
      <3>2. status # "awaiting_approval"
        BY <3>1 DEF Offered
      <3>3. QED
        BY <1>4, <3>2 DEF Interrupt
    <2>3. QED
      BY <2>1, <2>2
  <1>5. CASE Kill
    <2>1. CASE torn
      BY <1>5, <1>a, <2>1 DEF Kill, Gone, rows
    <2>2. CASE ~torn
      <3>1. at = "write"
        BY <1>5, <2>2 DEF Kill, Midway
      <3>2. status # "awaiting_approval"
        BY <3>1 DEF Offered
      <3>3. QED
        BY <1>5, <3>2 DEF Kill, Gone, rows
    <2>3. QED
      BY <2>1, <2>2
  <1>6. CASE Preflight \/ CreateRun \/ SetContext \/ Allocate
    <2>1. UNCHANGED <<torn, log>> /\ raised = "none" /\ at # "ended"
      BY <1>6 DEF Preflight, CreateRun, SetContext, Allocate, Unwinds, rows
    <2>2. QED
      BY <2>1
  <1>7. CASE Refused \/ Ask \/ Answer \/ AnswerFails
    <2>1. UNCHANGED torn /\ raised = "none" /\ at # "ended"
      BY <1>7 DEF Refused, Ask, Answer, AnswerFails, Unwinds
    <2>2. QED
      BY <1>a, <2>1
  <1>8. CASE Delegation
    <2>1. UNCHANGED torn /\ raised = "none" /\ at # "ended"
      BY <1>8 DEF Delegation, DelegateReader, DelegateImplementer, DelegateRepairer,
             DelegateReviewer, ManagerVerifies, EndStep, CanDelegate, Unwinds
    <2>2. QED
      BY <1>a, <2>1
  <1>9. CASE Apply \/ Write \/ Inspect \/ Verify \/ StartReview \/ ReviewEnds \/ Diff \/ Break
    <2>1. UNCHANGED torn /\ raised = "none" /\ at # "ended"
      BY <1>9 DEF Apply, Write, Inspect, Verify, StartReview, ReviewEnds, Diff, Break,
                  Unwinds
    <2>2. QED
      BY <1>a, <2>1
  <1>10. CASE Leave \/ Unwind \/ Return
    <2>1. /\ UNCHANGED <<torn, log, status>> /\ at # "ended"
          /\ raised = "interrupt" => raised' = "interrupt"
      BY <1>10 DEF Leave, Unwind, Return, rows
    <2>2. QED
      BY <2>1
  <1>11. CASE Abort
    BY <1>11 DEF Abort
  <1>12. QED
    BY <1>1, <1>2, <1>3, <1>4, <1>5, <1>6, <1>7, <1>8, <1>9, <1>10, <1>11
       DEF Next, Proceed

\* A run that is settled, or aborts, does not get back to work.
LEMMA ReturnsOrAborts ==
    ASSUME Unwinds, Closing, at \in {"return", "abort"}, Interrupt
    PROVE  at' \in {"abort", "ended"}
  <1>1. CASE at = "return"
    <2>1. ~lost
      BY <1>1 DEF Unwinds
    <2>2. step.agent # "running" /\ step.manager # "running"
      BY <1>1, <2>1 DEF Closing, AgentPlaces
    <2>3. QED
      BY <1>1, <2>2 DEF Interrupt, Interrupted
  <1>2. CASE at = "abort"
    BY <1>2 DEF Interrupt, Interrupted
  <1>3. QED
    BY <1>1, <1>2

LEMMA NextOffered ==
    TypeInv /\ Unwinds /\ Closing /\ ApprovalInv /\ [Next]_vars => Offered'
  <1> SUFFICES ASSUME TypeInv, Unwinds, Closing, ApprovalInv, [Next]_vars,
                      status' = "awaiting_approval"
               PROVE  /\ at' \in {"return", "abort", "ended"}
                      /\ ApprovalIsEarned'
    BY DEF Offered
  <1>a. /\ status = "awaiting_approval" =>
              at \in {"return", "abort", "ended"} /\ ApprovalIsEarned
        /\ InScope
    BY DEF ApprovalInv, Offered
  <1>1. ASSUME UNCHANGED <<status, tree, log, torn>>, at' \in {"return", "abort", "ended"}
        PROVE  at' \in {"return", "abort", "ended"} /\ ApprovalIsEarned'
    BY <1>1, <1>a DEF ApprovalIsEarned, Same, Changed
  <1>2. CASE UNCHANGED vars
    BY <1>2, <1>1, <1>a DEF vars, rows, work
  <1>3. CASE Settle
    <2>1. /\ log.diff # None /\ log.verified # None /\ log.verified.passed
          /\ ~log.editErrors /\ verdict = "pass"
      BY <1>3 DEF Settle, Determine
    <2>2. /\ Same(log.diff, tree) /\ Same(log.verified.tree, tree)
          /\ log.reviewed # None /\ log.reviewed.verdict = "pass"
          /\ Same(log.reviewed.tree, tree)
      BY <1>3, <2>1 DEF Settle, ApprovalInv, Final, VerificationStands, ReviewStands
    <2>3. raised = "none" /\ at = "settle"
      BY <1>3 DEF Settle, Unwinds
    <2>4. ~torn
      BY <2>1, <2>3 DEF ApprovalInv, TornIsKnown
    <2>5. /\ UNCHANGED <<log, tree, torn>> /\ at' = "return"
      BY <1>3 DEF Settle, work
    <2>6. Changed \subseteq Scope \cup Litter
      BY <1>a DEF InScope
    <2>7. QED
      BY <2>1, <2>2, <2>4, <2>5, <2>6 DEF ApprovalIsEarned, Same, Changed
  <1>4. CASE Return \/ Abort
    BY <1>4, <1>1 DEF Return, Abort, Gone, rows
  <1>5. CASE Interrupt \/ Kill
    <2>1. at \in {"return", "abort"} /\ UNCHANGED status
      BY <1>5, <1>a DEF Interrupt, Kill, rows
    <2>2. UNCHANGED <<tree, log, torn>>
      BY <1>5, <2>1 DEF Interrupt, Kill, Midway, Measured, rows, work, TypeInv, ProcessType
    <2>3. at' \in {"abort", "ended"}
      BY <1>5, <2>1, ReturnsOrAborts DEF Kill, Gone
    <2>4. QED
      BY <1>1, <2>1, <2>2, <2>3
  <1>6. CASE Preflight \/ CreateRun \/ SetContext \/ Allocate
    <2>1. /\ at \in {"preflight", "create", "context", "worktree"}
          /\ status' = status \/ status' \in {"created", "running"}
      BY <1>6 DEF Preflight, CreateRun, SetContext, Allocate, rows
    <2>2. QED
      BY <1>a, <2>1
  <1>7. CASE Refused \/ Ask \/ Answer \/ AnswerFails
    <2>1. at \in {"ask", "answer"} /\ UNCHANGED status
      BY <1>7 DEF Refused, Ask, Answer, AnswerFails, rows
    <2>2. QED
      BY <1>a, <2>1
  <1>8. CASE Delegation
    <2>1. at = "acting" /\ UNCHANGED status
      BY <1>8 DEF Delegation, DelegateReader, DelegateImplementer, DelegateRepairer,
             DelegateReviewer, ManagerVerifies, EndStep, CanDelegate, rows
    <2>2. QED
      BY <1>a, <2>1
  <1>9. CASE Apply \/ Write \/ WriteFails \/ Inspect
    <2>1. at \in {"apply", "write", "inspect"} /\ UNCHANGED status
      BY <1>9 DEF Apply, Write, WriteFails, Inspect, rows
    <2>2. QED
      BY <1>a, <2>1
  <1>10. CASE Verify \/ StartReview \/ ReviewEnds \/ Leave \/ Unwind \/ Diff \/ Break
    <2>1. /\ at \in {"verify", "review", "reviewing", "leave", "unwind", "diff", "settle"}
          /\ UNCHANGED status
      BY <1>10 DEF Verify, StartReview, ReviewEnds, Leave, Unwind, Diff, Break, rows
    <2>2. QED
      BY <1>a, <2>1
  <1>11. QED
    BY <1>2, <1>3, <1>4, <1>5, <1>6, <1>7, <1>8, <1>9, <1>10 DEF Next, Proceed

LEMMA NextFinal == TypeInv /\ Unwinds /\ Closing /\ Final /\ [Next]_vars => Final'
  <1> SUFFICES ASSUME TypeInv, Unwinds, Closing, Final, [Next]_vars PROVE Final'
    OBVIOUS
  <1>a. log \in Logs /\ tree \in Trees
    BY DEF TypeInv, UsageType, WorkType
  <1>b. log.editErrors => log.toolErrors
    BY DEF TypeInv, UsageType
  <1> DEFINE Late == {"return", "abort", "ended"}
             Checking == {"verify", "review", "reviewing", "settle"}
  \* Before the orchestrator's own checks no diff is on record.
  <1>1. ASSUME at \notin Late \cup Checking, log'.diff = log.diff, at' # "reviewing"
        PROVE  Final'
    BY <1>1 DEF Final
  <1>2. ASSUME at' \in Late PROVE Final'
    <2>1. Final' <=> TRUE
      BY <1>2 DEF Final
    <2>2. QED
      BY <2>1
  <1>3. CASE UNCHANGED vars
    BY <1>3 DEF vars, rows, work, Final, VerificationStands, ReviewStands, Same
  <1>4. CASE Preflight \/ CreateRun \/ SetContext \/ Allocate
    BY <1>4, <1>1 DEF Preflight, CreateRun, SetContext, Allocate, rows
  <1>5. CASE Refused \/ Ask
    BY <1>5, <1>1, <1>a DEF Refused, Ask, RaiseHere, Unwinding, rows, Logs
  <1>6. CASE Answer \/ AnswerFails
    <2>1. at = "answer" /\ at' # "reviewing"
      BY <1>6 DEF Answer, AnswerFails, RaiseHere, Unwinding, Answered
    <2>2. PICK u \in Reports : log' = Metered(log, u)
      <3>1. None \in Reports
        BY DEF Reports
      <3>2. QED
        BY <1>6, <3>1 DEF Answer, AnswerFails
    <2>3. log'.diff = log.diff
      BY <2>2, <1>a, <1>b, LogGrows
    <2>4. QED
      BY <1>1, <2>1, <2>3
  <1>7. CASE Delegation
    <2>1. at = "acting" /\ at' # "reviewing"
      BY <1>7 DEF Delegation, DelegateReader, DelegateImplementer, DelegateRepairer,
             DelegateReviewer, ManagerVerifies, EndStep, CanDelegate, Delegated
    <2>2. log' = log \/ log' = Metered(log, None)
      BY <1>7, DelegationLog
    <2>3. Metered(log, None).diff = log.diff
      BY <1>a, <1>b, LogGrows DEF Reports
    <2>4. QED
      BY <1>1, <2>1, <2>2, <2>3
  <1>8. CASE Apply \/ Write \/ WriteFails \/ Inspect
    <2>1. at \in {"apply", "write", "inspect"} /\ at' # "reviewing"
      BY <1>8 DEF Apply, Write, WriteFails, Inspect, RaiseHere, Unwinding
    <2>2. log' = log \/ log' = EditFailed(log)
      BY <1>8 DEF Apply, Write, WriteFails, Inspect, rows
    <2>3. log'.diff = log.diff
      BY <2>2, <1>a, <1>b, LogGrows
    <2>4. QED
      BY <1>1, <2>1, <2>3
  <1>9. CASE Verify
    <2>1. PICK passed \in BOOLEAN, litter \in SUBSET Litter :
             /\ log' = [log EXCEPT !.verified = [tree |-> tree, passed |-> passed],
                                   !.attempts = @ + 1, !.fresh = FALSE]
             /\ tree' = [p \in Paths |-> p \in litter \/ tree[p]]
      BY <1>9 DEF Verify
    <2>2. log'.diff = log.diff
      BY <2>1, <1>a DEF Logs
    <2>3. log'.verified = [tree |-> tree, passed |-> passed]
      BY <2>1, <1>a DEF Logs
    <2>4. Same(tree, tree') /\ (Same(log.diff, tree) => Same(log.diff, tree'))
      BY <2>1, <1>a, AgentRunAssumption DEF Same, Trees
    <2>5. Same(log.verified.tree, tree)'
      BY <2>3, <2>4 DEF Same
    <2>6. at = "verify" /\ UNCHANGED job /\ (job.final => at' = "review")
      BY <1>9 DEF Verify
    <2>7. at' \notin {"reviewing", "settle"}
      BY <1>9 DEF Verify
    <2>8. log.diff # None => job.final /\ Same(log.diff, tree)
      BY <2>6 DEF Final
    <2>9. Same(log.diff, tree)' <=> Same(log.diff, tree')
      BY <2>2 DEF Same
    <2>10. QED
      BY <2>2, <2>4, <2>5, <2>6, <2>7, <2>8, <2>9 DEF Final, VerificationStands
  <1>10. CASE StartReview
    <2>1. /\ at = "review" /\ at' = "reviewing" /\ UNCHANGED <<log, tree, job>>
          /\ file' = None /\ verdict' = None
      BY <1>10 DEF StartReview, rows
    <2>2. QED
      BY <2>1 DEF Final, VerificationStands, Same
  <1>11. CASE ReviewEnds
    <2>1. PICK u \in Reports :
             IF file' = None
             THEN log' = [log EXCEPT !.toolErrors = TRUE] /\ verdict' = None
             ELSE /\ log' = [Metered(log, u) EXCEPT !.reviewed = file', !.fresh = TRUE]
                  /\ verdict' = file'.verdict
      BY <1>11 DEF ReviewEnds
    <2>2. /\ at = "reviewing" /\ at' = AfterReview /\ UNCHANGED <<tree, job>>
          /\ file' \in Written \cup {file}
      BY <1>11 DEF ReviewEnds
    <2>3. log'.diff = log.diff /\ log'.verified = log.verified
          /\ (file' # None => log'.reviewed = file')
      <3>1. CASE file' = None
        BY <2>1, <3>1, <1>a DEF Logs
      <3>2. CASE file' # None
        <4> DEFINE l == Metered(log, u)
        <4>1. l \in Logs /\ l.diff = log.diff /\ l.verified = log.verified
          BY <1>a, <1>b, LogGrows
        <4>2. log' = [l EXCEPT !.reviewed = file', !.fresh = TRUE]
          BY <2>1, <3>2
        <4> HIDE DEF l
        <4>3. QED
          BY <4>1, <4>2 DEF Logs
      <3>3. QED
        BY <3>1, <3>2
    <2>4. verdict' = "pass" => ReviewStands'
      <3>1. verdict' = "pass" => file' # None
        <4>1. None # "pass"
          BY AgentRunAssumption
        <4>2. QED
          BY <2>1, <4>1
      <3>2. file' # None => file' \in Written
        BY <2>2 DEF Final
      <3>3. file' \in Written => file'.tree = tree
        BY DEF Written
      <3>4. QED
        BY <2>1, <2>2, <2>3, <3>1, <3>2, <3>3 DEF ReviewStands, Same
    <2>5. /\ VerificationStands => VerificationStands'
          /\ Same(log.diff, tree)' <=> Same(log.diff, tree)
      BY <2>2, <2>3 DEF VerificationStands, Same
    <2>6. QED
      BY <2>2, <2>3, <2>4, <2>5 DEF Final, AfterReview
  <1>12. CASE Leave \/ Unwind
    BY <1>12, <1>1 DEF Leave, Unwind, rows
  <1>13. CASE Diff
    <2>1. at = "diff" /\ log.diff = None
      BY <1>13 DEF Diff, Final
    <2>2. CASE at' = "settle" /\ UNCHANGED log
      BY <2>1, <2>2 DEF Final
    <2>3. CASE at' = "verify" /\ log' = [log EXCEPT !.diff = tree]
      <3>1. log'.diff = tree /\ job'.final /\ UNCHANGED tree
        BY <1>13, <2>3, <1>a DEF Diff, work, Logs, Nobody
      <3>2. QED
        BY <2>3, <3>1 DEF Final, Same
    <2>4. QED
      BY <1>13, <2>2, <2>3 DEF Diff
  <1>14. CASE Settle \/ Return \/ Abort \/ Break \/ Kill
    BY <1>14, <1>2 DEF Settle, Return, Abort, Break, Kill, Gone
  <1>15. CASE Interrupt
    <2>1. at' \in {"ended", "leave", "unwind", "abort"} /\ at # "ended"
      BY <1>15 DEF Interrupt, Interrupted
    <2>2. CASE at \in Late
      BY <1>2, <1>15, <2>1, <2>2, ReturnsOrAborts
    <2>3. CASE log.diff # None /\ at \in Checking
      <3>1. ~lost /\ job.final
        BY <2>3 DEF Unwinds, Final
      <3>2. step.agent # "running" /\ step.manager # "running"
        BY <2>3, <3>1 DEF Closing
      <3>3. at' = "abort"
        BY <1>15, <2>3, <3>2 DEF Interrupt, Interrupted
      <3>4. QED
        BY <1>2, <3>3
    <2>4. CASE log.diff = None
      <3>1. log'.diff = None
        BY <1>15, <1>a, <1>b, <2>4, LogGrows DEF Interrupt, Reports
      <3>2. QED
        BY <2>1, <3>1 DEF Final
    <2>5. QED
      BY <2>2, <2>3, <2>4 DEF Final
  <1>16. QED
    BY <1>3, <1>4, <1>5, <1>6, <1>7, <1>8, <1>9, <1>10, <1>11, <1>12, <1>13, <1>14, <1>15
       DEF Next, Proceed

LEMMA NextApproval ==
    TypeInv /\ Unwinds /\ Closing /\ ApprovalInv /\ [Next]_vars => ApprovalInv'
  BY NextInScope, NextTorn, NextFinal, NextOffered DEF ApprovalInv

LEMMA ApprovalHolds == Spec => [](Closing /\ ApprovalInv)
  BY TypeHolds, UnwindsHolds, InitClosing, NextClosing, InitApproval, NextApproval, PTL
     DEF Spec

\* ApprovalIsEarned: whatever the manager let happen before, a run awaits approval
\* only with the verified and reviewed diff that is in its worktree, inside its
\* scope, and with no batch left half applied.
THEOREM ApprovalEarned == Spec => []ApprovalIsEarned
  <1>1. ApprovalInv => ApprovalIsEarned
    BY DEF ApprovalInv, Offered, ApprovalIsEarned
  <1>2. QED
    BY <1>1, ApprovalHolds, PTL

-----------------------------------------------------------------------------
(***************************************************************************)
(* Model calls and the budget.                                             *)
(***************************************************************************)

\* Every request belongs to a call that has a row of metrics, which sent no more
\* than one call may, or an error is on record, or the run was cut off before it
\* could settle.
Metering ==
    \/ made <= MaxRequests * log.calls
    \/ log.toolErrors
    \/ status # "awaiting_approval" /\ (raised = "interrupt" \/ at = "ended")

\* One more row of metrics allows for the requests of one more call.
LEMMA OneMoreCall ==
    ASSUME NEW m \in Nat, NEW c \in Nat, m <= MaxRequests * c
    PROVE  /\ m <= MaxRequests * (c + 1)
           /\ \A n \in 0..MaxRequests : m + n <= MaxRequests * (c + 1)
  <1>1. MaxRequests \in Nat
    BY AgentRunAssumption
  <1>2. /\ MaxRequests * c \in Nat
        /\ MaxRequests * (c + 1) = MaxRequests * c + MaxRequests
    BY <1>1
  <1> DEFINE k == MaxRequests * c
  <1>3. QED
    <2>1. k \in Nat /\ m <= k /\ MaxRequests * (c + 1) = k + MaxRequests
      BY <1>2
    <2> HIDE DEF k
    <2>2. QED
      BY <1>1, <2>1

\* The bound is monotone in the number of calls.
LEMMA MoreCalls ==
    ASSUME NEW c \in Nat, NEW d \in Nat, c <= d
    PROVE  MaxRequests * c <= MaxRequests * d
  <1>1. MaxRequests \in Nat /\ d - c \in Nat /\ d = c + (d - c)
    BY AgentRunAssumption
  <1>2. MaxRequests * d = MaxRequests * c + MaxRequests * (d - c)
    BY <1>1
  <1>3. MaxRequests * (d - c) \in Nat /\ MaxRequests * c \in Nat
    BY <1>1
  <1> DEFINE a == MaxRequests * c
             b == MaxRequests * (d - c)
  <1>4. QED
    <2>1. a \in Nat /\ b \in Nat /\ MaxRequests * d = a + b
      BY <1>2, <1>3
    <2> HIDE DEF a, b
    <2>2. a <= a + b
      BY <2>1
    <2>3. QED
      BY <2>1, <2>2 DEF a

LEMMA NextMetering ==
    TypeInv /\ Unwinds /\ Closing /\ ApprovalInv /\ Metering /\ [Next]_vars => Metering'
  <1> SUFFICES ASSUME TypeInv, Unwinds, Closing, ApprovalInv, Metering, [Next]_vars
               PROVE  Metering'
    OBVIOUS
  <1>a. log \in Logs /\ made \in Nat /\ log.calls \in Nat
        /\ (log.editErrors => log.toolErrors)
    BY DEF TypeInv, UsageType, Logs
  <1>b. log.toolErrors => log'.toolErrors
    BY ErrorsStay
  <1> USE DEF Metering
  <1>1. ASSUME UNCHANGED made, log'.calls = log.calls, raised # "interrupt", at # "ended"
        PROVE  Metering'
    BY <1>1, <1>a, <1>b
  <1>c. ASSUME \E n \in 0..MaxRequests : made' = made + n, log'.calls = log.calls + 1,
               raised # "interrupt", at # "ended"
        PROVE  Metering'
    <2>1. CASE made <= MaxRequests * log.calls
      <3>1. made' <= MaxRequests * (log.calls + 1)
        BY <1>a, <1>c, <2>1, OneMoreCall
      <3>2. QED
        BY <1>c, <3>1
    <2>2. CASE log.toolErrors
      BY <1>b, <2>2
    <2>3. QED
      BY <1>c, <2>1, <2>2
  <1>2. CASE UNCHANGED vars
    BY <1>2 DEF vars, rows, usage
  <1>3. CASE Preflight \/ CreateRun \/ SetContext \/ Allocate
    BY <1>3, <1>1 DEF Preflight, CreateRun, SetContext, Allocate, rows, usage, Unwinds
  <1>4. CASE Refused
    <2>1. UNCHANGED made /\ raised # "interrupt" /\ at # "ended"
      BY <1>4 DEF Refused, usage, Unwinds
    <2>2. log'.calls = log.calls \/ log'.calls = log.calls + 1
      BY <1>4, <1>a DEF Refused, Logs
    <2>3. CASE log'.calls = log.calls
      BY <1>1, <2>1, <2>3
    <2>4. CASE log'.calls = log.calls + 1
      <3>1. made' = made + 0 /\ 0 \in 0..MaxRequests
        BY <1>a, <2>1, RequestBounds
      <3>2. QED
        BY <1>c, <2>1, <2>4, <3>1
    <2>5. QED
      BY <2>2, <2>3, <2>4
  <1>5. CASE Ask \/ Apply \/ Write \/ WriteFails \/ Inspect
    <2>1. /\ UNCHANGED made /\ raised # "interrupt" /\ at # "ended"
          /\ log' = log \/ log' = EditFailed(log)
      BY <1>5 DEF Ask, Apply, Write, WriteFails, Inspect, rows, usage, Unwinds
    <2>2. EditFailed(log).calls = log.calls
      BY <1>a DEF EditFailed, Logs
    <2>3. QED
      BY <1>1, <2>1, <2>2
  <1>6. CASE Answer \/ AnswerFails
    <2>1. PICK u \in Reports : log' = Metered(log, u)
      <3>1. None \in Reports
        BY DEF Reports
      <3>2. QED
        BY <1>6, <3>1 DEF Answer, AnswerFails
    <2>2. log'.calls = log.calls + 1
      BY <2>1, <1>a, LogGrows
    <2>3. \E n \in 0..MaxRequests : made' = made + n
      BY <1>6, RequestBounds DEF Answer, AnswerFails
    <2>4. raised # "interrupt" /\ at # "ended"
      BY <1>6 DEF Answer, AnswerFails, Unwinds
    <2>5. QED
      BY <1>c, <2>2, <2>3, <2>4
  <1>7. CASE Delegation
    <2>1. UNCHANGED made /\ raised # "interrupt" /\ at # "ended"
      BY <1>7 DEF Delegation, DelegateReader, DelegateImplementer, DelegateRepairer,
             DelegateReviewer, ManagerVerifies, EndStep, CanDelegate, usage, Unwinds
    <2>2. log' = log \/ log' = Metered(log, None)
      BY <1>7, DelegationLog
    <2>3. CASE log' = log
      BY <1>1, <2>1, <2>3
    <2>4. CASE log' = Metered(log, None)
      <3>1. log'.calls = log.calls + 1
        BY <1>a, <2>4, LogGrows DEF Reports
      <3>2. made' = made + 0 /\ 0 \in 0..MaxRequests
        BY <1>a, <2>1, RequestBounds
      <3>3. QED
        BY <1>c, <2>1, <3>1, <3>2
    <2>5. QED
      BY <2>2, <2>3, <2>4
  <1>8. CASE Verify
    <2>1. log'.calls = log.calls
      BY <1>8, <1>a DEF Verify, Logs
    <2>2. QED
      BY <1>8, <1>1, <2>1 DEF Verify, usage, Unwinds
  <1>9. CASE StartReview \/ Diff \/ Break
    <2>1. log'.calls = log.calls
      BY <1>9, <1>a DEF StartReview, Diff, Break, rows, Logs
    <2>2. QED
      BY <1>9, <1>1, <2>1 DEF StartReview, Diff, Break, usage, Unwinds
  <1>10. CASE ReviewEnds
    <2>1. PICK u \in Reports, asked \in 0..MaxRequests :
             /\ file' = file \/ asked > 0
             /\ made' = made + asked
             /\ IF file' = None
                THEN log' = [log EXCEPT !.toolErrors = TRUE] /\ verdict' = None
                ELSE /\ log' = [Metered(log, u) EXCEPT !.reviewed = file', !.fresh = TRUE]
                     /\ verdict' = file'.verdict
      BY <1>10 DEF ReviewEnds
    <2>2. raised # "interrupt" /\ at = "reviewing"
      BY <1>10 DEF ReviewEnds, Unwinds
    <2>3. CASE file' = None
      <3>1. log' = [log EXCEPT !.toolErrors = TRUE]
        BY <2>1, <2>3
      <3>2. log'.toolErrors
        BY <3>1, <1>a DEF Logs
      <3>3. QED
        BY <3>2
    <2>4. CASE file' # None
      <3> DEFINE l == Metered(log, u)
      <3>1. l \in Logs /\ l.calls = log.calls + 1
        BY <1>a, LogGrows
      <3>2. log' = [l EXCEPT !.reviewed = file', !.fresh = TRUE]
        BY <2>1, <2>4
      <3> HIDE DEF l
      <3>3. log'.calls = log.calls + 1
        BY <3>1, <3>2 DEF Logs
      <3>4. QED
        BY <1>c, <2>1, <2>2, <3>3
    <2>5. QED
      BY <2>3, <2>4
  <1>11. CASE Settle
    BY <1>11, <1>1 DEF Settle, usage, Unwinds
  <1>12. CASE Leave \/ Unwind \/ Return
    <2>1. /\ UNCHANGED <<made, log, status>> /\ at # "ended"
          /\ raised = "interrupt" => raised' = "interrupt"
      BY <1>12 DEF Leave, Unwind, Return, rows, usage
    <2>2. QED
      BY <2>1
  <1>13. CASE Abort
    BY <1>13 DEF Abort, Gone
  <1>14. CASE Kill
    BY <1>14, <1>a DEF Kill, Gone, rows
  <1>15. CASE Interrupt
    <2>1. /\ UNCHANGED status /\ raised' = "interrupt" /\ at # "ended"
          /\ raised # "interrupt"
      BY <1>15 DEF Interrupt
    <2>2. CASE status # "awaiting_approval"
      BY <2>1, <2>2
    <2>3. CASE status = "awaiting_approval"
      <3>1. at \in {"return", "abort"}
        BY <2>1, <2>3 DEF ApprovalInv, Offered
      <3>2. UNCHANGED <<made, log>>
        <4>1. ~Measured /\ Sent = {0}
          BY <3>1 DEF Measured, Sent
        <4>2. QED
          BY <1>15, <1>a, <4>1 DEF Interrupt
      <3>3. QED
        BY <2>1, <2>3, <3>2
    <2>4. QED
      BY <2>2, <2>3
  <1>16. QED
    BY <1>2, <1>3, <1>4, <1>5, <1>6, <1>7, <1>8, <1>9, <1>10, <1>11, <1>12, <1>13, <1>14,
       <1>15
       DEF Next, Proceed

\* PromotableWithinBudget: a build without a trajectory failure sent no more requests
\* than MaxRequests for each call of its budget, whatever its agents and its reviewer,
\* whose calls are never reserved, sent.
THEOREM PromotionWithinBudget == Spec => []PromotableWithinBudget
  <1>1. TypeInv /\ Metering => PromotableWithinBudget
    <2> SUFFICES ASSUME TypeInv, Metering, Promotable PROVE made <= MaxRequests * MaxCalls
      BY DEF PromotableWithinBudget
    <2>1. status = "awaiting_approval" /\ ~log.toolErrors /\ ~(log.calls > MaxCalls)
      BY DEF Promotable, TrajectoryFailures
    <2>2. log.calls \in Nat /\ made \in Nat /\ MaxCalls \in Nat
      BY AgentRunAssumption DEF TypeInv, UsageType, Logs
    <2>3. made <= MaxRequests * log.calls /\ log.calls <= MaxCalls
      BY <2>1, <2>2 DEF Metering
    <2>4. MaxRequests * log.calls <= MaxRequests * MaxCalls
      BY <2>2, <2>3, MoreCalls
    <2>5. MaxRequests * log.calls \in Nat /\ MaxRequests * MaxCalls \in Nat
      BY <2>2, AgentRunAssumption
    <2>6. QED
      <3> DEFINE a == MaxRequests * log.calls
                 b == MaxRequests * MaxCalls
      <3>1. made <= a /\ a <= b /\ a \in Nat /\ b \in Nat
        BY <2>3, <2>4, <2>5
      <3> HIDE DEF a, b
      <3>2. made <= b
        BY <2>2, <3>1
      <3>3. QED
        BY <3>2 DEF b
  <1>2. Init => Metering
    <2>1. 0 <= MaxRequests * 0
      BY AgentRunAssumption
    <2>2. QED
      BY <2>1 DEF Init, Metering, EmptyLog
  <1>3. QED
    BY <1>1, <1>2, TypeHolds, UnwindsHolds, ApprovalHolds, NextMetering, PTL DEF Spec
=============================================================================
