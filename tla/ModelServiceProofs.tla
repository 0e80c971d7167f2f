------------------------- MODULE ModelServiceProofs -------------------------
(***************************************************************************)
(* Theorems about ModelService for any processes, profiles and pids, with   *)
(* or without faults, and whatever an operator launches by hand.           *)
(***************************************************************************)
EXTENDS ModelService, TLAPS

\* The local variables of a call at each location.
LocalsInv ==
    \A p \in Procs :
        /\ Switching(p) /\ pc[p] \in Leased => want[p] # None
        /\ pc[p] \in {"launch", "record", "await", "undo", "infer"}
              => Switching(p)
        /\ pc[p] \in {"idle", "wait", "probe", "inspect"} => phase[p] = "switch"
        /\ phase[p] = "restore" => prev[p] # None
        /\ pc[p] \in {"record", "await"} => child[p] # None

\* What the owner of the lease knows of the servers local-coder launched:
\* after the second look nothing but the server it is about to stop, then
\* nothing, then only the server it launched itself.
ServersInv ==
    /\ \A s \in managed : cmd[s] \in Profiles
    /\ \A p \in Procs :
        /\ pc[p] \in {"verify", "kill"} => managed \subseteq {seen[p]}
        /\ pc[p] = "launch" /\ phase[p] = "switch" => managed = {}
        /\ pc[p] \in {"record", "await"} /\ phase[p] = "switch"
              => \A s \in managed : cmd[s] = want[p]
        /\ pc[p] = "infer" => \A s \in managed : cmd[s] = want[p]

IInv == TypeOK /\ LeaseInv /\ LocalsInv /\ ServersInv


-----------------------------------------------------------------------------
(***************************************************************************)
(* Type correctness.                                                       *)
(***************************************************************************)

LEMMA InitType == Init => TypeOK
  BY DEF Init, TypeOK, Guarded, NoRecord, StateRecords, Operations, Identities,
         Leased

\* Each action keeps the variables in their types.
LEMMA NextType == TypeOK /\ [Next]_vars => TypeOK'
  <1> SUFFICES ASSUME TypeOK, [Next]_vars
               PROVE  TypeOK'
    OBVIOUS
  <1> USE DEF TypeOK, servers, locals, Goto, Operations, Identities, Guarded, Leased, Switching
  <1>1. ASSUME NEW p \in Procs, Request(p)
        PROVE  TypeOK'
    BY <1>1 DEF Request
  <1>2. ASSUME NEW p \in Procs, Acquire(p)
        PROVE  TypeOK'
    BY <1>2 DEF Acquire, Enter
  <1>3. ASSUME NEW p \in Procs, Probe(p)
        PROVE  TypeOK'
    BY <1>3 DEF Probe, Reads, ReadRaises
  <1>4. ASSUME NEW p \in Procs, AlreadyServing(p)
        PROVE  TypeOK'
    BY <1>4 DEF AlreadyServing, Decided, Served, Discovers, Live
  <1>5. ASSUME NEW p \in Procs, Refuse(p)
        PROVE  TypeOK'
    BY <1>5 DEF Refuse, Decided
  <1>6. ASSUME NEW p \in Procs, BeginSwitch(p)
        PROVE  TypeOK'
    BY <1>6 DEF BeginSwitch, Decided, Recognized, Discovers
  <1>7. ASSUME NEW p \in Procs, BeginStop(p)
        PROVE  TypeOK'
    BY <1>7 DEF BeginStop, Decided
  <1>8. ASSUME NEW p \in Procs, FindServer(p)
        PROVE  TypeOK'
    BY <1>8 DEF FindServer, Discovers, Live
  <1>9. ASSUME NEW p \in Procs, VerifyServer(p)
        PROVE  TypeOK'
    BY <1>9 DEF VerifyServer, AfterStop
  <1>10. ASSUME NEW p \in Procs, KillServer(p)
        PROVE  TypeOK'
    BY <1>10 DEF KillServer, AfterStop, Stopped, Gone, Live
  <1>11. ASSUME NEW p \in Procs, Launch(p)
        PROVE  TypeOK'
    BY <1>11 DEF Launch, Spawned, Target, Free
  <1>12. ASSUME NEW p \in Procs, LaunchFails(p)
        PROVE  TypeOK'
    BY <1>12 DEF LaunchFails, Failed
  <1>13. ASSUME NEW p \in Procs, Record(p)
        PROVE  TypeOK'
    BY <1>13 DEF Record, Target, Failed, StateRecords
  <1>14. ASSUME NEW p \in Procs, AwaitReady(p)
        PROVE  TypeOK'
    BY <1>14 DEF AwaitReady, Served
  <1>15. ASSUME NEW p \in Procs, AwaitFails(p)
        PROVE  TypeOK'
    BY <1>15 DEF AwaitFails, Failed
  <1>16. ASSUME NEW p \in Procs, Undo(p)
        PROVE  TypeOK'
    BY <1>16 DEF Undo, Stopped, Gone, Live
  <1>17. ASSUME NEW p \in Procs, EndInference(p)
        PROVE  TypeOK'
    BY <1>17 DEF EndInference
  <1>18. ASSUME NEW p \in Procs, CheckRecord(p)
        PROVE  TypeOK'
    BY <1>18 DEF CheckRecord, RecordMatches, StateRecords
  <1>19. ASSUME NEW p \in Procs, KillRecord(p)
        PROVE  TypeOK'
    BY <1>19 DEF KillRecord, Stopped, Gone, Live
  <1>20. ASSUME NEW p \in Procs, Unlink(p)
        PROVE  TypeOK'
    BY <1>20 DEF Unlink, NoRecord, StateRecords
  <1>21. ASSUME NEW p \in Procs, Release(p)
        PROVE  TypeOK'
    BY <1>21 DEF Release, Return
  <1>22. ASSUME NEW p \in Procs, Interrupt(p)
        PROVE  TypeOK'
    BY <1>22 DEF Interrupt, Cleaning
  <1>23. ASSUME NEW p \in Procs, InterruptWaiting(p)
        PROVE  TypeOK'
    BY <1>23 DEF InterruptWaiting, Return
  <1>24. ASSUME NEW p \in Procs, Crash(p)
        PROVE  TypeOK'
    BY <1>24 DEF Crash, Return
  <1>25. ASSUME NEW s \in Pids, ServerReady(s)
        PROVE  TypeOK'
    BY <1>25 DEF ServerReady
  <1>26. ASSUME NEW s \in Pids, ServerExit(s)
        PROVE  TypeOK'
    BY <1>26 DEF ServerExit, Gone
  <1>27. ASSUME NEW s \in Pids, OperatorLaunch(s)
        PROVE  TypeOK'
    BY <1>27, ModelServiceAssumption DEF OperatorLaunch, Spawned, Free
  <1>28. CASE UNCHANGED vars
    BY <1>28 DEF vars
  <1> HIDE DEF TypeOK
  <1>29. QED
    BY <1>1, <1>2, <1>3, <1>4, <1>5, <1>6, <1>7, <1>8, <1>9, <1>10, <1>11, <1>12, <1>13, <1>14, <1>15, <1>16, <1>17, <1>18, <1>19, <1>20, <1>21, <1>22, <1>23, <1>24, <1>25, <1>26, <1>27, <1>28
       DEF Next, Progress, Inspect, Start, Await, Fault, Environment

\* Every variable always holds a value of its type.
THEOREM TypeCorrect == Spec => []TypeOK
  BY InitType, NextType, PTL DEF Spec


-----------------------------------------------------------------------------
(***************************************************************************)
(* The lease.                                                              *)
(***************************************************************************)

\* Only the owner of the flock is inside the locked region.
LEMMA NextLease ==
    TypeOK /\ LeaseInv /\ [Next]_vars => LeaseInv'
  <1> SUFFICES ASSUME TypeOK, LeaseInv, [Next]_vars
               PROVE  LeaseInv'
    OBVIOUS
  <1> USE ModelServiceAssumption
      DEF TypeOK, LeaseInv, Goto, Guarded, Leased, servers, locals
  <1>1. ASSUME NEW p \in Procs, Request(p)
        PROVE  LeaseInv'
    BY <1>1 DEF Request
  <1>2. ASSUME NEW p \in Procs, Acquire(p)
        PROVE  LeaseInv'
    BY <1>2 DEF Acquire, Enter
  <1>3. ASSUME NEW p \in Procs, Probe(p)
        PROVE  LeaseInv'
    BY <1>3 DEF Probe
  <1>4. ASSUME NEW p \in Procs, AlreadyServing(p)
        PROVE  LeaseInv'
    BY <1>4 DEF AlreadyServing, Decided, Served
  <1>5. ASSUME NEW p \in Procs, Refuse(p)
        PROVE  LeaseInv'
    BY <1>5 DEF Refuse, Decided
  <1>6. ASSUME NEW p \in Procs, BeginSwitch(p)
        PROVE  LeaseInv'
    BY <1>6 DEF BeginSwitch, Decided
  <1>7. ASSUME NEW p \in Procs, BeginStop(p)
        PROVE  LeaseInv'
    BY <1>7 DEF BeginStop, Decided
  <1>8. ASSUME NEW p \in Procs, FindServer(p)
        PROVE  LeaseInv'
    BY <1>8 DEF FindServer
  <1>9. ASSUME NEW p \in Procs, VerifyServer(p)
        PROVE  LeaseInv'
    BY <1>9 DEF VerifyServer, AfterStop
  <1>10. ASSUME NEW p \in Procs, KillServer(p)
        PROVE  LeaseInv'
    BY <1>10 DEF KillServer, AfterStop
  <1>11. ASSUME NEW p \in Procs, Launch(p)
        PROVE  LeaseInv'
    BY <1>11 DEF Launch
  <1>12. ASSUME NEW p \in Procs, LaunchFails(p)
        PROVE  LeaseInv'
    BY <1>12 DEF LaunchFails, Failed
  <1>13. ASSUME NEW p \in Procs, Record(p)
        PROVE  LeaseInv'
    BY <1>13 DEF Record, Failed
  <1>14. ASSUME NEW p \in Procs, AwaitReady(p)
        PROVE  LeaseInv'
    BY <1>14 DEF AwaitReady, Served
  <1>15. ASSUME NEW p \in Procs, AwaitFails(p)
        PROVE  LeaseInv'
    BY <1>15 DEF AwaitFails, Failed
  <1>16. ASSUME NEW p \in Procs, Undo(p)
        PROVE  LeaseInv'
    BY <1>16 DEF Undo
  <1>17. ASSUME NEW p \in Procs, EndInference(p)
        PROVE  LeaseInv'
    BY <1>17 DEF EndInference
  <1>18. ASSUME NEW p \in Procs, CheckRecord(p)
        PROVE  LeaseInv'
    BY <1>18 DEF CheckRecord
  <1>19. ASSUME NEW p \in Procs, KillRecord(p)
        PROVE  LeaseInv'
    BY <1>19 DEF KillRecord
  <1>20. ASSUME NEW p \in Procs, Unlink(p)
        PROVE  LeaseInv'
    BY <1>20 DEF Unlink
  <1>21. ASSUME NEW p \in Procs, Release(p)
        PROVE  LeaseInv'
    BY <1>21 DEF Release, Return
  <1>22. ASSUME NEW p \in Procs, Interrupt(p)
        PROVE  LeaseInv'
    BY <1>22 DEF Interrupt, Cleaning
  <1>23. ASSUME NEW p \in Procs, InterruptWaiting(p)
        PROVE  LeaseInv'
    BY <1>23 DEF InterruptWaiting, Return
  <1>24. ASSUME NEW p \in Procs, Crash(p)
        PROVE  LeaseInv'
    BY <1>24 DEF Crash, Return
  <1>25. ASSUME NEW s \in Pids, ServerReady(s)
        PROVE  LeaseInv'
    BY <1>25 DEF ServerReady
  <1>26. ASSUME NEW s \in Pids, ServerExit(s)
        PROVE  LeaseInv'
    BY <1>26 DEF ServerExit, Gone
  <1>27. ASSUME NEW s \in Pids, OperatorLaunch(s)
        PROVE  LeaseInv'
    BY <1>27 DEF OperatorLaunch, Spawned
  <1>28. CASE UNCHANGED vars
    BY <1>28 DEF vars
  <1> HIDE DEF TypeOK, LeaseInv
  <1>29. QED
    BY <1>1, <1>2, <1>3, <1>4, <1>5, <1>6, <1>7, <1>8, <1>9,
       <1>10, <1>11, <1>12, <1>13, <1>14, <1>15, <1>16, <1>17,
       <1>18, <1>19, <1>20, <1>21, <1>22, <1>23, <1>24, <1>25,
       <1>26, <1>27, <1>28
       DEF Next, Progress, Inspect, Start, Await, Fault, Environment

LEMMA InitLease == Init => LeaseInv
  <1> SUFFICES ASSUME Init, NEW p \in Procs
               PROVE  pc[p] \in Leased <=> lock = p
    BY DEF LeaseInv
  <1>1. pc[p] = "idle" /\ lock = None
    BY DEF Init
  <1>2. lock # p
    BY <1>1, ModelServiceAssumption
  <1>3. QED
    BY <1>1, <1>2 DEF Leased, Guarded

\* At most one process is inside the locked region, and it owns the flock.
THEOREM LeaseExclusive == Spec => []LeaseInv
  <1>1. TypeOK /\ LeaseInv /\ [Next]_vars => LeaseInv'
    BY NextLease
  <1>2. QED
    BY InitLease, <1>1, TypeCorrect, PTL DEF Spec


-----------------------------------------------------------------------------
(***************************************************************************)
(* The inductive invariant.                                                *)
(***************************************************************************)

\* The local variables of a call are set when they are used.
LEMMA NextLocals ==
    TypeOK /\ LocalsInv /\ [Next]_vars => LocalsInv'
  <1> SUFFICES ASSUME TypeOK, LocalsInv, [Next]_vars
               PROVE  LocalsInv'
    OBVIOUS
  <1> USE ModelServiceAssumption
      DEF TypeOK, LocalsInv, Goto, Switching, Guarded, Leased, servers, locals
  <1>1. ASSUME NEW p \in Procs, Request(p)
        PROVE  LocalsInv'
    BY <1>1 DEF Request
  <1>2. ASSUME NEW p \in Procs, Acquire(p)
        PROVE  LocalsInv'
    BY <1>2 DEF Acquire, Enter, Operations
  <1>3. ASSUME NEW p \in Procs, Probe(p)
        PROVE  LocalsInv'
    BY <1>3 DEF Probe
  <1>4. ASSUME NEW p \in Procs, AlreadyServing(p)
        PROVE  LocalsInv'
    BY <1>4 DEF AlreadyServing, Decided, Served
  <1>5. ASSUME NEW p \in Procs, Refuse(p)
        PROVE  LocalsInv'
    BY <1>5 DEF Refuse, Decided
  <1>6. ASSUME NEW p \in Procs, BeginSwitch(p)
        PROVE  LocalsInv'
    BY <1>6 DEF BeginSwitch, Decided, Recognized
  <1>7. ASSUME NEW p \in Procs, BeginStop(p)
        PROVE  LocalsInv'
    BY <1>7 DEF BeginStop, Decided
  <1>8. ASSUME NEW p \in Procs, FindServer(p)
        PROVE  LocalsInv'
    BY <1>8 DEF FindServer
  <1>9. ASSUME NEW p \in Procs, VerifyServer(p)
        PROVE  LocalsInv'
    BY <1>9 DEF VerifyServer, AfterStop
  <1>10. ASSUME NEW p \in Procs, KillServer(p)
        PROVE  LocalsInv'
    BY <1>10 DEF KillServer, AfterStop
  <1>11. ASSUME NEW p \in Procs, Launch(p)
        PROVE  LocalsInv'
    BY <1>11 DEF Launch
  <1>12. ASSUME NEW p \in Procs, LaunchFails(p)
        PROVE  LocalsInv'
    BY <1>12 DEF LaunchFails, Failed
  <1>13. ASSUME NEW p \in Procs, Record(p)
        PROVE  LocalsInv'
    BY <1>13 DEF Record, Failed
  <1>14. ASSUME NEW p \in Procs, AwaitReady(p)
        PROVE  LocalsInv'
    BY <1>14 DEF AwaitReady, Served
  <1>15. ASSUME NEW p \in Procs, AwaitFails(p)
        PROVE  LocalsInv'
    BY <1>15 DEF AwaitFails, Failed
  <1>16. ASSUME NEW p \in Procs, Undo(p)
        PROVE  LocalsInv'
    BY <1>16 DEF Undo
  <1>17. ASSUME NEW p \in Procs, EndInference(p)
        PROVE  LocalsInv'
    BY <1>17 DEF EndInference
  <1>18. ASSUME NEW p \in Procs, CheckRecord(p)
        PROVE  LocalsInv'
    BY <1>18 DEF CheckRecord
  <1>19. ASSUME NEW p \in Procs, KillRecord(p)
        PROVE  LocalsInv'
    BY <1>19 DEF KillRecord
  <1>20. ASSUME NEW p \in Procs, Unlink(p)
        PROVE  LocalsInv'
    BY <1>20 DEF Unlink
  <1>21. ASSUME NEW p \in Procs, Release(p)
        PROVE  LocalsInv'
    BY <1>21 DEF Release, Return
  <1>22. ASSUME NEW p \in Procs, Interrupt(p)
        PROVE  LocalsInv'
    BY <1>22 DEF Interrupt, Cleaning
  <1>23. ASSUME NEW p \in Procs, InterruptWaiting(p)
        PROVE  LocalsInv'
    BY <1>23 DEF InterruptWaiting, Return
  <1>24. ASSUME NEW p \in Procs, Crash(p)
        PROVE  LocalsInv'
    BY <1>24 DEF Crash, Return
  <1>25. ASSUME NEW s \in Pids, ServerReady(s)
        PROVE  LocalsInv'
    BY <1>25 DEF ServerReady
  <1>26. ASSUME NEW s \in Pids, ServerExit(s)
        PROVE  LocalsInv'
    BY <1>26 DEF ServerExit, Gone
  <1>27. ASSUME NEW s \in Pids, OperatorLaunch(s)
        PROVE  LocalsInv'
    BY <1>27 DEF OperatorLaunch, Spawned
  <1>28. CASE UNCHANGED vars
    BY <1>28 DEF vars
  <1> HIDE DEF TypeOK, LocalsInv
  <1>29. QED
    BY <1>1, <1>2, <1>3, <1>4, <1>5, <1>6, <1>7, <1>8, <1>9,
       <1>10, <1>11, <1>12, <1>13, <1>14, <1>15, <1>16, <1>17,
       <1>18, <1>19, <1>20, <1>21, <1>22, <1>23, <1>24, <1>25,
       <1>26, <1>27, <1>28
       DEF Next, Progress, Inspect, Start, Await, Fault, Environment

\* Only the owner of the lease adds to the servers local-coder launched.
LEMMA NextServers ==
    IInv /\ [Next]_vars => ServersInv'
  <1> SUFFICES ASSUME TypeOK, LeaseInv, LocalsInv, ServersInv, [Next]_vars
               PROVE  ServersInv'
    BY DEF IInv
  <1> USE ModelServiceAssumption
      DEF TypeOK, LeaseInv, ServersInv, Goto, Guarded, Leased, servers, locals, Live
  <1>1. ASSUME NEW p \in Procs, Request(p)
        PROVE  ServersInv'
    BY <1>1 DEF Request
  <1>2. ASSUME NEW p \in Procs, Acquire(p)
        PROVE  ServersInv'
    BY <1>2 DEF Acquire, Enter
  <1>3. ASSUME NEW p \in Procs, Probe(p)
        PROVE  ServersInv'
    BY <1>3 DEF Probe
  <1>4. ASSUME NEW p \in Procs, AlreadyServing(p)
        PROVE  ServersInv'
    BY <1>4 DEF AlreadyServing, Decided, Served, Discovers
  <1>5. ASSUME NEW p \in Procs, Refuse(p)
        PROVE  ServersInv'
    BY <1>5 DEF Refuse, Decided
  <1>6. ASSUME NEW p \in Procs, BeginSwitch(p)
        PROVE  ServersInv'
    BY <1>6 DEF BeginSwitch, Decided
  <1>7. ASSUME NEW p \in Procs, BeginStop(p)
        PROVE  ServersInv'
    BY <1>7 DEF BeginStop, Decided
  <1>8. ASSUME NEW p \in Procs, FindServer(p)
        PROVE  ServersInv'
    BY <1>8 DEF FindServer, Discovers
  <1>9. ASSUME NEW p \in Procs, VerifyServer(p)
        PROVE  ServersInv'
    BY <1>9 DEF VerifyServer, AfterStop
  <1>10. ASSUME NEW p \in Procs, KillServer(p)
        PROVE  ServersInv'
    BY <1>10 DEF KillServer, AfterStop, Stopped, Gone
  <1>11. ASSUME NEW p \in Procs, Launch(p)
        PROVE  ServersInv'
    BY <1>11 DEF Launch, Spawned, Target, LocalsInv
  <1>12. ASSUME NEW p \in Procs, LaunchFails(p)
        PROVE  ServersInv'
    BY <1>12 DEF LaunchFails, Failed
  <1>13. ASSUME NEW p \in Procs, Record(p)
        PROVE  ServersInv'
    BY <1>13 DEF Record, Failed
  <1>14. ASSUME NEW p \in Procs, AwaitReady(p)
        PROVE  ServersInv'
    BY <1>14 DEF AwaitReady, Served
  <1>15. ASSUME NEW p \in Procs, AwaitFails(p)
        PROVE  ServersInv'
    BY <1>15 DEF AwaitFails, Failed
  <1>16. ASSUME NEW p \in Procs, Undo(p)
        PROVE  ServersInv'
    BY <1>16 DEF Undo, Stopped, Gone, LocalsInv
  <1>17. ASSUME NEW p \in Procs, EndInference(p)
        PROVE  ServersInv'
    BY <1>17 DEF EndInference
  <1>18. ASSUME NEW p \in Procs, CheckRecord(p)
        PROVE  ServersInv'
    BY <1>18 DEF CheckRecord
  <1>19. ASSUME NEW p \in Procs, KillRecord(p)
        PROVE  ServersInv'
    BY <1>19 DEF KillRecord, Stopped, Gone
  <1>20. ASSUME NEW p \in Procs, Unlink(p)
        PROVE  ServersInv'
    BY <1>20 DEF Unlink
  <1>21. ASSUME NEW p \in Procs, Release(p)
        PROVE  ServersInv'
    BY <1>21 DEF Release, Return
  <1>22. ASSUME NEW p \in Procs, Interrupt(p)
        PROVE  ServersInv'
    BY <1>22 DEF Interrupt, Cleaning
  <1>23. ASSUME NEW p \in Procs, InterruptWaiting(p)
        PROVE  ServersInv'
    BY <1>23 DEF InterruptWaiting, Return
  <1>24. ASSUME NEW p \in Procs, Crash(p)
        PROVE  ServersInv'
    BY <1>24 DEF Crash, Return
  <1>25. ASSUME NEW s \in Pids, ServerReady(s)
        PROVE  ServersInv'
    BY <1>25 DEF ServerReady
  <1>26. ASSUME NEW s \in Pids, ServerExit(s)
        PROVE  ServersInv'
    BY <1>26 DEF ServerExit, Gone
  <1>27. ASSUME NEW s \in Pids, OperatorLaunch(s)
        PROVE  ServersInv'
    BY <1>27 DEF OperatorLaunch, Spawned, Free, Identities
  <1>28. CASE UNCHANGED vars
    BY <1>28 DEF vars
  <1> HIDE DEF TypeOK, LeaseInv, ServersInv
  <1>29. QED
    BY <1>1, <1>2, <1>3, <1>4, <1>5, <1>6, <1>7, <1>8, <1>9,
       <1>10, <1>11, <1>12, <1>13, <1>14, <1>15, <1>16, <1>17,
       <1>18, <1>19, <1>20, <1>21, <1>22, <1>23, <1>24, <1>25,
       <1>26, <1>27, <1>28
       DEF Next, Progress, Inspect, Start, Await, Fault, Environment

LEMMA InitServers == Init => LocalsInv /\ ServersInv
  <1> SUFFICES ASSUME Init
               PROVE  LocalsInv /\ ServersInv
    OBVIOUS
  <1>1. /\ managed = {}
        /\ \A p \in Procs : pc[p] = "idle" /\ phase[p] = "switch"
    BY DEF Init
  <1>2. LocalsInv
    BY <1>1 DEF LocalsInv, Leased, Guarded
  <1>3. ServersInv
    BY <1>1 DEF ServersInv
  <1>4. QED
    BY <1>2, <1>3

\* IInv is inductive.
LEMMA Inductive == Spec => []IInv
  <1>1. Init => IInv
    BY InitType, InitLease, InitServers DEF IInv
  <1>2. IInv /\ [Next]_vars => IInv'
    BY NextType, NextLease, NextLocals, NextServers DEF IInv
  <1>3. QED
    BY <1>1, <1>2, PTL DEF Spec

\* While a process runs an inference request, every live server local-coder
\* launched runs the profile that process asked for, whatever crashed, was
\* interrupted, failed or was started by hand.
THEOREM RightModel == Spec => []RightModelServes
  <1>1. IInv => RightModelServes
    BY DEF IInv, ServersInv, RightModelServes
  <1>2. QED
    BY <1>1, Inductive, PTL


-----------------------------------------------------------------------------
(***************************************************************************)
(* An inference request is not disturbed.                                  *)
(***************************************************************************)

\* A process other than the owner of the lease starts and stops no server, and
\* neither does a process whose inference request goes on.
LEMMA NextUndisturbed == TypeOK /\ LeaseInv /\ [Next]_vars => Undisturbed
  <1> SUFFICES ASSUME TypeOK, LeaseInv, [Next]_vars,
                      NEW p \in Procs, pc[p] = "infer", pc'[p] = "infer",
                      NEW s \in Pids, cmd'[s] # cmd[s]
               PROVE  ServerExit(s) \/ OperatorLaunch(s)
    BY DEF Undisturbed
  <1>1. \A q \in Procs : pc[q] \in Leased => q = p
    BY DEF LeaseInv, Leased, Guarded
  <1>2. ASSUME NEW q \in Procs, Progress(q)
        PROVE  FALSE
    <2>1. pc[q] \in Leased
      BY <1>2 DEF Progress, Probe, Inspect, AlreadyServing, Refuse, BeginSwitch,
                  BeginStop, FindServer, VerifyServer, KillServer, Start,
                  Launch, LaunchFails, Record, Await, AwaitReady, AwaitFails,
                  Undo, EndInference, CheckRecord, KillRecord, Unlink, Release,
                  Leased, Guarded
    <2>2. pc[q] = "infer"
      BY <1>1, <2>1
    <2>3. EndInference(q)
      BY <1>2, <2>2
         DEF Progress, Probe, Inspect, AlreadyServing, Refuse, BeginSwitch,
             BeginStop, FindServer, VerifyServer, KillServer, Start, Launch,
             LaunchFails, Record, Await, AwaitReady, AwaitFails, Undo,
             CheckRecord, KillRecord, Unlink, Release
    <2>4. QED
      BY <2>3 DEF EndInference, servers
  <1>3. ASSUME NEW q \in Procs, Request(q) \/ Acquire(q) \/ Fault(q)
        PROVE  FALSE
    BY <1>3 DEF Request, Acquire, Fault, Interrupt, InterruptWaiting, Crash,
                servers
  <1>4. ASSUME NEW t \in Pids, Environment(t)
        PROVE  ServerExit(s) \/ OperatorLaunch(s)
    <2>1. CASE ServerReady(t)
      BY <2>1 DEF ServerReady
    <2>2. CASE ServerExit(t)
      <3>1. t = s
        BY <2>2 DEF ServerExit, Gone, TypeOK
      <3>2. QED
        BY <2>2, <3>1
    <2>3. CASE OperatorLaunch(t)
      <3>1. t = s
        BY <2>3 DEF OperatorLaunch, Spawned, TypeOK
      <3>2. QED
        BY <2>3, <3>1
    <2>4. QED
      BY <1>4, <2>1, <2>2, <2>3 DEF Environment
  <1>5. CASE UNCHANGED vars
    BY <1>5 DEF vars, servers
  <1>6. QED
    BY <1>2, <1>3, <1>4, <1>5 DEF Next

\* While a request runs only the world outside local-coder starts or ends
\* servers: no second process switches the model underneath it.
THEOREM LeaseProtects == Spec => LeaseProtectsInference
  <1>1. TypeOK /\ LeaseInv /\ [Next]_vars => [Undisturbed]_vars
    BY NextUndisturbed
  <1>2. QED
    BY <1>1, TypeCorrect, LeaseExclusive, PTL DEF Spec, LeaseProtectsInference

-----------------------------------------------------------------------------
(***************************************************************************)
(* The service implements ModelLease.  A step with no request before or    *)
(* after it is a Switch of the abstract lease, the step that starts a      *)
(* request a Grant, and what can happen during one is End, Die or a        *)
(* stutter.                                                                *)
(***************************************************************************)

LEMMA InitRefines == Init => Lease!Init
  <1> SUFFICES ASSUME Init
               PROVE  Lease!Init
    OBVIOUS
  <1>1. Using = [p \in Procs |-> None]
    BY DEF Init, Using
  <1>2. Models = {}
    BY DEF Init, Models
  <1>3. QED
    BY <1>1, <1>2 DEF Lease!Init

\* Whoever infers owns the lease, so nobody else is inside the locked region.
LEMMA Alone ==
    ASSUME LeaseInv, NEW p \in Procs, pc[p] = "infer",
           NEW q \in Procs, pc[q] \in Leased
    PROVE  q = p
  BY DEF LeaseInv, Leased, Guarded

\* Between requests.
LEMMA SwitchRefines ==
    ASSUME ServersInv', TypeOK', \A p \in Procs : pc[p] # "infer",
           \A p \in Procs : pc'[p] # "infer"
    PROVE  Lease!Switch
  <1>1. Using = [p \in Procs |-> None] /\ Using' = [p \in Procs |-> None]
    BY DEF Using
  <1>2. Models' \in SUBSET Profiles
    BY DEF Models, ServersInv, TypeOK
  <1>3. QED
    BY <1>1, <1>2 DEF Lease!Switch, Lease!Idle

\* A request starts.
LEMMA GrantRefines ==
    ASSUME IInv, IInv', [Next]_vars, \A p \in Procs : pc[p] # "infer",
           NEW p \in Procs, pc'[p] = "infer"
    PROVE  Lease!Grant(p, want'[p])
  <1>1. \A q \in Procs : q # p => pc'[q] # "infer"
    BY DEF IInv, LeaseInv, Leased, Guarded
  <1>2. Using = [q \in Procs |-> None]
    BY DEF Using
  <1>3. Using' = [Using EXCEPT ![p] = want'[p]]
    BY <1>1, <1>2 DEF Using
  <1>4. Models' \in SUBSET {want'[p]}
    BY DEF Models, IInv, ServersInv
  <1>5. QED
    BY <1>2, <1>3, <1>4 DEF Lease!Grant, Lease!Idle

\* While a request runs.
LEMMA RequestRefines ==
    ASSUME IInv, [Next]_vars, NEW p \in Procs, pc[p] = "infer"
    PROVE  [Lease!Next]_(Lease!vars)
  <1> USE DEF IInv
  <1>1. \A q \in Procs : pc[q] \in Leased => q = p
    BY Alone
  <1>2. lock = p /\ want[p] \in Profiles /\ want[p] # None
    BY DEF TypeOK, LeaseInv, LocalsInv, Leased, Guarded
  <1>3. ASSUME pc'[p] # "infer", \A q \in Procs : q # p => pc'[q] # "infer",
               UNCHANGED servers
        PROVE  Lease!End(p)
    <2>1. \A q \in Procs : q # p => pc[q] # "infer"
      BY <1>1 DEF Leased, Guarded
    <2>2. Using[p] # None
      BY <1>2 DEF Using
    <2>3. Using' = [Using EXCEPT ![p] = None]
      BY <1>3, <2>1 DEF Using
    <2>4. UNCHANGED Models
      BY <1>3 DEF Models, servers
    <2>5. QED
      BY <2>2, <2>3, <2>4 DEF Lease!End
  <1>4. ASSUME \A q \in Procs : pc'[q] = "infer" <=> pc[q] = "infer",
               want'[p] = want[p]
        PROVE  UNCHANGED Using
    BY <1>1, <1>4 DEF Using, Leased, Guarded
  <1>5. ASSUME UNCHANGED servers
        PROVE  UNCHANGED Models
    BY <1>5 DEF Models, servers
  <1>6. ASSUME NEW q \in Procs, Progress(q)
        PROVE  Lease!End(p)
    <2>1. pc[q] \in Leased
      BY <1>6 DEF Progress, Probe, Inspect, AlreadyServing, Refuse, BeginSwitch,
                  BeginStop, FindServer, VerifyServer, KillServer, Start,
                  Launch, LaunchFails, Record, Await, AwaitReady, AwaitFails,
                  Undo, EndInference, CheckRecord, KillRecord, Unlink, Release,
                  Leased, Guarded
    <2>2. q = p
      BY <1>1, <2>1
    <2>3. EndInference(p)
      BY <1>6, <2>2
         DEF Progress, Probe, Inspect, AlreadyServing, Refuse, BeginSwitch,
             BeginStop, FindServer, VerifyServer, KillServer, Start, Launch,
             LaunchFails, Record, Await, AwaitReady, AwaitFails, Undo,
             CheckRecord, KillRecord, Unlink, Release
    <2>4. pc' = [pc EXCEPT ![p] = "release"] /\ UNCHANGED servers
      BY <2>3 DEF EndInference, Goto
    <2>5. QED
      BY <1>1, <1>3, <2>4 DEF TypeOK, Leased, Guarded
  <1>7. ASSUME NEW q \in Procs, Request(q)
        PROVE  UNCHANGED Lease!vars
    BY <1>4, <1>5, <1>7 DEF Request, Goto, locals, TypeOK, Lease!vars
  <1>8. ASSUME NEW q \in Procs, Acquire(q)
        PROVE  FALSE
    BY <1>2, <1>8, ModelServiceAssumption DEF Acquire
  <1>9. ASSUME NEW q \in Procs, Fault(q)
        PROVE  Lease!End(p) \/ UNCHANGED Lease!vars
    <2>1. UNCHANGED servers
      BY <1>9 DEF Fault, Interrupt, InterruptWaiting, Crash
    <2>2. /\ pc'[q] # "infer"
          /\ \A r \in Procs : r # q => pc'[r] = pc[r] /\ want'[r] = want[r]
      BY <1>9 DEF Fault, Interrupt, InterruptWaiting, Crash, Goto, Return,
                  TypeOK, locals
    <2>3. CASE q = p
      BY <1>1, <1>3, <2>1, <2>2, <2>3 DEF Leased, Guarded
    <2>4. CASE q # p
      <3>1. pc[q] # "infer"
        BY <1>1, <2>4 DEF Leased, Guarded
      <3>2. UNCHANGED Using
        BY <1>4, <2>2, <2>4, <3>1
      <3>3. QED
        BY <1>5, <2>1, <3>2 DEF Lease!vars
    <2>5. QED
      BY <2>3, <2>4
  <1>10. ASSUME NEW s \in Pids, Environment(s)
         PROVE  Lease!Die
    <2>1. UNCHANGED Using
      BY <1>10 DEF Environment, ServerReady, ServerExit, OperatorLaunch, Using,
                   locals
    <2>2. \A t \in managed' : t \in managed /\ cmd'[t] = cmd[t]
      <3>1. CASE ServerReady(s)
        BY <3>1 DEF ServerReady
      <3>2. CASE ServerExit(s)
        BY <3>2 DEF ServerExit, Gone, TypeOK
      <3>3. CASE OperatorLaunch(s)
        BY <3>3, ModelServiceAssumption
           DEF OperatorLaunch, Spawned, Free, TypeOK, ServersInv
      <3>4. QED
        BY <1>10, <3>1, <3>2, <3>3 DEF Environment
    <2>3. Models' \in SUBSET Models
      BY <2>2 DEF Models
    <2>4. QED
      BY <2>1, <2>3 DEF Lease!Die
  <1>11. CASE UNCHANGED vars
    BY <1>11 DEF vars, servers, locals, Using, Models, Lease!vars
  <1>12. QED
    BY <1>6, <1>7, <1>8, <1>9, <1>10, <1>11 DEF Next, Lease!Next

LEMMA NextRefines == IInv /\ IInv' /\ [Next]_vars => [Lease!Next]_(Lease!vars)
  <1> SUFFICES ASSUME IInv, IInv', [Next]_vars
               PROVE  [Lease!Next]_(Lease!vars)
    OBVIOUS
  <1>1. CASE \E p \in Procs : pc[p] = "infer"
    BY <1>1, RequestRefines
  <1>2. CASE /\ \A p \in Procs : pc[p] # "infer"
             /\ \A p \in Procs : pc'[p] # "infer"
    BY <1>2, SwitchRefines DEF IInv, Lease!Next
  <1>3. ASSUME \A p \in Procs : pc[p] # "infer",
               NEW p \in Procs, pc'[p] = "infer"
        PROVE  Lease!Next
    <2>1. want'[p] \in Profiles
      BY <1>3 DEF IInv, TypeOK, LocalsInv, LeaseInv, ServersInv, Leased,
                  Guarded, Switching
    <2>2. Lease!Grant(p, want'[p])
      BY <1>3, GrantRefines
    <2>3. QED
      BY <2>1, <2>2 DEF Lease!Next
  <1>4. QED
    BY <1>1, <1>2, <1>3

\* The service implements the abstract lease.
THEOREM Refinement == Spec => ImplementsLease
  <1>1. QED
    BY InitRefines, NextRefines, Inductive, PTL
       DEF Spec, ImplementsLease, Lease!Spec

-----------------------------------------------------------------------------
(***************************************************************************)
(* One server.                                                             *)
(***************************************************************************)

\* A launch starts when none of the servers local-coder launched is left; until
\* it is settled the child is the only one.
OneInv ==
    /\ OneManagedServer
    /\ \A p \in Procs :
        /\ pc[p] = "launch" => managed = {}
        /\ pc[p] \in {"record", "await", "undo"} => managed \subseteq {child[p]}

\* Without failing writes and stuck kills OneInv is preserved.
LEMMA NextOne ==
    ASSUME ~WriteFaults, ~StuckKills
    PROVE  IInv /\ OneInv /\ [Next]_vars => OneInv'
  <1> SUFFICES ASSUME TypeOK, LeaseInv, ServersInv, OneInv, [Next]_vars
               PROVE  OneInv'
    BY DEF IInv
  <1> USE ModelServiceAssumption
      DEF TypeOK, LeaseInv, OneInv, OneManagedServer, Goto, Guarded, Leased,
          servers, locals
  <1>1. ASSUME NEW p \in Procs, Request(p)
        PROVE  OneInv'
    BY <1>1 DEF Request
  <1>2. ASSUME NEW p \in Procs, Acquire(p)
        PROVE  OneInv'
    BY <1>2 DEF Acquire, Enter
  <1>3. ASSUME NEW p \in Procs, Probe(p)
        PROVE  OneInv'
    BY <1>3 DEF Probe
  <1>4. ASSUME NEW p \in Procs, AlreadyServing(p)
        PROVE  OneInv'
    BY <1>4 DEF AlreadyServing, Decided, Served
  <1>5. ASSUME NEW p \in Procs, Refuse(p)
        PROVE  OneInv'
    BY <1>5 DEF Refuse, Decided
  <1>6. ASSUME NEW p \in Procs, BeginSwitch(p)
        PROVE  OneInv'
    BY <1>6 DEF BeginSwitch, Decided
  <1>7. ASSUME NEW p \in Procs, BeginStop(p)
        PROVE  OneInv'
    BY <1>7 DEF BeginStop, Decided
  <1>8. ASSUME NEW p \in Procs, FindServer(p)
        PROVE  OneInv'
    BY <1>8 DEF FindServer
  <1>9. ASSUME NEW p \in Procs, VerifyServer(p)
        PROVE  OneInv'
    BY <1>9 DEF VerifyServer, AfterStop, ServersInv
  <1>10. ASSUME NEW p \in Procs, KillServer(p)
        PROVE  OneInv'
    BY <1>10 DEF KillServer, AfterStop, Stopped, Gone, Live, ServersInv
  <1>11. ASSUME NEW p \in Procs, Launch(p)
        PROVE  OneInv'
    BY <1>11 DEF Launch, Spawned, Target
  <1>12. ASSUME NEW p \in Procs, LaunchFails(p)
        PROVE  OneInv'
    BY <1>12 DEF LaunchFails, Failed
  <1>13. ASSUME NEW p \in Procs, Record(p)
        PROVE  OneInv'
    BY <1>13 DEF Record, Failed
  <1>14. ASSUME NEW p \in Procs, AwaitReady(p)
        PROVE  OneInv'
    BY <1>14 DEF AwaitReady, Served
  <1>15. ASSUME NEW p \in Procs, AwaitFails(p)
        PROVE  OneInv'
    BY <1>15 DEF AwaitFails, Failed
  <1>16. ASSUME NEW p \in Procs, Undo(p)
        PROVE  OneInv'
    BY <1>16 DEF Undo, Stopped, Gone, Live, ServersInv
  <1>17. ASSUME NEW p \in Procs, EndInference(p)
        PROVE  OneInv'
    BY <1>17 DEF EndInference
  <1>18. ASSUME NEW p \in Procs, CheckRecord(p)
        PROVE  OneInv'
    BY <1>18 DEF CheckRecord
  <1>19. ASSUME NEW p \in Procs, KillRecord(p)
        PROVE  OneInv'
    BY <1>19 DEF KillRecord, Stopped, Gone
  <1>20. ASSUME NEW p \in Procs, Unlink(p)
        PROVE  OneInv'
    BY <1>20 DEF Unlink
  <1>21. ASSUME NEW p \in Procs, Release(p)
        PROVE  OneInv'
    BY <1>21 DEF Release, Return
  <1>22. ASSUME NEW p \in Procs, Interrupt(p)
        PROVE  OneInv'
    BY <1>22 DEF Interrupt, Cleaning
  <1>23. ASSUME NEW p \in Procs, InterruptWaiting(p)
        PROVE  OneInv'
    BY <1>23 DEF InterruptWaiting, Return
  <1>24. ASSUME NEW p \in Procs, Crash(p)
        PROVE  OneInv'
    BY <1>24 DEF Crash, Return
  <1>25. ASSUME NEW s \in Pids, ServerReady(s)
        PROVE  OneInv'
    BY <1>25 DEF ServerReady
  <1>26. ASSUME NEW s \in Pids, ServerExit(s)
        PROVE  OneInv'
    BY <1>26 DEF ServerExit, Gone
  <1>27. ASSUME NEW s \in Pids, OperatorLaunch(s)
        PROVE  OneInv'
    BY <1>27 DEF OperatorLaunch, Spawned
  <1>28. CASE UNCHANGED vars
    BY <1>28 DEF vars
  <1> HIDE DEF TypeOK, LeaseInv, OneInv, OneManagedServer
  <1>29. QED
    BY <1>1, <1>2, <1>3, <1>4, <1>5, <1>6, <1>7, <1>8, <1>9,
       <1>10, <1>11, <1>12, <1>13, <1>14, <1>15, <1>16, <1>17,
       <1>18, <1>19, <1>20, <1>21, <1>22, <1>23, <1>24, <1>25,
       <1>26, <1>27, <1>28
       DEF Next, Progress, Inspect, Start, Await, Fault, Environment

\* When the writes under .local-coder/model-services succeed and a killed server
\* exits in time, local-coder never has two of its servers alive, whatever
\* crashes, is interrupted, fails to start or is launched by hand.
THEOREM OneServer ==
    ASSUME ~WriteFaults, ~StuckKills
    PROVE  Spec => []OneManagedServer
  <1>1. Init => OneInv
    BY DEF Init, OneInv, OneManagedServer
  <1>2. IInv /\ OneInv /\ [Next]_vars => OneInv'
    BY NextOne
  <1>3. OneInv => OneManagedServer
    BY DEF OneInv
  <1>4. QED
    BY <1>1, <1>2, <1>3, Inductive, PTL DEF Spec

-----------------------------------------------------------------------------
(***************************************************************************)
(* What a process may stop.                                                *)
(***************************************************************************)

\* The record that was checked is still there, and its pid has not changed hands,
\* although the server may have exited.
Checked(p) ==
    /\ state.config = "current" /\ seen[p] = state.pid /\ state.pid # None
    /\ cmd[state.pid] \in {state.profile, None}

RecordInv == \A p \in Procs : pc[p] = "kill_record" => Checked(p)

\* Steps of a process that end, or start, other servers than a record's.
LEMMA LeasedSteps ==
    ASSUME TypeOK, NEW p \in Procs, Progress(p) \/ Interrupt(p), ~CheckRecord(p)
    PROVE  /\ pc[p] \in Leased /\ pc'[p] # "kill_record"
           /\ \A q \in Procs \ {p} : pc'[q] = pc[q]
  <1> USE DEF TypeOK, Goto, Guarded, Leased
  <1>1. CASE Probe(p) \/ Inspect(p)
    BY <1>1 DEF Probe, Inspect, AlreadyServing, Refuse, BeginSwitch, BeginStop, Decided,
       Served
  <1>2. CASE FindServer(p) \/ VerifyServer(p) \/ KillServer(p)
    BY <1>2 DEF FindServer, VerifyServer, KillServer, AfterStop
  <1>3. CASE Start(p) \/ Record(p) \/ Await(p) \/ Undo(p)
    BY <1>3 DEF Start, Launch, LaunchFails, Record, Await, AwaitReady, AwaitFails, Undo,
       Served, Failed
  <1>4. CASE EndInference(p) \/ KillRecord(p) \/ Unlink(p) \/ Release(p) \/ Interrupt(p)
    BY <1>4 DEF EndInference, KillRecord, Unlink, Release, Interrupt, Return
  <1>5. QED
    BY <1>1, <1>2, <1>3, <1>4 DEF Progress

LEMMA NextRecorded == TypeOK /\ LeaseInv /\ RecordInv /\ [Next]_vars => RecordInv'
  <1> SUFFICES ASSUME TypeOK, LeaseInv, RecordInv, [Next]_vars
               PROVE  RecordInv'
    OBVIOUS
  <1>1. ASSUME NEW p \in Procs, pc[p] \in Leased
        PROVE  \A q \in Procs \ {p} : pc[q] # "kill_record"
    BY <1>1 DEF LeaseInv, Leased, Guarded
  <1>2. ASSUME NEW p \in Procs, Progress(p) \/ Interrupt(p), ~CheckRecord(p)
        PROVE  RecordInv'
    BY <1>1, <1>2, LeasedSteps DEF RecordInv
  <1>3. ASSUME NEW p \in Procs, CheckRecord(p)
        PROVE  RecordInv'
    <2>1. \A q \in Procs \ {p} : pc'[q] # "kill_record"
      BY <1>1, <1>3 DEF CheckRecord, Goto, TypeOK, Leased, Guarded
    <2>2. pc'[p] = "kill_record" => RecordMatches /\ seen' = [seen EXCEPT ![p] = state.pid]
      BY <1>3 DEF CheckRecord, Goto, TypeOK
    <2>3. UNCHANGED <<state, cmd>>
      BY <1>3 DEF CheckRecord, servers
    <2>4. pc'[p] = "kill_record" => Checked(p)'
      BY <2>2, <2>3 DEF RecordMatches, Checked, TypeOK
    <2>5. QED
      BY <2>1, <2>4 DEF RecordInv
  <1>4. ASSUME NEW p \in Procs, Request(p) \/ Acquire(p)
        PROVE  RecordInv'
    <2>1. UNCHANGED <<state, cmd, seen>>
      BY <1>4 DEF Request, Acquire, servers, locals
    <2>2. \A q \in Procs : pc'[q] = "kill_record" => pc[q] = "kill_record"
      BY <1>4 DEF Request, Acquire, Enter, Goto, TypeOK
    <2>3. QED
      BY <2>1, <2>2 DEF RecordInv, Checked
  <1>5. ASSUME NEW p \in Procs, InterruptWaiting(p) \/ Crash(p)
        PROVE  RecordInv'
    <2>1. UNCHANGED <<state, cmd>>
      BY <1>5 DEF InterruptWaiting, Crash, servers
    <2>2. \A q \in Procs : pc'[q] = "kill_record" => pc[q] = "kill_record" /\ seen'[q] = seen[q]
      BY <1>5 DEF InterruptWaiting, Crash, Return, Goto, TypeOK
    <2>3. QED
      BY <2>1, <2>2 DEF RecordInv, Checked
  <1>6. ASSUME NEW s \in Pids, Environment(s)
        PROVE  RecordInv'
    <2>1. UNCHANGED <<state, pc, seen>>
      BY <1>6 DEF Environment, ServerReady, ServerExit, OperatorLaunch, locals
    <2>2. ASSUME NEW q \in Procs, pc[q] = "kill_record"
          PROVE  cmd'[state.pid] \in {cmd[state.pid], None}
      <3>1. seen[q] = state.pid /\ state.pid \in Pids
        BY <2>2 DEF RecordInv, Checked, TypeOK, StateRecords
      <3>2. CASE ServerReady(s)
        BY <3>2 DEF ServerReady
      <3>3. CASE ServerExit(s)
        BY <3>1, <3>3 DEF ServerExit, Gone, TypeOK
      <3>4. CASE OperatorLaunch(s)
        BY <3>1, <3>4 DEF OperatorLaunch, Spawned, Free, TypeOK
      <3>5. QED
        BY <1>6, <3>2, <3>3, <3>4 DEF Environment
    <2>3. QED
      BY <2>1, <2>2 DEF RecordInv, Checked
  <1>7. CASE UNCHANGED vars
    BY <1>7 DEF vars, servers, locals, RecordInv, Checked
  <1>8. QED
    BY <1>2, <1>3, <1>4, <1>5, <1>6, <1>7 DEF Next, Fault

\* What a step stops from a record.
StopsRecorded ==
    \A p \in Procs, s \in Pids :
        Stops(p, s) /\ pc[p] = "kill_record" =>
            state.config = "current" /\ s = state.pid /\ cmd[s] = state.profile

LEMMA NextStopsRecorded ==
    TypeOK /\ LeaseInv /\ RecordInv /\ [Next]_vars => StopsRecorded
  <1> SUFFICES ASSUME TypeOK, LeaseInv, RecordInv, [Next]_vars,
                      NEW p \in Procs, NEW s \in Pids, Stops(p, s), pc[p] = "kill_record"
               PROVE  state.config = "current" /\ s = state.pid /\ cmd[s] = state.profile
    BY DEF StopsRecorded
  <1>1. Checked(p)
    BY DEF RecordInv
  <1>2. KillRecord(p) \/ cmd' = cmd
    <2>1. pc'[p] # pc[p] /\ pc[p] = "kill_record"
      BY DEF Stops
    <2>2. ASSUME NEW q \in Procs, Progress(q) PROVE q = p
      <3>1. pc[q] \in Leased
        BY <2>2, LeasedSteps DEF CheckRecord, Leased, Guarded
      <3>2. QED
        BY <2>1, <3>1 DEF LeaseInv, Leased, Guarded
    <2>3. Progress(p) => KillRecord(p)
      BY <2>1 DEF Progress, Probe, Inspect, AlreadyServing, Refuse, BeginSwitch, BeginStop,
         FindServer, VerifyServer, KillServer, Start, Launch, LaunchFails, Record, Await,
         AwaitReady, AwaitFails, Undo, EndInference, CheckRecord, Unlink, Release
    <2>4. ASSUME NEW q \in Procs, Request(q) \/ Acquire(q) \/ Fault(q) PROVE cmd' = cmd
      BY <2>4 DEF Request, Acquire, Fault, Interrupt, InterruptWaiting, Crash, servers
    <2>5. ASSUME NEW t \in Pids PROVE ~Environment(t)
      BY <2>1 DEF Environment, ServerReady, ServerExit, OperatorLaunch
    <2>6. QED
      BY <2>1, <2>2, <2>3, <2>4, <2>5 DEF Next, vars
  <1>3. KillRecord(p) /\ s = seen[p]
    BY <1>2 DEF Stops, KillRecord, Stopped, Gone, Live, TypeOK, servers
  <1>4. QED
    BY <1>1, <1>3 DEF Checked, Stops

\* ManagedStopOnlyRecorded: whatever exits, is launched by hand or reuses a pid
\* between the check of the record and the signal, stop_managed and the Ctrl-C
\* handler stop only the process of the record, running the recorded profile.
THEOREM StopsOnlyRecorded == Spec => ManagedStopOnlyRecorded
  <1>1. Init => RecordInv
    BY DEF Init, RecordInv
  <1>2. TypeOK /\ LeaseInv /\ RecordInv /\ [Next]_vars => RecordInv' /\ StopsRecorded
    BY NextRecorded, NextStopsRecorded
  <1>3. QED
    BY <1>1, <1>2, TypeCorrect, LeaseExclusive, PTL
    DEF Spec, ManagedStopOnlyRecorded, StopsRecorded

\* Once a process has found that no unknown server lives, none appears before it
\* stops what it found, as operators launch only trusted commands.
Trusted == \A s \in Pids : cmd[s] # Foreign

Looked == {"find", "verify", "kill", "launch", "record", "await", "undo"}

KnownInv == \A p \in Procs : pc[p] \in Looked => Trusted

LEMMA TrustedStays ==
    ASSUME ByHand \subseteq Profiles, IInv, [Next]_vars, Trusted
    PROVE  Trusted'
  <1> USE ModelServiceAssumption DEF Trusted, IInv, TypeOK, servers
  <1>1. ASSUME NEW s \in Pids, Gone(s) PROVE Trusted'
    BY <1>1 DEF Gone
  <1>2. ASSUME NEW s \in Pids, NEW c \in Profiles, NEW i, Spawned(s, c, i) PROVE Trusted'
    BY <1>2 DEF Spawned
  <1>3. CASE cmd' = cmd
    BY <1>3
  <1> HIDE DEF Trusted
  <1>4. ASSUME NEW p \in Procs, KillServer(p) \/ Undo(p) \/ KillRecord(p)
        PROVE  Trusted'
    <2>1. \/ cmd' = cmd
          \/ \E s \in Pids : Gone(s)
      BY <1>4 DEF KillServer, Undo, KillRecord, Stopped, Live
    <2>2. QED
      BY <1>1, <1>3, <2>1
  <1>5. ASSUME NEW p \in Procs, Launch(p)
        PROVE  Trusted'
    <2>1. Target(p) \in Profiles
      BY <1>5 DEF Launch, LocalsInv, Target, Leased, Guarded
    <2>2. QED
      BY <1>2, <1>5, <2>1 DEF Launch
  <1>6. ASSUME NEW p \in Procs, Request(p) \/ Acquire(p) \/ Fault(p)
        PROVE  cmd' = cmd
    BY <1>6 DEF Request, Acquire, Fault, Interrupt, InterruptWaiting, Crash
  <1>7. ASSUME NEW p \in Procs, Progress(p), ~KillServer(p), ~Undo(p), ~KillRecord(p), ~Launch(p)
        PROVE  cmd' = cmd
    BY <1>7 DEF Progress, Probe, Inspect, AlreadyServing, Refuse, BeginSwitch, BeginStop,
       FindServer, VerifyServer, Start, LaunchFails, Record, Await,
       AwaitReady, AwaitFails, EndInference, CheckRecord, Unlink, Release
  <1>8. ASSUME NEW s \in Pids, Environment(s)
        PROVE  Trusted'
    <2>1. OperatorLaunch(s) => \E c \in Profiles, i \in Identities : Spawned(s, c, i)
      BY DEF OperatorLaunch
    <2>2. \/ cmd' = cmd
          \/ Gone(s)
          \/ OperatorLaunch(s)
      BY <1>8 DEF Environment, ServerReady, ServerExit
    <2>3. QED
      BY <1>1, <1>2, <1>3, <2>1, <2>2
  <1>9. UNCHANGED vars => cmd' = cmd
    BY DEF vars
  <1>10. QED
    BY <1>3, <1>4, <1>5, <1>6, <1>7, <1>8, <1>9 DEF Next

LEMMA NextKnown ==
    ASSUME ByHand \subseteq Profiles
    PROVE  IInv /\ KnownInv /\ [Next]_vars => KnownInv'
  <1> SUFFICES ASSUME IInv, KnownInv, [Next]_vars,
                      NEW p \in Procs, pc'[p] \in Looked
               PROVE  Trusted'
    BY DEF KnownInv
  <1>1. CASE pc[p] \in Looked
    BY <1>1, TrustedStays DEF KnownInv
  <1>2. CASE pc[p] \notin Looked
    <2>1. BeginSwitch(p) \/ BeginStop(p)
      <3>1. ASSUME NEW q \in Procs, pc' = pc \/ \E l : Goto(q, l), q # p
            PROVE  FALSE
        BY <1>2, <3>1 DEF Goto, IInv, TypeOK
      <3>2. ASSUME NEW q \in Procs, Progress(q) \/ Request(q) \/ Acquire(q) \/ Fault(q)
            PROVE  pc' = pc \/ \E l : Goto(q, l)
        <4>1. CASE Progress(q)
          BY <4>1 DEF Progress, Probe, Inspect, AlreadyServing, Refuse, BeginSwitch, BeginStop,
             Decided, FindServer, VerifyServer, KillServer, Start, Launch, LaunchFails, Record,
             Await, AwaitReady, AwaitFails, Undo, EndInference, CheckRecord, KillRecord, Unlink,
             Release, Return
        <4>2. CASE Request(q) \/ Acquire(q) \/ Fault(q)
          BY <4>2 DEF Request, Acquire, Enter, Fault, Interrupt, InterruptWaiting, Crash, Return
        <4>3. QED
          BY <3>2, <4>1, <4>2
      <3>3. ASSUME Request(p) \/ Acquire(p) \/ Fault(p)
            PROVE  FALSE
        BY <1>2, <3>3 DEF Request, Acquire, Enter, Fault, Interrupt, InterruptWaiting, Crash,
           Return, Goto, Looked, IInv, TypeOK
      <3>4. ASSUME Progress(p), ~BeginSwitch(p), ~BeginStop(p)
            PROVE  FALSE
        BY <1>2, <3>4 DEF Progress, Probe, Inspect, AlreadyServing, Refuse, Decided, Served,
           FindServer, VerifyServer, KillServer, Start, Launch, LaunchFails, Record,
           Await, AwaitReady, AwaitFails, Undo, EndInference, CheckRecord, KillRecord, Unlink,
           Release, Return, Goto, Looked, IInv, TypeOK
      <3>5. ASSUME UNCHANGED vars \/ \E s \in Pids : Environment(s)
            PROVE  FALSE
        BY <1>2, <3>5 DEF vars, Environment, ServerReady, ServerExit, OperatorLaunch
      <3>6. QED
        BY <3>1, <3>2, <3>3, <3>4, <3>5 DEF Next
    <2>2. PICK s \in Pids \cup {None} : Discovers(s) /\ (s = None \/ Recognized(ident[p], s))
      BY <2>1 DEF BeginSwitch, BeginStop
    <2>3. \A t \in Pids : cmd[t] = None \/ cmd[t] \in Profiles
      BY <2>2, ModelServiceAssumption DEF Discovers, Recognized, Live
    <2>4. Trusted
      BY <2>3, ModelServiceAssumption DEF Trusted
    <2>5. QED
      BY <2>4, TrustedStays
  <1>3. QED
    BY <1>1, <1>2

\* What a step stops is a server of a trusted profile.
StopsKnown == \A p \in Procs, s \in Pids : Stops(p, s) => cmd[s] \in Profiles

LEMMA NextStopsKnown ==
    IInv /\ KnownInv /\ StopsRecorded => StopsKnown
  <1> SUFFICES ASSUME IInv, KnownInv, StopsRecorded,
                      NEW p \in Procs, NEW s \in Pids, Stops(p, s)
               PROVE  cmd[s] \in Profiles
    BY DEF StopsKnown
  <1>1. cmd[s] \in Identities /\ state.profile \in Profiles \cup {None}
    BY DEF Stops, IInv, TypeOK, StateRecords
  <1>2. CASE pc[p] = "kill_record"
    BY <1>1, <1>2 DEF StopsRecorded, Stops
  <1>3. CASE pc[p] \in {"kill", "undo"}
    BY <1>1, <1>3 DEF KnownInv, Looked, Trusted, Identities
  <1>4. QED
    BY <1>2, <1>3 DEF Stops

\* NeverStopsUnknown: as long as operators launch only trusted commands, whatever
\* these report, no process stops a server that is not of a trusted profile, such
\* as one left over from a release with another configuration.
THEOREM StopsOnlyKnown ==
    ASSUME ByHand \subseteq Profiles
    PROVE  Spec => NeverStopsUnknown
  <1>1. Init => RecordInv /\ KnownInv
    BY DEF Init, RecordInv, KnownInv, Looked
  <1>2. IInv => TypeOK /\ LeaseInv
    BY DEF IInv
  <1>3. TypeOK /\ LeaseInv /\ RecordInv /\ [Next]_vars => RecordInv' /\ StopsRecorded
    BY NextRecorded, NextStopsRecorded
  <1>4. IInv /\ KnownInv /\ [Next]_vars => KnownInv'
    BY NextKnown
  <1>5. IInv /\ KnownInv /\ StopsRecorded => StopsKnown
    BY NextStopsKnown
  <1>6. QED
    BY <1>1, <1>2, <1>3, <1>4, <1>5, Inductive, PTL
    DEF Spec, NeverStopsUnknown, StopsKnown

=============================================================================
