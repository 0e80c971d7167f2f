---------------------------- MODULE ModelService ----------------------------
(***************************************************************************)
(* runtime/model_service.py: the serial llama.cpp service.  Every          *)
(* local-coder process on the machine may ask for a model profile, and the *)
(* machine can run one llama-server.  The processes serialise on an        *)
(* advisory lock (flock on switch.lock), look at what is live (/health,    *)
(* /props and a /proc scan), stop a recognized server, launch another and  *)
(* remember it in state.json.  route_session keeps the lock for a whole    *)
(* inference request.                                                      *)
(*                                                                         *)
(* Around the lock things happen that the code does not control: servers   *)
(* finish loading or die, an operator starts a llama-server by hand, a     *)
(* probe of a busy server times out, Ctrl-C or a crash lands between any   *)
(* two steps, and PIDs are reused, so a stale state.json may name a        *)
(* stranger.                                                               *)
(***************************************************************************)
EXTENDS Integers

CONSTANTS
    Procs,        \* local-coder processes
    Profiles,     \* trusted launch profiles of model-services-v1.json
    Pids,         \* process ids (reused once nobody waits on the old owner)
    Foreign,      \* an identity or command line no trusted profile has
    None,         \* absent: no pid, no profile, no identity
    ByHand,       \* commands an operator may launch outside local-coder
    WriteFaults,  \* may writes under .local-coder/model-services fail?
    StuckKills    \* may a SIGKILLed server fail to exit in time?

ASSUME ModelServiceAssumption ==
    /\ Foreign \notin Profiles
    /\ None \notin Procs \cup Profiles \cup Pids \cup {Foreign}
    /\ ByHand \subseteq Profiles \cup {Foreign}
    /\ WriteFaults \in BOOLEAN
    /\ StuckKills \in BOOLEAN

VARIABLES
    lock,      \* owner of the flock on switch.lock
    state,     \* contents of state.json
    cmd,       \* cmd[s]: command line of the llama-server with pid s, if any
    says,      \* says[s]: the identity it reports on /props
    healthy,   \* the server that owns the port and answers /health with "ok"
    managed,   \* history: the live servers that local-coder launched
    pc,        \* where each local-coder process is
    op,        \* the operation it performs
    want,      \* its `desired` profile
    prev,      \* its `previous_profile_id`
    ident,     \* the identity it read last
    seen,      \* the pid it is about to stop
    child,     \* its `started_pid`, then `restore_pid`
    phase      \* launching the desired profile, or restoring the previous one

servers == <<cmd, says, healthy, managed>>
locals == <<op, want, prev, ident, seen, child, phase>>
vars == <<lock, state, servers, pc, locals>>

-----------------------------------------------------------------------------
(***************************************************************************)
(* State.                                                                  *)
(***************************************************************************)

Identities == Profiles \cup {Foreign}

Operations == {"session", "ensure", "stop", "stop_managed"}

\* Locations inside the `try` that follows the acquisition of the lock.
Guarded == {"probe", "inspect", "find", "verify", "kill", "launch", "record",
            "await", "undo", "infer", "check_record", "kill_record", "unlink"}

\* Locations at which a process owns switch.lock.
Leased == Guarded \cup {"release"}

\* state.json: the recorded process, and whether it was recorded under the
\* configuration hash in use now.
NoRecord == [pid |-> None, profile |-> None, config |-> "current"]
StateRecords == [pid : Pids \cup {None}, profile : Profiles \cup {None},
                 config : {"current", "other"}]

Live == {s \in Pids : cmd[s] # None}

TypeOK ==
    /\ lock \in Procs \cup {None}
    /\ state \in StateRecords
    /\ cmd \in [Pids -> Identities \cup {None}]
    /\ says \in [Pids -> Identities \cup {None}]
    /\ healthy \in Pids \cup {None}
    /\ managed \in SUBSET Pids
    /\ pc \in [Procs -> Leased \cup {"idle", "wait"}]
    /\ op \in [Procs -> Operations]
    /\ want \in [Procs -> Profiles \cup {None}]
    /\ prev \in [Procs -> Profiles \cup {None}]
    /\ ident \in [Procs -> Identities \cup {None}]
    /\ seen \in [Procs -> Pids \cup {None}]
    /\ child \in [Procs -> Pids \cup {None}]
    /\ phase \in [Procs -> {"switch", "restore"}]

\* At the start no local-coder process runs.  Either no server does, or one is
\* left over from a release with another service configuration: its command
\* line is no trusted one any more and state.json still names it.
Init ==
    /\ lock = None
    /\ \/ /\ state = NoRecord
          /\ cmd = [s \in Pids |-> None]
          /\ says = [s \in Pids |-> None]
          /\ healthy = None
       \/ \E s \in Pids, f \in Profiles, i \in Identities :
             /\ state = [pid |-> s, profile |-> f, config |-> "other"]
             /\ cmd = [x \in Pids |-> IF x = s THEN Foreign ELSE None]
             /\ says = [x \in Pids |-> IF x = s THEN i ELSE None]
             /\ healthy = s
    /\ managed = {}
    /\ pc = [p \in Procs |-> "idle"]
    /\ op = [p \in Procs |-> "session"]
    /\ want = [p \in Procs |-> None]
    /\ prev = [p \in Procs |-> None]
    /\ ident = [p \in Procs |-> None]
    /\ seen = [p \in Procs |-> None]
    /\ child = [p \in Procs |-> None]
    /\ phase = [p \in Procs |-> "switch"]

-----------------------------------------------------------------------------
(***************************************************************************)
(* What a process can learn about the servers.                             *)
(***************************************************************************)

\* current_identity: what the healthy server says; None when nothing answers,
\* and also when a healthy server is too busy to answer within two seconds.
Reads(i) ==
    \/ i = None
    \/ healthy # None /\ i = says[healthy]

\* current_identity raises when /health was ok and /props then fails.
ReadRaises == healthy # None

\* _discover_server_pid: None, the one llama-server on the port, or an error
\* when several processes qualify.
Discovers(s) ==
    \/ Live = {} /\ s = None
    \/ s \in Pids /\ Live = {s}

DiscoverRaises == \E s, t \in Live : s # t

\* _matching_profile with require_command: identity and command line both
\* belong to the same trusted profile.
RecognizedByAnyIdentity(i, s) == i # None /\ s # None /\ cmd[s] = i

RecognizedByIdentityAlone(i, s) == i \in Profiles /\ s # None

Recognized(i, s) == i \in Profiles /\ s # None /\ cmd[s] = i

\* A pid the kernel may hand out: no live server has it and no local-coder
\* process is its parent (an unreaped child keeps its pid) or is stopping it.
Free(s) == cmd[s] = None /\ \A p \in Procs : s \notin {child[p], seen[p]}

\* The profile a launch is for.
Target(p) == IF phase[p] = "switch" THEN want[p] ELSE prev[p]

-----------------------------------------------------------------------------
(***************************************************************************)
(* The environment.                                                        *)
(***************************************************************************)

\* A loading server becomes ready; only one process can own the port.
ServerReady(s) ==
    /\ cmd[s] # None
    /\ healthy = None
    /\ healthy' = s
    /\ UNCHANGED <<lock, state, cmd, says, managed, pc, locals>>

\* The server with pid s is gone.
Gone(s) ==
    /\ cmd' = [cmd EXCEPT ![s] = None]
    /\ says' = [says EXCEPT ![s] = None]
    /\ healthy' = IF healthy = s THEN None ELSE healthy
    /\ managed' = managed \ {s}

\* A server exits on its own, loading or serving.
ServerExit(s) ==
    /\ cmd[s] # None
    /\ Gone(s)
    /\ UNCHANGED <<lock, state, pc, locals>>

\* A process with pid s runs command c and will identify itself as i.
Spawned(s, c, i) ==
    /\ Free(s)
    /\ cmd' = [cmd EXCEPT ![s] = c]
    /\ says' = [says EXCEPT ![s] = i]
    /\ UNCHANGED healthy

\* An operator starts a llama-server by hand.
OperatorLaunch(s) ==
    /\ \E c \in ByHand, i \in Identities : Spawned(s, c, i)
    /\ UNCHANGED <<lock, state, managed, pc, locals>>

-----------------------------------------------------------------------------
(***************************************************************************)
(* Acquiring and releasing the lease.                                      *)
(***************************************************************************)

Goto(p, l) == pc' = [pc EXCEPT ![p] = l]

\* ensure_route, route_session, switch_profile, stop or stop_managed is called
\* and blocks in flock(LOCK_EX).  Which of them, and for which profile, shows
\* only once the lock is held.
Request(p) ==
    /\ pc[p] = "idle"
    /\ Goto(p, "wait")
    /\ UNCHANGED <<lock, state, servers, locals>>

\* The locked region of operation o begins.
Enter(p) ==
    \E o \in Operations, f \in Profiles :
        /\ op' = [op EXCEPT ![p] = o]
        /\ want' = [want EXCEPT ![p] =
                       IF o \in {"session", "ensure"} THEN f ELSE None]
        /\ Goto(p, IF o = "stop_managed" THEN "check_record" ELSE "probe")

AcquireShared(p) ==   \* mutant: LOCK_SH in place of LOCK_EX
    /\ pc[p] = "wait"
    /\ lock' = p
    /\ Enter(p)
    /\ UNCHANGED <<state, servers, prev, ident, seen, child, phase>>

Acquire(p) ==
    /\ pc[p] = "wait"
    /\ lock = None
    /\ lock' = p
    /\ Enter(p)
    /\ UNCHANGED <<state, servers, prev, ident, seen, child, phase>>

\* The call is over and its local variables with it.
Return(p) ==
    /\ Goto(p, "idle")
    /\ want' = [want EXCEPT ![p] = None]
    /\ prev' = [prev EXCEPT ![p] = None]
    /\ ident' = [ident EXCEPT ![p] = None]
    /\ seen' = [seen EXCEPT ![p] = None]
    /\ child' = [child EXCEPT ![p] = None]
    /\ phase' = [phase EXCEPT ![p] = "switch"]
    /\ op' = [op EXCEPT ![p] = "session"]

ReleaseAfterSuccess(p) ==   \* mutant: the unlock is not in a finally
    /\ pc[p] = "release"
    /\ lock' = IF phase[p] = "switch" THEN None ELSE lock
    /\ Return(p)
    /\ UNCHANGED <<state, servers>>

\* finally: flock(LOCK_UN).
Release(p) ==
    /\ pc[p] = "release"
    /\ lock' = None
    /\ Return(p)
    /\ UNCHANGED <<state, servers>>

-----------------------------------------------------------------------------
(***************************************************************************)
(* _switch_locked and stop: look at what is live.                          *)
(***************************************************************************)

Switching(p) == op[p] \in {"session", "ensure"}

\* current = self.current_identity()
Probe(p) ==
    /\ pc[p] = "probe"
    /\ \/ \E i \in Identities \cup {None} :
             /\ Reads(i)
             /\ ident' = [ident EXCEPT ![p] = i]
          /\ Goto(p, "inspect")
       \/ ReadRaises /\ Goto(p, "release") /\ UNCHANGED ident
    /\ UNCHANGED <<lock, state, servers, op, want, prev, seen, child, phase>>

\* The identity has served its purpose.
Decided(p, l) == Goto(p, l) /\ ident' = [ident EXCEPT ![p] = None]

\* Where a successful switch continues: the inference request, or the return.
Served(p) == IF op[p] = "session" THEN "infer" ELSE "release"

AlreadyServingSomething(p) ==   \* mutant: any recognized profile will do
    /\ pc[p] = "inspect"
    /\ Switching(p)
    /\ \E s \in Pids : Discovers(s) /\ Recognized(ident[p], s)
    /\ Decided(p, Served(p))
    /\ UNCHANGED <<lock, state, servers, op, want, prev, seen, child, phase>>

\* The desired profile is live already: identity and command both match.
AlreadyServing(p) ==
    /\ pc[p] = "inspect"
    /\ Switching(p)
    /\ \E s \in Pids : Discovers(s) /\ ident[p] = want[p] /\ cmd[s] = want[p]
    /\ Decided(p, Served(p))
    /\ UNCHANGED <<lock, state, servers, op, want, prev, seen, child, phase>>

\* Fail closed: several servers, a live server that did not identify itself, or
\* an identity whose process does not run the trusted command.
Refuse(p) ==
    /\ pc[p] = "inspect"
    /\ \/ DiscoverRaises
       \/ \E s \in Pids \cup {None} :
             /\ Discovers(s)
             /\ ~Recognized(ident[p], s)
             /\ IF Switching(p) THEN ident[p] # None \/ s # None ELSE s # None
    /\ Decided(p, "release")
    /\ UNCHANGED <<lock, state, servers, op, want, prev, seen, child, phase>>

\* Nothing is live, or a recognized profile other than the desired one is.
BeginSwitch(p) ==
    /\ pc[p] = "inspect"
    /\ Switching(p)
    /\ \E s \in Pids \cup {None} :
          /\ Discovers(s)
          /\ \/ ident[p] = None /\ s = None
             \/ Recognized(ident[p], s) /\ ident[p] # want[p]
    /\ prev' = [prev EXCEPT ![p] = ident[p]]
    /\ Decided(p, "find")
    /\ UNCHANGED <<lock, state, servers, op, want, seen, child, phase>>

\* stop(): no server process, or a recognized one.
BeginStop(p) ==
    /\ pc[p] = "inspect"
    /\ op[p] = "stop"
    /\ \E s \in Pids \cup {None} :
          Discovers(s) /\ (s = None \/ Recognized(ident[p], s))
    /\ Decided(p, "find")
    /\ UNCHANGED <<lock, state, servers, op, want, prev, seen, child, phase>>

-----------------------------------------------------------------------------
(***************************************************************************)
(* _stop_active_server: looks again, then stops what it finds.             *)
(***************************************************************************)

FindServer(p) ==
    /\ pc[p] = "find"
    /\ \/ \E s \in Pids \cup {None} :
             /\ Discovers(s)
             /\ seen' = [seen EXCEPT ![p] = s]
          /\ Goto(p, "verify")
       \/ DiscoverRaises /\ Goto(p, "release") /\ UNCHANGED seen
    /\ UNCHANGED <<lock, state, servers, op, want, prev, ident, child, phase>>

AfterStop(p) == IF Switching(p) THEN "launch" ELSE "unlink"

\* The identity read there only matters when no process was found.
VerifyServer(p) ==
    /\ pc[p] = "verify"
    /\ \/ \E i \in Identities \cup {None} :
             /\ Reads(i)
             /\ Goto(p, IF seen[p] # None THEN "kill"
                        ELSE IF i # None THEN "release" ELSE AfterStop(p))
       \/ ReadRaises /\ Goto(p, "release")
    /\ UNCHANGED <<lock, state, servers, locals>>

\* _stop_pid, _stop_pid_for_interrupt: the process is gone, or was already.
Stopped(s) ==
    IF s \in Live THEN Gone(s) ELSE UNCHANGED servers

KillServer(p) ==
    /\ pc[p] = "kill"
    /\ \/ Stopped(seen[p]) /\ Goto(p, AfterStop(p))
       \/ StuckKills /\ Goto(p, "release") /\ UNCHANGED servers
    /\ seen' = [seen EXCEPT ![p] = None]
    /\ UNCHANGED <<lock, state, op, want, prev, ident, child, phase>>

-----------------------------------------------------------------------------
(***************************************************************************)
(* _start_profile and _wait_for_profile, for the desired profile and, after *)
(* a failure, for the previous one.                                        *)
(***************************************************************************)

\* The launch did not succeed: `except Exception` undoes the desired profile;
\* a failed restore is only reported.
Failed(p) == IF phase[p] = "switch" THEN "undo" ELSE "release"

\* Popen.  The new server may turn out to identify itself as something else
\* than its profile (another llama.cpp build).
Launch(p) ==
    /\ pc[p] = "launch"
    /\ \E s \in Pids, i \in Identities :
          /\ i \in {Target(p), Foreign}
          /\ Spawned(s, Target(p), i)
          /\ managed' = managed \cup {s}
          /\ child' = [child EXCEPT ![p] = s]
    /\ Goto(p, "record")
    /\ UNCHANGED <<lock, state, op, want, prev, ident, seen, phase>>

\* The binary or the model file is missing, or Popen fails.
LaunchFails(p) ==
    /\ pc[p] = "launch"
    /\ Goto(p, Failed(p))
    /\ child' = [child EXCEPT ![p] = None]
    /\ UNCHANGED <<lock, state, servers, op, want, prev, ident, seen, phase>>

\* _write_state.  When it raises, _start_profile does not return the pid.
Record(p) ==
    /\ pc[p] = "record"
    /\ \/ /\ state' = [pid |-> child[p], profile |-> Target(p),
                       config |-> "current"]
          /\ Goto(p, "await")
          /\ UNCHANGED child
       \/ /\ WriteFaults
          /\ child' = [child EXCEPT ![p] = None]
          /\ Goto(p, Failed(p))
          /\ UNCHANGED state
    /\ UNCHANGED <<lock, servers, op, want, prev, ident, seen, phase>>

\* Identity and command line of the child match the target; then the
\* switch_completed event is appended, which may fail.
AwaitReady(p) ==
    /\ pc[p] = "await"
    /\ healthy # None /\ says[healthy] = Target(p)
    /\ cmd[child[p]] = Target(p)
    /\ \/ Goto(p, IF phase[p] = "switch" THEN Served(p) ELSE "release")
       \/ WriteFaults /\ Goto(p, "release")
    /\ UNCHANGED <<lock, state, servers, locals>>

AwaitFailsOnExit(p) ==   \* mutant: no startup deadline
    /\ pc[p] = "await"
    /\ cmd[child[p]] = None
    /\ Goto(p, Failed(p))
    /\ UNCHANGED <<lock, state, servers, locals>>

\* The child exited, or the startup deadline passed.
AwaitFails(p) ==
    /\ pc[p] = "await"
    /\ Goto(p, Failed(p))
    /\ UNCHANGED <<lock, state, servers, locals>>

UndoWithoutStop(p) ==   \* mutant: the failed child is left alone
    /\ pc[p] = "undo"
    /\ IF prev[p] = None
       THEN Goto(p, "release") /\ UNCHANGED <<child, phase>>
       ELSE /\ Goto(p, "launch")
            /\ phase' = [phase EXCEPT ![p] = "restore"]
            /\ child' = [child EXCEPT ![p] = None]
    /\ UNCHANGED <<lock, state, servers, op, want, prev, ident, seen>>

\* Stop the failed child (an error there is swallowed), then restore the
\* previous profile if there was one; otherwise record switch_failed and raise.
Undo(p) ==
    /\ pc[p] = "undo"
    /\ \/ child[p] # None /\ Stopped(child[p])
       \/ (child[p] = None \/ StuckKills) /\ UNCHANGED servers
    /\ IF prev[p] = None
       THEN Goto(p, "release") /\ UNCHANGED <<child, phase>>
       ELSE /\ Goto(p, "launch")
            /\ phase' = [phase EXCEPT ![p] = "restore"]
            /\ child' = [child EXCEPT ![p] = None]
    /\ UNCHANGED <<lock, state, op, want, prev, ident, seen>>

\* The inference request under the lease ends, normally or with an exception.
EndInference(p) ==
    /\ pc[p] = "infer"
    /\ Goto(p, "release")
    /\ UNCHANGED <<lock, state, servers, locals>>

-----------------------------------------------------------------------------
(***************************************************************************)
(* _stop_managed_server_locked: stop_managed(), and the handler of          *)
(* KeyboardInterrupt.                                                      *)
(***************************************************************************)

RecordMatchesAnyServer ==   \* mutant: any llama-server with that pid
    state.pid # None /\ state.config = "current" /\ cmd[state.pid] # None

RecordMatches ==
    state.pid # None /\ state.config = "current" /\ cmd[state.pid] = state.profile

CheckRecord(p) ==
    /\ pc[p] = "check_record"
    /\ IF RecordMatches
       THEN /\ seen' = [seen EXCEPT ![p] = state.pid]
            /\ Goto(p, "kill_record")
       ELSE Goto(p, "release") /\ UNCHANGED seen
    /\ UNCHANGED <<lock, state, servers, op, want, prev, ident, child, phase>>

KillRecord(p) ==
    /\ pc[p] = "kill_record"
    /\ \/ Stopped(seen[p]) /\ Goto(p, "unlink")
       \/ StuckKills /\ Goto(p, "release") /\ UNCHANGED servers
    /\ seen' = [seen EXCEPT ![p] = None]
    /\ UNCHANGED <<lock, state, op, want, prev, ident, child, phase>>

\* state.json is removed and the stop is recorded.
Unlink(p) ==
    /\ pc[p] = "unlink"
    /\ \/ state' = NoRecord
       \/ WriteFaults /\ UNCHANGED state
    /\ Goto(p, "release")
    /\ UNCHANGED <<lock, servers, locals>>

\* Ctrl-C.  Only the operations that switch handle it, and only once: a second
\* Ctrl-C during the cleanup, or one during stop, goes straight to `finally`.
Cleaning(p) == pc[p] \in {"check_record", "kill_record", "unlink"}

Interrupt(p) ==
    /\ pc[p] \in Guarded
    /\ Goto(p, IF Switching(p) /\ ~Cleaning(p)
               THEN "check_record" ELSE "release")
    /\ UNCHANGED <<lock, state, servers, locals>>

InterruptWaitingCleans(p) ==   \* mutant: flock inside the try
    /\ pc[p] = "wait"
    /\ Goto(p, "check_record")
    /\ UNCHANGED <<lock, state, servers, locals>>

\* Ctrl-C in flock: the lock is not held, nothing is cleaned up.
InterruptWaiting(p) ==
    /\ pc[p] = "wait"
    /\ Return(p)
    /\ UNCHANGED <<lock, state, servers>>

\* The process dies; the kernel drops its flock, its servers keep running
\* (start_new_session) and are reaped by init.
Crash(p) ==
    /\ pc[p] # "idle"
    /\ lock' = IF lock = p THEN None ELSE lock
    /\ Return(p)
    /\ UNCHANGED <<state, servers>>

-----------------------------------------------------------------------------
Inspect(p) ==
    AlreadyServing(p) \/ Refuse(p) \/ BeginSwitch(p) \/ BeginStop(p)

Start(p) == Launch(p) \/ LaunchFails(p)

Await(p) == AwaitReady(p) \/ AwaitFails(p)

\* The steps of a process once it holds the lease.
Progress(p) ==
    \/ Probe(p) \/ Inspect(p)
    \/ FindServer(p) \/ VerifyServer(p) \/ KillServer(p)
    \/ Start(p) \/ Record(p) \/ Await(p) \/ Undo(p)
    \/ EndInference(p)
    \/ CheckRecord(p) \/ KillRecord(p) \/ Unlink(p)
    \/ Release(p)

Fault(p) == Interrupt(p) \/ InterruptWaiting(p) \/ Crash(p)

Environment(s) == ServerReady(s) \/ ServerExit(s) \/ OperatorLaunch(s)

Next ==
    \/ \E p \in Procs : Request(p) \/ Acquire(p) \/ Progress(p) \/ Fault(p)
    \/ \E s \in Pids : Environment(s)

Spec == Init /\ [][Next]_vars

\* Every step under the lease is bounded in time: HTTP reads by 2 seconds,
\* kills and start-up by the configured timeouts, inference by the client's
\* 600 seconds.  The kernel's flock queue does not starve a waiter.
Fairness == \A p \in Procs : WF_vars(Progress(p)) /\ SF_vars(Acquire(p))

FairSpec == Spec /\ Fairness

-----------------------------------------------------------------------------
(***************************************************************************)
(* Properties.                                                             *)
(***************************************************************************)

\* A process is inside the locked region exactly when it owns the flock.
LeaseInv == \A p \in Procs : pc[p] \in Leased <=> lock = p

\* While a process runs an inference request, no live server that local-coder
\* launched runs another profile than the one it asked for.
RightModelServes ==
    \A p \in Procs : pc[p] = "infer" =>
        \A s \in managed : cmd[s] = want[p]

\* Process p stops server s in this step.
Stops(p, s) ==
    /\ pc'[p] # pc[p]
    /\ pc[p] \in {"kill", "undo", "kill_record"}
    /\ cmd[s] # None /\ cmd'[s] = None

\* "Holding the lease through inference also prevents a second local-coder
\* process from switching the physical model underneath an active request":
\* while a request runs, only the world outside local-coder starts or ends
\* servers.
Undisturbed ==
    (\E p \in Procs : pc[p] = "infer" /\ pc'[p] = "infer") =>
        \A s \in Pids : cmd'[s] # cmd[s] => ServerExit(s) \/ OperatorLaunch(s)

LeaseProtectsInference == [][Undisturbed]_vars

\* "An unknown, unidentified, or command-mismatched live llama.cpp process is
\* not replaced or stopped automatically."
NeverStopsUnknown ==
    [][\A p \in Procs, s \in Pids : Stops(p, s) => cmd[s] \in Profiles]_vars

\* stop_managed and the Ctrl-C handler stop no process but the recorded one,
\* while it runs the recorded profile, though pids are reused.
ManagedStopOnlyRecorded ==
    [][\A p \in Procs, s \in Pids :
          Stops(p, s) /\ pc[p] = "kill_record" =>
              state.config = "current" /\ s = state.pid /\ cmd[s] = state.profile]_vars

\* "The machine runs one llama.cpp server": local-coder never has two of its
\* own alive, whatever crashed or was interrupted before.
OneManagedServer == \A s, t \in managed : s = t

\* The lease is the abstract one.
Using == [p \in Procs |-> IF pc[p] = "infer" THEN want[p] ELSE None]

Models == {cmd[s] : s \in managed}

Lease == INSTANCE ModelLease WITH using <- Using, models <- Models

ImplementsLease == Lease!Spec

\* Nobody keeps the lease for ever.
LeaseReleased == \A p \in Procs : lock = p ~> lock # p

\* A call blocked in flock gets through or is interrupted.
RequestResolves == \A p \in Procs : pc[p] = "wait" ~> pc[p] # "wait"

=============================================================================
