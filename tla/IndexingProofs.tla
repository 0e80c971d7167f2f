---------------------------- MODULE IndexingProofs ----------------------------
(***************************************************************************)
(* Theorems about Indexing for any processes, commits, repositories and     *)
(* states of the worktree.                                                 *)
(***************************************************************************)
EXTENDS Indexing, TLAPS

-----------------------------------------------------------------------------
(***************************************************************************)
(* Type correctness.                                                       *)
(***************************************************************************)

Places == {"idle", "search", "live", "reconcile", "look", "validate", "symbols",
           "lock", "unlink", "create", "wipe", "zoekt", "ctags", "update",
           "replace", "release", "status", "rename", "read", "write", "serve"}

Taken == Snapshots \cup {Absent}

Commands ==
    [pc : Places, job : Jobs, repo : Repos, at : Taken, key : Taken, snap : Taken,
     stamp : Stamps, rebuild : BOOLEAN, built : BOOLEAN,
     error : {"none", "registry", "index"}, seen : [Repos -> Stamps],
     cached : Taken, hits : SUBSET Snapshots]

\* What build and refresh do once they have looked.
Building == {"validate", "symbols", "lock", "unlink", "create", "wipe", "zoekt",
             "ctags", "update", "replace"}

\* A command that goes on has read what it goes on with.
HasRead(c) ==
    /\ c.pc \in {"reconcile", "serve"} => c.at \in Snapshots
    /\ c.job = "search" /\ c.pc \notin {"idle", "search"} => c.at \in Snapshots
    /\ c.pc \in Building => c.snap \in Snapshots /\ c.stamp \in Commits \cup {Never}

FilesType ==
    /\ calm \in BOOLEAN
    /\ head \in Commits /\ dirt \in Dirts /\ tools \subseteq Tools
    /\ zoekt \in Snapshots \cup Unreadable
    /\ ctags \in Snapshots \cup Unreadable
    /\ registry \in [Repos -> Stamps]
    /\ lock \in [owner : Procs \cup {Absent}, stale : BOOLEAN]
    /\ temporary \in BOOLEAN /\ registered \subseteq Repos /\ mishaps \subseteq Mishaps

OpType == op \in [Procs -> Commands] /\ \A p \in Procs : HasRead(op[p])

TypeInv == FilesType /\ OpType

LEMMA TypeImplied == TypeInv => TypeOK
  BY DEF TypeInv, FilesType, OpType, TypeOK, Commands, Taken

LEMMA IdleIsCommand == Idle \in Commands /\ HasRead(Idle)
  BY IndexingAssumption
     DEF Idle, Commands, HasRead, Places, Jobs, Taken, Stamps, Building

LEMMA WorktreeIsSnapshot == FilesType => Worktree \in Snapshots
  BY DEF FilesType, Worktree, Snapshots

\* A process replaces its own command by another.
LEMMA OpReplaced ==
    ASSUME OpType, NEW p \in Procs, NEW c \in Commands, HasRead(c),
           op' = [op EXCEPT ![p] = c]
    PROVE  OpType'
  BY DEF OpType

LEMMA EndedIsCommand ==
    ASSUME OpType, NEW p \in Procs
    PROVE  Ended(p) \in Commands /\ HasRead(Ended(p))
  BY IndexingAssumption
     DEF OpType, Ended, Idle, Commands, HasRead, Places, Jobs, Taken, Stamps, Building

\* The command goes on to serve what it can, or from another one's point of view
\* raises inside the lock.
LEMMA ServesAfterAll ==
    ASSUME NEW c \in Commands, HasRead(c), c.pc \notin {"idle", "search"},
           c.job = "search", NEW k \in Taken
    PROVE  /\ [c EXCEPT !.pc = "serve"] \in Commands
           /\ HasRead([c EXCEPT !.pc = "serve"])
           /\ [c EXCEPT !.pc = "serve", !.cached = k] \in Commands
           /\ HasRead([c EXCEPT !.pc = "serve", !.cached = k])
  <1>1. [c EXCEPT !.pc = "serve"] \in Commands
    BY DEF Commands, Places
  <1>2. HasRead([c EXCEPT !.pc = "serve"])
    BY DEF Commands, HasRead, Building
  <1>3. [c EXCEPT !.pc = "serve", !.cached = k] \in Commands
    BY DEF Commands, Places
  <1>4. HasRead([c EXCEPT !.pc = "serve", !.cached = k])
    BY DEF Commands, HasRead, Building
  <1>5. QED
    BY <1>1, <1>2, <1>3, <1>4

LEMMA RaisedIsCommand ==
    ASSUME OpType, NEW p \in Procs, NEW error,
           op[p].pc \notin {"idle", "search"}
    PROVE  Raised(p, error) \in Commands /\ HasRead(Raised(p, error))
  <1>1. op[p] \in Commands /\ HasRead(op[p])
    BY DEF OpType
  <1>2. op[p].cached \in Taken
    BY <1>1 DEF Commands
  <1>3. QED
    BY <1>1, <1>2, EndedIsCommand, ServesAfterAll DEF Raised

LEMMA ReturnedIsCommand ==
    ASSUME OpType, NEW p \in Procs, op[p].pc \notin {"idle", "search"}
    PROVE  Returned(p) \in Commands /\ HasRead(Returned(p))
  <1>1. op[p] \in Commands /\ HasRead(op[p])
    BY DEF OpType
  <1>2. op[p].key \in Taken
    BY <1>1 DEF Commands
  <1>3. QED
    BY <1>1, <1>2, EndedIsCommand, ServesAfterAll DEF Returned

LEMMA RaiseKeepsType ==
    ASSUME OpType, NEW p \in Procs, NEW error \in {"registry", "index"},
           op[p].pc \notin {"idle", "search"}, Raise(p, error)
    PROVE  OpType'
  <1>1. CASE Inside(p)
    <2> DEFINE c == [op[p] EXCEPT !.pc = "release", !.error = error]
    <2>1. op[p] \in Commands /\ HasRead(op[p])
      BY DEF OpType
    <2>2. c \in Commands
      BY <2>1 DEF Commands, Places
    <2>3. HasRead(c)
      BY <2>1 DEF Commands, HasRead, Building
    <2>4. op' = [op EXCEPT ![p] = c]
      BY <1>1 DEF Raise
    <2>5. QED
      BY <2>2, <2>3, <2>4, OpReplaced
  <1>2. CASE ~Inside(p)
    BY <1>2, RaisedIsCommand, OpReplaced DEF Raise
  <1>3. QED
    BY <1>1, <1>2

\* A command goes on elsewhere, with what it has read.
LEMMA GotoKeepsType ==
    ASSUME OpType, NEW p \in Procs, NEW loc \in Places,
           loc \in {"reconcile", "serve"} => op[p].at \in Snapshots,
           op[p].pc \notin {"idle", "search"},
           loc \in Building =>
               op[p].snap \in Snapshots /\ op[p].stamp \in Commits \cup {Never},
           Goto(p, loc)
    PROVE  OpType'
  BY DEF OpType, Commands, HasRead, Goto

LEMMA InitType == Init => TypeInv
  <1> SUFFICES ASSUME Init PROVE TypeInv
    OBVIOUS
  <1>1. FilesType
    BY IndexingAssumption
       DEF Init, FilesType, Unreadable, Stamps, NoLock, Tools, Mishaps
  <1>2. OpType
    BY IdleIsCommand DEF Init, OpType
  <1>3. QED
    BY <1>1, <1>2 DEF TypeInv

LEMMA NextOpType == TypeInv /\ [Next]_vars => OpType'
  <1> SUFFICES ASSUME TypeInv, [Next]_vars PROVE OpType'
    OBVIOUS
  <1>a. OpType /\ FilesType /\ Worktree \in Snapshots
    BY WorktreeIsSnapshot DEF TypeInv
  <1>1. CASE MoveWorktree \/ Install \/ Damage \/ Expire \/ UNCHANGED vars
    BY <1>1, <1>a DEF MoveWorktree, Install, Damage, Expire, vars, OpType, HasRead
  <1> SUFFICES ASSUME NEW p \in Procs,
                      \/ \E job \in Jobs, repo \in Repos, fresh \in BOOLEAN :
                             Begin(p, job, repo, fresh)
                      \/ Step(p) \/ Crash(p)
               PROVE  OpType'
    BY <1>1 DEF Next
  <1>2. ASSUME NEW job \in Jobs, NEW repo \in Repos, NEW fresh \in BOOLEAN,
               Begin(p, job, repo, fresh)
        PROVE  OpType'
    <2> DEFINE loc == CASE job \in {"build", "refresh"} -> "look"
                        [] job = "search" -> "search"
                        [] OTHER -> "read"
               known == IF fresh THEN Absent ELSE op[p].cached
               rebuild == job = "build"
               c == [Idle EXCEPT !.job = job, !.repo = repo, !.rebuild = rebuild,
                                 !.cached = known, !.pc = loc]
    <2>1. op[p].cached \in Taken
      BY <1>a DEF OpType, Commands
    <2>2. known \in Taken /\ rebuild \in BOOLEAN
      BY <2>1 DEF Taken
    <2>3. loc \in {"look", "search", "read"} /\ (job = "search" => loc = "search")
      BY DEF Jobs
    <2> HIDE DEF loc, known, rebuild
    <2>4. c \in Commands
      BY <2>2, <2>3, IdleIsCommand DEF Commands, Places
    <2>5. HasRead(c)
      BY <2>3, <2>4 DEF Commands, HasRead, Building, Idle
    <2>6. op' = [op EXCEPT ![p] = c]
      BY <1>2 DEF Begin, loc, known, rebuild
    <2>7. QED
      BY <1>a, <2>4, <2>5, <2>6, OpReplaced
  <1>3. CASE Search(p)
    <2> DEFINE loc == IF registry[Main] = Absent THEN "live" ELSE "reconcile"
               c == [op[p] EXCEPT !.at = Worktree, !.pc = loc]
    <2>1. op[p] \in Commands /\ loc \in {"live", "reconcile"}
      BY <1>a DEF OpType
    <2> HIDE DEF loc
    <2>2. c \in Commands
      BY <2>1, <1>a DEF Commands, Places, Taken
    <2>3. HasRead(c)
      BY <2>1, <1>a DEF Commands, HasRead, Building
    <2>4. op' = [op EXCEPT ![p] = c]
      BY <1>3 DEF Search, loc
    <2>5. QED
      BY <1>a, <2>2, <2>3, <2>4, OpReplaced
  <1>4. CASE Reconcile(p)
    <2>1. CASE registry[Main] = Absent
      BY <2>1, <1>4, <1>a, RaiseKeepsType DEF Reconcile, At
    <2>2. CASE registry[Main] # Absent
      BY <2>2, <1>4, <1>a
         DEF Reconcile, At, OpType, Commands, HasRead, Places, Taken, Building
    <2>3. QED
      BY <2>1, <2>2
  <1>5. CASE Look(p)
    <2>1. CASE registry[Main] = Absent
      BY <2>1, <1>5, <1>a, RaiseKeepsType DEF Look, At
    <2>2. CASE registry[Main] # Absent
      <3>1. registry[Main] \in Commits \cup {Never}
        BY <2>2, <1>a, IndexingAssumption DEF FilesType, Stamps
      <3>2. QED
        BY <2>2, <3>1, <1>5, <1>a
           DEF Look, At, OpType, Commands, HasRead, Places, Taken, Building, Stamps
    <2>3. QED
      BY <2>1, <2>2
  <1>6. CASE Validate(p)
    <2>1. CASE Goto(p, "symbols")
      BY <2>1, <1>6, <1>a, GotoKeepsType
         DEF Validate, At, Places, OpType, HasRead, Building
    <2>2. CASE op' = [op EXCEPT ![p].rebuild = TRUE, ![p].pc = "look"]
      <3> DEFINE c == [op[p] EXCEPT !.rebuild = TRUE, !.pc = "look"]
      <3>1. op[p] \in Commands /\ HasRead(op[p]) /\ op[p].pc = "validate"
        BY <1>6, <1>a DEF OpType, Validate, At
      <3>2. c \in Commands
        BY <3>1 DEF Commands, Places
      <3>3. HasRead(c)
        BY <3>1 DEF Commands, HasRead, Building
      <3>4. op' = [op EXCEPT ![p] = c]
        BY <2>2, <1>a DEF OpType
      <3>5. QED
        BY <1>a, <3>2, <3>3, <3>4, OpReplaced
    <2>3. QED
      BY <2>1, <2>2, <1>6 DEF Validate
  <1>7. CASE Symbols(p)
    BY <1>7, <1>a, GotoKeepsType
       DEF Symbols, At, Places, OpType, HasRead, Building
  <1>8. CASE Acquire(p)
    BY <1>8, <1>a, GotoKeepsType, RaiseKeepsType
       DEF Acquire, Enter, At, Places, OpType, HasRead, Building
  <1>9. CASE Unlink(p)
    BY <1>9, <1>a, GotoKeepsType
       DEF Unlink, At, Places, OpType, HasRead, Building
  <1>10. CASE Create(p)
    BY <1>10, <1>a, GotoKeepsType, RaiseKeepsType
       DEF Create, Enter, At, Places, OpType, HasRead, Building
  <1>11. CASE Release(p)
    <2>1. CASE op[p].error # "none"
      BY <2>1, <1>11, <1>a, RaisedIsCommand, OpReplaced DEF Release, At
    <2>2. CASE op[p].error = "none" /\ op[p].rebuild
      BY <2>2, <1>11, <1>a, ReturnedIsCommand, OpReplaced DEF Release, At
    <2>3. CASE op[p].error = "none" /\ ~op[p].rebuild
      BY <2>3, <1>11, <1>a DEF Release, At, OpType, Commands, HasRead, Places, Building
    <2>4. QED
      BY <2>1, <2>2, <2>3
  <1>12. CASE Wipe(p)
    BY <1>12, <1>a, GotoKeepsType DEF Wipe, At, Places, OpType, HasRead, Building
  <1>13. CASE IndexZoekt(p)
    <2>1. PICK works \in BOOLEAN :
             op' = [op EXCEPT ![p].pc = "ctags", ![p].built = works]
      BY <1>13 DEF IndexZoekt
    <2> DEFINE c == [op[p] EXCEPT !.pc = "ctags", !.built = works]
    <2>2. op[p] \in Commands /\ HasRead(op[p]) /\ op[p].pc = "zoekt"
      BY <1>13, <1>a DEF OpType, IndexZoekt, At
    <2>3. c \in Commands
      BY <2>2 DEF Commands, Places
    <2>4. HasRead(c)
      BY <2>2 DEF Commands, HasRead, Building
    <2>5. op' = [op EXCEPT ![p] = c]
      BY <2>1, <1>a DEF OpType
    <2>6. QED
      BY <1>a, <2>3, <2>4, <2>5, OpReplaced
  <1>14. CASE IndexCtags(p)
    BY <1>14, <1>a
       DEF IndexCtags, Goto, At, OpType, Commands, HasRead, Places, Building
  <1>15. CASE Update(p)
    <2>1. CASE registry[Main] = Absent
      BY <2>1, <1>15, <1>a, RaiseKeepsType DEF Update, At
    <2>2. CASE registry[Main] # Absent
      BY <2>2, <1>15, <1>a
         DEF Update, At, OpType, FilesType, Commands, HasRead, Places, Building
    <2>3. QED
      BY <2>1, <2>2
  <1>16. CASE Replace(p)
    BY <1>16, <1>a, GotoKeepsType DEF Replace, At, Places, OpType, HasRead, Building
  <1>17. CASE WriteStatus(p)
    BY <1>17, <1>a, GotoKeepsType DEF WriteStatus, At, Places, OpType, HasRead, Building
  <1>18. CASE RenameStatus(p)
    <2>1. CASE ~temporary
      BY <2>1, <1>18, <1>a, RaiseKeepsType DEF RenameStatus, At
    <2>2. CASE temporary /\ op[p].rebuild
      BY <2>2, <1>18, <1>a, GotoKeepsType
         DEF RenameStatus, At, Places, Building
    <2>3. CASE temporary /\ ~op[p].rebuild
      BY <2>3, <1>18, <1>a, ReturnedIsCommand, OpReplaced DEF RenameStatus, At
    <2>4. QED
      BY <2>1, <2>2, <2>3
  <1>19. CASE WriteFails(p)
    BY <1>19, <1>a, RaiseKeepsType DEF WriteFails
  <1>20. CASE ReadRegistry(p)
    <2>1. CASE Return(p)
      BY <2>1, <1>a, EndedIsCommand, OpReplaced DEF Return
    <2>2. CASE ~Return(p)
      BY <2>2, <1>20, <1>a
         DEF ReadRegistry, At, OpType, FilesType, Commands, HasRead, Places, Building
    <2>3. QED
      BY <2>1, <2>2
  <1>21. CASE WriteRegistry(p)
    BY <1>21, <1>a, EndedIsCommand, OpReplaced DEF WriteRegistry, Return
  <1>22. CASE Serve(p)
    <2>1. CASE Return(p)
      BY <2>1, <1>a, EndedIsCommand, OpReplaced DEF Return
    <2>2. CASE ~Return(p)
      <3>1. Persistent(p) \subseteq Snapshots
        BY <1>a DEF Persistent, CtagsHits, ZoektHits, FilesType
      <3>2. QED
        BY <2>2, <3>1, <1>22, <1>a
           DEF Serve, At, OpType, FilesType, Commands, HasRead, Places, Building
    <2>3. QED
      BY <2>1, <2>2
  <1>23. CASE ServeLive(p)
    BY <1>23, <1>a, EndedIsCommand, OpReplaced DEF ServeLive, Return
  <1>24. CASE Crash(p)
    BY <1>24, <1>a, IdleIsCommand, OpReplaced DEF Crash
  <1>25. QED
    BY <1>2, <1>3, <1>4, <1>5, <1>6, <1>7, <1>8, <1>9, <1>10, <1>11, <1>12, <1>13,
       <1>14, <1>15, <1>16, <1>17, <1>18, <1>19, <1>20, <1>21, <1>22, <1>23, <1>24
       DEF Step

LEMMA NextFilesType == TypeInv /\ [Next]_vars => FilesType'
  <1> SUFFICES ASSUME TypeInv, [Next]_vars PROVE FilesType'
    OBVIOUS
  <1>a. OpType /\ FilesType /\ Worktree \in Snapshots
    BY WorktreeIsSnapshot DEF TypeInv
  <1>b. Committed(head) \in Snapshots
    BY <1>a, IndexingAssumption DEF Committed, Snapshots, FilesType
  <1> USE DEF FilesType, world, indexes, history, Unreadable
  <1>1. CASE MoveWorktree \/ Install \/ Damage \/ UNCHANGED vars
    BY <1>1, <1>a DEF MoveWorktree, Install, Damage, vars
  <1>2. CASE Expire
    BY <1>2, <1>a DEF Expire
  <1> SUFFICES ASSUME NEW p \in Procs,
                      \/ \E job \in Jobs, repo \in Repos, fresh \in BOOLEAN :
                             Begin(p, job, repo, fresh)
                      \/ Step(p) \/ Crash(p)
               PROVE  FilesType'
    BY <1>1, <1>2 DEF Next
  <1>3. CASE \E job \in Jobs, repo \in Repos, fresh \in BOOLEAN :
                Begin(p, job, repo, fresh)
    BY <1>3, <1>a DEF Begin
  <1>4. CASE \/ Search(p) \/ Reconcile(p) \/ Look(p) \/ Update(p) \/ WriteFails(p)
             \/ ReadRegistry(p) \/ Serve(p) \/ ServeLive(p)
    BY <1>4, <1>a DEF Search, Reconcile, Look, Update, WriteFails, ReadRegistry,
                      Serve, ServeLive
  <1>5. CASE Validate(p)
    BY <1>5, <1>a DEF Validate
  <1>6. CASE Symbols(p)
    BY <1>6, <1>a DEF Symbols
  <1>7. CASE Acquire(p) \/ Create(p)
    <2>1. LockOf(p) \in [owner : Procs \cup {Absent}, stale : BOOLEAN]
      BY DEF LockOf
    <2>2. lock' = lock \/ lock' = LockOf(p)
      BY <1>7 DEF Acquire, Create, Enter
    <2> HIDE DEF LockOf
    <2>3. QED
      BY <1>7, <1>a, <2>1, <2>2 DEF Acquire, Create
  <1>8. CASE Unlink(p)
    BY <1>8, <1>a DEF Unlink, NoLock, Mishaps
  <1>9. CASE Release(p)
    BY <1>9, <1>a DEF Release, NoLock
  <1>10. CASE Wipe(p)
    BY <1>10, <1>a DEF Wipe
  <1>11. CASE IndexZoekt(p) \/ Crash(p)
    BY <1>11, <1>a, <1>b DEF IndexZoekt, Crash
  <1>12. CASE IndexCtags(p)
    BY <1>12, <1>a DEF IndexCtags, Generated
  <1>13. CASE Replace(p)
    <2>1. op[p].stamp \in Stamps /\ op[p].seen \in [Repos -> Stamps]
      BY <1>a DEF OpType, Commands
    <2>2. op[p].snap.head \in Stamps
      BY <1>13, <1>a DEF Replace, At, OpType, HasRead, Building, Snapshots, Stamps
    <2>3. Stamp(p) \in Stamps
      BY <2>1, <2>2 DEF Stamp
    <2>4. QED
      BY <1>13, <1>a, <2>1, <2>3 DEF Replace, Overlapped, Mishaps
  <1>14. CASE WriteStatus(p) \/ RenameStatus(p)
    BY <1>14, <1>a DEF WriteStatus, RenameStatus
  <1>15. CASE WriteRegistry(p)
    <2>1. op[p].repo \in Repos /\ op[p].seen \in [Repos -> Stamps]
      BY <1>a DEF OpType, Commands
    <2>2. QED
      BY <1>15, <1>a, <2>1 DEF WriteRegistry, Overlapped, Mishaps, Stamps
  <1>16. QED
    BY <1>3, <1>4, <1>5, <1>6, <1>7, <1>8, <1>9, <1>10, <1>11, <1>12, <1>13,
       <1>14, <1>15
       DEF Step

LEMMA NextType == TypeInv /\ [Next]_vars => TypeInv'
  BY NextOpType, NextFilesType DEF TypeInv

LEMMA TypeHolds == Spec => []TypeInv
  BY InitType, NextType, PTL DEF Spec

\* TypeOK: whatever commands run, interleave, fail and die, the files and what
\* each process has read of them keep their types.
THEOREM TypeCorrect == Spec => []TypeOK
  BY TypeHolds, TypeImplied, PTL

-----------------------------------------------------------------------------
(***************************************************************************)
(* The lock.                                                               *)
(***************************************************************************)

\* Whoever is inside owns a lock file that is not stale.  A refresh writes its
\* status outside the lock, so it must not be taken for a build.
OwnsLock ==
    /\ "robbed" \notin mishaps => \A p \in Procs : Inside(p) => lock = LockOf(p)
    /\ \A p \in Procs : op[p].pc \in {"validate", "symbols"} => ~op[p].rebuild

\* Nobody touches what another process is doing.
Others(p) == \A q \in Procs \ {p} : op'[q] = op[q]

LEMMA OnlyItsOwn ==
    ASSUME TypeInv, NEW p \in Procs,
           \/ \E job \in Jobs, repo \in Repos, fresh \in BOOLEAN :
                  Begin(p, job, repo, fresh)
           \/ Step(p) \/ Crash(p)
    PROVE  Others(p)
  <1>1. op \in [Procs -> Commands]
    BY DEF TypeInv, OpType
  <1>2. \A q \in Procs : \A loc : Goto(q, loc) => Others(q)
    BY <1>1 DEF Goto, Others
  <1>3. \A q \in Procs : Return(q) => Others(q)
    BY <1>1 DEF Return, Others
  <1>4. \A q \in Procs : \A error : Raise(q, error) => Others(q)
    BY <1>1 DEF Raise, Others
  <1>5. CASE \E job \in Jobs, repo \in Repos, fresh \in BOOLEAN :
                Begin(p, job, repo, fresh)
    BY <1>1, <1>5 DEF Begin, Others
  <1>6. CASE Step(p)
    BY <1>1, <1>2, <1>3, <1>4, <1>6
       DEF Step, Search, Reconcile, Look, Validate, Symbols, Acquire, Enter, Unlink,
           Create, Release, Wipe, IndexZoekt, IndexCtags, Update, Replace,
           WriteStatus, RenameStatus, WriteFails, ReadRegistry, WriteRegistry, Serve,
           ServeLive, Others
  <1>7. CASE Crash(p)
    BY <1>1, <1>7 DEF Crash, Others
  <1>8. QED
    BY <1>5, <1>6, <1>7

\* Where a command is after it has ended, raised or gone on.
LEMMA Leaves ==
    ASSUME TypeInv, NEW p \in Procs
    PROVE  /\ Return(p) => op'[p].pc = "idle"
           /\ \A error : Raise(p, error) =>
                  IF Inside(p) THEN op'[p].pc = "release" ELSE op'[p].pc \in {"idle", "serve"}
           /\ Returned(p).pc \in {"idle", "serve"}
           /\ \A error : Raised(p, error).pc \in {"idle", "serve"}
           /\ \A loc : Goto(p, loc) => op'[p].pc = loc /\ op'[p].rebuild = op[p].rebuild
  <1>1. op \in [Procs -> Commands] /\ op[p] \in Commands
    BY DEF TypeInv, OpType
  <1>2. Ended(p).pc = "idle"
    BY DEF Ended, Idle
  <1>3. [op[p] EXCEPT !.pc = "serve"].pc = "serve"
    BY <1>1 DEF Commands
  <1>4. [op[p] EXCEPT !.pc = "serve", !.cached = op[p].key].pc = "serve"
    BY <1>1 DEF Commands
  <1>5. \A error : [op[p] EXCEPT !.pc = "release", !.error = error].pc = "release"
    BY <1>1 DEF Commands
  <1>6. Returned(p).pc \in {"idle", "serve"}
    BY <1>2, <1>4 DEF Returned
  <1>7. \A error : Raised(p, error).pc \in {"idle", "serve"}
    BY <1>2, <1>3 DEF Raised
  <1>8. ASSUME NEW error, Raise(p, error)
        PROVE  IF Inside(p) THEN op'[p].pc = "release" ELSE op'[p].pc \in {"idle", "serve"}
    BY <1>1, <1>5, <1>7, <1>8 DEF Raise
  <1>9. \A loc : Goto(p, loc) => op'[p].pc = loc /\ op'[p].rebuild = op[p].rebuild
    BY <1>1 DEF Goto, Commands
  <1>10. QED
    BY <1>1, <1>2, <1>6, <1>7, <1>8, <1>9 DEF Return

LEMMA InitOwns == Init => OwnsLock
  BY DEF Init, OwnsLock, Inside, Idle

LEMMA NextOwns == TypeInv /\ OwnsLock /\ [Next]_vars => OwnsLock'
  <1> SUFFICES ASSUME TypeInv, OwnsLock, [Next]_vars PROVE OwnsLock'
    OBVIOUS
  <1>a. op \in [Procs -> Commands] /\ lock \in [owner : Procs \cup {Absent}, stale : BOOLEAN]
    BY DEF TypeInv, OpType, FilesType
  <1>1. CASE MoveWorktree \/ Install \/ Damage \/ UNCHANGED vars
    BY <1>1 DEF MoveWorktree, Install, Damage, vars, history, OwnsLock, Inside, LockOf
  <1>2. CASE Expire
    BY <1>2, <1>a DEF Expire, history, OwnsLock, Inside, LockOf
  <1> SUFFICES ASSUME NEW p \in Procs,
                      \/ \E job \in Jobs, repo \in Repos, fresh \in BOOLEAN :
                             Begin(p, job, repo, fresh)
                      \/ Step(p) \/ Crash(p)
               PROVE  OwnsLock'
    BY <1>1, <1>2 DEF Next
  <1>b. \A q \in Procs \ {p} : op'[q] = op[q] /\ (Inside(q)' <=> Inside(q))
    BY OnlyItsOwn DEF Others, Inside
  <1>c. Inside(p)' <=> \/ op'[p].pc \in {"wipe", "zoekt", "ctags", "update", "replace",
                                          "release"}
                       \/ op'[p].pc \in {"status", "rename"} /\ op'[p].rebuild
    BY DEF Inside
  \* A step that keeps the lock, and is inside only if it was.
  <1>d. ASSUME UNCHANGED lock, mishaps \subseteq mishaps', Inside(p)' => Inside(p),
               op'[p].pc \in {"validate", "symbols"} => ~op'[p].rebuild
        PROVE  OwnsLock'
    BY <1>b, <1>d DEF OwnsLock, LockOf
  <1>3. CASE \/ \E job \in Jobs, repo \in Repos, fresh \in BOOLEAN :
                    Begin(p, job, repo, fresh)
             \/ Search(p) \/ Crash(p)
    <2>1. ASSUME NEW job \in Jobs, NEW repo \in Repos, NEW fresh \in BOOLEAN,
                 Begin(p, job, repo, fresh)
          PROVE  op'[p].pc \in {"look", "search", "read"}
      BY <1>a, <2>1 DEF Begin, Idle
    <2>2. Search(p) => op'[p].pc \in {"live", "reconcile"}
      BY <1>a DEF Search, Commands
    <2>3. Crash(p) => op'[p].pc = "idle"
      BY <1>a DEF Crash, Idle
    <2>4. op'[p].pc \in {"look", "search", "read", "live", "reconcile", "idle"}
      BY <1>3, <2>1, <2>2, <2>3
    <2>5. QED
      BY <1>3, <1>c, <1>d, <2>4 DEF Begin, Search, Crash, history
  <1>4. CASE Reconcile(p) \/ Look(p)
    <2>1. op'[p].pc \in {"serve", "look", "idle", "lock", "validate"}
      BY <1>4, <1>a, Leaves DEF Reconcile, Look, At, Inside, Commands
    <2>2. op'[p].pc = "validate" => ~op'[p].rebuild
      BY <1>4, <1>a, Leaves DEF Reconcile, Look, At, Inside, Commands
    <2>3. QED
      BY <1>4, <1>c, <1>d, <2>1, <2>2 DEF Reconcile, Look, history
  <1>5. CASE Validate(p)
    <2>1. \/ op'[p].pc = "look"
          \/ op'[p].pc = "symbols" /\ ~op'[p].rebuild
      BY <1>5, <1>a, Leaves DEF Validate, At, OwnsLock, Commands
    <2>2. QED
      BY <1>5, <1>c, <1>d, <2>1 DEF Validate, history
  <1>6. CASE Symbols(p)
    <2>1. op'[p].pc \in {"lock", "status"} /\ ~op'[p].rebuild
      BY <1>6, <1>a, Leaves DEF Symbols, At, OwnsLock
    <2>2. QED
      BY <1>6, <1>c, <1>d, <2>1 DEF Symbols, history
  <1>7. CASE (Acquire(p) \/ Create(p)) /\ ~Enter(p)
    <2>1. op'[p].pc \in {"unlink", "idle", "serve"}
      BY <1>7, Leaves DEF Acquire, Create, At, Inside
    <2>2. QED
      BY <1>7, <1>c, <1>d, <2>1 DEF Acquire, Create, history
  <1>8. CASE (Acquire(p) \/ Create(p)) /\ Enter(p)
    <2>1. op'[p].pc \in {"wipe", "ctags"}
      BY <1>8, Leaves DEF Enter
    <2>2. lock = NoLock /\ lock' = LockOf(p) /\ mishaps' = mishaps
      <3>1. ~Inside(p)
        BY <1>8 DEF Acquire, Create, At, Inside
      <3>2. \A error : ~Raise(p, error)
        BY <2>1, <3>1, Leaves
      <3>3. ~Goto(p, "unlink")
        BY <2>1, Leaves
      <3>4. QED
        BY <1>8, <3>2, <3>3 DEF Acquire, Create, Enter, history
    <2>3. "robbed" \notin mishaps => \A q \in Procs \ {p} : ~Inside(q)
      BY <2>2, IndexingAssumption DEF OwnsLock, NoLock, LockOf
    <2>4. QED
      BY <1>b, <2>1, <2>2, <2>3 DEF OwnsLock, LockOf
  <1>9. CASE Unlink(p)
    <2>1. op'[p].pc = "create"
      BY <1>9, Leaves DEF Unlink
    <2>2. "robbed" \notin mishaps' => \A q \in Procs : ~Inside(q)
      BY <1>9, IndexingAssumption DEF Unlink, OwnsLock, NoLock, LockOf
    <2>3. "robbed" \notin mishaps' => "robbed" \notin mishaps
      BY <1>9 DEF Unlink
    <2>4. QED
      BY <1>b, <1>c, <2>1, <2>2, <2>3 DEF OwnsLock
  <1>10. CASE Release(p)
    <2>1. op'[p].pc \in {"idle", "serve"} \/ (op'[p].pc = "status" /\ ~op'[p].rebuild)
      BY <1>10, <1>a, Leaves DEF Release, Commands
    <2>2. "robbed" \notin mishaps => \A q \in Procs \ {p} : ~Inside(q)
      BY <1>10 DEF Release, At, OwnsLock, Inside, LockOf
    <2>3. QED
      BY <1>10, <1>b, <1>c, <2>1, <2>2 DEF OwnsLock, Release, history
  <1>11. CASE \/ Wipe(p) \/ IndexZoekt(p) \/ IndexCtags(p) \/ Update(p) \/ Replace(p)
              \/ (WriteStatus(p) \/ RenameStatus(p) \/ WriteFails(p)) /\ Inside(p)
    <2>1. Inside(p)
      BY <1>11 DEF Wipe, IndexZoekt, IndexCtags, Update, Replace, At, Inside
    <2>2. op'[p].pc \notin {"validate", "symbols"}
      BY <1>11, <1>a, <2>1, Leaves
         DEF Wipe, IndexZoekt, IndexCtags, Update, Replace, WriteStatus, RenameStatus,
             WriteFails, Commands
    <2>3. UNCHANGED lock /\ mishaps \subseteq mishaps'
      BY <1>11 DEF Wipe, IndexZoekt, IndexCtags, Update, Replace, WriteStatus,
                   RenameStatus, WriteFails, Overlapped, history
    <2>4. QED
      BY <1>d, <2>1, <2>2, <2>3
  <1>12. CASE (WriteStatus(p) \/ RenameStatus(p) \/ WriteFails(p)) /\ ~Inside(p)
    <2>1. \/ op'[p].pc \in {"idle", "serve"}
          \/ op'[p].pc = "rename" /\ op'[p].rebuild = op[p].rebuild
      BY <1>12, <1>a, Leaves
         DEF WriteStatus, RenameStatus, WriteFails, At, Inside
    <2>2. QED
      BY <1>12, <1>c, <1>d, <2>1 DEF WriteStatus, RenameStatus, WriteFails, At, Inside,
                                     history
  <1>13. CASE ReadRegistry(p) \/ WriteRegistry(p) \/ Serve(p) \/ ServeLive(p)
    <2>1. op'[p].pc \in {"idle", "write", "live"}
      BY <1>13, <1>a, Leaves
         DEF ReadRegistry, WriteRegistry, Serve, ServeLive, Commands
    <2>2. QED
      BY <1>13, <1>c, <1>d, <2>1 DEF ReadRegistry, WriteRegistry, Serve, ServeLive,
                                     Overlapped, history
  <1>14. QED
    BY <1>3, <1>4, <1>5, <1>6, <1>7, <1>8, <1>9, <1>10, <1>11, <1>12, <1>13 DEF Step

\* LockedApart: whoever dies inside the lock and whoever breaks a stale one, two
\* processes are never inside together until a fresh lock is unlinked as stale.
THEOREM LockExcludes == Spec => []LockedApart
  <1>1. OwnsLock => LockedApart
    BY DEF OwnsLock, LockedApart, LockOf
  <1>2. QED
    BY <1>1, TypeHolds, InitOwns, NextOwns, PTL DEF Spec

-----------------------------------------------------------------------------
(***************************************************************************)
(* The registry.                                                           *)
(***************************************************************************)

Replacing(p) == At(p, "write") \/ At(p, "replace")

\* While no two replacements overlap, whoever is about to replace the registry
\* has read the one it replaces; and a build stamps a record it has found.
SeenIsCurrent ==
    /\ "overlapped" \notin mishaps =>
          \A p \in Procs : Replacing(p) => op[p].seen = registry
    /\ \A p \in Procs : At(p, "replace") => op[p].seen[Main] # Absent

RegistryInv == RegistryKept /\ SeenIsCurrent

\* The places of a command that neither reads the registry to replace it nor
\* replaces it.
LEMMA NotReplacing ==
    ASSUME TypeInv, NEW p \in Procs,
           \/ \E job \in Jobs, repo \in Repos, fresh \in BOOLEAN :
                  Begin(p, job, repo, fresh)
           \/ Step(p) \/ Crash(p),
           ~Update(p), ~Replace(p), ~ReadRegistry(p), ~WriteRegistry(p)
    PROVE  op'[p].pc \notin {"write", "replace"}
  <1>a. op \in [Procs -> Commands]
    BY DEF TypeInv, OpType
  <1>1. ASSUME NEW job \in Jobs, NEW repo \in Repos, NEW fresh \in BOOLEAN,
               Begin(p, job, repo, fresh)
        PROVE  op'[p].pc \notin {"write", "replace"}
    BY <1>a, <1>1 DEF Begin, Idle
  <1>2. CASE Search(p)
    BY <1>a, <1>2 DEF Search, Commands
  <1>3. CASE Crash(p)
    BY <1>a, <1>3 DEF Crash, Idle
  <1>4. CASE Reconcile(p) \/ Look(p)
    BY <1>a, <1>4, Leaves DEF Reconcile, Look, Commands
  <1>5. CASE Validate(p) \/ Symbols(p)
    BY <1>a, <1>5, Leaves DEF Validate, Symbols, Commands
  <1>6. CASE Acquire(p) \/ Unlink(p) \/ Create(p)
    BY <1>6, Leaves DEF Acquire, Unlink, Create, Enter
  <1>7. CASE Release(p)
    BY <1>a, <1>7, Leaves DEF Release, Commands
  <1>8. CASE Wipe(p) \/ IndexZoekt(p) \/ IndexCtags(p)
    BY <1>a, <1>8, Leaves DEF Wipe, IndexZoekt, IndexCtags, Commands
  <1>9. CASE WriteStatus(p) \/ RenameStatus(p) \/ WriteFails(p)
    BY <1>a, <1>9, Leaves DEF WriteStatus, RenameStatus, WriteFails
  <1>10. CASE Serve(p) \/ ServeLive(p)
    BY <1>a, <1>10, Leaves DEF Serve, ServeLive, Commands
  <1>11. QED
    BY <1>1, <1>2, <1>3, <1>4, <1>5, <1>6, <1>7, <1>8, <1>9, <1>10 DEF Step

LEMMA OthersKeepRegistry ==
    ASSUME NEW p \in Procs,
           \/ \E job \in Jobs, repo \in Repos, fresh \in BOOLEAN :
                  Begin(p, job, repo, fresh)
           \/ Step(p) \/ Crash(p),
           ~Replace(p), ~WriteRegistry(p)
    PROVE  UNCHANGED <<registry, registered>> /\ mishaps \subseteq mishaps'
  BY DEF Step, Begin, Crash, Search, Reconcile, Look, Validate, Symbols, Acquire, Unlink,
         Create, Release, Wipe, IndexZoekt, IndexCtags, Update, WriteStatus, RenameStatus,
         WriteFails, ReadRegistry, Serve, ServeLive, history

LEMMA InitRegistry == Init => RegistryInv
  BY DEF Init, RegistryInv, RegistryKept, SeenIsCurrent, Replacing, At, Idle

LEMMA NextRegistry == TypeInv /\ RegistryInv /\ [Next]_vars => RegistryInv'
  <1> SUFFICES ASSUME TypeInv, RegistryInv, [Next]_vars PROVE RegistryInv'
    OBVIOUS
  <1>a. /\ op \in [Procs -> Commands] /\ \A p \in Procs : HasRead(op[p])
        /\ registry \in [Repos -> Stamps] /\ registered \subseteq Repos
        /\ Main \in Repos
    BY IndexingAssumption DEF TypeInv, OpType, FilesType
  <1>1. CASE MoveWorktree \/ Install \/ Damage \/ Expire \/ UNCHANGED vars
    BY <1>1 DEF MoveWorktree, Install, Damage, Expire, vars, history, RegistryInv,
                RegistryKept, SeenIsCurrent, Replacing, At
  <1> SUFFICES ASSUME NEW p \in Procs,
                      \/ \E job \in Jobs, repo \in Repos, fresh \in BOOLEAN :
                             Begin(p, job, repo, fresh)
                      \/ Step(p) \/ Crash(p)
               PROVE  RegistryInv'
    BY <1>1 DEF Next
  <1>b. \A q \in Procs \ {p} :
           /\ op'[q] = op[q]
           /\ Replacing(q)' <=> Replacing(q)
           /\ At(q, "replace")' <=> At(q, "replace")
    BY OnlyItsOwn DEF Others, Replacing, At
  <1>2. CASE ~Update(p) /\ ~Replace(p) /\ ~ReadRegistry(p) /\ ~WriteRegistry(p)
    <2>1. op'[p].pc \notin {"write", "replace"}
      BY <1>2, NotReplacing
    <2>2. UNCHANGED <<registry, registered>> /\ mishaps \subseteq mishaps'
      BY <1>2, OthersKeepRegistry
    <2>3. QED
      BY <1>b, <2>1, <2>2 DEF RegistryInv, RegistryKept, SeenIsCurrent, Replacing, At
  <1>3. CASE Update(p)
    <2>1. UNCHANGED <<registry, registered, mishaps>>
      BY <1>3 DEF Update, history
    <2>2. \/ op'[p].pc \notin {"write", "replace"}
          \/ op'[p].seen = registry /\ registry[Main] # Absent
      BY <1>3, <1>a, Leaves DEF Update, Commands
    <2>3. QED
      BY <1>b, <2>1, <2>2 DEF RegistryInv, RegistryKept, SeenIsCurrent, Replacing, At
  <1>4. CASE ReadRegistry(p)
    <2>1. UNCHANGED <<registry, registered, mishaps>>
      BY <1>4 DEF ReadRegistry, history
    <2>2. \/ op'[p].pc \notin {"write", "replace"}
          \/ op'[p].pc = "write" /\ op'[p].seen = registry
      BY <1>4, <1>a, Leaves DEF ReadRegistry, Commands
    <2>3. QED
      BY <1>b, <2>1, <2>2 DEF RegistryInv, RegistryKept, SeenIsCurrent, Replacing, At
  <1>5. CASE Replace(p)
    <2>1. op[p].seen \in [Repos -> Stamps] /\ op[p].seen[Main] # Absent
      BY <1>5, <1>a DEF Replace, RegistryInv, SeenIsCurrent, Commands
    <2>2. Stamp(p) # Absent
      BY <1>5, <1>a, IndexingAssumption
         DEF Replace, At, HasRead, Building, Snapshots, Stamp
    <2>3. op'[p].pc \in {"status", "release"}
      BY <1>5, Leaves DEF Replace
    <2>4. "overlapped" \notin mishaps' =>
             "overlapped" \notin mishaps /\ \A q \in Procs \ {p} : ~Replacing(q)
      BY <1>5 DEF Replace, Overlapped, Replacing
    <2>5. "overlapped" \notin mishaps => op[p].seen = registry
      BY <1>5 DEF Replace, RegistryInv, SeenIsCurrent, Replacing
    <2>6. "overlapped" \notin mishaps' =>
             {r \in Repos : registry'[r] # Absent} = {r \in Repos : registry[r] # Absent}
      BY <1>5, <1>a, <2>1, <2>2, <2>4, <2>5 DEF Replace
    <2>7. RegistryKept'
      BY <1>5, <2>4, <2>6 DEF Replace, RegistryInv, RegistryKept
    <2>8. SeenIsCurrent'
      BY <1>b, <2>3, <2>4 DEF RegistryInv, SeenIsCurrent, Replacing, At
    <2>9. QED
      BY <2>7, <2>8 DEF RegistryInv
  <1>6. CASE WriteRegistry(p)
    <2>1. op[p].seen \in [Repos -> Stamps] /\ op[p].repo \in Repos
      BY <1>a DEF Commands
    <2>2. op'[p].pc = "idle"
      BY <1>6, Leaves DEF WriteRegistry
    <2>3. "overlapped" \notin mishaps' =>
             "overlapped" \notin mishaps /\ \A q \in Procs \ {p} : ~Replacing(q)
      BY <1>6 DEF WriteRegistry, Overlapped, Replacing
    <2>4. "overlapped" \notin mishaps => op[p].seen = registry
      BY <1>6 DEF WriteRegistry, RegistryInv, SeenIsCurrent, Replacing
    <2>5. RegistryKept'
      <3>1. Never # Absent
        BY IndexingAssumption
      <3>2. CASE op[p].job = "add"
        BY <1>6, <1>a, <2>1, <2>3, <2>4, <3>1, <3>2
           DEF WriteRegistry, RegistryInv, RegistryKept
      <3>3. CASE op[p].job # "add"
        BY <1>6, <1>a, <2>1, <2>3, <2>4, <3>3
           DEF WriteRegistry, RegistryInv, RegistryKept
      <3>4. QED
        BY <3>2, <3>3
    <2>6. SeenIsCurrent'
      BY <1>b, <2>2, <2>3 DEF RegistryInv, SeenIsCurrent, Replacing, At
    <2>7. QED
      BY <2>5, <2>6 DEF RegistryInv
  <1>7. QED
    BY <1>2, <1>3, <1>4, <1>5, <1>6

\* RegistryKept: a build that outlives the removal of its repository, or dies
\* between two writes, brings no record back and loses none, until the commands
\* that replace the registry overlap.
THEOREM RegistryStands == Spec => []RegistryKept
  <1>1. RegistryInv => RegistryKept
    BY DEF RegistryInv
  <1>2. QED
    BY <1>1, TypeHolds, InitRegistry, NextRegistry, PTL DEF Spec

-----------------------------------------------------------------------------
(***************************************************************************)
(* What a search serves while nothing disturbs it.                         *)
(***************************************************************************)

Rebuilding == {"zoekt", "ctags", "update", "replace"}
Locking == {"lock", "unlink", "create"}

\* The record's stamp tells what an index was built from.
Agrees(index) ==
    Valid(index) /\ registry[Main] \in Commits => index = Committed(registry[Main])

Consistent == Agrees(zoekt) /\ Agrees(ctags)

\* Of an index the process leaves behind it: it is what the snapshot says, and
\* either the new stamp will say so or the old one does.
FromSnapshot(p, index) ==
    Valid(index) => /\ index = Committed(op[p].snap.head)
                    /\ op[p].built \/ ~CommitChanged(p)

\* What a command may rely on while nothing disturbs it.
Phase(p) ==
    /\ op[p].pc \notin Rebuilding => Consistent
    /\ op[p].pc \in Building => op[p].snap = Worktree /\ op[p].stamp = registry[Main]
    /\ Replacing(p) => op[p].seen = registry
    /\ op[p].pc \in {"search", "reconcile", "look", "validate", "symbols"} \cup Locking
         => ~op[p].built
    /\ op[p].pc = "symbols" \/ (op[p].pc \in Locking /\ ~op[p].rebuild)
         => (CommitChanged(p) => ~Valid(zoekt))
    /\ op[p].pc \in Locking \cup {"ctags"} /\ ~op[p].rebuild => op[p].snap.dirt = Clean
    /\ op[p].pc \in {"wipe", "zoekt"} => op[p].rebuild
    /\ op[p].pc = "zoekt" => ~Valid(zoekt) /\ Agrees(ctags)
    /\ op[p].pc = "ctags" =>
         /\ FromSnapshot(p, zoekt) /\ Agrees(ctags)
         /\ ~op[p].rebuild => ~op[p].built
    /\ op[p].pc \in {"update", "replace"} => FromSnapshot(p, zoekt) /\ FromSnapshot(p, ctags)

Served(p) ==
    /\ \A source \in op[p].hits : source = Committed(op[p].at.head)
    /\ op[p].pc # "live" => op[p].hits = {}

CalmInv ==
    calm =>
      /\ \A p, q \in Procs : ~At(p, "idle") /\ ~At(q, "idle") => p = q
      /\ Resting => Consistent
      /\ \A p \in Procs : ~At(p, "idle") => Phase(p)
      /\ \A p \in Procs : Served(p)

\* The one command that runs takes what it relies on with it.
LEMMA CalmKept ==
    ASSUME TypeInv, CalmInv, calm, NEW p \in Procs, Others(p),
           \A q \in Procs \ {p} : At(q, "idle"),
           op'[p].pc = "idle" => Consistent',
           op'[p].pc # "idle" => Phase(p)',
           Served(p)'
    PROVE  CalmInv'
  <1>1. \A q \in Procs \ {p} : At(q, "idle")' /\ Served(q)'
    BY DEF Others, At, CalmInv, Served
  <1>2. Resting' => Consistent'
    BY DEF Resting, At
  <1>3. \A q \in Procs : ~At(q, "idle")' => Phase(q)'
    BY <1>1 DEF At
  <1>4. QED
    BY <1>1, <1>2, <1>3 DEF CalmInv

LEMMA InitCalm == Init => CalmInv
  BY IndexingAssumption
     DEF Init, CalmInv, At, Idle, Consistent, Agrees, Valid, Unreadable, Served

\* A command that ends, or that serves after all, leaves its hits behind.
LEMMA Empties ==
    ASSUME TypeInv, NEW p \in Procs, op[p].hits = {}
    PROVE  /\ Return(p) => op'[p].hits = {}
           /\ \A error : Raise(p, error) => op'[p].hits = {}
           /\ Returned(p).hits = {}
           /\ \A error : Raised(p, error).hits = {}
           /\ \A loc : Goto(p, loc) => op'[p].hits = {}
  <1>1. op \in [Procs -> Commands] /\ op[p] \in Commands
    BY DEF TypeInv, OpType
  <1>2. Ended(p).hits = {}
    BY DEF Ended, Idle
  <1>3. /\ [op[p] EXCEPT !.pc = "serve"].hits = {}
        /\ [op[p] EXCEPT !.pc = "serve", !.cached = op[p].key].hits = {}
        /\ \A error : [op[p] EXCEPT !.pc = "release", !.error = error].hits = {}
    BY <1>1 DEF Commands
  <1>4. Returned(p).hits = {}
    BY <1>2, <1>3 DEF Returned
  <1>5. \A error : Raised(p, error).hits = {}
    BY <1>2, <1>3 DEF Raised
  <1>6. \A error : Raise(p, error) => op'[p].hits = {}
    BY <1>1, <1>3, <1>5 DEF Raise
  <1>7. \A loc : Goto(p, loc) => op'[p].hits = {}
    BY <1>1 DEF Goto, Commands
  <1>8. QED
    BY <1>1, <1>2, <1>4, <1>5, <1>6, <1>7 DEF Return

LEMMA NextCalm == TypeInv /\ OwnsLock /\ CalmInv /\ [Next]_vars => CalmInv'
  <1> SUFFICES ASSUME TypeInv, OwnsLock, CalmInv, [Next]_vars, calm'
               PROVE  CalmInv'
    BY DEF CalmInv
  <1>a. /\ op \in [Procs -> Commands] /\ \A p \in Procs : HasRead(op[p])
        /\ registry \in [Repos -> Stamps] /\ Main \in Repos /\ head \in Commits
        /\ Worktree \in Snapshots
    BY IndexingAssumption, WorktreeIsSnapshot DEF TypeInv, OpType, FilesType
  <1>1. CASE Expire \/ UNCHANGED vars
    <2>1. UNCHANGED <<calm, head, dirt, zoekt, ctags, registry, op>>
      BY <1>1 DEF Expire, vars, world, indexes
    <2>2. Consistent' <=> Consistent
      BY <2>1 DEF Consistent, Agrees
    <2>3. \A q \in Procs : (Phase(q)' <=> Phase(q)) /\ (Served(q)' <=> Served(q))
      BY <2>1, <2>2 DEF Phase, Agrees, Worktree, Replacing, At, CommitChanged, FromSnapshot,
                        Served
    <2>4. QED
      BY <2>1, <2>2, <2>3 DEF CalmInv, Resting, At
  <1>2. CASE MoveWorktree \/ Install \/ Damage
    <2>1. calm /\ Resting
      BY <1>2 DEF MoveWorktree, Install, Damage
    <2>2. Consistent'
      BY <1>2, <2>1 DEF MoveWorktree, Install, Damage, CalmInv, Consistent, Agrees,
                        indexes, Valid, Unreadable
    <2>3. UNCHANGED op
      BY <1>2 DEF MoveWorktree, Install, Damage
    <2>4. QED
      BY <2>1, <2>2, <2>3 DEF CalmInv, Resting, At, Served
  <1> SUFFICES ASSUME NEW p \in Procs,
                      \/ \E job \in Jobs, repo \in Repos, fresh \in BOOLEAN :
                             Begin(p, job, repo, fresh)
                      \/ Step(p) \/ Crash(p)
               PROVE  CalmInv'
    BY <1>1, <1>2 DEF Next
  <1>b. calm /\ UNCHANGED <<head, dirt>>
    BY DEF Step, Begin, Crash, Search, Reconcile, Look, Validate, Symbols, Acquire, Unlink,
           Create, Release, Wipe, IndexZoekt, IndexCtags, Update, Replace, WriteStatus,
           RenameStatus, WriteFails, ReadRegistry, WriteRegistry, Serve, ServeLive, world
  <1>c. Others(p)
    BY OnlyItsOwn
  <1>d. ASSUME \A q \in Procs \ {p} : At(q, "idle"),
               op'[p].pc = "idle" => Consistent',
               op'[p].pc # "idle" => Phase(p)',
               Served(p)'
        PROVE  CalmInv'
    BY <1>b, <1>c, <1>d, CalmKept
  <1>3. CASE \E job \in Jobs, repo \in Repos, fresh \in BOOLEAN :
                Begin(p, job, repo, fresh)
    <2> PICK job \in Jobs, repo \in Repos, fresh \in BOOLEAN : Begin(p, job, repo, fresh)
      BY <1>3
    <2>1. Resting /\ Consistent
      BY <1>b DEF Begin, CalmInv
    <2>2. /\ op'[p].pc \in {"look", "search", "read"}
          /\ ~op'[p].built /\ op'[p].hits = {}
      BY <1>a DEF Begin, Idle
    <2>3. UNCHANGED <<zoekt, ctags, registry>>
      BY DEF Begin, indexes
    <2>4. Phase(p)'
      BY <2>1, <2>2, <2>3 DEF Phase, Consistent, Agrees, Building, Locking, Replacing, At
    <2>5. Served(p)'
      BY <2>2 DEF Served
    <2>6. QED
      BY <1>d, <2>1, <2>2, <2>4, <2>5 DEF Resting
  <1>4. CASE Crash(p)
    BY <1>4, <1>b DEF Crash
  <1> SUFFICES ASSUME Step(p) PROVE CalmInv'
    BY <1>3, <1>4
  <1>e. ~At(p, "idle")
    BY <1>b DEF Step, Search, Reconcile, Look, Validate, Symbols, Acquire, Unlink,
           Create, Release, Wipe, IndexZoekt, IndexCtags, Update, Replace, WriteStatus,
           RenameStatus, WriteFails, ReadRegistry, WriteRegistry, Serve, ServeLive, At
  <1>f. \A q \in Procs \ {p} : At(q, "idle")
    BY <1>b, <1>e DEF CalmInv
  <1>g. Phase(p) /\ Served(p)
    BY <1>b, <1>e DEF CalmInv
  <1>h. ~WriteFails(p)
    BY <1>b DEF WriteFails
  <1>5. op[p].pc # "live" => op[p].hits = {}
    BY <1>g DEF Served
  \* A step that disturbs no index and no record.
  <1>6. ASSUME UNCHANGED <<zoekt, ctags, registry>>, Consistent,
               op'[p].pc \in {"idle", "live", "serve", "release", "status", "rename"},
               op'[p].hits = {}
        PROVE  CalmInv'
    <2>1. Consistent'
      BY <1>6 DEF Consistent, Agrees
    <2>2. Phase(p)'
      BY <1>6, <2>1 DEF Phase, Rebuilding, Building, Locking, Replacing, At
    <2>3. Served(p)'
      BY <1>6 DEF Served
    <2>4. QED
      BY <1>d, <1>f, <2>1, <2>2, <2>3
  <1>7. CASE Search(p)
    <2>1. UNCHANGED <<zoekt, ctags, registry>> /\ Consistent /\ op[p].hits = {}
      BY <1>7, <1>5, <1>g DEF Search, indexes, At, Phase, Rebuilding
    <2>2. op'[p].pc \in {"live", "reconcile"} /\ op'[p].hits = {} /\ ~op'[p].built
      BY <1>7, <1>a, <1>g, <2>1 DEF Search, At, Phase, Commands
    <2>3. CASE op'[p].pc = "live"
      BY <1>6, <2>1, <2>2, <2>3
    <2>4. CASE op'[p].pc = "reconcile"
      <3>1. Phase(p)'
        BY <2>1, <2>2, <2>4 DEF Phase, Consistent, Agrees, Rebuilding, Building, Locking,
                                Replacing, At
      <3>2. QED
        BY <1>d, <1>f, <2>2, <2>4, <3>1 DEF Served
    <2>5. QED
      BY <2>2, <2>3, <2>4
  <1>8. CASE Reconcile(p)
    <2>1. UNCHANGED <<zoekt, ctags, registry>> /\ Consistent /\ op[p].hits = {}
      BY <1>8, <1>5, <1>g DEF Reconcile, indexes, At, Phase, Rebuilding
    <2>2. CASE registry[Main] = Absent
      BY <1>6, <1>8, <2>1, <2>2, Leaves, Empties DEF Reconcile, At, Inside
    <2>3. CASE registry[Main] # Absent
      <3>1. op'[p].hits = {} /\ op'[p].pc \in {"serve", "look"} /\ ~op'[p].built
        BY <1>8, <1>a, <1>g, <2>1, <2>3 DEF Reconcile, At, Commands, Phase
      <3>2. Phase(p)'
        BY <2>1, <3>1 DEF Phase, Consistent, Agrees, Rebuilding, Building, Locking,
                          Replacing, At
      <3>3. QED
        BY <1>d, <1>f, <3>1, <3>2 DEF Served
    <2>4. QED
      BY <2>2, <2>3
  <1>9. CASE Look(p)
    <2>1. UNCHANGED <<zoekt, ctags, registry>> /\ Consistent /\ op[p].hits = {}
      BY <1>9, <1>5, <1>g DEF Look, indexes, At, Phase, Rebuilding
    <2>2. op'[p].hits = {}
      BY <1>9, <1>a, <2>1, Empties DEF Look, Commands
    <2>3. CASE registry[Main] = Absent
      BY <1>6, <1>9, <2>1, <2>2, <2>3, Leaves DEF Look, At, Inside
    <2>4. CASE registry[Main] # Absent
      <3>1. /\ op'[p].pc = IF op'[p].rebuild THEN "lock" ELSE "validate"
            /\ op'[p].snap = Worktree /\ op'[p].stamp = registry[Main] /\ ~op'[p].built
        BY <1>9, <1>a, <1>g, <2>4 DEF Look, At, Commands, Phase
      <3>2. Phase(p)'
        BY <1>b, <2>1, <3>1 DEF Phase, Consistent, Agrees, Worktree, Rebuilding, Building,
                                Locking, Replacing, At
      <3>3. QED
        BY <1>d, <1>f, <2>2, <3>1, <3>2 DEF Served
    <2>5. QED
      BY <2>3, <2>4
  <1>10. CASE Validate(p)
    <2>1. /\ UNCHANGED <<ctags, registry>> /\ Consistent /\ op[p].hits = {}
          /\ op[p].pc = "validate" /\ ~op[p].rebuild /\ ~op[p].built
      BY <1>10, <1>5, <1>g DEF Validate, At, Phase, Rebuilding, OwnsLock
    <2>2. CASE op' = [op EXCEPT ![p].rebuild = TRUE, ![p].pc = "look"] /\ UNCHANGED zoekt
      <3>1. op'[p].hits = {} /\ op'[p].pc = "look" /\ ~op'[p].built
        BY <1>a, <2>1, <2>2 DEF Commands
      <3>2. Phase(p)'
        BY <2>1, <2>2, <3>1 DEF Phase, Consistent, Agrees, Rebuilding, Building, Locking,
                                Replacing, At
      <3>3. QED
        BY <1>d, <1>f, <3>1, <3>2 DEF Served
    <2>3. CASE /\ Goto(p, "symbols")
               /\ "zoekt" \in tools => ~CommitChanged(p)
               /\ zoekt' = IF "zoekt" \notin tools /\ CommitChanged(p) THEN Absent ELSE zoekt
      <3>1. op'[p] = [op[p] EXCEPT !.pc = "symbols"]
        BY <1>a, <2>3 DEF Goto
      <3>2. /\ op'[p].pc = "symbols" /\ op'[p].hits = {} /\ ~op'[p].built
            /\ op'[p].snap = op[p].snap /\ op'[p].stamp = op[p].stamp
        BY <1>a, <2>1, <3>1 DEF Commands
      <3>3. Valid(zoekt)' => zoekt' = zoekt /\ ~CommitChanged(p)'
        BY <2>3, <3>2 DEF Valid, Unreadable, CommitChanged
      <3>4. Consistent'
        BY <2>1, <3>3 DEF Consistent, Agrees
      <3>5. Phase(p)'
        BY <1>b, <1>g, <2>1, <3>2, <3>3, <3>4
           DEF Phase, Worktree, Rebuilding, Building, Locking, Replacing, At
      <3>6. QED
        BY <1>d, <1>f, <3>2, <3>5 DEF Served
    <2>4. QED
      BY <1>10, <2>2, <2>3 DEF Validate
  <1>11. CASE Symbols(p)
    <2>1. /\ UNCHANGED <<zoekt, registry>> /\ Consistent /\ op[p].hits = {}
          /\ op[p].pc = "symbols" /\ ~op[p].rebuild /\ ~op[p].built
      BY <1>11, <1>5, <1>g DEF Symbols, At, Phase, Rebuilding, OwnsLock
    <2>2. PICK loc \in {"lock", "status"} :
             Goto(p, loc) /\ (loc = "lock" => op[p].snap.dirt = Clean)
      BY <1>11 DEF Symbols
    <2>3. op'[p] = [op[p] EXCEPT !.pc = loc]
      BY <1>a, <2>2 DEF Goto
    <2>4. /\ op'[p].pc = loc /\ op'[p].hits = {} /\ ~op'[p].built /\ ~op'[p].rebuild
          /\ op'[p].snap = op[p].snap /\ op'[p].stamp = op[p].stamp
      BY <1>a, <2>1, <2>3 DEF Commands
    <2>5. Consistent'
      <3>1. ctags' = ctags \/ ctags' = Absent
        BY <1>11 DEF Symbols
      <3>2. QED
        BY <2>1, <3>1 DEF Consistent, Agrees, Valid, Unreadable
    <2>6. Phase(p)'
      BY <1>b, <1>g, <2>1, <2>2, <2>4, <2>5
         DEF Phase, Worktree, Rebuilding, Building, Locking, Replacing, At, CommitChanged
    <2>7. QED
      BY <1>d, <1>f, <2>2, <2>4, <2>6 DEF Served
  <1>12. CASE Acquire(p) \/ Unlink(p) \/ Create(p)
    <2>1. /\ UNCHANGED <<zoekt, ctags, registry>> /\ Consistent /\ op[p].hits = {}
          /\ op[p].pc \in Locking /\ ~op[p].built /\ ~Inside(p)
      BY <1>12, <1>5, <1>g
         DEF Acquire, Unlink, Create, indexes, At, Phase, Rebuilding, Locking, Inside
    <2>2. CASE \E error : Raise(p, error)
      BY <1>6, <2>1, <2>2, Leaves, Empties
    <2>3. ASSUME NEW loc \in {"unlink", "create", "wipe", "ctags"}, Goto(p, loc),
                 loc = "wipe" => op[p].rebuild, loc = "ctags" => ~op[p].rebuild
          PROVE  CalmInv'
      <3>1. op'[p] = [op[p] EXCEPT !.pc = loc]
        BY <1>a, <2>3 DEF Goto
      <3>2. /\ op'[p].pc = loc /\ op'[p].hits = {} /\ ~op'[p].built
            /\ op'[p].snap = op[p].snap /\ op'[p].stamp = op[p].stamp
            /\ op'[p].rebuild = op[p].rebuild
        BY <1>a, <2>1, <3>1 DEF Commands
      <3>3. Consistent'
        BY <2>1 DEF Consistent, Agrees
      <3>4. op[p].snap = Worktree /\ op[p].stamp = registry[Main]
        BY <1>g, <2>1 DEF Phase, Building, Locking
      <3>5. ~op[p].rebuild => FromSnapshot(p, zoekt)'
        BY <1>a, <1>g, <2>1, <3>2, <3>3, <3>4
           DEF Phase, FromSnapshot, Consistent, Agrees, CommitChanged, Worktree
      <3>6. Phase(p)'
        BY <1>b, <1>g, <2>1, <2>3, <3>2, <3>3, <3>4, <3>5
           DEF Phase, Consistent, Worktree, Rebuilding, Building, Locking, Replacing, At,
               CommitChanged
      <3>7. QED
        BY <1>d, <1>f, <2>3, <3>2, <3>6 DEF Served
    <2>4. QED
      BY <1>12, <2>2, <2>3 DEF Acquire, Unlink, Create, Enter
  <1>13. CASE Release(p)
    <2>1. /\ UNCHANGED <<zoekt, ctags, registry>> /\ Consistent /\ op[p].hits = {}
      BY <1>13, <1>5, <1>g DEF Release, indexes, At, Phase, Rebuilding
    <2>2. /\ [op[p] EXCEPT !.pc = "status"].hits = {}
          /\ [op[p] EXCEPT !.pc = "status"].pc = "status"
      BY <1>a, <2>1 DEF Commands
    <2>3. op'[p].pc \in {"idle", "serve", "status"} /\ op'[p].hits = {}
      BY <1>13, <1>a, <2>1, <2>2, Leaves, Empties DEF Release
    <2>4. QED
      BY <1>6, <2>1, <2>3
  <1>14. CASE Wipe(p)
    <2>1. /\ UNCHANGED <<ctags, registry>> /\ Consistent /\ op[p].hits = {}
          /\ op[p].pc = "wipe" /\ op[p].rebuild
          /\ op[p].snap = Worktree /\ op[p].stamp = registry[Main]
      BY <1>14, <1>5, <1>g DEF Wipe, At, Phase, Rebuilding, Building
    <2>2. PICK loc \in {"zoekt", "ctags"} :
             /\ Goto(p, loc)
             /\ zoekt' \in {zoekt, Absent}
             /\ loc = "zoekt" \/ CommitChanged(p) => zoekt' = Absent
      BY <1>14 DEF Wipe
    <2>3. op'[p] = [op[p] EXCEPT !.pc = loc]
      BY <1>a, <2>2 DEF Goto
    <2>4. /\ op'[p].pc = loc /\ op'[p].hits = {} /\ op'[p].rebuild
          /\ op'[p].snap = op[p].snap /\ op'[p].stamp = op[p].stamp
      BY <1>a, <2>1, <2>3 DEF Commands
    <2>5. Agrees(ctags)'
      BY <2>1 DEF Consistent, Agrees
    <2>6. FromSnapshot(p, zoekt)'
      BY <1>a, <2>1, <2>2, <2>4
         DEF FromSnapshot, Consistent, Agrees, Valid, Unreadable, CommitChanged, Worktree
    <2>7. Phase(p)'
      BY <1>b, <2>1, <2>2, <2>4, <2>5, <2>6
         DEF Phase, Worktree, Rebuilding, Building, Locking, Replacing, At, Valid,
             Unreadable
    <2>8. QED
      BY <1>d, <1>f, <2>2, <2>4, <2>7 DEF Served
  <1>15. CASE IndexZoekt(p)
    <2>1. /\ UNCHANGED <<ctags, registry>> /\ Agrees(ctags) /\ op[p].hits = {}
          /\ op[p].pc = "zoekt" /\ op[p].rebuild
          /\ op[p].snap = Worktree /\ op[p].stamp = registry[Main]
      BY <1>15, <1>5, <1>g DEF IndexZoekt, At, Phase, Building
    <2>2. PICK works \in BOOLEAN :
             /\ zoekt' = IF works THEN Committed(head) ELSE Absent
             /\ op' = [op EXCEPT ![p].pc = "ctags", ![p].built = works]
      BY <1>15 DEF IndexZoekt
    <2>3. op'[p] = [op[p] EXCEPT !.pc = "ctags", !.built = works]
      BY <1>a, <2>2
    <2>4. /\ op'[p].pc = "ctags" /\ op'[p].hits = {} /\ op'[p].rebuild
          /\ op'[p].snap = op[p].snap /\ op'[p].stamp = op[p].stamp
          /\ op'[p].built = works
      BY <1>a, <2>1, <2>3 DEF Commands
    <2>5. Agrees(ctags)'
      BY <2>1 DEF Agrees
    <2>6. FromSnapshot(p, zoekt)'
      <3>1. op'[p].snap.head = head
        BY <2>1, <2>4 DEF Worktree
      <3>2. CASE works
        BY <2>2, <2>4, <3>1, <3>2 DEF FromSnapshot
      <3>3. CASE ~works
        BY <2>2, <3>3 DEF FromSnapshot, Valid, Unreadable
      <3>4. QED
        BY <3>2, <3>3
    <2>7. Phase(p)'
      BY <1>b, <2>1, <2>4, <2>5, <2>6
         DEF Phase, Worktree, Rebuilding, Building, Locking, Replacing, At
    <2>8. QED
      BY <1>d, <1>f, <2>4, <2>7 DEF Served
  <1>16. CASE IndexCtags(p)
    <2>1. /\ UNCHANGED <<zoekt, registry>> /\ Agrees(ctags) /\ FromSnapshot(p, zoekt)
          /\ op[p].hits = {} /\ op[p].pc = "ctags"
          /\ op[p].snap = Worktree /\ op[p].stamp = registry[Main]
          /\ ~op[p].rebuild => op[p].snap.dirt = Clean /\ ~op[p].built
      BY <1>16, <1>5, <1>g DEF IndexCtags, At, Phase, Building, Locking
    \* The cache is new, or gone, or as old as the record.
    <2>2. ASSUME NEW built \in {op[p].built, TRUE},
                 op'[p] = [op[p] EXCEPT !.pc = "update", !.built = built],
                 \/ ctags' \in {ctags, Absent} /\ (CommitChanged(p) => ctags' = Absent)
                 \/ ctags' = Committed(op[p].snap.head) /\ built
                 \/ ctags' = Absent
          PROVE  CalmInv'
      <3>1. /\ op'[p].pc = "update" /\ op'[p].hits = {} /\ op'[p].built = built
            /\ op'[p].snap = op[p].snap /\ op'[p].stamp = op[p].stamp
        BY <1>a, <2>1, <2>2 DEF Commands
      <3>2. FromSnapshot(p, zoekt)'
        BY <2>1, <2>2, <3>1 DEF FromSnapshot, CommitChanged
      <3>3. FromSnapshot(p, ctags)'
        BY <1>a, <2>1, <2>2, <3>1
           DEF FromSnapshot, CommitChanged, Agrees, Valid, Unreadable, Worktree
      <3>4. Phase(p)'
        BY <1>b, <2>1, <3>1, <3>2, <3>3
           DEF Phase, Worktree, Rebuilding, Building, Locking, Replacing, At
      <3>5. QED
        BY <1>d, <1>f, <3>1, <3>4 DEF Served
    <2>3. ASSUME Goto(p, "update")
          PROVE  op'[p] = [op[p] EXCEPT !.pc = "update", !.built = op[p].built]
      BY <1>a, <2>3 DEF Goto, Commands
    <2>4. CASE /\ Deferred(p)
               /\ ctags' = IF CommitChanged(p) THEN Absent ELSE ctags
               /\ Goto(p, "update")
      BY <2>2, <2>3, <2>4
    <2>5. CASE /\ ~Deferred(p) /\ "ctags" \in tools
               /\ ctags' = Generated
               /\ op' = [op EXCEPT ![p].pc = "update", ![p].built = TRUE]
      <3>1. op[p].snap.dirt = Clean
        BY <2>1, <2>5 DEF Deferred
      <3>2. ctags' = Committed(op[p].snap.head)
        BY <2>1, <2>5, <3>1 DEF Generated, Worktree, Committed
      <3>3. op'[p] = [op[p] EXCEPT !.pc = "update", !.built = TRUE]
        BY <1>a, <2>5
      <3>4. QED
        BY <2>2, <3>2, <3>3
    <2>6. CASE ctags' = Absent /\ Goto(p, "update")
      BY <2>2, <2>3, <2>6
    <2>7. CASE ctags' = Absent /\ Goto(p, "release") /\ ~op[p].rebuild
      <3>1. op'[p].pc = "release" /\ op'[p].hits = {}
        BY <2>1, <2>7, Leaves, Empties
      <3>2. Consistent'
        BY <2>1, <2>7 DEF Consistent, Agrees, FromSnapshot, CommitChanged, Valid,
                          Unreadable
      <3>3. Phase(p)'
        BY <3>1, <3>2 DEF Phase, Rebuilding, Building, Locking, Replacing, At
      <3>4. QED
        BY <1>d, <1>f, <3>1, <3>3 DEF Served
    <2>8. QED
      BY <1>16, <2>4, <2>5, <2>6, <2>7 DEF IndexCtags
  <1>17. CASE Update(p)
    <2>1. /\ UNCHANGED <<zoekt, ctags, registry>> /\ op[p].hits = {}
          /\ op[p].pc = "update" /\ Inside(p)
      BY <1>17, <1>5 DEF Update, indexes, At, Inside
    <2>2. CASE registry[Main] = Absent
      <3>1. Consistent'
        BY <2>1, <2>2, IndexingAssumption DEF Consistent, Agrees
      <3>2. op'[p].pc = "release" /\ op'[p].hits = {}
        BY <1>17, <2>1, <2>2, Leaves, Empties DEF Update
      <3>3. Phase(p)'
        BY <3>1, <3>2 DEF Phase, Rebuilding, Building, Locking, Replacing, At
      <3>4. QED
        BY <1>d, <1>f, <3>2, <3>3 DEF Served
    <2>3. CASE registry[Main] # Absent
      <3>1. op'[p] = [op[p] EXCEPT !.seen = registry, !.pc = "replace"]
        BY <1>17, <1>a, <2>3 DEF Update
      <3>2. /\ op'[p].pc = "replace" /\ op'[p].hits = {} /\ op'[p].seen = registry
            /\ op'[p].snap = op[p].snap /\ op'[p].stamp = op[p].stamp
            /\ op'[p].built = op[p].built
        BY <1>a, <2>1, <3>1 DEF Commands
      <3>3. FromSnapshot(p, zoekt)' /\ FromSnapshot(p, ctags)'
        BY <1>g, <2>1, <3>2 DEF Phase, FromSnapshot, CommitChanged
      <3>4. Phase(p)'
        BY <1>b, <1>g, <2>1, <3>2, <3>3
           DEF Phase, Worktree, Rebuilding, Building, Locking, Replacing, At
      <3>5. QED
        BY <1>d, <1>f, <3>2, <3>4 DEF Served
    <2>4. QED
      BY <2>2, <2>3
  <1>18. CASE Replace(p)
    <2>1. /\ UNCHANGED <<zoekt, ctags>> /\ op[p].hits = {} /\ op[p].seen = registry
          /\ op[p].stamp = registry[Main]
          /\ FromSnapshot(p, zoekt) /\ FromSnapshot(p, ctags)
      BY <1>18, <1>5, <1>g DEF Replace, indexes, At, Phase, Replacing, Building
    <2>2. registry'[Main] = Stamp(p)
      BY <1>18, <1>a, <2>1 DEF Replace
    <2>3. Consistent'
      BY <2>1, <2>2 DEF Consistent, Agrees, FromSnapshot, CommitChanged, Stamp
    <2>4. op'[p].pc \in {"status", "release"} /\ op'[p].hits = {}
      BY <1>18, <2>1, Leaves, Empties DEF Replace
    <2>5. Phase(p)'
      BY <2>3, <2>4 DEF Phase, Rebuilding, Building, Locking, Replacing, At
    <2>6. QED
      BY <1>d, <1>f, <2>4, <2>5 DEF Served
  <1>19. CASE WriteStatus(p) \/ RenameStatus(p)
    <2>1. UNCHANGED <<zoekt, ctags, registry>> /\ Consistent /\ op[p].hits = {}
      BY <1>19, <1>5, <1>g DEF WriteStatus, RenameStatus, indexes, At, Phase, Rebuilding
    <2>2. op'[p].pc \in {"idle", "serve", "release", "rename"} /\ op'[p].hits = {}
      BY <1>19, <1>a, <2>1, Leaves, Empties DEF WriteStatus, RenameStatus
    <2>3. QED
      BY <1>6, <2>1, <2>2
  <1>20. CASE ReadRegistry(p)
    <2>1. UNCHANGED <<zoekt, ctags, registry>> /\ Consistent /\ op[p].hits = {}
      BY <1>20, <1>5, <1>g DEF ReadRegistry, indexes, At, Phase, Rebuilding
    <2>2. CASE Return(p)
      BY <1>6, <2>1, <2>2, Leaves, Empties
    <2>3. CASE op' = [op EXCEPT ![p].seen = registry, ![p].pc = "write"]
      <3>1. op'[p].pc = "write" /\ op'[p].seen = registry /\ op'[p].hits = {}
        BY <1>a, <2>1, <2>3 DEF Commands
      <3>2. Phase(p)'
        BY <2>1, <3>1 DEF Phase, Consistent, Agrees, Rebuilding, Building, Locking,
                          Replacing, At
      <3>3. QED
        BY <1>d, <1>f, <3>1, <3>2 DEF Served
    <2>4. QED
      BY <1>20, <2>2, <2>3 DEF ReadRegistry
  <1>21. CASE WriteRegistry(p)
    <2>1. /\ UNCHANGED <<zoekt, ctags>> /\ Consistent /\ op[p].hits = {}
          /\ op[p].seen = registry
      BY <1>21, <1>5, <1>g DEF WriteRegistry, indexes, At, Phase, Rebuilding, Replacing
    <2>2. op'[p].pc = "idle" /\ op'[p].hits = {}
      BY <1>21, <2>1, Leaves, Empties DEF WriteRegistry
    <2>3. registry'[Main] = registry[Main] \/ registry'[Main] \in {Never, Absent}
      BY <1>21, <1>a, <2>1 DEF WriteRegistry
    <2>4. Consistent'
      BY <2>1, <2>3, IndexingAssumption DEF Consistent, Agrees
    <2>5. QED
      BY <1>d, <1>f, <2>2, <2>4 DEF Served
  <1>22. CASE Serve(p)
    <2>1. UNCHANGED <<zoekt, ctags, registry>> /\ Consistent /\ op[p].hits = {}
      BY <1>22, <1>5, <1>g DEF Serve, indexes, At, Phase, Rebuilding
    <2>2. CASE Return(p)
      BY <1>6, <2>1, <2>2, Leaves, Empties
    <2>3. CASE op' = [op EXCEPT ![p].hits = Persistent(p), ![p].pc = "live"]
      <3>1. op'[p].pc = "live" /\ op'[p].hits = Persistent(p) /\ op'[p].at = op[p].at
        BY <1>a, <2>3 DEF Commands
      <3>2. op[p].at.head \in Commits
        BY <1>22, <1>a DEF Serve, At, HasRead, Snapshots
      <3>3. \A source \in Persistent(p) : source = Committed(op[p].at.head)
        BY <2>1, <3>2
           DEF Persistent, CtagsHits, ZoektHits, Consistent, Agrees, Valid
      <3>4. Phase(p)'
        BY <2>1, <3>1 DEF Phase, Consistent, Agrees, Rebuilding, Building, Locking,
                          Replacing, At
      <3>5. QED
        BY <1>d, <1>f, <3>1, <3>3, <3>4 DEF Served
    <2>4. QED
      BY <1>22, <2>2, <2>3 DEF Serve
  <1>23. CASE ServeLive(p)
    <2>1. UNCHANGED <<zoekt, ctags, registry>> /\ Consistent
      BY <1>23, <1>g DEF ServeLive, indexes, At, Phase, Rebuilding
    <2>2. op'[p].pc = "idle" /\ op'[p].hits = {}
      BY <1>23, <1>a DEF ServeLive, Return, Ended, Idle
    <2>3. QED
      BY <1>6, <2>1, <2>2
  <1>24. QED
    BY <1>h, <1>7, <1>8, <1>9, <1>10, <1>11, <1>12, <1>13, <1>14, <1>15, <1>16, <1>17,
       <1>18, <1>19, <1>20, <1>21, <1>22, <1>23
       DEF Step

\* ServedIsCurrent: while nothing disturbs a command, a search serves persistent
\* hits only from an index of the commit it found at HEAD, although one stamp
\* stands for two indexes, whichever is missing, damaged, deferred or fails.
THEOREM SearchServesCurrent == Spec => []ServedIsCurrent
  <1>1. CalmInv => ServedIsCurrent
    BY DEF CalmInv, Served, ServedIsCurrent
  <1>2. QED
    BY <1>1, TypeHolds, InitOwns, NextOwns, InitCalm, NextCalm, PTL DEF Spec
====
