------------------------------ MODULE Indexing ------------------------------
(***************************************************************************)
(* Repository search (runtime/search/): the registry of repositories, the   *)
(* derived Zoekt and Ctags indexes of one of them, the index lock, and the   *)
(* searches that serve hits from the indexes.                               *)
(*                                                                         *)
(* Processes share files only: registry.json (replaced whole), the indexes, *)
(* the lock file, the status file and its temporary.  The worktree moves    *)
(* under them.  An index remembers no commit: the registry record's stamp   *)
(* (last_indexed_commit) says, for both indexes, what they were built from.  *)
(*                                                                         *)
(* `calm' never changes in a behaviour: with it commands take turns, no     *)
(* process dies, no write fails, and the worktree and the installed tools    *)
(* change only between commands.                                            *)
(***************************************************************************)
EXTENDS Naturals

CONSTANTS
    Procs,        \* local-coder processes
    Commits,      \* commits HEAD may be at
    Repos,        \* repository ids
    Main,         \* the repository that is indexed and searched
    Dirts,        \* uncommitted states of its worktree, Clean among them
    Clean,
    Never,        \* stamp of a record that was never indexed
    Absent,       \* no such record, file, index, owner, snapshot
    Corrupt       \* an index file that cannot be read

ASSUME IndexingAssumption ==
    /\ Main \in Repos
    /\ Clean \in Dirts
    /\ Never \notin Commits \cup {Absent}
    /\ Absent \notin Commits \cup Procs
    /\ Corrupt # Absent

VARIABLES
    calm,
    head, dirt,   \* the worktree of Main
    tools,        \* installed index tools, of "zoekt" and "ctags"
    zoekt,        \* what the Zoekt index of Main was built from
    ctags,        \* what the Ctags cache of Main was built from
    registry,     \* registry.json: the stamp of each record
    lock,         \* locks/MAIN.lock: who created it, and whether it is stale
    temporary,    \* is there a status/MAIN.tmp?
    op,           \* what each process is doing, and what it has read
    registered,   \* history: ids added and not removed since
    mishaps       \* history: what two processes have done to each other

world == <<head, dirt, tools>>
indexes == <<zoekt, ctags>>
history == <<registered, mishaps>>
vars == <<calm, world, indexes, registry, lock, temporary, op, history>>

-----------------------------------------------------------------------------
(***************************************************************************)
(* State.                                                                  *)
(***************************************************************************)
\* snapshot(): HEAD and the hash of what is not committed.  Also what an index
\* was built from: Zoekt reads the commit, Ctags the files.
Snapshots == [head : Commits, dirt : Dirts]
Worktree == [head |-> head, dirt |-> dirt]
Generated == Worktree
Committed(commit) == [head |-> commit, dirt |-> Clean]
Unreadable == {Absent, Corrupt}
Valid(index) == index \notin Unreadable

Stamps == Commits \cup {Never, Absent}
Jobs == {"build", "refresh", "search", "add", "remove"}
Tools == {"zoekt", "ctags"}

\* A fresh lock was unlinked as stale; the registry was replaced by a process
\* that had read it before another replaced it.
Mishaps == {"robbed", "overlapped"}

NoLock == [owner |-> Absent, stale |-> FALSE]
LockOf(p) == [owner |-> p, stale |-> FALSE]

\* A command: its job and id, the snapshot its hits are compared with (at), the
\* key it reconciles (key), what build or refresh has read (snap, stamp), whether
\* it is in build (rebuild), an index was built (built), what failed (error); the
\* registry it has read (seen), the key this process has reconciled (cached) and
\* the sources of the hits it served (hits).
Idle == [pc |-> "idle", job |-> "search", repo |-> Main, at |-> Absent,
         key |-> Absent, snap |-> Absent, stamp |-> Absent, rebuild |-> FALSE,
         built |-> FALSE, error |-> "none",
         seen |-> [r \in Repos |-> Absent], cached |-> Absent, hits |-> {}]

Init ==
    /\ calm \in BOOLEAN
    /\ head \in Commits /\ dirt \in Dirts
    /\ tools \in SUBSET Tools
    /\ zoekt = Absent /\ ctags = Absent
    /\ registry = [r \in Repos |-> Absent]
    /\ lock = NoLock
    /\ temporary = FALSE
    /\ op = [p \in Procs |-> Idle]
    /\ registered = {} /\ mishaps = {}

At(p, loc) == op[p].pc = loc
Goto(p, loc) == op' = [op EXCEPT ![p].pc = loc]
Resting == \A p \in Procs : At(p, "idle")

\* __enter__ has returned and __exit__ has not run.
Inside(p) ==
    \/ op[p].pc \in {"wipe", "zoekt", "ctags", "update", "replace", "release"}
    \/ op[p].pc \in {"status", "rename"} /\ op[p].rebuild

\* The command is over; a process that searches keeps what it has reconciled.
Ended(p) == [Idle EXCEPT !.cached = op[p].cached]
Return(p) == op' = [op EXCEPT ![p] = Ended(p)]

\* build or refresh has returned, or raised: ensure_current catches all but a
\* RegistryError.
Returned(p) ==
    IF op[p].job # "search" THEN Ended(p)
    ELSE [op[p] EXCEPT !.pc = "serve", !.cached = op[p].key]
Raised(p, error) ==
    IF op[p].job = "search" /\ error # "registry" THEN [op[p] EXCEPT !.pc = "serve"]
    ELSE Ended(p)

\* An exception inside the lock, and one outside.
Raise(p, error) ==
    op' = [op EXCEPT ![p] = IF Inside(p)
                            THEN [op[p] EXCEPT !.pc = "release", !.error = error]
                            ELSE Raised(p, error)]

-----------------------------------------------------------------------------
(***************************************************************************)
(* The world.                                                              *)
(***************************************************************************)
\* A commit, a checkout, an edit, a revert.
MoveWorktree ==
    /\ calm => Resting
    /\ head' \in Commits /\ dirt' \in Dirts
    /\ UNCHANGED <<calm, tools, indexes, registry, lock, temporary, op, history>>

Install ==
    /\ calm => Resting
    /\ tools' \in SUBSET Tools
    /\ UNCHANGED <<calm, head, dirt, indexes, registry, lock, temporary, op, history>>

Damage ==
    /\ calm => Resting
    /\ \/ zoekt # Absent /\ zoekt' = Corrupt /\ UNCHANGED ctags
       \/ ctags # Absent /\ ctags' = Corrupt /\ UNCHANGED zoekt
    /\ UNCHANGED <<calm, world, registry, lock, temporary, op, history>>

\* 600 seconds have passed since the lock file was written.  A build takes at
\* most 240 seconds, so its creator is gone.
Expire ==
    /\ lock.owner # Absent /\ ~Inside(lock.owner)
    /\ lock' = [lock EXCEPT !.stale = TRUE]
    /\ UNCHANGED <<calm, world, indexes, registry, temporary, op, history>>

\* A process dies; the zoekt-index it started may finish without it.
Crash(p) ==
    /\ ~calm /\ ~At(p, "idle")
    /\ \/ UNCHANGED zoekt
       \/ At(p, "zoekt") /\ zoekt' = Committed(head)
    /\ op' = [op EXCEPT ![p] = Idle]
    /\ UNCHANGED <<calm, world, ctags, registry, lock, temporary, history>>

-----------------------------------------------------------------------------
(***************************************************************************)
(* Commands: index build, refresh, add, remove, and a search, of a new       *)
(* process or of one that has searched before.                              *)
(***************************************************************************)
Begin(p, job, repo, fresh) ==
    /\ At(p, "idle")
    /\ calm => Resting
    /\ job \notin {"add", "remove"} => repo = Main
    /\ op' = [op EXCEPT ![p] =
         [Idle EXCEPT !.job = job, !.repo = repo, !.rebuild = (job = "build"),
                      !.cached = IF fresh THEN Absent ELSE op[p].cached,
                      !.pc = CASE job \in {"build", "refresh"} -> "look"
                               [] job = "search" -> "search"
                               [] OTHER -> "read"]]
    /\ UNCHANGED <<calm, world, indexes, registry, lock, temporary, history>>

\* search: without a record the worktree is searched live only.
Search(p) ==
    /\ At(p, "search")
    /\ op' = [op EXCEPT ![p] =
         [@ EXCEPT !.at = Worktree,
                   !.pc = IF registry[Main] = Absent THEN "live" ELSE "reconcile"]]
    /\ UNCHANGED <<calm, world, indexes, registry, lock, temporary, history>>

\* ensure_current.
Reconcile(p) ==
    /\ At(p, "reconcile")
    /\ IF registry[Main] = Absent THEN Raise(p, "registry")
       ELSE op' = [op EXCEPT ![p].key = Worktree,
                             ![p].pc = IF op[p].cached = Worktree THEN "serve" ELSE "look"]
    /\ UNCHANGED <<calm, world, indexes, registry, lock, temporary, history>>

\* build and refresh read the record and take a snapshot.
Look(p) ==
    /\ At(p, "look")
    /\ IF registry[Main] = Absent THEN Raise(p, "registry")
       ELSE op' = [op EXCEPT ![p].stamp = registry[Main], ![p].snap = Worktree,
                             ![p].pc = IF op[p].rebuild THEN "lock" ELSE "validate"]
    /\ UNCHANGED <<calm, world, indexes, registry, lock, temporary, history>>

CommitChanged(p) == op[p].stamp # op[p].snap.head

\* refresh: Zoekt.  A probe that times out counts as a broken index.
Validate(p) ==
    /\ At(p, "validate")
    /\ \E valid \in BOOLEAN :
         /\ valid => Valid(zoekt)
         /\ IF "zoekt" \in tools /\ (CommitChanged(p) \/ ~valid)
            THEN op' = [op EXCEPT ![p].rebuild = TRUE, ![p].pc = "look"] /\ UNCHANGED zoekt
            ELSE /\ Goto(p, "symbols")
                 /\ zoekt' = IF "zoekt" \notin tools /\ CommitChanged(p) THEN Absent ELSE zoekt
    /\ UNCHANGED <<calm, world, ctags, registry, lock, temporary, history>>

\* refresh: Ctags, rebuilt only from a clean worktree.
Symbols(p) ==
    /\ At(p, "symbols")
    /\ LET due == CommitChanged(p) \/ ~Valid(ctags)
           can == "ctags" \in tools
       IN  /\ Goto(p, IF due /\ can /\ op[p].snap.dirt = Clean THEN "lock" ELSE "status")
           /\ ctags' = IF \/ ~can /\ CommitChanged(p)
                          \/ can /\ due /\ op[p].snap.dirt # Clean
                       THEN Absent ELSE ctags
    /\ UNCHANGED <<calm, world, zoekt, registry, lock, temporary, history>>

-----------------------------------------------------------------------------
(***************************************************************************)
(* The index lock.                                                         *)
(***************************************************************************)
Enter(p) ==
    /\ lock' = LockOf(p)
    /\ Goto(p, IF op[p].rebuild THEN "wipe" ELSE "ctags")

Acquire(p) ==
    /\ At(p, "lock")
    /\ \/ lock = NoLock /\ Enter(p)
       \/ lock # NoLock /\ ~lock.stale /\ Raise(p, "index") /\ UNCHANGED lock
       \/ lock.stale /\ Goto(p, "unlink") /\ UNCHANGED lock
    /\ UNCHANGED <<calm, world, indexes, registry, temporary, history>>

Unlink(p) ==
    /\ At(p, "unlink")
    /\ lock' = NoLock
    /\ mishaps' = mishaps \cup (IF lock # NoLock /\ ~lock.stale THEN {"robbed"} ELSE {})
    /\ Goto(p, "create")
    /\ UNCHANGED <<calm, world, indexes, registry, temporary, registered>>

\* mutant: the second open does not ask for a new file.
CreateAnyway(p) ==
    /\ At(p, "create") /\ Enter(p)
    /\ UNCHANGED <<calm, world, indexes, registry, temporary, history>>

Create(p) ==
    /\ At(p, "create")
    /\ \/ lock = NoLock /\ Enter(p)
       \/ lock # NoLock /\ Raise(p, "index") /\ UNCHANGED lock
    /\ UNCHANGED <<calm, world, indexes, registry, temporary, history>>

\* __exit__ unlinks whatever lock file is there.
Release(p) ==
    /\ At(p, "release")
    /\ lock' = NoLock
    /\ op' = [op EXCEPT ![p] =
         IF op[p].error # "none" THEN Raised(p, op[p].error)
         ELSE IF op[p].rebuild THEN Returned(p)
         ELSE [op[p] EXCEPT !.pc = "status"]]
    /\ UNCHANGED <<calm, world, indexes, registry, temporary, history>>

-----------------------------------------------------------------------------
(***************************************************************************)
(* Building, inside the lock.                                              *)
(***************************************************************************)
\* mutant: an outdated index stays when its tool is gone.
WipeAvailable(p) ==
    /\ At(p, "wipe")
    /\ Goto(p, IF "zoekt" \in tools THEN "zoekt" ELSE "ctags")
    /\ zoekt' = IF "zoekt" \in tools THEN Absent ELSE zoekt
    /\ UNCHANGED <<calm, world, ctags, registry, lock, temporary, history>>

Wipe(p) ==
    /\ At(p, "wipe")
    /\ Goto(p, IF "zoekt" \in tools THEN "zoekt" ELSE "ctags")
    /\ zoekt' = IF "zoekt" \in tools \/ CommitChanged(p) THEN Absent ELSE zoekt
    /\ UNCHANGED <<calm, world, ctags, registry, lock, temporary, history>>

IndexZoekt(p) ==
    /\ At(p, "zoekt")
    /\ \E works \in BOOLEAN :
         /\ works => "zoekt" \in tools
         /\ zoekt' = IF works THEN Committed(head) ELSE Absent
         /\ op' = [op EXCEPT ![p].pc = "ctags", ![p].built = works]
    /\ UNCHANGED <<calm, world, ctags, registry, lock, temporary, history>>

\* build defers Ctags while its snapshot was dirty.
Deferred(p) == op[p].rebuild /\ (op[p].snap.dirt # Clean \/ "ctags" \notin tools)

IndexCtags(p) ==
    /\ At(p, "ctags")
    /\ \/ /\ Deferred(p)
          /\ ctags' = IF CommitChanged(p) THEN Absent ELSE ctags
          /\ Goto(p, "update")
       \/ /\ ~Deferred(p) /\ "ctags" \in tools
          /\ ctags' = Generated
          /\ op' = [op EXCEPT ![p].pc = "update", ![p].built = TRUE]
       \/ /\ ~Deferred(p)
          /\ ctags' = Absent
          /\ Goto(p, IF op[p].rebuild THEN "update" ELSE "release")
    /\ UNCHANGED <<calm, world, zoekt, registry, lock, temporary, history>>

\* mutant: update inserts a record that is not there.
UpdateUpserts(p) ==
    /\ At(p, "update")
    /\ op' = [op EXCEPT ![p].seen = registry, ![p].pc = "replace"]
    /\ UNCHANGED <<calm, world, indexes, registry, lock, temporary, history>>

\* registry.update reads the registry and replaces it with the new stamp.
Update(p) ==
    /\ At(p, "update")
    /\ IF registry[Main] = Absent THEN Raise(p, "registry")
       ELSE op' = [op EXCEPT ![p].seen = registry, ![p].pc = "replace"]
    /\ UNCHANGED <<calm, world, indexes, registry, lock, temporary, history>>

Overlapped(p) ==
    mishaps' = mishaps \cup
        (IF \E q \in Procs \ {p} : At(q, "write") \/ At(q, "replace")
         THEN {"overlapped"} ELSE {})

\* mutant: the record is stamped with the snapshot.
StampSnapshot(p) == op[p].snap

Stamp(p) == IF op[p].built THEN op[p].snap.head ELSE op[p].stamp

Replace(p) ==
    /\ At(p, "replace")
    /\ registry' = [op[p].seen EXCEPT ![Main] = Stamp(p)]
    /\ Overlapped(p)
    /\ Goto(p, IF op[p].rebuild THEN "status" ELSE "release")
    /\ UNCHANGED <<calm, world, indexes, lock, temporary, registered>>

\* _write_status: one temporary name for all, renamed away by the first.
WriteStatus(p) ==
    /\ At(p, "status")
    /\ temporary' = TRUE
    /\ Goto(p, "rename")
    /\ UNCHANGED <<calm, world, indexes, registry, lock, history>>

RenameStatus(p) ==
    /\ At(p, "rename")
    /\ temporary' = FALSE
    /\ IF ~temporary THEN Raise(p, "index")
       ELSE IF op[p].rebuild THEN Goto(p, "release")
       ELSE op' = [op EXCEPT ![p] = Returned(p)]
    /\ UNCHANGED <<calm, world, indexes, registry, lock, history>>

\* An OSError that no clause of build or refresh catches.
WriteFails(p) ==
    /\ ~calm
    /\ op[p].pc \in {"zoekt", "ctags", "replace", "status", "rename"}
    /\ Raise(p, "index")
    /\ UNCHANGED <<calm, world, indexes, registry, lock, temporary, history>>

-----------------------------------------------------------------------------
(***************************************************************************)
(* The registry, and what a search serves.                                 *)
(***************************************************************************)
\* add of a registered id returns its record; remove of an unknown one raises.
ReadRegistry(p) ==
    /\ At(p, "read")
    /\ IF (op[p].job = "add") = (registry[op[p].repo] = Absent)
       THEN op' = [op EXCEPT ![p].seen = registry, ![p].pc = "write"]
       ELSE Return(p)
    /\ UNCHANGED <<calm, world, indexes, registry, lock, temporary, history>>

WriteRegistry(p) ==
    /\ At(p, "write")
    /\ LET repo == op[p].repo
           adding == op[p].job = "add"
       IN  /\ registry' = [op[p].seen EXCEPT ![repo] = IF adding THEN Never ELSE Absent]
           /\ registered' = IF adding THEN registered \cup {repo} ELSE registered \ {repo}
    /\ Overlapped(p)
    /\ Return(p)
    /\ UNCHANGED <<calm, world, indexes, lock, temporary>>

\* What the hits of an index come from; a search of an unreadable one raises.
ZoektHits == IF "zoekt" \in tools THEN {zoekt} \ Unreadable ELSE {}
CtagsHits == {ctags} \ Unreadable

\* The indexes are searched when the record is stamped with the search's HEAD.
Persistent(p) ==
    IF registry[Main] # op[p].at.head THEN {} ELSE CtagsHits \cup ZoektHits

Serve(p) ==
    /\ At(p, "serve")
    /\ IF registry[Main] = Absent THEN Return(p)
       ELSE op' = [op EXCEPT ![p].hits = Persistent(p), ![p].pc = "live"]
    /\ UNCHANGED <<calm, world, indexes, registry, lock, temporary, history>>

\* Hits from the worktree are added, and the search returns.
ServeLive(p) ==
    /\ At(p, "live")
    /\ Return(p)
    /\ UNCHANGED <<calm, world, indexes, registry, lock, temporary, history>>

Step(p) ==
    \/ Search(p) \/ Reconcile(p) \/ Look(p) \/ Validate(p) \/ Symbols(p)
    \/ Acquire(p) \/ Unlink(p) \/ Create(p) \/ Release(p)
    \/ Wipe(p) \/ IndexZoekt(p) \/ IndexCtags(p) \/ Update(p) \/ Replace(p)
    \/ WriteStatus(p) \/ RenameStatus(p) \/ WriteFails(p)
    \/ ReadRegistry(p) \/ WriteRegistry(p) \/ Serve(p) \/ ServeLive(p)

Next ==
    \/ MoveWorktree \/ Install \/ Damage \/ Expire
    \/ \E p \in Procs :
         \/ \E job \in Jobs, repo \in Repos, fresh \in BOOLEAN : Begin(p, job, repo, fresh)
         \/ Step(p) \/ Crash(p)

Spec == Init /\ [][Next]_vars

-----------------------------------------------------------------------------
(***************************************************************************)
(* Properties.                                                             *)
(***************************************************************************)
TypeOK ==
    /\ calm \in BOOLEAN
    /\ head \in Commits /\ dirt \in Dirts /\ tools \subseteq Tools
    /\ zoekt \in Snapshots \cup Unreadable
    /\ ctags \in Snapshots \cup Unreadable
    /\ registry \in [Repos -> Stamps]
    /\ lock \in [owner : Procs \cup {Absent}, stale : BOOLEAN]
    /\ temporary \in BOOLEAN /\ registered \subseteq Repos /\ mishaps \subseteq Mishaps
    /\ \A p \in Procs :
         /\ op[p].stamp \in Stamps /\ op[p].seen \in [Repos -> Stamps]
         /\ {op[p].at, op[p].key, op[p].snap, op[p].cached} \subseteq Snapshots \cup {Absent}
         /\ op[p].hits \subseteq Snapshots

\* While nothing disturbs a command, a search serves persistent hits only from
\* an index built from the commit it found at HEAD, with a clean worktree:
\* although one stamp stands for two indexes, each of which may be unavailable,
\* damaged, deferred or fail, in any order and over any sequence of commands.
ServedIsCurrent ==
    calm => \A p \in Procs : \A source \in op[p].hits : source = Committed(op[p].at.head)

\* The index lock excludes, whoever crashes inside it and whoever breaks a stale
\* one, until a process unlinks as stale a file that another has just created.
LockedApart ==
    "robbed" \notin mishaps => \A p, q \in Procs : Inside(p) /\ Inside(q) => p = q

\* The registry holds the records added and not removed, as long as no two
\* replacements of it overlap: a build that outlives the removal of its
\* repository, or its crash, brings nothing back.
RegistryKept ==
    "overlapped" \notin mishaps => {r \in Repos : registry[r] # Absent} = registered

=============================================================================
