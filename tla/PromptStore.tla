----------------------------- MODULE PromptStore -----------------------------
(***************************************************************************)
(* The prompt activation store (runtime/prompt_activation.py) for one role: *)
(* the pointer file active/ROLE.json, the directories history/ID with        *)
(* program.json and metadata.json, and the evidence rows that                *)
(* activate-prompt, finalize-prompt-campaign --activate and rollback-prompt  *)
(* add to the state store.                                                  *)
(*                                                                         *)
(* Every file is replaced atomically, but a command replaces several files,  *)
(* adds a row and undoes what it did when one of these raises.  Nothing is   *)
(* locked.  Ctrl-C is not an Exception, so it ends a command between any two *)
(* steps without undoing anything, as a crash does.                         *)
(*                                                                         *)
(* `turns' says whether the operators take turns, that is, start a command   *)
(* only when no other is running.  It never changes in a behaviour.          *)
(***************************************************************************)
EXTENDS Naturals

CONSTANTS
    Procs,        \* processes an operator runs commands in
    Evaluations,  \* promoted evaluations of cleanly closed prompt campaigns,
                  \* each with the candidate program it evaluated
    Ids,          \* activation ids
    None

VARIABLES
    pointer,      \* contents of active/ROLE.json, None if there is no such file
    program,      \* program[a]: the evaluation whose program history/a holds
    metadata,     \* metadata[a]: what history/a/metadata.json says of a
    archived,     \* ids with a prompt_activation evidence row
    latest,       \* what the newest evidence row says is active
    drawn,        \* activation ids drawn by uuid4 so far
    turns,        \* do the operators take turns?
    pc,           \* what each process does next
    evaluation,   \* the evaluation it activates
    previous,     \* the pointer it has validated: `previous' or `current'
    saved,        \* the raw pointer it restores on failure
    mine,         \* the activation id it has drawn
    target,       \* the pointer a rollback restores
    replaced,     \* history: replaced[a] was active when a's pointer was written
    torn          \* history: was a command cut off with its evidence missing?

store == <<pointer, program, metadata, archived, latest, drawn>>
locals == <<evaluation, previous, saved, mine, target>>
history == <<replaced, torn>>
vars == <<store, turns, pc, locals, history>>

-----------------------------------------------------------------------------
(***************************************************************************)
(* State.                                                                  *)
(***************************************************************************)

\* A pointer repeats the fields of the metadata it was made from.
Pointers == [id : Ids, evaluation : Evaluations, previous : Ids \cup {None}]

ASSUME PromptStoreAssumption == None \notin Ids \cup Evaluations \cup Pointers

IdOf(ptr) == IF ptr = None THEN None ELSE ptr.id

\* _validate_pointer_state: the history still holds the program it names.
Valid(ptr) == program[ptr.id] = ptr.evaluation

\* read_active_prompt returns (a missing file is the code baseline) or raises.
Readable == pointer # None => Valid(pointer)

\* The activation directory is complete.
Kept(a) == metadata[a] # None /\ program[a] = metadata[a].evaluation

Activating == {"capture", "program", "metadata", "pointer", "evidence", "undo", "remove"}
RollingBack == {"target", "move", "log", "reinstate"}

\* Where a command has moved the pointer, or is undoing that, and no evidence
\* row says so.
Unrecorded == {"evidence", "undo", "log", "reinstate"}

Init ==
    /\ pointer = None
    /\ program = [a \in Ids |-> None]
    /\ metadata = [a \in Ids |-> None]
    /\ archived = {}
    /\ latest = None
    /\ drawn = {}
    /\ turns \in BOOLEAN
    /\ pc = [p \in Procs |-> "idle"]
    /\ evaluation = [p \in Procs |-> None]
    /\ previous = [p \in Procs |-> None]
    /\ saved = [p \in Procs |-> None]
    /\ mine = [p \in Procs |-> None]
    /\ target = [p \in Procs |-> None]
    /\ replaced = [a \in {} |-> None]
    /\ torn = FALSE

-----------------------------------------------------------------------------
(***************************************************************************)
(* Control.                                                                *)
(***************************************************************************)

At(p, label) == pc[p] = label

Goto(p, label) == pc' = [pc EXCEPT ![p] = label]

\* The command ends; its variables are gone.
Return(p) ==
    /\ Goto(p, "idle")
    /\ evaluation' = [evaluation EXCEPT ![p] = None]
    /\ previous' = [previous EXCEPT ![p] = None]
    /\ saved' = [saved EXCEPT ![p] = None]
    /\ mine' = [mine EXCEPT ![p] = None]
    /\ target' = [target EXCEPT ![p] = None]

MayStart(p) ==
    /\ At(p, "idle")
    /\ turns => \A q \in Procs : At(q, "idle")

-----------------------------------------------------------------------------
(***************************************************************************)
(* activate_prompt_candidate.                                              *)
(***************************************************************************)

BeginActivation(p, e) ==
    /\ MayStart(p)
    /\ Readable
    /\ pointer # None => pointer.evaluation # e
    /\ evaluation' = [evaluation EXCEPT ![p] = e]
    /\ previous' = [previous EXCEPT ![p] = pointer]
    /\ Goto(p, "capture")
    /\ UNCHANGED <<store, turns, saved, mine, target, history>>

\* The evaluation is active already: nothing is written.
RepeatActivation(p, e) ==
    /\ MayStart(p)
    /\ pointer # None /\ Valid(pointer) /\ pointer.evaluation = e
    /\ mine' = [mine EXCEPT ![p] = pointer.id]
    /\ Goto(p, "report")
    /\ UNCHANGED <<store, turns, evaluation, previous, saved, target, history>>

\* The command tells the operator which activation is active.
Report(p) ==
    /\ At(p, "report")
    /\ Return(p)
    /\ UNCHANGED <<store, turns, history>>

\* Draw an id, read the pointer again (raw), make the history directory.
Capture(p, a) ==
    /\ At(p, "capture")
    /\ a \notin drawn
    /\ drawn' = drawn \cup {a}
    /\ mine' = [mine EXCEPT ![p] = a]
    /\ saved' = [saved EXCEPT ![p] = pointer]
    /\ Goto(p, "program")
    /\ UNCHANGED <<pointer, program, metadata, archived, latest, turns,
                   evaluation, previous, target, history>>

NewPointerNested(p) ==   \* mutant: the previous pointer in place of its id
    [id |-> mine[p], evaluation |-> evaluation[p], previous |-> previous[p]]

NewPointerSkips(p) ==   \* mutant: inherits the previous pointer's own field
    [id |-> mine[p], evaluation |-> evaluation[p],
     previous |-> IF previous[p] = None THEN None ELSE previous[p].previous]

NewPointer(p) ==
    [id |-> mine[p], evaluation |-> evaluation[p], previous |-> IdOf(previous[p])]

WriteProgram(p) ==
    /\ At(p, "program")
    /\ program' = [program EXCEPT ![mine[p]] = evaluation[p]]
    /\ Goto(p, "metadata")
    /\ UNCHANGED <<pointer, metadata, archived, latest, drawn, turns, locals, history>>

WriteMetadata(p) ==
    /\ At(p, "metadata")
    /\ metadata' = [metadata EXCEPT ![mine[p]] = NewPointer(p)]
    /\ Goto(p, "pointer")
    /\ UNCHANGED <<pointer, program, archived, latest, drawn, turns, locals, history>>

WritePointer(p) ==
    /\ At(p, "pointer")
    /\ pointer' = NewPointer(p)
    /\ replaced' = [a \in DOMAIN replaced \cup {mine[p]} |->
                       IF a = mine[p] THEN IdOf(pointer) ELSE replaced[a]]
    /\ Goto(p, "evidence")
    /\ UNCHANGED <<program, metadata, archived, latest, drawn, turns, locals, torn>>

Archive(p) ==
    /\ At(p, "evidence")
    /\ archived' = archived \cup {mine[p]}
    /\ latest' = mine[p]
    /\ torn' = FALSE
    /\ Goto(p, "report")
    /\ UNCHANGED <<pointer, program, metadata, drawn, turns, locals, replaced>>

ActivationFailsLate(p) ==   \* mutant: the report is printed inside the try
    /\ pc[p] \in {"program", "metadata", "pointer", "evidence", "report"}
    /\ Goto(p, "undo")
    /\ UNCHANGED <<store, turns, locals, history>>

\* A write or the INSERT raises: the except clause begins.
ActivationFails(p) ==
    /\ pc[p] \in {"program", "metadata", "pointer", "evidence"}
    /\ Goto(p, "undo")
    /\ UNCHANGED <<store, turns, locals, history>>

RestorePointerWhenFirst(p) ==   \* mutant: only a first activation is unlinked
    /\ At(p, "undo")
    /\ pointer' = IF saved[p] = None THEN None ELSE pointer
    /\ Goto(p, "remove")
    /\ UNCHANGED <<program, metadata, archived, latest, drawn, turns, locals, history>>

RestorePointer(p) ==
    /\ At(p, "undo")
    /\ pointer' = saved[p]
    /\ Goto(p, "remove")
    /\ UNCHANGED <<program, metadata, archived, latest, drawn, turns, locals, history>>

\* shutil.rmtree(history, ignore_errors=True) may leave files behind.
RemoveHistory(p) ==
    /\ At(p, "remove")
    /\ \E left \in SUBSET {"program", "metadata"} :
          /\ program' = IF "program" \in left THEN program
                        ELSE [program EXCEPT ![mine[p]] = None]
          /\ metadata' = IF "metadata" \in left THEN metadata
                         ELSE [metadata EXCEPT ![mine[p]] = None]
    /\ Return(p)
    /\ UNCHANGED <<pointer, archived, latest, drawn, turns, history>>

-----------------------------------------------------------------------------
(***************************************************************************)
(* rollback_active_prompt.                                                 *)
(***************************************************************************)

BeginRollback(p) ==
    /\ MayStart(p)
    /\ pointer # None /\ Valid(pointer)
    /\ previous' = [previous EXCEPT ![p] = pointer]
    /\ Goto(p, "target")
    /\ UNCHANGED <<store, turns, evaluation, saved, mine, target, history>>

\* What the rollback of a validated pointer restores can be loaded.
Restorable(ptr) ==
    ptr.previous # None =>
        metadata[ptr.previous] # None /\ Valid(metadata[ptr.previous])

\* Read the raw pointer, then the metadata and program of the previous one.
FindTarget(p) ==
    /\ At(p, "target")
    /\ pointer # None
    /\ Restorable(previous[p])
    /\ saved' = [saved EXCEPT ![p] = pointer]
    /\ target' = [target EXCEPT ![p] = IF previous[p].previous = None THEN None
                                       ELSE metadata[previous[p].previous]]
    /\ Goto(p, "move")
    /\ UNCHANGED <<store, turns, evaluation, previous, mine, history>>

RollbackRefused(p) ==
    /\ At(p, "target")
    /\ ~(pointer # None /\ Restorable(previous[p]))
    /\ Return(p)
    /\ UNCHANGED <<store, turns, history>>

\* pointer_path.unlink() without missing_ok raises when the file is gone.
MovePointer(p) ==
    /\ At(p, "move")
    /\ target[p] = None => pointer # None
    /\ pointer' = target[p]
    /\ Goto(p, "log")
    /\ UNCHANGED <<program, metadata, archived, latest, drawn, turns, locals, history>>

LogRollback(p) ==
    /\ At(p, "log")
    /\ latest' = IdOf(target[p])
    /\ torn' = FALSE
    /\ Return(p)
    /\ UNCHANGED <<pointer, program, metadata, archived, drawn, turns, replaced>>

\* The write, the unlink or the INSERT raises.
RollbackFails(p) ==
    /\ pc[p] \in {"move", "log"}
    /\ Goto(p, "reinstate")
    /\ UNCHANGED <<store, turns, locals, history>>

ReinstateNothing(p) ==   \* mutant: a failed rollback is not undone
    /\ At(p, "reinstate")
    /\ Return(p)
    /\ UNCHANGED <<store, turns, history>>

Reinstate(p) ==
    /\ At(p, "reinstate")
    /\ pointer' = saved[p]
    /\ Return(p)
    /\ UNCHANGED <<program, metadata, archived, latest, drawn, turns, history>>

-----------------------------------------------------------------------------
(***************************************************************************)
(* Commands that are cut off.                                              *)
(***************************************************************************)

\* Writing the saved pointer back raises too (a full disk).
RestoreFails(p) ==
    /\ pc[p] \in {"undo", "reinstate"}
    /\ saved[p] # None
    /\ torn' = TRUE
    /\ Return(p)
    /\ UNCHANGED <<store, turns, replaced>>

\* Ctrl-C, or the process dies.
Crash(p) ==
    /\ ~At(p, "idle")
    /\ torn' = (torn \/ pc[p] \in Unrecorded)
    /\ Return(p)
    /\ UNCHANGED <<store, turns, replaced>>

Next ==
    \E p \in Procs :
        \/ \E e \in Evaluations : BeginActivation(p, e) \/ RepeatActivation(p, e)
        \/ Report(p)
        \/ \E a \in Ids : Capture(p, a)
        \/ WriteProgram(p) \/ WriteMetadata(p) \/ WritePointer(p) \/ Archive(p)
        \/ ActivationFails(p) \/ RestorePointer(p) \/ RemoveHistory(p)
        \/ BeginRollback(p) \/ FindTarget(p) \/ RollbackRefused(p)
        \/ MovePointer(p) \/ LogRollback(p) \/ RollbackFails(p) \/ Reinstate(p)
        \/ RestoreFails(p) \/ Crash(p)

Spec == Init /\ [][Next]_vars

-----------------------------------------------------------------------------
(***************************************************************************)
(* Properties.                                                             *)
(***************************************************************************)

\* Type invariant of files, rows and processes.
TypeOK ==
    /\ pointer \in Pointers \cup {None}
    /\ program \in [Ids -> Evaluations \cup {None}]
    /\ metadata \in [Ids -> Pointers \cup {None}]
    /\ archived \subseteq Ids /\ drawn \subseteq Ids
    /\ latest \in Ids \cup {None}
    /\ turns \in BOOLEAN /\ torn \in BOOLEAN
    /\ pc \in [Procs -> {"idle", "report"} \cup Activating \cup RollingBack]
    /\ evaluation \in [Procs -> Evaluations \cup {None}]
    /\ previous \in [Procs -> Pointers \cup {None}]
    /\ saved \in [Procs -> Pointers \cup {None}]
    /\ mine \in [Procs -> Ids \cup {None}]
    /\ target \in [Procs -> Pointers \cup {None}]
    /\ replaced \in [DOMAIN replaced -> Ids \cup {None}]
    /\ DOMAIN replaced \subseteq Ids
    /\ \A p \in Procs :
          /\ pc[p] \in Activating => evaluation[p] # None
          /\ pc[p] \in {"report"} \cup (Activating \ {"capture"}) => mine[p] # None
          /\ pc[p] \in RollingBack => previous[p] # None
          /\ pc[p] \in RollingBack \ {"target"} => saved[p] # None

\* An activation with an evidence row keeps its program and metadata, whatever
\* the other commands do, fail at or undo: no except clause removes the history
\* of an activation that is on record.
ArchivedIsKept == \A a \in archived : Kept(a)

\* While operators take turns, the active pointer can always be loaded and every
\* activation below it can be restored: no failure or crash leaves the role
\* with a pointer that activation, rollback and the role program all refuse.
ChainResolves ==
    turns =>
        /\ pointer # None => Kept(pointer.id)
        /\ \A a \in Ids : Kept(a) /\ metadata[a].previous # None =>
                              Kept(metadata[a].previous)

\* While operators take turns and no command is running, the newest evidence row
\* names the active prompt, unless a command was cut off, or could not write its
\* undo, after it moved the pointer and before it recorded that.
EvidenceNamesActive ==
    turns /\ (\A p \in Procs : At(p, "idle")) /\ ~torn => latest = IdOf(pointer)

\* While operators take turns, activations form a stack: a rollback and the undo
\* of a failed activation restore exactly what the activation had replaced.
Stack == INSTANCE PromptStack WITH current <- IdOf(pointer), under <- replaced

ImplementsStack == Stack!Init /\ [][turns => Stack!Next]_(Stack!vars)

\* Every activation that a command reports to its operator has its evidence row:
\* docs/PROMPT_DEPLOYMENT.md, "Activation and rollback events are archived as
\* hash-bound evaluation artifacts".
ReportedIsArchived == \A p \in Procs : At(p, "report") => mine[p] \in archived

=============================================================================
