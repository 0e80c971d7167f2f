-------------------------- MODULE PromptStoreProofs --------------------------
(***************************************************************************)
(* Theorems about PromptStore for any processes, evaluations and ids.       *)
(***************************************************************************)
EXTENDS PromptStore, TLAPS

-----------------------------------------------------------------------------
(***************************************************************************)
(* Invariants.                                                             *)
(***************************************************************************)

\* Where a command owns the history directory it has made.
Owning == Activating \ {"capture"}

\* Ids of evidence rows and of history directories have been drawn, and a directory
\* describes the activation it is named after.
Fresh ==
    /\ archived \subseteq drawn
    /\ \A a \in Ids \ drawn : metadata[a] = None
    /\ \A a \in Ids : metadata[a] # None => metadata[a].id = a

\* A directory under construction has no evidence row yet, and it is complete when
\* its pointer is about to be written.
Builds(p) ==
    /\ pc[p] \in Owning => mine[p] \in drawn \ archived
    /\ pc[p] \in {"metadata", "pointer", "evidence"} => program[mine[p]] = evaluation[p]
    /\ pc[p] \in {"pointer", "evidence"} => metadata[mine[p]] = NewPointer(p)

\* It belongs to one process.
Owned ==
    \A p, q \in Procs :
        pc[p] \in Owning /\ pc[q] \in Owning /\ mine[p] = mine[q] => p = q

HistoryInv == Fresh /\ Owned /\ ArchivedIsKept /\ \A p \in Procs : Builds(p)

\* A pointer, the code baseline included, that can be loaded and rolled back.
Loads(ptr) == ptr # None => Kept(ptr.id) /\ metadata[ptr.id] = ptr

\* What a command knows while no other runs.
Knows(p) ==
    /\ pc[p] # "idle" /\ pc[p] # "report" => Loads(previous[p])
    /\ pc[p] \in Owning \cup (RollingBack \ {"target"}) => Loads(saved[p])
    /\ pc[p] \in RollingBack \ {"target"} => Loads(target[p])
    /\ pc[p] \in {"program", "metadata"} => metadata[mine[p]] = None
    /\ pc[p] \in {"program", "metadata", "pointer", "remove"} => IdOf(pointer) # mine[p]
    /\ pc[p] \in Owning =>
          /\ IdOf(saved[p]) # mine[p] /\ IdOf(previous[p]) # mine[p]
          /\ \A a \in Ids : Kept(a) => metadata[a].previous # mine[p]

Alone == \A p, q \in Procs : pc[p] # "idle" /\ pc[q] # "idle" => p = q

Chained == \A a \in Ids : Kept(a) /\ metadata[a].previous # None =>
                              Kept(metadata[a].previous)

Sequential ==
    /\ Alone
    /\ Loads(pointer)
    /\ Chained
    /\ \A p \in Procs : Knows(p)

TurnsInv == turns => Sequential

\* The history variable agrees with the pointers: what a pointer calls its
\* previous activation is what it replaced.
Placed(ptr) == ptr # None => ptr.id \in DOMAIN replaced

Matching ==
    /\ \A a \in DOMAIN replaced : Kept(a) => replaced[a] = metadata[a].previous
    /\ \A a \in Ids : Kept(a) /\ metadata[a].previous # None =>
                          metadata[a].previous \in DOMAIN replaced

\* Where a command stands between the pointer it found and the one it writes.
Moves(p) ==
    /\ pc[p] \in {"program", "metadata", "pointer"} => mine[p] \notin DOMAIN replaced
    /\ pc[p] \in {"capture", "program", "metadata", "pointer", "target", "move"} =>
          pointer = previous[p]
    /\ pc[p] \in Owning \cup (RollingBack \ {"target"}) =>
          saved[p] = previous[p] /\ Placed(saved[p])
    /\ pc[p] \in RollingBack \ {"target"} => IdOf(target[p]) = saved[p].previous
    /\ pc[p] = "log" => pointer = target[p]
    /\ pc[p] = "reinstate" => pointer \in {saved[p], target[p]}
    /\ pc[p] \in {"evidence", "undo"} =>
          \/ pointer = saved[p]
          \/ /\ IdOf(pointer) \in DOMAIN replaced
             /\ replaced[IdOf(pointer)] = IdOf(saved[p])

Stacked ==
    /\ Placed(pointer)
    /\ DOMAIN replaced \subseteq drawn
    /\ Matching
    /\ \A p \in Procs : Moves(p)

StackInv == turns => Stacked

-----------------------------------------------------------------------------
(***************************************************************************)
(* Type correctness.                                                       *)
(***************************************************************************)

LEMMA InitType == Init => TypeOK
  BY DEF Init, TypeOK, Activating, RollingBack

\* A command that ends leaves its variables at None.
LEMMA ReturnType ==
    ASSUME TypeOK, NEW p \in Procs, Return(p),
           UNCHANGED <<turns, replaced>>,
           pointer' \in Pointers \cup {None},
           program' \in [Ids -> Evaluations \cup {None}],
           metadata' \in [Ids -> Pointers \cup {None}],
           archived' \subseteq Ids, drawn' \subseteq Ids,
           latest' \in Ids \cup {None}, torn' \in BOOLEAN
    PROVE  TypeOK'
  BY DEF TypeOK, Return, Goto, Activating, RollingBack

\* The pointer a process writes is one.
LEMMA NewPointerType ==
    ASSUME TypeOK, NEW p \in Procs, pc[p] \in Owning
    PROVE  /\ NewPointer(p) \in Pointers
           /\ NewPointer(p).id = mine[p]
           /\ NewPointer(p).evaluation = evaluation[p]
           /\ NewPointer(p).previous = IdOf(previous[p])
  BY DEF TypeOK, NewPointer, IdOf, Owning, Activating, Pointers

LEMMA NextType == TypeOK /\ [Next]_vars => TypeOK'
  <1> SUFFICES ASSUME TypeOK, [Next]_vars
               PROVE  TypeOK'
    OBVIOUS
  <1>1. ASSUME NEW p \in Procs, NEW e \in Evaluations, BeginActivation(p, e)
        PROVE  TypeOK'
    BY <1>1, PromptStoreAssumption DEF BeginActivation, TypeOK, At, Goto, store,
       locals, history, Activating, RollingBack, Owning, Pointers, IdOf,
       Restorable, Valid, MayStart
  <1>2. ASSUME NEW p \in Procs, NEW e \in Evaluations, RepeatActivation(p, e)
        PROVE  TypeOK'
    BY <1>2, PromptStoreAssumption DEF RepeatActivation, TypeOK, At, Goto,
       store, locals, history, Activating, RollingBack, Owning, Pointers, IdOf,
       Restorable, Valid, MayStart
  <1>3. ASSUME NEW p \in Procs, Report(p)
        PROVE  TypeOK'
    BY <1>3, ReturnType DEF Report, TypeOK, store, history
  <1>4. ASSUME NEW p \in Procs, NEW a \in Ids, Capture(p, a)
        PROVE  TypeOK'
    BY <1>4, PromptStoreAssumption DEF Capture, TypeOK, At, Goto, store, locals,
       history, Activating, RollingBack, Owning
  <1>5. ASSUME NEW p \in Procs, WriteProgram(p)
        PROVE  TypeOK'
    BY <1>5 DEF WriteProgram, TypeOK, At, Goto, store, locals, history,
       Activating, RollingBack, Owning
  <1>6. ASSUME NEW p \in Procs, WriteMetadata(p)
        PROVE  TypeOK'
    BY <1>6, NewPointerType DEF WriteMetadata, TypeOK, At, Goto, store, locals,
       history, Activating, RollingBack, Owning
  <1>7. ASSUME NEW p \in Procs, WritePointer(p)
        PROVE  TypeOK'
    BY <1>7, NewPointerType DEF WritePointer, TypeOK, At, Goto, store, locals,
       history, Activating, RollingBack, Owning, Pointers, IdOf, Restorable,
       Valid
  <1>8. ASSUME NEW p \in Procs, Archive(p)
        PROVE  TypeOK'
    BY <1>8 DEF Archive, TypeOK, At, Goto, store, locals, history, Activating,
       RollingBack, Owning
  <1>9. ASSUME NEW p \in Procs, ActivationFails(p)
        PROVE  TypeOK'
    BY <1>9 DEF ActivationFails, TypeOK, At, Goto, store, locals, history,
       Activating, RollingBack, Owning
  <1>10. ASSUME NEW p \in Procs, RestorePointer(p)
        PROVE  TypeOK'
    BY <1>10 DEF RestorePointer, TypeOK, At, Goto, store, locals, history,
       Activating, RollingBack, Owning
  <1>11. ASSUME NEW p \in Procs, RemoveHistory(p)
        PROVE  TypeOK'
    BY <1>11, ReturnType DEF RemoveHistory, TypeOK, store, history
  <1>12. ASSUME NEW p \in Procs, BeginRollback(p)
        PROVE  TypeOK'
    BY <1>12 DEF BeginRollback, TypeOK, At, Goto, store, locals, history,
       Activating, RollingBack, Owning, Pointers, IdOf, Restorable, Valid,
       MayStart
  <1>13. ASSUME NEW p \in Procs, FindTarget(p)
        PROVE  TypeOK'
    BY <1>13 DEF FindTarget, TypeOK, At, Goto, store, locals, history,
       Activating, RollingBack, Owning, Pointers, IdOf, Restorable, Valid
  <1>14. ASSUME NEW p \in Procs, RollbackRefused(p)
        PROVE  TypeOK'
    BY <1>14, ReturnType DEF RollbackRefused, TypeOK, store, history
  <1>15. ASSUME NEW p \in Procs, MovePointer(p)
        PROVE  TypeOK'
    BY <1>15 DEF MovePointer, TypeOK, At, Goto, store, locals, history,
       Activating, RollingBack, Owning
  <1>16. ASSUME NEW p \in Procs, LogRollback(p)
        PROVE  TypeOK'
    BY <1>16, ReturnType DEF LogRollback, TypeOK, store, history, IdOf, At,
       Pointers, RollingBack
  <1>17. ASSUME NEW p \in Procs, RollbackFails(p)
        PROVE  TypeOK'
    BY <1>17 DEF RollbackFails, TypeOK, At, Goto, store, locals, history,
       Activating, RollingBack, Owning
  <1>18. ASSUME NEW p \in Procs, Reinstate(p)
        PROVE  TypeOK'
    BY <1>18, ReturnType DEF Reinstate, TypeOK, store, history, At
  <1>19. ASSUME NEW p \in Procs, RestoreFails(p)
        PROVE  TypeOK'
    BY <1>19, ReturnType DEF RestoreFails, TypeOK, store, history
  <1>20. ASSUME NEW p \in Procs, Crash(p)
        PROVE  TypeOK'
    BY <1>20, ReturnType DEF Crash, TypeOK, store, history
  <1>21. CASE UNCHANGED vars
    BY <1>21 DEF vars, store, locals, history, TypeOK
  <1>22. QED
    BY <1>1, <1>2, <1>3, <1>4, <1>5, <1>6, <1>7, <1>8, <1>9, <1>10, <1>11,
       <1>12, <1>13, <1>14, <1>15, <1>16, <1>17, <1>18, <1>19, <1>20, <1>21 DEF
       Next

\* Files, rows and processes keep their types.
THEOREM TypeCorrect == Spec => []TypeOK
  BY InitType, NextType, PTL DEF Spec

-----------------------------------------------------------------------------
(***************************************************************************)
(* History on record is kept.                                              *)
(***************************************************************************)

LEMMA InitHistory == Init => HistoryInv
  BY DEF Init, HistoryInv, Fresh, Owned, Builds, ArchivedIsKept, Owning,
     Activating

LEMMA NextHistory == TypeOK /\ HistoryInv /\ [Next]_vars => HistoryInv'
  <1> SUFFICES ASSUME TypeOK, HistoryInv, [Next]_vars
               PROVE  HistoryInv'
    OBVIOUS
  <1>1. ASSUME NEW p \in Procs, NEW e \in Evaluations, BeginActivation(p, e)
        PROVE  HistoryInv'
    BY <1>1 DEF BeginActivation, TypeOK, HistoryInv, Fresh, Owned, Builds,
       ArchivedIsKept, Kept, Owning, Activating, RollingBack, NewPointer, Goto,
       At, store, locals, history, MayStart
  <1>2. ASSUME NEW p \in Procs, NEW e \in Evaluations, RepeatActivation(p, e)
        PROVE  HistoryInv'
    BY <1>2 DEF RepeatActivation, TypeOK, HistoryInv, Fresh, Owned, Builds,
       ArchivedIsKept, Kept, Owning, Activating, RollingBack, NewPointer, Goto,
       At, store, locals, history, MayStart
  <1>3. ASSUME NEW p \in Procs, Report(p)
        PROVE  HistoryInv'
    BY <1>3 DEF Report, TypeOK, HistoryInv, Fresh, Owned, Builds,
       ArchivedIsKept, Kept, Owning, Activating, RollingBack, NewPointer, Goto,
       At, store, locals, history, Return
  <1>4. ASSUME NEW p \in Procs, NEW a \in Ids, Capture(p, a)
        PROVE  HistoryInv'
    <2>1. Fresh'
      BY <1>4 DEF Capture, TypeOK, HistoryInv, At, Goto, locals, Fresh
    <2>2. Owned'
      BY <1>4 DEF Capture, TypeOK, HistoryInv, At, Goto, locals, Fresh, Owned,
         Builds, Owning
    <2>3. ArchivedIsKept'
      BY <1>4 DEF Capture, TypeOK, HistoryInv, At, Goto, locals, ArchivedIsKept,
         Kept
    <2>4. \A q \in Procs : Builds(q)'
      BY <1>4 DEF Capture, TypeOK, HistoryInv, At, Goto, locals, Fresh, Builds,
         Owning, Activating, NewPointer
    <2>5. QED
      BY <2>1, <2>2, <2>3, <2>4 DEF HistoryInv
  <1>5. ASSUME NEW p \in Procs, WriteProgram(p)
        PROVE  HistoryInv'
    <2>1. Fresh'
      BY <1>5 DEF WriteProgram, TypeOK, HistoryInv, At, Goto, locals, Fresh
    <2>2. Owned'
      BY <1>5 DEF WriteProgram, TypeOK, HistoryInv, At, Goto, locals, Owned,
         Owning, Activating
    <2>3. ArchivedIsKept'
      BY <1>5 DEF WriteProgram, TypeOK, HistoryInv, At, Goto, locals,
         ArchivedIsKept, Kept, Builds, Owning, Activating
    <2>4. \A q \in Procs : Builds(q)'
      BY <1>5 DEF WriteProgram, TypeOK, HistoryInv, At, Goto, locals, Owned,
         Builds, Owning, Activating, NewPointer
    <2>5. QED
      BY <2>1, <2>2, <2>3, <2>4 DEF HistoryInv
  <1>6. ASSUME NEW p \in Procs, WriteMetadata(p)
        PROVE  HistoryInv'
    BY <1>6, NewPointerType, PromptStoreAssumption DEF WriteMetadata, TypeOK,
       HistoryInv, Fresh, Owned, Builds, ArchivedIsKept, Kept, Owning,
       Activating, RollingBack, NewPointer, Goto, At, store, locals, history
  <1>7. ASSUME NEW p \in Procs, WritePointer(p)
        PROVE  HistoryInv'
    BY <1>7 DEF WritePointer, TypeOK, HistoryInv, Fresh, Owned, Builds,
       ArchivedIsKept, Kept, Owning, Activating, RollingBack, NewPointer, Goto,
       At, store, locals, history
  <1>8. ASSUME NEW p \in Procs, Archive(p)
        PROVE  HistoryInv'
    <2>1. Fresh'
      BY <1>8 DEF Archive, TypeOK, HistoryInv, At, Goto, locals, Fresh, Builds,
         Owning, Activating
    <2>2. Owned'
      BY <1>8 DEF Archive, TypeOK, HistoryInv, At, Goto, locals, Owned, Owning,
         Activating
    <2>3. ArchivedIsKept'
      BY <1>8, NewPointerType, PromptStoreAssumption DEF Archive, TypeOK,
         HistoryInv, At, Goto, locals, ArchivedIsKept, Kept, Builds, Owning,
         Activating
    <2>4. \A q \in Procs : Builds(q)'
      BY <1>8 DEF Archive, TypeOK, HistoryInv, At, Goto, locals, Owned, Builds,
         Owning, Activating, NewPointer
    <2>5. QED
      BY <2>1, <2>2, <2>3, <2>4 DEF HistoryInv
  <1>9. ASSUME NEW p \in Procs, ActivationFails(p)
        PROVE  HistoryInv'
    BY <1>9 DEF ActivationFails, TypeOK, HistoryInv, Fresh, Owned, Builds,
       ArchivedIsKept, Kept, Owning, Activating, RollingBack, NewPointer, Goto,
       At, store, locals, history
  <1>10. ASSUME NEW p \in Procs, RestorePointer(p)
        PROVE  HistoryInv'
    BY <1>10 DEF RestorePointer, TypeOK, HistoryInv, Fresh, Owned, Builds,
       ArchivedIsKept, Kept, Owning, Activating, RollingBack, NewPointer, Goto,
       At, store, locals, history
  <1>11. ASSUME NEW p \in Procs, RemoveHistory(p)
        PROVE  HistoryInv'
    <2>1. Fresh'
      BY <1>11 DEF RemoveHistory, TypeOK, HistoryInv, At, Goto, locals, Fresh
    <2>2. Owned'
      BY <1>11 DEF RemoveHistory, TypeOK, HistoryInv, At, Goto, locals, Owned,
         Owning, Activating, Return
    <2>3. ArchivedIsKept'
      BY <1>11 DEF RemoveHistory, TypeOK, HistoryInv, At, Goto, locals,
         ArchivedIsKept, Kept, Builds, Owning, Activating
    <2>4. \A q \in Procs : Builds(q)'
      BY <1>11 DEF RemoveHistory, TypeOK, HistoryInv, At, Goto, locals, Owned,
         Builds, Owning, Activating, NewPointer, Return
    <2>5. QED
      BY <2>1, <2>2, <2>3, <2>4 DEF HistoryInv
  <1>12. ASSUME NEW p \in Procs, BeginRollback(p)
        PROVE  HistoryInv'
    BY <1>12 DEF BeginRollback, TypeOK, HistoryInv, Fresh, Owned, Builds,
       ArchivedIsKept, Kept, Owning, Activating, RollingBack, NewPointer, Goto,
       At, store, locals, history, MayStart
  <1>13. ASSUME NEW p \in Procs, FindTarget(p)
        PROVE  HistoryInv'
    BY <1>13 DEF FindTarget, TypeOK, HistoryInv, Fresh, Owned, Builds,
       ArchivedIsKept, Kept, Owning, Activating, RollingBack, NewPointer, Goto,
       At, store, locals, history
  <1>14. ASSUME NEW p \in Procs, RollbackRefused(p)
        PROVE  HistoryInv'
    BY <1>14 DEF RollbackRefused, TypeOK, HistoryInv, Fresh, Owned, Builds,
       ArchivedIsKept, Kept, Owning, Activating, RollingBack, NewPointer, Goto,
       At, store, locals, history, Return
  <1>15. ASSUME NEW p \in Procs, MovePointer(p)
        PROVE  HistoryInv'
    BY <1>15 DEF MovePointer, TypeOK, HistoryInv, Fresh, Owned, Builds,
       ArchivedIsKept, Kept, Owning, Activating, RollingBack, NewPointer, Goto,
       At, store, locals, history
  <1>16. ASSUME NEW p \in Procs, LogRollback(p)
        PROVE  HistoryInv'
    BY <1>16 DEF LogRollback, TypeOK, HistoryInv, Fresh, Owned, Builds,
       ArchivedIsKept, Kept, Owning, Activating, RollingBack, NewPointer, Goto,
       At, store, locals, history, Return
  <1>17. ASSUME NEW p \in Procs, RollbackFails(p)
        PROVE  HistoryInv'
    BY <1>17 DEF RollbackFails, TypeOK, HistoryInv, Fresh, Owned, Builds,
       ArchivedIsKept, Kept, Owning, Activating, RollingBack, NewPointer, Goto,
       At, store, locals, history
  <1>18. ASSUME NEW p \in Procs, Reinstate(p)
        PROVE  HistoryInv'
    BY <1>18 DEF Reinstate, TypeOK, HistoryInv, Fresh, Owned, Builds,
       ArchivedIsKept, Kept, Owning, Activating, RollingBack, NewPointer, Goto,
       At, store, locals, history, Return
  <1>19. ASSUME NEW p \in Procs, RestoreFails(p)
        PROVE  HistoryInv'
    BY <1>19 DEF RestoreFails, TypeOK, HistoryInv, Fresh, Owned, Builds,
       ArchivedIsKept, Kept, Owning, Activating, RollingBack, NewPointer, Goto,
       At, store, locals, history, Return
  <1>20. ASSUME NEW p \in Procs, Crash(p)
        PROVE  HistoryInv'
    BY <1>20 DEF Crash, TypeOK, HistoryInv, Fresh, Owned, Builds,
       ArchivedIsKept, Kept, Owning, Activating, RollingBack, NewPointer, Goto,
       At, store, locals, history, Return
  <1>21. CASE UNCHANGED vars
    BY <1>21 DEF vars, store, locals, history, HistoryInv, Fresh, Owned, Builds,
       ArchivedIsKept, Kept, NewPointer
  <1>22. QED
    BY <1>1, <1>2, <1>3, <1>4, <1>5, <1>6, <1>7, <1>8, <1>9, <1>10, <1>11,
       <1>12, <1>13, <1>14, <1>15, <1>16, <1>17, <1>18, <1>19, <1>20, <1>21 DEF
       Next

\* Whatever other commands do, the history of an activation on record stays.
THEOREM RecordKept == Spec => []ArchivedIsKept
  <1>1. Init => TypeOK /\ HistoryInv
    BY InitType, InitHistory
  <1>2. TypeOK /\ HistoryInv /\ [Next]_vars => (TypeOK /\ HistoryInv)'
    BY NextType, NextHistory
  <1>3. HistoryInv => ArchivedIsKept
    BY DEF HistoryInv
  <1>4. QED
    BY <1>1, <1>2, <1>3, PTL DEF Spec

-----------------------------------------------------------------------------
(***************************************************************************)
(* Operators who take turns.                                               *)
(***************************************************************************)

LEMMA InitTurns == Init => TurnsInv
  BY DEF Init, TurnsInv, Sequential, Alone, Loads, Chained, Kept, Knows, Owning,
     Activating, RollingBack

LEMMA TurnsFixed == [Next]_vars => turns' = turns
  BY DEF Next, vars, BeginActivation, RepeatActivation, Report, Capture,
     WriteProgram,
     WriteMetadata, WritePointer, Archive, ActivationFails, RestorePointer,
     RemoveHistory, BeginRollback, FindTarget, RollbackRefused, MovePointer,
     LogRollback, RollbackFails, Reinstate, RestoreFails, Crash

\* While operators take turns, a step is of the only process that is not idle.
LEMMA Others ==
    ASSUME TypeOK, Alone, turns, NEW p \in Procs, pc[p] # "idle" \/ MayStart(p),
           NEW l, Goto(p, l)
    PROVE  /\ Alone'
           /\ \A q \in Procs \ {p} : pc'[q] = "idle"
  BY DEF TypeOK, Alone, MayStart, At, Goto

\* The parts of the invariant, of which only one process's is not trivial.
LEMMA Parts ==
    ASSUME Alone', Loads(pointer)', Chained', NEW p \in Procs, Knows(p)',
           \A q \in Procs \ {p} : pc'[q] = "idle"
    PROVE  Sequential'
  BY DEF Sequential, Knows, Owning, Activating, RollingBack

\* A step that leaves the files alone.
LEMMA FilesKept ==
    ASSUME Sequential, UNCHANGED <<pointer, program, metadata>>
    PROVE  Loads(pointer)' /\ Chained'
  BY DEF Sequential, Loads, Chained, Kept

LEMMA NextTurns == TypeOK /\ HistoryInv /\ TurnsInv /\ [Next]_vars => TurnsInv'
  <1> SUFFICES ASSUME TypeOK, HistoryInv, Sequential, turns, [Next]_vars
               PROVE  Sequential'
    BY TurnsFixed DEF TurnsInv
  <1>1. ASSUME NEW p \in Procs, NEW e \in Evaluations, BeginActivation(p, e)
        PROVE  Sequential'
    <2>1. /\ Alone'
          /\ \A q \in Procs \ {p} : pc'[q] = "idle"
      BY <1>1, Others DEF BeginActivation, Sequential, At, MayStart
    <2>2. Knows(p)'
      BY <1>1 DEF BeginActivation, TypeOK, Sequential, Knows, Owning,
         Activating, RollingBack, At, Goto, store, locals, history, Loads, Kept,
         IdOf, MayStart
    <2>3. Loads(pointer)' /\ Chained'
      BY <1>1, FilesKept DEF BeginActivation, store, locals, history
    <2>5. QED
      BY <2>1, <2>2, <2>3, Parts
  <1>2. ASSUME NEW p \in Procs, NEW e \in Evaluations, RepeatActivation(p, e)
        PROVE  Sequential'
    <2>1. /\ Alone'
          /\ \A q \in Procs \ {p} : pc'[q] = "idle"
      BY <1>2, Others DEF RepeatActivation, Sequential, At, MayStart
    <2>2. Knows(p)'
      BY <1>2 DEF RepeatActivation, TypeOK, Sequential, Knows, Owning,
         Activating, RollingBack, At, Goto, store, locals, history, Loads, Kept,
         IdOf, MayStart
    <2>3. Loads(pointer)' /\ Chained'
      BY <1>2, FilesKept DEF RepeatActivation, store, locals, history
    <2>5. QED
      BY <2>1, <2>2, <2>3, Parts
  <1>3. ASSUME NEW p \in Procs, Report(p)
        PROVE  Sequential'
    <2>1. /\ Alone'
          /\ \A q \in Procs \ {p} : pc'[q] = "idle"
      BY <1>3, Others DEF Report, Sequential, At, Return
    <2>2. Knows(p)'
      BY <1>3 DEF Report, TypeOK, Return, Goto, Knows, Owning, Activating,
         RollingBack
    <2>3. Loads(pointer)' /\ Chained'
      BY <1>3, FilesKept DEF Report, store, locals, history
    <2>5. QED
      BY <2>1, <2>2, <2>3, Parts
  <1>4. ASSUME NEW p \in Procs, NEW a \in Ids, Capture(p, a)
        PROVE  Sequential'
    <2>1. /\ Alone'
          /\ \A q \in Procs \ {p} : pc'[q] = "idle"
      BY <1>4, Others DEF Capture, Sequential, At
    <2> USE DEF Capture
    <2>a. \A b \in Ids : Kept(b) => b # a
      BY <1>4 DEF HistoryInv, Fresh, Kept
    <2>b. IdOf(pointer) # a /\ IdOf(previous[p]) # a
      BY <1>4, <2>a, PromptStoreAssumption
      DEF At, TypeOK, Sequential, Loads, Knows, IdOf, Pointers
    <2>c. \A b \in Ids : Kept(b) => metadata[b].previous # a
      BY <2>a, PromptStoreAssumption DEF TypeOK, Sequential, Chained
    <2>d. metadata[a] = None
      BY <1>4 DEF HistoryInv, Fresh
    <2>2. Knows(p)'
      BY <1>4, <2>b, <2>c, <2>d
      DEF At, Goto, TypeOK, Sequential, Knows, Loads, Kept, IdOf, Owning,
          Activating, RollingBack
    <2>3. Loads(pointer)' /\ Chained'
      BY <1>4, FilesKept DEF Capture, store, locals, history
    <2>5. QED
      BY <2>1, <2>2, <2>3, Parts
  <1>5. ASSUME NEW p \in Procs, WriteProgram(p)
        PROVE  Sequential'
    <2>1. /\ Alone'
          /\ \A q \in Procs \ {p} : pc'[q] = "idle"
      BY <1>5, Others DEF WriteProgram, Sequential, At
    <2>2. Knows(p)'
      BY <1>5, NewPointerType, PromptStoreAssumption DEF WriteProgram, TypeOK,
         Sequential, Knows, Owning, Activating, RollingBack, At, Goto, store,
         locals, history, Loads, Kept, IdOf, HistoryInv, Builds, NewPointer
    <2>3. Loads(pointer)'
      BY <1>5, NewPointerType, PromptStoreAssumption DEF WriteProgram, TypeOK,
         Sequential, Knows, Owning, Activating, RollingBack, At, Loads, Kept,
         IdOf, HistoryInv, Builds, NewPointer
    <2>4. Chained'
      BY <1>5, NewPointerType, PromptStoreAssumption DEF WriteProgram, TypeOK,
         Sequential, Knows, Owning, Activating, RollingBack, At, Loads, Kept,
         IdOf, HistoryInv, Builds, NewPointer, Chained
    <2>5. QED
      BY <2>1, <2>2, <2>3, <2>4, Parts
  <1>6. ASSUME NEW p \in Procs, WriteMetadata(p)
        PROVE  Sequential'
    <2>1. /\ Alone'
          /\ \A q \in Procs \ {p} : pc'[q] = "idle"
      BY <1>6, Others DEF WriteMetadata, Sequential, At
    <2>2. Knows(p)'
      BY <1>6, NewPointerType, PromptStoreAssumption DEF WriteMetadata, TypeOK,
         Sequential, Knows, Owning, Activating, RollingBack, At, Goto, store,
         locals, history, Loads, Kept, IdOf, HistoryInv, Builds, NewPointer
    <2>3. Loads(pointer)'
      BY <1>6, NewPointerType, PromptStoreAssumption DEF WriteMetadata, TypeOK,
         Sequential, Knows, Owning, Activating, RollingBack, At, Loads, Kept,
         IdOf, HistoryInv, Builds, NewPointer
    <2>4. Chained'
      BY <1>6, NewPointerType, PromptStoreAssumption DEF WriteMetadata, TypeOK,
         Sequential, Knows, Owning, Activating, RollingBack, At, Loads, Kept,
         IdOf, HistoryInv, Builds, NewPointer, Chained
    <2>5. QED
      BY <2>1, <2>2, <2>3, <2>4, Parts
  <1>7. ASSUME NEW p \in Procs, WritePointer(p)
        PROVE  Sequential'
    <2>1. /\ Alone'
          /\ \A q \in Procs \ {p} : pc'[q] = "idle"
      BY <1>7, Others DEF WritePointer, Sequential, At
    <2>2. Knows(p)'
      BY <1>7, NewPointerType, PromptStoreAssumption DEF WritePointer, TypeOK,
         Sequential, Knows, Owning, Activating, RollingBack, At, Goto, store,
         locals, history, Loads, Kept, IdOf, HistoryInv, Builds, NewPointer
    <2>3. Loads(pointer)'
      BY <1>7, NewPointerType, PromptStoreAssumption DEF WritePointer, TypeOK,
         Sequential, Knows, Owning, Activating, RollingBack, At, Loads, Kept,
         IdOf, HistoryInv, Builds, NewPointer
    <2>4. Chained'
      BY <1>7, NewPointerType, PromptStoreAssumption DEF WritePointer, TypeOK,
         Sequential, Knows, Owning, Activating, RollingBack, At, Loads, Kept,
         IdOf, HistoryInv, Builds, NewPointer, Chained
    <2>5. QED
      BY <2>1, <2>2, <2>3, <2>4, Parts
  <1>8. ASSUME NEW p \in Procs, Archive(p)
        PROVE  Sequential'
    <2>1. /\ Alone'
          /\ \A q \in Procs \ {p} : pc'[q] = "idle"
      BY <1>8, Others DEF Archive, Sequential, At
    <2>2. Knows(p)'
      BY <1>8 DEF Archive, TypeOK, Sequential, Knows, Owning, Activating,
         RollingBack, At, Goto, store, locals, history, Loads, Kept, IdOf
    <2>3. Loads(pointer)' /\ Chained'
      BY <1>8, FilesKept DEF Archive, store, locals, history
    <2>5. QED
      BY <2>1, <2>2, <2>3, Parts
  <1>9. ASSUME NEW p \in Procs, ActivationFails(p)
        PROVE  Sequential'
    <2>1. /\ Alone'
          /\ \A q \in Procs \ {p} : pc'[q] = "idle"
      BY <1>9, Others DEF ActivationFails, Sequential, At
    <2>2. Knows(p)'
      BY <1>9 DEF ActivationFails, TypeOK, Sequential, Knows, Owning,
         Activating, RollingBack, At, Goto, store, locals, history, Loads, Kept,
         IdOf
    <2>3. Loads(pointer)' /\ Chained'
      BY <1>9, FilesKept DEF ActivationFails, store, locals, history
    <2>5. QED
      BY <2>1, <2>2, <2>3, Parts
  <1>10. ASSUME NEW p \in Procs, RestorePointer(p)
        PROVE  Sequential'
    <2>1. /\ Alone'
          /\ \A q \in Procs \ {p} : pc'[q] = "idle"
      BY <1>10, Others DEF RestorePointer, Sequential, At
    <2>2. Knows(p)'
      BY <1>10 DEF RestorePointer, TypeOK, Sequential, Knows, Owning,
         Activating, RollingBack, At, Goto, store, locals, history, Loads, Kept,
         IdOf
    <2>3. Loads(pointer)'
      BY <1>10 DEF RestorePointer, TypeOK, Sequential, Knows, Owning,
         Activating, RollingBack, At, Loads, Kept, IdOf
    <2>4. Chained'
      BY <1>10 DEF RestorePointer, TypeOK, Sequential, Knows, Owning,
         Activating, RollingBack, At, Loads, Kept, IdOf, Chained
    <2>5. QED
      BY <2>1, <2>2, <2>3, <2>4, Parts
  <1>11. ASSUME NEW p \in Procs, RemoveHistory(p)
        PROVE  Sequential'
    <2>1. /\ Alone'
          /\ \A q \in Procs \ {p} : pc'[q] = "idle"
      BY <1>11, Others DEF RemoveHistory, Sequential, At, Return
    <2>2. Knows(p)'
      BY <1>11 DEF RemoveHistory, TypeOK, Return, Goto, Knows, Owning,
         Activating, RollingBack
    <2>3. Loads(pointer)'
      BY <1>11 DEF RemoveHistory, TypeOK, Sequential, Knows, Owning, Activating,
         RollingBack, At, Loads, Kept, IdOf
    <2>a. \A b \in Ids : Kept(b)' => Kept(b) /\ metadata'[b] = metadata[b]
      BY <1>11, PromptStoreAssumption DEF RemoveHistory, TypeOK, Kept, Pointers
    <2>b. \A b \in Ids : b # mine[p] /\ Kept(b) => Kept(b)'
      BY <1>11, PromptStoreAssumption DEF RemoveHistory, TypeOK, Kept, Pointers
    <2>c. \A b \in Ids : Kept(b) => metadata[b].previous # mine[p]
      BY <1>11 DEF RemoveHistory, At, Sequential, Knows, Owning, Activating
    <2>d. \A b \in Ids : Kept(b) => metadata[b].previous \in Ids \cup {None}
      BY DEF TypeOK, Kept, Pointers
    <2>4. Chained'
      BY <2>a, <2>b, <2>c, <2>d DEF Sequential, Chained
    <2>5. QED
      BY <2>1, <2>2, <2>3, <2>4, Parts
  <1>12. ASSUME NEW p \in Procs, BeginRollback(p)
        PROVE  Sequential'
    <2>1. /\ Alone'
          /\ \A q \in Procs \ {p} : pc'[q] = "idle"
      BY <1>12, Others DEF BeginRollback, Sequential, At, MayStart
    <2>2. Knows(p)'
      BY <1>12 DEF BeginRollback, TypeOK, Sequential, Knows, Owning, Activating,
         RollingBack, At, Goto, store, locals, history, Loads, Kept, IdOf,
         MayStart
    <2>3. Loads(pointer)' /\ Chained'
      BY <1>12, FilesKept DEF BeginRollback, store, locals, history
    <2>5. QED
      BY <2>1, <2>2, <2>3, Parts
  <1>13. ASSUME NEW p \in Procs, FindTarget(p)
        PROVE  Sequential'
    <2>1. /\ Alone'
          /\ \A q \in Procs \ {p} : pc'[q] = "idle"
      BY <1>13, Others DEF FindTarget, Sequential, At
    <2>2. Knows(p)'
      BY <1>13 DEF FindTarget, TypeOK, Sequential, Knows, Owning, Activating,
         RollingBack, At, Goto, store, locals, history, Loads, Kept, IdOf,
         Restorable, Valid, Chained, HistoryInv, Fresh, Pointers
    <2>3. Loads(pointer)' /\ Chained'
      BY <1>13, FilesKept DEF FindTarget, store, locals, history
    <2>5. QED
      BY <2>1, <2>2, <2>3, Parts
  <1>14. ASSUME NEW p \in Procs, RollbackRefused(p)
        PROVE  Sequential'
    <2>1. /\ Alone'
          /\ \A q \in Procs \ {p} : pc'[q] = "idle"
      BY <1>14, Others DEF RollbackRefused, Sequential, At, Return
    <2>2. Knows(p)'
      BY <1>14 DEF RollbackRefused, TypeOK, Return, Goto, Knows, Owning,
         Activating, RollingBack
    <2>3. Loads(pointer)' /\ Chained'
      BY <1>14, FilesKept DEF RollbackRefused, store, locals, history
    <2>5. QED
      BY <2>1, <2>2, <2>3, Parts
  <1>15. ASSUME NEW p \in Procs, MovePointer(p)
        PROVE  Sequential'
    <2>1. /\ Alone'
          /\ \A q \in Procs \ {p} : pc'[q] = "idle"
      BY <1>15, Others DEF MovePointer, Sequential, At
    <2>2. Knows(p)'
      BY <1>15 DEF MovePointer, TypeOK, Sequential, Knows, Owning, Activating,
         RollingBack, At, Goto, store, locals, history, Loads, Kept, IdOf
    <2>3. Loads(pointer)'
      BY <1>15 DEF MovePointer, TypeOK, Sequential, Knows, Owning, Activating,
         RollingBack, At, Loads, Kept, IdOf
    <2>4. Chained'
      BY <1>15 DEF MovePointer, TypeOK, Sequential, Knows, Owning, Activating,
         RollingBack, At, Loads, Kept, IdOf, Chained
    <2>5. QED
      BY <2>1, <2>2, <2>3, <2>4, Parts
  <1>16. ASSUME NEW p \in Procs, LogRollback(p)
        PROVE  Sequential'
    <2>1. /\ Alone'
          /\ \A q \in Procs \ {p} : pc'[q] = "idle"
      BY <1>16, Others DEF LogRollback, Sequential, At, Return
    <2>2. Knows(p)'
      BY <1>16 DEF LogRollback, TypeOK, Return, Goto, Knows, Owning, Activating,
         RollingBack
    <2>3. Loads(pointer)' /\ Chained'
      BY <1>16, FilesKept DEF LogRollback, store, locals, history
    <2>5. QED
      BY <2>1, <2>2, <2>3, Parts
  <1>17. ASSUME NEW p \in Procs, RollbackFails(p)
        PROVE  Sequential'
    <2>1. /\ Alone'
          /\ \A q \in Procs \ {p} : pc'[q] = "idle"
      BY <1>17, Others DEF RollbackFails, Sequential, At
    <2>2. Knows(p)'
      BY <1>17 DEF RollbackFails, TypeOK, Sequential, Knows, Owning, Activating,
         RollingBack, At, Goto, store, locals, history, Loads, Kept, IdOf
    <2>3. Loads(pointer)' /\ Chained'
      BY <1>17, FilesKept DEF RollbackFails, store, locals, history
    <2>5. QED
      BY <2>1, <2>2, <2>3, Parts
  <1>18. ASSUME NEW p \in Procs, Reinstate(p)
        PROVE  Sequential'
    <2>1. /\ Alone'
          /\ \A q \in Procs \ {p} : pc'[q] = "idle"
      BY <1>18, Others DEF Reinstate, Sequential, At, Return
    <2>2. Knows(p)'
      BY <1>18 DEF Reinstate, TypeOK, Return, Goto, Knows, Owning, Activating,
         RollingBack
    <2>3. Loads(pointer)'
      BY <1>18 DEF Reinstate, TypeOK, Sequential, Knows, Owning, Activating,
         RollingBack, At, Loads, Kept, IdOf
    <2>4. Chained'
      BY <1>18 DEF Reinstate, TypeOK, Sequential, Knows, Owning, Activating,
         RollingBack, At, Loads, Kept, IdOf, Chained
    <2>5. QED
      BY <2>1, <2>2, <2>3, <2>4, Parts
  <1>19. ASSUME NEW p \in Procs, RestoreFails(p)
        PROVE  Sequential'
    <2>1. /\ Alone'
          /\ \A q \in Procs \ {p} : pc'[q] = "idle"
      BY <1>19, Others DEF RestoreFails, Sequential, At, Return
    <2>2. Knows(p)'
      BY <1>19 DEF RestoreFails, TypeOK, Return, Goto, Knows, Owning,
         Activating, RollingBack
    <2>3. Loads(pointer)' /\ Chained'
      BY <1>19, FilesKept DEF RestoreFails, store, locals, history
    <2>5. QED
      BY <2>1, <2>2, <2>3, Parts
  <1>20. ASSUME NEW p \in Procs, Crash(p)
        PROVE  Sequential'
    <2>1. /\ Alone'
          /\ \A q \in Procs \ {p} : pc'[q] = "idle"
      BY <1>20, Others DEF Crash, Sequential, At, Return
    <2>2. Knows(p)'
      BY <1>20 DEF Crash, TypeOK, Return, Goto, Knows, Owning, Activating,
         RollingBack
    <2>3. Loads(pointer)' /\ Chained'
      BY <1>20, FilesKept DEF Crash, store, locals, history
    <2>5. QED
      BY <2>1, <2>2, <2>3, Parts
  <1>21. CASE UNCHANGED vars
    BY <1>21 DEF vars, store, locals, history, Sequential, Alone, Loads,
       Chained, Kept, IdOf, Knows, Owning, Activating, RollingBack
  <1>22. QED
    BY <1>1, <1>2, <1>3, <1>4, <1>5, <1>6, <1>7, <1>8, <1>9, <1>10, <1>11,
       <1>12, <1>13, <1>14, <1>15, <1>16, <1>17, <1>18, <1>19, <1>20, <1>21 DEF
       Next

\* While operators take turns, whatever fails or is cut off, the active prompt can
\* be loaded and each activation below it restored.
THEOREM ChainStands == Spec => []ChainResolves
  <1>1. Init => TypeOK /\ HistoryInv /\ TurnsInv
    BY InitType, InitHistory, InitTurns
  <1>2. TypeOK /\ HistoryInv /\ TurnsInv /\ [Next]_vars =>
            (TypeOK /\ HistoryInv /\ TurnsInv)'
    BY NextType, NextHistory, NextTurns
  <1>3. TurnsInv => ChainResolves
    BY DEF TurnsInv, Sequential, Loads, Chained, ChainResolves
  <1>4. QED
    BY <1>1, <1>2, <1>3, PTL DEF Spec

-----------------------------------------------------------------------------
(***************************************************************************)
(* The store implements PromptStack while operators take turns.             *)
(***************************************************************************)

LEMMA InitStack == Init => StackInv
  BY DEF Init, StackInv, Stacked, Placed, Matching, Moves, Kept, Owning,
     Activating, RollingBack

LEMMA StackParts ==
    ASSUME Placed(pointer)', (DOMAIN replaced \subseteq drawn)', Matching',
           NEW p \in Procs, Moves(p)', \A q \in Procs \ {p} : pc'[q] = "idle"
    PROVE  Stacked'
  BY DEF Stacked, Moves, Owning, Activating, RollingBack

\* A step that leaves the files and the history variable alone.
LEMMA StackKept ==
    ASSUME Stacked, UNCHANGED <<pointer, program, metadata, replaced>>,
           drawn \subseteq drawn'
    PROVE  Placed(pointer)' /\ (DOMAIN replaced \subseteq drawn)' /\ Matching'
  BY DEF Stacked, Placed, Matching, Kept

LEMMA NextStack ==
    TypeOK /\ HistoryInv /\ TurnsInv /\ StackInv /\ [Next]_vars => StackInv'
  <1> SUFFICES ASSUME TypeOK, HistoryInv, Sequential, Stacked, turns, [Next]_vars
               PROVE  Stacked'
    BY TurnsFixed DEF StackInv, TurnsInv
  <1>1. ASSUME NEW p \in Procs, NEW e \in Evaluations, BeginActivation(p, e)
        PROVE  Stacked'
    <2>1. \A q \in Procs \ {p} : pc'[q] = "idle"
      BY <1>1, Others DEF BeginActivation, Sequential, At, MayStart
    <2>2. Moves(p)'
      BY <1>1 DEF BeginActivation, TypeOK, Stacked, Moves, Owning, Activating,
         RollingBack, At, Goto, store, locals, history, Placed, IdOf, MayStart
    <2>3. Placed(pointer)' /\ (DOMAIN replaced \subseteq drawn)' /\ Matching'
      BY <1>1, StackKept DEF BeginActivation, store, locals, history
    <2>5. QED
      BY <2>1, <2>2, <2>3, StackParts
  <1>2. ASSUME NEW p \in Procs, NEW e \in Evaluations, RepeatActivation(p, e)
        PROVE  Stacked'
    <2>1. \A q \in Procs \ {p} : pc'[q] = "idle"
      BY <1>2, Others DEF RepeatActivation, Sequential, At, MayStart
    <2>2. Moves(p)'
      BY <1>2 DEF RepeatActivation, TypeOK, Stacked, Moves, Owning, Activating,
         RollingBack, At, Goto, store, locals, history, Placed, IdOf, MayStart
    <2>3. Placed(pointer)' /\ (DOMAIN replaced \subseteq drawn)' /\ Matching'
      BY <1>2, StackKept DEF RepeatActivation, store, locals, history
    <2>5. QED
      BY <2>1, <2>2, <2>3, StackParts
  <1>3. ASSUME NEW p \in Procs, Report(p)
        PROVE  Stacked'
    <2>1. \A q \in Procs \ {p} : pc'[q] = "idle"
      BY <1>3, Others DEF Report, Sequential, At, Return
    <2>2. Moves(p)'
      BY <1>3 DEF Report, TypeOK, Return, Goto, Moves, Owning, Activating,
         RollingBack
    <2>3. Placed(pointer)' /\ (DOMAIN replaced \subseteq drawn)' /\ Matching'
      BY <1>3, StackKept DEF Report, store, locals, history
    <2>5. QED
      BY <2>1, <2>2, <2>3, StackParts
  <1>4. ASSUME NEW p \in Procs, NEW a \in Ids, Capture(p, a)
        PROVE  Stacked'
    <2>1. \A q \in Procs \ {p} : pc'[q] = "idle"
      BY <1>4, Others DEF Capture, Sequential, At
    <2>2. Moves(p)'
      BY <1>4, NewPointerType, PromptStoreAssumption DEF Capture, TypeOK,
         Stacked, Moves, Owning, Activating, RollingBack, At, Goto, store,
         locals, history, Placed, IdOf
    <2>3. Placed(pointer)' /\ (DOMAIN replaced \subseteq drawn)' /\ Matching'
      BY <1>4, StackKept DEF Capture, store, locals, history
    <2>5. QED
      BY <2>1, <2>2, <2>3, StackParts
  <1>5. ASSUME NEW p \in Procs, WriteProgram(p)
        PROVE  Stacked'
    <2>1. \A q \in Procs \ {p} : pc'[q] = "idle"
      BY <1>5, Others DEF WriteProgram, Sequential, At
    <2>2. Moves(p)'
      BY <1>5, NewPointerType, PromptStoreAssumption DEF WriteProgram, TypeOK,
         Stacked, Moves, Owning, Activating, RollingBack, At, Goto, store,
         locals, history, Placed, IdOf
    <2>3. Placed(pointer)' /\ (DOMAIN replaced \subseteq drawn)'
      BY <1>5, NewPointerType, PromptStoreAssumption DEF WriteProgram, TypeOK,
         Stacked, Moves, Owning, Activating, RollingBack, At, Placed, Kept,
         IdOf, locals, history, Sequential, Knows, Loads, Matching, Pointers,
         HistoryInv, Builds, NewPointer
    <2>4. Matching'
      BY <1>5, NewPointerType, PromptStoreAssumption DEF WriteProgram, TypeOK,
         Stacked, Moves, Owning, Activating, RollingBack, At, Placed, Kept,
         IdOf, locals, history, Sequential, Knows, Loads, Matching, Pointers,
         HistoryInv, Builds, NewPointer, Matching
    <2>5. QED
      BY <2>1, <2>2, <2>3, <2>4, StackParts
  <1>6. ASSUME NEW p \in Procs, WriteMetadata(p)
        PROVE  Stacked'
    <2>1. \A q \in Procs \ {p} : pc'[q] = "idle"
      BY <1>6, Others DEF WriteMetadata, Sequential, At
    <2>2. Moves(p)'
      BY <1>6, NewPointerType, PromptStoreAssumption DEF WriteMetadata, TypeOK,
         Stacked, Moves, Owning, Activating, RollingBack, At, Goto, store,
         locals, history, Placed, IdOf
    <2>3. Placed(pointer)' /\ (DOMAIN replaced \subseteq drawn)'
      BY <1>6, NewPointerType, PromptStoreAssumption DEF WriteMetadata, TypeOK,
         Stacked, Moves, Owning, Activating, RollingBack, At, Placed, Kept,
         IdOf, locals, history, HistoryInv, Builds, NewPointer
    <2>4. Matching'
      BY <1>6, NewPointerType, PromptStoreAssumption DEF WriteMetadata, TypeOK,
         Stacked, Moves, Owning, Activating, RollingBack, At, Placed, Kept,
         IdOf, locals, history, HistoryInv, Builds, NewPointer, Matching
    <2>5. QED
      BY <2>1, <2>2, <2>3, <2>4, StackParts
  <1>7. ASSUME NEW p \in Procs, WritePointer(p)
        PROVE  Stacked'
    <2>1. \A q \in Procs \ {p} : pc'[q] = "idle"
      BY <1>7, Others DEF WritePointer, Sequential, At
    <2>2. Moves(p)'
      BY <1>7, NewPointerType, PromptStoreAssumption DEF WritePointer, TypeOK,
         Stacked, Moves, Owning, Activating, RollingBack, At, Goto, store,
         locals, history, Placed, IdOf
    <2>3. Placed(pointer)' /\ (DOMAIN replaced \subseteq drawn)'
      BY <1>7, NewPointerType, PromptStoreAssumption DEF WritePointer, TypeOK,
         Stacked, Moves, Owning, Activating, RollingBack, At, Placed, Kept,
         IdOf, locals, history, HistoryInv, Builds, NewPointer
    <2>4. Matching'
      BY <1>7, NewPointerType, PromptStoreAssumption DEF WritePointer, TypeOK,
         Stacked, Moves, Owning, Activating, RollingBack, At, Placed, Kept,
         IdOf, locals, history, HistoryInv, Builds, NewPointer, Matching
    <2>5. QED
      BY <2>1, <2>2, <2>3, <2>4, StackParts
  <1>8. ASSUME NEW p \in Procs, Archive(p)
        PROVE  Stacked'
    <2>1. \A q \in Procs \ {p} : pc'[q] = "idle"
      BY <1>8, Others DEF Archive, Sequential, At
    <2>2. Moves(p)'
      BY <1>8 DEF Archive, TypeOK, Stacked, Moves, Owning, Activating,
         RollingBack, At, Goto, store, locals, history, Placed, IdOf
    <2>3. Placed(pointer)' /\ (DOMAIN replaced \subseteq drawn)' /\ Matching'
      BY <1>8, StackKept DEF Archive, store, locals, history
    <2>5. QED
      BY <2>1, <2>2, <2>3, StackParts
  <1>9. ASSUME NEW p \in Procs, ActivationFails(p)
        PROVE  Stacked'
    <2>1. \A q \in Procs \ {p} : pc'[q] = "idle"
      BY <1>9, Others DEF ActivationFails, Sequential, At
    <2>2. Moves(p)'
      BY <1>9 DEF ActivationFails, TypeOK, Stacked, Moves, Owning, Activating,
         RollingBack, At, Goto, store, locals, history, Placed, IdOf
    <2>3. Placed(pointer)' /\ (DOMAIN replaced \subseteq drawn)' /\ Matching'
      BY <1>9, StackKept DEF ActivationFails, store, locals, history
    <2>5. QED
      BY <2>1, <2>2, <2>3, StackParts
  <1>10. ASSUME NEW p \in Procs, RestorePointer(p)
        PROVE  Stacked'
    <2>1. \A q \in Procs \ {p} : pc'[q] = "idle"
      BY <1>10, Others DEF RestorePointer, Sequential, At
    <2>2. Moves(p)'
      BY <1>10 DEF RestorePointer, TypeOK, Stacked, Moves, Owning, Activating,
         RollingBack, At, Goto, store, locals, history, Placed, IdOf
    <2>3. Placed(pointer)' /\ (DOMAIN replaced \subseteq drawn)'
      BY <1>10 DEF RestorePointer, TypeOK, Stacked, Moves, Owning, Activating,
         RollingBack, At, Placed, Kept, IdOf, locals, history
    <2>4. Matching'
      BY <1>10 DEF RestorePointer, TypeOK, Stacked, Moves, Owning, Activating,
         RollingBack, At, Placed, Kept, IdOf, locals, history, Matching
    <2>5. QED
      BY <2>1, <2>2, <2>3, <2>4, StackParts
  <1>11. ASSUME NEW p \in Procs, RemoveHistory(p)
        PROVE  Stacked'
    <2>1. \A q \in Procs \ {p} : pc'[q] = "idle"
      BY <1>11, Others DEF RemoveHistory, Sequential, At, Return
    <2>2. Moves(p)'
      BY <1>11 DEF RemoveHistory, TypeOK, Return, Goto, Moves, Owning,
         Activating, RollingBack
    <2>3. Placed(pointer)' /\ (DOMAIN replaced \subseteq drawn)'
      BY <1>11 DEF RemoveHistory, TypeOK, Stacked, Moves, Owning, Activating,
         RollingBack, At, Placed, Kept, IdOf, locals, history
    <2>a. \A b \in Ids : Kept(b)' => Kept(b) /\ metadata'[b] = metadata[b]
      BY <1>11, PromptStoreAssumption DEF RemoveHistory, TypeOK, Kept, Pointers
    <2>4. Matching'
      BY <1>11, <2>a DEF RemoveHistory, TypeOK, Stacked, Matching, history
    <2>5. QED
      BY <2>1, <2>2, <2>3, <2>4, StackParts
  <1>12. ASSUME NEW p \in Procs, BeginRollback(p)
        PROVE  Stacked'
    <2>1. \A q \in Procs \ {p} : pc'[q] = "idle"
      BY <1>12, Others DEF BeginRollback, Sequential, At, MayStart
    <2>2. Moves(p)'
      BY <1>12 DEF BeginRollback, TypeOK, Stacked, Moves, Owning, Activating,
         RollingBack, At, Goto, store, locals, history, Placed, IdOf, MayStart
    <2>3. Placed(pointer)' /\ (DOMAIN replaced \subseteq drawn)' /\ Matching'
      BY <1>12, StackKept DEF BeginRollback, store, locals, history
    <2>5. QED
      BY <2>1, <2>2, <2>3, StackParts
  <1>13. ASSUME NEW p \in Procs, FindTarget(p)
        PROVE  Stacked'
    <2>1. \A q \in Procs \ {p} : pc'[q] = "idle"
      BY <1>13, Others DEF FindTarget, Sequential, At
    <2>2. Moves(p)'
      BY <1>13 DEF FindTarget, TypeOK, Stacked, Moves, Owning, Activating,
         RollingBack, At, Goto, store, locals, history, Placed, IdOf,
         HistoryInv, Fresh, Pointers, Restorable
    <2>3. Placed(pointer)' /\ (DOMAIN replaced \subseteq drawn)' /\ Matching'
      BY <1>13, StackKept DEF FindTarget, store, locals, history
    <2>5. QED
      BY <2>1, <2>2, <2>3, StackParts
  <1>14. ASSUME NEW p \in Procs, RollbackRefused(p)
        PROVE  Stacked'
    <2>1. \A q \in Procs \ {p} : pc'[q] = "idle"
      BY <1>14, Others DEF RollbackRefused, Sequential, At, Return
    <2>2. Moves(p)'
      BY <1>14 DEF RollbackRefused, TypeOK, Return, Goto, Moves, Owning,
         Activating, RollingBack
    <2>3. Placed(pointer)' /\ (DOMAIN replaced \subseteq drawn)' /\ Matching'
      BY <1>14, StackKept DEF RollbackRefused, store, locals, history
    <2>5. QED
      BY <2>1, <2>2, <2>3, StackParts
  <1>15. ASSUME NEW p \in Procs, MovePointer(p)
        PROVE  Stacked'
    <2>1. \A q \in Procs \ {p} : pc'[q] = "idle"
      BY <1>15, Others DEF MovePointer, Sequential, At
    <2>2. Moves(p)'
      BY <1>15 DEF MovePointer, TypeOK, Stacked, Moves, Owning, Activating,
         RollingBack, At, Goto, store, locals, history, Placed, IdOf
    <2>a. saved[p] # None /\ Loads(saved[p]) /\ IdOf(target[p]) = saved[p].previous
      BY <1>15 DEF MovePointer, At, TypeOK, Stacked, Moves, Sequential, Knows,
         RollingBack
    <2>b. ASSUME target[p] # None
          PROVE  target[p].id \in DOMAIN replaced
      <3>1. target[p].id = saved[p].previous /\ target[p].id # None /\ saved[p].id \in Ids
        BY <2>a, <2>b, PromptStoreAssumption DEF IdOf, TypeOK, Pointers
      <3>2. Kept(saved[p].id) /\ metadata[saved[p].id] = saved[p]
        BY <2>a DEF Loads
      <3>3. QED
        BY <3>1, <3>2 DEF Stacked, Matching
    <2>3. Placed(pointer)' /\ (DOMAIN replaced \subseteq drawn)'
      BY <1>15, <2>b DEF MovePointer, Placed, Stacked, history
    <2>4. Matching'
      BY <1>15 DEF MovePointer, TypeOK, Stacked, Moves, Owning, Activating,
         RollingBack, At, Placed, Kept, IdOf, locals, history, Matching
    <2>5. QED
      BY <2>1, <2>2, <2>3, <2>4, StackParts
  <1>16. ASSUME NEW p \in Procs, LogRollback(p)
        PROVE  Stacked'
    <2>1. \A q \in Procs \ {p} : pc'[q] = "idle"
      BY <1>16, Others DEF LogRollback, Sequential, At, Return
    <2>2. Moves(p)'
      BY <1>16 DEF LogRollback, TypeOK, Return, Goto, Moves, Owning, Activating,
         RollingBack
    <2>3. Placed(pointer)' /\ (DOMAIN replaced \subseteq drawn)' /\ Matching'
      BY <1>16, StackKept DEF LogRollback, store, locals, history
    <2>5. QED
      BY <2>1, <2>2, <2>3, StackParts
  <1>17. ASSUME NEW p \in Procs, RollbackFails(p)
        PROVE  Stacked'
    <2>1. \A q \in Procs \ {p} : pc'[q] = "idle"
      BY <1>17, Others DEF RollbackFails, Sequential, At
    <2>2. Moves(p)'
      BY <1>17 DEF RollbackFails, TypeOK, Stacked, Moves, Owning, Activating,
         RollingBack, At, Goto, store, locals, history, Placed, IdOf
    <2>3. Placed(pointer)' /\ (DOMAIN replaced \subseteq drawn)' /\ Matching'
      BY <1>17, StackKept DEF RollbackFails, store, locals, history
    <2>5. QED
      BY <2>1, <2>2, <2>3, StackParts
  <1>18. ASSUME NEW p \in Procs, Reinstate(p)
        PROVE  Stacked'
    <2>1. \A q \in Procs \ {p} : pc'[q] = "idle"
      BY <1>18, Others DEF Reinstate, Sequential, At, Return
    <2>2. Moves(p)'
      BY <1>18 DEF Reinstate, TypeOK, Return, Goto, Moves, Owning, Activating,
         RollingBack
    <2>3. Placed(pointer)' /\ (DOMAIN replaced \subseteq drawn)'
      BY <1>18 DEF Reinstate, TypeOK, Stacked, Moves, Owning, Activating,
         RollingBack, At, Placed, Kept, IdOf, locals, history
    <2>4. Matching'
      BY <1>18 DEF Reinstate, TypeOK, Stacked, Moves, Owning, Activating,
         RollingBack, At, Placed, Kept, IdOf, locals, history, Matching
    <2>5. QED
      BY <2>1, <2>2, <2>3, <2>4, StackParts
  <1>19. ASSUME NEW p \in Procs, RestoreFails(p)
        PROVE  Stacked'
    <2>1. \A q \in Procs \ {p} : pc'[q] = "idle"
      BY <1>19, Others DEF RestoreFails, Sequential, At, Return
    <2>2. Moves(p)'
      BY <1>19 DEF RestoreFails, TypeOK, Return, Goto, Moves, Owning,
         Activating, RollingBack
    <2>3. Placed(pointer)' /\ (DOMAIN replaced \subseteq drawn)' /\ Matching'
      BY <1>19, StackKept DEF RestoreFails, store, locals, history
    <2>5. QED
      BY <2>1, <2>2, <2>3, StackParts
  <1>20. ASSUME NEW p \in Procs, Crash(p)
        PROVE  Stacked'
    <2>1. \A q \in Procs \ {p} : pc'[q] = "idle"
      BY <1>20, Others DEF Crash, Sequential, At, Return
    <2>2. Moves(p)'
      BY <1>20 DEF Crash, TypeOK, Return, Goto, Moves, Owning, Activating,
         RollingBack
    <2>3. Placed(pointer)' /\ (DOMAIN replaced \subseteq drawn)' /\ Matching'
      BY <1>20, StackKept DEF Crash, store, locals, history
    <2>5. QED
      BY <2>1, <2>2, <2>3, StackParts
  <1>21. CASE UNCHANGED vars
    BY <1>21 DEF vars, store, locals, history, Stacked, Placed, Matching, Kept,
       IdOf, Moves, NewPointer
  <1>22. QED
    BY <1>1, <1>2, <1>3, <1>4, <1>5, <1>6, <1>7, <1>8, <1>9, <1>10, <1>11,
       <1>12, <1>13, <1>14, <1>15, <1>16, <1>17, <1>18, <1>19, <1>20, <1>21 DEF
       Next

\* A step of a command is a step of the stack or leaves it as it is.
LEMMA StepsOfStack ==
    TypeOK /\ HistoryInv /\ TurnsInv /\ StackInv /\ [Next]_vars =>
        [turns => Stack!Next]_(Stack!vars)
  <1> SUFFICES ASSUME TypeOK, HistoryInv, Sequential, Stacked, turns, [Next]_vars
               PROVE  Stack!Next \/ UNCHANGED <<IdOf(pointer), replaced>>
    BY DEF StackInv, TurnsInv, Stack!vars
  <1>1. ASSUME NEW p \in Procs, WritePointer(p)
        PROVE  Stack!Activate(mine[p])
    <2>1. mine[p] \in Ids /\ mine[p] \notin DOMAIN replaced
      BY <1>1 DEF WritePointer, At, TypeOK, Activating, Stacked, Moves
    <2>2. IdOf(pointer') = mine[p]
      BY <1>1, NewPointerType, PromptStoreAssumption
      DEF WritePointer, At, IdOf, Owning, Activating
    <2>3. QED
      BY <1>1, <2>1, <2>2 DEF WritePointer, Stack!Activate, Stack!Made
  <1>2. ASSUME NEW p \in Procs, RestorePointer(p)
        PROVE  Stack!TakeAway \/ UNCHANGED <<IdOf(pointer), replaced>>
    <2>1. pointer' = saved[p] /\ replaced' = replaced
      BY <1>2 DEF RestorePointer, history
    <2>2. \/ pointer = saved[p]
          \/ IdOf(pointer) \in DOMAIN replaced /\ replaced[IdOf(pointer)] = IdOf(saved[p])
      BY <1>2 DEF RestorePointer, At, Stacked, Moves
    <2>3. QED
      BY <2>1, <2>2 DEF Stack!TakeAway, Stack!Made, IdOf
  <1>3. ASSUME NEW p \in Procs, MovePointer(p)
        PROVE  Stack!TakeAway
    <2>1. /\ pointer' = target[p] /\ replaced' = replaced
          /\ pointer = saved[p] /\ saved[p] # None
          /\ IdOf(target[p]) = saved[p].previous
      BY <1>3 DEF MovePointer, At, history, TypeOK, Stacked, Moves, RollingBack
    <2>2. pointer.id \in DOMAIN replaced /\ replaced[pointer.id] = pointer.previous
      BY <2>1 DEF Sequential, Loads, Stacked, Placed, Matching
    <2>3. QED
      BY <2>1, <2>2 DEF Stack!TakeAway, Stack!Made, IdOf
  <1>4. ASSUME NEW p \in Procs, Reinstate(p)
        PROVE  (\E a \in Ids : Stack!PutBack(a)) \/ UNCHANGED <<IdOf(pointer), replaced>>
    <2>1. /\ pointer' = saved[p] /\ replaced' = replaced
          /\ saved[p] # None /\ Loads(saved[p]) /\ Placed(saved[p])
          /\ IdOf(target[p]) = saved[p].previous
          /\ pointer \in {saved[p], target[p]}
      BY <1>4 DEF Reinstate, At, history, TypeOK, Stacked, Moves, Sequential,
         Knows, RollingBack
    <2>2. /\ saved[p].id \in Ids /\ saved[p].id \in DOMAIN replaced
          /\ replaced[saved[p].id] = saved[p].previous
      BY <2>1 DEF Loads, Placed, Stacked, Matching, TypeOK, Pointers
    <2>3. CASE pointer = target[p]
      <3>1. Stack!PutBack(saved[p].id)
        BY <2>1, <2>2, <2>3 DEF Stack!PutBack, Stack!Made, IdOf
      <3>2. QED
        BY <2>2, <3>1
    <2>4. QED
      BY <2>1, <2>3
  <1>5. ASSUME NEW p \in Procs,
               \/ \E e \in Evaluations : BeginActivation(p, e) \/ RepeatActivation(p, e)
               \/ \E a \in Ids : Capture(p, a)
               \/ Report(p) \/ WriteProgram(p) \/ WriteMetadata(p) \/ Archive(p)
               \/ ActivationFails(p) \/ RemoveHistory(p)
               \/ BeginRollback(p) \/ FindTarget(p) \/ RollbackRefused(p)
               \/ LogRollback(p) \/ RollbackFails(p) \/ RestoreFails(p) \/ Crash(p)
        PROVE  UNCHANGED <<pointer, replaced>>
    BY <1>5 DEF BeginActivation, RepeatActivation, Capture, Report,
       WriteProgram,
       WriteMetadata, Archive, ActivationFails, RemoveHistory, BeginRollback,
       FindTarget, RollbackRefused, LogRollback, RollbackFails, RestoreFails, Crash,
       store, history
  <1>6. UNCHANGED <<pointer, replaced>> => UNCHANGED <<IdOf(pointer), replaced>>
    BY DEF IdOf
  <1>7. CASE UNCHANGED vars
    BY <1>6, <1>7 DEF vars, store, history
  <1>8. QED
    BY <1>1, <1>2, <1>3, <1>4, <1>5, <1>6, <1>7 DEF Next, Stack!Next,
       WritePointer, TypeOK, Activating, At

\* While operators take turns the store is a stack of activations.
THEOREM Refinement == Spec => ImplementsStack
  <1> DEFINE Inv == TypeOK /\ HistoryInv /\ TurnsInv /\ StackInv
  <1>1. Init => Inv /\ Stack!Init
    BY InitType, InitHistory, InitTurns, InitStack DEF Init, Stack!Init, IdOf
  <1>2. Inv /\ [Next]_vars => Inv'
    BY NextType, NextHistory, NextTurns, NextStack
  <1>3. Inv /\ [Next]_vars => [turns => Stack!Next]_(Stack!vars)
    BY StepsOfStack
  <1>4. QED
    BY <1>1, <1>2, <1>3, PTL DEF Spec, ImplementsStack

-----------------------------------------------------------------------------
(***************************************************************************)
(* The newest evidence row and the active prompt.                           *)
(***************************************************************************)

\* What the newest row names, unless a command was cut off: the pointer, or what a
\* command that has moved the pointer will put back if it cannot record the move.
Newest(p) ==
    /\ ~torn => latest = IdOf(IF pc[p] \in Unrecorded THEN saved[p] ELSE pointer)
    /\ pc[p] = "evidence" => IdOf(pointer) = mine[p]

Recorded ==
    /\ ~torn /\ (\A p \in Procs : pc[p] \notin Unrecorded) => latest = IdOf(pointer)
    /\ \A p \in Procs : pc[p] \in Unrecorded => Newest(p)

RecordInv == turns => Recorded

LEMMA InitRecord == Init => RecordInv
  BY DEF Init, RecordInv, Recorded, Newest, IdOf, Unrecorded

\* While the others are idle, the invariant is what one command knows.
LEMMA RecordParts ==
    ASSUME NEW p \in Procs, \A q \in Procs \ {p} : pc[q] = "idle"
    PROVE  Recorded <=> Newest(p)
  BY DEF Recorded, Newest, Unrecorded

LEMMA NextRecord ==
    TypeOK /\ TurnsInv /\ StackInv /\ RecordInv /\ [Next]_vars => RecordInv'
  <1> SUFFICES ASSUME TypeOK, Sequential, Stacked, Recorded, turns, [Next]_vars
               PROVE  Recorded'
    BY TurnsFixed DEF RecordInv, TurnsInv, StackInv
  <1>1. CASE UNCHANGED vars
    <2>1. UNCHANGED <<torn, latest, pointer, pc, saved, mine>>
      BY <1>1 DEF vars, store, locals, history
    <2>2. QED
      BY <2>1 DEF Recorded, Newest, IdOf
  <1>2. ASSUME NEW p \in Procs, pc[p] # "idle" \/ MayStart(p), NEW l, Goto(p, l),
               Newest(p) => Newest(p)'
        PROVE  Recorded'
    <2>1. \A q \in Procs \ {p} : pc[q] = "idle" /\ pc'[q] = "idle"
      BY <1>2, Others DEF Sequential, Alone, MayStart, At
    <2>2. Newest(p)
      BY <2>1, RecordParts
    <2>3. Newest(p)' => Recorded'
      BY <2>1 DEF Recorded, Newest, Unrecorded
    <2>4. QED
      BY <1>2, <2>2, <2>3
  <1>3. ASSUME NEW p \in Procs,
               \/ \E e \in Evaluations : BeginActivation(p, e) \/ RepeatActivation(p, e)
               \/ BeginRollback(p)
        PROVE  Recorded'
    <2>1. PICK l \in {"capture", "report", "target"} : Goto(p, l)
      BY <1>3 DEF BeginActivation, RepeatActivation, BeginRollback
    <2>2. UNCHANGED <<torn, latest, pointer>> /\ MayStart(p)
      BY <1>3 DEF BeginActivation, RepeatActivation, BeginRollback, store, history
    <2>3. pc[p] \notin Unrecorded /\ pc'[p] \notin Unrecorded /\ pc'[p] # "evidence"
      BY <2>1, <2>2 DEF MayStart, At, Goto, TypeOK, Unrecorded
    <2>4. QED
      BY <1>2, <2>1, <2>2, <2>3 DEF Newest, IdOf
  <1>4. ASSUME NEW p \in Procs,
               \/ \E a \in Ids : Capture(p, a)
               \/ WriteProgram(p) \/ WriteMetadata(p) \/ FindTarget(p)
        PROVE  Recorded'
    <2>1. PICK l \in {"program", "metadata", "pointer", "move"} : Goto(p, l)
      BY <1>4 DEF Capture, WriteProgram, WriteMetadata, FindTarget
    <2>2. UNCHANGED <<torn, latest, pointer>>
          /\ pc[p] \in {"capture", "program", "metadata", "target"}
      BY <1>4 DEF Capture, WriteProgram, WriteMetadata, FindTarget, At, store, history
    <2>3. pc[p] \notin Unrecorded /\ pc'[p] \notin Unrecorded /\ pc'[p] # "evidence"
      BY <2>1, <2>2 DEF Goto, TypeOK, Unrecorded
    <2>4. QED
      BY <1>2, <2>1, <2>2, <2>3 DEF Newest, IdOf
  <1>5. ASSUME NEW p \in Procs, WritePointer(p)
        PROVE  Recorded'
    <2>1. pointer = previous[p] /\ saved[p] = previous[p]
      BY <1>5 DEF WritePointer, At, Stacked, Moves, Owning, Activating
    <2>2. Goto(p, "evidence") /\ pc[p] = "pointer" /\ pc'[p] = "evidence"
      BY <1>5 DEF WritePointer, At, Goto, TypeOK
    <2>3. IdOf(pointer') = mine[p]
      BY <1>5, NewPointerType, PromptStoreAssumption
      DEF WritePointer, At, IdOf, Owning, Activating
    <2>4. UNCHANGED <<torn, latest, saved, mine>>
      BY <1>5 DEF WritePointer, locals
    <2>5. Newest(p) => Newest(p)'
      BY <2>1, <2>2, <2>3, <2>4 DEF Newest, Unrecorded, IdOf
    <2>6. QED
      BY <1>2, <2>2, <2>5
  <1>6. ASSUME NEW p \in Procs, Archive(p)
        PROVE  Recorded'
    <2>1. Goto(p, "report") /\ pc[p] = "evidence" /\ pc'[p] = "report"
      BY <1>6 DEF Archive, At, Goto, TypeOK
    <2>2. latest' = mine[p] /\ pointer' = pointer
      BY <1>6 DEF Archive
    <2>3. Newest(p) => Newest(p)'
      BY <2>1, <2>2 DEF Newest, Unrecorded, IdOf
    <2>4. QED
      BY <1>2, <2>1, <2>3
  <1>7. ASSUME NEW p \in Procs, ActivationFails(p) \/ RollbackFails(p)
        PROVE  Recorded'
    <2>1. PICK l \in {"undo", "reinstate"} : Goto(p, l)
      BY <1>7 DEF ActivationFails, RollbackFails
    <2>2. /\ pc[p] \in {"program", "metadata", "pointer", "evidence", "move", "log"}
          /\ UNCHANGED <<torn, latest, pointer, saved>>
      BY <1>7 DEF ActivationFails, RollbackFails, store, locals, history
    <2>3. pc'[p] \in {"undo", "reinstate"}
      BY <2>1 DEF Goto, TypeOK
    <2>4. pc[p] \notin Unrecorded => pointer = saved[p]
      BY <2>2 DEF Unrecorded, Stacked, Moves, Owning, Activating, RollingBack
    <2>5. Newest(p) => Newest(p)'
      BY <2>2, <2>3, <2>4 DEF Newest, Unrecorded, IdOf
    <2>6. QED
      BY <1>2, <2>1, <2>2, <2>5
  <1>8. ASSUME NEW p \in Procs, RestorePointer(p) \/ Reinstate(p)
        PROVE  Recorded'
    <2>1. PICK l \in {"remove", "idle"} : Goto(p, l)
      BY <1>8 DEF RestorePointer, Reinstate, Return
    <2>2. /\ pc[p] \in {"undo", "reinstate"} /\ pointer' = saved[p]
          /\ UNCHANGED <<torn, latest>>
      BY <1>8 DEF RestorePointer, Reinstate, At, history
    <2>3. pc'[p] \in {"remove", "idle"}
      BY <2>1 DEF Goto, TypeOK
    <2>4. Newest(p) => Newest(p)'
      BY <2>2, <2>3 DEF Newest, Unrecorded, IdOf
    <2>5. QED
      BY <1>2, <2>1, <2>2, <2>4
  <1>9. ASSUME NEW p \in Procs, MovePointer(p)
        PROVE  Recorded'
    <2>1. pointer = previous[p] /\ saved[p] = previous[p]
      BY <1>9 DEF MovePointer, At, Stacked, Moves, RollingBack
    <2>2. Goto(p, "log") /\ pc[p] = "move" /\ pc'[p] = "log"
      BY <1>9 DEF MovePointer, At, Goto, TypeOK
    <2>3. UNCHANGED <<torn, latest, saved>>
      BY <1>9 DEF MovePointer, locals, history
    <2>4. Newest(p) => Newest(p)'
      BY <2>1, <2>2, <2>3 DEF Newest, Unrecorded, IdOf
    <2>5. QED
      BY <1>2, <2>2, <2>4
  <1>10. ASSUME NEW p \in Procs, LogRollback(p)
         PROVE  Recorded'
    <2>1. pointer = target[p] /\ pointer' = pointer /\ latest' = IdOf(target[p])
      BY <1>10 DEF LogRollback, At, Stacked, Moves
    <2>2. Goto(p, "idle") /\ pc[p] = "log" /\ pc'[p] = "idle"
      BY <1>10 DEF LogRollback, Return, At, Goto, TypeOK
    <2>3. Newest(p)'
      BY <2>1, <2>2 DEF Newest, Unrecorded, IdOf
    <2>4. QED
      BY <1>2, <2>2, <2>3
  <1>11. ASSUME NEW p \in Procs, Report(p) \/ RemoveHistory(p) \/ RollbackRefused(p)
         PROVE  Recorded'
    <2>1. Goto(p, "idle") /\ pc[p] \in {"report", "remove", "target"} /\ pc'[p] = "idle"
      BY <1>11 DEF Report, RemoveHistory, RollbackRefused, Return, At, Goto, TypeOK
    <2>2. UNCHANGED <<torn, latest, pointer>>
      BY <1>11 DEF Report, RemoveHistory, RollbackRefused, store, history
    <2>3. Newest(p) => Newest(p)'
      BY <2>1, <2>2 DEF Newest, Unrecorded, IdOf
    <2>4. QED
      BY <1>2, <2>1, <2>3
  <1>12. ASSUME NEW p \in Procs, RestoreFails(p) \/ Crash(p)
         PROVE  Recorded'
    <2>1. Goto(p, "idle") /\ pc[p] # "idle" /\ pc'[p] = "idle"
      BY <1>12 DEF RestoreFails, Crash, Return, At, Goto, TypeOK
    <2>2. UNCHANGED <<latest, pointer>> /\ (torn' \/ (~torn /\ pc[p] \notin Unrecorded))
      BY <1>12 DEF RestoreFails, Crash, store
    <2>3. Newest(p) => Newest(p)'
      BY <2>1, <2>2 DEF Newest, Unrecorded, IdOf
    <2>4. QED
      BY <1>2, <2>1, <2>3
  <1>13. QED
    BY <1>1, <1>3, <1>4, <1>5, <1>6, <1>7, <1>8, <1>9, <1>10, <1>11, <1>12 DEF Next

\* EvidenceNamesActive: with operators who take turns and no command running, the
\* newest evidence row names the active prompt, whatever failed before, unless a
\* command was cut off between moving the pointer and recording that.
THEOREM EvidenceTrue == Spec => []EvidenceNamesActive
  <1> DEFINE Inv == TypeOK /\ HistoryInv /\ TurnsInv /\ StackInv /\ RecordInv
  <1>1. Init => Inv
    BY InitType, InitHistory, InitTurns, InitStack, InitRecord
  <1>2. Inv /\ [Next]_vars => Inv'
    BY NextType, NextHistory, NextTurns, NextStack, NextRecord
  <1>3. Inv => EvidenceNamesActive
    BY DEF RecordInv, Recorded, EvidenceNamesActive, At, Unrecorded
  <1>4. QED
    BY <1>1, <1>2, <1>3, PTL DEF Spec

=============================================================================
