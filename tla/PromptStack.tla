----------------------------- MODULE PromptStack -----------------------------
(***************************************************************************)
(* What the prompt activation store promises of one role: its activations   *)
(* form a stack.  An activation goes on top of what was active, taking one   *)
(* away brings back exactly what it replaced, and the one just taken away    *)
(* may be put back (a rollback that could not be recorded).                  *)
(***************************************************************************)
CONSTANTS Ids, None

VARIABLES
    current,  \* the active activation, None for the code baseline
    under     \* under[a]: what was active when activation a was made

vars == <<current, under>>

Made == DOMAIN under

Init ==
    /\ current = None
    /\ under = [a \in {} |-> None]

Activate(a) ==
    /\ a \notin Made
    /\ current' = a
    /\ under' = [b \in Made \cup {a} |-> IF b = a THEN current ELSE under[b]]

TakeAway ==
    /\ current \in Made
    /\ current' = under[current]
    /\ UNCHANGED under

PutBack(a) ==
    /\ a \in Made /\ under[a] = current
    /\ current' = a
    /\ UNCHANGED under

Next == TakeAway \/ \E a \in Ids : Activate(a) \/ PutBack(a)

Spec == Init /\ [][Next]_vars

=============================================================================
