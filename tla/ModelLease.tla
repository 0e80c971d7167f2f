----------------------------- MODULE ModelLease -----------------------------
(***************************************************************************)
(* What the serial model service promises to the agents that call it, and  *)
(* what docs/MODEL_SWITCHING.md says of the route lease: inference requests *)
(* are granted one at a time, and for as long as one runs no server that   *)
(* local-coder launched serves another profile than the one granted.       *)
(***************************************************************************)
CONSTANTS Procs, Profiles, None

VARIABLES
    using,   \* using[p]: the profile process p runs an inference with, or None
    models   \* the profiles the live servers launched by local-coder run

vars == <<using, models>>

Idle == \A p \in Procs : using[p] = None

Init ==
    /\ using = [p \in Procs |-> None]
    /\ models = {}

\* The service makes f the only profile and grants it.
Grant(p, f) ==
    /\ Idle
    /\ using' = [using EXCEPT ![p] = f]
    /\ models' \in SUBSET {f}

\* The request ends, by itself, by Ctrl-C or because the process died.
End(p) ==
    /\ using[p] # None
    /\ using' = [using EXCEPT ![p] = None]
    /\ UNCHANGED models

\* Servers may die whatever happens.
Die ==
    /\ models' \in SUBSET models
    /\ UNCHANGED using

\* Between requests the service launches and stops servers.
Switch ==
    /\ Idle
    /\ models' \in SUBSET Profiles
    /\ UNCHANGED using

Next ==
    \/ \E p \in Procs : End(p) \/ \E f \in Profiles : Grant(p, f)
    \/ Die
    \/ Switch

Spec == Init /\ [][Next]_vars

=============================================================================
