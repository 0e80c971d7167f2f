----------------------------- MODULE MCAgentRun -----------------------------
(***************************************************************************)
(* AgentRun on three files: two that may be edited, and one outside the      *)
(* scope that verification may change.                                     *)
(***************************************************************************)
EXTENDS AgentRun

\* Tokens a model call reports, counted by the budget: too few to matter, or too many.
MCUsages == {0, MaxTokens + 1}

\* BOUND: a run is followed up to the call that overspends its tokens.  How it goes
\* on from an answer that was refused is seen after a call that reports nothing.
Affordable == log.tokens <= MaxTokens

=============================================================================
