----------------------------- MODULE MCAgentLoop -----------------------------
(***************************************************************************)
(* Instances of AgentLoop for TLC.                                         *)
(***************************************************************************)
EXTENDS AgentLoop

(* No delay, and one that outlasts a short remainder of the run. *)
Delays == {0, 2}
=============================================================================
