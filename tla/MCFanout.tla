------------------------------- MODULE MCFanout -------------------------------
(***************************************************************************)
(* Instances of Fanout for TLC: web is a web engine, crates the vertical.  *)
(***************************************************************************)
EXTENDS Fanout

CONSTANTS web, crates

OnePermit == [e \in Engine |-> 1]
TwoPermits == [e \in Engine |-> 2]
=============================================================================
