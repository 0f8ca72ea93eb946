------------------------------ MODULE MCGovernor ------------------------------
(***************************************************************************)
(* Instances of Governor for TLC.  Legs, processes and engines are model   *)
(* values; every leg asks the one engine unless a run says otherwise.      *)
(***************************************************************************)
EXTENDS Governor, TLC

CONSTANTS e1

(* All legs on one engine, with one or two permits. *)
OneEngine == [l \in Leg |-> e1]
OnePermit == [e \in Engine |-> 1]
TwoPermits == [e \in Engine |-> 2]

(* Processes are interchangeable, and so are the legs of a process. *)
ProcSymmetry == Permutations(Proc)
LegSymmetry == Permutations(Leg)
=============================================================================
