---------------------------- MODULE MCSearchCache ----------------------------
EXTENDS SearchCache, TLC

CONSTANTS day, week

(* A Query limited to the last day, and one that is not. *)
MCTtl == [k \in {day, week} |-> IF k = day THEN 0 ELSE 1]

(* Entries that fit the cap, and one that alone is above it. *)
MCSizes == [k \in {day, week} |-> IF k = day THEN {1} ELSE {1, 2}]

MCSymmetry == UNION {Permutations(Legs), Permutations(Procs), Permutations(Pids)}
=============================================================================
