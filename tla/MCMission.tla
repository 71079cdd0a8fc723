------------------------------ MODULE MCMission -----------------------------
(* Instances of MissionRun for TLC. *)
EXTENDS MissionRunProperties, TLC

CONSTANTS a, b    \* two tasks, b after a

MCTasks     == {a, b}
MCDependsOn == (a :> {}) @@ (b :> {a})

CallSymmetry == Permutations(Calls)
=============================================================================
