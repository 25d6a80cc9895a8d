------------------------------- MODULE MCStartup -------------------------------
(***************************************************************************)
(* Instances of Startup for TLC: a few processes, which are alike.         *)
(***************************************************************************)
EXTENDS Startup, TLC

Symmetry == Permutations(Procs)

================================================================================
