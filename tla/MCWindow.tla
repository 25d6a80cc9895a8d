------------------------------- MODULE MCWindow --------------------------------
(***************************************************************************)
(* Instances of Window for TLC.                                            *)
(***************************************************************************)
EXTENDS Window, TLC

Symmetry == Permutations(Windows)

================================================================================
