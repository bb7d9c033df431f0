---------------------------- MODULE MCAccountData ----------------------------
(***************************************************************************)
(* Small instances of AccountData for TLC.                                 *)
(***************************************************************************)
EXTENDS AccountData, TLC
Symmetry == Permutations(Process) \cup Permutations(Instance)
=============================================================================
