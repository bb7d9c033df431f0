---------------------------- MODULE MCSignInScreens ----------------------------
(***************************************************************************)
(* Small instances of SignInScreens for TLC.                               *)
(***************************************************************************)
EXTENDS SignInScreens, TLC

Interchangeable == Permutations(Phone) \cup Permutations(Slot)
=============================================================================
