--------------------------- MODULE MCMobileSession ---------------------------
(***************************************************************************)
(* Small instances of MobileSession for TLC.                               *)
(***************************************************************************)
EXTENDS MobileSession
=============================================================================
