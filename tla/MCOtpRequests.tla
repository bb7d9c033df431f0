--------------------------- MODULE MCOtpRequests ---------------------------
(* Small instances of OtpRequests.                                          *)
EXTENDS OtpRequests, TLC

(* Requests and keys are interchangeable.                                   *)
Symmetric == Permutations(Process) \cup Permutations(Key)
=============================================================================
