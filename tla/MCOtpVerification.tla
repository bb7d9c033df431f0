-------------------------- MODULE MCOtpVerification --------------------------
(* Small instances of OtpVerification.                                      *)
EXTENDS OtpVerification, TLC

(* Requests, keys and devices are interchangeable; codes are ordered.       *)
Symmetric == Permutations(Process) \cup Permutations(Key) \cup Permutations(Device)
=============================================================================
