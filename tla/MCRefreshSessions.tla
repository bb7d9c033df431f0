------------------------- MODULE MCRefreshSessions -------------------------
(* Small instances of RefreshSessions.                                      *)
EXTENDS RefreshSessions, TLC

(* Requests, tokens and devices are interchangeable.                        *)
Symmetric == Permutations(Process) \cup Permutations(Token) \cup Permutations(Device)
=============================================================================
