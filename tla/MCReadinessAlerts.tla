------------------------- MODULE MCReadinessAlerts -------------------------
(* Small instances of ReadinessAlerts.                                      *)
EXTENDS ReadinessAlerts, TLC

(* Nothing, the weekly summary, or risk alerts as well.                     *)
MCChoices == {c \in Preference : c.risk => c.weekly}

(* API instances are interchangeable, and so are goals.                     *)
Symmetric == Permutations(Process) \cup Permutations(Goal)
=============================================================================
