--------------------------- MODULE SessionLedger ---------------------------
(***************************************************************************)
(* What the refresh-token store promises a user: a ledger of sessions in   *)
(* which a session is carried by one token at a time, is passed on only    *)
(* from that token, and once closed is never carried by a token again.     *)
(***************************************************************************)
EXTENDS Naturals, FiniteSets

CONSTANTS Token, None, MaxFamilies

VARIABLES
    live,      \* tokens that carry a session
    familyOf   \* the session every issued token belongs to (its first token)

vars == <<live, familyOf>>

Issued == {t \in Token : familyOf[t] # None}
Open == {familyOf[t] : t \in live}

Init ==
    /\ live = {}
    /\ familyOf = [t \in Token |-> None]

(* A sign-in starts a session; whole other sessions may have to give way.   *)
OpenSession(f, closing) ==
    /\ f \notin Issued
    /\ closing \subseteq Open
    /\ live' = {t \in live : familyOf[t] \notin closing} \cup {f}
    /\ familyOf' = [familyOf EXCEPT ![f] = f]
    /\ Cardinality((Open \ closing) \cup {f}) <= MaxFamilies

(* A rotation hands the session from the token that carries it to a new one.*)
PassOn(t, n) ==
    /\ t \in live
    /\ n \notin Issued
    /\ live' = (live \ {t}) \cup {n}
    /\ familyOf' = [familyOf EXCEPT ![n] = familyOf[t]]

(* Logout, reuse detection or expiry.                                       *)
Close(closing) ==
    /\ closing # {}
    /\ closing \subseteq Open
    /\ live' = {t \in live : familyOf[t] \notin closing}
    /\ UNCHANGED familyOf

Next ==
    \/ \E f \in Token, closing \in SUBSET Open : OpenSession(f, closing)
    \/ \E t, n \in Token : PassOn(t, n)
    \/ \E closing \in SUBSET Open : Close(closing)

Spec == Init /\ [][Next]_vars
=============================================================================
