--------------------------- MODULE MCCustomerScreens ---------------------------
(***************************************************************************)
(* Small instances of CustomerScreens for TLC: one change at a time, with  *)
(* a second token (a rotation, or a sign-out and a sign-in) and a failure, *)
(* with either of them, or beside the changes of a second screen; and two  *)
(* changes at a time.                                                      *)
(***************************************************************************)
EXTENDS CustomerScreens, TLC

Customers == Permutations(User)
OneChange ==
    [screens : {{"import"}, {"add"}, {"account"}, {"alerts"}},
     tokens : {2}, calls : {1}, trouble : {1}]
NextToken ==
    [screens : {{"transactions"}, {"goal"}}, tokens : {2}, calls : {1}, trouble : {0}]
Failure ==
    [screens : {{"transactions", "add"}, {"goal"}}, tokens : {1}, calls : {1}, trouble : {1}]
Alone ==
    [screens : {{"transactions", "import"}, {"goal", "add"}}, tokens : {1}, calls : {1}, trouble : {0}]
TwoChanges ==
    [screens : {{"transactions"}, {"account"}, {"alerts"}}, tokens : {1}, calls : {2}, trouble : {0}]
MCVisits == OneChange \cup NextToken \cup Failure \cup Alone \cup TwoChanges
=============================================================================
