-------------------------- MODULE MCCustomerRecords --------------------------
(***************************************************************************)
(* Small instances of CustomerForms over CustomerRecords for TLC.          *)
(***************************************************************************)
EXTENDS CustomerForms, TLC
MCVisits ==
    {[screens |-> {}, elsewhere |-> {"create", "update", "end", "record", "import", "revise", "remove"}],
     [screens |-> {"goal"}, elsewhere |-> {"create", "update", "end"}],
     [screens |-> {"activity", "add"}, elsewhere |-> {"create", "end", "record", "revise", "remove"}]}
Symmetry == Permutations(Process)
=============================================================================
