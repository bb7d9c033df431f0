--------------------------- MODULE MCStatementImport ---------------------------
(***************************************************************************)
(* Small instances of StatementImport for TLC: overlapping statements in   *)
(* both layouts, and every short text of the characters that matter.       *)
(***************************************************************************)
EXTENDS StatementImport

Canonical == << <<"bom", "Date">>, <<"description">>, <<"amount">>, <<"type">> >>
Provisional == << <<"value date">>, <<"narration">>, <<"debit">>, <<" ", "credit">> >>
Salary == << <<"2026-02-01">>, <<"Shop">>, <<"0.1">>, <<"credit">> >>
Rent == << <<"2026-02-02">>, <<"rent", ",", " ", " ", "may">>, <<"NGN", " ", "0.02">>, <<"expense">> >>
Broken == << <<"2026-02-01">>, <<"shop">>, <<"0">>, <<"credit">> >>
SalaryP == << <<"1/2/2026">>, <<"shop", " ">>, <<"NGN">>, <<"0.1">> >>
RentP == << <<"2026-02-02">>, <<"rent", ",", " ", "may">>, <<"0.02">> >>
BothP == << <<"2026-02-02">>, <<"rent">>, <<"0.02">>, <<"0.02">> >>

January == ToCsv(<<Canonical, Salary, Broken, Salary>>)
February == ToCsv(<<Canonical, Rent, Salary, Salary>>)
Other == ToCsv(<<Provisional, BothP, SalaryP, RentP>>)

CONSTANT MaxText
Texts == UNION {[1..n -> {Quote, Comma, LF, CR, " ", "a"}] : n \in 1..MaxText}
MCBanks == {<<January, February>>, <<February, Other>>} \cup {<<t>> : t \in Texts}
MCGoals == [total : {0, 10, 12, 25}, income : {0, 3, 40}, days : {45}]
               \cup [total : {12, 25}, income : {3}, days : {0, 1}]
=============================================================================
