------------------------------- MODULE FormFields -------------------------------
(***************************************************************************)
(* What the forms of the mobile app do with amounts and dates: a stored    *)
(* value becomes the text of a field, the text becomes the value that is   *)
(* sent.  An amount's text is its whole part with the digits after the     *)
(* point; a date's text is a day.                                          *)
(***************************************************************************)
EXTENDS Integers, Sequences

CONSTANTS
    Blank,        \* an empty field, and a value that is not there
    Invalid,      \* what the parsers answer to a text they refuse
    MaxSafe       \* Number.MAX_SAFE_INTEGER, scaled down

Moment == [day : {"d1", "d2"}, time : {"dawn", "noon"}]

(* A missing value (undefined, an empty field) and a refusal (null) are not *)
(* amounts, names, texts or moments.                                        *)
ASSUME FieldsAssumption ==
    /\ MaxSafe \in Nat /\ Blank # Invalid
    /\ \A v \in {Blank, Invalid} :
          /\ v \notin Int /\ v \notin {"goal", "d1", "d2"} /\ v \notin Moment
          /\ v \notin [whole : Nat, fraction : Seq(0..9)]

BugPadded(rest) == IF rest < 10 THEN <<rest>> ELSE <<rest \div 10, rest % 10>>
Padded(rest) == <<rest \div 10, rest % 10>>

KoboToNairaInput(amountKobo) ==
    LET rest == amountKobo % 100
    IN  [whole |-> amountKobo \div 100, fraction |-> IF rest = 0 THEN <<>> ELSE Padded(rest)]

Digit(fraction, i) == IF i \in DOMAIN fraction THEN fraction[i] ELSE 0
Kobo(text) == 100 * text.whole + 10 * Digit(text.fraction, 1) + Digit(text.fraction, 2)
WellFormed(text) == text # Blank /\ Len(text.fraction) <= 2

(* An amount is positive; an income may be zero or left out.               *)
NairaInputToKobo(text) ==
    IF WellFormed(text) /\ Kobo(text) \in 1..MaxSafe THEN Kobo(text) ELSE Invalid
OptionalNairaInputToKobo(text) ==
    IF text = Blank THEN Blank
    ELSE IF WellFormed(text) /\ Kobo(text) <= MaxSafe THEN Kobo(text) ELSE Invalid

(* A stored time is a moment of a day, in UTC; a field gives its noon.     *)
IsoToDateInput(occurredAt) == occurredAt.day
DateInputToIso(day) == IF day = Blank THEN Invalid ELSE [day |-> day, time |-> "noon"]

-----------------------------------------------------------------------------
(* The goal form.                                                          *)
GoalToFormFields(goal) ==
    [name |-> goal.name, amount |-> KoboToNairaInput(goal.amount), due |-> IsoToDateInput(goal.due),
     income |-> IF goal.income = Blank THEN Blank ELSE KoboToNairaInput(goal.income)]

GoalFormValid(fields) ==
    /\ fields.name # Blank
    /\ NairaInputToKobo(fields.amount) # Invalid
    /\ DateInputToIso(fields.due) # Invalid
    /\ OptionalNairaInputToKobo(fields.income) # Invalid

BuildGoalFields(fields) ==
    [name |-> fields.name, amount |-> NairaInputToKobo(fields.amount), due |-> DateInputToIso(fields.due),
     income |-> OptionalNairaInputToKobo(fields.income)]
BuildUpdateGoalPayload(fields) == IF GoalFormValid(fields) THEN BuildGoalFields(fields) ELSE Invalid

(* The editor of a transaction.                                            *)
EditorFields(entry) == [amount |-> KoboToNairaInput(entry.amount), day |-> IsoToDateInput(entry.at)]
EditorPayload(fields) == [amount |-> NairaInputToKobo(fields.amount), at |-> DateInputToIso(fields.day)]

-----------------------------------------------------------------------------
(* A form that is opened and saved as it is sends back the amounts, the    *)
(* income or its absence and the day that are stored, however they look as *)
(* text, and no text is read as an amount out of range                     *)
(* (koboToNairaInput against nairaInputToKobo, goalToFormFields against    *)
(* buildUpdateGoalPayload).  The time of day becomes noon.                 *)
AtNoon(moment) == [moment EXCEPT !.time = "noon"]
Amount == 1..MaxSafe
Text == [whole : 0..(MaxSafe \div 100 + 1), fraction : UNION {[1..n -> 0..9] : n \in 0..2}]
FormsKeepValues ==
    /\ \A k \in Amount, moment \in Moment :
          /\ EditorPayload(EditorFields([amount |-> k, at |-> moment])) = [amount |-> k, at |-> AtNoon(moment)]
          /\ \A income \in {Blank, 0, MaxSafe - k} :
                LET goal == [name |-> "goal", amount |-> k, due |-> moment, income |-> income]
                IN  BuildUpdateGoalPayload(GoalToFormFields(goal)) = [goal EXCEPT !.due = AtNoon(moment)]
    /\ \A text \in Text : NairaInputToKobo(text) \in Amount \cup {Invalid}
=============================================================================
