------------------------------- MODULE Stability -------------------------------
(***************************************************************************)
(* The dashboard's stability engine in exact arithmetic: ratios between    *)
(* nothing and everything as fractions, the score rounded half up.         *)
(***************************************************************************)
EXTENDS Integers

(* clamp(n / d, 0, 1), for a positive d.                                   *)
Ratio(n, d) == IF n <= 0 THEN [n |-> 0, d |-> 1] ELSE IF n >= d THEN [n |-> 1, d |-> 1] ELSE [n |-> n, d |-> d]
Nothing == [n |-> 0, d |-> 1]
Everything == [n |-> 1, d |-> 1]
AtLeastZero(n) == IF n < 0 THEN 0 ELSE n

RemainingObligation(total, saved) == AtLeastZero(AtLeastZero(total) - AtLeastZero(saved))

PaceRequiredMonthly(remaining, days) ==
    IF days <= 0 THEN remaining ELSE (remaining * 30 + days - 1) \div days

ReadinessRatio(total, saved) == IF total > 0 THEN Ratio(saved, total) ELSE Nothing
BugNothingCovered(balance, remaining) == IF remaining = 0 THEN Nothing ELSE Ratio(balance, remaining)
CoverageRatio(balance, remaining) == IF remaining = 0 THEN Everything ELSE Ratio(balance, remaining)
IncomeSupportRatio(income, pace) == IF income > 0 /\ pace > 0 THEN Ratio(income, pace) ELSE Nothing

BufferRatio(balance, remaining) ==
    IF remaining > 0 THEN Ratio(AtLeastZero(balance - remaining), remaining) ELSE Everything

StabilityScore(goal, saved, balance) ==
    LET remaining == RemainingObligation(goal.total, saved)
        r == ReadinessRatio(goal.total, saved)
        c == CoverageRatio(balance, remaining)
        i == IncomeSupportRatio(goal.income, PaceRequiredMonthly(remaining, goal.days))
        b == BufferRatio(balance, remaining)
        over == r.d * c.d * i.d * b.d
        sum == 40 * r.n * c.d * i.d * b.d + 30 * c.n * r.d * i.d * b.d
               + 20 * i.n * r.d * c.d * b.d + 10 * b.n * r.d * c.d * i.d
    IN  (2 * sum + over) \div (2 * over)

Status(score) == IF score >= 70 THEN "stable" ELSE IF score >= 40 THEN "warning" ELSE "critical"
Rank(status) == CASE status = "stable" -> 2 [] status = "warning" -> 1 [] status = "critical" -> 0
=============================================================================
