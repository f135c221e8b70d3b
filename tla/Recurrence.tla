----------------------------- MODULE Recurrence -----------------------------
(***************************************************************************)
(* The dates of recurring tasks: nextRecurrenceDate of services/tasks.go.  *)
(* A date is the number of days since 1 January of FirstYear, a month the  *)
(* number of months since then.                                            *)
(***************************************************************************)
EXTENDS Integers

CONSTANTS
  FirstYear,     \* the year day 0 is in
  FirstWeekday   \* the weekday of day 0, Sunday is 0

ASSUME CalendarAssumption == FirstYear \in Nat /\ FirstWeekday \in 0..6

Rules == {"daily", "weekdays", "weekly", "monthly"}
NoRule == ""       \* recurrence_rule of a task that does not recur
NoDate == -1       \* SQL NULL

Leap(y) == y % 4 = 0 /\ (y % 100 # 0 \/ y % 400 = 0)

MonthLength(m) ==
  CASE m % 12 = 1 -> IF Leap(FirstYear + m \div 12) THEN 29 ELSE 28
    [] m % 12 \in {3, 5, 8, 10} -> 30
    [] OTHER -> 31

MonthStart[m \in Nat] == IF m = 0 THEN 0 ELSE MonthStart[m - 1] + MonthLength(m - 1)

MonthOf(d) == CHOOSE m \in 0..d : MonthStart[m] <= d /\ d < MonthStart[m + 1]

\* AddDate(0, 1, 0) keeps the day of the month; a day the next month does not have runs
\* over into the month after it. So it adds the length of the month d is in.
AddMonth(d) == d + MonthLength(MonthOf(d))

Weekend(d) == (FirstWeekday + d) % 7 \in {0, 6}

\* The loop over Saturday and Sunday.
NextWeekdayPlain(d) == d + 1
NextWeekday(d) ==
  CHOOSE e \in d + 1 .. d + 3 : ~ Weekend(e) /\ \A f \in d + 1 .. e - 1 : Weekend(f)

NextRecurrenceDate(d, rule, today) ==
  IF d = NoDate THEN today
  ELSE [daily    |-> d + 1,
        weekdays |-> NextWeekday(d),
        weekly   |-> d + 7,
        monthly  |-> AddMonth(d)][rule]
=============================================================================
