----------------------------- MODULE HabitRules ------------------------------
(***************************************************************************)
(* When a habit is scheduled, met, partly met or exceeded: the rules of    *)
(* habitMatrixUtils.ts, those of models/habit.go they mirror, and what the *)
(* two forms of ManageHabitsDialog.tsx make of a rule.                     *)
(*                                                                         *)
(* Values are whole numbers, as if counted in the tenths the inputs step   *)
(* by.  A percentage is a fraction <<n, d>> of 100.  Dates are days since  *)
(* a Sunday.                                                               *)
(***************************************************************************)
EXTENDS Integers, FiniteSets

Null == -1
Types == {"boolean", "numeric"}
Operators == {"gte", "lte", "eq", "between"}
Frequencies == {"daily", "weekly"}
Weekdays == 1..7
Rules(names) ==
  [name : names, type : Types, op : Operators, target : Int, max : Int,
   frequency : Frequencies, days : SUBSET Weekdays]

-----------------------------------------------------------------------------
(* The page *)

WeekdayOf(date) == IF date % 7 = 0 THEN 7 ELSE date % 7
WeekRange(anchor) ==
  LET monday == anchor - (((anchor % 7) + 6) % 7) IN monday..(monday + 6)

IsScheduledOn(h, date) == h.frequency = "weekly" => WeekdayOf(date) \in h.days

Or(value, default) == IF value = Null THEN default ELSE value

\* As if a range ended below its maximum.
MeetsTargetBelow(h, value) ==
  \/ h.op = "lte" /\ value <= h.target
  \/ h.op = "gte" /\ value >= h.target
  \/ h.op = "eq" /\ value = h.target
  \/ h.op = "between" /\ h.max # Null /\ value >= h.target /\ value < h.max
MeetsTarget(h, value) ==
  CASE h.op = "lte" -> value <= h.target
    [] h.op = "eq" -> value = h.target
    [] h.op = "between" -> h.max # Null /\ value \in h.target..h.max
    [] h.op = "gte" -> value >= h.target
IsHabitMet(h, value) ==
  CASE h.type = "boolean" -> value >= 1
    [] h.type # "boolean" /\ h.target = Null -> value > 0
    [] h.type # "boolean" /\ h.target # Null -> MeetsTarget(h, value)

Status(s, percent) == [status |-> s, percent |-> percent]
NotDone == Status("none", <<0, 1>>)
Done == Status("complete", <<1, 1>>)

ComputeCompletionStatus(h, value) ==
  CASE h.type = "boolean" -> IF value < 1 THEN NotDone ELSE Done
    [] h.type # "boolean" /\ h.op = "between" ->
         IF h.target = Null \/ h.max = Null \/ value <= 0 THEN NotDone
         ELSE IF value < h.target THEN Status("partial", <<value, h.target>>)
         ELSE IF value <= h.max THEN Done ELSE Status("over", <<value, h.max>>)
    [] h.type # "boolean" /\ h.op \in {"lte", "eq"} ->
         IF IsHabitMet(h, value) THEN Done
         ELSE IF value <= 0 THEN NotDone ELSE Status("partial", <<1, 1>>)
    [] h.type # "boolean" /\ h.op = "gte" ->
         IF value <= 0 THEN NotDone
         ELSE IF h.target <= 0 THEN Done      \* Null is below zero too
         ELSE Status(IF value < h.target THEN "partial"
                     ELSE IF value = h.target THEN "complete" ELSE "over",
                     <<value, h.target>>)

DefaultLogValue(h) == IF h.type = "boolean" \/ h.target = Null THEN 1 ELSE h.target

\* The operator is looked at whatever the type.
ValueThatFails(h) ==
  CASE h.op = "lte" -> Or(h.target, 0) + 1
    [] h.op = "eq" -> IF h.target = 0 THEN 1 ELSE 0
    [] h.op = "between" -> Or(h.max, Or(h.target, 0)) + 1
    [] h.op = "gte" -> 0

-----------------------------------------------------------------------------
(* The server *)

HabitScheduledOn(h, date) ==
  \/ h.frequency # "weekly"
  \/ \E day \in h.days : day = (IF date % 7 = 0 THEN 7 ELSE date % 7)

HabitCompleted(h, value) ==
  IF h.type = "boolean" THEN value >= 1
  ELSE IF h.target = Null THEN value > 0
  ELSE CASE h.op = "lte" -> value <= h.target
         [] h.op = "eq" -> value = h.target
         [] h.op = "between" -> h.max # Null /\ h.target <= value /\ value <= h.max
         [] OTHER -> h.target <= value

HabitCompletionState(h, value) ==
  IF h.type = "boolean" THEN IF value < 1 THEN NotDone ELSE Done
  ELSE CASE h.op = "between" ->
              IF h.target = Null \/ h.max = Null \/ value <= 0 THEN NotDone
              ELSE IF value < h.target THEN Status("partial", <<value, h.target>>)
              ELSE IF value <= h.max THEN Done ELSE Status("over", <<value, h.max>>)
         [] h.op \in {"lte", "eq"} ->
              IF HabitCompleted(h, value) THEN Done
              ELSE IF value <= 0 THEN NotDone ELSE Status("partial", <<1, 1>>)
         [] OTHER ->
              IF h.target = Null \/ h.target <= 0 THEN IF value > 0 THEN Done ELSE NotDone
              ELSE IF value <= 0 THEN NotDone
              ELSE IF value < h.target THEN Status("partial", <<value, h.target>>)
              ELSE IF value = h.target THEN Done ELSE Status("over", <<value, h.target>>)

SamePercent(a, b) == a.status = b.status /\ a.percent[1] * b.percent[2] = b.percent[1] * a.percent[2]

\* validateHabit; the check of migration 014 asks the same of every row.
ValidHabit(h) ==
  h.type = "numeric" /\ h.op = "between" => h.target # Null /\ h.max # Null /\ h.max > h.target

-----------------------------------------------------------------------------
(* The forms *)

\* The inputs a form shows for what is chosen in it so far.
Inputs(f) ==
  {"name", "type", "frequency"}
    \cup (IF f.type = "numeric" THEN {"op", "target"} ELSE {})
    \cup (IF f.type = "numeric" /\ f.op = "between" THEN {"max"} ELSE {})
    \cup (IF f.frequency = "weekly" THEN {"days"} ELSE {})

\* habitInputFromFormData of a form of HabitForm, whose state starts as Blank.
Blank(name) ==
  [name |-> name, type |-> "boolean", op |-> "gte", target |-> Null, max |-> Null,
   frequency |-> "daily", days |-> Weekdays]
HabitInput(f) ==
  [f EXCEPT !.target = IF f.type = "numeric" THEN f.target ELSE Null,
            !.max = IF f.type = "numeric" /\ f.op = "between" THEN f.max ELSE Null,
            !.op = IF f.type = "numeric" THEN f.op ELSE "gte"]

\* The draft of EditHabitRow when it is mounted.
Draft(h) ==
  [h EXCEPT !.target = Or(h.target, 0), !.max = Or(h.max, Or(h.target, 0) + 1)]

\* What a save sends of the draft d of the habit h.
Differs(d, h, f) ==
  CASE f = "target" -> d.target # Or(h.target, 0)
    [] f # "target" -> d[f] # h[f]
Patch(d, h) ==
  LET sent == {f \in {"name", "type", "frequency", "days"} : Differs(d, h, f)}
                \cup (IF d.type = "numeric"
                      THEN {f \in {"op", "target"} : Differs(d, h, f)} ELSE {})
                \cup (IF d.type = "numeric" /\ d.op = "between" THEN {"max"} ELSE {})
  IN [f \in sent |-> d[f]]
=============================================================================
