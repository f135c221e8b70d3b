------------------------------ MODULE MCPages -------------------------------
EXTENDS Pages

Rule(type, op, target, max, days) ==
  Habit!HabitInput([Habit!Blank("a") EXCEPT
    !.type = type, !.op = op, !.target = target, !.max = max, !.days = days,
    !.frequency = IF days = Habit!Weekdays THEN "daily" ELSE "weekly"])
MCHabits ==
  {Rule("boolean", "gte", Habit!Null, Habit!Null, {1}),
   Rule("numeric", "gte", 2, Habit!Null, Habit!Weekdays),
   Rule("numeric", "lte", 2, Habit!Null, {2}),
   Rule("numeric", "eq", 0, Habit!Null, Habit!Weekdays),
   Rule("numeric", "between", 2, 4, Habit!Weekdays)}

Yearly(day, month) ==
  Crons!PresetToCron("yearly", [Crons!DefaultFields EXCEPT !.dayOfMonth = day, !.month = month])
MCCrons ==
  {Yearly(30, 2), Yearly(30, 4),
   Crons!PresetToCron("weekly", [Crons!DefaultFields EXCEPT !.weekdays = <<3, 1>>]),
   <<Crons!Every(20), Crons!Every(2), Crons!Star, Crons!Star, Crons!Star>>,
   <<Crons!One(5), Crons!Star, Crons!Star, Crons!Star, Crons!Star>>}

\* Never saved, saved by a version with fewer widgets, or with one that is gone.
MCRegistry == <<"metrics", "habits", "notes">>
MCLayouts == {<<>>, <<"notes">>, <<"habits", "retired", "notes", "metrics">>}
=============================================================================
