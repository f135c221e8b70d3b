-------------------------------- MODULE Cron ---------------------------------
(***************************************************************************)
(* lib/cron.ts: the presets of the form of a reminder and the crons they   *)
(* stand for.  A cron is what its text means, <<minute, hour, day, month,  *)
(* weekdays>>, or NoCron for an empty text, or BadCron for one that is no  *)
(* cron.                                                                   *)
(***************************************************************************)
EXTENDS Naturals, Sequences, SequencesExt

NoCron == <<>>
BadCron == <<"bad">>
Star == [kind |-> "any", values |-> <<>>]
Every(n) == [kind |-> "every", values |-> <<n>>]
These(s) == [kind |-> "these", values |-> s]
One(n) == These(<<n>>)

IsStar(p) == p = Star
IsEvery(p) == p.kind = "every"
IsList(p) == p.kind = "these"
IsSingle(p) == IsList(p) /\ Len(p.values) = 1
Number(p) == p.values[1]

DefaultFields ==
  [hour |-> 18, minute |-> 0, weekdays |-> <<1>>, dayOfMonth |-> 1, month |-> 1,
   intervalMinutes |-> 15, intervalHours |-> 2]

PresetToCron(preset, f) ==
  LET at(day, month, weekdays) == <<One(f.minute), One(f.hour), day, month, weekdays>>
  IN CASE preset = "daily" -> at(Star, Star, Star)
       [] preset = "weekly" -> at(Star, Star, These(f.weekdays))
       [] preset = "monthly" -> at(One(f.dayOfMonth), Star, Star)
       [] preset = "yearly" -> at(One(f.dayOfMonth), One(f.month), Star)
       [] preset = "every_minutes" -> <<Every(f.intervalMinutes), Star, Star, Star, Star>>
       [] preset = "every_hours" -> <<One(f.minute), Every(f.intervalHours), Star, Star, Star>>

\* Five parts, of which an interval is one number and a list its numbers; what
\* a part of another kind is, no form shows.
IsCron(c) ==
  /\ c = <<c[1], c[2], c[3], c[4], c[5]>>
  /\ \A k \in 1..4 : IsSingle(c[k]) => c[k] = One(Number(c[k]))
  /\ \A k \in 1..2 : IsEvery(c[k]) => c[k] = Every(Number(c[k]))
  /\ IsList(c[5]) => c[5] = These(c[5].values)

\* The parser knows the length of the months.
LongestDay(month) == IF month = 2 THEN 29 ELSE IF month \in {4, 6, 9, 11} THEN 30 ELSE 31
IsValidCron(c) ==
  /\ c \notin {NoCron, BadCron}
  /\ IsSingle(c[3]) /\ IsSingle(c[4]) => Number(c[3]) <= LongestDay(Number(c[4]))

\* The presets whose form the cron has, with the fields it gives; those it
\* does not give fall back to their defaults.
Readings(c) ==
  LET daily == IsSingle(c[1]) /\ IsSingle(c[2])
      at == [DefaultFields EXCEPT !.minute = Number(c[1]), !.hour = Number(c[2])]
      reading(holds, preset, f) == IF holds THEN {[preset |-> preset, fields |-> f]} ELSE {}
      stars(parts) == \A k \in parts : IsStar(c[k])
  IN IF IsEvery(c[1]) /\ stars(2..5)
     THEN {[preset |-> "every_minutes",
            fields |-> [DefaultFields EXCEPT !.intervalMinutes = Number(c[1])]]}
     ELSE IF IsSingle(c[1]) /\ IsEvery(c[2]) /\ stars(3..5)
     THEN {[preset |-> "every_hours",
            fields |-> [DefaultFields EXCEPT !.minute = Number(c[1]), !.intervalHours = Number(c[2])]]}
     ELSE IF ~ daily THEN {}
     ELSE reading(stars(3..5), "daily", at)
       \cup reading(stars({3, 4}) /\ IsList(c[5]), "weekly", [at EXCEPT !.weekdays = c[5].values])
       \cup reading(stars({4, 5}) /\ IsSingle(c[3]), "monthly", [at EXCEPT !.dayOfMonth = Number(c[3])])
       \cup reading(IsStar(c[5]) /\ IsSingle(c[4]) /\ IsSingle(c[3]), "yearly",
                    [at EXCEPT !.dayOfMonth = Number(c[3]), !.month = Number(c[4])])

\* fields are those to keep when the schedule is custom.
DetectPreset(c, fields) ==
  LET custom == [preset |-> "custom", fields |-> fields]
  IN IF ~ IsValidCron(c) \/ Readings(c) = {} THEN custom ELSE CHOOSE r \in Readings(c) : TRUE
=============================================================================
