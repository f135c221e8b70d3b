-------------------------- MODULE PageFormsProofs --------------------------
(***************************************************************************)
(* Proofs about Pages: the forms of a reminder, which show and send its    *)
(* schedule, and the page of a habit, which edits its rules and repeats    *)
(* the server's.                                                           *)
(***************************************************************************)
EXTENDS PageQueriesProofs

-----------------------------------------------------------------------------
(* Schedules: presets and crons *)

Friendlies == Reminders!Presets \ {"custom"}
TypedCron(c) == c \in {Reminders!NoCron, Reminders!BadCron} \/ Reminders!IsCron(c)

\* The kinds of parts differ.
LEMMA PartsDiffer ==
  /\ Reminders!IsStar(Reminders!Star) /\ ~ Reminders!IsEvery(Reminders!Star)
  /\ ~ Reminders!IsList(Reminders!Star) /\ ~ Reminders!IsSingle(Reminders!Star)
  /\ \A n : LET p == Reminders!One(n)
            IN /\ Reminders!IsSingle(p) /\ Reminders!IsList(p) /\ ~ Reminders!IsEvery(p)
               /\ ~ Reminders!IsStar(p) /\ Reminders!Number(p) = n
  /\ \A n : LET p == Reminders!Every(n)
            IN /\ Reminders!IsEvery(p) /\ ~ Reminders!IsSingle(p) /\ ~ Reminders!IsList(p)
               /\ ~ Reminders!IsStar(p) /\ Reminders!Number(p) = n
  /\ \A s : LET p == Reminders!These(s)
            IN /\ Reminders!IsList(p) /\ ~ Reminders!IsEvery(p) /\ ~ Reminders!IsStar(p)
               /\ p.values = s
  BY DEF Reminders!IsStar, Reminders!IsEvery, Reminders!IsList, Reminders!IsSingle, Reminders!Number,
         Reminders!Star, Reminders!One, Reminders!Every, Reminders!These

\* What a preset stands for is a cron.
LEMMA PresetIsCron ==
  ASSUME NEW preset \in Friendlies, NEW f
  PROVE  Reminders!IsCron(Reminders!PresetToCron(preset, f))
  <1> DEFINE c == Reminders!PresetToCron(preset, f)
  <1>1. CASE preset = "daily"
    BY <1>1, PartsDiffer DEF Reminders!PresetToCron, Reminders!IsCron
  <1>2. CASE preset = "weekly"
    BY <1>2, PartsDiffer DEF Reminders!PresetToCron, Reminders!IsCron
  <1>3. CASE preset = "monthly"
    BY <1>3, PartsDiffer DEF Reminders!PresetToCron, Reminders!IsCron
  <1>4. CASE preset = "yearly"
    BY <1>4, PartsDiffer DEF Reminders!PresetToCron, Reminders!IsCron
  <1>5. CASE preset = "every_minutes"
    BY <1>5, PartsDiffer DEF Reminders!PresetToCron, Reminders!IsCron
  <1>6. CASE preset = "every_hours"
    BY <1>6, PartsDiffer DEF Reminders!PresetToCron, Reminders!IsCron
  <1> QED BY <1>1, <1>2, <1>3, <1>4, <1>5, <1>6 DEF Friendlies, Reminders!Presets

\* A reading of a cron stands for that cron.
LEMMA ReadingsStandForIt ==
  ASSUME NEW c, Reminders!IsCron(c), NEW r \in Reminders!Readings(c)
  PROVE  r.preset \in Friendlies /\ Reminders!PresetToCron(r.preset, r.fields) = c
  <1> DEFINE D == Reminders!DefaultFields
             at == [D EXCEPT !.minute = Reminders!Number(c[1]), !.hour = Reminders!Number(c[2])]
  <1>0. /\ c = <<c[1], c[2], c[3], c[4], c[5]>>
        /\ \A k \in 1..4 : Reminders!IsSingle(c[k]) => c[k] = Reminders!One(Reminders!Number(c[k]))
        /\ \A k \in 1..2 : Reminders!IsEvery(c[k]) => c[k] = Reminders!Every(Reminders!Number(c[k]))
        /\ Reminders!IsList(c[5]) => c[5] = Reminders!These(c[5].values)
    BY DEF Reminders!IsCron
  <1>0a. at.minute = Reminders!Number(c[1]) /\ at.hour = Reminders!Number(c[2])
    BY DEF Reminders!DefaultFields
  <1> USE DEF Friendlies, Reminders!Presets, Reminders!PresetToCron
  <1>1. CASE /\ r = [preset |-> "every_minutes",
                     fields |-> [D EXCEPT !.intervalMinutes = Reminders!Number(c[1])]]
             /\ Reminders!IsEvery(c[1]) /\ \A k \in 2..5 : c[k] = Reminders!Star
    <2>1. r.fields.intervalMinutes = Reminders!Number(c[1])
      BY <1>1 DEF Reminders!DefaultFields
    <2>2. c = <<Reminders!Every(Reminders!Number(c[1])), Reminders!Star, Reminders!Star, Reminders!Star,
                Reminders!Star>>
      BY <1>0, <1>1
    <2> QED BY <1>1, <2>1, <2>2
  <1>2. CASE /\ r = [preset |-> "every_hours",
                     fields |-> [D EXCEPT !.minute = Reminders!Number(c[1]),
                                          !.intervalHours = Reminders!Number(c[2])]]
             /\ Reminders!IsSingle(c[1]) /\ Reminders!IsEvery(c[2])
             /\ \A k \in 3..5 : c[k] = Reminders!Star
    <2>1. r.fields.minute = Reminders!Number(c[1]) /\ r.fields.intervalHours = Reminders!Number(c[2])
      BY <1>2 DEF Reminders!DefaultFields
    <2>2. c = <<Reminders!One(Reminders!Number(c[1])), Reminders!Every(Reminders!Number(c[2])),
                Reminders!Star, Reminders!Star, Reminders!Star>>
      BY <1>0, <1>2
    <2> QED BY <1>2, <2>1, <2>2
  <1> DEFINE m == Reminders!One(Reminders!Number(c[1]))
             h == Reminders!One(Reminders!Number(c[2]))
  <1>3. CASE /\ r = [preset |-> "daily", fields |-> at]
             /\ Reminders!IsSingle(c[1]) /\ Reminders!IsSingle(c[2])
             /\ \A k \in 3..5 : c[k] = Reminders!Star
    <2>1. c = <<m, h, Reminders!Star, Reminders!Star, Reminders!Star>>
      BY <1>0, <1>3
    <2> QED BY <1>0a, <1>3, <2>1
  <1>4. CASE /\ r = [preset |-> "weekly", fields |-> [at EXCEPT !.weekdays = c[5].values]]
             /\ Reminders!IsSingle(c[1]) /\ Reminders!IsSingle(c[2]) /\ Reminders!IsList(c[5])
             /\ c[3] = Reminders!Star /\ c[4] = Reminders!Star
    <2>1. c = <<m, h, Reminders!Star, Reminders!Star, Reminders!These(c[5].values)>>
      BY <1>0, <1>4
    <2>2. r.fields.minute = at.minute /\ r.fields.hour = at.hour /\ r.fields.weekdays = c[5].values
      BY <1>4 DEF Reminders!DefaultFields
    <2> QED BY <1>0a, <1>4, <2>1, <2>2
  <1>5. CASE /\ r = [preset |-> "monthly", fields |-> [at EXCEPT !.dayOfMonth = Reminders!Number(c[3])]]
             /\ Reminders!IsSingle(c[1]) /\ Reminders!IsSingle(c[2]) /\ Reminders!IsSingle(c[3])
             /\ c[4] = Reminders!Star /\ c[5] = Reminders!Star
    <2>1. c = <<m, h, Reminders!One(Reminders!Number(c[3])), Reminders!Star, Reminders!Star>>
      BY <1>0, <1>5
    <2>2. /\ r.fields.minute = at.minute /\ r.fields.hour = at.hour
          /\ r.fields.dayOfMonth = Reminders!Number(c[3])
      BY <1>5 DEF Reminders!DefaultFields
    <2> QED BY <1>0a, <1>5, <2>1, <2>2
  <1>6. CASE /\ r = [preset |-> "yearly", fields |-> [at EXCEPT !.dayOfMonth = Reminders!Number(c[3]),
                                                                !.month = Reminders!Number(c[4])]]
             /\ Reminders!IsSingle(c[1]) /\ Reminders!IsSingle(c[2]) /\ Reminders!IsSingle(c[3])
             /\ Reminders!IsSingle(c[4]) /\ c[5] = Reminders!Star
    <2>1. c = <<m, h, Reminders!One(Reminders!Number(c[3])), Reminders!One(Reminders!Number(c[4])),
                Reminders!Star>>
      BY <1>0, <1>6
    <2>2. /\ r.fields.minute = at.minute /\ r.fields.hour = at.hour
          /\ r.fields.dayOfMonth = Reminders!Number(c[3]) /\ r.fields.month = Reminders!Number(c[4])
      BY <1>6 DEF Reminders!DefaultFields
    <2> QED BY <1>0a, <1>6, <2>1, <2>2
  <1> QED BY <1>1, <1>2, <1>3, <1>4, <1>5, <1>6 DEF Reminders!Readings, Reminders!IsStar

\* The form a cron must have to be read as a preset.
ReadsAs(c, preset) ==
  LET single(k) == Reminders!IsSingle(c[k])
      star(k) == Reminders!IsStar(c[k])
  IN \/ /\ preset = "every_minutes" /\ Reminders!IsEvery(c[1])
        /\ star(2) /\ star(3) /\ star(4) /\ star(5)
     \/ /\ preset = "every_hours" /\ single(1) /\ Reminders!IsEvery(c[2])
        /\ star(3) /\ star(4) /\ star(5)
     \/ /\ single(1) /\ single(2)
        /\ \/ preset = "daily" /\ star(3) /\ star(4) /\ star(5)
           \/ preset = "weekly" /\ star(3) /\ star(4) /\ Reminders!IsList(c[5])
           \/ preset = "monthly" /\ single(3) /\ star(4) /\ star(5)
           \/ preset = "yearly" /\ single(3) /\ single(4) /\ star(5)

\* The readings of a cron are the presets it reads as.
LEMMA ReadingsReadAs ==
  ASSUME NEW c
  PROVE  /\ \A r \in Reminders!Readings(c) : ReadsAs(c, r.preset)
         /\ \A preset : ReadsAs(c, preset) => Reminders!Readings(c) # {}
  <1>1. ASSUME NEW r \in Reminders!Readings(c) PROVE ReadsAs(c, r.preset)
    BY <1>1 DEF Reminders!Readings, ReadsAs
  <1>2. ASSUME NEW preset, ReadsAs(c, preset) PROVE Reminders!Readings(c) # {}
    <2>1. CASE Reminders!IsEvery(c[1]) /\ \A k \in 2..5 : Reminders!IsStar(c[k])
      BY <2>1 DEF Reminders!Readings
    <2>2. CASE /\ ~ (Reminders!IsEvery(c[1]) /\ \A k \in 2..5 : Reminders!IsStar(c[k]))
               /\ Reminders!IsSingle(c[1]) /\ Reminders!IsEvery(c[2])
               /\ \A k \in 3..5 : Reminders!IsStar(c[k])
      BY <2>2 DEF Reminders!Readings
    <2>3. CASE /\ ~ (Reminders!IsEvery(c[1]) /\ \A k \in 2..5 : Reminders!IsStar(c[k]))
               /\ ~ (/\ Reminders!IsSingle(c[1]) /\ Reminders!IsEvery(c[2])
                     /\ \A k \in 3..5 : Reminders!IsStar(c[k]))
      <3>1. /\ Reminders!IsSingle(c[1]) /\ Reminders!IsSingle(c[2])
            /\ preset \in {"daily", "weekly", "monthly", "yearly"}
        BY <1>2, <2>3 DEF ReadsAs
      <3>2. CASE preset = "daily"
        <4>1. \A k \in 3..5 : Reminders!IsStar(c[k])
          BY <1>2, <3>2 DEF ReadsAs
        <4> QED BY <2>3, <3>1, <4>1 DEF Reminders!Readings
      <3>3. CASE preset = "weekly"
        BY <1>2, <2>3, <3>1, <3>3 DEF Reminders!Readings, ReadsAs
      <3>4. CASE preset = "monthly"
        BY <1>2, <2>3, <3>1, <3>4 DEF Reminders!Readings, ReadsAs
      <3>5. CASE preset = "yearly"
        BY <1>2, <2>3, <3>1, <3>5 DEF Reminders!Readings, ReadsAs
      <3> QED BY <3>1, <3>2, <3>3, <3>4, <3>5
    <2> QED BY <2>1, <2>2, <2>3
  <1> QED BY <1>1, <1>2

\* What a preset stands for reads as that preset only.
LEMMA ReadsAsItsPreset ==
  ASSUME NEW preset \in Friendlies, NEW f
  PROVE  LET rs == Reminders!Readings(Reminders!PresetToCron(preset, f))
         IN rs # {} /\ \A r \in rs : r.preset = preset
  <1> DEFINE c == Reminders!PresetToCron(preset, f)
  <1>1. ReadsAs(c, preset) /\ \A other : ReadsAs(c, other) => other = preset
    <2>1. CASE preset = "daily"
      BY <2>1, PartsDiffer DEF Reminders!PresetToCron, ReadsAs
    <2>2. CASE preset = "weekly"
      BY <2>2, PartsDiffer DEF Reminders!PresetToCron, ReadsAs
    <2>3. CASE preset = "monthly"
      BY <2>3, PartsDiffer DEF Reminders!PresetToCron, ReadsAs
    <2>4. CASE preset = "yearly"
      BY <2>4, PartsDiffer DEF Reminders!PresetToCron, ReadsAs
    <2>5. CASE preset = "every_minutes"
      BY <2>5, PartsDiffer DEF Reminders!PresetToCron, ReadsAs
    <2>6. CASE preset = "every_hours"
      BY <2>6, PartsDiffer DEF Reminders!PresetToCron, ReadsAs
    <2> QED BY <2>1, <2>2, <2>3, <2>4, <2>5, <2>6 DEF Friendlies, Reminders!Presets
  <1> QED BY <1>1, ReadingsReadAs

\* What is detected is custom, or stands for the cron.
LEMMA DetectIs ==
  ASSUME NEW c, TypedCron(c), NEW fields
  PROVE  LET d == Reminders!DetectPreset(c, fields)
         IN /\ d.preset \in Reminders!Presets
            /\ d.preset # "custom" => c = Reminders!PresetToCron(d.preset, d.fields)
  <1>1. CASE ~ Reminders!IsValidCron(c) \/ Reminders!Readings(c) = {}
    BY <1>1 DEF Reminders!DetectPreset, Reminders!Presets
  <1>2. CASE Reminders!IsValidCron(c) /\ Reminders!Readings(c) # {}
    <2>1. Reminders!IsCron(c)
      BY <1>2 DEF TypedCron, Reminders!IsValidCron
    <2>2. Reminders!DetectPreset(c, fields) \in Reminders!Readings(c)
      BY <1>2 DEF Reminders!DetectPreset
    <2> QED BY <2>1, <2>2, ReadingsStandForIt DEF Friendlies
  <1> QED BY <1>1, <1>2

-----------------------------------------------------------------------------
(* The forms of reminders *)

\* A form that shows a preset has its cron.
IsReminderForm(f) ==
  /\ f \in [id : {f.id}, type : {f.type}, preset : Reminders!Presets, fields : {f.fields},
            cron : {f.cron}, dated : {f.dated}, submitting : {f.submitting}, error : {f.error}]
  /\ TypedCron(f.cron)
  /\ f.preset # "custom" => f.cron = Reminders!PresetToCron(f.preset, f.fields)

TypedReminder(r) ==
  r \in [type : {r.type}, cron : {r.cron}, active : {r.active}] /\ TypedCron(r.cron)
TypedReminders(d) == d = [id \in DOMAIN d |-> d[id]] /\ \A id \in DOMAIN d : TypedReminder(d[id])

IsReminderRequest(r) ==
  \/ r = Q!Free
  \/ r.op \in {"toggle", "delete"}
  \/ r.op \in {"create", "update"} /\ "cron" \in DOMAIN r /\ TypedCron(r.cron)

FormsInv ==
  /\ view \in [add : {view.add}, edit : {view.edit}]
  /\ \A f \in {view.add, view.edit} : f = Reminders!NoForm \/ IsReminderForm(f)
  /\ TypedReminders(db) /\ TypedReminders(query.data) /\ TypedReminders(query.reply)
  /\ \A i \in Slots : IsReminderRequest(net[i])

\* An empty form is typed.
LEMMA NewFormIs == IsReminderForm(Reminders!NewForm)
  <1>1. "daily" \in Friendlies /\ "daily" \in Reminders!Presets
    BY DEF Friendlies, Reminders!Presets
  <1>2. TypedCron(Reminders!PresetToCron("daily", Reminders!DefaultFields))
    BY <1>1, PresetIsCron DEF TypedCron
  <1> QED BY <1>1, <1>2 DEF Reminders!NewForm, IsReminderForm

\* The form of a reminder is typed, and shows the schedule of the reminder.
LEMMA EditFormIs ==
  ASSUME NEW id, NEW r, TypedReminder(r)
  PROVE  /\ IsReminderForm(Reminders!EditForm(id, r))
         /\ r.cron # Reminders!NoCron =>
              LET d == Reminders!DetectPreset(r.cron, Reminders!DefaultFields)
                  f == Reminders!EditForm(id, r)
              IN f.preset = d.preset /\ f.fields = d.fields
  <1> DEFINE new == Reminders!NewForm
             f == Reminders!EditForm(id, r)
  <1>1. IsReminderForm(new) /\ new.preset = "daily" /\ new.fields = Reminders!DefaultFields
        /\ new.cron = Reminders!PresetToCron("daily", Reminders!DefaultFields)
    BY NewFormIs DEF Reminders!NewForm
  <1> HIDE DEF new
  <1>2. CASE r.cron = Reminders!NoCron
    <2>1. f = [new EXCEPT !.id = id, !.type = r.type, !.preset = "daily",
                          !.fields = Reminders!DefaultFields, !.dated = r.type = "one_time",
                          !.cron = new.cron]
      BY <1>2 DEF Reminders!EditForm, new
    <2>2. "daily" \in Reminders!Presets
      BY DEF Reminders!Presets
    <2> HIDE DEF f
    <2>3. f.preset = "daily" /\ f.fields = Reminders!DefaultFields /\ f.cron = new.cron
      BY <1>1, <2>1 DEF IsReminderForm
    <2>4. IsReminderForm(f)
      BY <1>1, <2>1, <2>2, <2>3 DEF IsReminderForm
    <2> QED BY <1>2, <2>4 DEF f
  <1>3. CASE r.cron # Reminders!NoCron
    <2> DEFINE d == Reminders!DetectPreset(r.cron, Reminders!DefaultFields)
    <2>1. f = [new EXCEPT !.id = id, !.type = r.type, !.preset = d.preset,
                          !.fields = d.fields, !.dated = r.type = "one_time", !.cron = r.cron]
      BY <1>3 DEF Reminders!EditForm, new
    <2>2. /\ d.preset \in Reminders!Presets /\ TypedCron(r.cron)
          /\ d.preset # "custom" => r.cron = Reminders!PresetToCron(d.preset, d.fields)
      BY DetectIs DEF TypedReminder
    <2> HIDE DEF f, d
    <2>3. /\ f.preset = d.preset /\ f.fields = d.fields /\ f.cron = r.cron
      BY <1>1, <2>1 DEF IsReminderForm
    <2>4. IsReminderForm(f)
      BY <1>1, <2>1, <2>2 DEF IsReminderForm
    <2> QED BY <2>3, <2>4 DEF f, d
  <1> QED BY <1>2, <1>3

\* An edit of the preset or its fields rewrites the cron, an edit of the cron
\* the preset.
LEMMA EditIs ==
  ASSUME NEW f, IsReminderForm(f), NEW preset \in Reminders!Presets, NEW fields, NEW c, TypedCron(c),
         preset # "custom" => c = Reminders!PresetToCron(preset, fields)
  PROVE  IsReminderForm([f EXCEPT !.preset = preset, !.fields = fields, !.cron = c])
  BY DEF IsReminderForm

\* What is typed as a cron is one, or none.
LEMMA RawCronsTyped == \A c \in RawCrons : TypedCron(c)
  BY CronsAssumption
     DEF TypedCron, Reminders!IsCron, Crons!IsCron, Reminders!IsSingle, Crons!IsSingle, Reminders!IsList,
         Crons!IsList, Reminders!IsEvery, Crons!IsEvery, Reminders!One, Crons!One, Reminders!Every,
         Crons!Every, Reminders!These, Crons!These, Reminders!Number, Crons!Number

\* Every field of the form keeps it typed.
LEMMA EditsAre ==
  ASSUME NEW f, IsReminderForm(f), NEW g \in Reminders!Edits(f) \cup Reminders!Retyped(f)
  PROVE  IsReminderForm(g)
  <1>1. CASE (\E dated : g = [f EXCEPT !.dated = dated]) \/ (\E t : g = [f EXCEPT !.type = t])
    BY <1>1 DEF IsReminderForm
  <1>2. ASSUME NEW preset \in Reminders!Presets, g = Reminders!ApplyPreset(f, preset)
        PROVE  IsReminderForm(g)
    <2> DEFINE c == IF preset = "custom" THEN f.cron ELSE Reminders!PresetToCron(preset, f.fields)
    <2>1. g = [f EXCEPT !.preset = preset, !.fields = f.fields, !.cron = c]
      BY <1>2 DEF Reminders!ApplyPreset, Reminders!Friendly, IsReminderForm
    <2>2. TypedCron(c) /\ (preset # "custom" => c = Reminders!PresetToCron(preset, f.fields))
      BY PresetIsCron DEF TypedCron, IsReminderForm, Friendlies
    <2> HIDE DEF c
    <2> QED BY <2>1, <2>2, EditIs
  <1>3. ASSUME NEW field, NEW value, g = Reminders!UpdateField(f, field, value), f.preset # "custom"
        PROVE  IsReminderForm(g)
    <2> DEFINE fields == [f.fields EXCEPT ![field] = value]
               c == Reminders!PresetToCron(f.preset, fields)
    <2>1. g = [f EXCEPT !.preset = f.preset, !.fields = fields, !.cron = c]
      BY <1>3 DEF Reminders!UpdateField, Reminders!Friendly, IsReminderForm
    <2>2. TypedCron(c) /\ f.preset \in Reminders!Presets
      BY <1>3, PresetIsCron DEF TypedCron, IsReminderForm, Friendlies
    <2> HIDE DEF c
    <2>3. c = Reminders!PresetToCron(f.preset, fields)
      BY DEF c
    <2> HIDE DEF fields
    <2> QED BY <2>1, <2>2, <2>3, EditIs
  <1>4. ASSUME NEW c, TypedCron(c), g = Reminders!UpdateRawCron(f, c)
        PROVE  IsReminderForm(g)
    <2> DEFINE d == Reminders!DetectPreset(c, f.fields)
    <2>1. g = [f EXCEPT !.preset = d.preset, !.fields = d.fields, !.cron = c]
      BY <1>4 DEF Reminders!UpdateRawCron, IsReminderForm
    <2>2. /\ d.preset \in Reminders!Presets
          /\ d.preset # "custom" => c = Reminders!PresetToCron(d.preset, d.fields)
      BY <1>4, DetectIs
    <2> HIDE DEF d
    <2>3. PICK preset, fields :
            /\ preset \in Reminders!Presets
            /\ g = [f EXCEPT !.preset = preset, !.fields = fields, !.cron = c]
            /\ preset # "custom" => c = Reminders!PresetToCron(preset, fields)
      BY <2>1, <2>2
    <2>4. IsReminderForm([f EXCEPT !.preset = preset, !.fields = fields, !.cron = c])
      BY <1>4, <2>3, EditIs
    <2> QED BY <2>3, <2>4
  <1>5. CASE \E field \in Reminders!Shows(f.preset), n \in Numbers :
               g = Reminders!UpdateField(f, field, Reminders!Bounded(field, n))
    <2>1. Reminders!Shows("custom") = {}
      BY DEF Reminders!Shows
    <2> QED BY <1>3, <1>5, <2>1
  <1>6. CASE \E c \in RawCrons \cup {Reminders!NoCron, Reminders!BadCron} : g = Reminders!UpdateRawCron(f, c)
    BY <1>4, <1>6, RawCronsTyped DEF TypedCron
  <1>7. CASE f.preset = "weekly" /\ \E days : g = Reminders!UpdateField(f, "weekdays", days)
    BY <1>3, <1>7
  <1> QED BY <1>1, <1>2, <1>5, <1>6, <1>7 DEF Reminders!Edits, Reminders!Retyped

\* No form is open at first.
LEMMA FormsInit == Reminders!Init => FormsInv
  <1> SUFFICES ASSUME Reminders!Init PROVE FormsInv
    OBVIOUS
  <1>1. view = [add |-> Reminders!NoForm, edit |-> Reminders!NoForm]
    BY DEF Reminders!Init
  <1>2. TypedReminders(db)
    BY RawCronsTyped DEF Reminders!Init, TypedReminders, TypedReminder, TypedCron
  <1>3. query.data = db /\ query.reply = db
    BY RemindersQuery DEF Reminders!Init, Q!Loaded, Q!Unopened, Q!Opened
  <1>4. \A i \in Slots : net[i] = Q!Free
    BY RemindersQuery DEF Reminders!Init
  <1> QED BY <1>1, <1>2, <1>3, <1>4 DEF FormsInv, IsReminderRequest

\* Every step keeps the open form and the reminders typed.
LEMMA FormsStep == RemindersInv /\ FormsInv /\ [Reminders!Next]_vars => FormsInv'
  <1> SUFFICES ASSUME RemindersInv, FormsInv, [Reminders!Next]_vars PROVE FormsInv'
    OBVIOUS
  <1> DEFINE Form(f) == f = Reminders!NoForm \/ IsReminderForm(f)
             IsView(v) == v \in [add : {v.add}, edit : {v.edit}] /\ Form(v.add) /\ Form(v.edit)
  <1>0. /\ IsView(view) /\ TypedReminders(db) /\ TypedReminders(query.data) /\ TypedReminders(query.reply)
        /\ \A i \in Slots : IsReminderRequest(net[i])
        /\ IsNet(net) /\ IsQuery(query)
    BY DEF FormsInv, RemindersInv
  \* What each part of the invariant needs of an action.
  <1>a. ASSUME IsView(view'), TypedReminders(db'), TypedReminders(query'.data),
               TypedReminders(query'.reply), \A i \in Slots : IsReminderRequest(net'[i])
        PROVE  FormsInv'
    BY <1>a DEF FormsInv, TypedReminders, TypedReminder, TypedCron, IsReminderForm, IsReminderRequest
  <1>b. ASSUME NEW form \in {"add", "edit"}, NEW f, Form(f), view' = [view EXCEPT ![form] = f]
        PROVE  IsView(view')
    BY <1>0, <1>b
  <1>c. Form(Reminders!NoForm) /\ Form(Reminders!NewForm)
    BY NewFormIs
  <1>d. \A form \in {"add", "edit"} : Form(view[form])
    BY <1>0
  <1>e. ASSUME NEW r, IsRequest(r), IsReminderRequest(r), Reminders!CanSend, net' = Reminders!Send(net, r)
        PROVE  \A i \in Slots : IsReminderRequest(net'[i])
    <2>1. net' = Q!Send(net, r) /\ Q!FreeSlots(net) # {}
      BY <1>e, RemindersQuery DEF Reminders!CanSend
    <2>2. \A i \in Slots : net'[i] \in {r, net[i]}
      BY <1>0, <1>e, <2>1, SendIs
    <2> QED BY <1>0, <1>e, <2>2
  <1>f. ASSUME NEW i \in Slots, net[i] # Q!Free, NEW stage, net' = Staged(net, i, stage)
        PROVE  \A j \in Slots : IsReminderRequest(net'[j])
    <2>1. /\ DOMAIN net'[i] = DOMAIN net[i] /\ \A g \in DOMAIN net[i] \ {"stage"} : net'[i][g] = net[i][g]
          /\ \A j \in Slots \ {i} : net'[j] = net[j]
      BY <1>0, <1>f, StageIs
    <2>2. "op" \in DOMAIN net[i]
      BY <1>0 DEF IsNet, IsRequest
    <2>3. IsReminderRequest(net'[i])
      BY <1>0, <1>f, <2>1, <2>2 DEF IsReminderRequest
    <2> QED BY <1>0, <2>1, <2>3
  <1>g. ASSUME NEW i \in Slots, net' = Q!Settle(net, i)
        PROVE  \A j \in Slots : IsReminderRequest(net'[j])
    <2>1. \A j \in Slots : net'[j] \in {Q!Free, net[j]}
      BY <1>0, <1>g, SettleIs
    <2>2. IsReminderRequest(Q!Free)
      BY DEF IsReminderRequest
    <2> QED BY <1>0, <2>1, <2>2
  <1> HIDE DEF Form, IsView
  <1>1. CASE UNCHANGED vars
    BY <1>0, <1>1, <1>a DEF vars
  <1>2. CASE Reminders!AddReminder
    <2>1. view' = [view EXCEPT !["add"] = Reminders!NewForm] /\ UNCHANGED <<db, query, net>>
      BY <1>2 DEF Reminders!AddReminder
    <2> QED BY <1>0, <1>a, <1>b, <1>c, <2>1
  <1>3. ASSUME NEW id, Reminders!ToggleEdit(id) PROVE FormsInv'
    <2> DEFINE edit == IF view.edit.id = id THEN Reminders!NoForm ELSE Reminders!EditForm(id, query.data[id])
    <2>1. /\ view' = [view EXCEPT !.add = Reminders!NoForm, !.edit = edit]
          /\ id \in DOMAIN query.data /\ UNCHANGED <<db, query, net>>
      BY <1>3 DEF Reminders!ToggleEdit, Reminders!Reminders
    <2>2. TypedReminder(query.data[id])
      BY <1>0, <2>1 DEF TypedReminders
    <2>3. IsReminderForm(Reminders!EditForm(id, query.data[id]))
      BY <2>2, EditFormIs
    <2>4. Form(edit)
      BY <2>3 DEF Form
    <2> HIDE DEF edit
    <2>5. IsView(view')
      BY <1>0, <1>c, <2>1, <2>4 DEF IsView
    <2> QED BY <1>0, <1>a, <2>1, <2>5
  <1>4. ASSUME NEW form \in {"add", "edit"}, Reminders!EditIn(form) PROVE FormsInv'
    <2>1. PICK f \in Reminders!Edits(view[form]) \cup Reminders!Retyped(view[form]) :
            view' = [view EXCEPT ![form] = f]
      BY <1>4 DEF Reminders!EditIn
    <2>2. view[form] # Reminders!NoForm /\ UNCHANGED <<db, query, net>>
      BY <1>4 DEF Reminders!EditIn
    <2>3. IsReminderForm(view[form])
      BY <1>d, <2>2 DEF Form
    <2>4. Form(f)
      BY <2>3, EditsAre DEF Form
    <2> QED BY <1>0, <1>a, <1>b, <2>1, <2>2, <2>4
  <1>5. ASSUME NEW form \in {"add", "edit"}, Reminders!Cancel(form) PROVE FormsInv'
    <2>1. view' = [view EXCEPT ![form] = Reminders!NoForm] /\ UNCHANGED <<db, query, net>>
      BY <1>5 DEF Reminders!Cancel
    <2> QED BY <1>0, <1>a, <1>b, <1>c, <2>1
  <1>6. ASSUME NEW form \in {"add", "edit"}, Reminders!Submit(form) PROVE FormsInv'
    <2> DEFINE f == view[form]
               c == IF f.type = "recurring" THEN f.cron ELSE Reminders!NoCron
               r == [op |-> IF form = "add" THEN "create" ELSE "update", stage |-> "sent",
                     id |-> f.id, type |-> f.type, cron |-> c]
    <2>1. /\ Reminders!CanSend /\ f # Reminders!NoForm
          /\ net' = Reminders!Send(net, r) /\ UNCHANGED <<db, query>>
      BY <1>6 DEF Reminders!Submit
    <2>2. PICK slot : view' = [view EXCEPT ![form].submitting = slot, ![form].error = FALSE]
      BY <1>6 DEF Reminders!Submit
    <2>3. IsReminderForm(f)
      BY <1>d, <2>1 DEF Form
    <2>4. TypedCron(c)
      BY <2>3 DEF IsReminderForm, TypedCron
    <2> HIDE DEF c, f
    <2>5. IsRequest(r) /\ IsReminderRequest(r)
      BY <2>4 DEF IsRequest, IsReminderRequest
    <2> HIDE DEF r
    <2>6. \A i \in Slots : IsReminderRequest(net'[i])
      BY <1>e, <2>1, <2>5
    <2> DEFINE g == [f EXCEPT !.submitting = slot, !.error = FALSE]
    <2>7. Form(g)
      BY <2>3 DEF IsReminderForm, Form
    <2>8. view' = [view EXCEPT ![form] = g]
      BY <1>0, <2>2 DEF f, IsView
    <2> HIDE DEF g
    <2>9. IsView(view')
      BY <1>b, <2>7, <2>8
    <2> QED BY <1>0, <1>a, <2>1, <2>6, <2>9
  <1>7. ASSUME NEW id, Reminders!ToggleActive(id) PROVE FormsInv'
    <2> DEFINE r == [op |-> "toggle", stage |-> "sent", id |-> id, active |-> ~ query.data[id].active]
    <2>1. Reminders!CanSend /\ net' = Reminders!Send(net, r) /\ UNCHANGED <<db, view, query>>
      BY <1>7 DEF Reminders!ToggleActive, Reminders!Reminders
    <2>2. IsRequest(r) /\ IsReminderRequest(r)
      BY DEF IsRequest, IsReminderRequest
    <2> HIDE DEF r
    <2> QED BY <1>0, <1>a, <1>e, <2>1, <2>2
  <1>8. ASSUME NEW id, Reminders!DeleteReminder(id) PROVE FormsInv'
    <2> DEFINE r == [op |-> "delete", stage |-> "sent", id |-> id]
    <2>1. Reminders!CanSend /\ net' = Reminders!Send(net, r) /\ UNCHANGED <<db, view, query>>
      BY <1>8 DEF Reminders!DeleteReminder
    <2>2. IsRequest(r) /\ IsReminderRequest(r)
      BY DEF IsRequest, IsReminderRequest
    <2> HIDE DEF r
    <2> QED BY <1>0, <1>a, <1>e, <2>1, <2>2
  <1>9. ASSUME NEW i \in Slots,
               \/ Reminders!ServeCreate(i) \/ Reminders!ServeUpdate(i)
               \/ Reminders!ServeToggle(i) \/ Reminders!ServeDelete(i)
        PROVE  FormsInv'
    <2>0. net[i] # Q!Free
      BY <1>9, FreeIs DEF Reminders!ServeCreate, Reminders!ServeUpdate, Reminders!ServeToggle,
         Reminders!ServeDelete
    <2>1. UNCHANGED <<view, query>> /\ \E stage : net' = Staged(net, i, stage)
      <3>1. CASE Reminders!ServeCreate(i)
        BY <3>1 DEF Reminders!ServeCreate, Reminders!Answer, Staged
      <3>2. CASE Reminders!ServeUpdate(i)
        BY <3>2 DEF Reminders!ServeUpdate, Reminders!Answer, Staged
      <3>3. CASE Reminders!ServeToggle(i)
        BY <3>3 DEF Reminders!ServeToggle, Reminders!Answer, Staged
      <3>4. CASE Reminders!ServeDelete(i)
        BY <3>4 DEF Reminders!ServeDelete, Reminders!Answer, Staged
      <3> QED BY <1>9, <3>1, <3>2, <3>3, <3>4
    <2>2. TypedReminders(db')
      <3>1. CASE Reminders!ServeCreate(i)
        <4> DEFINE new == [type |-> net[i].type, cron |-> net[i].cron, active |-> TRUE]
                   id == Reminders!Min(Reminders!FreshIds)
        <4>1. db' = db \/ db' = [r \in DOMAIN db \cup {id} |-> IF r = id THEN new ELSE db[r]]
          BY <3>1 DEF Reminders!ServeCreate, Reminders!Put
        <4>2. TypedReminder(new)
          BY <1>0, <3>1, FreeIs DEF Reminders!ServeCreate, IsReminderRequest, TypedReminder
        <4> HIDE DEF new, id
        <4> QED BY <1>0, <4>1, <4>2 DEF TypedReminders
      <3>2. CASE Reminders!ServeUpdate(i)
        <4> DEFINE id == net[i].id
                   new == [db[id] EXCEPT !.cron = net[i].cron]
        <4>1. db' = db \/ (id \in DOMAIN db /\ db' = [db EXCEPT ![id] = new])
          BY <3>2 DEF Reminders!ServeUpdate
        <4>2. id \in DOMAIN db => TypedReminder(new)
          <5>1. TypedCron(net[i].cron)
            BY <1>0, <3>2, FreeIs DEF Reminders!ServeUpdate, IsReminderRequest
          <5> QED BY <1>0, <5>1 DEF TypedReminders, TypedReminder
        <4> HIDE DEF new, id
        <4> QED BY <1>0, <4>1, <4>2 DEF TypedReminders
      <3>3. CASE Reminders!ServeToggle(i)
        <4> DEFINE id == net[i].id
                   new == [db[id] EXCEPT !.active = net[i].active]
        <4>1. db' = db \/ (id \in DOMAIN db /\ db' = [db EXCEPT ![id] = new])
          BY <3>3 DEF Reminders!ServeToggle
        <4>2. id \in DOMAIN db => TypedReminder(new)
          BY <1>0 DEF TypedReminders, TypedReminder
        <4> HIDE DEF new, id
        <4> QED BY <1>0, <4>1, <4>2 DEF TypedReminders
      <3>4. CASE Reminders!ServeDelete(i)
        BY <1>0, <3>4 DEF Reminders!ServeDelete, Reminders!Without, TypedReminders
      <3> QED BY <1>9, <3>1, <3>2, <3>3, <3>4
    <2> QED BY <1>0, <1>a, <1>f, <2>0, <2>1, <2>2
  <1>10. ASSUME NEW i \in Slots, Reminders!Succeeded(i) PROVE FormsInv'
    <2>1. query' = Q!Invalidate(query, TRUE) /\ net' = Q!Settle(net, i) /\ UNCHANGED db
      BY <1>10, RemindersQuery DEF Reminders!Succeeded
    <2>2. TypedReminders(query'.data) /\ TypedReminders(query'.reply)
      <3>1. query'.data = query.data /\ query'.reply \in {query.data, query.reply}
        BY <1>0, <2>1 DEF Q!Invalidate, Q!FetchAgain, IsQuery
      <3> QED BY <1>0, <3>1
    <2>3. \/ view' = [view EXCEPT !.add = Reminders!NoForm, !.edit = Reminders!NoForm]
          \/ view' = [view EXCEPT !.edit = Reminders!NoForm]
          \/ view' = view
      <3>1. net[i].op \in {"create", "update", "toggle", "delete"}
        BY <1>0, <1>10, FreeIs DEF Reminders!Succeeded, IsReminderRequest
      <3> QED BY <1>10, <3>1 DEF Reminders!Succeeded, Reminders!Closed
    <2>4. IsView(view')
      BY <1>0, <1>c, <2>3 DEF IsView
    <2> QED BY <1>0, <1>a, <1>g, <2>1, <2>2, <2>4
  <1>11. ASSUME NEW i \in Slots, Reminders!Failed(i) PROVE FormsInv'
    <2>1. net' = Q!Settle(net, i) /\ UNCHANGED <<db, query>>
      BY <1>11, RemindersQuery DEF Reminders!Failed
    <2> DEFINE Told(f) == IF f # Reminders!NoForm /\ f.submitting = i
                          THEN [f EXCEPT !.submitting = 0, !.error = TRUE] ELSE f
    <2>2. view' = [form \in {"add", "edit"} |-> Told(view[form])]
      BY <1>11 DEF Reminders!Failed
    <2>3. \A f : Form(f) => Form(Told(f))
      BY DEF Form, IsReminderForm
    <2> HIDE DEF Told
    <2>4. IsView(view')
      BY <1>0, <2>2, <2>3 DEF IsView
    <2> QED BY <1>0, <1>a, <1>g, <2>1, <2>4
  <1>12. CASE Reminders!ServeQuery
    <2>1. query' = Q!Serve(query, db) /\ UNCHANGED <<db, view, net>>
      BY <1>12, RemindersQuery DEF Reminders!ServeQuery
    <2>2. query'.data = query.data /\ query'.reply = db
      BY <1>0, <2>1, ServeIs
    <2> QED BY <1>0, <1>a, <2>1, <2>2
  <1>13. CASE Reminders!LandQuery
    <2>1. query' = Q!Land(query) /\ query.stage = "served" /\ UNCHANGED <<db, net>>
      BY <1>13, RemindersQuery DEF Reminders!LandQuery
    <2>2. query'.data = query.reply /\ query'.reply = query.reply
      BY <1>0, <2>1 DEF Q!Land, IsQuery
    <2>3. view' = view \/ view' = [view EXCEPT !.edit = Reminders!NoForm]
      BY <1>13 DEF Reminders!LandQuery, Reminders!Rendered
    <2>4. IsView(view')
      BY <1>0, <1>c, <2>3 DEF IsView
    <2> QED BY <1>0, <1>a, <2>1, <2>2, <2>4
  <1>14. CASE Reminders!FailQuery
    <2>1. query' = Q!FetchFails(query) /\ UNCHANGED <<db, view, net>>
      BY <1>14, RemindersQuery DEF Reminders!FailQuery
    <2>2. query'.data = query.data /\ query'.reply = query.data
      BY <1>0, <2>1 DEF Q!FetchFails, IsQuery
    <2> QED BY <1>0, <1>a, <2>1, <2>2
  <1>15. ASSUME NEW i \in Slots, Reminders!Lose(i) PROVE FormsInv'
    <2>1. /\ query' = Q!AfterLoss(net, i, query) /\ net' = Staged(net, i, "failed")
          /\ Q!Losable(net, i) /\ UNCHANGED <<db, view>>
      BY <1>15, RemindersQuery DEF Reminders!Lose, Q!Lost, Staged
    <2>2. query'.data = query.data /\ query'.reply = query.reply
      BY <1>0, <2>1, UnheardIs DEF Q!AfterLoss
    <2>3. net[i] # Q!Free
      BY <2>1, FreeIs DEF Q!Losable
    <2> QED BY <1>0, <1>a, <1>f, <2>1, <2>2, <2>3
  <1> QED BY <1>1, <1>2, <1>3, <1>4, <1>5, <1>6, <1>7, <1>8, <1>9, <1>10, <1>11, <1>12, <1>13,
             <1>14, <1>15
          DEF Reminders!Next

\* The forms agree with the schedules they show.
LEMMA FormsAgree == FormsInv => Reminders!FormAgrees
  <1> SUFFICES ASSUME FormsInv, NEW f \in {view.add, view.edit} \ {Reminders!NoForm},
                      f.type = "recurring", f.preset # "custom"
               PROVE  /\ f.cron = Reminders!PresetToCron(f.preset, f.fields)
                      /\ Reminders!IsValidCron(f.cron) =>
                           LET r == [type |-> f.type, cron |-> f.cron, active |-> TRUE]
                               again == Reminders!EditForm(1, r)
                           IN /\ again.preset = f.preset
                              /\ Reminders!PresetToCron(again.preset, again.fields) = f.cron
    BY DEF Reminders!FormAgrees
  <1>1. IsReminderForm(f)
    BY DEF FormsInv
  <1>2. f.preset \in Friendlies /\ f.cron = Reminders!PresetToCron(f.preset, f.fields)
    BY <1>1 DEF IsReminderForm, Friendlies
  <1>3. ASSUME Reminders!IsValidCron(f.cron)
        PROVE  LET r == [type |-> f.type, cron |-> f.cron, active |-> TRUE]
                   again == Reminders!EditForm(1, r)
               IN again.preset = f.preset /\ Reminders!PresetToCron(again.preset, again.fields) = f.cron
    <2> DEFINE r == [type |-> f.type, cron |-> f.cron, active |-> TRUE]
               again == Reminders!EditForm(1, r)
               d == Reminders!DetectPreset(f.cron, Reminders!DefaultFields)
    <2>1. TypedReminder(r) /\ r.cron = f.cron /\ r.cron # Reminders!NoCron
      BY <1>1, <1>3 DEF TypedReminder, IsReminderForm, Reminders!IsValidCron
    <2>2. again.preset = d.preset /\ again.fields = d.fields
      BY <2>1, EditFormIs
    <2>3. d.preset = f.preset
      BY <1>2, <1>3, ReadsAsItsPreset DEF Reminders!DetectPreset
    <2>4. f.cron = Reminders!PresetToCron(d.preset, d.fields)
      BY <1>1, <1>2, <2>3, DetectIs DEF IsReminderForm, Friendlies
    <2> QED BY <2>2, <2>3, <2>4
  <1> QED BY <1>2, <1>3

-----------------------------------------------------------------------------
(* One habit *)

\* The habit's queries and mutations are those of Query.
LEMMA EntryQuery ==
  /\ \A q, o : Entry!Invalidate(q, o) = Q!Invalidate(q, o)
  /\ \A q, d : Entry!Serve(q, d) = Q!Serve(q, d)
  /\ \A q : Entry!Land(q) = Q!Land(q) /\ Entry!Idle(q) = Q!Idle(q)
  /\ \A d : Entry!Loaded(d) = Q!Loaded(d)
  /\ \A n, r : Entry!Send(n, r) = Q!Send(n, r)
  /\ \A n, i : Entry!Settle(n, i) = Q!Settle(n, i)
  /\ \A n : Entry!Quiet(n) = Q!Quiet(n) /\ Entry!FreeSlots(n) = Q!FreeSlots(n)
  /\ Entry!Free = Q!Free
  /\ \A q : Entry!FetchFails(q) = Q!FetchFails(q)
  /\ \A n, i : Entry!Losable(n, i) = Q!Losable(n, i) /\ Entry!Lost(n, i) = Q!Lost(n, i)
  /\ \A n, i, q : Entry!AfterLoss(n, i, q) = Q!AfterLoss(n, i, q)
  BY DEF Entry!Invalidate, Entry!Serve, Entry!Land, Entry!Idle, Entry!Opened,
         Entry!Unopened, Entry!Loaded, Entry!Send, Entry!Settle, Entry!Quiet,
         Entry!Free, Entry!FreeSlots, Entry!FetchAgain, Entry!Min, Entry!FetchFails, Entry!Losable, Entry!Lost,
         Entry!AfterLoss, Entry!Unheard, Q!FetchFails, Q!Losable, Q!Lost, Q!AfterLoss, Q!Unheard,
         Q!Invalidate, Q!Serve, Q!Land, Q!Idle, Q!Opened, Q!Unopened, Q!Loaded, Q!Send,
         Q!Settle, Q!Quiet, Q!Free, Q!FreeSlots, Q!FetchAgain, Q!Min

IsRule(h) == h \in Habit!Rules(Names)

\* The fields of a patch are those of a rule.
IsPatch(p) ==
  \A f \in DOMAIN p : /\ f = "name" => p[f] \in Names
                      /\ f = "type" => p[f] \in Habit!Types
                      /\ f = "op" => p[f] \in Habit!Operators
                      /\ f = "target" => p[f] \in Int
                      /\ f = "max" => p[f] \in Int
                      /\ f = "frequency" => p[f] \in Habit!Frequencies
                      /\ f = "days" => p[f] \in SUBSET Habit!Weekdays

\* A save of a row that was opened alone carries what was entered, and the
\* maximum.
IsSave(r) ==
  /\ r \in [op : {"update"}, stage : {r.stage}, alone : BOOLEAN, patch : {r.patch},
            touched : {r.touched}, read : {r.read}]
  /\ IsRule(r.read) /\ IsPatch(r.patch)
  /\ r.alone => DOMAIN r.patch \subseteq r.touched \cup {"max"}

IsEdit(v) ==
  /\ v \in [open : {TRUE}, draft : {v.draft}, touched : {v.touched}, alone : BOOLEAN,
            slot : {v.slot}, error : {v.error}]
  /\ IsRule(v.draft)

\* The stages of a save of which the list may not know.
Written(r) == r.op = "update" /\ r.stage \in {"done", "refetching"}
NoneWritten(n) == \A i \in Slots : ~ Written(n[i])
NoSaveDone(n) == \A i \in Slots : ~ (n[i].op = "update" /\ n[i].stage = "done")

\* A row has the fields of h but for those entered.
Untouched(v, h) ==
  \A f \in {"name", "type", "op", "target", "frequency", "days"} \ v.touched :
    v.draft[f] = Habit!Draft(h)[f]

\* So has a row that was opened alone, of the habit h, of the list l, of the
\* list on its way, and of what its save has read, which is the only one.
Alone(v, n, h, l) ==
  /\ \A i \in Slots : n[i].op = "update" =>
       /\ i = v.slot /\ n[i].alone /\ n[i].touched \subseteq v.touched
       /\ n[i].stage = "read" => Untouched(v, n[i].read)
  /\ Untouched(v, h) /\ Untouched(v, l.data)
  /\ l.stage = "served" => Untouched(v, l.reply)

\* What the invariant says of the requests, and of the row that is edited.
NetInv ==
  IsNet(net) /\ \A i \in Slots : net[i].op = "update" => IsSave(net[i])
EditInv ==
  /\ view = Entry!NoEdit \/ IsEdit(view)
  /\ view.open /\ view.alone => Alone(view, net, db.habit, query.list)

EntryInv ==
  /\ NetInv /\ EditInv
  /\ db \in [habit : {db.habit}, log : {db.log}] /\ IsRule(db.habit)
  /\ query \in [list : {query.list}, matrix : {query.matrix}]
  /\ IsQuery(query.list) /\ Kept(query.list) /\ query.list.known
  /\ query.list.late => query.list.missed
  /\ IsQuery(query.matrix) /\ Kept(query.matrix) /\ query.matrix.known
  /\ IsRule(query.list.data) /\ IsRule(query.list.reply)
  /\ NoneDone(net) => Fresh(query.matrix, db)
  /\ NoSaveDone(net) => Fresh(query.list, db.habit)
  /\ NoneWritten(net) /\ ~ query.list.missed => query.list.data = db.habit

\* The rules of a habit are those of HabitRules.
LEMMA SameRules ==
  /\ \A h : Entry!Draft(h) = Habit!Draft(h)
  /\ \A names : Entry!Rules(names) = Habit!Rules(names)
  BY DEF Entry!Draft, Habit!Draft, Entry!Or, Habit!Or, Entry!Null, Habit!Null, Entry!Rules,
         Habit!Rules, Entry!Types, Habit!Types, Entry!Operators, Habit!Operators,
         Entry!Frequencies, Habit!Frequencies, Entry!Weekdays, Habit!Weekdays

\* A draft of a habit has its fields.
LEMMA DraftIs ==
  ASSUME NEW h, IsRule(h)
  PROVE  IsRule(Habit!Draft(h))
  <1> DEFINE target == Habit!Or(h.target, 0)
             max == Habit!Or(h.max, Habit!Or(h.target, 0) + 1)
  <1>1. target \in Int /\ max \in Int
    BY DEF IsRule, Habit!Or, Habit!Null, Habit!Rules
  <1>2. Habit!Draft(h) = [h EXCEPT !.target = target, !.max = max]
    BY DEF Habit!Draft
  <1> HIDE DEF target, max
  <1> QED BY <1>1, <1>2 DEF IsRule, Habit!Rules

\* A patch of a draft is one; what it carries differs, or is the maximum.
LEMMA PatchIs ==
  ASSUME NEW d, IsRule(d), NEW h, IsRule(h)
  PROVE  /\ IsPatch(Entry!Patch(d, h))
         /\ \A f \in DOMAIN Entry!Patch(d, h) \ {"max"} :
              /\ f \in {"name", "type", "op", "target", "frequency", "days"}
              /\ d[f] # Habit!Draft(h)[f]
  <1> DEFINE p == Entry!Patch(d, h)
  <1>1. /\ p = [f \in DOMAIN p |-> d[f]]
        /\ DOMAIN p \subseteq {"name", "type", "op", "target", "max", "frequency", "days"}
        /\ \A f \in DOMAIN p \ {"max"} : Entry!Differs(d, h, f)
    BY DEF Entry!Patch
  <1> HIDE DEF p
  <1>2. IsPatch(p)
    BY <1>1 DEF IsPatch, IsRule, Habit!Rules
  <1>3. ASSUME NEW f \in DOMAIN p \ {"max"} PROVE d[f] # Habit!Draft(h)[f]
    <2>1. CASE f = "target"
      BY <1>1, <2>1 DEF Entry!Differs, Habit!Draft, Entry!Or, Habit!Or, Entry!Null, Habit!Null,
                        IsRule, Habit!Rules
    <2>2. CASE f # "target"
      <3>1. d[f] # h[f]
        BY <1>1, <2>2 DEF Entry!Differs
      <3>2. Habit!Draft(h)[f] = h[f]
        BY <1>1, <1>3, <2>2 DEF Habit!Draft, IsRule, Habit!Rules
      <3> QED BY <3>1, <3>2
    <2> QED BY <2>1, <2>2
  <1> QED BY <1>1, <1>2, <1>3 DEF p

\* A patch leaves the fields it does not have.
LEMMA MergedIs ==
  ASSUME NEW h, IsRule(h), NEW p, IsPatch(p)
  PROVE  /\ IsRule(Entry!Merged(h, p))
         /\ \A v : Untouched(v, h) /\ DOMAIN p \subseteq v.touched \cup {"max"} =>
              Untouched(v, Entry!Merged(h, p))
  <1> DEFINE m == Entry!Merged(h, p)
  <1>1. IsRule(m)
    BY DEF Entry!Merged, IsRule, IsPatch, Habit!Rules
  <1>2. \A f \in DOMAIN h \ DOMAIN p : m[f] = h[f]
    BY DEF Entry!Merged
  <1> HIDE DEF m
  <1>3. ASSUME NEW v, Untouched(v, h), DOMAIN p \subseteq v.touched \cup {"max"}
        PROVE  Untouched(v, m)
    <2>1. \A f \in {"name", "type", "op", "target", "frequency", "days"} \ v.touched :
            m[f] = h[f]
      BY <1>2, <1>3 DEF IsRule, Habit!Rules
    <2>2. \A f \in {"name", "type", "op", "target", "frequency", "days"} :
            m[f] = h[f] => Habit!Draft(m)[f] = Habit!Draft(h)[f]
      BY <1>1 DEF Habit!Draft, IsRule, Habit!Rules
    <2> QED BY <1>3, <2>1, <2>2 DEF Untouched
  <1> QED BY <1>1, <1>3 DEF m

Refetched(r, q) ==
  /\ IsQuery(r) /\ Kept(r) /\ r.known /\ ~ r.late /\ r.missed = q.missed
  /\ \A d : Fresh(r, d)
  /\ r.data = q.data /\ r.reply = q.data /\ r.stage = "sent"

\* The page has both queries, so an invalidated one is fetched again.
LEMMA RefetchedIs ==
  ASSUME NEW q, IsQuery(q), q.known
  PROVE  Refetched(Q!Invalidate(q, TRUE), q)
  <1>1. Q!Invalidate(q, TRUE) = Q!FetchAgain(q)
    BY DEF Q!Invalidate
  <1> QED BY <1>1 DEF Q!FetchAgain, IsQuery, Kept, Fresh, Refetched

\* The cell and the row open with what the server has.
LEMMA EntryInit == Entry!Init => EntryInv
  <1> SUFFICES ASSUME Entry!Init PROVE EntryInv
    OBVIOUS
  <1>1. /\ net = [i \in Slots |-> Q!Free] /\ view = Entry!NoEdit
        /\ query = [list |-> Q!Loaded(db.habit), matrix |-> Q!Loaded(db)]
    BY EntryQuery DEF Entry!Init
  <1>2. db \in [habit : {db.habit}, log : {db.log}] /\ IsRule(db.habit)
    BY HabitsAssumption DEF Entry!Init, IsRule
  <1>3. IsNet(net) /\ \A i \in Slots : net[i].op # "update"
    BY <1>1, FreeIs DEF IsNet
  <1>4. /\ query.list = Q!Loaded(db.habit) /\ query.matrix = Q!Loaded(db)
        /\ query \in [list : {query.list}, matrix : {query.matrix}]
    BY <1>1
  <1>5. ~ view.open
    BY <1>1 DEF Entry!NoEdit
  <1>6. query.list.reply = db.habit /\ ~ query.list.late
    BY <1>4 DEF Q!Loaded, Q!Unopened, Q!Opened
  <1>7. NetInv /\ EditInv
    BY <1>1, <1>3, <1>5 DEF NetInv, EditInv
  <1> QED BY <1>2, <1>4, <1>6, <1>7, OpenedIs DEF EntryInv

\* Every step of the cell, the row and the server keeps the invariant.
LEMMA EntryStep == EntryInv /\ [Entry!Next]_vars => EntryInv'
  <1> SUFFICES ASSUME EntryInv, [Entry!Next]_vars PROVE EntryInv'
    OBVIOUS
  <1>0. /\ NetInv /\ EditInv /\ IsNet(net)
        /\ db \in [habit : {db.habit}, log : {db.log}] /\ IsRule(db.habit)
        /\ query \in [list : {query.list}, matrix : {query.matrix}]
        /\ IsQuery(query.list) /\ Kept(query.list) /\ query.list.known
        /\ query.list.late => query.list.missed
        /\ IsQuery(query.matrix) /\ Kept(query.matrix) /\ query.matrix.known
        /\ IsRule(query.list.data) /\ IsRule(query.list.reply)
        /\ NoneDone(net) => Fresh(query.matrix, db)
        /\ NoSaveDone(net) => Fresh(query.list, db.habit)
        /\ NoneWritten(net) /\ ~ query.list.missed => query.list.data = db.habit
    BY DEF EntryInv, NetInv
  \* What is left to show of an action that leaves the queries alone.
  <1>a. ASSUME NetInv', EditInv', UNCHANGED query,
               db' \in [habit : {db'.habit}, log : {db'.log}], IsRule(db'.habit),
               NoneDone(net') => NoneDone(net) /\ UNCHANGED db,
               NoSaveDone(net') => NoSaveDone(net) /\ db'.habit = db.habit,
               NoneWritten(net') => NoneWritten(net) /\ db'.habit = db.habit
        PROVE  EntryInv'
    <2>1. (NoneDone(net) => Fresh(query.matrix, db))' /\ (NoSaveDone(net) => Fresh(query.list, db.habit))'
      BY <1>0, <1>a
    <2>2. NoneWritten(net') /\ ~ query'.list.missed => query'.list.data = db'.habit
      BY <1>0, <1>a
    <2> QED BY <1>0, <1>a, <2>1, <2>2 DEF EntryInv
  \* One that leaves the habit alone too.
  <1>b. ASSUME NetInv', EditInv', UNCHANGED <<db, query>>,
               NoneDone(net') => NoneDone(net), NoSaveDone(net') => NoSaveDone(net),
               NoneWritten(net') => NoneWritten(net)
        PROVE  EntryInv'
    BY <1>0, <1>a, <1>b
  \* The row that is edited stays, and so do the saves; what has landed of the
  \* list, or has been served, was served before or is the habit.
  <1>c. ASSUME UNCHANGED view, db'.habit = db.habit,
               \A j \in Slots : net'[j].op = "update" =>
                 /\ net[j].op = "update" /\ net'[j].alone = net[j].alone
                 /\ net'[j].touched = net[j].touched
                 /\ net'[j].stage = "read" => net'[j].read = IF net[j].stage = "read" THEN net[j].read
                                                                                     ELSE db.habit,
               \/ query'.list.data = query.list.data
               \/ query.list.stage = "served" /\ query'.list.data = query.list.reply,
               query'.list.stage = "served" =>
                 \/ query'.list.reply = db.habit
                 \/ query.list.stage = "served" /\ query'.list.reply = query.list.reply
        PROVE  EditInv'
    <2>1. view.open /\ view.alone => Alone(view, net', db'.habit, query'.list)
      BY <1>0, <1>c DEF EditInv, Alone
    <2> QED BY <1>0, <1>c, <2>1 DEF EditInv
  <1>1. CASE UNCHANGED vars
    <2>1. NetInv'
      BY <1>0, <1>1 DEF vars, NetInv
    <2>2. EditInv'
      BY <1>0, <1>1 DEF vars, EditInv
    <2> QED BY <1>0, <1>1, <1>b, <2>1, <2>2 DEF vars
  \* A log is sent.
  <1>2. ASSUME NEW date, NEW value, Entry!CanSend, Entry!LogHabit(date, value), UNCHANGED <<db, view, query>>
        PROVE  EntryInv'
    <2> DEFINE r == [op |-> "log", date |-> date, value |-> value, stage |-> "sent"]
    <2>1. net' = Q!Send(net, r) /\ Q!FreeSlots(net) # {}
      BY <1>2, EntryQuery DEF Entry!LogHabit, Entry!CanSend
    <2>2. IsRequest(r) /\ r.op = "log" /\ r.stage = "sent"
      BY DEF IsRequest
    <2> HIDE DEF r
    <2>3. PICK i \in Slots : /\ net[i] = Q!Free /\ net'[i] = r /\ IsNet(net')
                             /\ \A j \in Slots \ {i} : net'[j] = net[j]
      BY <1>0, <2>1, <2>2, SendIs
    <2>4. NetInv'
      BY <1>0, <2>2, <2>3 DEF NetInv
    <2>5. /\ NoneDone(net') => NoneDone(net)
          /\ NoSaveDone(net') => NoSaveDone(net)
          /\ NoneWritten(net') => NoneWritten(net)
      BY <2>2, <2>3, FreeIs DEF NoneDone, NoSaveDone, NoneWritten, Written
    <2>6. EditInv'
      BY <1>c, <1>2, <2>2, <2>3
    <2> QED BY <1>2, <1>b, <2>4, <2>5, <2>6
  <1>3. ASSUME NEW date, NEW value, Entry!ToggleHabit(date) \/ Entry!LogNumeric(date, value)
        PROVE  EntryInv'
    BY <1>2, <1>3 DEF Entry!ToggleHabit, Entry!LogNumeric
  <1>4. CASE Entry!OpenEdit
    <2> DEFINE alone == ~ Entry!Pending(net, "update") /\ ~ query.list.missed
               v == [open |-> TRUE, draft |-> Entry!Draft(query.list.data), touched |-> {},
                     alone |-> alone, slot |-> 0, error |-> FALSE]
    <2>1. view' = v /\ UNCHANGED <<db, query, net>>
      BY <1>4 DEF Entry!OpenEdit
    <2>2. v.draft = Habit!Draft(query.list.data) /\ IsRule(v.draft) /\ v.alone = alone
      BY <1>0, SameRules, DraftIs
    <2>3. IsEdit(v)
      BY <2>2 DEF IsEdit
    <2>4. ASSUME alone PROVE Alone(v, net, db.habit, query.list)
      <3>1. \A i \in Slots : net[i].op # "update"
        BY <1>0, <2>4 DEF Entry!Pending, IsNet
      <3>2. NoneWritten(net) /\ NoSaveDone(net) /\ ~ query.list.missed
        BY <2>4, <3>1 DEF NoneWritten, NoSaveDone, Written
      <3>3. query.list.data = db.habit /\ (query.list.stage = "served" => query.list.reply = db.habit)
        BY <1>0, <3>2 DEF Fresh, IsQuery
      <3> QED BY <2>2, <3>1, <3>3 DEF Alone, Untouched
    <2> HIDE DEF v, alone
    <2>5. EditInv'
      BY <2>1, <2>2, <2>3, <2>4 DEF EditInv
    <2> QED BY <1>0, <1>b, <2>1, <2>5 DEF NetInv
  <1>5. ASSUME NEW input, Entry!Enter(input) PROVE EntryInv'
    <2>1. PICK value \in Entry!Offered(view.draft, input) :
            view' = [view EXCEPT !.draft[input] = value, !.touched = @ \cup {input}]
      BY <1>5 DEF Entry!Enter
    <2>2. input \in Entry!Inputs(view.draft) /\ view.open /\ UNCHANGED <<db, query, net>>
      BY <1>5 DEF Entry!Enter
    <2>3. IsEdit(view)
      BY <1>0, <2>2 DEF EditInv, Entry!NoEdit
    <2>4. input \in {"name", "type", "frequency", "op", "target", "max", "days"}
      BY <2>2 DEF Entry!Inputs
    <2>5. /\ input = "name" => value \in Names
          /\ input = "type" => value \in Habit!Types
          /\ input = "op" => value \in Habit!Operators
          /\ input = "target" => value \in Int
          /\ input = "max" => value \in Int
          /\ input = "frequency" => value \in Habit!Frequencies
          /\ input = "days" => value \in SUBSET Habit!Weekdays
      <3>1. input \in {"target", "max"} => value \in Int
        BY <2>1, HabitsAssumption DEF Entry!Offered
      <3>2. input = "days" => value \in SUBSET Habit!Weekdays
        <4>1. SUFFICES ASSUME input = "days" PROVE value \in SUBSET Habit!Weekdays
          OBVIOUS
        <4>2. PICK date \in Entry!Dates :
                value = IF Entry!WeekdayOf(date) \in view.draft.days
                        THEN view.draft.days \ {Entry!WeekdayOf(date)}
                        ELSE view.draft.days \cup {Entry!WeekdayOf(date)}
          BY <2>1, <4>1 DEF Entry!Offered
        <4>3. Entry!WeekdayOf(date) \in 1..7
          BY DEF Entry!Dates, Entry!WeekRange, Entry!WeekdayOf
        <4>4. view.draft.days \in SUBSET (1..7)
          BY <2>3 DEF IsEdit, IsRule, Habit!Rules, Habit!Weekdays
        <4> QED BY <4>2, <4>3, <4>4 DEF Habit!Weekdays
      <3> QED BY <2>1, <3>1, <3>2 DEF Entry!Offered, Entry!Types, Habit!Types, Entry!Operators,
                 Habit!Operators, Entry!Frequencies, Habit!Frequencies
    <2> DEFINE draft == [view.draft EXCEPT ![input] = value]
    <2>6. IsRule(draft)
      BY <2>3, <2>4, <2>5 DEF IsEdit, IsRule, Habit!Rules
    <2>7. view' = [view EXCEPT !.draft = draft, !.touched = @ \cup {input}]
      BY <2>1, <2>3 DEF IsEdit
    <2>8. \A f : f # input => draft[f] = view.draft[f]
      BY <2>3 DEF IsEdit
    <2> HIDE DEF draft
    <2>9. IsEdit(view')
      BY <2>3, <2>6, <2>7 DEF IsEdit
    <2>10. /\ view'.draft = draft /\ view'.touched = view.touched \cup {input}
           /\ view'.alone = view.alone /\ view'.slot = view.slot
      BY <2>3, <2>7 DEF IsEdit
    <2>11. \A h : Untouched(view, h) => Untouched(view', h)
      BY <2>3, <2>4, <2>8, <2>10 DEF Untouched
    <2>12. Alone(view, net, db.habit, query.list) => Alone(view', net, db.habit, query.list)
      BY <2>10, <2>11 DEF Alone
    <2>13. EditInv'
      BY <1>0, <2>2, <2>9, <2>10, <2>12 DEF EditInv
    <2> QED BY <1>0, <1>b, <2>2, <2>13 DEF NetInv
  <1>6. CASE Entry!Save
    <2> DEFINE r == [op |-> "update", stage |-> "sent", alone |-> view.alone,
                     patch |-> Entry!Patch(view.draft, query.list.data),
                     touched |-> view.touched, read |-> view.draft]
               slot == Entry!Min(Entry!FreeSlots(net))
    <2>1. /\ net' = Q!Send(net, r) /\ Q!FreeSlots(net) # {} /\ UNCHANGED <<db, query>>
          /\ view.open /\ view.slot = 0
      BY <1>6, EntryQuery DEF Entry!Save, Entry!CanSend
    <2>2. view' = [view EXCEPT !.slot = slot, !.error = FALSE]
      BY <1>6 DEF Entry!Save
    <2>3. IsEdit(view)
      BY <1>0, <2>1 DEF EditInv, Entry!NoEdit
    <2>4. /\ IsRequest(r) /\ r.op = "update" /\ r.stage = "sent" /\ r.alone = view.alone
          /\ r.touched = view.touched
      BY DEF IsRequest
    <2>5. ASSUME view.alone
          PROVE  (\A i \in Slots : net[i].op # "update") /\ Alone(view, net, db.habit, query.list)
      BY <1>0, <2>1, <2>5, SlotsAssumption DEF EditInv, Alone
    <2>6. view.alone => Untouched(view, query.list.data)
      BY <2>5 DEF Alone
    <2>7. IsRule(view.draft) /\ view.alone \in BOOLEAN
      BY <2>3 DEF IsEdit
    <2>8. IsSave(r)
      <3> DEFINE p == Entry!Patch(view.draft, query.list.data)
      <3>1. /\ IsPatch(p)
            /\ \A f \in DOMAIN p \ {"max"} :
                 /\ f \in {"name", "type", "op", "target", "frequency", "days"}
                 /\ view.draft[f] # Habit!Draft(query.list.data)[f]
        BY <1>0, <2>7, PatchIs
      <3> HIDE DEF p
      <3>2. view.alone => DOMAIN p \subseteq view.touched \cup {"max"}
        BY <2>6, <3>1 DEF Untouched
      <3> QED BY <2>7, <3>1, <3>2 DEF IsSave, p
    <2> HIDE DEF r
    <2>9. PICK i \in Slots : /\ i = Q!Min(Q!FreeSlots(net))
                             /\ net[i] = Q!Free /\ net'[i] = r /\ IsNet(net')
                             /\ \A j \in Slots \ {i} : net'[j] = net[j]
      BY <1>0, <2>1, <2>4, SendIs
    <2>10. slot = i
      BY <2>9, EntryQuery DEF Entry!Min, Q!Min
    <2> HIDE DEF slot
    <2>11. NetInv'
      BY <1>0, <2>8, <2>9 DEF NetInv
    <2>12. /\ NoneDone(net') => NoneDone(net)
           /\ NoSaveDone(net') => NoSaveDone(net)
           /\ NoneWritten(net') => NoneWritten(net)
      BY <2>4, <2>9, FreeIs DEF NoneDone, NoSaveDone, NoneWritten, Written
    <2>13. /\ IsEdit(view') /\ view'.slot = i /\ view'.alone = view.alone
           /\ view'.draft = view.draft /\ view'.touched = view.touched
      BY <2>2, <2>3, <2>10 DEF IsEdit
    <2>14. \A h : Untouched(view, h) => Untouched(view', h)
      BY <2>13 DEF Untouched
    <2>15. view.alone => Alone(view', net', db.habit, query.list)
      BY <2>4, <2>5, <2>9, <2>13, <2>14 DEF Alone
    <2>16. EditInv'
      BY <2>1, <2>13, <2>15 DEF EditInv
    <2> QED BY <1>0, <1>b, <2>1, <2>11, <2>12, <2>16
  <1>7. CASE Entry!CancelEdit
    <2>1. view' = Entry!NoEdit /\ ~ view'.open /\ UNCHANGED <<db, query, net>>
      BY <1>7 DEF Entry!CancelEdit, Entry!NoEdit
    <2>2. EditInv'
      BY <2>1 DEF EditInv
    <2> QED BY <1>0, <1>b, <2>1, <2>2 DEF NetInv
  <1>8. ASSUME NEW i \in Slots, Entry!UpdateRead(i) PROVE EntryInv'
    <2>1. PICK stage \in {"read", "failed"} : net' = [net EXCEPT ![i].read = db.habit, ![i].stage = stage]
      BY <1>8 DEF Entry!UpdateRead
    <2>2. /\ net[i].op = "update" /\ net[i].stage = "sent" /\ UNCHANGED <<db, view, query>>
          /\ IsSave(net[i])
      BY <1>0, <1>8 DEF Entry!UpdateRead, NetInv
    <2>4. /\ net' = [j \in Slots |-> net'[j]] /\ DOMAIN net' = Slots
          /\ net'[i] = [net[i] EXCEPT !.read = db.habit, !.stage = stage]
          /\ \A j \in Slots \ {i} : net'[j] = net[j]
      BY <1>0, <2>1 DEF IsNet
    <2>5. /\ IsSave(net'[i]) /\ net'[i].op = "update" /\ net'[i].stage = stage /\ IsRequest(net'[i])
          /\ net'[i].alone = net[i].alone /\ net'[i].touched = net[i].touched /\ net'[i].read = db.habit
      BY <1>0, <2>2, <2>4 DEF IsSave, IsRequest
    <2>6. NetInv'
      BY <1>0, <2>4, <2>5 DEF NetInv, IsNet
    <2>7. /\ NoneDone(net') => NoneDone(net)
          /\ NoSaveDone(net') => NoSaveDone(net)
          /\ NoneWritten(net') => NoneWritten(net)
      BY <2>2, <2>4 DEF NoneDone, NoSaveDone, NoneWritten, Written
    <2>8. \A j \in Slots : net'[j].op = "update" =>
            /\ net[j].op = "update" /\ net'[j].alone = net[j].alone
            /\ net'[j].touched = net[j].touched
            /\ net'[j].stage = "read" => net'[j].read = IF net[j].stage = "read" THEN net[j].read
                                                                                ELSE db.habit
      <3>1. \A j \in Slots : j = i \/ net'[j] = net[j]
        BY <2>4
      <3>2. net[i].stage # "read"
        BY <2>2
      <3>3. /\ net[i].op = "update" /\ net'[i].alone = net[i].alone /\ net'[i].touched = net[i].touched
            /\ net'[i].read = IF net[i].stage = "read" THEN net[i].read ELSE db.habit
        BY <2>2, <2>5, <3>2
      <3> QED BY <3>1, <3>3
    <2>9. EditInv'
      BY <1>c, <2>2, <2>8
    <2> QED BY <1>b, <2>2, <2>6, <2>7, <2>9
  \* A request goes on to its next stage.
  <1>d. ASSUME NEW i \in Slots, NEW stage, net' = Staged(net, i, stage)
        PROVE  /\ NetInv' /\ net'[i].stage = stage /\ net'[i].op = net[i].op
               /\ \A j \in Slots \ {i} : net'[j] = net[j]
               /\ net[i].op = "update" => net'[i].alone = net[i].alone /\ net'[i].touched = net[i].touched
    <2>1. /\ IsNet(net') /\ DOMAIN net'[i] = DOMAIN net[i] /\ net'[i].stage = stage
          /\ \A f \in DOMAIN net[i] \ {"stage"} : net'[i][f] = net[i][f]
          /\ \A j \in Slots \ {i} : net'[j] = net[j]
      BY <1>0, <1>d, StageIs
    <2>2. net'[i].op = net[i].op
      BY <1>0, <2>1 DEF IsNet, IsRequest
    <2>3. net'[i] = [net[i] EXCEPT !.stage = stage]
      BY <1>0, <1>d DEF Staged, IsNet
    <2>4. IsSave(net[i]) => /\ IsSave(net'[i]) /\ net'[i].alone = net[i].alone
                            /\ net'[i].touched = net[i].touched
      BY <2>3 DEF IsSave
    <2> QED BY <1>0, <2>1, <2>2, <2>4 DEF NetInv
  <1>9. ASSUME NEW i \in Slots, Entry!UpdateWrite(i) PROVE EntryInv'
    <2> DEFINE merged == Entry!Merged(net[i].read, net[i].patch)
    <2>1. /\ net' = Staged(net, i, "done") /\ db' = [db EXCEPT !.habit = merged]
          /\ net[i].op = "update" /\ net[i].stage = "read" /\ UNCHANGED <<view, query>>
      BY <1>9 DEF Entry!UpdateWrite, Staged
    <2>2. IsRule(net[i].read) /\ IsPatch(net[i].patch) /\ IsSave(net[i])
      BY <1>0, <2>1 DEF NetInv, IsSave
    <2>3. /\ IsRule(merged)
          /\ \A v : Untouched(v, net[i].read) /\ DOMAIN net[i].patch \subseteq v.touched \cup {"max"} =>
               Untouched(v, merged)
      BY <2>2, MergedIs
    <2> HIDE DEF merged
    <2>4. db' \in [habit : {db'.habit}, log : {db'.log}] /\ IsRule(db'.habit) /\ db'.habit = merged
      BY <1>0, <2>1, <2>3
    <2>5. /\ NetInv' /\ net'[i].stage = "done" /\ net'[i].op = "update"
          /\ net'[i].alone = net[i].alone /\ net'[i].touched = net[i].touched
          /\ \A j \in Slots \ {i} : net'[j] = net[j]
      BY <1>d, <2>1
    <2>6. ~ NoneDone(net') /\ ~ NoSaveDone(net') /\ ~ NoneWritten(net')
      BY <2>5 DEF NoneDone, NoSaveDone, NoneWritten, Written
    <2>7. ASSUME view.open, view.alone PROVE Alone(view, net', merged, query.list)
      <3>1. Alone(view, net, db.habit, query.list)
        BY <1>0, <2>7 DEF EditInv
      <3>2. /\ net[i].alone /\ net[i].touched \subseteq view.touched /\ Untouched(view, net[i].read)
        BY <2>1, <3>1 DEF Alone
      <3>3. DOMAIN net[i].patch \subseteq view.touched \cup {"max"}
        BY <2>2, <3>2 DEF IsSave
      <3>4. Untouched(view, merged)
        BY <2>3, <3>2, <3>3
      <3>5. \A j \in Slots : net'[j].op = "update" =>
              /\ j = view.slot /\ net'[j].alone /\ net'[j].touched \subseteq view.touched
              /\ net'[j].stage = "read" => Untouched(view, net'[j].read)
        <4>1. i = view.slot
          BY <2>1, <3>1 DEF Alone
        <4>2. \A j \in Slots \ {i} : net'[j].op # "update"
          BY <2>5, <3>1, <4>1 DEF Alone
        <4> QED BY <2>5, <3>2, <4>1, <4>2
      <3> QED BY <3>1, <3>4, <3>5 DEF Alone
    <2>8. EditInv'
      BY <1>0, <2>1, <2>4, <2>7 DEF EditInv
    <2> QED BY <1>a, <2>1, <2>4, <2>5, <2>6, <2>8
  <1>10. ASSUME NEW i \in Slots, Entry!LogCheck(i) \/ Entry!LogInsert(i) PROVE EntryInv'
    <2>1. PICK stage : /\ net' = Staged(net, i, stage)
                       /\ stage # "done" => UNCHANGED db
      BY <1>10 DEF Entry!LogCheck, Entry!LogInsert, Staged
    <2>2. /\ net[i].op = "log" /\ net[i].stage # "done" /\ UNCHANGED <<view, query>>
      BY <1>10 DEF Entry!LogCheck, Entry!LogInsert
    <2>3. db' \in [habit : {db'.habit}, log : {db'.log}] /\ db'.habit = db.habit
      BY <1>0, <1>10 DEF Entry!LogCheck, Entry!LogInsert
    <2>4. /\ NetInv' /\ net'[i].stage = stage /\ net'[i].op = "log"
          /\ \A j \in Slots \ {i} : net'[j] = net[j]
      BY <1>d, <2>1, <2>2
    <2>5. /\ NoneDone(net') => NoneDone(net) /\ UNCHANGED db
          /\ NoSaveDone(net') => NoSaveDone(net)
          /\ NoneWritten(net') => NoneWritten(net)
      BY <2>1, <2>2, <2>4 DEF NoneDone, NoSaveDone, NoneWritten, Written
    <2>6. EditInv'
      BY <1>c, <2>2, <2>3, <2>4
    <2> QED BY <1>0, <1>a, <2>2, <2>3, <2>4, <2>5, <2>6
  \* What is left to show of an action that changes one query only.
  <1>e. ASSUME NEW q \in {"list", "matrix"}, NEW r, query' = [query EXCEPT ![q] = r],
               IsQuery(r), Kept(r), r.known,
               q = "list" => IsRule(r.data) /\ IsRule(r.reply) /\ (r.late => r.missed), UNCHANGED db,
               NetInv', EditInv',
               NoneDone(net') => NoneDone(net), NoSaveDone(net') => NoSaveDone(net),
               q = "matrix" => (NoneDone(net) => Fresh(r, db)),
               q = "list" => (NoSaveDone(net) => Fresh(r, db.habit)),
               NoneWritten(net') /\ ~ query'.list.missed => query'.list.data = db.habit
        PROVE  EntryInv'
    <2>1. CASE q = "list"
      <3>1. /\ query'.list = r /\ query'.matrix = query.matrix
            /\ query' \in [list : {query'.list}, matrix : {query'.matrix}]
        BY <1>0, <1>e, <2>1
      <3> QED BY <1>0, <1>e, <2>1, <3>1 DEF EntryInv
    <2>2. CASE q = "matrix"
      <3>1. /\ query'.matrix = r /\ query'.list = query.list
            /\ query' \in [list : {query'.list}, matrix : {query'.matrix}]
        BY <1>0, <1>e, <2>2
      <3> QED BY <1>0, <1>e, <2>2, <3>1 DEF EntryInv
    <2> QED BY <1>e, <2>1, <2>2
  <1>11. ASSUME NEW q \in {"list", "matrix"}, Entry!ServeQuery(q) PROVE EntryInv'
    <2> DEFINE d == IF q = "list" THEN db.habit ELSE db
               r == Q!Serve(query[q], d)
    <2>1. query' = [query EXCEPT ![q] = r] /\ UNCHANGED <<db, view, net>> /\ query[q].stage = "sent"
      BY <1>0, <1>11, EntryQuery DEF Entry!ServeQuery
    <2>2. IsQuery(query[q]) /\ query[q].known /\ ~ query[q].late
      BY <1>0, <2>1 DEF IsQuery
    <2>3. /\ IsQuery(r) /\ Kept(r) /\ r.known /\ Fresh(r, d)
          /\ r.data = query[q].data /\ r.reply = d /\ r.missed = query[q].missed
      BY <2>2, ServeIs
    <2>4. ~ r.late
      BY <2>2 DEF Q!Serve, IsQuery
    <2> HIDE DEF r
    <2>5. NetInv' /\ UNCHANGED <<NoneDone(net), NoSaveDone(net), NoneWritten(net)>>
      BY <1>0, <2>1 DEF NetInv, NoneDone, NoSaveDone, NoneWritten
    <2>6. \/ q = "list" /\ query'.list = r
          \/ q = "matrix" /\ query'.list = query.list
      BY <1>0, <2>1
    <2>7. NoneWritten(net') /\ ~ query'.list.missed => query'.list.data = db.habit
      BY <1>0, <2>3, <2>5, <2>6
    <2>8. EditInv'
      <3>1. /\ query'.list.data = query.list.data
            /\ query'.list.stage = "served" =>
                 \/ query'.list.reply = db.habit
                 \/ query.list.stage = "served" /\ query'.list.reply = query.list.reply
        BY <2>3, <2>6
      <3>2. \A j \in Slots : net'[j].op = "update" =>
              /\ net[j].op = "update" /\ net'[j].alone = net[j].alone
              /\ net'[j].touched = net[j].touched
              /\ net'[j].stage = "read" => net'[j].read = IF net[j].stage = "read" THEN net[j].read
                                                                                  ELSE db.habit
        BY <2>1
      <3> QED BY <1>c, <2>1, <3>1, <3>2
    <2> QED BY <1>0, <1>e, <2>1, <2>3, <2>4, <2>5, <2>7, <2>8
  \* What is left to show of an action that fetches both queries again.
  <1>f. ASSUME query' = [q \in DOMAIN query |-> Q!Invalidate(query[q], TRUE)], UNCHANGED <<db, view>>,
               NetInv', \A j \in Slots : net'[j].op = "update" =>
                          /\ net[j].op = "update" /\ net'[j].alone = net[j].alone
                          /\ net'[j].touched = net[j].touched
                          /\ net'[j].stage = "read" => net[j].stage = "read" /\ net'[j].read = net[j].read,
               NoneWritten(net') => NoneWritten(net)
        PROVE  EntryInv'
    <2>1. /\ query'.list = Q!Invalidate(query.list, TRUE)
          /\ query'.matrix = Q!Invalidate(query.matrix, TRUE)
          /\ query' \in [list : {query'.list}, matrix : {query'.matrix}]
      BY <1>0, <1>f
    <2>2. /\ Refetched(Q!Invalidate(query.list, TRUE), query.list)
          /\ Refetched(Q!Invalidate(query.matrix, TRUE), query.matrix)
      BY <1>0, RefetchedIs
    <2>3. /\ IsQuery(query'.list) /\ Kept(query'.list) /\ query'.list.known /\ ~ query'.list.late
          /\ IsQuery(query'.matrix) /\ Kept(query'.matrix) /\ query'.matrix.known
          /\ Fresh(query'.list, db.habit) /\ Fresh(query'.matrix, db)
          /\ query'.list.data = query.list.data /\ query'.list.reply = query.list.data
          /\ query'.list.stage = "sent" /\ query'.list.missed = query.list.missed
      BY <2>1, <2>2 DEF Refetched
    <2>4. EditInv'
      BY <1>c, <1>f, <2>3
    <2> QED BY <1>0, <1>f, <2>1, <2>3, <2>4 DEF EntryInv
  <1>12. ASSUME NEW i \in Slots, Entry!LogAnswered(i) PROVE EntryInv'
    <2>1. net' = Q!Settle(net, i) /\ net[i].op = "log" /\ UNCHANGED <<db, view>>
      BY <1>12, EntryQuery DEF Entry!LogAnswered
    <2>2. /\ IsNet(net') /\ net'[i] = Q!Free
          /\ \A j \in Slots \ {i} : net'[j] = net[j]
      BY <1>0, <2>1, SettleIs
    <2>3. NetInv'
      BY <1>0, <2>2, FreeIs DEF NetInv
    <2>4. /\ NoSaveDone(net') => NoSaveDone(net)
          /\ NoneWritten(net') => NoneWritten(net)
      BY <2>1, <2>2, FreeIs DEF NoSaveDone, NoneWritten, Written
    <2>5. \A j \in Slots : net'[j].op = "update" => net[j].op = "update" /\ net'[j] = net[j]
      BY <2>2, FreeIs
    <2>6. CASE net[i].stage # "done"
      <3>1. UNCHANGED query
        BY <1>12, <2>6 DEF Entry!LogAnswered
      <3>2. NoneDone(net') => NoneDone(net)
        BY <2>2, <2>6 DEF NoneDone
      <3>3. EditInv'
        BY <1>c, <2>1, <2>5, <3>1
      <3> QED BY <1>b, <2>1, <2>3, <2>4, <3>1, <3>2, <3>3
    <2>7. CASE net[i].stage = "done"
      <3>1. query' = [q \in DOMAIN query |-> Q!Invalidate(query[q], TRUE)]
        BY <1>12, <2>7, EntryQuery DEF Entry!LogAnswered, Entry!InvalidateHabits
      <3> QED BY <1>f, <2>1, <2>3, <2>4, <2>5, <3>1
    <2> QED BY <2>6, <2>7
  <1>13. ASSUME NEW i \in Slots, Entry!UpdateRefused(i) PROVE EntryInv'
    <2>1. /\ net' = Q!Settle(net, i) /\ net[i].op = "update" /\ net[i].stage = "failed"
          /\ UNCHANGED <<db, query>>
      BY <1>13, EntryQuery DEF Entry!UpdateRefused
    <2>2. /\ IsNet(net') /\ net'[i] = Q!Free
          /\ \A j \in Slots \ {i} : net'[j] = net[j]
      BY <1>0, <2>1, SettleIs
    <2>3. NetInv'
      BY <1>0, <2>2, FreeIs DEF NetInv
    <2>4. /\ NoneDone(net') => NoneDone(net)
          /\ NoSaveDone(net') => NoSaveDone(net)
          /\ NoneWritten(net') => NoneWritten(net)
      BY <2>1, <2>2 DEF NoneDone, NoSaveDone, NoneWritten, Written
    <2>5. EditInv'
      <3>1. CASE view.open /\ view.slot = i
        <4>1. view' = [view EXCEPT !.slot = 0, !.error = TRUE] /\ IsEdit(view)
          BY <1>0, <1>13, <3>1 DEF Entry!UpdateRefused, EditInv, Entry!NoEdit
        <4>2. /\ IsEdit(view') /\ view'.alone = view.alone
              /\ view'.draft = view.draft /\ view'.touched = view.touched
          BY <4>1 DEF IsEdit
        <4>3. \A h : Untouched(view, h) => Untouched(view', h)
          BY <4>2 DEF Untouched
        <4>4. view.alone => Alone(view', net', db.habit, query.list)
          BY <1>0, <2>2, <3>1, <4>3, FreeIs DEF EditInv, Alone
        <4> QED BY <2>1, <4>2, <4>4 DEF EditInv
      <3>2. CASE ~ (view.open /\ view.slot = i)
        <4>1. UNCHANGED view
          BY <1>13, <3>2 DEF Entry!UpdateRefused
        <4> QED BY <1>c, <2>1, <2>2, <4>1, FreeIs
      <3> QED BY <3>1, <3>2
    <2> QED BY <1>b, <2>1, <2>3, <2>4, <2>5
  <1>14. ASSUME NEW i \in Slots, Entry!UpdateAccepted(i) PROVE EntryInv'
    <2>1. /\ net' = Staged(net, i, "refetching") /\ net[i].op = "update"
          /\ query' = [q \in DOMAIN query |-> Q!Invalidate(query[q], TRUE)] /\ UNCHANGED <<db, view>>
      BY <1>14, EntryQuery DEF Entry!UpdateAccepted, Entry!InvalidateHabits, Staged
    <2>2. /\ NetInv' /\ net'[i].stage = "refetching" /\ net'[i].op = "update"
          /\ net'[i].alone = net[i].alone /\ net'[i].touched = net[i].touched
          /\ \A j \in Slots \ {i} : net'[j] = net[j]
      BY <1>d, <2>1
    <2>3. ~ NoneWritten(net')
      BY <2>2 DEF NoneWritten, Written
    <2>4. \A j \in Slots : net'[j].op = "update" =>
            /\ net[j].op = "update" /\ net'[j].alone = net[j].alone
            /\ net'[j].touched = net[j].touched
            /\ net'[j].stage = "read" => net[j].stage = "read" /\ net'[j].read = net[j].read
      BY <2>1, <2>2
    <2> QED BY <1>f, <2>1, <2>2, <2>3, <2>4
  \* A fetch is over.
  <1>15. ASSUME NEW q \in {"list", "matrix"}, NEW r, Entry!Fetched(q, r),
                IsQuery(r), Kept(r), r.known, r.stage = "idle", ~ r.late,
                q = "list" => IsRule(r.data) /\ IsRule(r.reply),
                q = "list" => \/ r.data = query.list.data
                              \/ query.list.stage = "served" /\ r.data = query.list.reply,
                q = "matrix" => (NoneDone(net) => Fresh(r, db)),
                q = "list" => (NoSaveDone(net) => Fresh(r, db.habit))
         PROVE  EntryInv'
    <2> DEFINE last == \A other \in {"list", "matrix"} \ {q} : query[other].stage = "idle"
    <2>1. query' = [query EXCEPT ![q] = r] /\ UNCHANGED db
      BY <1>15 DEF Entry!Fetched
    <2>2. \/ last /\ net' = [j \in Slots |-> IF j \in Entry!Saved(net) THEN Q!Free ELSE net[j]]
               /\ view' = IF Entry!Saved(net) # {} THEN Entry!NoEdit ELSE view
          \/ ~ last /\ UNCHANGED <<net, view>>
      <3>1. DOMAIN query = {"list", "matrix"} /\ DOMAIN net = Slots
        BY <1>0 DEF IsNet
      <3>2. (\A other \in DOMAIN query \ {q} : Entry!Idle(query[other])) <=> last
        BY <3>1, EntryQuery DEF Q!Idle
      <3> QED BY <1>15, <3>1, <3>2, EntryQuery DEF Entry!Fetched
    <2>3. /\ NetInv'
          /\ \A j \in Slots : (net'[j] = Q!Free /\ net[j].stage = "refetching") \/ net'[j] = net[j]
      <3>1. /\ IsNet(net')
            /\ \A j \in Slots : (net'[j] = Q!Free /\ net[j].stage = "refetching") \/ net'[j] = net[j]
        BY <1>0, <2>2, FreeIs DEF IsNet, Entry!Saved
      <3> QED BY <1>0, <3>1, FreeIs DEF NetInv
    <2>4. /\ NoneDone(net') => NoneDone(net)
          /\ NoSaveDone(net') => NoSaveDone(net)
      BY <2>3 DEF NoneDone, NoSaveDone
    <2>5. NoneWritten(net') => (NoneWritten(net) \/ last) /\ NoSaveDone(net)
      BY <1>0, <2>2, <2>4 DEF NoneWritten, Written, NoSaveDone
    <2>6. \/ q = "list" /\ query'.list = r
          \/ q = "matrix" /\ query'.list = query.list
      BY <1>0, <2>1
    <2>7. EditInv'
      <3>1. CASE view' = Entry!NoEdit
        <4>1. ~ view'.open
          BY <3>1 DEF Entry!NoEdit
        <4> QED BY <3>1, <4>1 DEF EditInv
      <3>2. CASE UNCHANGED <<net, view>>
        <4>1. /\ \/ query'.list.data = query.list.data
                 \/ query.list.stage = "served" /\ query'.list.data = query.list.reply
              /\ query'.list.stage = "served" =>
                   query.list.stage = "served" /\ query'.list.reply = query.list.reply
          BY <1>15, <2>6
        <4> QED BY <1>c, <2>1, <3>2, <4>1
      <3>3. CASE Entry!Saved(net) = {} /\ view' = view /\ last
        <4>1. UNCHANGED net
          BY <1>0, <2>2, <3>3 DEF IsNet
        <4> QED BY <3>2, <3>3, <4>1
      <3> QED BY <2>2, <3>1, <3>2, <3>3
    <2>8. NoneWritten(net') /\ ~ query'.list.missed => query'.list.data = db.habit
      <3> SUFFICES ASSUME NoneWritten(net'), ~ query'.list.missed PROVE query'.list.data = db.habit
        OBVIOUS
      <3>1. CASE q = "list"
        BY <1>0, <1>15, <2>5, <2>6, <3>1 DEF Fresh, Kept
      <3>2. CASE q = "matrix"
        BY <1>0, <2>5, <2>6, <3>2 DEF Fresh, Kept
      <3> QED BY <3>1, <3>2
    <2> QED BY <1>0, <1>e, <1>15, <2>1, <2>3, <2>4, <2>7, <2>8
  <1>16. ASSUME NEW q \in {"list", "matrix"}, Entry!LandQuery(q) PROVE EntryInv'
    <2> DEFINE r == Q!Land(query[q])
    <2>1. Entry!Fetched(q, r) /\ query[q].stage = "served"
      BY <1>16, EntryQuery DEF Entry!LandQuery
    <2>2. /\ IsQuery(query[q]) /\ query[q].known
          /\ q = "list" => IsRule(query[q].reply) /\ (NoSaveDone(net) => Fresh(query[q], db.habit))
          /\ q = "matrix" => (NoneDone(net) => Fresh(query[q], db))
      BY <1>0
    <2>3. /\ IsQuery(r) /\ Kept(r) /\ r.known /\ r.data = query[q].reply /\ r.stage = "idle"
          /\ \A d : Fresh(query[q], d) => Fresh(r, d)
      BY <2>1, <2>2, LandIs
    <2>4. r.reply = query[q].reply /\ ~ r.late
      BY <2>2 DEF Q!Land, IsQuery
    <2> HIDE DEF r
    <2> QED BY <1>15, <2>1, <2>2, <2>3, <2>4
  <1>17. ASSUME NEW q \in {"list", "matrix"}, Entry!FailQuery(q) PROVE EntryInv'
    <2> DEFINE r == Q!FetchFails(query[q])
    <2>1. Entry!Fetched(q, r)
      BY <1>17, EntryQuery DEF Entry!FailQuery
    <2>2. /\ IsQuery(query[q]) /\ query[q].known
          /\ q = "list" => IsRule(query[q].data)
      BY <1>0
    <2>3. /\ IsQuery(r) /\ Kept(r) /\ r.known /\ r.data = query[q].data /\ r.stage = "idle"
          /\ \A d : Fresh(r, d)
      BY <2>2, FetchFailsIs
    <2>4. r.reply = query[q].data /\ ~ r.late
      BY <2>2 DEF Q!FetchFails, IsQuery
    <2> HIDE DEF r
    <2> QED BY <1>15, <2>1, <2>2, <2>3, <2>4
  <1>18. ASSUME NEW i \in Slots, Entry!Lose(i) PROVE EntryInv'
    <2>1. /\ net' = Staged(net, i, "failed") /\ net' = Q!Lost(net, i) /\ Q!Losable(net, i)
          /\ query' = [q \in DOMAIN query |-> Q!AfterLoss(net, i, query[q])] /\ UNCHANGED <<db, view>>
      BY <1>18, EntryQuery DEF Entry!Lose, Q!Lost, Staged
    <2>2. /\ NetInv' /\ net'[i].stage = "failed" /\ net'[i].op = net[i].op
          /\ \A j \in Slots \ {i} : net'[j] = net[j]
          /\ net[i].op = "update" => net'[i].alone = net[i].alone /\ net'[i].touched = net[i].touched
      BY <1>d, <2>1
    <2>3. \A j \in Slots : net'[j].op = "update" =>
            /\ net[j].op = "update" /\ net'[j].alone = net[j].alone
            /\ net'[j].touched = net[j].touched
            /\ net'[j].stage = "read" => net[j].stage = "read" /\ net'[j].read = net[j].read
      BY <2>2
    <2>4. CASE net[i].stage # "done"
      <3>1. query' = query
        BY <1>0, <2>1, <2>4 DEF Q!AfterLoss
      <3>2. /\ NoneDone(net') => NoneDone(net)
            /\ NoSaveDone(net') => NoSaveDone(net)
            /\ NoneWritten(net') => NoneWritten(net)
        BY <2>1, <2>2, <2>4 DEF NoneDone, NoSaveDone, NoneWritten, Written, Q!Losable
      <3>3. EditInv'
        BY <1>c, <2>1, <2>3, <3>1
      <3> QED BY <1>b, <2>1, <2>2, <3>1, <3>2, <3>3
    <2>5. CASE net[i].stage = "done"
      <3>1. /\ query'.list = Q!Unheard(query.list) /\ query'.matrix = Q!Unheard(query.matrix)
            /\ query' \in [list : {query'.list}, matrix : {query'.matrix}]
        BY <1>0, <2>1, <2>5 DEF Q!AfterLoss
      <3>2. /\ IsQuery(query'.list) /\ Kept(query'.list) /\ query'.list.known /\ query'.list.missed
            /\ query'.list.data = query.list.data /\ query'.list.reply = query.list.reply
            /\ query'.list.stage = query.list.stage /\ Fresh(query'.list, db.habit)
        BY <1>0, <3>1, UnheardIs
      <3>3. /\ IsQuery(query'.matrix) /\ Kept(query'.matrix) /\ query'.matrix.known
            /\ Fresh(query'.matrix, db)
        BY <1>0, <3>1, UnheardIs
      <3>4. EditInv'
        BY <1>c, <2>1, <2>3, <3>2
      <3> QED BY <1>0, <2>1, <2>2, <3>1, <3>2, <3>3, <3>4 DEF EntryInv
    <2> QED BY <2>4, <2>5
  <1> QED BY <1>1, <1>3, <1>4, <1>5, <1>6, <1>7, <1>8, <1>9, <1>10, <1>11, <1>12, <1>13, <1>14, <1>16,
             <1>17, <1>18, <1>0 DEF Entry!Next

\* The table and the dialog settle.
LEMMA EntrySettles == EntryInv => Entry!CellsSettle
  <1> SUFFICES ASSUME EntryInv, Entry!Quiet(net), \A q \in DOMAIN query : Entry!Idle(query[q])
               PROVE  /\ ~ query.matrix.missed => query.matrix.data = db
                      /\ ~ query.list.missed => query.list.data = db.habit
    BY DEF Entry!CellsSettle
  <1>1. NoneDone(net) /\ NoSaveDone(net)
    BY EntryQuery, QuietIs DEF EntryInv, NetInv, NoneDone, NoSaveDone
  <1>2. query.list.stage = "idle" /\ query.matrix.stage = "idle"
    BY EntryQuery DEF EntryInv, Q!Idle
  <1> QED BY <1>1, <1>2 DEF EntryInv, Fresh, Kept

\* A save of a row that was opened alone, written over what it has read, changes
\* nothing but what was entered.
LEMMA EntryUntouched == EntryInv => Entry!KeepsUntouchedFields
  <1> SUFFICES ASSUME EntryInv, NEW i \in Slots, Entry!UpdateWrite(i), net[i].alone,
                      net[i].read = db.habit,
                      NEW f \in DOMAIN db.habit \ (net[i].touched \cup {"max"})
               PROVE  db'.habit[f] = db.habit[f]
    BY DEF Entry!KeepsUntouchedFields
  <1>1. IsSave(net[i])
    BY DEF EntryInv, NetInv, Entry!UpdateWrite
  <1>2. f \notin DOMAIN net[i].patch
    BY <1>1 DEF IsSave
  <1>3. db'.habit = Entry!Merged(db.habit, net[i].patch)
    BY DEF EntryInv, Entry!UpdateWrite
  <1> QED BY <1>2, <1>3 DEF Entry!Merged

-----------------------------------------------------------------------------
(* The two sets of rules *)

\* Page and server agree on the days of a habit.
LEMMA SameSchedule ==
  ASSUME NEW h, NEW date
  PROVE  Entry!IsScheduledOn(h, date) = Entry!HabitScheduledOn(h, date)
  BY DEF Entry!IsScheduledOn, Entry!HabitScheduledOn, Entry!WeekdayOf

\* Page and server agree when a value meets the target.
LEMMA SameMet ==
  ASSUME NEW h, IsRule(h), NEW value \in Int
  PROVE  Entry!IsHabitMet(h, value) = Entry!HabitCompleted(h, value)
  <1>1. h.type \in {"boolean", "numeric"} /\ h.op \in {"gte", "lte", "eq", "between"}
        /\ h.target \in Int /\ h.max \in Int
    BY DEF IsRule, Habit!Rules, Habit!Types, Habit!Operators
  <1>2. CASE h.type = "boolean"
    BY <1>2 DEF Entry!IsHabitMet, Entry!HabitCompleted
  <1>3. CASE h.type = "numeric" /\ h.target = Entry!Null
    BY <1>3 DEF Entry!IsHabitMet, Entry!HabitCompleted
  <1>4. CASE h.type = "numeric" /\ h.target # Entry!Null
    <2>1. Entry!IsHabitMet(h, value) = Entry!MeetsTarget(h, value)
      BY <1>4 DEF Entry!IsHabitMet
    <2>2. CASE h.op = "lte"
      BY <1>1, <1>4, <2>1, <2>2 DEF Entry!MeetsTarget, Entry!HabitCompleted
    <2>3. CASE h.op = "eq"
      BY <1>1, <1>4, <2>1, <2>3 DEF Entry!MeetsTarget, Entry!HabitCompleted
    <2>4. CASE h.op = "between"
      BY <1>1, <1>4, <2>1, <2>4 DEF Entry!MeetsTarget, Entry!HabitCompleted
    <2>5. CASE h.op = "gte"
      BY <1>1, <1>4, <2>1, <2>5 DEF Entry!MeetsTarget, Entry!HabitCompleted
    <2> QED BY <1>1, <2>2, <2>3, <2>4, <2>5
  <1> QED BY <1>1, <1>2, <1>3, <1>4

\* Page and server agree on the status of a day.
LEMMA SameStatus ==
  ASSUME NEW h, IsRule(h), NEW value \in Int
  PROVE  Entry!SamePercent(Entry!ComputeCompletionStatus(h, value), Entry!HabitCompletionState(h, value))
  <1> DEFINE shown == Entry!ComputeCompletionStatus(h, value)
             server == Entry!HabitCompletionState(h, value)
  <1>0. shown = server => Entry!SamePercent(shown, server)
    BY DEF Entry!SamePercent
  <1>1. h.type \in {"boolean", "numeric"} /\ h.op \in {"gte", "lte", "eq", "between"}
        /\ h.target \in Int /\ h.max \in Int
    BY DEF IsRule, Habit!Rules, Habit!Types, Habit!Operators
  <1>2. CASE h.type = "boolean"
    BY <1>0, <1>2 DEF Entry!ComputeCompletionStatus, Entry!HabitCompletionState
  <1>3. CASE h.type = "numeric" /\ h.op = "between"
    BY <1>0, <1>3 DEF Entry!ComputeCompletionStatus, Entry!HabitCompletionState
  <1>4. CASE h.type = "numeric" /\ h.op \in {"lte", "eq"}
    BY <1>0, <1>4, SameMet DEF Entry!ComputeCompletionStatus, Entry!HabitCompletionState
  <1>5. CASE h.type = "numeric" /\ h.op = "gte"
    <2>1. CASE h.target <= 0
      BY <1>0, <1>1, <1>5, <2>1 DEF Entry!ComputeCompletionStatus, Entry!HabitCompletionState
    <2>2. CASE h.target > 0
      <3> DEFINE at(status) == Entry!Status(status, <<value, h.target>>)
      <3>1. shown
              = IF value <= 0 THEN Entry!NotDone
                ELSE IF value < h.target THEN at("partial")
                ELSE IF value = h.target THEN at("complete") ELSE at("over")
        BY <1>1, <1>5, <2>2 DEF Entry!ComputeCompletionStatus
      <3>2. h.target # Entry!Null
        BY <1>1, <2>2 DEF Entry!Null
      <3>3. server
              = IF value <= 0 THEN Entry!NotDone
                ELSE IF value < h.target THEN at("partial")
                ELSE IF value = h.target THEN Entry!Done ELSE at("over")
        BY <1>1, <1>5, <2>2, <3>2 DEF Entry!HabitCompletionState
      <3>4. value = h.target => Entry!SamePercent(at("complete"), Entry!Done)
        BY <1>1 DEF Entry!SamePercent, Entry!Status, Entry!Done
      <3> HIDE DEF shown, server, at
      <3>5. CASE value = h.target
        <4>1. shown = at("complete") /\ server = Entry!Done
          BY <1>1, <2>2, <3>1, <3>3, <3>5
        <4> QED BY <3>4, <3>5, <4>1 DEF shown, server
      <3>6. CASE value # h.target
        <4>1. shown = server
          BY <1>1, <3>1, <3>3, <3>6
        <4> QED BY <1>0, <4>1 DEF shown, server
      <3> QED BY <3>5, <3>6
    <2> QED BY <1>1, <2>1, <2>2
  <1> QED BY <1>1, <1>2, <1>3, <1>4, <1>5

\* What the page computes of the habit it was given is what the server computes.
LEMMA EntryMirror == EntryInv => Entry!MirrorInSync
  <1> SUFFICES ASSUME EntryInv PROVE Entry!MirrorInSync
    OBVIOUS
  <1> DEFINE h == query.list.data
  <1>1. IsRule(h)
    BY DEF EntryInv
  <1> HIDE DEF h
  <1>2. ASSUME NEW value \in Values
        PROVE  /\ Entry!IsHabitMet(h, value) = Entry!HabitCompleted(h, value)
               /\ Entry!SamePercent(Entry!ComputeCompletionStatus(h, value),
                                    Entry!HabitCompletionState(h, value))
    BY <1>1, HabitsAssumption, SameMet, SameStatus
  <1> QED BY <1>2, SameSchedule DEF Entry!MirrorInSync, h
=============================================================================
