---------------------------- MODULE NoteReminders ----------------------------
(***************************************************************************)
(* RemindersSection.tsx under a note, and lib/cron.ts: the rows of the     *)
(* note's reminders, the form of a new one and that of one being edited.   *)
(* A form keeps a schedule twice, as a preset with its fields and as the   *)
(* cron that is sent; each edit of the one rewrites the other, in a        *)
(* microtask, before the next event.                                       *)
(*                                                                         *)
(* Messages, and when a reminder fires (Reminders), are left out.          *)
(***************************************************************************)
EXTENDS Query, Cron

CONSTANTS
  ReminderIds,  \* bound: ids the server gives to reminders, numbers from 1
  RawCrons,     \* bound: crons typed as text
  Numbers,      \* bound: numbers typed into a field
  Slots,        \* bound: requests in flight
  MaxActs       \* bound: acts of the user, losses and failures

VARIABLES
  db,      \* the server: the reminders of the note
  view,    \* the section
  query,   \* the query of the reminders
  net,     \* the mutations in flight
  acts     \* how much of MaxActs is used

vars == <<db, view, query, net, acts>>

Act == acts < MaxActs /\ acts' = acts + 1
CanSend == FreeSlots(net) # {}

-----------------------------------------------------------------------------
(* ReminderForm *)

NoForm == [id |-> -1]
New == 0

\* submitting: the slot of its save.
NewForm ==
  [id |-> New, type |-> "recurring", preset |-> "daily", fields |-> DefaultFields,
   cron |-> PresetToCron("daily", DefaultFields), dated |-> FALSE, submitting |-> 0, error |-> FALSE]
\* A reminder that fires once has no cron: the form keeps that of a new one.
EditForm(id, r) ==
  LET initial == IF r.cron # NoCron THEN DetectPreset(r.cron, DefaultFields)
                 ELSE [preset |-> "daily", fields |-> DefaultFields]
  IN [NewForm EXCEPT !.id = id, !.type = r.type, !.preset = initial.preset,
        !.fields = initial.fields, !.dated = r.type = "one_time",
        !.cron = IF r.cron # NoCron THEN r.cron ELSE @]

\* As if the fields were not read back from the cron.
UpdateRawCronOnly(f, cron) == [f EXCEPT !.cron = cron, !.preset = DetectPreset(cron, f.fields).preset]

\* The effect of an edit of the preset or its fields.
Friendly(f) == IF f.preset = "custom" THEN f ELSE [f EXCEPT !.cron = PresetToCron(f.preset, f.fields)]
ApplyPreset(f, preset) == Friendly([f EXCEPT !.preset = preset])
UpdateField(f, field, value) == Friendly([f EXCEPT !.fields[field] = value])
UpdateRawCron(f, cron) ==
  LET detected == DetectPreset(cron, f.fields)
  IN [f EXCEPT !.cron = cron, !.preset = detected.preset, !.fields = detected.fields]

\* The day that is left alone stays.
ToggledWeekdays(days, day) ==
  LET next == IF day \in ToSet(days) THEN SelectSeq(days, LAMBDA d : d # day)
              ELSE SetToSortSeq(ToSet(days) \cup {day}, <)
  IN IF next = <<>> THEN <<day>> ELSE next

\* The fields a preset shows, and between which numbers boundedNumber keeps them.
Shows(preset) ==
  (IF preset \in {"daily", "weekly", "monthly", "yearly"} THEN {"hour", "minute"} ELSE {})
    \cup (IF preset = "every_minutes" THEN {"intervalMinutes"} ELSE {})
    \cup (IF preset = "every_hours" THEN {"intervalHours", "minute"} ELSE {})
    \cup (IF preset \in {"monthly", "yearly"} THEN {"dayOfMonth"} ELSE {})
    \cup (IF preset = "yearly" THEN {"month"} ELSE {})
Bounds ==
  [hour |-> <<0, 23>>, minute |-> <<0, 59>>, dayOfMonth |-> <<1, 31>>, month |-> <<1, 12>>,
   intervalMinutes |-> <<1, 59>>, intervalHours |-> <<1, 23>>]
Bounded(field, n) == Min({Bounds[field][2], Max({Bounds[field][1], n})})

Presets == {"daily", "weekly", "monthly", "yearly", "every_minutes", "every_hours", "custom"}

\* What one act of the user can make of a form.
Edits(f) ==
  IF f.type = "one_time" THEN {[f EXCEPT !.dated = ~ @]}
  ELSE {ApplyPreset(f, preset) : preset \in Presets}
    \cup {UpdateField(f, field, Bounded(field, n)) : field \in Shows(f.preset), n \in Numbers}
    \cup {UpdateField(f, "weekdays", ToggledWeekdays(f.fields.weekdays, day)) :
            day \in IF f.preset = "weekly" THEN 0..2 ELSE {}}
    \cup {UpdateRawCron(f, cron) : cron \in RawCrons \cup {NoCron, BadCron}}
\* The type of a reminder that is there cannot be changed.
Retyped(f) == IF f.id # New THEN {} ELSE {[f EXCEPT !.type = t] : t \in {"one_time", "recurring"}}

\* handleSubmit wants a date or a cron.
Complete(f) == IF f.type = "one_time" THEN f.dated ELSE f.cron # NoCron

-----------------------------------------------------------------------------
(* RemindersSection *)

Reminders == query.data
\* An edit form is there with its row.
Rendered(v, q) == IF v.edit.id \in DOMAIN q.data THEN v ELSE [v EXCEPT !.edit = NoForm]

AddReminder ==
  /\ Act
  /\ view.add = NoForm
  /\ view' = [view EXCEPT !.add = NewForm]
  /\ UNCHANGED <<db, query, net>>
\* Closes the form of a new reminder, and its own when it is open.
ToggleEdit(id) ==
  /\ Act
  /\ id \in DOMAIN Reminders
  /\ view' = [view EXCEPT !.add = NoForm,
                          !.edit = IF @.id = id THEN NoForm ELSE EditForm(id, Reminders[id])]
  /\ UNCHANGED <<db, query, net>>
EditIn(form) ==
  /\ Act
  /\ view[form] # NoForm
  /\ \E f \in Edits(view[form]) \cup Retyped(view[form]) : view' = [view EXCEPT ![form] = f]
  /\ UNCHANGED <<db, query, net>>
Cancel(form) ==
  /\ view[form] # NoForm
  /\ view' = [view EXCEPT ![form] = NoForm]
  /\ UNCHANGED <<db, query, net, acts>>

\* The date of an edited reminder is not sent.
Submit(form) ==
  /\ CanSend
  /\ LET f == view[form]
     IN /\ f # NoForm /\ f.submitting = 0 /\ Complete(f)
        /\ net' = Send(net, [op |-> IF form = "add" THEN "create" ELSE "update", stage |-> "sent",
             id |-> f.id, type |-> f.type, cron |-> IF f.type = "recurring" THEN f.cron ELSE NoCron])
  /\ view' = [view EXCEPT ![form].submitting = Min(FreeSlots(net)), ![form].error = FALSE]
  /\ UNCHANGED <<db, query, acts>>

\* A click on the checkbox inside the button of a row counts for both.
ToggleActive(id) ==
  /\ Act /\ CanSend
  /\ id \in DOMAIN Reminders
  /\ net' = Send(net, [op |-> "toggle", stage |-> "sent", id |-> id, active |-> ~ Reminders[id].active])
  /\ UNCHANGED <<db, view, query>>
DeleteReminder(id) ==
  /\ Act /\ CanSend
  /\ id \in DOMAIN Reminders
  /\ net' = Send(net, [op |-> "delete", stage |-> "sent", id |-> id])
  /\ UNCHANGED <<db, view, query>>

-----------------------------------------------------------------------------
(* The server, which parses a cron but does not know the length of months *)

Answer(i, ok) == net' = [net EXCEPT ![i].stage = IF ok THEN "done" ELSE "failed"]
FreshIds == ReminderIds \ (DOMAIN db \cup {net[i].id : i \in {j \in Slots : net[j] # Free}})
Put(id, reminder) == [r \in DOMAIN db \cup {id} |-> IF r = id THEN reminder ELSE db[r]]
Without(id) == [r \in DOMAIN db \ {id} |-> db[r]]

ServeCreate(i) ==
  /\ net[i].op = "create" /\ net[i].stage = "sent"
  /\ net[i].cron # BadCron => FreshIds # {}
  /\ db' = IF net[i].cron = BadCron THEN db
           ELSE Put(Min(FreshIds), [type |-> net[i].type, cron |-> net[i].cron, active |-> TRUE])
  /\ Answer(i, net[i].cron # BadCron)
  /\ UNCHANGED <<view, query, acts>>
ServeUpdate(i) ==
  /\ net[i].op = "update" /\ net[i].stage = "sent"
  /\ LET id == net[i].id
         ok == id \in DOMAIN db /\ net[i].cron # BadCron
     IN /\ db' = IF ok /\ net[i].cron # NoCron THEN [db EXCEPT ![id].cron = net[i].cron] ELSE db
        /\ Answer(i, ok)
  /\ UNCHANGED <<view, query, acts>>
ServeToggle(i) ==
  /\ net[i].op = "toggle" /\ net[i].stage = "sent"
  /\ LET ok == net[i].id \in DOMAIN db
     IN /\ db' = IF ok THEN [db EXCEPT ![net[i].id].active = net[i].active] ELSE db
        /\ Answer(i, ok)
  /\ UNCHANGED <<view, query, acts>>
ServeDelete(i) ==
  /\ net[i].op = "delete" /\ net[i].stage = "sent"
  /\ db' = Without(net[i].id)
  /\ Answer(i, net[i].id \in DOMAIN db)
  /\ UNCHANGED <<view, query, acts>>
ServeQuery ==
  /\ query.stage = "sent"
  /\ query' = Serve(query, db)
  /\ UNCHANGED <<db, view, net, acts>>

-----------------------------------------------------------------------------
(* The answers *)

\* handleCreate closes both forms, handleUpdate whichever edit form is open.
Closed(op) ==
  CASE op = "create" -> [view EXCEPT !.add = NoForm, !.edit = NoForm]
    [] op = "update" -> [view EXCEPT !.edit = NoForm]
    [] op \in {"toggle", "delete"} -> view
Succeeded(i) ==
  /\ net[i].stage = "done"
  /\ query' = Invalidate(query, TRUE)
  /\ view' = Closed(net[i].op)
  /\ net' = Settle(net, i)
  /\ UNCHANGED <<db, acts>>

\* The form shows why; a toggle or a delete that fails is ignored.
Failed(i) ==
  /\ net[i].stage = "failed"
  /\ view' = [form \in {"add", "edit"} |->
       IF view[form] # NoForm /\ view[form].submitting = i
       THEN [view[form] EXCEPT !.submitting = 0, !.error = TRUE] ELSE view[form]]
  /\ net' = Settle(net, i)
  /\ UNCHANGED <<db, query, acts>>

LandQuery ==
  /\ query.stage = "served"
  /\ query' = Land(query)
  /\ view' = Rendered(view, query')
  /\ UNCHANGED <<db, net, acts>>

FailQuery ==
  /\ Act
  /\ ~ Idle(query)
  /\ query' = FetchFails(query)
  /\ UNCHANGED <<db, view, net>>
Lose(i) ==
  /\ Act
  /\ Losable(net, i)
  /\ query' = AfterLoss(net, i, query)
  /\ net' = Lost(net, i)
  /\ UNCHANGED <<db, view>>

-----------------------------------------------------------------------------

Init ==
  /\ \E r \in [type : {"recurring"}, cron : RawCrons, active : {TRUE}]
               \cup [type : {"one_time"}, cron : {NoCron}, active : {TRUE}] :
       db = [id \in {1} |-> r]
  /\ view = [add |-> NoForm, edit |-> NoForm]
  /\ query = Loaded(db)
  /\ net = [i \in Slots |-> Free]
  /\ acts = 0

Next ==
  \/ AddReminder \/ ServeQuery \/ LandQuery \/ FailQuery
  \/ \E id \in ReminderIds : ToggleEdit(id) \/ ToggleActive(id) \/ DeleteReminder(id)
  \/ \E form \in {"add", "edit"} : EditIn(form) \/ Cancel(form) \/ Submit(form)
  \/ \E i \in Slots :
       \/ ServeCreate(i) \/ ServeUpdate(i) \/ ServeToggle(i) \/ ServeDelete(i)
       \/ Succeeded(i) \/ Failed(i) \/ Lose(i)

Spec == Init /\ [][Next]_vars

-----------------------------------------------------------------------------
(* Properties *)

\* Once nothing is in flight, the section shows the reminders of the server,
\* unless an answer was lost or a fetch failed and nothing was fetched since.
RemindersSettle == Quiet(net) /\ Idle(query) /\ ~ query.missed => query.data = db

\* However preset, fields and raw cron were edited, and wherever the form
\* started, the cron a form sends is the schedule it shows, and the form of
\* the reminder saved with it shows that schedule again (lib/cron.ts:34: the
\* cron string is the single source of truth).
FormAgrees ==
  \A f \in {view.add, view.edit} \ {NoForm} :
    f.type = "recurring" /\ f.preset # "custom" =>
      /\ f.cron = PresetToCron(f.preset, f.fields)
      /\ IsValidCron(f.cron) =>
           LET again == EditForm(1, [type |-> f.type, cron |-> f.cron, active |-> TRUE])
           IN again.preset = f.preset /\ PresetToCron(again.preset, again.fields) = f.cron
=============================================================================
