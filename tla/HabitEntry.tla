----------------------------- MODULE HabitEntry ------------------------------
(***************************************************************************)
(* One habit on the habits page: its cells in the matrix, the row of the   *)
(* manage dialog in which it is edited, and the server's row and logs      *)
(* behind them.  The page reads two queries, the list (the dialog) and the *)
(* matrix (the table); every mutation invalidates both.                    *)
(*                                                                         *)
(* mutateAsync of an edit resolves only when the refetches it caused have  *)
(* landed, since onSuccess returns their promise; that of a log, at once.  *)
(***************************************************************************)
EXTENDS HabitRules, Query

CONSTANTS
  Today,     \* the date, a day since a Sunday
  Names,     \* names the habit may be given
  Values,    \* bound: values typed into a numeric input
  Habits,    \* bound: the rules the habit may have been created with
  Slots,     \* bound: requests in flight
  MaxActs    \* bound: acts of the user, losses and failures

VARIABLES
  db,      \* the server: the habit and its logs
  view,    \* the edit row of the dialog
  query,   \* the queries list and matrix
  net,     \* the mutations in flight
  acts     \* how much of MaxActs is used

vars == <<db, view, query, net, acts>>

\* The cells that are not disabled whatever the schedule.
Dates == {d \in WeekRange(Today) : d <= Today}
NoLog == -1
NoEdit == [open |-> FALSE]

HasLog(m, date) == m.log[date] # NoLog
ValueFor(m, date) == IF HasLog(m, date) THEN m.log[date] ELSE 0
Met(m, date) == HasLog(m, date) /\ IsHabitMet(m.habit, ValueFor(m, date))
Disabled(m, date) == ~ IsScheduledOn(m.habit, date) \/ date > Today

Act == acts < MaxActs /\ acts' = acts + 1
CanSend == FreeSlots(net) # {}

-----------------------------------------------------------------------------
(* The matrix; the dialog covers it while a row is edited *)

LogHabit(date, value) ==
  net' = Send(net, [op |-> "log", date |-> date, value |-> value, stage |-> "sent"])

ToggledValue(m, date) ==
  IF Met(m, date) THEN ValueThatFails(m.habit) ELSE DefaultLogValue(m.habit)

ToggleHabit(date) ==
  /\ Act /\ CanSend
  /\ ~ view.open
  /\ ~ Disabled(query.matrix.data, date)
  /\ LogHabit(date, ToggledValue(query.matrix.data, date))
  /\ UNCHANGED <<db, view, query>>

\* The popover of a numeric habit.
LogNumeric(date, value) ==
  /\ Act /\ CanSend
  /\ ~ view.open
  /\ ~ Disabled(query.matrix.data, date)
  /\ query.matrix.data.habit.type = "numeric"
  /\ LogHabit(date, value)
  /\ UNCHANGED <<db, view, query>>

-----------------------------------------------------------------------------
(* EditHabitRow *)

\* alone: when the row was opened no save was in flight, and the list had not
\* missed one.  slot: its own save.
OpenEdit ==
  /\ Act
  /\ ~ view.open
  /\ view' = [open |-> TRUE, draft |-> Draft(query.list.data), touched |-> {},
              alone |-> ~ Pending(net, "update") /\ ~ query.list.missed,
              slot |-> 0, error |-> FALSE]
  /\ UNCHANGED <<db, query, net>>

Offered(d, input) ==
  CASE input = "name" -> Names
    [] input = "type" -> Types
    [] input = "op" -> Operators
    [] input \in {"target", "max"} -> Values
    [] input = "frequency" -> Frequencies
    [] input = "days" -> {IF day \in d.days THEN d.days \ {day} ELSE d.days \cup {day} :
                            day \in {WeekdayOf(date) : date \in Dates}}

Enter(input) ==
  /\ Act
  /\ view.open
  /\ input \in Inputs(view.draft)
  /\ \E value \in Offered(view.draft, input) :
       view' = [view EXCEPT !.draft[input] = value, !.touched = @ \cup {input}]
  /\ UNCHANGED <<db, query, net>>

\* read is for the row the server will have read.
Save ==
  /\ CanSend
  /\ view.open /\ view.slot = 0
  /\ net' = Send(net, [op |-> "update", stage |-> "sent", alone |-> view.alone,
                       patch |-> Patch(view.draft, query.list.data),
                       touched |-> view.touched, read |-> view.draft])
  /\ view' = [view EXCEPT !.slot = Min(FreeSlots(net)), !.error = FALSE]
  /\ UNCHANGED <<db, query, acts>>

CancelEdit ==
  /\ view.open
  /\ view' = NoEdit
  /\ UNCHANGED <<db, query, net, acts>>

-----------------------------------------------------------------------------
(* The server: a PATCH reads the row, then writes all of it; a log checks  *)
(* the schedule, then is inserted                                          *)

Merged(h, patch) == [f \in DOMAIN h |-> IF f \in DOMAIN patch THEN patch[f] ELSE h[f]]

UpdateRead(i) ==
  /\ net[i].op = "update" /\ net[i].stage = "sent"
  /\ LET ok == ValidHabit(Merged(db.habit, net[i].patch))
     IN net' = [net EXCEPT ![i].read = db.habit, ![i].stage = IF ok THEN "read" ELSE "failed"]
  /\ UNCHANGED <<db, view, query, acts>>

UpdateWrite(i) ==
  /\ net[i].op = "update" /\ net[i].stage = "read"
  /\ db' = [db EXCEPT !.habit = Merged(net[i].read, net[i].patch)]
  /\ net' = [net EXCEPT ![i].stage = "done"]
  /\ UNCHANGED <<view, query, acts>>

LogCheck(i) ==
  /\ net[i].op = "log" /\ net[i].stage = "sent"
  /\ net' = [net EXCEPT ![i].stage =
               IF HabitScheduledOn(db.habit, net[i].date) THEN "checked" ELSE "failed"]
  /\ UNCHANGED <<db, view, query, acts>>

LogInsert(i) ==
  /\ net[i].op = "log" /\ net[i].stage = "checked"
  /\ db' = [db EXCEPT !.log[net[i].date] = net[i].value]
  /\ net' = [net EXCEPT ![i].stage = "done"]
  /\ UNCHANGED <<view, query, acts>>

ServeQuery(q) ==
  /\ query[q].stage = "sent"
  /\ query' = [query EXCEPT ![q] = Serve(@, IF q = "list" THEN db.habit ELSE db)]
  /\ UNCHANGED <<db, view, net, acts>>

-----------------------------------------------------------------------------
(* The answers *)

\* As if a log only invalidated the list.
InvalidateList(qs) == [qs EXCEPT !.list = Invalidate(@, TRUE)]
InvalidateHabits(qs) == [q \in DOMAIN qs |-> Invalidate(qs[q], TRUE)]

LogAnswered(i) ==
  /\ net[i].op = "log" /\ net[i].stage \in {"done", "failed"}
  /\ net' = Settle(net, i)
  /\ query' = IF net[i].stage = "done" THEN InvalidateHabits(query) ELSE query
  /\ UNCHANGED <<db, view, acts>>

UpdateRefused(i) ==
  /\ net[i].op = "update" /\ net[i].stage = "failed"
  /\ net' = Settle(net, i)
  /\ view' = IF view.open /\ view.slot = i THEN [view EXCEPT !.slot = 0, !.error = TRUE] ELSE view
  /\ UNCHANGED <<db, query, acts>>

\* As if nobody waited for the refetches.
UpdateAcceptedAtOnce(i) ==
  /\ net[i].op = "update" /\ net[i].stage = "done"
  /\ query' = InvalidateHabits(query)
  /\ net' = Settle(net, i)
  /\ view' = NoEdit
  /\ UNCHANGED <<db, acts>>
\* onSuccess of useUpdateHabit; the caller goes on when the refetches have landed.
UpdateAccepted(i) ==
  /\ net[i].op = "update" /\ net[i].stage = "done"
  /\ query' = InvalidateHabits(query)
  /\ net' = [net EXCEPT ![i].stage = "refetching"]
  /\ UNCHANGED <<db, view, acts>>

Saved(n) == {i \in DOMAIN n : n[i].op = "update" /\ n[i].stage = "refetching"}

\* Whoever waits for the last fetch goes on when it is over: onDone closes the
\* edit row that is open then.
Fetched(q, new) ==
  /\ query' = [query EXCEPT ![q] = new]
  /\ IF \A other \in DOMAIN query \ {q} : Idle(query[other])
     THEN /\ net' = [i \in DOMAIN net |-> IF i \in Saved(net) THEN Free ELSE net[i]]
          /\ view' = IF Saved(net) # {} THEN NoEdit ELSE view
     ELSE UNCHANGED <<net, view>>
  /\ UNCHANGED db
LandQuery(q) == query[q].stage = "served" /\ Fetched(q, Land(query[q])) /\ UNCHANGED acts
FailQuery(q) == Act /\ ~ Idle(query[q]) /\ Fetched(q, FetchFails(query[q]))

Lose(i) ==
  /\ Act
  /\ Losable(net, i)
  /\ query' = [q \in DOMAIN query |-> AfterLoss(net, i, query[q])]
  /\ net' = Lost(net, i)
  /\ UNCHANGED <<db, view>>

-----------------------------------------------------------------------------

Init ==
  /\ db \in [habit : Habits, log : {[d \in Dates |-> NoLog]}]
  /\ view = NoEdit
  /\ query = [list |-> Loaded(db.habit), matrix |-> Loaded(db)]
  /\ net = [i \in Slots |-> Free]
  /\ acts = 0

Next ==
  \/ \E date \in Dates : ToggleHabit(date) \/ \E value \in Values : LogNumeric(date, value)
  \/ OpenEdit \/ Save \/ CancelEdit
  \/ \E input \in {"name", "type", "op", "target", "max", "frequency", "days"} : Enter(input)
  \/ \E i \in Slots :
       \/ UpdateRead(i) \/ UpdateWrite(i) \/ LogCheck(i) \/ LogInsert(i)
       \/ LogAnswered(i) \/ UpdateRefused(i) \/ UpdateAccepted(i) \/ Lose(i)
  \/ \E q \in DOMAIN query : ServeQuery(q) \/ LandQuery(q) \/ FailQuery(q)

Spec == Init /\ [][Next]_vars

-----------------------------------------------------------------------------
(* Properties *)

\* What the page computes of a habit and a value is what the server computes
\* (habitMatrixUtils.ts:66: keep this in sync with the Go version).
MirrorInSync ==
  LET h == query.list.data
  IN /\ \A value \in Values :
          /\ IsHabitMet(h, value) = HabitCompleted(h, value)
          /\ SamePercent(ComputeCompletionStatus(h, value), HabitCompletionState(h, value))
     /\ \A date \in WeekRange(Today) : IsScheduledOn(h, date) = HabitScheduledOn(h, date)

\* Once nothing is in flight, the table and the dialog show what the server
\* has, whatever the order in which logs, edits and refetches were served,
\* unless an answer was lost or a fetch failed and nothing was fetched since.
CellsSettle ==
  Quiet(net) /\ (\A q \in DOMAIN query : Idle(query[q])) =>
    /\ ~ query.matrix.missed => query.matrix.data = db
    /\ ~ query.list.missed => query.list.data = db.habit

\* A save from a row that was opened while no save was in flight, on a list that
\* had missed none, changes no field of the habit but those the user entered
\* (the maximum is always sent), even when the list was fetched again under the
\* open row.  Only a save that another one overtook, between the read and the
\* write of all columns, puts fields back that it was not about.
KeepsUntouchedFields ==
  \A i \in Slots :
    UpdateWrite(i) /\ net[i].alone /\ net[i].read = db.habit =>
      \A f \in DOMAIN db.habit \ (net[i].touched \cup {"max"}) :
        db'.habit[f] = db.habit[f]
=============================================================================
