------------------------------ MODULE TaskPage -------------------------------
(***************************************************************************)
(* TasksPage.tsx: the lists of tasks behind four tabs and a status filter, *)
(* each a query of its own, the form of a new task, and the cards with     *)
(* their buttons and the text edited in place.                             *)
(*                                                                         *)
(* Title and description go the same way: a text.  The priority, a filter  *)
(* like the status, is left out.  What the server does with a task is told *)
(* here as far as a page can see it: Tasks has its statements.             *)
(***************************************************************************)
EXTENDS Query

CONSTANTS
  TaskIds,   \* bound: ids the server gives to tasks, numbers
  Texts,     \* bound: titles
  Slots,     \* bound: requests in flight
  MaxActs    \* bound: acts of the user, losses and failures

VARIABLES
  db,      \* the server: the tasks
  view,    \* the page
  query,   \* the lists, by filters
  net,     \* the mutations in flight
  acts     \* how much of MaxActs is used

vars == <<db, view, query, net, acts>>

Any == ""
Never == ""
Statuses == {"todo", "in-progress", "done"}
Dates == {"none", "today", "later"}
NoTask == [live |-> FALSE]
Task(input, rule) ==
  [live |-> TRUE, text |-> input.text, due |-> input.due, status |-> input.status, rule |-> rule]
NoEdit == [id |-> 0]

Act == acts < MaxActs /\ acts' = acts + 1
CanSend == FreeSlots(net) # {}

-----------------------------------------------------------------------------
(* Filters and lists *)

Views == {"today", "backlog", "completed", "all"}
HasStatus(tab) == tab \notin {"today", "completed"}   \* the select is there
\* The status chosen in another tab still filters, but for today's list.
Filters(v) == [tab |-> v.tab, status |-> IF v.tab = "today" THEN Any ELSE v.status]
Lists == [tab : Views, status : Statuses \cup {Any}]

Belongs(task, f) ==
  /\ task.live
  /\ CASE f.tab = "all" -> TRUE
       [] f.tab = "today" -> task.status # "done" /\ task.due = "today"
       [] f.tab = "backlog" -> task.status # "done" /\ task.due = "none"
       [] f.tab = "completed" -> task.status = "done"
  /\ f.status \in {Any, task.status}
ListTasks(f) == [t \in {u \in TaskIds : Belongs(db[u], f)} |-> db[t]]

Key == Filters(view)
Shown == query[Key].data
Cards == IF query[Key].known THEN DOMAIN Shown ELSE {}

\* The card that is edited is gone when its list is.
Rendered(v, qs) ==
  IF v.edit.id \in DOMAIN qs[Filters(v)].data THEN v ELSE [v EXCEPT !.edit = NoEdit]

-----------------------------------------------------------------------------
(* The user.  A click outside a title that is edited saves it first. *)

Editing(field) == view.edit # NoEdit /\ view.edit.field = field
Click == Act /\ ~ Editing("title")

Filter(v) ==
  /\ query' = [query EXCEPT ![Filters(v)] = Observe(@)]
  /\ view' = Rendered(v, query')
  /\ UNCHANGED <<db, net>>

SelectView(tab) ==
  /\ Click
  /\ Filter([view EXCEPT !.tab = tab, !.status = IF tab = "today" THEN Any ELSE @])
SelectStatus(status) ==
  /\ Click
  /\ HasStatus(view.tab)
  /\ Filter([view EXCEPT !.status = status])

\* CreateTaskPanel: New task opens and closes the form, Cancel closes it.
ToggleForm ==
  /\ Click
  /\ view' = [view EXCEPT !.creating = ~ @, !.slot = 0]
  /\ UNCHANGED <<db, query, net>>
CreateTask(input) ==
  /\ Click /\ CanSend
  /\ view.creating /\ view.slot = 0
  /\ net' = Send(net, [op |-> "create", stage |-> "sent", input |-> input])
  /\ view' = [view EXCEPT !.slot = Min(FreeSlots(net))]
  /\ UNCHANGED <<db, query>>

SendUpdate(t, field, value) ==
  net' = Send(net, [op |-> "update", stage |-> "sent", id |-> t, field |-> field, value |-> value])

\* The buttons of a card are never disabled.
UpdateStatus(t, status) ==
  /\ Click /\ CanSend
  /\ t \in Cards
  /\ SendUpdate(t, "status", status)
  /\ UNCHANGED <<db, view, query>>
MoveToToday(t) ==
  /\ Click /\ CanSend
  /\ t \in Cards /\ Shown[t].due # "today" /\ Shown[t].status # "done"
  /\ SendUpdate(t, "due", "today")
  /\ UNCHANGED <<db, view, query>>
DeleteTask(t) ==
  /\ Click /\ CanSend
  /\ t \in Cards
  /\ net' = Send(net, [op |-> "delete", stage |-> "sent", id |-> t])
  /\ UNCHANGED <<db, view, query>>

\* Bound: one card is edited at a time.
StartEdit(t, field) ==
  /\ Click
  /\ t \in Cards
  /\ view.edit = NoEdit \/ (view.edit.id = t /\ field = "title")
  /\ view' = [view EXCEPT !.edit = [id |-> t, field |-> field, text |-> Shown[t].text]]
  /\ UNCHANGED <<db, query, net>>
TypeText(text) ==
  /\ Act
  /\ view.edit # NoEdit
  /\ view' = [view EXCEPT !.edit.text = text]
  /\ UNCHANGED <<db, query, net>>
\* Enter or leaving a title, Save of a description; an empty title is dropped.
SaveEdit ==
  /\ CanSend
  /\ view.edit # NoEdit
  /\ view' = [view EXCEPT !.edit = NoEdit]
  /\ IF Editing("title") /\ view.edit.text = "" THEN UNCHANGED net
     ELSE SendUpdate(view.edit.id, "text", view.edit.text)
  /\ UNCHANGED <<db, query, acts>>
\* Escape in a title, Cancel of a description.
CancelEdit ==
  /\ view.edit # NoEdit
  /\ view' = [view EXCEPT !.edit = NoEdit]
  /\ UNCHANGED <<db, query, net, acts>>

-----------------------------------------------------------------------------
(* The server *)

FreshIds ==
  {t \in TaskIds : db[t] = NoTask /\ \A i \in Slots : net[i].op \in {"update", "delete"} => net[i].id # t}
Answer(i, ok) == net' = [net EXCEPT ![i].stage = IF ok THEN "done" ELSE "failed"]

\* TaskHandler.Create passes no rule on.
ServeCreate(i) ==
  /\ net[i].op = "create" /\ net[i].stage = "sent"
  /\ FreshIds # {}
  /\ db' = [db EXCEPT ![Min(FreshIds)] = Task(net[i].input, Never)]
  /\ Answer(i, TRUE)
  /\ UNCHANGED <<view, query, acts>>

\* A recurring task that is completed has its next occurrence inserted.
NextOccurrence(task) == [task EXCEPT !.status = "todo", !.due = "later"]
ServeUpdate(i) ==
  /\ net[i].op = "update" /\ net[i].stage = "sent"
  /\ LET t == net[i].id
         new == [db[t] EXCEPT ![net[i].field] = net[i].value]
     IN \/ /\ ~ db[t].live
           /\ UNCHANGED db
        \/ /\ db[t].live
           /\ IF new.rule # Never /\ new.status = "done" /\ db[t].status # "done"
              THEN FreshIds # {} /\ db' = [db EXCEPT ![t] = new, ![Min(FreshIds)] = NextOccurrence(db[t])]
              ELSE db' = [db EXCEPT ![t] = new]
  /\ Answer(i, db[net[i].id].live)
  /\ UNCHANGED <<view, query, acts>>

ServeDelete(i) ==
  /\ net[i].op = "delete" /\ net[i].stage = "sent"
  /\ db' = [db EXCEPT ![net[i].id] = NoTask]
  /\ Answer(i, db[net[i].id].live)
  /\ UNCHANGED <<view, query, acts>>

ServeQuery(f) ==
  /\ query[f].stage = "sent"
  /\ query' = [query EXCEPT ![f] = Serve(@, ListTasks(f))]
  /\ UNCHANGED <<db, view, net, acts>>

-----------------------------------------------------------------------------
(* The answers *)

\* As if only the list on the page were invalidated.
InvalidatedShown == [query EXCEPT ![Key] = Invalidate(@, TRUE)]
\* onSuccess of the three mutations: the key "tasks" is that of every list.
Invalidated == [f \in Lists |-> Invalidate(query[f], f = Key)]

\* onDone closes the form that is open by then.
Succeeded(i) ==
  /\ net[i].stage = "done"
  /\ query' = Invalidated
  /\ view' = IF net[i].op = "create" THEN [view EXCEPT !.creating = FALSE, !.slot = 0] ELSE view
  /\ net' = Settle(net, i)
  /\ UNCHANGED <<db, acts>>

\* The form waits for another try; the cards ignore it.
Failed(i) ==
  /\ net[i].stage = "failed"
  /\ view' = IF view.slot = i THEN [view EXCEPT !.slot = 0] ELSE view
  /\ net' = Settle(net, i)
  /\ UNCHANGED <<db, query, acts>>

LandQuery(f) ==
  /\ query[f].stage = "served"
  /\ query' = [query EXCEPT ![f] = Land(@)]
  /\ view' = Rendered(view, query')
  /\ UNCHANGED <<db, net, acts>>

FailQuery(f) ==
  /\ Act
  /\ ~ Idle(query[f])
  /\ query' = [query EXCEPT ![f] = FetchFails(@)]
  /\ UNCHANGED <<db, view, net>>
Lose(i) ==
  /\ Act
  /\ Losable(net, i)
  /\ query' = [f \in Lists |-> AfterLoss(net, i, query[f])]
  /\ net' = Lost(net, i)
  /\ UNCHANGED <<db, view>>

-----------------------------------------------------------------------------

Inputs == [text : Texts, due : Dates, status : Statuses, rule : {Never, "daily"}]
NoTasks == <<>>

Init ==
  /\ \E input \in Inputs :
       db = [t \in TaskIds |-> IF t = 1 THEN Task(input, input.rule) ELSE NoTask]
  /\ view = [tab |-> "today", status |-> Any, creating |-> FALSE, slot |-> 0, edit |-> NoEdit]
  /\ query = [f \in Lists |-> IF f = Filters(view) THEN Opened(NoTasks) ELSE Unopened(NoTasks)]
  /\ net = [i \in Slots |-> Free]
  /\ acts = 0

Next ==
  \/ \E tab \in Views : SelectView(tab)
  \/ \E status \in Statuses \cup {Any} : SelectStatus(status)
  \/ ToggleForm \/ SaveEdit \/ CancelEdit
  \/ \E input \in Inputs : CreateTask(input)
  \/ \E t \in TaskIds :
       \/ MoveToToday(t) \/ DeleteTask(t)
       \/ \E status \in Statuses : UpdateStatus(t, status)
       \/ \E field \in {"title", "description"} : StartEdit(t, field)
  \/ \E text \in Texts \cup {""} : TypeText(text)
  \/ \E i \in Slots :
       \/ ServeCreate(i) \/ ServeUpdate(i) \/ ServeDelete(i)
       \/ Succeeded(i) \/ Failed(i) \/ Lose(i)
  \/ \E f \in Lists : ServeQuery(f) \/ LandQuery(f) \/ FailQuery(f)

Spec == Init /\ [][Next]_vars

-----------------------------------------------------------------------------
(* Properties *)

\* Once nothing is in flight, the list on the page is the one the server would
\* send (frontend.md:70), unless what is shown was on its way, first of all or
\* to a list that was left meanwhile, when a mutation succeeded, or an answer
\* was lost or its fetch failed and it was not fetched since.
TaskListSettles ==
  Quiet(net) /\ Idle(query[Key]) /\ ~ query[Key].missed => Shown = ListTasks(Key)
=============================================================================
