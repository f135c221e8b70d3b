------------------------------- MODULE Tasks -------------------------------
(***************************************************************************)
(* Tasks and their recurrence: table tasks, and the handlers that create,  *)
(* update and delete its rows. An update reads the row, merges what the    *)
(* request supplies into what it read, writes every column back and, when  *)
(* the request completes a recurring task, inserts its next occurrence:    *)
(* three statements without a transaction, one step each.                  *)
(*                                                                         *)
(* Title, description, priority and estimate are carried along and decide  *)
(* nothing; they are left out.                                             *)
(***************************************************************************)
EXTENDS Recurrence, FiniteSets

CONSTANTS
  Ids,             \* ids the table may give to tasks
  Requests,        \* update handlers that may be in flight at once
  Rescheduling,    \* bound: those whose request may change more than the status
  Dates,           \* dates a client may schedule a task for
  RulesUsed,       \* recurrence rules a client may supply
  StatusesUsed,    \* statuses a client may supply
  FirstDay,        \* bound: the first value of CURRENT_DATE
  LastDay,         \* bound: the last one
  Horizon,         \* bound: a task dated later gets no further update
  MaxCompletions,  \* bound: a task completed so often gets no further update
  MaxOverlaps      \* bound: so many updates of a task begin while another is in flight

ASSUME TaskDatesAssumption == Dates \subseteq Nat /\ {FirstDay, LastDay} \subseteq Nat
ASSUME TaskRulesAssumption == RulesUsed \subseteq Rules
ASSUME TaskStatusesAssumption == StatusesUsed \subseteq {"todo", "in-progress", "done"}
ASSUME TaskRequestsAssumption == IsFiniteSet(Requests) /\ Rescheduling \subseteq Requests
ASSUME TaskBoundAssumption == {Horizon, MaxCompletions, MaxOverlaps} \subseteq Nat

VARIABLES
  today,        \* the date of the clock
  tasks,        \* table tasks
  req,          \* the update each handler is serving
  completions,  \* history: how often each recurring task was completed
  spawned,      \* history: how many next occurrences of it were inserted
  dropped,      \* history: how many were not, because the handler failed
  overlaps      \* history: how many updates of it read while another was to write it

vars == <<today, tasks, req, completions, spawned, dropped, overlaps>>

NoId == "none"
Statuses == {"todo", "in-progress", "done"}

Gone == [there |-> FALSE, date |-> NoDate, status |-> "todo", rule |-> NoRule,
         completed |-> NoDate]
ReqIdle == [pc |-> "idle", id |-> NoId, current |-> Gone, params |-> Gone]

Referenced(m) == \E r \in Requests : req[r].id = m

\* The updates of task m that have read it and not written it yet.
Writing(m) == {r \in Requests : req[r].pc = "write" /\ req[r].id = m}

\* The INSERT: completed_at is set when the task is created done.
NewTask(date, status, rule) ==
  [there |-> TRUE, date |-> date, status |-> status, rule |-> rule,
   completed |-> IF status = "done" THEN today ELSE NoDate]

\* TaskHandler.Create passes neither the rule nor the estimate of the request on.
Create(m, date, status) ==
  /\ ~ tasks[m].there /\ ~ Referenced(m)
  /\ tasks' = [tasks EXCEPT ![m] = NewTask(date, status, NoRule)]
  /\ completions' = [completions EXCEPT ![m] = 0]
  /\ spawned' = [spawned EXCEPT ![m] = 0]
  /\ dropped' = [dropped EXCEPT ![m] = 0]
  /\ overlaps' = [overlaps EXCEPT ![m] = 0]
  /\ UNCHANGED <<today, req>>

\* Update, first statement: GetByID, then the merge; a field that is not supplied keeps
\* the value just read.
UpdateRead(r, m, date, status, rule) ==
  /\ req[r] = ReqIdle
  /\ tasks[m].there /\ completions[m] < MaxCompletions /\ tasks[m].date <= Horizon
  /\ req' = [req EXCEPT ![r] =
       [pc |-> "write", id |-> m, current |-> tasks[m],
        params |-> [tasks[m] EXCEPT !.date = date, !.status = status, !.rule = rule]]]
  /\ (r \in Rescheduling \/ (date = tasks[m].date /\ rule = tasks[m].rule))
  /\ \/ Writing(m) = {} /\ UNCHANGED overlaps
     \/ /\ Writing(m) # {} /\ overlaps[m] < MaxOverlaps
        /\ overlaps' = [overlaps EXCEPT ![m] = @ + 1]
  /\ UNCHANGED <<today, tasks, completions, spawned, dropped>>

\* completed_at = CASE ...
CompletedAtNeverReset(row, status) ==
  IF status = "done" /\ row.completed = NoDate THEN today ELSE row.completed
CompletedAtAlways(row, status) == IF status = "done" THEN today ELSE NoDate
CompletedAt(row, status) ==
  IF status # "done" THEN NoDate
  ELSE IF row.completed = NoDate THEN today ELSE row.completed

\* The update completes the recurring task it read.
SpawnsAgain(q) == q.params.status = "done" /\ q.current.rule # NoRule
Spawns(q) == q.params.status = "done" /\ q.current.rule # NoRule /\ q.current.status # "done"

\* The write completes a task that recurs, as stored or as the handler read it.
Completes(m, q) ==
  /\ tasks[m].status # "done" /\ q.params.status = "done"
  /\ {tasks[m].rule, q.current.rule} # {NoRule}

\* Update, second statement: every column gets its value from the merge.
UpdateWrite(r) ==
  /\ req[r].pc = "write"
  /\ LET q == req[r]
         m == q.id
     IN  \/ /\ tasks[m].there
            /\ tasks' = [tasks EXCEPT ![m].date = q.params.date,
                                      ![m].status = q.params.status,
                                      ![m].rule = q.params.rule,
                                      ![m].completed = CompletedAt(tasks[m], q.params.status)]
            /\ completions' = IF Completes(m, q) THEN [completions EXCEPT ![m] = @ + 1]
                                                 ELSE completions
            /\ req' = [req EXCEPT ![r] = IF Spawns(q) THEN [q EXCEPT !.pc = "spawn"] ELSE ReqIdle]
         \/ /\ ~ tasks[m].there
            /\ req' = [req EXCEPT ![r] = ReqIdle]
            /\ UNCHANGED <<tasks, completions>>
  /\ UNCHANGED <<today, spawned, dropped, overlaps>>

\* createRecurringTask: the next occurrence is made of the row as it was read.
UpdateSpawn(r) ==
  /\ req[r].pc = "spawn"
  /\ \E n \in Ids :
       LET q == req[r] IN
         /\ ~ tasks[n].there /\ ~ Referenced(n)
         /\ tasks' = [tasks EXCEPT ![n] =
              NewTask(NextRecurrenceDate(q.current.date, q.current.rule, today), "todo", q.current.rule)]
         /\ spawned' = [spawned EXCEPT ![q.id] = @ + 1, ![n] = 0]
         /\ completions' = [completions EXCEPT ![n] = 0]
         /\ dropped' = [dropped EXCEPT ![n] = 0]
         /\ overlaps' = [overlaps EXCEPT ![n] = 0]
         /\ req' = [req EXCEPT ![r] = ReqIdle]
  /\ UNCHANGED today

\* A statement fails or the instance dies: what is written stays.
UpdateAbort(r) ==
  /\ req[r].pc # "idle"
  /\ dropped' = IF req[r].pc = "spawn" THEN [dropped EXCEPT ![req[r].id] = @ + 1] ELSE dropped
  /\ req' = [req EXCEPT ![r] = ReqIdle]
  /\ UNCHANGED <<today, tasks, completions, spawned, overlaps>>

\* The DELETE of TaskModel.Delete (module ActiveFocus has the count before it).
Delete(m) ==
  /\ tasks[m].there
  /\ tasks' = [tasks EXCEPT ![m] = Gone]
  /\ UNCHANGED <<today, req, completions, spawned, dropped, overlaps>>

Midnight ==
  /\ today < LastDay
  /\ today' = today + 1
  /\ UNCHANGED <<tasks, req, completions, spawned, dropped, overlaps>>

Init ==
  /\ today = FirstDay
  /\ tasks = [m \in Ids |-> Gone]
  /\ req = [r \in Requests |-> ReqIdle]
  /\ completions = [m \in Ids |-> 0]
  /\ spawned = [m \in Ids |-> 0]
  /\ dropped = [m \in Ids |-> 0]
  /\ overlaps = [m \in Ids |-> 0]

Next ==
  \/ \E m \in Ids, d \in Dates \cup {NoDate}, s \in StatusesUsed : Create(m, d, s)
  \/ \E r \in Requests, m \in Ids, s \in StatusesUsed, u \in RulesUsed \cup {NoRule} :
       \E d \in Dates \cup {NoDate, tasks[m].date} : UpdateRead(r, m, d, s, u)
  \/ \E r \in Requests : UpdateWrite(r) \/ UpdateSpawn(r) \/ UpdateAbort(r)
  \/ \E m \in Ids : Delete(m)
  \/ Midnight

Spec == Init /\ [][Next]_vars

-----------------------------------------------------------------------------
(* Properties *)

\* Every variable has its type; completed_at is set exactly on the rows that are done,
\* whichever of the updates in flight wrote last.
TypeOK ==
  LET Row == [there : BOOLEAN, date : Nat \cup {NoDate}, status : Statuses,
              rule : Rules \cup {NoRule}, completed : Nat \cup {NoDate}]
  IN  /\ today \in Nat
      /\ tasks \in [Ids -> Row]
      /\ \A m \in Ids : tasks[m].completed # NoDate <=> tasks[m].status = "done"
      /\ req \in [Requests -> [pc : {"idle", "write", "spawn"}, id : Ids \cup {NoId},
                               current : Row, params : Row]]
      /\ {completions, spawned, dropped, overlaps} \subseteq [Ids -> Nat]

Spawning(m) == {r \in Requests : req[r].pc = "spawn" /\ req[r].id = m}

\* The next occurrences a task has got, was refused by a failure, or is about to get.
Followed(m) == spawned[m] + dropped[m] + Cardinality(Spawning(m))

\* Completing a recurring task creates its next occurrence, once for every time it is
\* completed, and saving a done task again creates none; whatever updates overlap, the
\* occurrences are off by no more than the number of updates of the task that read it
\* while another had still to write it. Where none did the two are equal, but for the
\* occurrences a failing handler did not insert.
OccurrencePerCompletion ==
  \A m \in Ids : /\ Followed(m) <= completions[m] + overlaps[m]
                 /\ completions[m] <= Followed(m) + overlaps[m]

\* However updates overlap, a task is not followed by more occurrences than it has had
\* completions. (False: two updates that both read the task before it is done.)
NoExtraOccurrence == \A m \in Ids : spawned[m] <= completions[m]

\* The step that inserts an occurrence of a dated task dates it later than the task it
\* follows, on no weekend if the rule says weekdays, as a task to do that recurs in turn.
OccurrenceIsLater ==
  [][\A r \in Requests, n \in Ids :
       req[r].pc = "spawn" /\ req'[r].pc = "idle" /\ ~ tasks[n].there /\ tasks'[n].there =>
         /\ tasks'[n].status = "todo" /\ tasks'[n].rule = req[r].current.rule
         /\ tasks'[n].date > req[r].current.date
         /\ req[r].current.rule = "weekdays" /\ req[r].current.date # NoDate
              => ~ Weekend(tasks'[n].date)]_vars

\* A task that stays done keeps the date it was first completed on, though every update
\* writes the column.
CompletionKept ==
  [][\A m \in Ids : tasks[m].there /\ tasks[m].status = "done" /\ tasks'[m].status = "done" =>
       tasks'[m].completed = tasks[m].completed]_vars
=============================================================================
