---------------------------- MODULE TasksProofs ----------------------------
(***************************************************************************)
(* What holds of Tasks for any number of tasks and requests, any dates and *)
(* any calendar.                                                           *)
(***************************************************************************)
EXTENDS Tasks, FiniteSetTheorems, TLAPS

Row == [there : BOOLEAN, date : Nat \cup {NoDate}, status : Statuses,
        rule : Rules \cup {NoRule}, completed : Nat \cup {NoDate}]

\* A month has 28 to 31 days, whatever month it is.
LEMMA MonthLengthRange == ASSUME NEW m PROVE MonthLength(m) \in 28..31
  BY DEF MonthLength

\* After any day there is, within three days, a first one that is not at the weekend.
LEMMA NextWeekdayFact ==
  ASSUME NEW d \in Nat
  PROVE  NextWeekday(d) \in d + 1 .. d + 3 /\ ~ Weekend(NextWeekday(d))
<1> DEFINE First(e) == ~ Weekend(e) /\ \A f \in d + 1 .. e - 1 : Weekend(f)
<1>1. \E e \in d + 1 .. d + 3 : First(e)
  <2>1. ~ Weekend(d + 1) \/ ~ Weekend(d + 2) \/ ~ Weekend(d + 3)
    BY CalendarAssumption DEF Weekend
  <2>2. CASE ~ Weekend(d + 1)
    BY <2>2
  <2>3. CASE Weekend(d + 1) /\ ~ Weekend(d + 2)
    <3>1. \A f \in d + 1 .. (d + 2) - 1 : f = d + 1
      OBVIOUS
    <3> QED BY <2>3, <3>1
  <2>4. CASE Weekend(d + 1) /\ Weekend(d + 2) /\ ~ Weekend(d + 3)
    <3>1. \A f \in d + 1 .. (d + 3) - 1 : f = d + 1 \/ f = d + 2
      OBVIOUS
    <3> QED BY <2>4, <3>1
  <2> QED BY <2>1, <2>2, <2>3, <2>4
<1>2. NextWeekday(d) = CHOOSE e \in d + 1 .. d + 3 : First(e)
  BY DEF NextWeekday
<1> QED BY <1>1, <1>2

\* The next date of a dated task is later than its date, and on no weekend if the rule
\* says weekdays; of an undated one it is the day of the clock.
LEMMA NextDateIsLater ==
  ASSUME NEW d \in Nat, NEW rule \in Rules, NEW t \in Nat
  PROVE  /\ NextRecurrenceDate(d, rule, t) \in Nat
         /\ NextRecurrenceDate(d, rule, t) > d
         /\ rule = "weekdays" => ~ Weekend(NextRecurrenceDate(d, rule, t))
<1>1. d # NoDate
  BY DEF NoDate
<1>2. CASE rule = "daily"
  BY <1>1, <1>2 DEF NextRecurrenceDate
<1>3. CASE rule = "weekdays"
  BY <1>1, <1>3, NextWeekdayFact DEF NextRecurrenceDate
<1>4. CASE rule = "weekly"
  BY <1>1, <1>4 DEF NextRecurrenceDate
<1>5. CASE rule = "monthly"
  BY <1>1, <1>5, MonthLengthRange DEF NextRecurrenceDate, AddMonth
<1> QED BY <1>2, <1>3, <1>4, <1>5 DEF Rules

-----------------------------------------------------------------------------
(* The inductive invariant: the types, and what a request in flight carries *)

Carried ==
  \A r \in Requests : req[r].pc # "idle" =>
    /\ req[r].id \in Ids
    /\ req[r].pc = "spawn" => req[r].current.rule # NoRule

\* The inductive invariant.
TInv == TypeOK /\ Carried

\* The absent task is a row: to do, and never completed.
LEMMA GoneIsRow == Gone \in Row /\ Gone.status = "todo" /\ Gone.completed = NoDate /\ ~ Gone.there
  BY DEF Gone, Row, Statuses

\* An inserted task is a row that is completed exactly if it is created done.
LEMMA NewTaskIsRow ==
  ASSUME today \in Nat, NEW d \in Nat \cup {NoDate}, NEW s \in Statuses, NEW u \in Rules \cup {NoRule}
  PROVE  /\ NewTask(d, s, u) \in Row
         /\ NewTask(d, s, u).completed # NoDate <=> NewTask(d, s, u).status = "done"
  BY DEF NewTask, Row, NoDate

\* The empty table satisfies the invariant.
LEMMA InitInv == Init => TInv
  BY GoneIsRow, TaskDatesAssumption
  DEF Init, TInv, TypeOK, Carried, ReqIdle, Row, Statuses

\* Every step keeps the invariant, however many updates are in flight.
LEMMA StepInv == ASSUME TInv, [Next]_vars PROVE TInv'
<1> USE DEF TInv
<1> DEFINE Done(x) == x.completed # NoDate <=> x.status = "done"
<1>t. /\ today \in Nat
      /\ tasks \in [Ids -> Row]
      /\ \A m \in Ids : Done(tasks[m])
      /\ req \in [Requests -> [pc : {"idle", "write", "spawn"}, id : Ids \cup {NoId},
                               current : Row, params : Row]]
      /\ completions \in [Ids -> Nat] /\ spawned \in [Ids -> Nat]
      /\ dropped \in [Ids -> Nat] /\ overlaps \in [Ids -> Nat]
  BY DEF TypeOK, Row
<1>q. ASSUME /\ today' \in Nat
             /\ tasks' \in [Ids -> Row]
             /\ \A m \in Ids : Done(tasks'[m])
             /\ req' \in [Requests -> [pc : {"idle", "write", "spawn"}, id : Ids \cup {NoId},
                                       current : Row, params : Row]]
             /\ completions' \in [Ids -> Nat] /\ spawned' \in [Ids -> Nat]
             /\ dropped' \in [Ids -> Nat] /\ overlaps' \in [Ids -> Nat]
      PROVE  TypeOK'
  BY <1>q DEF TypeOK, Row
<1>i. ReqIdle \in [pc : {"idle", "write", "spawn"}, id : Ids \cup {NoId}, current : Row, params : Row]
  BY GoneIsRow DEF ReqIdle
<1>1. ASSUME NEW m \in Ids, NEW d \in Dates \cup {NoDate}, NEW s \in StatusesUsed, Create(m, d, s)
      PROVE  TInv'
  <2>1. d \in Nat \cup {NoDate} /\ NoRule \in Rules \cup {NoRule}
    BY TaskDatesAssumption
  <2>5. s \in Statuses
    BY TaskStatusesAssumption DEF Statuses
  <2>2. NewTask(d, s, NoRule) \in Row /\ Done(NewTask(d, s, NoRule))
    BY <1>t, <2>1, <2>5, NewTaskIsRow
  <2>3. tasks' \in [Ids -> Row] /\ \A x \in Ids : Done(tasks'[x])
    BY <1>1, <1>t, <2>2 DEF Create
  <2>4. TypeOK'
    BY <1>1, <1>t, <1>q, <2>3 DEF Create
  <2> QED BY <1>1, <2>4 DEF Create, Carried
<1>2. ASSUME NEW r \in Requests, NEW m \in Ids, NEW s \in StatusesUsed, NEW u \in RulesUsed \cup {NoRule},
             NEW d \in Dates \cup {NoDate, tasks[m].date}, UpdateRead(r, m, d, s, u)
      PROVE  TInv'
  <2>1. d \in Nat \cup {NoDate} /\ u \in Rules \cup {NoRule} /\ s \in Statuses
    BY <1>t, TaskDatesAssumption, TaskRulesAssumption, TaskStatusesAssumption DEF Row, Statuses
  <2> HIDE DEF Row
  <2>6. tasks[m] \in Row
    BY <1>t
  <2>2. [tasks[m] EXCEPT !.date = d, !.status = s, !.rule = u] \in Row
    BY <2>1, <2>6 DEF Row
  <2>3. req' \in [Requests -> [pc : {"idle", "write", "spawn"}, id : Ids \cup {NoId},
                               current : Row, params : Row]]
    BY <1>2, <1>t, <2>2 DEF UpdateRead
  <2>4. TypeOK'
    BY <1>2, <1>t, <1>q, <2>3 DEF UpdateRead
  <2>5. Carried'
    BY <1>2, <1>t DEF UpdateRead, Carried
  <2> QED BY <2>4, <2>5
<1>3. ASSUME NEW r \in Requests, UpdateWrite(r) PROVE TInv'
  <2> DEFINE q == req[r]
             m == q.id
             row == [tasks[m] EXCEPT !.date = q.params.date, !.status = q.params.status,
                                     !.rule = q.params.rule,
                                     !.completed = CompletedAt(tasks[m], q.params.status)]
  <2>1. q.pc = "write" /\ m \in Ids /\ q.params \in Row /\ tasks[m] \in Row /\ Done(tasks[m])
    BY <1>3, <1>t DEF UpdateWrite, Carried
  <2>2. today \in Nat /\ today # NoDate
    BY <1>t DEF NoDate
  <2>3. CompletedAt(tasks[m], q.params.status) \in Nat \cup {NoDate}
    BY <2>1, <2>2 DEF CompletedAt, Row
  <2>4. CompletedAt(tasks[m], q.params.status) # NoDate <=> q.params.status = "done"
    BY <2>1, <2>2 DEF CompletedAt
  <2>5. row \in Row /\ Done(row)
    BY <2>1, <2>3, <2>4 DEF Row
  <2>6. tasks' = tasks \/ tasks' = [tasks EXCEPT ![m] = row]
    BY <1>3, <1>t, <2>1 DEF UpdateWrite, Row
  <2>7. tasks' \in [Ids -> Row] /\ \A x \in Ids : Done(tasks'[x])
    <3>1. CASE tasks' = tasks
      BY <3>1, <1>t
    <3>2. CASE tasks' = [tasks EXCEPT ![m] = row]
      BY <3>2, <1>t, <2>5, <2>1
    <3> QED BY <2>6, <3>1, <3>2
  <2>8. completions' \in [Ids -> Nat]
    BY <1>3, <1>t, <2>1 DEF UpdateWrite
  <2>9. \/ req' = [req EXCEPT ![r] = ReqIdle]
        \/ Spawns(q) /\ req' = [req EXCEPT ![r] = [q EXCEPT !.pc = "spawn"]]
    BY <1>3 DEF UpdateWrite
  <2>10. req' \in [Requests -> [pc : {"idle", "write", "spawn"}, id : Ids \cup {NoId},
                               current : Row, params : Row]]
    BY <2>9, <1>t, <1>i
  <2>11. TypeOK'
    BY <1>3, <1>t, <1>q, <2>7, <2>8, <2>10 DEF UpdateWrite
  <2>12. Carried'
    BY <2>9, <2>1, <1>t DEF Carried, Spawns, ReqIdle
  <2> QED BY <2>11, <2>12
<1>4. ASSUME NEW r \in Requests, UpdateSpawn(r) PROVE TInv'
  <2> DEFINE q == req[r]
             new == NewTask(NextRecurrenceDate(q.current.date, q.current.rule, today), "todo", q.current.rule)
  <2>1. PICK n \in Ids : /\ tasks' = [tasks EXCEPT ![n] = new]
                         /\ spawned' = [spawned EXCEPT ![q.id] = @ + 1, ![n] = 0]
                         /\ completions' = [completions EXCEPT ![n] = 0]
                         /\ dropped' = [dropped EXCEPT ![n] = 0]
                         /\ overlaps' = [overlaps EXCEPT ![n] = 0]
                         /\ req' = [req EXCEPT ![r] = ReqIdle]
                         /\ today' = today
    BY <1>4 DEF UpdateSpawn
  <2>2. q.current \in Row /\ q.current.rule \in Rules /\ q.id \in Ids
    BY <1>4, <1>t DEF UpdateSpawn, Carried, Row
  <2>3. NextRecurrenceDate(q.current.date, q.current.rule, today) \in Nat
    <3>1. CASE q.current.date = NoDate
      BY <3>1, <1>t DEF NextRecurrenceDate
    <3>2. CASE q.current.date \in Nat
      BY <3>2, <2>2, <1>t, NextDateIsLater
    <3> QED BY <3>1, <3>2, <2>2 DEF Row
  <2>4. new \in Row /\ Done(new)
    BY <1>t, <2>2, <2>3, NewTaskIsRow DEF Statuses
  <2>5. tasks' \in [Ids -> Row] /\ \A x \in Ids : Done(tasks'[x])
    BY <2>1, <1>t, <2>4
  <2>6. TypeOK'
    BY <2>1, <2>2, <2>5, <1>t, <1>q, <1>i
  <2>7. Carried'
    BY <2>1, <1>t DEF Carried, ReqIdle
  <2> QED BY <2>6, <2>7
<1>5. ASSUME NEW r \in Requests, UpdateAbort(r) PROVE TInv'
  <2>1. req[r].id \in Ids
    BY <1>5 DEF UpdateAbort, Carried
  <2>2. TypeOK'
    BY <1>5, <2>1, <1>t, <1>q, <1>i DEF UpdateAbort
  <2>3. Carried'
    BY <1>5, <1>t DEF UpdateAbort, Carried, ReqIdle
  <2> QED BY <2>2, <2>3
<1>6. ASSUME NEW m \in Ids, Delete(m) PROVE TInv'
  <2>1. tasks' \in [Ids -> Row] /\ \A x \in Ids : Done(tasks'[x])
    BY <1>6, <1>t, GoneIsRow DEF Delete
  <2>2. TypeOK'
    BY <1>6, <2>1, <1>t, <1>q DEF Delete
  <2> QED BY <1>6, <2>2 DEF Delete, Carried
<1>7. CASE Midnight
  <2>1. TypeOK'
    BY <1>7, <1>t, <1>q DEF Midnight
  <2> QED BY <1>7, <2>1 DEF Midnight, Carried
<1>8. CASE UNCHANGED vars
  BY <1>8 DEF vars, TypeOK, Carried
<1> QED BY <1>1, <1>2, <1>3, <1>4, <1>5, <1>6, <1>7, <1>8 DEF Next

\* Every variable keeps its type and completed_at is set exactly on the rows that are done,
\* whatever updates overlap or fail.
THEOREM TasksInvariant == Spec => []TInv
<1>1. TInv /\ [Next]_vars => TInv'
  BY StepInv
<1> QED BY InitInv, <1>1, PTL DEF Spec

\* The type invariant of the runs.
THEOREM TasksTypeCorrect == Spec => []TypeOK
<1>1. TInv => TypeOK
  BY DEF TInv
<1> QED BY TasksInvariant, <1>1, PTL

-----------------------------------------------------------------------------
(* Action properties *)

\* The occurrence that follows a dated task is later, and on no weekend under the rule
\* weekdays, for every calendar and every date.
THEOREM LaterOccurrence == Spec => OccurrenceIsLater
<1> DEFINE Later(r, n) ==
      req[r].pc = "spawn" /\ req'[r].pc = "idle" /\ ~ tasks[n].there /\ tasks'[n].there =>
        /\ tasks'[n].status = "todo" /\ tasks'[n].rule = req[r].current.rule
        /\ tasks'[n].date > req[r].current.date
        /\ req[r].current.rule = "weekdays" /\ req[r].current.date # NoDate
             => ~ Weekend(tasks'[n].date)
<1>1. ASSUME TInv, [Next]_vars, NEW r \in Requests, NEW n \in Ids PROVE Later(r, n)
  <2> SUFFICES ASSUME req[r].pc = "spawn", req'[r].pc = "idle", ~ tasks[n].there, tasks'[n].there
               PROVE  /\ tasks'[n].status = "todo" /\ tasks'[n].rule = req[r].current.rule
                      /\ tasks'[n].date > req[r].current.date
                      /\ req[r].current.rule = "weekdays" /\ req[r].current.date # NoDate
                           => ~ Weekend(tasks'[n].date)
    OBVIOUS
  <2> DEFINE q == req[r]
             new == NewTask(NextRecurrenceDate(q.current.date, q.current.rule, today), "todo", q.current.rule)
  <2>1. UpdateSpawn(r)
    <3>1. req' # req /\ tasks' # tasks
      OBVIOUS
    <3>2. \A x \in Requests : x # r /\ (UpdateWrite(x) \/ UpdateSpawn(x)) => req'[r] = req[r]
      BY <1>1 DEF UpdateWrite, UpdateSpawn, TInv, TypeOK
    <3>3. ~ UpdateWrite(r)
      BY DEF UpdateWrite
    <3>4. \E x \in Requests : UpdateWrite(x) \/ UpdateSpawn(x)
      BY <1>1, <3>1 DEF Next, vars, Create, UpdateRead, UpdateAbort, Delete, Midnight
    <3> QED BY <3>2, <3>3, <3>4
  <2>2. PICK k \in Ids : tasks' = [tasks EXCEPT ![k] = new]
    BY <2>1 DEF UpdateSpawn
  <2>3. tasks'[n] = new
    BY <2>2, <1>1 DEF TInv, TypeOK
  <2>4. today \in Nat /\ q.current.date \in Nat \cup {NoDate} /\ q.current.rule \in Rules
    BY <1>1 DEF TInv, TypeOK, Carried
  <2>5. new.status = "todo" /\ new.rule = q.current.rule
        /\ new.date = NextRecurrenceDate(q.current.date, q.current.rule, today)
    BY DEF NewTask
  <2>6. CASE q.current.date = NoDate
    BY <2>3, <2>4, <2>5, <2>6 DEF NextRecurrenceDate, NoDate
  <2>7. CASE q.current.date \in Nat
    BY <2>3, <2>4, <2>5, <2>7, NextDateIsLater
  <2> QED BY <2>4, <2>6, <2>7
<1>2. TInv /\ [Next]_vars => [\A r \in Requests, n \in Ids : Later(r, n)]_vars
  BY <1>1
<1> QED BY TasksInvariant, <1>2, PTL DEF OccurrenceIsLater, Spec

\* A task that stays done keeps its completion date, though every update writes it.
THEOREM CompletedDateKept == Spec => CompletionKept
<1> DEFINE Kept(m) == tasks[m].there /\ tasks[m].status = "done" /\ tasks'[m].status = "done" =>
                        tasks'[m].completed = tasks[m].completed
<1>1. ASSUME TInv, [Next]_vars, NEW m \in Ids PROVE Kept(m)
  <2> SUFFICES ASSUME tasks[m].there, tasks[m].status = "done", tasks'[m].status = "done"
               PROVE  tasks'[m].completed = tasks[m].completed
    OBVIOUS
  <2>1. tasks \in [Ids -> Row] /\ tasks[m].completed # NoDate
    BY <1>1 DEF TInv, TypeOK, Row
  <2>2. CASE tasks' = tasks
    BY <2>2
  <2>3. ASSUME NEW n \in Ids, ~ tasks[n].there, NEW row, tasks' = [tasks EXCEPT ![n] = row]
        PROVE  tasks'[m] = tasks[m]
    BY <2>3, <2>1
  <2>4. ASSUME NEW r \in Requests, UpdateWrite(r)
        PROVE  tasks'[m].completed = tasks[m].completed
    <3> DEFINE q == req[r]
    <3>1. q.id \in Ids
      BY <2>4, <1>1 DEF UpdateWrite, TInv, Carried
    <3>2. CASE tasks' = tasks
      BY <3>2
    <3>3. CASE q.id = m /\ tasks' # tasks
      <4>1. /\ tasks'[m].completed = CompletedAt(tasks[m], q.params.status)
            /\ tasks'[m].status = q.params.status
        BY <2>4, <2>1, <3>3 DEF UpdateWrite, Row
      <4> QED BY <4>1, <2>1 DEF CompletedAt
    <3>4. CASE q.id # m
      BY <2>4, <2>1, <3>1, <3>4 DEF UpdateWrite
    <3> QED BY <3>2, <3>3, <3>4
  <2>5. ASSUME NEW n \in Ids, Delete(n) PROVE tasks'[m].completed = tasks[m].completed
    BY <2>5, <2>1, GoneIsRow DEF Delete
  <2>6. ASSUME NEW r \in Requests, UpdateSpawn(r) PROVE tasks'[m] = tasks[m]
    BY <2>6, <2>3 DEF UpdateSpawn
  <2>7. ASSUME NEW n \in Ids, NEW d, NEW s, Create(n, d, s) PROVE tasks'[m] = tasks[m]
    BY <2>7, <2>3 DEF Create
  <2> QED BY <1>1, <2>2, <2>4, <2>5, <2>6, <2>7 DEF Next, vars, UpdateRead, UpdateAbort, Midnight
<1>2. TInv /\ [Next]_vars => [\A m \in Ids : Kept(m)]_vars
  BY <1>1
<1> QED BY TasksInvariant, <1>2, PTL DEF CompletionKept, Spec

-----------------------------------------------------------------------------
(* Overlapping updates *)

\* Every update of m that has still to write it holds the row as it is stored.
AllFresh(m) == \A r \in Writing(m) : req[r].current = tasks[m]

\* How many of the updates still to write m may write over a row they have not read: the
\* first of those that hold the stored row does not, and the write of it may leave every
\* other one stale.
Pending(m) ==
  IF AllFresh(m) /\ Writing(m) # {} THEN Cardinality(Writing(m)) - 1 ELSE Cardinality(Writing(m))

\* The occurrences of m are off by no more than its overlaps allow, less those pending.
Bounded(m) ==
  LET k == IF tasks[m].there THEN Pending(m) ELSE 0
  IN  /\ Followed(m) + k <= completions[m] + overlaps[m]
      /\ completions[m] + k <= Followed(m) + overlaps[m]

\* The strengthening of OccurrencePerCompletion that every step keeps.
OverlapInv == \A m \in Ids : Bounded(m)

\* A set of handlers is finite, and counts one more or one less with or without a handler.
LEMMA HandlerSets ==
  ASSUME NEW S, S \subseteq Requests, NEW r \in Requests
  PROVE  /\ Cardinality(S) \in Nat /\ (S # {} => Cardinality(S) > 0) /\ Cardinality({}) = 0
         /\ r \notin S => Cardinality(S \cup {r}) = Cardinality(S) + 1
         /\ r \in S => Cardinality(S \ {r}) = Cardinality(S) - 1
<1>1. IsFiniteSet(S)
  BY TaskRequestsAssumption, FS_Subset
<1>2. Cardinality(S) \in Nat /\ (S # {} => Cardinality(S) > 0)
  BY <1>1, FS_CardinalityType, FS_EmptySet
<1>3. r \notin S => Cardinality(S \cup {r}) = Cardinality(S) + 1
  BY <1>1, FS_AddElement
<1>4. r \in S => Cardinality(S \ {r}) = Cardinality(S) - 1
  BY <1>1, FS_RemoveElement
<1> QED BY <1>2, <1>3, <1>4, FS_EmptySet

\* The handlers of a task are handlers: before a step and after it.
LEMMA Counts ==
  ASSUME NEW m
  PROVE  /\ Writing(m) \subseteq Requests /\ Spawning(m) \subseteq Requests
         /\ Writing(m)' \subseteq Requests /\ Spawning(m)' \subseteq Requests
  BY DEF Writing, Spawning

\* A step that leaves alone a task, its histories and the handlers that refer to it keeps
\* its bound.
LEMMA Apart ==
  ASSUME NEW m, Bounded(m), tasks'[m] = tasks[m],
         completions'[m] = completions[m], spawned'[m] = spawned[m],
         dropped'[m] = dropped[m], overlaps'[m] = overlaps[m],
         \A r \in Requests : (req[r].pc # "idle" /\ req[r].id = m) \/ (req'[r].pc # "idle" /\ req'[r].id = m)
                              => req'[r] = req[r]
  PROVE  Bounded(m)'
<1>1. Writing(m)' = Writing(m) /\ Spawning(m)' = Spawning(m)
  BY DEF Writing, Spawning
<1>2. AllFresh(m)' <=> AllFresh(m)
  BY <1>1 DEF AllFresh, Writing
<1>3. Pending(m)' = Pending(m) /\ Followed(m)' = Followed(m)
  BY <1>1, <1>2 DEF Pending, Followed
<1> QED BY <1>3 DEF Bounded

\* A row just inserted under an id nobody refers to is within its bound.
LEMMA Fresh ==
  ASSUME NEW m, \A r \in Requests : req'[r].pc = "idle" \/ req'[r].id # m,
         completions'[m] = 0, spawned'[m] = 0, dropped'[m] = 0, overlaps'[m] = 0
  PROVE  Bounded(m)'
<1>1. Writing(m)' = {} /\ Spawning(m)' = {}
  BY DEF Writing, Spawning
<1>2. Pending(m)' = 0 /\ Followed(m)' = 0
  BY <1>1, FS_EmptySet DEF Pending, Followed
<1> QED BY <1>2 DEF Bounded

\* What the bounds are made of: how many are pending, and what one handler less changes.
LEMMA PendingRange ==
  ASSUME NEW m
  PROVE  /\ Pending(m) \in Nat /\ Cardinality(Writing(m)) \in Nat /\ Cardinality(Spawning(m)) \in Nat
         /\ Pending(m) <= Cardinality(Writing(m)) /\ Pending(m) >= Cardinality(Writing(m)) - 1
         /\ ~ AllFresh(m) => Pending(m) = Cardinality(Writing(m))
<1>1. CASE Requests = {}
  <2>1. Writing(m) = {} /\ Spawning(m) = {}
    BY <1>1 DEF Writing, Spawning
  <2> QED BY <2>1, FS_EmptySet DEF Pending
<1>2. CASE Requests # {}
  <2>1. PICK r \in Requests : TRUE
    BY <1>2
  <2>2. Cardinality(Writing(m)) \in Nat /\ Cardinality(Spawning(m)) \in Nat
        /\ (Writing(m) # {} => Cardinality(Writing(m)) > 0)
    BY Counts, HandlerSets
  <2> QED BY <2>2 DEF Pending
<1> QED BY <1>1, <1>2

\* Every step keeps the bound of every task, however many updates are in flight.
LEMMA OverlapStep ==
  ASSUME TInv, OverlapInv, [Next]_vars
  PROVE  OverlapInv'
<1> SUFFICES ASSUME NEW m \in Ids PROVE Bounded(m)'
  BY DEF OverlapInv
<1>b. Bounded(m)
  BY DEF OverlapInv
<1>t. /\ completions \in [Ids -> Nat] /\ spawned \in [Ids -> Nat]
      /\ dropped \in [Ids -> Nat] /\ overlaps \in [Ids -> Nat]
      /\ tasks \in [Ids -> Row]
      /\ req \in [Requests -> [pc : {"idle", "write", "spawn"}, id : Ids \cup {NoId},
                               current : Row, params : Row]]
      /\ \A r \in Requests : req[r].pc # "idle" => req[r].id \in Ids
  BY DEF TInv, TypeOK, Carried, Row
<1>n. /\ Pending(m) \in Nat /\ Pending(m) >= Cardinality(Writing(m)) - 1
      /\ ~ AllFresh(m) => Pending(m) = Cardinality(Writing(m))
      /\ Cardinality(Writing(m)) \in Nat /\ Cardinality(Spawning(m)) \in Nat
      /\ completions[m] \in Nat /\ spawned[m] \in Nat /\ dropped[m] \in Nat /\ overlaps[m] \in Nat
  BY PendingRange, <1>t
<1>p. Pending(m)' \in Nat /\ Pending(m)' <= Cardinality(Writing(m)')
  <2>1. CASE Requests = {}
    BY <2>1, FS_EmptySet DEF Writing, Pending
  <2>2. CASE Requests # {}
    <3>1. PICK r \in Requests : TRUE
      BY <2>2
    <3>2. Cardinality(Writing(m)') \in Nat /\ (Writing(m)' # {} => Cardinality(Writing(m)') > 0)
      BY Counts, HandlerSets
    <3> QED BY <3>2 DEF Pending
  <2> QED BY <2>1, <2>2
<1>1. ASSUME NEW n \in Ids, NEW d, NEW s, Create(n, d, s) PROVE Bounded(m)'
  <2>1. CASE n = m
    BY <1>1, <1>t, <2>1, Fresh DEF Create, Referenced
  <2>2. CASE n # m
    BY <1>1, <1>b, <1>t, <2>2, Apart DEF Create
  <2> QED BY <2>1, <2>2
<1>2. ASSUME NEW r \in Requests, NEW n \in Ids, NEW s, NEW u, NEW d, UpdateRead(r, n, d, s, u)
      PROVE  Bounded(m)'
  <2>1. /\ req[r] = ReqIdle /\ tasks[n].there
        /\ req' = [req EXCEPT ![r] = [pc |-> "write", id |-> n, current |-> tasks[n],
                    params |-> [tasks[n] EXCEPT !.date = d, !.status = s, !.rule = u]]]
        /\ UNCHANGED <<tasks, completions, spawned, dropped>>
    BY <1>2 DEF UpdateRead
  <2>2. CASE n # m
    <3>1. overlaps'[m] = overlaps[m]
      BY <1>2, <1>t, <2>2 DEF UpdateRead
    <3> QED BY <1>b, <1>t, <2>1, <2>2, <3>1, Apart DEF ReqIdle
  <2>3. CASE n = m
    <3>1. r \notin Writing(m) /\ Writing(m)' = Writing(m) \cup {r} /\ Spawning(m)' = Spawning(m)
      BY <1>t, <2>1, <2>3 DEF Writing, Spawning, ReqIdle
    <3>2. Followed(m)' = Followed(m) /\ completions'[m] = completions[m] /\ tasks'[m] = tasks[m]
      BY <2>1, <3>1 DEF Followed
    <3>3. Cardinality(Writing(m)') = Cardinality(Writing(m)) + 1
      BY <3>1, Counts, HandlerSets
    <3>4. AllFresh(m)' <=> AllFresh(m)
      BY <1>t, <2>1, <2>3, <3>1 DEF AllFresh, Writing
    <3>5. CASE Writing(m) = {}
      <4>1. overlaps' = overlaps /\ AllFresh(m)
        BY <1>2, <2>3, <3>5 DEF UpdateRead, AllFresh
      <4>2. Pending(m)' = 0 /\ Pending(m) = 0
        BY <1>n, <3>1, <3>3, <3>4, <3>5, <4>1, FS_EmptySet DEF Pending
      <4> QED BY <1>b, <1>n, <3>2, <4>1, <4>2 DEF Bounded
    <3>6. CASE Writing(m) # {}
      <4>1. overlaps'[m] = overlaps[m] + 1
        BY <1>2, <1>t, <2>3, <3>6 DEF UpdateRead
      <4>2. Pending(m)' = Pending(m) + 1
        BY <1>n, <3>1, <3>3, <3>4, <3>6 DEF Pending
      <4>3. Followed(m) \in Nat
        BY <1>n DEF Followed
      <4> QED BY <1>b, <1>n, <2>1, <2>3, <3>2, <4>1, <4>2, <4>3 DEF Bounded
    <3> QED BY <3>5, <3>6
  <2> QED BY <2>2, <2>3
<1>3. ASSUME NEW r \in Requests, UpdateWrite(r) PROVE Bounded(m)'
  <2> DEFINE q == req[r]
  <2>1. q.pc = "write" /\ q.id \in Ids /\ UNCHANGED <<spawned, dropped, overlaps>>
    BY <1>3, <1>t DEF UpdateWrite
  <2>2. req' = [req EXCEPT ![r] = ReqIdle] \/ req' = [req EXCEPT ![r] = [q EXCEPT !.pc = "spawn"]]
    BY <1>3 DEF UpdateWrite
  <2>3. CASE q.id # m
    <3>1. tasks'[m] = tasks[m] /\ completions'[m] = completions[m]
      BY <1>3, <1>t, <2>1, <2>3 DEF UpdateWrite
    <3>2. \A x \in Requests : x # r => req'[x] = req[x]
      BY <2>2, <1>t
    <3>3. req'[r].pc = "idle" \/ req'[r].id = q.id
      BY <2>2, <1>t DEF ReqIdle
    <3> QED BY <1>b, <2>1, <2>3, <3>1, <3>2, <3>3, Apart
  <2>4. CASE q.id = m
    <3>1. r \in Writing(m) /\ Writing(m)' = Writing(m) \ {r}
      BY <1>t, <2>1, <2>2, <2>4 DEF Writing, ReqIdle
    <3>2. Cardinality(Writing(m)') = Cardinality(Writing(m)) - 1
      BY <3>1, Counts, HandlerSets
    <3>3. CASE ~ tasks[m].there
      <4>1. req' = [req EXCEPT ![r] = ReqIdle] /\ UNCHANGED <<tasks, completions>>
        BY <1>3, <2>4, <3>3 DEF UpdateWrite
      <4>2. Spawning(m)' = Spawning(m)
        BY <1>t, <2>1, <4>1 DEF Spawning, ReqIdle
      <4>3. Followed(m)' = Followed(m)
        BY <2>1, <4>2 DEF Followed
      <4> QED BY <1>b, <2>1, <3>3, <4>1, <4>3 DEF Bounded
    <3>4. CASE tasks[m].there
      <4>1. /\ completions' = IF Completes(m, q) THEN [completions EXCEPT ![m] = @ + 1] ELSE completions
            /\ req' = [req EXCEPT ![r] = IF Spawns(q) THEN [q EXCEPT !.pc = "spawn"] ELSE ReqIdle]
            /\ tasks'[m].there
        BY <1>3, <1>t, <2>4, <3>4 DEF UpdateWrite, Row
      <4>2. completions'[m] = completions[m] + (IF Completes(m, q) THEN 1 ELSE 0)
        BY <4>1, <1>t
      <4>3. Cardinality(Spawning(m)') = Cardinality(Spawning(m)) + (IF Spawns(q) THEN 1 ELSE 0)
        <5>1. CASE Spawns(q)
          <6>1. r \notin Spawning(m) /\ Spawning(m)' = Spawning(m) \cup {r}
            BY <1>t, <2>1, <2>4, <4>1, <5>1 DEF Spawning
          <6> QED BY <5>1, <6>1, Counts, HandlerSets
        <5>2. CASE ~ Spawns(q)
          <6>1. Spawning(m)' = Spawning(m)
            BY <1>t, <2>1, <4>1, <5>2 DEF Spawning, ReqIdle
          <6> QED BY <1>n, <5>2, <6>1
        <5> QED BY <5>1, <5>2
      <4>4. Followed(m)' = Followed(m) + (IF Spawns(q) THEN 1 ELSE 0) /\ Followed(m) \in Nat
        BY <1>n, <2>1, <4>3 DEF Followed
      <4>5. Pending(m)' <= Cardinality(Writing(m)) - 1
        BY <1>p, <3>2
      <4>6. CASE q.current = tasks[m]
        <5>1. Completes(m, q) <=> Spawns(q)
          BY <4>6 DEF Completes, Spawns
        <5> QED BY <1>b, <1>n, <1>p, <2>1, <3>4, <4>1, <4>2, <4>4, <4>5, <5>1 DEF Bounded
      <4>7. CASE q.current # tasks[m]
        <5>1. ~ AllFresh(m)
          BY <3>1, <4>7 DEF AllFresh
        <5>2. Pending(m)' + 1 <= Pending(m)
          BY <1>n, <1>p, <4>5, <5>1
        <5> QED BY <1>b, <1>n, <1>p, <2>1, <3>4, <4>1, <4>2, <4>4, <5>2 DEF Bounded
      <4> QED BY <4>6, <4>7
    <3> QED BY <3>3, <3>4
  <2> QED BY <2>3, <2>4
<1>4. ASSUME NEW r \in Requests, req[r].pc = "spawn", req[r].id = m,
             req' = [req EXCEPT ![r] = ReqIdle], tasks'[m] = tasks[m],
             completions'[m] = completions[m], overlaps'[m] = overlaps[m],
             spawned'[m] + dropped'[m] = spawned[m] + dropped[m] + 1,
             spawned'[m] \in Nat, dropped'[m] \in Nat
      PROVE  Bounded(m)'
  <2>1. r \in Spawning(m) /\ Spawning(m)' = Spawning(m) \ {r} /\ Writing(m)' = Writing(m)
    BY <1>4, <1>t DEF Spawning, Writing, ReqIdle
  <2>2. Cardinality(Spawning(m)') = Cardinality(Spawning(m)) - 1
    BY <2>1, Counts, HandlerSets
  <2>3. Followed(m)' = Followed(m)
    BY <1>4, <1>n, <2>2 DEF Followed
  <2>4. AllFresh(m)' <=> AllFresh(m)
    BY <1>4, <1>t, <2>1 DEF AllFresh, Writing
  <2>5. Pending(m)' = Pending(m)
    BY <2>1, <2>4 DEF Pending
  <2> QED BY <1>4, <1>b, <2>3, <2>5 DEF Bounded
<1>5. ASSUME NEW r \in Requests, UpdateSpawn(r) PROVE Bounded(m)'
  <2> DEFINE q == req[r]
  <2>1. PICK n \in Ids : /\ ~ Referenced(n)
                         /\ \E row : tasks' = [tasks EXCEPT ![n] = row]
                         /\ spawned' = [spawned EXCEPT ![q.id] = @ + 1, ![n] = 0]
                         /\ completions' = [completions EXCEPT ![n] = 0]
                         /\ dropped' = [dropped EXCEPT ![n] = 0]
                         /\ overlaps' = [overlaps EXCEPT ![n] = 0]
                         /\ req' = [req EXCEPT ![r] = ReqIdle]
    BY <1>5 DEF UpdateSpawn
  <2>2. q.pc = "spawn" /\ q.id \in Ids /\ n # q.id
    BY <1>5, <1>t, <2>1 DEF UpdateSpawn, Referenced
  <2>3. CASE m = n
    <3>1. \A x \in Requests : req'[x].pc = "idle" \/ req'[x].id # m
      BY <1>t, <2>1, <2>3 DEF Referenced, ReqIdle
    <3>2. completions'[m] = 0 /\ spawned'[m] = 0 /\ dropped'[m] = 0 /\ overlaps'[m] = 0
      BY <1>t, <2>1, <2>2, <2>3
    <3> QED BY <3>1, <3>2, Fresh
  <2>4. CASE m # n
    <3>1. /\ tasks'[m] = tasks[m] /\ completions'[m] = completions[m]
          /\ dropped'[m] = dropped[m] /\ overlaps'[m] = overlaps[m]
          /\ spawned'[m] = IF m = q.id THEN spawned[m] + 1 ELSE spawned[m]
      BY <1>t, <2>1, <2>2, <2>4
    <3>2. CASE m = q.id
      <4>1. req[r].pc = "spawn" /\ req[r].id = m /\ req' = [req EXCEPT ![r] = ReqIdle]
        BY <2>1, <2>2, <3>2
      <4>2. /\ spawned'[m] + dropped'[m] = spawned[m] + dropped[m] + 1
            /\ spawned'[m] \in Nat /\ dropped'[m] \in Nat
        BY <1>n, <3>1, <3>2
      <4> QED BY <1>4, <3>1, <4>1, <4>2, ZenonT(30)
    <3>3. CASE m # q.id
      <4>1. \A x \in Requests : x # r => req'[x] = req[x]
        BY <1>t, <2>1
      <4>2. req'[r].pc = "idle"
        BY <1>t, <2>1 DEF ReqIdle
      <4> QED BY <1>b, <3>1, <3>3, <4>1, <4>2, Apart
    <3> QED BY <3>2, <3>3
  <2> QED BY <2>3, <2>4
<1>6. ASSUME NEW r \in Requests, UpdateAbort(r) PROVE Bounded(m)'
  <2>1. /\ req[r].pc # "idle" /\ req[r].id \in Ids /\ req' = [req EXCEPT ![r] = ReqIdle]
        /\ dropped' = IF req[r].pc = "spawn" THEN [dropped EXCEPT ![req[r].id] = @ + 1] ELSE dropped
        /\ UNCHANGED <<tasks, completions, spawned, overlaps>>
    BY <1>6, <1>t DEF UpdateAbort
  <2>2. CASE req[r].id # m
    <3>1. dropped'[m] = dropped[m]
      BY <1>t, <2>1, <2>2
    <3>2. \A x \in Requests : x # r => req'[x] = req[x]
      BY <1>t, <2>1
    <3>3. req'[r].pc = "idle"
      BY <1>t, <2>1 DEF ReqIdle
    <3> QED BY <1>b, <2>1, <2>2, <3>1, <3>2, <3>3, Apart
  <2>3. CASE req[r].id = m /\ req[r].pc = "spawn"
    <3>1. dropped'[m] = dropped[m] + 1
      BY <1>t, <2>1, <2>3
    <3>2. /\ tasks'[m] = tasks[m] /\ completions'[m] = completions[m] /\ overlaps'[m] = overlaps[m]
          /\ req' = [req EXCEPT ![r] = ReqIdle]
      BY <2>1
    <3>3. /\ spawned'[m] + dropped'[m] = spawned[m] + dropped[m] + 1
          /\ spawned'[m] \in Nat /\ dropped'[m] \in Nat
      BY <1>n, <2>1, <3>1
    <3> QED BY <1>4, <2>3, <3>2, <3>3, ZenonT(30)
  <2>4. CASE req[r].id = m /\ req[r].pc = "write"
    <3>1. r \in Writing(m) /\ Writing(m)' = Writing(m) \ {r} /\ Spawning(m)' = Spawning(m)
      BY <1>t, <2>1, <2>4 DEF Writing, Spawning, ReqIdle
    <3>2. Cardinality(Writing(m)') = Cardinality(Writing(m)) - 1
      BY <3>1, Counts, HandlerSets
    <3>3. Pending(m)' <= Pending(m)
      BY <1>n, <1>p, <3>2
    <3>4. Followed(m)' = Followed(m) /\ Followed(m) \in Nat
      BY <1>n, <2>1, <2>4, <3>1 DEF Followed
    <3> QED BY <1>b, <1>n, <1>p, <2>1, <3>3, <3>4 DEF Bounded
  <2> QED BY <1>t, <2>1, <2>2, <2>3, <2>4
<1>7. ASSUME NEW n \in Ids, Delete(n) PROVE Bounded(m)'
  <2>1. CASE n = m
    <3>1. tasks'[m] = Gone /\ UNCHANGED <<req, completions, spawned, dropped, overlaps>>
      BY <1>7, <1>t, <2>1 DEF Delete
    <3>2. Followed(m)' = Followed(m) /\ Followed(m) \in Nat
      BY <1>n, <3>1 DEF Followed, Spawning
    <3> QED BY <1>b, <1>n, <3>1, <3>2, GoneIsRow DEF Bounded
  <2>2. CASE n # m
    BY <1>7, <1>b, <1>t, <2>2, Apart DEF Delete
  <2> QED BY <2>1, <2>2
<1>8. CASE Midnight
  BY <1>8, <1>b, Apart DEF Midnight
<1>9. CASE UNCHANGED vars
  BY <1>9, <1>b, Apart DEF vars
<1> QED BY <1>1, <1>2, <1>3, <1>5, <1>6, <1>7, <1>8, <1>9 DEF Next

\* A recurring task gets one next occurrence for each time it is completed, but for those a
\* failing handler did not insert; overlapping updates, however many and in whatever order
\* they write, put that off by one at most for each update that began during another.
THEOREM OneOccurrencePerCompletion == Spec => []OccurrencePerCompletion
<1>1. Init => OverlapInv
  <2> SUFFICES ASSUME Init, NEW m \in Ids PROVE Bounded(m)
    BY DEF OverlapInv
  <2>1. Spawning(m) = {} /\ ~ tasks[m].there
    BY DEF Init, ReqIdle, Spawning, Gone
  <2> QED BY <2>1, FS_EmptySet DEF Init, Bounded, Followed
<1>2. TInv /\ OverlapInv /\ [Next]_vars => OverlapInv'
  BY OverlapStep
<1>3. TInv /\ OverlapInv => OccurrencePerCompletion
  <2> SUFFICES ASSUME TInv, OverlapInv, NEW m \in Ids
               PROVE  /\ Followed(m) <= completions[m] + overlaps[m]
                      /\ completions[m] <= Followed(m) + overlaps[m]
    BY DEF OccurrencePerCompletion
  <2>1. completions[m] \in Nat /\ spawned[m] \in Nat /\ dropped[m] \in Nat /\ overlaps[m] \in Nat
    BY DEF TInv, TypeOK
  <2>2. Pending(m) \in Nat /\ Followed(m) \in Nat
    BY <2>1, PendingRange DEF Followed
  <2>3. Bounded(m)
    BY DEF OverlapInv
  <2> QED BY <2>1, <2>2, <2>3 DEF Bounded
<1> QED BY TasksInvariant, <1>1, <1>2, <1>3, PTL DEF Spec
=============================================================================
