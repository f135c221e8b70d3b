------------------------- MODULE ActiveFocusProofs -------------------------
(***************************************************************************)
(* Proofs about ActiveFocus for any users, tasks, sessions, requests,      *)
(* instances, clock and grace periods.                                     *)
(***************************************************************************)
EXTENDS ActiveFocus, FiniteSetTheorems, WellFoundedInduction, TLAPS

-----------------------------------------------------------------------------
(* Arithmetic *)

\* A natural number divided by a positive one is a natural number.
LEMMA DivNat ==
  ASSUME NEW a \in Nat, NEW b \in Nat \ {0}
  PROVE  a \div b \in Nat
  OBVIOUS

\* Days and durations are natural numbers, whatever the unit lengths.
LEMMA DayNat == \A t \in Nat : Day(t) \in Nat
  BY DivNat, TimeAssumption DEF Day

\* The minutes of a completed session are a natural number.
LEMMA DurationNat == \A n \in Nat : DurationMinutes(n) \in Nat
  <1> TAKE n \in Nat
  <1>1. n + MinuteLength - 1 \in Nat /\ MinuteLength \in Nat \ {0}
    BY TimeAssumption
  <1>2. (n + MinuteLength - 1) \div MinuteLength \in Nat
    BY <1>1, DivNat
  <1> QED BY <1>2 DEF DurationMinutes

-----------------------------------------------------------------------------
(* The rows the statements write *)

\* Two ways to write twice a product, and its opposite.
LEMMA Twice ==
  ASSUME NEW r \in Int, NEW x \in Int
  PROVE  2 * (r * x) = (2 * r) * x /\ 2 * (r * (- x)) = - ((2 * r) * x)
  OBVIOUS

\* Rounding gives at most half a second more than a span, also than a negative one.
LEMMA RoundedBound ==
  ASSUME NEW span \in Int
  PROVE  Rounded(span) \in Int /\ 2 * (TickRate * Rounded(span)) <= 2 * span + TickRate
  <1> DEFINE R == TickRate
             q == (2 * span + R) \div (2 * R)
             p == (R - 2 * span) \div (2 * R)
  <1>1. R \in Nat \ {0} /\ 2 * R \in Nat \ {0}
    BY TimeAssumption
  <1>2. q \in Int /\ (2 * R) * q <= 2 * span + R
    BY <1>1
  <1>3. p \in Int /\ R - 2 * span < (2 * R) * p + 2 * R
    BY <1>1
  <1>4. Rounded(span) = IF span >= 0 THEN q ELSE - p
    BY DEF Rounded
  <1> HIDE DEF q, p
  <1>5. 2 * (R * q) = (2 * R) * q /\ 2 * (R * (- p)) = - ((2 * R) * p)
    BY <1>1, <1>2, <1>3, Twice
  <1>6. 2 * (R * q) <= 2 * span + R
    BY <1>1, <1>2, <1>5
  <1>7. 2 * (R * (- p)) <= 2 * span + R
    <2>1. (2 * R) * p \in Int
      BY <1>1, <1>3
    <2> QED BY <1>1, <1>3, <1>5, <2>1
  <1> QED BY <1>2, <1>3, <1>4, <1>6, <1>7

\* Dropping the fraction gives no more than the span, or nothing.
LEMMA TruncatedBound ==
  ASSUME NEW span \in Int
  PROVE  /\ Truncated(span) \in Int
         /\ TickRate * Truncated(span) <= span \/ Truncated(span) <= 0
  <1> DEFINE q == span \div TickRate
             p == (- span) \div TickRate
  <1>1. TickRate \in Nat \ {0}
    BY TimeAssumption
  <1>2. q \in Int /\ TickRate * q <= span
    BY <1>1
  <1>3. p \in Int /\ (span < 0 => p >= 0)
    BY <1>1
  <1>4. Truncated(span) = IF span >= 0 THEN q ELSE - p
    BY DEF Truncated
  <1> HIDE DEF q, p
  <1> QED BY <1>2, <1>3, <1>4

\* Folding an open segment gives an integer, and the CHECK makes it a natural one.
LEMMA FoldedInt ==
  ASSUME NEW row \in Row, NEW t \in Nat
  PROVE  Folded(row, t) \in Int /\ ActiveElapsed(row, t) \in Int
  <1>1. row.elapsed \in Nat /\ t - row.segment \in Int
    BY DEF Row, NoInstant
  <1> QED BY <1>1, RoundedBound, TruncatedBound DEF Folded, ActiveElapsed

\* Every row a statement writes is a row of the table, whatever its instant.
LEMMA RowTypes ==
  ASSUME TypeOK, NEW row \in Row, NEW t \in Nat
  PROVE  /\ ResumedRow(row, t) \in Row
         /\ ExpiredRow(row) \in Row
         /\ [row EXCEPT !.heartbeat = t] \in Row
         /\ [row EXCEPT !.task = Nil] \in Row
         /\ ElapsedCheck(PausedRow(row, t)) => PausedRow(row, t) \in Row
         /\ ElapsedCheck(DiscardedRow(row, t)) => DiscardedRow(row, t) \in Row
         /\ ElapsedCheck(CompletedRow(row, t)) => CompletedRow(row, t) \in Row
  <1> now \in Nat
    BY DEF TypeOK
  <1>0. row.opened + 1 \in Nat
    BY DEF Row
  <1>1. ResumedRow(row, t) \in Row /\ [row EXCEPT !.heartbeat = t] \in Row
    BY <1>0 DEF Row, ResumedRow, Active
  <1>2. ExpiredRow(row) \in Row
    BY DEF Row, ExpiredRow, Terminal
  <1>3. [row EXCEPT !.task = Nil] \in Row
    BY DEF Row
  <1>4. ASSUME ElapsedCheck(PausedRow(row, t)) PROVE PausedRow(row, t) \in Row
    <2>1. Folded(row, t) \in Nat
      BY <1>4, FoldedInt DEF ElapsedCheck, PausedRow, Row
    <2> QED BY <2>1 DEF PausedRow, Row, Active
  <1>5. ASSUME ElapsedCheck(DiscardedRow(row, t)) PROVE DiscardedRow(row, t) \in Row
    <2>1. Folded(row, t) \in Nat
      BY <1>5, FoldedInt DEF ElapsedCheck, DiscardedRow, Row
    <2> QED BY <2>1 DEF DiscardedRow, Row, Terminal
  <1>6. ASSUME ElapsedCheck(CompletedRow(row, t)) PROVE CompletedRow(row, t) \in Row
    <2>1. ActiveElapsed(row, t) \in Nat
      BY <1>6, FoldedInt DEF ElapsedCheck, CompletedRow, Row
    <2> QED BY <2>1 DEF CompletedRow, Row, Terminal
  <1> QED BY <1>1, <1>2, <1>3, <1>4, <1>5, <1>6

\* The request records the actions write.
LEMMA RequestTypes ==
  ASSUME TypeOK, NEW r \in Requests
  PROVE  /\ Answer(r) => req' \in [Requests -> Request]
         /\ \A pc \in {"insert", "reread", "readback", "delete"} :
              Goto(r, pc) => req' \in [Requests -> Request]
  <1>1. Idle \in Request
    BY DEF Idle, Request, Kinds
  <1>2. req[r] \in Request
    BY DEF TypeOK
  <1>3. \A pc \in {"insert", "reread", "readback", "delete"} :
          [req[r] EXCEPT !.pc = pc] \in Request
    BY <1>2 DEF Request
  <1>4. Answer(r) => req' \in [Requests -> Request]
    BY <1>1 DEF TypeOK, Answer
  <1>5. ASSUME NEW pc \in {"insert", "reread", "readback", "delete"}, Goto(r, pc)
        PROVE  req' \in [Requests -> Request]
    <2>1. req' = [req EXCEPT ![r] = [req[r] EXCEPT !.pc = pc]]
      BY <1>5 DEF Goto
    <2> QED BY <2>1, <1>3 DEF TypeOK
  <1> QED BY <1>4, <1>5

-----------------------------------------------------------------------------
(* What a request under way knows *)

\* A request that acts on a session names an existing row of its user, and takes its
\* instant from the past; a start or a delete names a user and, if any, a task.
RequestOK(r) ==
  /\ req[r].pc = "exec" => /\ req[r].op \in ByIdOps
                           /\ req[r].sid \in Sids
                           /\ session[req[r].sid].status # "absent"
  /\ req[r].pc = "readback" => /\ req[r].op \in {"pause", "discard"}
                               /\ req[r].sid \in Sids
                               /\ session[req[r].sid].status # "absent"
                               /\ req[r].op = "discard" =>
                                    session[req[r].sid].status \in Terminal
  /\ req[r].pc \in {"check", "insert", "reread"} =>
       req[r].op = "start" /\ req[r].user \in Users
  /\ req[r].pc \in {"count", "delete"} => req[r].op = "delete" /\ req[r].task \in Tasks

\* A row not yet inserted is blank; an inserted one has a user; a segment is open
\* exactly while the session runs.
RowOK(s) ==
  /\ session[s].status = "absent" => session[s] = Absent
  /\ session[s].status # "absent" => session[s].user \in Users
  /\ (session[s].segment # NoInstant) <=> (session[s].status = "running")

\* A session's history is one row of its own task, or none.
HistoryOK(s) ==
  /\ history[s].rows = IF /\ session[s].status = "completed"
                          /\ session[s].kind = "work"
                          /\ session[s].task # Nil
                         THEN 1 ELSE 0
  /\ history[s].rows = 0 => history[s] = NoRows
  /\ history[s].rows # 0 => history[s].task = session[s].task

\* The inductive invariant.
IInv ==
  /\ TypeOK
  /\ \A r \in Requests : RequestOK(r)
  /\ \A s \in Sids : RowOK(s)
  /\ \A s \in Sids : HistoryOK(s)
  /\ SingleActive

-----------------------------------------------------------------------------
(* Type correctness *)

\* The initial state is well typed.
LEMMA TypeInit == Init => TypeOK
  <1> SUFFICES ASSUME Init PROVE TypeOK
    OBVIOUS
  <1>1. Absent \in Row
    BY DEF Absent, Row, Kinds, NoInstant
  <1>2. Idle \in Request
    BY DEF Idle, Request, Kinds
  <1>3. session \in [Sids -> Row] /\ req \in [Requests -> Request]
    BY <1>1, <1>2 DEF Init
  <1>4. /\ now \in Nat /\ tasks \subseteq Tasks /\ study \subseteq StudyUsers \X Nat
        /\ history \in [Sids -> [rows : Nat, task : Tasks \cup {Nil}, start : Nat, minutes : Nat]]
        /\ sweep \in [Instances -> [pc : {"idle", "pause", "discard"}, at : Nat]]
    BY DEF Init, NoRows, SweepIdle
  <1> QED BY <1>3, <1>4 DEF TypeOK

\* One session's row replaced by another row.
LEMMA RowUpdate ==
  ASSUME TypeOK, NEW s \in Sids, NEW row \in Row, session' = [session EXCEPT ![s] = row]
  PROVE  session' \in [Sids -> Row]
  BY DEF TypeOK

\* The steps that write no table but may move the clock, a request or a tick.
Quiet(r) ==
  \/ StartCheck(r) \/ StartReread(r) \/ ReadBack(r) \/ DeleteCount(r) \/ Abort(r)

\* A request that arrives is well typed.
LEMMA TypeArrive ==
  ASSUME TypeOK, NEW r \in Requests, Arrive(r)
  PROVE  TypeOK'
  <1>1. CASE \E u \in Users, p \in Starts : ArriveStart(r, u, p[1], p[2])
    <2>1. PICK u \in Users, p \in Starts : ArriveStart(r, u, p[1], p[2])
      BY <1>1
    <2>2. p[1] \in Kinds /\ p[2] \in Tasks \cup {Nil}
      BY StartsAssumption DEF Kinds
    <2>3. [Idle EXCEPT !.pc = "check", !.op = "start", !.user = u, !.kind = p[1], !.task = p[2]]
            \in Request
      BY <2>2 DEF Idle, Request, Kinds
    <2> QED BY <2>1, <2>3 DEF ArriveStart, TypeOK, tables
  <1>2. CASE \E op \in ByIdOps, u \in Users, s \in Sids : ArriveById(r, op, u, s)
    <2>1. PICK op \in ByIdOps, u \in Users, s \in Sids : ArriveById(r, op, u, s)
      BY <1>2
    <2>2. [Idle EXCEPT !.pc = "exec", !.op = op, !.user = u, !.sid = s, !.at = now] \in Request
      BY DEF Idle, Request, Kinds, TypeOK
    <2> QED BY <2>1, <2>2 DEF ArriveById, TypeOK, tables
  <1>3. CASE \E u \in Users, t \in Tasks : ArriveDeleteTask(r, u, t)
    <2>1. PICK u \in Users, t \in Tasks : ArriveDeleteTask(r, u, t)
      BY <1>3
    <2>2. [Idle EXCEPT !.pc = "count", !.op = "delete", !.user = u, !.task = t] \in Request
      BY DEF Idle, Request, Kinds
    <2> QED BY <2>1, <2>2 DEF ArriveDeleteTask, TypeOK, tables
  <1> QED BY <1>1, <1>2, <1>3 DEF Arrive

\* The statements that only read, and a failed one, write no table.
LEMMA TypeQuiet ==
  ASSUME TypeOK, NEW r \in Requests, Quiet(r)
  PROVE  TypeOK'
  <1>1. req' \in [Requests -> Request]
    BY RequestTypes DEF Quiet, StartCheck, StartReread, ReadBack, DeleteCount, Abort
  <1>2. UNCHANGED <<now, tables, sweep>>
    BY DEF Quiet, StartCheck, StartReread, ReadBack, DeleteCount, Abort
  <1> QED BY <1>1, <1>2 DEF TypeOK, tables

\* The INSERT of StartActive writes a row of the table.
LEMMA TypeStartInsert ==
  ASSUME TypeOK, NEW r \in Requests, RequestOK(r), StartInsert(r)
  PROVE  TypeOK'
  <1>1. req' \in [Requests -> Request]
    BY RequestTypes DEF StartInsert
  <1>2. session' \in [Sids -> Row]
    <2>1. CASE UNCHANGED session
      BY <2>1 DEF TypeOK
    <2>2. ASSUME NEW s \in Sids,
                 session' = [session EXCEPT ![s] = StartedRow(req[r].user, req[r].kind, req[r].task)]
          PROVE  session' \in [Sids -> Row]
      <3>1. req[r] \in Request /\ now \in Nat /\ req[r].user \in Users
        BY DEF TypeOK, RequestOK, StartInsert, At
      <3>2. StartedRow(req[r].user, req[r].kind, req[r].task) \in Row
        BY <3>1 DEF StartedRow, Absent, Row, Request, Active
      <3> QED BY <2>2, <3>2, RowUpdate
    <2> QED BY <2>1, <2>2 DEF StartInsert
  <1>3. UNCHANGED <<now, tasks, history, study, sweep>>
    BY DEF StartInsert
  <1> QED BY <1>1, <1>2, <1>3 DEF TypeOK

\* Pause and Discard: the row written is a row because it passed the CHECK.
LEMMA TypeFold ==
  ASSUME TypeOK, NEW r \in Requests, RequestOK(r), ExecPause(r) \/ ExecDiscard(r)
  PROVE  TypeOK'
  <1> DEFINE s == req[r].sid
  <1>1. s \in Sids /\ req[r].at \in Nat /\ session[s] \in Row
    BY DEF TypeOK, RequestOK, ExecPause, ExecDiscard, ExecFold, At, Request
  <1>2. req' \in [Requests -> Request]
    BY RequestTypes DEF ExecPause, ExecDiscard, ExecFold
  <1>3. session' \in [Sids -> Row]
    <2>1. CASE ExecPause(r)
      BY <1>1, <2>1, RowTypes, RowUpdate DEF ExecPause, ExecFold, TypeOK
    <2>2. CASE ExecDiscard(r)
      BY <1>1, <2>2, RowTypes, RowUpdate DEF ExecDiscard, ExecFold, TypeOK
    <2> QED BY <2>1, <2>2
  <1>4. UNCHANGED <<now, tasks, history, study, sweep>>
    BY DEF ExecPause, ExecDiscard, ExecFold
  <1> QED BY <1>2, <1>3, <1>4 DEF TypeOK

\* Resume and Heartbeat write a row of the table.
LEMMA TypeResume ==
  ASSUME TypeOK, NEW r \in Requests, RequestOK(r), ExecResume(r) \/ ExecHeartbeat(r)
  PROVE  TypeOK'
  <1> DEFINE s == req[r].sid
  <1>1. s \in Sids /\ req[r].at \in Nat /\ session[s] \in Row
    BY DEF TypeOK, RequestOK, ExecResume, ExecHeartbeat, At, Request
  <1>2. req' \in [Requests -> Request]
    BY RequestTypes DEF ExecResume, ExecHeartbeat
  <1>3. session' \in [Sids -> Row]
    <2>1. CASE ExecResume(r)
      BY <1>1, <2>1, RowTypes, RowUpdate DEF ExecResume, TypeOK
    <2>2. CASE ExecHeartbeat(r)
      <3>1. CASE UNCHANGED session
        BY <3>1 DEF TypeOK
      <3>2. CASE session' = [session EXCEPT ![s].heartbeat = req[r].at]
        <4>1. session' = [session EXCEPT ![s] = [session[s] EXCEPT !.heartbeat = req[r].at]]
          BY <3>2, <1>1 DEF TypeOK
        <4> QED BY <4>1, <1>1, RowTypes, RowUpdate
      <3> QED BY <2>2, <3>1, <3>2 DEF ExecHeartbeat
    <2> QED BY <2>1, <2>2
  <1>4. UNCHANGED <<now, tasks, history, study, sweep>>
    BY DEF ExecResume, ExecHeartbeat
  <1> QED BY <1>2, <1>3, <1>4 DEF TypeOK

\* What a completion writes to focus_sessions and to the habit log.
LEMMA CompletionTypes ==
  ASSUME TypeOK, NEW s \in Sids, session[s] \in Row, RowOK(s),
         session[s].status # "absent", NEW n \in Nat, NEW h
  PROVE  /\ Recorded(s, n) \in
              [Sids -> [rows : Nat, task : Tasks \cup {Nil}, start : Nat, minutes : Nat]]
         /\ StudyCheck(s, h) \subseteq StudyUsers \X Nat
  <1>1. session[s].started \in Nat /\ session[s].task \in Tasks \cup {Nil}
    BY DEF Row
  <1>2. Recorded(s, n) \in
          [Sids -> [rows : Nat, task : Tasks \cup {Nil}, start : Nat, minutes : Nat]]
    BY <1>1, DurationNat DEF TypeOK, Recorded
  <1>3. Day(session[s].started) \in Nat
    BY <1>1, DayNat
  <1>4. StudyCheck(s, h) \subseteq StudyUsers \X Nat
    BY <1>3 DEF StudyCheck, TypeOK
  <1> QED BY <1>2, <1>4

\* A completion writes a row of each of the three tables.
LEMMA TypeComplete ==
  ASSUME TypeOK, NEW r \in Requests, RequestOK(r), \A s \in Sids : RowOK(s), ExecComplete(r)
  PROVE  TypeOK'
  <1> DEFINE s   == req[r].sid
             row == CompletedRow(session[s], req[r].at)
  <1>1. s \in Sids /\ req[r].at \in Nat /\ session[s] \in Row /\ session[s].status # "absent"
    BY DEF TypeOK, RequestOK, ExecComplete, At, Request
  <1>2. req' \in [Requests -> Request]
    BY RequestTypes DEF ExecComplete
  <1>3. UNCHANGED <<now, tasks, sweep>>
    BY DEF ExecComplete
  <1>4. CASE UNCHANGED <<session, history, study>>
    BY <1>2, <1>3, <1>4 DEF TypeOK
  <1>5. CASE /\ ElapsedCheck(row)
             /\ session' = [session EXCEPT ![s] = row]
             /\ \/ history' = Recorded(s, row.elapsed) /\ study' = StudyCheck(s, history')
                \/ UNCHANGED <<history, study>>
    <2>1. row \in Row /\ row.elapsed \in Nat
      BY <1>1, <1>5, RowTypes DEF Row
    <2>2. session' \in [Sids -> Row]
      BY <1>5, <2>1, <1>1, RowUpdate
    <2>3. /\ history' \in [Sids -> [rows : Nat, task : Tasks \cup {Nil}, start : Nat, minutes : Nat]]
          /\ study' \subseteq StudyUsers \X Nat
      <3>1. CASE UNCHANGED <<history, study>>
        BY <3>1 DEF TypeOK
      <3>2. CASE history' = Recorded(s, row.elapsed) /\ study' = StudyCheck(s, history')
        <4> HIDE DEF s, row
        <4> QED BY <3>2, <1>1, <2>1, CompletionTypes
      <3> QED BY <1>5, <3>1, <3>2
    <2> QED BY <1>2, <1>3, <2>2, <2>3 DEF TypeOK
  <1> QED BY <1>4, <1>5 DEF ExecComplete

\* The DELETE of a task, and its cascades, leave every table well typed.
LEMMA TypeDeleteTask ==
  ASSUME TypeOK, NEW r \in Requests, DeleteTask(r)
  PROVE  TypeOK'
  <1>1. req' \in [Requests -> Request]
    BY RequestTypes DEF DeleteTask
  <1>2. UNCHANGED <<now, study, sweep>>
    BY DEF DeleteTask
  <1>3. \A s \in Sids : session[s] \in Row /\ [session[s] EXCEPT !.task = Nil] \in Row
    BY RowTypes DEF TypeOK
  <1>4. session' \in [Sids -> Row]
    BY <1>3 DEF DeleteTask, TypeOK
  <1>5. /\ history' \in [Sids -> [rows : Nat, task : Tasks \cup {Nil}, start : Nat, minutes : Nat]]
        /\ tasks' \subseteq Tasks
    BY DEF DeleteTask, TypeOK, NoRows
  <1> QED BY <1>1, <1>2, <1>4, <1>5 DEF TypeOK

\* The scheduler's two statements write rows that passed the CHECK.
LEMMA TypeSweep ==
  ASSUME TypeOK, NEW i \in Instances, Sweep(i)
  PROVE  TypeOK'
  <1>1. sweep[i] \in [pc : {"idle", "pause", "discard"}, at : Nat] /\ now \in Nat
    BY DEF TypeOK
  <1>2. sweep' \in [Instances -> [pc : {"idle", "pause", "discard"}, at : Nat]]
    BY <1>1 DEF Sweep, SweepStart, SweepPause, SweepDiscard, SweepAbort, SweepIdle, TypeOK
  <1>3. session' \in [Sids -> Row]
    <2>1. CASE UNCHANGED session
      BY <2>1 DEF TypeOK
    <2>2. CASE SweepPause(i) /\ ~ UNCHANGED session
      <3> DEFINE t     == sweep[i].at
                 stale == {s \in Sids : HeartbeatStale(s, t)}
      <3>1. /\ \A s \in stale : ElapsedCheck(PausedRow(session[s], t))
            /\ session' = [s \in Sids |-> IF s \in stale THEN PausedRow(session[s], t)
                                                         ELSE session[s]]
        BY <2>2 DEF SweepPause
      <3>2. \A s \in stale : PausedRow(session[s], t) \in Row
        <4> SUFFICES ASSUME NEW s \in stale PROVE PausedRow(session[s], t) \in Row
          OBVIOUS
        <4>1. session[s] \in Row /\ t \in Nat
          BY <1>1 DEF TypeOK
        <4> QED BY <4>1, <3>1, RowTypes
      <3>3. \A s \in Sids : session[s] \in Row
        BY DEF TypeOK
      <3> HIDE DEF stale
      <3> QED BY <3>1, <3>2, <3>3
    <2>3. CASE SweepDiscard(i)
      <3>1. \A s \in Sids : ExpiredRow(session[s]) \in Row
        BY <1>1, RowTypes DEF TypeOK
      <3>2. \A s \in Sids : session[s] \in Row
        BY DEF TypeOK
      <3> QED BY <2>3, <3>1, <3>2 DEF SweepDiscard
    <2> QED BY <2>1, <2>2, <2>3 DEF Sweep, SweepStart, SweepAbort, tables
  <1>4. UNCHANGED <<now, tasks, history, study, req>>
    BY DEF Sweep, SweepStart, SweepPause, SweepDiscard, SweepAbort, tables
  <1> QED BY <1>2, <1>3, <1>4 DEF TypeOK

\* Every step keeps the types.
LEMMA TypeStep ==
  ASSUME IInv, [Next]_vars
  PROVE  TypeOK'
  <1> USE DEF IInv
  <1>1. ASSUME NEW r \in Requests, Arrive(r) \/ Handle(r) PROVE TypeOK'
    <2>1. CASE Arrive(r)
      BY <2>1, TypeArrive
    <2>2. CASE Quiet(r)
      BY <2>2, TypeQuiet
    <2>3. CASE StartInsert(r)
      BY <2>3, TypeStartInsert
    <2>4. CASE ExecPause(r) \/ ExecDiscard(r)
      BY <2>4, TypeFold
    <2>5. CASE ExecResume(r) \/ ExecHeartbeat(r)
      BY <2>5, TypeResume
    <2>6. CASE ExecComplete(r)
      BY <2>6, TypeComplete
    <2>7. CASE DeleteTask(r)
      BY <2>7, TypeDeleteTask
    <2> QED BY <1>1, <2>1, <2>2, <2>3, <2>4, <2>5, <2>6, <2>7 DEF Handle, Quiet
  <1>2. ASSUME NEW i \in Instances, Sweep(i) PROVE TypeOK'
    BY <1>2, TypeSweep
  <1>3. CASE Tick
    BY <1>3 DEF Tick, TypeOK, tables
  <1>4. CASE UNCHANGED vars
    BY <1>4 DEF vars, TypeOK
  <1> QED BY <1>1, <1>2, <1>3, <1>4 DEF Next

-----------------------------------------------------------------------------
(* How one row may change in one step *)

\* What a statement other than the INSERT, a completion or a task deletion does to
\* the row of session s.
Moves(s) ==
  \/ session'[s] = session[s]
  \/ session[s].status = "paused" /\ session'[s] = ExpiredRow(session[s])
  \/ \E t \in Nat :
       \/ session[s].status = "running" /\ session'[s] = PausedRow(session[s], t)
       \/ session[s].status = "paused" /\ session'[s] = ResumedRow(session[s], t)
       \/ session[s].status \in Active /\ session'[s] = DiscardedRow(session[s], t)
       \/ session[s].status = "running" /\ session'[s] = [session[s] EXCEPT !.heartbeat = t]

Completes(s) ==
  /\ session[s].status \in Active
  /\ \E t \in Nat : session'[s] = CompletedRow(session[s], t)

LosesTask(s) ==
  /\ session[s].status # "absent"
  /\ session'[s] = [session[s] EXCEPT !.task = Nil]

Evolves(s) == Moves(s) \/ Completes(s) \/ LosesTask(s)

\* What every change of an existing row keeps.
Kept(s) ==
  /\ session'[s].user = session[s].user
  /\ session'[s].kind = session[s].kind
  /\ session[s].status = "absent" <=> session'[s].status = "absent"
  /\ session[s].status \in Terminal =>
       /\ session'[s].status = session[s].status
       /\ session'[s].elapsed = session[s].elapsed
  /\ session'[s].status \in Active => session[s].status \in Active

\* A pause, resume, discard, heartbeat or expiry keeps the user and the kind of a row,
\* revives no session, and opens or closes the segment with the status.
LEMMA MovesKeeps ==
  ASSUME TypeOK, NEW s \in Sids, RowOK(s), Moves(s)
  PROVE  /\ Kept(s) /\ RowOK(s)'
         /\ session'[s].task = session[s].task
         /\ session'[s].status = "completed" <=> session[s].status = "completed"
  <1>1. session[s] \in Row
    BY DEF TypeOK
  <1>2. CASE session'[s] = session[s]
    BY <1>2 DEF Kept, RowOK
  <1>3. CASE session[s].status = "paused" /\ session'[s] = ExpiredRow(session[s])
    BY <1>1, <1>3 DEF Row, ExpiredRow, Kept, RowOK, Terminal, Active
  <1>4. ASSUME NEW t \in Nat, session[s].status = "running", session'[s] = PausedRow(session[s], t)
        PROVE  /\ Kept(s) /\ RowOK(s)' /\ session'[s].task = session[s].task
               /\ session'[s].status = "completed" <=> session[s].status = "completed"
    BY <1>1, <1>4 DEF Row, PausedRow, Kept, RowOK, Terminal, Active
  <1>5. ASSUME NEW t \in Nat, session[s].status = "paused", session'[s] = ResumedRow(session[s], t)
        PROVE  /\ Kept(s) /\ RowOK(s)' /\ session'[s].task = session[s].task
               /\ session'[s].status = "completed" <=> session[s].status = "completed"
    BY <1>1, <1>5 DEF Row, ResumedRow, Kept, RowOK, Terminal, Active, NoInstant
  <1>6. ASSUME NEW t \in Nat, session[s].status \in Active,
               session'[s] = DiscardedRow(session[s], t)
        PROVE  /\ Kept(s) /\ RowOK(s)' /\ session'[s].task = session[s].task
               /\ session'[s].status = "completed" <=> session[s].status = "completed"
    BY <1>1, <1>6 DEF Row, DiscardedRow, Kept, RowOK, Terminal, Active
  <1>7. ASSUME NEW t \in Nat, session[s].status = "running",
               session'[s] = [session[s] EXCEPT !.heartbeat = t]
        PROVE  /\ Kept(s) /\ RowOK(s)' /\ session'[s].task = session[s].task
               /\ session'[s].status = "completed" <=> session[s].status = "completed"
    BY <1>1, <1>7 DEF Row, Kept, RowOK, Terminal, Active
  <1> QED BY <1>2, <1>3, <1>4, <1>5, <1>6, <1>7 DEF Moves

\* So do a completion and the loss of the task.
LEMMA EvolvesKeeps ==
  ASSUME TypeOK, NEW s \in Sids, RowOK(s), Evolves(s)
  PROVE  Kept(s) /\ RowOK(s)'
  <1>1. session[s] \in Row
    BY DEF TypeOK
  <1>2. CASE Completes(s)
    BY <1>1, <1>2 DEF Completes, Row, CompletedRow, Kept, RowOK, Terminal, Active
  <1>3. CASE LosesTask(s)
    BY <1>1, <1>3 DEF LosesTask, Row, Kept, RowOK
  <1> QED BY <1>2, <1>3, MovesKeeps DEF Evolves

\* Rows that only evolve stay well formed, and no user gains an active session.
LEMMA AllEvolve ==
  ASSUME IInv, \A s \in Sids : Evolves(s)
  PROVE  (\A s \in Sids : Kept(s)) /\ (\A s \in Sids : RowOK(s)') /\ SingleActive'
  <1>1. \A s \in Sids : Kept(s) /\ RowOK(s)'
    BY EvolvesKeeps DEF IInv
  <1>2. SingleActive'
    BY <1>1 DEF IInv, SingleActive, Kept
  <1> QED BY <1>1, <1>2

\* History untouched and no session completed or deprived of its task.
LEMMA HistoryKept ==
  ASSUME IInv, \A s \in Sids : Moves(s), UNCHANGED history
  PROVE  \A s \in Sids : HistoryOK(s)'
  BY MovesKeeps DEF IInv, HistoryOK, Kept

\* A request that is not touched stays sound, for no session leaves the table and no
\* terminal session comes back.
LEMMA RequestKept ==
  ASSUME IInv, NEW r \in Requests, req'[r] = req[r],
         \A s \in Sids : \/ Kept(s)
                         \/ session[s].status = "absent"
  PROVE  RequestOK(r)'
  <1>1. RequestOK(r)
    BY DEF IInv
  <1> QED BY <1>1 DEF RequestOK, Kept, Terminal

\* A handler that serves no request knows nothing that could go stale.
LEMMA IdleOK ==
  ASSUME NEW r \in Requests, req'[r] = Idle
  PROVE  RequestOK(r)'
  BY DEF RequestOK, Idle

\* The change of one session seen as a change of all.
LEMMA OneMoves ==
  ASSUME TypeOK, NEW s \in Sids, NEW row, session' = [session EXCEPT ![s] = row]
  PROVE  session'[s] = row /\ \A x \in Sids \ {s} : session'[x] = session[x]
  BY DEF TypeOK

\* A step that only moves rows, leaves the history alone, and leaves the requests it
\* touches sound.
LEMMA FrameStep ==
  ASSUME IInv, TypeOK', \A s \in Sids : Moves(s), UNCHANGED history,
         \A r \in Requests : req'[r] = req[r] \/ RequestOK(r)'
  PROVE  IInv'
  <1>1. \A s \in Sids : Evolves(s)
    BY DEF Evolves
  <1>2. /\ \A s \in Sids : Kept(s)
        /\ \A s \in Sids : RowOK(s)'
        /\ SingleActive'
    BY <1>1, AllEvolve
  <1>3. \A s \in Sids : HistoryOK(s)'
    BY HistoryKept
  <1>4. \A r \in Requests : RequestOK(r)'
    BY <1>2, RequestKept
  <1> QED BY <1>2, <1>3, <1>4 DEF IInv

-----------------------------------------------------------------------------
(* The inductive invariant, action by action *)

\* A request that arrives or goes on to its next statement knows what it should.
LEMMA ArriveSafe ==
  ASSUME IInv, TypeOK', NEW r \in Requests, Arrive(r)
  PROVE  IInv'
  <1>1. UNCHANGED <<session, history>>
    BY DEF Arrive, ArriveStart, ArriveById, ArriveDeleteTask, tables
  <1>2. \A x \in Requests \ {r} : req'[x] = req[x]
    BY DEF Arrive, ArriveStart, ArriveById, ArriveDeleteTask, IInv, TypeOK
  <1>3. RequestOK(r)'
    <2>1. CASE \E u \in Users, p \in Starts : ArriveStart(r, u, p[1], p[2])
      BY <2>1 DEF ArriveStart, RequestOK, Idle, IInv, TypeOK
    <2>2. CASE \E op \in ByIdOps, u \in Users, s \in Sids : ArriveById(r, op, u, s)
      <3>1. PICK op \in ByIdOps, u \in Users, s \in Sids : ArriveById(r, op, u, s)
        BY <2>2
      <3>2. req'[r] = [Idle EXCEPT !.pc = "exec", !.op = op, !.user = u, !.sid = s, !.at = now]
        BY <3>1 DEF ArriveById, IInv, TypeOK
      <3>3. session'[s].status # "absent"
        BY <3>1, <1>1 DEF ArriveById, Owned
      <3> QED BY <3>2, <3>3 DEF RequestOK, Idle
    <2>3. CASE \E u \in Users, t \in Tasks : ArriveDeleteTask(r, u, t)
      BY <2>3 DEF ArriveDeleteTask, RequestOK, Idle, IInv, TypeOK
    <2> QED BY <2>1, <2>2, <2>3 DEF Arrive
  <1>4. \A s \in Sids : Moves(s)
    BY <1>1 DEF Moves
  <1> QED BY <1>1, <1>2, <1>3, <1>4, FrameStep

\* Reading statements and failures keep the invariant.
LEMMA QuietSafe ==
  ASSUME IInv, TypeOK', NEW r \in Requests, Quiet(r)
  PROVE  IInv'
  <1>1. UNCHANGED <<session, history>>
    BY DEF Quiet, StartCheck, StartReread, ReadBack, DeleteCount, Abort, tables
  <1>2. \A x \in Requests \ {r} : req'[x] = req[x]
    BY DEF Quiet, StartCheck, StartReread, ReadBack, DeleteCount, Abort, Answer, Goto,
           IInv, TypeOK
  <1>3. RequestOK(r)'
    <2>1. CASE req'[r] = Idle
      BY <2>1, IdleOK
    <2>2. CASE At(r, "start", "check") /\ Goto(r, "insert")
      BY <2>2 DEF IInv, TypeOK, At, Goto, RequestOK, Request
    <2>3. CASE At(r, "delete", "count") /\ Goto(r, "delete")
      BY <2>3 DEF IInv, TypeOK, At, Goto, RequestOK, Request
    <2>4. Answer(r) => req'[r] = Idle
      BY DEF Answer, IInv, TypeOK
    <2> QED BY <2>1, <2>2, <2>3, <2>4
            DEF Quiet, StartCheck, StartReread, ReadBack, DeleteCount, Abort
  <1>4. \A s \in Sids : Moves(s)
    BY <1>1 DEF Moves
  <1> QED BY <1>1, <1>2, <1>3, <1>4, FrameStep

\* Pause and Discard move the one row they name, if it is active.
LEMMA FoldMoves ==
  ASSUME IInv, NEW r \in Requests, ExecPause(r) \/ ExecDiscard(r)
  PROVE  \A x \in Sids : Moves(x)
  <1> DEFINE s == req[r].sid
             t == req[r].at
  <1>0. /\ s \in Sids /\ t \in Nat /\ session[s] \in Row
    BY DEF IInv, TypeOK, RequestOK, ExecPause, ExecDiscard, ExecFold, At, Request
  <1>1. CASE UNCHANGED session
    BY <1>1 DEF Moves
  <1>2. CASE PauseMatches(s) /\ session' = [session EXCEPT ![s] = PausedRow(session[s], t)]
    <2>1. session'[s] = PausedRow(session[s], t) /\ \A x \in Sids \ {s} : session'[x] = session[x]
      BY <1>2, <1>0, OneMoves DEF IInv
    <2> QED BY <2>1, <1>2, <1>0 DEF Moves, PauseMatches
  <1>3. CASE DiscardMatches(s) /\ session' = [session EXCEPT ![s] = DiscardedRow(session[s], t)]
    <2>1. session'[s] = DiscardedRow(session[s], t) /\ \A x \in Sids \ {s} : session'[x] = session[x]
      BY <1>3, <1>0, OneMoves DEF IInv
    <2> QED BY <2>1, <1>3, <1>0 DEF Moves, DiscardMatches
  <1> QED BY <1>1, <1>2, <1>3 DEF ExecPause, ExecDiscard, ExecFold

\* Pause and Discard: afterwards a discarded session is over, whether the statement
\* matched its row or another step had ended it.
LEMMA FoldSafe ==
  ASSUME IInv, TypeOK', NEW r \in Requests, ExecPause(r) \/ ExecDiscard(r)
  PROVE  IInv'
  <1> DEFINE s == req[r].sid
             t == req[r].at
  <1>1. /\ s \in Sids /\ t \in Nat /\ session[s] \in Row /\ session[s].status # "absent"
        /\ req[r] \in Request
    BY DEF IInv, TypeOK, RequestOK, ExecPause, ExecDiscard, ExecFold, At, Request
  <1>2. UNCHANGED history /\ \A x \in Requests \ {r} : req'[x] = req[x]
    BY DEF ExecPause, ExecDiscard, ExecFold, Answer, Goto, IInv, TypeOK
  <1>3. \A x \in Sids : Moves(x)
    BY FoldMoves
  <1>4. RequestOK(r)'
    <2>1. CASE Answer(r)
      BY <2>1, IdleOK DEF Answer, IInv, TypeOK
    <2>2. CASE ExecPause(r) /\ Goto(r, "readback")
      <3>1. req'[r] = [req[r] EXCEPT !.pc = "readback"] /\ req[r].op = "pause"
        BY <2>2 DEF ExecPause, ExecFold, At, Goto, IInv, TypeOK
      <3>2. session'[s].status # "absent"
        BY <1>1, <1>3, MovesKeeps DEF Kept, IInv
      <3> QED BY <3>1, <3>2, <1>1 DEF RequestOK, Request
    <2>3. CASE ExecDiscard(r) /\ Goto(r, "readback")
      <3>1. req'[r] = [req[r] EXCEPT !.pc = "readback"] /\ req[r].op = "discard"
        BY <2>3 DEF ExecDiscard, ExecFold, At, Goto, IInv, TypeOK
      <3>2. session'[s].status # "absent"
        BY <1>1, <1>3, MovesKeeps DEF Kept, IInv
      <3>3. session'[s].status \in Terminal
        <4>1. CASE session' = [session EXCEPT ![s] = DiscardedRow(session[s], t)]
          <5>1. session'[s] = DiscardedRow(session[s], t)
            BY <4>1, <1>1, OneMoves DEF IInv
          <5> QED BY <5>1, <1>1 DEF DiscardedRow, Row, Terminal
        <4>2. CASE UNCHANGED session /\ ~ DiscardMatches(s)
          BY <4>2, <1>1 DEF DiscardMatches, Row
        <4>3. Idle.pc # "readback" /\ req'[r].pc = "readback"
          BY <3>1, <1>1 DEF Idle, Request
        <4>4. ~ Answer(r)
          BY <4>3 DEF Answer, IInv, TypeOK
        <4> QED BY <2>3, <4>1, <4>2, <4>4 DEF ExecDiscard, ExecFold
      <3> QED BY <3>1, <3>2, <3>3, <1>1 DEF RequestOK, Request
    <2> QED BY <2>1, <2>2, <2>3 DEF ExecPause, ExecDiscard, ExecFold
  <1> QED BY <1>2, <1>3, <1>4, FrameStep

\* Resume and Heartbeat move the one row they name, if it is paused or running.
LEMMA ResumeMoves ==
  ASSUME IInv, NEW r \in Requests, ExecResume(r) \/ ExecHeartbeat(r)
  PROVE  \A x \in Sids : Moves(x)
  <1> DEFINE s == req[r].sid
             t == req[r].at
  <1>0. /\ s \in Sids /\ t \in Nat /\ session[s] \in Row
    BY DEF IInv, TypeOK, RequestOK, ExecResume, ExecHeartbeat, At, Request
  <1>1. CASE UNCHANGED session
    BY <1>1 DEF Moves
  <1>2. CASE ResumeMatches(s) /\ session' = [session EXCEPT ![s] = ResumedRow(session[s], t)]
    <2>1. session'[s] = ResumedRow(session[s], t) /\ \A x \in Sids \ {s} : session'[x] = session[x]
      BY <1>2, <1>0, OneMoves DEF IInv
    <2> QED BY <2>1, <1>2, <1>0 DEF Moves, ResumeMatches
  <1>3. CASE session[s].status = "running" /\ session' = [session EXCEPT ![s].heartbeat = t]
    <2>1. session' = [session EXCEPT ![s] = [session[s] EXCEPT !.heartbeat = t]]
      BY <1>3, <1>0 DEF IInv, TypeOK
    <2>2. session'[s] = [session[s] EXCEPT !.heartbeat = t] /\ \A x \in Sids \ {s} : session'[x] = session[x]
      BY <2>1, <1>0, OneMoves DEF IInv
    <2> QED BY <2>2, <1>3, <1>0 DEF Moves
  <1> QED BY <1>1, <1>2, <1>3 DEF ExecResume, ExecHeartbeat

\* Resume and Heartbeat keep the invariant.
LEMMA ResumeSafe ==
  ASSUME IInv, TypeOK', NEW r \in Requests, ExecResume(r) \/ ExecHeartbeat(r)
  PROVE  IInv'
  <1>1. UNCHANGED history /\ req'[r] = Idle /\ \A x \in Requests \ {r} : req'[x] = req[x]
    BY DEF ExecResume, ExecHeartbeat, Answer, IInv, TypeOK
  <1> QED BY <1>1, ResumeMoves, IdleOK, FrameStep

\* The scheduler pauses running rows and discards paused ones.
LEMMA SweepMoves ==
  ASSUME IInv, NEW i \in Instances, Sweep(i)
  PROVE  \A x \in Sids : Moves(x)
  <1>1. sweep[i].at \in Nat
    BY DEF IInv, TypeOK
  <1>2. CASE UNCHANGED session
    BY <1>2 DEF Moves
  <1>3. CASE SweepPause(i)
    BY <1>1, <1>2, <1>3 DEF SweepPause, HeartbeatStale, Moves
  <1>4. CASE SweepDiscard(i)
    BY <1>4 DEF SweepDiscard, Untouched, Moves
  <1> QED BY <1>2, <1>3, <1>4 DEF Sweep, SweepStart, SweepAbort, tables

\* The scheduler keeps the invariant, in whatever requests it cuts.
LEMMA SweepSafe ==
  ASSUME IInv, TypeOK', NEW i \in Instances, Sweep(i)
  PROVE  IInv'
  <1>1. UNCHANGED <<history, req>>
    BY DEF Sweep, SweepStart, SweepPause, SweepDiscard, SweepAbort, tables
  <1> QED BY <1>1, SweepMoves, FrameStep

\* The INSERT: the unique index is what keeps the user's sessions single.
LEMMA StartInsertSafe ==
  ASSUME IInv, TypeOK', NEW r \in Requests, StartInsert(r)
  PROVE  IInv'
  <1>1. /\ UNCHANGED history /\ \A x \in Requests \ {r} : req'[x] = req[x]
        /\ req[r] \in Request /\ req[r].user \in Users /\ req[r].op = "start"
    BY DEF StartInsert, Answer, Goto, IInv, TypeOK, RequestOK, At
  <1>2. RequestOK(r)'
    <2>1. CASE Answer(r)
      BY <2>1, IdleOK DEF Answer, IInv, TypeOK
    <2>2. CASE Goto(r, "reread")
      BY <2>2, <1>1 DEF Goto, IInv, TypeOK, RequestOK, Request
    <2> QED BY <2>1, <2>2 DEF StartInsert
  <1>3. CASE UNCHANGED session
    BY <1>1, <1>2, <1>3, FrameStep DEF Moves
  <1>4. CASE /\ ~ IndexConflict(req[r].user)
             /\ \E s \in Sids :
                  /\ session[s] = Absent
                  /\ session' = [session EXCEPT ![s] =
                       StartedRow(req[r].user, req[r].kind, req[r].task)]
    <2>1. PICK s \in Sids :
            /\ session[s] = Absent
            /\ session' = [session EXCEPT ![s] =
                 StartedRow(req[r].user, req[r].kind, req[r].task)]
      BY <1>4
    <2>2. /\ session'[s] = StartedRow(req[r].user, req[r].kind, req[r].task)
          /\ \A x \in Sids \ {s} : session'[x] = session[x]
      BY <2>1, OneMoves DEF IInv
    <2>3. /\ session'[s].status = "running" /\ session'[s].user = req[r].user
          /\ session'[s].segment = now
      BY <2>2 DEF StartedRow, Absent
    <2>4. session[s].status = "absent" /\ now \in Nat
      BY <2>1 DEF Absent, IInv, TypeOK
    <2>5. \A x \in Sids : RowOK(x)'
      BY <1>1, <2>2, <2>3, <2>4 DEF RowOK, IInv, NoInstant
    <2>6. \A x \in Sids : HistoryOK(x)'
      BY <1>1, <2>2, <2>3, <2>4 DEF HistoryOK, IInv
    <2>7. SingleActive'
      BY <1>4, <2>2, <2>3, <2>4 DEF SingleActive, IInv, IndexConflict, ActiveOf, Active
    <2>8. \A x \in Requests : RequestOK(x)'
      <3>1. \A x \in Sids : Kept(x) \/ session[x].status = "absent"
        BY <2>2, <2>4 DEF Kept
      <3> QED BY <1>1, <1>2, <3>1, RequestKept
    <2> QED BY <2>5, <2>6, <2>7, <2>8 DEF IInv
  <1> QED BY <1>3, <1>4 DEF StartInsert

\* Complete ends the one row it names, if that is active.
LEMMA CompleteEvolves ==
  ASSUME IInv, NEW r \in Requests, ExecComplete(r)
  PROVE  \A x \in Sids : Evolves(x)
  <1> DEFINE s   == req[r].sid
             row == CompletedRow(session[s], req[r].at)
  <1>1. s \in Sids /\ req[r].at \in Nat
    BY DEF IInv, TypeOK, RequestOK, ExecComplete, At, Request
  <1>2. CASE UNCHANGED session
    BY <1>2 DEF Evolves, Moves
  <1>3. CASE CompleteAllowed(s) /\ session' = [session EXCEPT ![s] = row]
    <2>1. session'[s] = row /\ \A x \in Sids \ {s} : session'[x] = session[x]
      BY <1>1, <1>3, OneMoves DEF IInv
    <2> QED BY <1>1, <1>3, <2>1 DEF Evolves, Completes, Moves, CompleteAllowed
  <1> QED BY <1>2, <1>3 DEF ExecComplete

\* Complete: the row lock makes the status it read the status it leaves, so a session
\* is recorded once.
LEMMA CompleteSafe ==
  ASSUME IInv, TypeOK', NEW r \in Requests, ExecComplete(r)
  PROVE  IInv'
  <1> DEFINE s   == req[r].sid
             row == CompletedRow(session[s], req[r].at)
  <1>1. /\ s \in Sids /\ req[r].at \in Nat /\ session[s] \in Row
        /\ session[s].status # "absent"
    BY DEF IInv, TypeOK, RequestOK, ExecComplete, At, Request
  <1>2. req'[r] = Idle /\ \A x \in Requests \ {r} : req'[x] = req[x]
    BY DEF ExecComplete, Answer, IInv, TypeOK
  <1>3. CASE UNCHANGED <<session, history, study>>
    BY <1>2, <1>3, IdleOK, FrameStep DEF Moves
  <1>4. CASE /\ CompleteAllowed(s)
             /\ session' = [session EXCEPT ![s] = row]
             /\ IF session[s].kind = "work"
                  THEN history' = Recorded(s, row.elapsed)
                  ELSE UNCHANGED history
    <2>1. session'[s] = row /\ \A x \in Sids \ {s} : session'[x] = session[x]
      BY <1>1, <1>4, OneMoves DEF IInv
    <2>2. /\ row.status = "completed" /\ row.kind = session[s].kind
          /\ row.task = session[s].task
      BY <1>1 DEF CompletedRow, Row
    <2>3. session[s].status \in Active /\ (session[s].kind = "work" => session[s].task # Nil)
      BY <1>4 DEF CompleteAllowed
    <2>4. /\ \A x \in Sids : Kept(x)
          /\ \A x \in Sids : RowOK(x)'
          /\ SingleActive'
      BY CompleteEvolves, AllEvolve
    <2>5. \A x \in Sids : HistoryOK(x)'
      <3>1. HistoryOK(s) /\ history[s].rows = 0
        BY <1>1, <2>3 DEF HistoryOK, IInv, Active
      <3>2. CASE session[s].kind = "work"
        <4>1. /\ history'[s].rows = 1 /\ history'[s].task = session[s].task
              /\ \A x \in Sids \ {s} : history'[x] = history[x]
          BY <1>1, <1>4, <3>1, <3>2 DEF Recorded, IInv, TypeOK
        <4> HIDE DEF s, row
        <4> QED BY <2>1, <2>2, <2>3, <3>2, <4>1 DEF HistoryOK, IInv
      <3>3. CASE session[s].kind # "work"
        <4>1. UNCHANGED history
          BY <1>4, <3>3
        <4> HIDE DEF s, row
        <4> QED BY <2>1, <2>2, <3>1, <3>3, <4>1 DEF HistoryOK, IInv
      <3> QED BY <3>2, <3>3
    <2>6. \A x \in Requests : RequestOK(x)'
      BY <1>2, <2>4, IdleOK, RequestKept
    <2> QED BY <2>4, <2>5, <2>6 DEF IInv
  <1> QED BY <1>3, <1>4 DEF ExecComplete

\* The deletion of a task clears the task of its sessions and changes no other column.
LEMMA DeleteTaskEvolves ==
  ASSUME IInv, NEW r \in Requests, DeleteTask(r)
  PROVE  \A x \in Sids : Evolves(x)
  <1> DEFINE t == req[r].task
  <1>1. t # Nil
    BY NilAssumption DEF DeleteTask, IInv, RequestOK, At
  <1>2. CASE UNCHANGED session
    BY <1>2 DEF Evolves, Moves
  <1>3. CASE session' = [s \in Sids |-> IF session[s].task = t
                                         THEN [session[s] EXCEPT !.task = Nil]
                                         ELSE session[s]]
    <2> SUFFICES ASSUME NEW s \in Sids PROVE Evolves(s)
      OBVIOUS
    <2>1. CASE session[s].task = t
      <3>1. session[s].status # "absent"
        BY <1>1, <2>1 DEF IInv, RowOK, Absent
      <3> QED BY <1>3, <2>1, <3>1 DEF Evolves, LosesTask
    <2>2. CASE session[s].task # t
      BY <1>3, <2>2 DEF Evolves, Moves
    <2> QED BY <2>1, <2>2
  <1> QED BY <1>2, <1>3 DEF DeleteTask

\* A deleted task takes its rows of focus_sessions along, and its sessions stay
\* without a task.
LEMMA DeleteTaskSafe ==
  ASSUME IInv, TypeOK', NEW r \in Requests, DeleteTask(r)
  PROVE  IInv'
  <1> DEFINE t == req[r].task
  <1>1. /\ req'[r] = Idle /\ \A x \in Requests \ {r} : req'[x] = req[x]
        /\ t \in Tasks /\ t # Nil
    BY NilAssumption DEF DeleteTask, Answer, IInv, TypeOK, RequestOK, At
  <1>2. CASE UNCHANGED <<session, history>>
    BY <1>1, <1>2, IdleOK, FrameStep DEF Moves
  <1>3. CASE /\ session' = [s \in Sids |-> IF session[s].task = t
                                             THEN [session[s] EXCEPT !.task = Nil]
                                             ELSE session[s]]
             /\ history' = [s \in Sids |-> IF history[s].task = t THEN NoRows ELSE history[s]]
    <2>1. /\ \A s \in Sids : Kept(s)
          /\ \A s \in Sids : RowOK(s)'
          /\ SingleActive'
      BY DeleteTaskEvolves, AllEvolve
    <2>2. \A s \in Sids : HistoryOK(s)'
      <3> SUFFICES ASSUME NEW s \in Sids PROVE HistoryOK(s)'
        OBVIOUS
      <3>1. session[s] \in Row /\ HistoryOK(s)
        BY DEF IInv, TypeOK
      <3>2. CASE session[s].task = t
        <4>1. session'[s].task = Nil
          BY <1>3, <3>1, <3>2 DEF Row
        <4>2. history'[s] = NoRows
          BY <1>1, <1>3, <3>1, <3>2 DEF HistoryOK, NoRows
        <4> QED BY <4>1, <4>2 DEF HistoryOK, NoRows
      <3>3. CASE session[s].task # t
        <4>1. session'[s] = session[s]
          BY <1>3, <3>3
        <4>2. history'[s] = history[s]
          BY <1>1, <1>3, <3>1, <3>3 DEF HistoryOK, NoRows
        <4> QED BY <3>1, <4>1, <4>2 DEF HistoryOK
      <3> QED BY <3>2, <3>3
    <2>3. \A x \in Requests : RequestOK(x)'
      BY <1>1, <2>1, IdleOK, RequestKept
    <2> QED BY <2>1, <2>2, <2>3 DEF IInv
  <1> QED BY <1>2, <1>3 DEF DeleteTask

\* The invariant holds at first and every step keeps it.
LEMMA InvInit == Init => IInv
  <1> SUFFICES ASSUME Init PROVE IInv
    OBVIOUS
  <1>1. TypeOK
    BY TypeInit
  <1>2. \A r \in Requests : RequestOK(r)
    BY DEF Init, RequestOK, Idle
  <1>3. \A s \in Sids : RowOK(s) /\ HistoryOK(s) /\ session[s].status = "absent"
    BY DEF Init, RowOK, HistoryOK, Absent, NoRows
  <1>4. SingleActive
    BY <1>3 DEF SingleActive, Active
  <1> QED BY <1>1, <1>2, <1>3, <1>4 DEF IInv

\* Every step keeps the inductive invariant.
LEMMA InvStep == IInv /\ [Next]_vars => IInv'
  <1> SUFFICES ASSUME IInv, [Next]_vars PROVE IInv'
    OBVIOUS
  <1> USE TypeStep
  <1>1. ASSUME NEW r \in Requests, Arrive(r) \/ Handle(r) PROVE IInv'
    <2>1. CASE Arrive(r)
      BY <2>1, ArriveSafe
    <2>2. CASE Quiet(r)
      BY <2>2, QuietSafe
    <2>3. CASE StartInsert(r)
      BY <2>3, StartInsertSafe
    <2>4. CASE ExecPause(r) \/ ExecDiscard(r)
      BY <2>4, FoldSafe
    <2>5. CASE ExecResume(r) \/ ExecHeartbeat(r)
      BY <2>5, ResumeSafe
    <2>6. CASE ExecComplete(r)
      BY <2>6, CompleteSafe
    <2>7. CASE DeleteTask(r)
      BY <2>7, DeleteTaskSafe
    <2> QED BY <1>1, <2>1, <2>2, <2>3, <2>4, <2>5, <2>6, <2>7 DEF Handle, Quiet
  <1>2. ASSUME NEW i \in Instances, Sweep(i) PROVE IInv'
    BY <1>2, SweepSafe
  <1>3. CASE Tick \/ UNCHANGED vars
    <2>1. UNCHANGED <<session, history, req>>
      BY <1>3 DEF Tick, vars, tables
    <2> QED BY <2>1, FrameStep DEF Moves
  <1> QED BY <1>1, <1>2, <1>3 DEF Next

\* The invariant of every behaviour.
THEOREM Invariance == Spec => []IInv
  BY InvInit, InvStep, PTL DEF Spec

\* Every variable has its type: elapsed_seconds stays natural whatever instants the
\* statements carry, because of the CHECK.
THEOREM TypeCorrect == Spec => []TypeOK
  <1>1. IInv => TypeOK
    BY DEF IInv
  <1> QED BY <1>1, Invariance, PTL

\* One active session per user, for any number of users, requests and instances.
THEOREM OneActiveSession == Spec => []SingleActive
  <1>1. IInv => SingleActive
    BY DEF IInv
  <1> QED BY <1>1, Invariance, PTL

\* A segment is open exactly while its session runs.
THEOREM SegmentsMatchStatus == Spec => []SegmentIffRunning
  <1>1. IInv => SegmentIffRunning
    BY DEF IInv, RowOK, SegmentIffRunning
  <1> QED BY <1>1, Invariance, PTL

\* focus_sessions has one row of every completed work session and no other row.
THEOREM HistoryIsExact == Spec => []HistoryExact
  <1>1. IInv => HistoryExact
    BY DEF IInv, HistoryOK, HistoryExact
  <1> QED BY <1>1, Invariance, PTL

\* A discard that is answered with 200 has ended its session.
THEOREM DiscardIsFinal == Spec => []DiscardEndsSession
  <1>1. IInv => DiscardEndsSession
    BY DEF IInv, RequestOK, DiscardEndsSession, At
  <1> QED BY <1>1, Invariance, PTL

-----------------------------------------------------------------------------
(* What a step may do to a session that is over *)

\* Every step keeps what Kept says of the rows that are in the table.
LEMMA StepKeeps ==
  ASSUME IInv, [Next]_vars, NEW s \in Sids, session[s].status # "absent"
  PROVE  Kept(s)
  <1>1. RowOK(s) /\ TypeOK
    BY DEF IInv
  <1>2. ASSUME NEW r \in Requests, StartInsert(r) PROVE session'[s] = session[s]
    BY <1>1, <1>2 DEF StartInsert, Absent, TypeOK
  <1>3. ASSUME NEW r \in Requests, Arrive(r) \/ Handle(r) PROVE Evolves(s)
    <2>1. CASE Arrive(r) \/ Quiet(r)
      BY <2>1 DEF Arrive, ArriveStart, ArriveById, ArriveDeleteTask, Quiet, StartCheck,
                  StartReread, ReadBack, DeleteCount, Abort, tables, Evolves, Moves
    <2>2. CASE StartInsert(r)
      BY <2>2, <1>2 DEF Evolves, Moves
    <2>3. CASE ExecPause(r) \/ ExecDiscard(r)
      BY <2>3, FoldMoves DEF Evolves
    <2>4. CASE ExecResume(r) \/ ExecHeartbeat(r)
      BY <2>4, ResumeMoves DEF Evolves
    <2>5. CASE ExecComplete(r)
      BY <2>5, CompleteEvolves
    <2>6. CASE DeleteTask(r)
      BY <2>6, DeleteTaskEvolves
    <2> QED BY <1>3, <2>1, <2>2, <2>3, <2>4, <2>5, <2>6 DEF Handle, Quiet
  <1>4. ASSUME NEW i \in Instances, Sweep(i) PROVE Evolves(s)
    BY <1>4, SweepMoves DEF Evolves
  <1>5. Tick \/ UNCHANGED vars => Evolves(s)
    BY DEF Tick, vars, tables, Evolves, Moves
  <1>6. Evolves(s)
    BY <1>3, <1>4, <1>5 DEF Next
  <1> QED BY <1>1, <1>6, EvolvesKeeps

\* A completed or discarded session is never reopened, ended again or credited again.
THEOREM TerminalStaysFinal == Spec => TerminalIsFinal
  <1>1. ASSUME IInv, [Next]_vars
        PROVE  [\A s \in Sids : session[s].status \in Terminal =>
                  /\ session'[s].status = session[s].status
                  /\ session'[s].elapsed = session[s].elapsed]_vars
    <2> SUFFICES ASSUME NEW s \in Sids, session[s].status \in Terminal
                 PROVE  /\ session'[s].status = session[s].status
                        /\ session'[s].elapsed = session[s].elapsed
      OBVIOUS
    <2>1. Kept(s)
      BY <1>1, StepKeeps DEF Terminal
    <2> QED BY <2>1 DEF Kept
  <1> QED BY <1>1, Invariance, PTL DEF Spec, TerminalIsFinal

-----------------------------------------------------------------------------
(* The statements implement the life cycle *)

\* The tables before the first step are the life cycle's initial state.
LEMMA LifecycleInit == Init => Lifecycle!Init
  BY DEF Init, Lifecycle!Init, Absent, NoRows

\* A step that changes neither the sessions' users and status nor the counts of their
\* history is invisible to the life cycle.
LEMMA Stutters ==
  ASSUME \A s \in Sids : /\ session'[s].user = session[s].user
                         /\ session'[s].status = session[s].status
                         /\ history'[s].rows = history[s].rows
  PROVE  UNCHANGED Lifecycle!vars
  BY DEF Lifecycle!vars

\* Start: the INSERT that succeeds starts a session of a user who has none open.
LEMMA InsertStarts ==
  ASSUME IInv, NEW r \in Requests, StartInsert(r)
  PROVE  Lifecycle!Next \/ UNCHANGED Lifecycle!vars
  <1>1. UNCHANGED history /\ req[r].user \in Users
    BY DEF StartInsert, IInv, RequestOK, At
  <1>2. CASE UNCHANGED session
    BY <1>1, <1>2, Stutters
  <1> PICK u \in Users : u = req[r].user
    BY <1>1
  <1>3. ASSUME NEW s \in Sids, ~ IndexConflict(u), session[s] = Absent,
               session' = [session EXCEPT ![s] = StartedRow(u, req[r].kind, req[r].task)]
        PROVE  Lifecycle!Start(s, u)
    <2>1. /\ session'[s] = StartedRow(u, req[r].kind, req[r].task)
          /\ \A x \in Sids \ {s} : session'[x] = session[x]
      BY <1>3, OneMoves DEF IInv
    <2>2. session'[s].status = "running" /\ session'[s].user = u
      BY <2>1 DEF StartedRow, Absent
    <2>3. \A x \in Sids : session[x].user = u => session[x].status \notin Active
      BY <1>3 DEF IndexConflict, ActiveOf
    <2>4. session[s].status = "absent"
      BY <1>3 DEF Absent
    <2> QED BY <1>1, <2>1, <2>2, <2>3, <2>4
            DEF Lifecycle!Start, Lifecycle!Move, Lifecycle!Open, Active
  <1> QED BY <1>1, <1>2, <1>3 DEF StartInsert, Lifecycle!Next

\* A statement that moves rows and writes no history is a Pause, a Discard or a Resume
\* of the sessions it moves, as long as all of them move the same way.
LEMMA OneSessionMoves ==
  ASSUME IInv, NEW s \in Sids, Moves(s), \A x \in Sids \ {s} : session'[x] = session[x],
         UNCHANGED history
  PROVE  Lifecycle!Next \/ UNCHANGED Lifecycle!vars
  <1>1. session[s] \in Row /\ session'[s].user = session[s].user
    BY MovesKeeps DEF IInv, TypeOK, Kept
  <1>2. CASE session'[s].status = session[s].status
    BY <1>1, <1>2, Stutters
  <1>3. CASE session[s].status = "running" /\ session'[s].status = "paused"
    <2>1. Lifecycle!Pause({s})
      BY <1>1, <1>3 DEF Lifecycle!Pause, Lifecycle!Move
    <2> QED BY <2>1 DEF Lifecycle!Next
  <1>4. CASE session[s].status = "paused" /\ session'[s].status = "running"
    <2>1. Lifecycle!Resume(s)
      BY <1>1, <1>4 DEF Lifecycle!Resume, Lifecycle!Move
    <2> QED BY <2>1 DEF Lifecycle!Next
  <1>5. CASE session[s].status \in Active /\ session'[s].status = "discarded"
    <2>1. Lifecycle!Discard({s})
      BY <1>1, <1>5 DEF Lifecycle!Discard, Lifecycle!Move, Lifecycle!Open, Active
    <2> QED BY <2>1 DEF Lifecycle!Next
  <1>6. \/ session'[s].status = session[s].status
        \/ session[s].status = "running" /\ session'[s].status = "paused"
        \/ session[s].status = "paused" /\ session'[s].status = "running"
        \/ session[s].status \in Active /\ session'[s].status = "discarded"
    BY <1>1 DEF Moves, ExpiredRow, PausedRow, ResumedRow, DiscardedRow, Active, Row
  <1> QED BY <1>2, <1>3, <1>4, <1>5, <1>6

\* Complete: what the session recorded goes from none to one row or stays none.
LEMMA CompleteCompletes ==
  ASSUME IInv, NEW r \in Requests, ExecComplete(r)
  PROVE  Lifecycle!Next \/ UNCHANGED Lifecycle!vars
  <1> PICK s \in Sids : s = req[r].sid
    BY DEF IInv, RequestOK, ExecComplete, At
  <1> DEFINE row == CompletedRow(session[s], req[r].at)
  <1>1. session[s] \in Row
    BY DEF IInv, TypeOK
  <1>2. CASE UNCHANGED <<session, history>>
    BY <1>2, Stutters
  <1>3. CASE /\ CompleteAllowed(s)
             /\ session' = [session EXCEPT ![s] = row]
             /\ history' = Recorded(s, row.elapsed) \/ UNCHANGED history
    <2>1. session'[s] = row /\ \A x \in Sids \ {s} : session'[x] = session[x]
      BY <1>1, <1>3, OneMoves DEF IInv
    <2>2. row.status = "completed" /\ row.user = session[s].user
      BY <1>1 DEF CompletedRow, Row
    <2>3. session[s].status \in Active
      BY <1>3 DEF CompleteAllowed
    <2>4. history[s].rows = 0
      BY <1>1, <2>3 DEF IInv, HistoryOK, Active
    <2>5. /\ history'[s].rows \in {0, 1}
          /\ \A x \in Sids \ {s} : history'[x] = history[x]
      BY <1>1, <1>3, <2>4 DEF Recorded, IInv, TypeOK
    <2> HIDE DEF row
    <2>6. Lifecycle!Complete(s)
      <3>1. Lifecycle!Move({s}, Lifecycle!Open, "completed")
        BY <1>1, <2>1, <2>2, <2>3 DEF Lifecycle!Move, Lifecycle!Open, Active
      <3>2. \E n \in {0, 1} :
              [x \in Sids |-> history[x].rows]' =
                [[x \in Sids |-> history[x].rows] EXCEPT ![s] = n]
        BY <1>1, <2>5
      <3>3. [x \in Sids |-> session[x].user]' = [x \in Sids |-> session[x].user]
        BY <1>1, <2>1, <2>2
      <3> QED BY <3>1, <3>2, <3>3 DEF Lifecycle!Complete
    <2> QED BY <1>1, <2>6 DEF Lifecycle!Next
  <1> QED BY <1>2, <1>3 DEF ExecComplete

\* DeleteTask forgets what the sessions of the task recorded.
LEMMA DeleteTaskForgets ==
  ASSUME IInv, NEW r \in Requests, DeleteTask(r)
  PROVE  Lifecycle!Next \/ UNCHANGED Lifecycle!vars
  <1> DEFINE t == req[r].task
  <1> PICK S \in SUBSET Sids : S = {s \in Sids : history[s].task = t}
    OBVIOUS
  <1>1. CASE UNCHANGED <<session, history>>
    BY <1>1, Stutters
  <1>2. CASE /\ session' = [s \in Sids |-> IF session[s].task = t
                                             THEN [session[s] EXCEPT !.task = Nil]
                                             ELSE session[s]]
             /\ history' = [s \in Sids |-> IF history[s].task = t THEN NoRows ELSE history[s]]
    <2>1. \A s \in Sids : session[s] \in Row
      BY DEF IInv, TypeOK
    <2>2. \A s \in Sids : /\ session'[s].user = session[s].user
                          /\ session'[s].status = session[s].status
      BY <1>2, <2>1 DEF Row
    <2>3. \A s \in Sids : history'[s].rows = IF s \in S THEN 0 ELSE history[s].rows
      BY <1>2 DEF NoRows
    <2>4. Lifecycle!Forget(S)
      BY <2>2, <2>3 DEF Lifecycle!Forget
    <2> QED BY <2>4 DEF Lifecycle!Next
  <1> QED BY <1>1, <1>2 DEF DeleteTask

\* The two statements of a tick pause, and discard, any number of sessions at once.
LEMMA SweepMovesMany ==
  ASSUME IInv, NEW i \in Instances, Sweep(i)
  PROVE  Lifecycle!Next \/ UNCHANGED Lifecycle!vars
  <1> DEFINE t == sweep[i].at
  <1> PICK stale \in SUBSET Sids : stale = {s \in Sids : HeartbeatStale(s, t)}
    OBVIOUS
  <1> PICK left \in SUBSET Sids : left = {s \in Sids : Untouched(s, t)}
    OBVIOUS
  <1>1. UNCHANGED history /\ \A s \in Sids : session[s] \in Row
    BY DEF Sweep, SweepStart, SweepPause, SweepDiscard, SweepAbort, tables, IInv, TypeOK
  <1>2. CASE UNCHANGED session
    BY <1>1, <1>2, Stutters
  <1>3. CASE session' = [s \in Sids |-> IF s \in stale THEN PausedRow(session[s], t)
                                                      ELSE session[s]]
    <2>1. \A s \in Sids :
            /\ session'[s].user = session[s].user
            /\ session'[s].status = IF s \in stale THEN "paused" ELSE session[s].status
      BY <1>1, <1>3 DEF PausedRow, Row
    <2>2. \A s \in stale : session[s].status = "running" /\ s \in Sids
      BY DEF HeartbeatStale
    <2>3. Lifecycle!Pause(stale)
      BY <1>1, <2>1, <2>2 DEF Lifecycle!Pause, Lifecycle!Move
    <2> QED BY <2>3 DEF Lifecycle!Next
  <1>4. CASE session' = [s \in Sids |-> IF Untouched(s, t) THEN ExpiredRow(session[s])
                                                         ELSE session[s]]
    <2>1. \A s \in Sids :
            /\ session'[s].user = session[s].user
            /\ session'[s].status = IF s \in left THEN "discarded" ELSE session[s].status
      BY <1>1, <1>4 DEF ExpiredRow, Row
    <2>2. \A s \in left : session[s].status = "paused" /\ s \in Sids
      BY DEF Untouched
    <2>3. Lifecycle!Discard(left)
      BY <1>1, <2>1, <2>2 DEF Lifecycle!Discard, Lifecycle!Move, Lifecycle!Open
    <2> QED BY <2>3 DEF Lifecycle!Next
  <1> QED BY <1>2, <1>3, <1>4 DEF Sweep, SweepStart, SweepPause, SweepDiscard, SweepAbort, tables

\* Every step of the system is a step of the life cycle or invisible to it.
LEMMA LifecycleStep ==
  ASSUME IInv, [Next]_vars
  PROVE  Lifecycle!Next \/ UNCHANGED Lifecycle!vars
  <1>1. ASSUME NEW r \in Requests, Arrive(r) \/ Handle(r)
        PROVE  Lifecycle!Next \/ UNCHANGED Lifecycle!vars
    <2>1. CASE Arrive(r) \/ Quiet(r)
      <3>1. UNCHANGED <<session, history>>
        BY <2>1 DEF Arrive, ArriveStart, ArriveById, ArriveDeleteTask, Quiet, StartCheck,
                    StartReread, ReadBack, DeleteCount, Abort, tables
      <3> QED BY <3>1, Stutters
    <2>2. CASE StartInsert(r)
      BY <2>2, InsertStarts
    <2>3. CASE ExecPause(r) \/ ExecDiscard(r) \/ ExecResume(r) \/ ExecHeartbeat(r)
      <3>1. req[r].sid \in Sids /\ Moves(req[r].sid)
        BY <2>3, FoldMoves, ResumeMoves
           DEF IInv, RequestOK, ExecPause, ExecDiscard, ExecFold, ExecResume, ExecHeartbeat, At
      <3>2. UNCHANGED history /\ \A x \in Sids \ {req[r].sid} : session'[x] = session[x]
        BY <2>3 DEF ExecPause, ExecDiscard, ExecFold, ExecResume, ExecHeartbeat, IInv, TypeOK
      <3> QED BY <3>1, <3>2, OneSessionMoves
    <2>4. CASE ExecComplete(r)
      BY <2>4, CompleteCompletes
    <2>5. CASE DeleteTask(r)
      BY <2>5, DeleteTaskForgets
    <2> QED BY <1>1, <2>1, <2>2, <2>3, <2>4, <2>5 DEF Handle, Quiet
  <1>2. ASSUME NEW i \in Instances, Sweep(i)
        PROVE  Lifecycle!Next \/ UNCHANGED Lifecycle!vars
    BY <1>2, SweepMovesMany
  <1>3. CASE Tick \/ UNCHANGED vars
    BY <1>3, Stutters DEF Tick, vars, tables
  <1> QED BY <1>1, <1>2, <1>3 DEF Next

\* The requests and the scheduler, statement by statement, implement the life cycle.
THEOREM LifecycleImplemented == Spec => ImplementsLifecycle
  <1>1. IInv /\ [Next]_vars => [Lifecycle!Next]_(Lifecycle!vars)
    BY LifecycleStep
  <1> QED BY LifecycleInit, <1>1, Invariance, PTL DEF Spec, ImplementsLifecycle, Lifecycle!Spec

-----------------------------------------------------------------------------
(* The running total, whatever the lag *)

\* The instants in use were taken, and those of the handlers not long ago.
Timely ==
  /\ \A r \in Requests : req[r].pc = "exec" => req[r].at <= now /\ now <= req[r].at + MaxLag
  /\ \A i \in Instances : sweep[i].pc # "idle" => sweep[i].at <= now

\* What elapsed_seconds may hold, in half ticks, when n segments were opened before
\* the instant t and m of them are folded.
Budget(started, t, n, m) == 2 * (t - started) + TickRate * m + 2 * (MaxLag * (n - 1))

\* The accumulator keeps to the budget of the folded segments, up to the start of the
\* open one: the lag of a resumption is spent when the segment opens.
Bounded(s) ==
  LET row == session[s]
  IN  /\ row.status # "absent" => row.opened > 0
      /\ row.opened > 0 =>
           IF row.segment = NoInstant
             THEN 2 * (TickRate * row.elapsed)
                    <= Budget(row.started, now, row.opened, row.opened)
             ELSE /\ 2 * (TickRate * row.elapsed)
                       <= Budget(row.started, row.segment, row.opened, row.opened - 1)
                  /\ row.segment <= now

\* The changes of a row that the running total can feel.
Spends(s) ==
  \/ /\ session'[s].status = session[s].status
     /\ session'[s].elapsed = session[s].elapsed
     /\ session'[s].segment = session[s].segment
     /\ session'[s].started = session[s].started
     /\ session'[s].opened = session[s].opened
  \/ session[s].status = "paused" /\ session'[s] = ExpiredRow(session[s])
  \/ \E t \in Nat :
       /\ t <= now
       /\ session[s].status \in Active
       /\ session'[s] \in {PausedRow(session[s], t), DiscardedRow(session[s], t),
                           CompletedRow(session[s], t)}
  \/ \E t \in Nat :
       /\ t <= now /\ now <= t + MaxLag
       /\ session[s].status = "paused"
       /\ session'[s] = ResumedRow(session[s], t)
  \/ session[s] = Absent /\ \E u, k, t : session'[s] = StartedRow(u, k, t)

\* The budget in integers: one term for the time, one for the segments that are folded,
\* one for the resumptions.
LEMMA BudgetIs ==
  ASSUME NEW a \in Nat, NEW n \in Nat
  PROVE  \E P, Q \in Int :
           /\ \A u \in Int : Budget(a, u, n, n) = 2 * (u - a) + P + 2 * Q
           /\ \A u \in Int : Budget(a, u, n, n - 1) = 2 * (u - a) + (P - TickRate) + 2 * Q
           /\ \A u \in Int : Budget(a, u, n + 1, n) = 2 * (u - a) + P + 2 * (Q + MaxLag)
  <1> DEFINE P == TickRate * n
             Q == MaxLag * (n - 1)
  <1>1. TickRate \in Int /\ MaxLag \in Int
    BY TimeAssumption
  <1>2. P \in Int /\ Q \in Int /\ TickRate * (n - 1) = P - TickRate
        /\ MaxLag * ((n + 1) - 1) = Q + MaxLag
    BY <1>1
  <1>3. \A u \in Int : Budget(a, u, n, n) = 2 * (u - a) + P + 2 * Q
    BY DEF Budget
  <1>4. \A u \in Int : Budget(a, u, n, n - 1) = 2 * (u - a) + (P - TickRate) + 2 * Q
    BY <1>2 DEF Budget
  <1>5. \A u \in Int : Budget(a, u, n + 1, n) = 2 * (u - a) + P + 2 * (Q + MaxLag)
    BY <1>2 DEF Budget
  <1> HIDE DEF P, Q
  <1> QED BY <1>2, <1>3, <1>4, <1>5

\* Folding the open segment of a session up to an instant in the past keeps the
\* accumulator within the budget of its segments.
LEMMA FoldSpends ==
  ASSUME TypeOK, NEW s \in Sids, Bounded(s), session[s].opened > 0,
         NEW t \in Nat, t <= now, NEW e, e \in {Folded(session[s], t), ActiveElapsed(session[s], t)}
  PROVE  2 * (TickRate * e)
           <= Budget(session[s].started, now, session[s].opened, session[s].opened)
  <1> DEFINE row == session[s]
             a == row.started
             n == row.opened
  <1>1. row \in Row /\ now \in Nat /\ TickRate \in Nat
    BY TimeAssumption DEF TypeOK
  <1>2. row.elapsed \in Nat /\ a \in Nat /\ n \in Nat
    BY <1>1 DEF Row
  <1>3. CASE row.segment = NoInstant
    <2>1. e = row.elapsed
      BY <1>2, <1>3 DEF Folded, ActiveElapsed
    <2> QED BY <1>3, <2>1 DEF Bounded
  <1>4. CASE row.segment # NoInstant
    <2> DEFINE g == row.segment
               span == t - g
    <2>1. g \in Nat /\ g <= now /\ span \in Int
      BY <1>1, <1>4 DEF Bounded, Row
    <2>2. PICK c \in Int : /\ e = row.elapsed + c
                           /\ 2 * (TickRate * c) <= 2 * span + TickRate \/ c <= 0
      <3>1. CASE e = Folded(row, t)
        BY <1>4, <2>1, <3>1, RoundedBound DEF Folded
      <3>2. CASE e = ActiveElapsed(row, t)
        <4>1. /\ Truncated(span) \in Int
              /\ TickRate * Truncated(span) <= span \/ Truncated(span) <= 0
          BY <2>1, TruncatedBound
        <4>2. TickRate * Truncated(span) \in Int
          BY <1>1, <4>1
        <4>3. \/ 2 * (TickRate * Truncated(span)) <= 2 * span + TickRate
              \/ Truncated(span) <= 0
          BY <1>1, <2>1, <4>1, <4>2
        <4>4. e = row.elapsed + Truncated(span)
          BY <1>4, <3>2 DEF ActiveElapsed
        <4> QED BY <4>1, <4>3, <4>4
      <3> QED BY <3>1, <3>2
    <2> DEFINE B == Budget(a, g, n, n - 1)
               E == TickRate * row.elapsed
               C == TickRate * c
    <2> HIDE DEF a, n, g
    <2>0. g \in Int /\ now \in Int /\ g <= now /\ a \in Nat /\ n \in Nat /\ TickRate \in Int
      BY <1>1, <1>2, <2>1
    <2>3. B \in Int /\ Budget(a, now, n, n) = B + 2 * (now - g) + TickRate
      <3>1. PICK P, Q \in Int :
              /\ \A u \in Int : Budget(a, u, n, n) = 2 * (u - a) + P + 2 * Q
              /\ \A u \in Int : Budget(a, u, n, n - 1) = 2 * (u - a) + (P - TickRate) + 2 * Q
              /\ \A u \in Int : Budget(a, u, n + 1, n) = 2 * (u - a) + P + 2 * (Q + MaxLag)
        BY <2>0, BudgetIs
      <3>2. /\ Budget(a, now, n, n) = 2 * (now - a) + P + 2 * Q
            /\ B = 2 * (g - a) + (P - TickRate) + 2 * Q
        BY <2>0, <3>1
      <3> QED BY <2>0, <3>2
    <2>4. 2 * E <= B
      BY <1>4 DEF Bounded, a, n, g
    <2>5. E \in Int /\ C \in Int /\ TickRate * e = E + C
      BY <1>1, <1>2, <2>2
    <2>6. C <= 0 \/ 2 * C <= 2 * span + TickRate
      BY <1>1, <2>2
    <2> HIDE DEF B, E, C
    <2>7. 2 * (E + C) <= B + 2 * (now - g) + TickRate
      BY <1>1, <2>1, <2>3, <2>4, <2>5, <2>6
    <2> QED BY <1>1, <2>1, <2>3, <2>5, <2>7 DEF a, n
  <1> QED BY <1>3, <1>4

\* Every change of a row stays within the budget.
LEMMA SpendsKeeps ==
  ASSUME IInv, NEW s \in Sids, Bounded(s), Spends(s), now' = now
  PROVE  Bounded(s)'
  <1> DEFINE row == session[s]
             a == row.started
             n == row.opened
  <1>1. row \in Row /\ RowOK(s) /\ now \in Nat /\ TypeOK
    BY DEF IInv, TypeOK
  <1>2. a \in Nat /\ n \in Nat /\ row.elapsed \in Nat
    BY <1>1 DEF Row
  <1>3. CASE /\ session'[s].status = row.status
             /\ session'[s].elapsed = row.elapsed
             /\ session'[s].segment = row.segment
             /\ session'[s].started = row.started
             /\ session'[s].opened = row.opened
    BY <1>3 DEF Bounded
  <1>4. CASE row.status = "paused" /\ session'[s] = ExpiredRow(row)
    <2>1. row.segment = NoInstant /\ n > 0
      BY <1>1, <1>4 DEF RowOK, Bounded
    <2>2. /\ session'[s].elapsed = row.elapsed /\ session'[s].segment = NoInstant
          /\ session'[s].started = a /\ session'[s].opened = n
      BY <1>1, <1>4 DEF ExpiredRow, Row
    <2> QED BY <2>1, <2>2 DEF Bounded
  <1>5. ASSUME NEW t \in Nat, t <= now, row.status \in Active,
               session'[s] \in {PausedRow(row, t), DiscardedRow(row, t), CompletedRow(row, t)}
        PROVE  Bounded(s)'
    <2>1. n > 0
      BY <1>5 DEF Bounded, Active
    <2>2. /\ session'[s].elapsed \in {Folded(row, t), ActiveElapsed(row, t)}
          /\ session'[s].segment = NoInstant
          /\ session'[s].started = a /\ session'[s].opened = n
      BY <1>1, <1>5 DEF PausedRow, DiscardedRow, CompletedRow, Row
    <2>3. 2 * (TickRate * session'[s].elapsed) <= Budget(a, now, n, n)
      BY <1>1, <1>5, <2>1, <2>2, FoldSpends
    <2> QED BY <2>1, <2>2, <2>3 DEF Bounded
  <1>6. ASSUME NEW t \in Nat, t <= now, now <= t + MaxLag, row.status = "paused",
               session'[s] = ResumedRow(row, t)
        PROVE  Bounded(s)'
    <2>1. row.segment = NoInstant /\ n > 0
      BY <1>1, <1>6 DEF RowOK, Bounded
    <2>2. /\ session'[s].elapsed = row.elapsed /\ session'[s].segment = t
          /\ session'[s].started = a /\ session'[s].opened = n + 1
      BY <1>1, <1>6 DEF ResumedRow, Row
    <2>3. 2 * (TickRate * row.elapsed) <= Budget(a, now, n, n)
      BY <2>1 DEF Bounded
    <2> HIDE DEF a, n
    <2>4. /\ Budget(a, t, n, n) \in Int
          /\ Budget(a, now, n, n) = Budget(a, t, n, n) + 2 * (now - t)
          /\ Budget(a, t, n + 1, n) = Budget(a, t, n, n) + 2 * MaxLag
      <3>1. t \in Int /\ now \in Int /\ a \in Nat /\ n \in Nat /\ MaxLag \in Int
        BY <1>1, <1>2, TimeAssumption
      <3>2. PICK P, Q \in Int :
              /\ \A u \in Int : Budget(a, u, n, n) = 2 * (u - a) + P + 2 * Q
              /\ \A u \in Int : Budget(a, u, n, n - 1) = 2 * (u - a) + (P - TickRate) + 2 * Q
              /\ \A u \in Int : Budget(a, u, n + 1, n) = 2 * (u - a) + P + 2 * (Q + MaxLag)
        BY <3>1, BudgetIs
      <3>3. /\ Budget(a, now, n, n) = 2 * (now - a) + P + 2 * Q
            /\ Budget(a, t, n, n) = 2 * (t - a) + P + 2 * Q
            /\ Budget(a, t, n + 1, n) = 2 * (t - a) + P + 2 * (Q + MaxLag)
        BY <3>1, <3>2
      <3> QED BY <3>1, <3>3
    <2>5. TickRate * row.elapsed \in Int /\ MaxLag \in Nat
      BY <1>2, TimeAssumption
    <2>6. 2 * (TickRate * row.elapsed) <= Budget(a, t, n + 1, n)
      BY <1>1, <1>6, <2>3, <2>4, <2>5
    <2>7. (n + 1) - 1 = n /\ t # NoInstant /\ n + 1 > 0
      BY <1>2 DEF NoInstant
    <2> QED BY <1>6, <2>2, <2>6, <2>7 DEF Bounded
  <1>7. CASE row = Absent /\ \E u, k, t : session'[s] = StartedRow(u, k, t)
    <2>1. /\ session'[s].segment = now /\ session'[s].started = now
          /\ session'[s].elapsed = 0 /\ session'[s].opened = 1
      BY <1>7 DEF StartedRow, Absent
    <2>2. Budget(now, now, 1, 1 - 1) = 0 /\ TickRate * 0 = 0
      <3>1. TickRate \in Nat /\ MaxLag \in Nat
        BY TimeAssumption
      <3> QED BY <1>1, <3>1 DEF Budget
    <2> QED BY <1>1, <2>1, <2>2 DEF Bounded, NoInstant
  <1> QED BY <1>3, <1>4, <1>5, <1>6, <1>7 DEF Spends

\* Every step but the clock's changes rows in these ways only.
LEMMA StepSpends ==
  ASSUME IInv, Timely, NEW s \in Sids,
         \/ \E r \in Requests : Arrive(r) \/ Handle(r)
         \/ \E i \in Instances : Sweep(i)
  PROVE  Spends(s)
  <1>1. session[s] \in Row /\ TypeOK
    BY DEF IInv, TypeOK
  <1>2. CASE session'[s] = session[s]
    BY <1>2 DEF Spends
  <1>3. ASSUME NEW r \in Requests, Arrive(r) \/ Quiet(r) PROVE session'[s] = session[s]
    BY <1>3 DEF Arrive, ArriveStart, ArriveById, ArriveDeleteTask, Quiet, StartCheck,
                StartReread, ReadBack, DeleteCount, Abort, tables
  <1>4. ASSUME NEW r \in Requests, StartInsert(r) PROVE Spends(s)
    <2>1. CASE UNCHANGED session
      BY <1>2, <2>1
    <2>2. ASSUME NEW x \in Sids, session[x] = Absent,
                 session' = [session EXCEPT ![x] =
                              StartedRow(req[r].user, req[r].kind, req[r].task)]
          PROVE  Spends(s)
      <3>1. /\ session'[x] = StartedRow(req[r].user, req[r].kind, req[r].task)
            /\ \A y \in Sids \ {x} : session'[y] = session[y]
        BY <1>1, <2>2, OneMoves
      <3> QED BY <1>2, <2>2, <3>1 DEF Spends
    <2> QED BY <1>4, <2>1, <2>2 DEF StartInsert
  <1>5. ASSUME NEW r \in Requests, ExecPause(r) \/ ExecDiscard(r) \/ ExecComplete(r)
        PROVE  Spends(s)
    <2> DEFINE t == req[r].at
    <2>1. t \in Nat /\ t <= now /\ req[r].sid \in Sids
      BY <1>5 DEF Timely, IInv, TypeOK, Request, RequestOK, ExecPause, ExecDiscard, ExecFold,
                  ExecComplete, At
    <2>2. CASE session'[s] # session[s]
      <3>1. s = req[r].sid
        BY <1>1, <1>5, <2>2 DEF ExecPause, ExecDiscard, ExecFold, ExecComplete, TypeOK
      <3>2. CASE ExecPause(r)
        <4>1. session'[s] = PausedRow(session[s], t) /\ session[s].status = "running"
          BY <1>1, <2>1, <2>2, <3>1, <3>2 DEF ExecPause, ExecFold, PauseMatches, TypeOK
        <4> QED BY <2>1, <4>1 DEF Spends, Active
      <3>3. CASE ExecDiscard(r)
        <4>1. session'[s] = DiscardedRow(session[s], t) /\ session[s].status \in Active
          BY <1>1, <2>1, <2>2, <3>1, <3>3 DEF ExecDiscard, ExecFold, DiscardMatches, TypeOK
        <4> QED BY <2>1, <4>1 DEF Spends
      <3>4. CASE ExecComplete(r)
        <4>1. session'[s] = CompletedRow(session[s], t) /\ session[s].status \in Active
          BY <1>1, <2>1, <2>2, <3>1, <3>4 DEF ExecComplete, CompleteAllowed, TypeOK
        <4> QED BY <2>1, <4>1 DEF Spends
      <3> QED BY <1>5, <3>2, <3>3, <3>4
    <2> QED BY <1>2, <2>2
  <1>6. ASSUME NEW r \in Requests, ExecResume(r) \/ ExecHeartbeat(r) PROVE Spends(s)
    <2> DEFINE t == req[r].at
    <2>1. t \in Nat /\ t <= now /\ now <= t + MaxLag /\ req[r].sid \in Sids
      BY <1>6 DEF Timely, IInv, TypeOK, Request, RequestOK, ExecResume, ExecHeartbeat, At
    <2>2. CASE session'[s] # session[s]
      <3>1. s = req[r].sid
        BY <1>1, <1>6, <2>2 DEF ExecResume, ExecHeartbeat, TypeOK
      <3>2. CASE ExecResume(r)
        <4>1. session'[s] = ResumedRow(session[s], t) /\ session[s].status = "paused"
          BY <1>1, <2>1, <2>2, <3>1, <3>2 DEF ExecResume, ResumeMatches, TypeOK
        <4> QED BY <2>1, <4>1 DEF Spends
      <3>3. CASE ExecHeartbeat(r)
        <4>1. session'[s] = [session[s] EXCEPT !.heartbeat = t]
          BY <1>1, <2>1, <2>2, <3>1, <3>3 DEF ExecHeartbeat, TypeOK
        <4> QED BY <1>1, <4>1 DEF Row, Spends
      <3> QED BY <1>6, <3>2, <3>3
    <2> QED BY <1>2, <2>2
  <1>7. ASSUME NEW r \in Requests, DeleteTask(r) PROVE Spends(s)
    <2>1. session'[s] = session[s] \/ session'[s] = [session[s] EXCEPT !.task = Nil]
      BY <1>7 DEF DeleteTask
    <2> QED BY <1>1, <1>2, <2>1 DEF Row, Spends
  <1>8. ASSUME NEW i \in Instances, Sweep(i) PROVE Spends(s)
    <2>1. CASE UNCHANGED session
      BY <1>2, <2>1
    <2>2. CASE SweepPause(i)
      <3> DEFINE t == sweep[i].at
      <3>1. t \in Nat /\ t <= now
        BY <2>2 DEF SweepPause, Timely, IInv, TypeOK
      <3>2. CASE session'[s] # session[s]
        <4>1. session'[s] = PausedRow(session[s], t) /\ session[s].status = "running"
          BY <2>2, <3>2 DEF SweepPause, HeartbeatStale
        <4> QED BY <3>1, <4>1 DEF Spends, Active
      <3> QED BY <1>2, <3>2
    <2>3. CASE SweepDiscard(i)
      <3>1. CASE session'[s] # session[s]
        <4>1. session'[s] = ExpiredRow(session[s]) /\ session[s].status = "paused"
          BY <2>3, <3>1 DEF SweepDiscard, Untouched
        <4> QED BY <4>1 DEF Spends
      <3> QED BY <1>2, <3>1
    <2> QED BY <1>8, <2>1, <2>2, <2>3 DEF Sweep, SweepStart, SweepAbort, tables
  <1> QED BY <1>2, <1>3, <1>4, <1>5, <1>6, <1>7, <1>8 DEF Handle, Quiet

\* Instants stay timely: the clock waits for whoever holds one.
LEMMA TimelyStep ==
  ASSUME IInv, Timely, [Next]_vars
  PROVE  Timely'
  <1>1. ASSUME NEW r \in Requests, Arrive(r) \/ Handle(r) PROVE Timely'
    <2>1. UNCHANGED <<now, sweep>> /\ req \in [Requests -> Request]
      BY <1>1 DEF Arrive, ArriveStart, ArriveById, ArriveDeleteTask, Handle, StartCheck,
                  StartInsert, StartReread, ExecPause, ExecDiscard, ExecFold, ExecResume,
                  ExecHeartbeat, ExecComplete, ReadBack, DeleteCount, DeleteTask, Abort,
                  IInv, TypeOK
    <2>2. CASE Arrive(r)
      <3>1. CASE \E op \in ByIdOps, u \in Users, s \in Sids : ArriveById(r, op, u, s)
        <4>1. now \in Nat /\ MaxLag \in Nat
          BY TimeAssumption DEF IInv, TypeOK
        <4>2. PICK op \in ByIdOps, u \in Users, s \in Sids :
                req' = [req EXCEPT ![r] = [Idle EXCEPT !.pc = "exec", !.op = op,
                                                       !.user = u, !.sid = s, !.at = now]]
          BY <3>1 DEF ArriveById
        <4>3. req'[r].at = now /\ \A x \in Requests \ {r} : req'[x] = req[x]
          BY <2>1, <4>2 DEF Idle
        <4> QED BY <2>1, <4>1, <4>3 DEF Timely
      <3>2. CASE req'[r].pc # "exec" /\ \A x \in Requests \ {r} : req'[x] = req[x]
        BY <2>1, <3>2 DEF Timely
      <3> QED BY <2>1, <2>2, <3>1, <3>2 DEF Arrive, ArriveStart, ArriveDeleteTask, Idle
    <2>3. CASE Handle(r)
      <3>1. \/ Answer(r)
            \/ \E pc \in {"insert", "reread", "readback", "delete"} : Goto(r, pc)
        BY <2>3 DEF Handle, StartCheck, StartInsert, StartReread, ExecPause, ExecDiscard,
                    ExecFold, ExecResume, ExecHeartbeat, ExecComplete, ReadBack,
                    DeleteCount, DeleteTask, Abort
      <3>2. req'[r].pc # "exec" /\ \A x \in Requests \ {r} : req'[x] = req[x]
        BY <2>1, <3>1 DEF Answer, Goto, Idle, Request
      <3> QED BY <2>1, <3>2 DEF Timely
    <2> QED BY <1>1, <2>2, <2>3
  <1>2. ASSUME NEW i \in Instances, Sweep(i) PROVE Timely'
    <2>1. UNCHANGED <<now, req>>
      BY <1>2 DEF Sweep, SweepStart, SweepPause, SweepDiscard, SweepAbort
    <2>2. sweep \in [Instances -> [pc : {"idle", "pause", "discard"}, at : Nat]]
      BY DEF IInv, TypeOK
    <2>3. now \in Nat
      BY DEF IInv, TypeOK
    <2> QED BY <1>2, <2>1, <2>2, <2>3
            DEF Sweep, SweepStart, SweepPause, SweepDiscard, SweepAbort, SweepIdle, Timely
  <1>3. CASE Tick
    <2>1. /\ UNCHANGED <<req, sweep>> /\ now \in Nat /\ now' = now + 1 /\ MaxLag \in Nat
          /\ \A r \in Requests : req[r].at \in Nat
          /\ \A i \in Instances : sweep[i].at \in Nat
      BY <1>3, TimeAssumption DEF Tick, IInv, TypeOK, Request
    <2>2. \A r \in Requests : req[r].pc = "exec" => now < req[r].at + MaxLag
      BY <1>3 DEF Tick
    <2> QED BY <2>1, <2>2 DEF Timely
  <1>4. CASE UNCHANGED vars
    BY <1>4 DEF vars, Timely
  <1> QED BY <1>1, <1>2, <1>3, <1>4 DEF Next

\* Time spends no budget, and no step spends more than there is.
LEMMA BoundedStep ==
  ASSUME IInv, Timely, [Next]_vars, NEW s \in Sids, Bounded(s)
  PROVE  Bounded(s)'
  <1>1. CASE Tick \/ UNCHANGED vars
    <2> DEFINE row == session[s]
    <2>1. session' = session /\ row \in Row /\ now \in Nat /\ now' \in Nat /\ now <= now'
      BY <1>1 DEF Tick, vars, tables, IInv, TypeOK
    <2>2. row.started \in Nat /\ row.opened \in Nat /\ TickRate * row.elapsed \in Int
      BY <2>1, TimeAssumption DEF Row
    <2> DEFINE a == row.started
               n == row.opened
               now2 == now'
    <2>3. /\ Budget(a, now, n, n) \in Int
          /\ Budget(a, now2, n, n) = Budget(a, now, n, n) + 2 * (now2 - now)
      <3> HIDE DEF a, n, now2
      <3>1. now \in Int /\ now2 \in Int /\ now <= now2 /\ a \in Nat /\ n \in Nat
        BY <2>1, <2>2 DEF a, n, now2
      <3>2. PICK P, Q \in Int :
              /\ \A u \in Int : Budget(a, u, n, n) = 2 * (u - a) + P + 2 * Q
              /\ \A u \in Int : Budget(a, u, n, n - 1) = 2 * (u - a) + (P - TickRate) + 2 * Q
              /\ \A u \in Int : Budget(a, u, n + 1, n) = 2 * (u - a) + P + 2 * (Q + MaxLag)
        BY <3>1, BudgetIs
      <3>3. /\ Budget(a, now, n, n) = 2 * (now - a) + P + 2 * Q
            /\ Budget(a, now2, n, n) = 2 * (now2 - a) + P + 2 * Q
        BY <3>1, <3>2
      <3> QED BY <3>1, <3>3
    <2>4. row.segment \in Nat \cup {NoInstant}
      BY <2>1 DEF Row
    <2> QED BY <2>1, <2>2, <2>3, <2>4 DEF Bounded, NoInstant
  <1>2. CASE \/ \E r \in Requests : Arrive(r) \/ Handle(r)
             \/ \E i \in Instances : Sweep(i)
    <2>1. now' = now
      BY <1>2 DEF Arrive, ArriveStart, ArriveById, ArriveDeleteTask, Handle, StartCheck,
                StartInsert, StartReread, ExecPause, ExecDiscard, ExecFold, ExecResume,
                ExecHeartbeat, ExecComplete, ReadBack, DeleteCount, DeleteTask, Abort,
                Sweep, SweepStart, SweepPause, SweepDiscard, SweepAbort
    <2> QED BY <1>2, <2>1, StepSpends, SpendsKeeps
  <1> QED BY <1>1, <1>2 DEF Next

\* What the accumulator may hold bounds the running total as well.
LEMMA BoundedCredits ==
  ASSUME IInv, \A s \in Sids : Bounded(s)
  PROVE  OverCreditBounded
  <1> SUFFICES ASSUME NEW s \in Sids, session[s].opened > 0
               PROVE  2 * TickRate * Credited(s)
                        <= 2 * (now - session[s].started) + TickRate * session[s].opened
                             + 2 * MaxLag * (session[s].opened - 1)
    BY DEF OverCreditBounded
  <1> DEFINE n == session[s].opened
             a == session[s].started
             c == Credited(s)
  <1>1. session[s] \in Row /\ now \in Nat /\ TypeOK /\ TickRate \in Nat /\ MaxLag \in Nat
    BY TimeAssumption DEF IInv, TypeOK
  <1>2. n \in Nat /\ a \in Nat /\ c \in Int
    BY <1>1, FoldedInt DEF Row, Credited
  <1>3. 2 * (TickRate * c) <= Budget(a, now, n, n)
    BY <1>1, FoldSpends DEF Credited
  <1>4. 2 * TickRate * c = 2 * (TickRate * c) /\ 2 * MaxLag * (n - 1) = 2 * (MaxLag * (n - 1))
    BY <1>1, <1>2
  <1> QED BY <1>3, <1>4 DEF Budget

\* The over-credit of a session is bounded by half a second for each of its segments and
\* the lag of each resumption, for any lag, clock rate and number of segments.
THEOREM OverCreditIsBounded == Spec => []OverCreditBounded
  <1>1. Init => Timely /\ \A s \in Sids : Bounded(s)
    BY DEF Init, Timely, Idle, SweepIdle, Bounded, Absent
  <1>2. IInv /\ Timely /\ [Next]_vars => Timely'
    BY TimelyStep
  <1>3. IInv /\ Timely /\ (\A s \in Sids : Bounded(s)) /\ [Next]_vars
          => (\A s \in Sids : Bounded(s))'
    BY BoundedStep
  <1>4. IInv /\ (\A s \in Sids : Bounded(s)) => OverCreditBounded
    BY BoundedCredits
  <1> QED BY <1>1, <1>2, <1>3, <1>4, Invariance, PTL DEF Spec

-----------------------------------------------------------------------------
(* Sums of minutes: MapThenSumSet is a recursive function over the subsets of *)
(* a finite set, and what a sum needs is proved by induction on their size    *)

\* Induction over the natural numbers, for a set instead of a predicate.
LEMMA NatSetInduction ==
  ASSUME NEW G, 0 \in G, \A n \in Nat : n \in G => n + 1 \in G
  PROVE  Nat \subseteq G
<1> DEFINE R == OpToRel(<, Nat)
           Missing == Nat \ G
<1> SUFFICES ASSUME Missing # {} PROVE FALSE
  OBVIOUS
<1>1. \E n \in Missing : \A m \in Missing : ~ (<<m, n>> \in R)
  BY NatLessThanWellFounded, WFMin
<1>2. PICK n \in Missing : \A m \in Missing : ~ (m < n)
  BY <1>1 DEF OpToRel
<1>3. n # 0 /\ n - 1 \in Nat
  BY <1>2
<1>4. n - 1 \in G
  BY <1>2, <1>3
<1> QED BY <1>2, <1>3, <1>4

\* f is the recursive function that MapThenSumSet evaluates.
Equation(f, h, U) ==
  f = [s \in SUBSET U |-> IF s = {} THEN 0
                          ELSE h[CHOOSE x \in s : TRUE].minutes + f[s \ {CHOOSE x \in s : TRUE}]]
\* The minutes the history h has for the sessions U.
Minutes(h, U) == MapThenSumSet(LAMBDA s : h[s].minutes, U)

LEMMA MinutesDef ==
  ASSUME NEW h, NEW U
  PROVE  Minutes(h, U) = (CHOOSE f : Equation(f, h, U))[U]
  BY Zenon DEF Minutes, Equation, MapThenSumSet, MapThenFoldSet

\* The function exists: on the sets of at most n sessions, for every n.
LEMMA EquationHasSolution ==
  ASSUME NEW h, NEW U, IsFiniteSet(U)
  PROVE  \E f : Equation(f, h, U)
<1> DEFINE Pick(s) == CHOOSE x \in s : TRUE
           Upto(n) == {s \in SUBSET U : Cardinality(s) <= n}
           Next1(f, s) == IF s = {} THEN 0 ELSE h[Pick(s)].minutes + f[s \ {Pick(s)}]
           Solves(f, n) == \A s \in Upto(n) : f[s] = Next1(f, s)
           G == {n \in Nat : \E f : Solves(f, n)}
<1>1. \A s \in SUBSET U : IsFiniteSet(s) /\ Cardinality(s) \in Nat
  BY FS_Subset, FS_CardinalityType
<1>2. \A s \in SUBSET U : Cardinality(s) = 0 <=> s = {}
  BY <1>1, FS_EmptySet
<1>3. \A s \in SUBSET U : s # {} => Pick(s) \in s /\ Cardinality(s \ {Pick(s)}) = Cardinality(s) - 1
  BY <1>1, FS_RemoveElement
<1> HIDE DEF Pick
<1>4. 0 \in G
  <2> DEFINE f == [s \in Upto(0) |-> 0]
  <2>1. \A s \in Upto(0) : s = {}
    BY <1>1, <1>2
  <2>2. Solves(f, 0)
    BY <2>1
  <2> QED BY <2>2
<1>5. ASSUME NEW n \in Nat, n \in G PROVE n + 1 \in G
  <2>1. PICK f : Solves(f, n)
    BY <1>5
  <2> DEFINE g == [s \in SUBSET U |-> Next1(f, s)]
  <2>2. \A s \in Upto(n) : g[s] = f[s]
    BY <2>1
  <2>3. ASSUME NEW s \in Upto(n + 1) PROVE g[s] = Next1(g, s)
    <3>1. CASE s = {}
      BY <3>1
    <3>2. CASE s # {}
      <4>1. /\ Cardinality(s) \in Nat /\ Cardinality(s) <= n + 1
            /\ Cardinality(s \ {Pick(s)}) = Cardinality(s) - 1
        BY <1>1, <1>3, <3>2
      <4>2. s \ {Pick(s)} \in Upto(n)
        BY <4>1
      <4> QED BY <2>2, <4>2
    <3> QED BY <3>1, <3>2
  <2>4. \A s \in Upto(n + 1) : g[s] = Next1(g, s)
    BY <2>3
  <2> HIDE DEF g, Next1
  <2> QED BY <2>4
<1>6. Cardinality(U) \in G
  BY <1>1, <1>4, <1>5, NatSetInduction
<1>7. Upto(Cardinality(U)) = SUBSET U
  BY <1>1, FS_Subset
<1>8. PICK f : Solves(f, Cardinality(U))
  BY <1>6
<1> DEFINE g == [s \in SUBSET U |-> f[s]]
<1>9. g = [s \in SUBSET U |-> Next1(g, s)]
  <2>1. \A s \in SUBSET U : f[s] = Next1(f, s)
    BY <1>7, <1>8
  <2>2. \A s \in SUBSET U : Next1(f, s) = Next1(g, s)
    OBVIOUS
  <2> QED BY <2>1, <2>2
<1> HIDE DEF g
<1> QED BY <1>9 DEF Equation, Pick

\* Two solutions agree, also when one is for more sessions, or when the
\* histories give the same minutes.
LEMMA SolutionsAgree ==
  ASSUME NEW f, NEW g, NEW h, NEW k, NEW U, NEW V \in SUBSET U, IsFiniteSet(U),
         Equation(f, h, U), Equation(g, k, V),
         \A s \in V : h[s].minutes = k[s].minutes
  PROVE  \A W \in SUBSET V : f[W] = g[W]
<1> DEFINE Pick(s) == CHOOSE x \in s : TRUE
           G == {n \in Nat : \A W \in SUBSET V : Cardinality(W) = n => f[W] = g[W]}
<1>1. \A W \in SUBSET V : IsFiniteSet(W) /\ Cardinality(W) \in Nat
  BY FS_Subset, FS_CardinalityType
<1>2. \A W \in SUBSET V :
        /\ f[W] = IF W = {} THEN 0 ELSE h[Pick(W)].minutes + f[W \ {Pick(W)}]
        /\ g[W] = IF W = {} THEN 0 ELSE k[Pick(W)].minutes + g[W \ {Pick(W)}]
  BY Zenon DEF Equation
<1>3. \A W \in SUBSET V : W # {} => Pick(W) \in W /\ Cardinality(W \ {Pick(W)}) = Cardinality(W) - 1
  BY <1>1, FS_RemoveElement
<1> HIDE DEF Pick
<1>4. 0 \in G
  BY <1>1, <1>2, FS_EmptySet
<1>5. ASSUME NEW n \in Nat, n \in G PROVE n + 1 \in G
  <2> SUFFICES ASSUME NEW W \in SUBSET V, Cardinality(W) = n + 1 PROVE f[W] = g[W]
    OBVIOUS
  <2>1. W # {}
    BY FS_EmptySet
  <2>2. /\ Pick(W) \in V /\ W \ {Pick(W)} \in SUBSET V
        /\ Cardinality(W \ {Pick(W)}) = n
    BY <1>3, <2>1
  <2>3. f[W \ {Pick(W)}] = g[W \ {Pick(W)}]
    BY <1>5, <2>2
  <2> QED BY <1>2, <2>1, <2>2, <2>3
<1>6. Nat \subseteq G
  BY <1>4, <1>5, NatSetInduction
<1> QED BY <1>1, <1>6

\* Minutes is a solution.
LEMMA MinutesSolves ==
  ASSUME NEW h, NEW U, IsFiniteSet(U)
  PROVE  Equation([W \in SUBSET U |-> Minutes(h, W)], h, U)
<1>1. PICK f : Equation(f, h, U)
  BY EquationHasSolution
<1>2. ASSUME NEW W \in SUBSET U PROVE Minutes(h, W) = f[W]
  <2> DEFINE g == CHOOSE e : Equation(e, h, W)
  <2>1. IsFiniteSet(W)
    BY FS_Subset
  <2>2. Equation(g, h, W)
    BY <2>1, EquationHasSolution
  <2> HIDE DEF g
  <2>3. g[W] = f[W]
    BY <1>1, <2>2, SolutionsAgree
  <2> QED BY <2>3, MinutesDef DEF g
<1>3. [W \in SUBSET U |-> Minutes(h, W)] = f
  BY <1>1, <1>2, Zenon DEF Equation
<1> QED BY <1>1, <1>3

\* A sum over no sessions, and over some with the one that CHOOSE picks apart.
LEMMA MinutesStep ==
  ASSUME NEW h, NEW U, IsFiniteSet(U), NEW W \in SUBSET U
  PROVE  Minutes(h, W) = IF W = {} THEN 0
                         ELSE h[CHOOSE x \in W : TRUE].minutes + Minutes(h, W \ {CHOOSE x \in W : TRUE})
<1> DEFINE f == [V \in SUBSET U |-> Minutes(h, V)]
<1>1. f[W] = IF W = {} THEN 0
             ELSE h[CHOOSE x \in W : TRUE].minutes + f[W \ {CHOOSE x \in W : TRUE}]
  <2>1. Equation(f, h, U)
    BY MinutesSolves
  <2> HIDE DEF f
  <2> QED BY <2>1, Zenon DEF Equation
<1> QED BY <1>1

\* Histories that give the same minutes to the sessions U have the same sum.
LEMMA MinutesSame ==
  ASSUME NEW h, NEW k, NEW U, IsFiniteSet(U), \A s \in U : h[s].minutes = k[s].minutes
  PROVE  Minutes(h, U) = Minutes(k, U)
<1> DEFINE f == [V \in SUBSET U |-> Minutes(h, V)]
           g == [V \in SUBSET U |-> Minutes(k, V)]
<1>1. f[U] = g[U]
  <2>1. Equation(f, h, U) /\ Equation(g, k, U)
    BY MinutesSolves
  <2> HIDE DEF f, g
  <2> QED BY <2>1, SolutionsAgree
<1> QED BY <1>1

\* A sum of natural numbers is one, and any session may be taken apart.
LEMMA MinutesSplit ==
  ASSUME NEW h, NEW U, IsFiniteSet(U), \A s \in U : h[s].minutes \in Nat
  PROVE  \A W \in SUBSET U :
           /\ Minutes(h, W) \in Nat
           /\ \A x \in W : Minutes(h, W) = h[x].minutes + Minutes(h, W \ {x})
<1> DEFINE Splits(W) == /\ Minutes(h, W) \in Nat
                        /\ \A x \in W : Minutes(h, W) = h[x].minutes + Minutes(h, W \ {x})
           G == {n \in Nat : \A W \in SUBSET U : Cardinality(W) <= n => Splits(W)}
<1>1. \A W \in SUBSET U : IsFiniteSet(W) /\ Cardinality(W) \in Nat
  BY FS_Subset, FS_CardinalityType
<1>2. \A W \in SUBSET U : \A x \in W : Cardinality(W \ {x}) = Cardinality(W) - 1
  BY <1>1, FS_RemoveElement
<1>3. 0 \in G
  <2> SUFFICES ASSUME NEW W \in SUBSET U, Cardinality(W) <= 0 PROVE Splits(W)
    OBVIOUS
  <2>1. W = {}
    BY <1>1, FS_EmptySet
  <2>2. Minutes(h, W) = 0
    BY <2>1, MinutesStep, Zenon
  <2> QED BY <2>1, <2>2
<1>4. ASSUME NEW n \in Nat, n \in G PROVE n + 1 \in G
  <2> SUFFICES ASSUME NEW W \in SUBSET U, Cardinality(W) = n + 1 PROVE Splits(W)
    BY <1>1, <1>4
  <2> DEFINE c == CHOOSE x \in W : TRUE
  <2>1. W # {}
    BY FS_EmptySet
  <2>2. c \in W
    BY <2>1
  <2>3. Minutes(h, W) = h[c].minutes + Minutes(h, W \ {c})
    BY <2>1, MinutesStep, Zenon
  <2> HIDE DEF c
  <2>4. \A x \in W : Cardinality(W \ {x}) <= n /\ W \ {x} \in SUBSET U
    BY <1>2
  <2> HIDE DEF Splits
  <2>5. \A x \in W : Splits(W \ {x})
    BY <1>4, <2>4
  <2> USE DEF Splits
  <2>6. Minutes(h, W) \in Nat
    BY <2>2, <2>3, <2>5
  <2>7. ASSUME NEW x \in W, x # c PROVE Minutes(h, W) = h[x].minutes + Minutes(h, W \ {x})
    <3>1. Minutes(h, W \ {c}) = h[x].minutes + Minutes(h, (W \ {c}) \ {x})
      BY <2>2, <2>5, <2>7
    <3>2. Minutes(h, W \ {x}) = h[c].minutes + Minutes(h, (W \ {x}) \ {c})
      BY <2>2, <2>5, <2>7
    <3>3. (W \ {c}) \ {x} = (W \ {x}) \ {c}
      OBVIOUS
    <3>4. Minutes(h, (W \ {c}) \ {x}) \in Nat
      <4>1. (W \ {c}) \ {x} \in SUBSET (W \ {c}) /\ IsFiniteSet(W \ {c})
        BY <1>1, <2>2, <2>4
      <4>2. Cardinality((W \ {c}) \ {x}) <= Cardinality(W \ {c})
        BY <4>1, FS_Subset
      <4>3. (W \ {c}) \ {x} \in SUBSET U
        OBVIOUS
      <4>4. Cardinality((W \ {c}) \ {x}) <= n
        BY <1>1, <2>2, <2>4, <4>2, <4>3
      <4> QED BY <1>4, <4>3, <4>4
    <3>5. h[c].minutes \in Nat /\ h[x].minutes \in Nat
      BY <2>2
    <3>6. Minutes(h, W \ {x}) = h[c].minutes + Minutes(h, (W \ {c}) \ {x})
      BY <3>2, <3>3, Zenon
    <3> HIDE DEF Splits
    <3> QED BY <2>3, <3>1, <3>4, <3>5, <3>6
  <2> QED BY <2>3, <2>6, <2>7
<1>5. Nat \subseteq G
  BY <1>3, <1>4, NatSetInduction
<1> HIDE DEF Splits
<1>6. \A W \in SUBSET U : Splits(W)
  BY <1>1, <1>5
<1> QED BY <1>6 DEF Splits

\* Fewer sessions have fewer minutes, or as many.
LEMMA MinutesMonotone ==
  ASSUME NEW h, NEW U, IsFiniteSet(U), \A s \in U : h[s].minutes \in Nat
  PROVE  \A W \in SUBSET U : Minutes(h, W) <= Minutes(h, U)
<1> DEFINE G == {n \in Nat : \A V \in SUBSET U : Cardinality(V) = n =>
                                 \A W \in SUBSET V : Minutes(h, W) <= Minutes(h, V)}
<1>1. \A W \in SUBSET U : IsFiniteSet(W) /\ Cardinality(W) \in Nat
  BY FS_Subset, FS_CardinalityType
<1>2. \A W \in SUBSET U : Minutes(h, W) \in Nat
  BY MinutesSplit
<1>3. 0 \in G
  <2> SUFFICES ASSUME NEW V \in SUBSET U, Cardinality(V) = 0, NEW W \in SUBSET V
               PROVE  Minutes(h, W) <= Minutes(h, V)
    OBVIOUS
  <2>1. V = {} /\ W = V
    BY <1>1, FS_EmptySet
  <2> QED BY <1>2, <2>1
<1>4. ASSUME NEW n \in Nat, n \in G PROVE n + 1 \in G
  <2> SUFFICES ASSUME NEW V \in SUBSET U, Cardinality(V) = n + 1, NEW W \in SUBSET V
               PROVE  Minutes(h, W) <= Minutes(h, V)
    OBVIOUS
  <2>1. CASE W = V
    BY <1>2, <2>1
  <2>2. CASE W # V
    <3>1. PICK x \in V : x \notin W
      BY <2>2
    <3>2. Cardinality(V \ {x}) = n /\ V \ {x} \in SUBSET U /\ W \in SUBSET (V \ {x})
      <4>1. IsFiniteSet(V)
        BY <1>1
      <4>2. Cardinality(V \ {x}) = Cardinality(V) - 1
        BY <3>1, <4>1, FS_RemoveElement
      <4> QED BY <3>1, <4>2
    <3>3. Minutes(h, W) <= Minutes(h, V \ {x})
      BY <1>4, <3>2
    <3>4. Minutes(h, V) = h[x].minutes + Minutes(h, V \ {x})
      BY <3>1, MinutesSplit
    <3>5. Minutes(h, W) \in Nat /\ Minutes(h, V \ {x}) \in Nat /\ h[x].minutes \in Nat
      BY <1>2, <3>1, <3>2
    <3> QED BY <3>3, <3>4, <3>5
  <2> QED BY <2>1, <2>2
<1>5. Nat \subseteq G
  BY <1>3, <1>4, NatSetInduction
<1> QED BY <1>1, <1>5

-----------------------------------------------------------------------------
(* The study log *)

\* The sessions whose recorded minutes count for u on day d, with the history h and
\* the sessions n.
DaySids(h, n, u, d) ==
  {s \in Sids : h[s].rows > 0 /\ n[s].user = u /\ Day(h[s].start) = d}

\* DayMinutes is the sum over them, before and after a step.
LEMMA DayMinutesIs ==
  ASSUME NEW h, NEW u, NEW d
  PROVE  DayMinutes(h, u, d) = Minutes(h, DaySids(h, session, u, d))
  BY Zenon DEF DayMinutes, Minutes, DaySids

LEMMA DayMinutesIsAfter ==
  ASSUME NEW u, NEW d
  PROVE  DayMinutes(history, u, d)' = Minutes(history', DaySids(history', session', u, d))
  BY Zenon DEF DayMinutes, Minutes, DaySids, MapThenSumSet, MapThenFoldSet

\* A day whose sessions after a step were all there before, with the same minutes,
\* has no more minutes than before.
LEMMA NoMoreMinutes ==
  ASSUME IInv, IsFiniteSet(Sids), NEW u, NEW d,
         \A s \in DaySids(history', session', u, d) :
           s \in DaySids(history, session, u, d) /\ history'[s] = history[s]
  PROVE  /\ DayMinutes(history, u, d) \in Nat /\ DayMinutes(history, u, d)' \in Nat
         /\ DayMinutes(history, u, d)' <= DayMinutes(history, u, d)
  <1> DEFINE after == DaySids(history', session', u, d)
             before == DaySids(history, session, u, d)
  <1>1. after \in SUBSET before /\ before \in SUBSET Sids
    BY DEF DaySids
  <1>2. IsFiniteSet(before) /\ IsFiniteSet(after)
    BY <1>1, FS_Subset
  <1>3. \A s \in before : history[s].minutes \in Nat
    BY <1>1 DEF IInv, TypeOK
  <1>4. \A s \in after : history'[s].minutes = history[s].minutes
    OBVIOUS
  <1> HIDE DEF after, before
  <1>5. Minutes(history', after) = Minutes(history, after)
    BY <1>2, <1>4, MinutesSame
  <1>6. Minutes(history, after) <= Minutes(history, before)
    BY <1>1, <1>2, <1>3, MinutesMonotone
  <1>7. Minutes(history, after) \in Nat /\ Minutes(history, before) \in Nat
    BY <1>1, <1>2, <1>3, MinutesSplit
  <1> QED BY <1>5, <1>6, <1>7, DayMinutesIs, DayMinutesIsAfter DEF after, before

\* A session whose history the step leaves alone still counts for its user and day.
LEMMA StillCounts ==
  ASSUME IInv, [Next]_vars, NEW s \in Sids, NEW u, NEW d, history'[s] = history[s]
  PROVE  s \in DaySids(history', session', u, d) <=> s \in DaySids(history, session, u, d)
  <1>1. history[s].rows > 0 => session[s].status # "absent"
    BY DEF IInv, HistoryOK
  <1>2. session[s].status # "absent" => session'[s].user = session[s].user
    BY StepKeeps DEF Kept
  <1> QED BY <1>1, <1>2 DEF DaySids

\* Only a completion adds to the history; the deletion of a task takes from it.
LEMMA HistoryGrows ==
  ASSUME IInv, [Next]_vars, ~ \E r \in Requests : ExecComplete(r)
  PROVE  /\ \A s \in Sids : history'[s] = history[s] \/ history'[s] = NoRows
         /\ study' = study
  <1>1. ASSUME NEW r \in Requests, Arrive(r)
        PROVE  UNCHANGED <<history, study>>
    BY <1>1 DEF Arrive, ArriveStart, ArriveById, ArriveDeleteTask, tables
  <1>2. ASSUME NEW r \in Requests, Handle(r), ~ DeleteTask(r), ~ ExecComplete(r)
        PROVE  UNCHANGED <<history, study>>
    <2>1. CASE Quiet(r)
      BY <2>1 DEF Quiet, StartCheck, StartReread, ReadBack, DeleteCount, Abort, tables
    <2>2. CASE StartInsert(r)
      BY <2>2 DEF StartInsert
    <2>3. CASE ExecPause(r) \/ ExecDiscard(r)
      BY <2>3 DEF ExecPause, ExecDiscard, ExecFold
    <2>4. CASE ExecResume(r) \/ ExecHeartbeat(r)
      BY <2>4 DEF ExecResume, ExecHeartbeat
    <2> QED BY <1>2, <2>1, <2>2, <2>3, <2>4 DEF Handle, Quiet
  <1>3. ASSUME NEW r \in Requests, DeleteTask(r)
        PROVE  /\ \A s \in Sids : history'[s] = history[s] \/ history'[s] = NoRows
               /\ study' = study
    BY <1>3 DEF DeleteTask
  <1>4. ASSUME NEW i \in Instances, Sweep(i)
        PROVE  UNCHANGED <<history, study>>
    BY <1>4 DEF Sweep, SweepStart, SweepPause, SweepDiscard, SweepAbort, tables
  <1>5. Tick \/ UNCHANGED vars => UNCHANGED <<history, study>>
    BY DEF Tick, vars, tables
  <1>6. CASE \E r \in Requests : DeleteTask(r)
    BY <1>3, <1>6
  <1>7. CASE ~ \E r \in Requests : DeleteTask(r)
    <2>1. UNCHANGED <<history, study>>
      <3>1. CASE \E r \in Requests : Arrive(r)
        BY <1>1, <3>1
      <3>2. CASE \E r \in Requests : Handle(r)
        BY <1>2, <1>7, <3>2
      <3>3. CASE \E i \in Instances : Sweep(i)
        BY <1>4, <3>3
      <3> QED BY <1>5, <3>1, <3>2, <3>3 DEF Next
    <2> QED BY <2>1
  <1> QED BY <1>6, <1>7

\* A completion adds to the minutes of one user on one day, looks at that day, and
\* touches no other.
LEMMA CompleteLogs ==
  ASSUME IInv, [Next]_vars, IsFiniteSet(Sids), StudyLogged, NEW r \in Requests,
         ExecComplete(r), NEW u \in StudyUsers, NEW d,
         d \in {Day(t) : t \in Instant},
         DayMinutes(history, u, d)' >= DailyMinimum
  PROVE  <<u, d>> \in study'
  <1> PICK s \in Sids : s = req[r].sid
    BY DEF IInv, RequestOK, ExecComplete, At
  <1> DEFINE row == CompletedRow(session[s], req[r].at)
             mine == u = session[s].user /\ d = Day(session[s].started)
  <1>1. study \subseteq study'
    BY DEF ExecComplete, StudyCheck
  <1>2. DailyMinimum \in Nat
    BY TimeAssumption
  <1>3. CASE \A x \in DaySids(history', session', u, d) : history'[x] = history[x]
    <2>1. \A x \in DaySids(history', session', u, d) : x \in DaySids(history, session, u, d)
      BY <1>3, StillCounts DEF DaySids
    <2>2. DayMinutes(history, u, d) >= DailyMinimum
      BY <1>2, <1>3, <2>1, NoMoreMinutes
    <2> QED BY <1>1, <2>2 DEF StudyLogged
  <1>4. CASE \E x \in DaySids(history', session', u, d) : history'[x] # history[x]
    <2>1. /\ history' = Recorded(s, row.elapsed)
          /\ study' = StudyCheck(s, history')
          /\ session' = [session EXCEPT ![s] = row]
      BY <1>4 DEF ExecComplete
    <2>2. \A x \in Sids \ {s} : history'[x] = history[x]
      BY <2>1 DEF Recorded, IInv, TypeOK
    <2>3. s \in DaySids(history', session', u, d)
      BY <1>4, <2>2 DEF DaySids
    <2>4. session'[s].user = session[s].user
      BY <2>1, OneMoves DEF IInv, CompletedRow, TypeOK, Row
    <2>5. history'[s].start = session[s].started
      BY <2>1 DEF Recorded, IInv, TypeOK
    <2>6. mine
      BY <2>3, <2>4, <2>5 DEF DaySids
    <2>7. \A x \in Sids : session'[x].user = session[x].user
      BY <2>1, <2>4, OneMoves DEF IInv
    <2>8. DaySids(history', session', u, d) = DaySids(history', session, u, d)
      BY <2>7 DEF DaySids
    <2>9. DayMinutes(history', u, d) >= DailyMinimum
      BY <2>8, DayMinutesIs, DayMinutesIsAfter
    <2> QED BY <2>1, <2>6, <2>9 DEF StudyCheck
  <1> QED BY <1>3, <1>4

\* A day that has its minutes has its log, after any step.
LEMMA StudyStep ==
  ASSUME IInv, StudyLogged, IsFiniteSet(Sids), [Next]_vars
  PROVE  StudyLogged'
  <1> SUFFICES ASSUME NEW u \in StudyUsers, NEW d, d \in {Day(t) : t \in Instant},
                      DayMinutes(history, u, d)' >= DailyMinimum
               PROVE  <<u, d>> \in study'
    BY Zenon DEF StudyLogged
  <1>1. CASE \E r \in Requests : ExecComplete(r)
    BY <1>1, CompleteLogs
  <1>2. CASE ~ \E r \in Requests : ExecComplete(r)
    <2>1. \A s \in DaySids(history', session', u, d) :
            history'[s] = history[s] /\ s \in DaySids(history, session, u, d)
      <3> TAKE s \in DaySids(history', session', u, d)
      <3>1. s \in Sids /\ history'[s] # NoRows
        BY DEF DaySids, NoRows
      <3>2. history'[s] = history[s]
        BY <1>2, <3>1, HistoryGrows
      <3> QED BY <3>1, <3>2, StillCounts
    <2>2. DailyMinimum \in Nat
      BY TimeAssumption
    <2>3. DayMinutes(history, u, d) >= DailyMinimum
      BY <2>1, <2>2, NoMoreMinutes
    <2>4. study' \subseteq study /\ study \subseteq study'
      BY <1>2, HistoryGrows
    <2> QED BY <2>3, <2>4 DEF StudyLogged
  <1> QED BY <1>1, <1>2

\* A day whose recorded minutes reach the minimum has its 'Focused study' log: every
\* completion looks at the day it adds to, and nothing else adds to a day. The table
\* is finite; with a minimum of zero a day would need its log before any session.
THEOREM StudyIsLogged ==
  IsFiniteSet(Sids) /\ DailyMinimum > 0 => (Spec => []StudyLogged)
  <1> SUFFICES ASSUME IsFiniteSet(Sids), DailyMinimum > 0 PROVE Spec => []StudyLogged
    OBVIOUS
  <1>1. Init => StudyLogged
    <2> SUFFICES ASSUME Init, NEW u, NEW d, DayMinutes(history, u, d) >= DailyMinimum
                 PROVE  FALSE
      BY DEF StudyLogged
    <2>1. DaySids(history, session, u, d) = {}
      BY DEF Init, DaySids, NoRows
    <2>2. Minutes(history, {}) = 0
      BY MinutesStep, FS_EmptySet, Zenon
    <2>3. DayMinutes(history, u, d) = 0
      BY <2>1, <2>2, DayMinutesIs
    <2> QED BY <2>3, TimeAssumption
  <1>2. IInv /\ StudyLogged /\ [Next]_vars => StudyLogged'
    BY StudyStep
  <1> QED BY <1>1, <1>2, Invariance, PTL DEF Spec

\* A log appears only with the minutes of its day: a completion inserts it after it
\* has added them up, and no other step inserts one.
THEOREM StudyIsEarned == Spec => StudyEarned
  <1>1. ASSUME IInv, [Next]_vars
        PROVE  [\A ud \in study' \ study :
                  DayMinutes(history', ud[1], ud[2]) >= DailyMinimum]_vars
    <2> SUFFICES ASSUME NEW ud \in study' \ study
                 PROVE  DayMinutes(history', ud[1], ud[2]) >= DailyMinimum
      OBVIOUS
    <2>1. PICK r \in Requests : ExecComplete(r)
      BY <1>1, HistoryGrows
    <2> DEFINE s == req[r].sid
    <2>2. study' = StudyCheck(s, history')
      BY <2>1 DEF ExecComplete
    <2> QED BY <2>2 DEF StudyCheck
  <1> QED BY <1>1, Invariance, PTL DEF Spec, StudyEarned
=============================================================================
