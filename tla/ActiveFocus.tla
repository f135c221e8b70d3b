----------------------------- MODULE ActiveFocus -----------------------------
(***************************************************************************)
(* The active focus sessions of the backend: the rows of the table         *)
(* active_focus_sessions, the requests that read and write them one SQL    *)
(* statement at a time, the scheduler of every backend instance that       *)
(* expires stale sessions, and the two tables a completion writes to       *)
(* (focus_sessions and the log of the habit 'Focused study').              *)
(*                                                                         *)
(* A request is a Go handler: it takes an instant with time.Now() before   *)
(* it sends the statement that uses the instant, so other statements may   *)
(* run in between. A statement, and a transaction that holds its row lock  *)
(* (Complete), is one step.                                                *)
(***************************************************************************)
EXTENDS Integers, FiniteSets, FiniteSetsExt

CONSTANTS
  Users,         \* user ids
  Tasks,         \* ids of the tasks that exist at first
  TaskOwner,     \* the user of each task
  Starts,        \* <<kind, task>> of the start requests clients send
  Sids,          \* ids the table may give to its rows
  Requests,      \* handlers that may be in flight at once
  Instances,     \* backend processes, each with a scheduler
  StudyUsers,    \* users who have a habit named 'Focused study'
  Nil,           \* SQL NULL for an id
  MaxTime,       \* bound: the last tick of the clock
  MaxLag,        \* ticks at most from time.Now() to the statement that uses it
  MaxSegments,   \* bound: a session with so many segments is not resumed again
  RunningGrace,  \* ticks without heartbeat before a running session is paused
  PausedGrace,   \* ticks untouched before a paused session is discarded
  DayLength,     \* ticks of a day
  TickRate,      \* ticks of a second
  MinuteLength,  \* seconds of a minute
  DailyMinimum   \* FOCUS_DAILY_MINIMUM_MINUTES

ASSUME NilAssumption == Nil \notin Users \cup Tasks \cup Sids
\* StartActive refuses a work session without a task.
ASSUME StartsAssumption ==
  Starts \subseteq {p \in {"work", "break"} \X (Tasks \cup {Nil}) : p[1] = "work" => p[2] # Nil}
ASSUME OwnerAssumption == TaskOwner \in [Tasks -> Users]
ASSUME StudyAssumption == StudyUsers \subseteq Users
ASSUME TimeAssumption ==
  /\ {MaxTime, MaxLag, MaxSegments, RunningGrace, PausedGrace, DailyMinimum} \subseteq Nat
  /\ {DayLength, TickRate, MinuteLength} \subseteq Nat \ {0}

VARIABLES
  now,      \* the clock, shared by the backend and the database
  tasks,    \* ids of the rows of table tasks
  session,  \* table active_focus_sessions
  history,  \* table focus_sessions: what each session left there
  study,    \* <<user, day>> with a 'Focused study' log of value 1
  req,      \* the request each handler is serving
  sweep     \* where each instance's scheduler tick is

vars == <<now, tasks, session, history, study, req, sweep>>
tables == <<tasks, session, history, study>>

NoInstant == -1   \* SQL NULL for an instant
Instant == 0..MaxTime
Kinds == {"work", "break"}
Active == {"running", "paused"}
Terminal == {"completed", "discarded"}
ByIdOps == {"pause", "resume", "heartbeat", "complete", "discard"}

-----------------------------------------------------------------------------
(* Tables *)

Absent ==
  [status |-> "absent", user |-> Nil, kind |-> "work", task |-> Nil,
   elapsed |-> 0, segment |-> NoInstant, heartbeat |-> 0, started |-> 0,
   updated |-> 0, opened |-> 0]

NoRows == [rows |-> 0, task |-> Nil, start |-> 0, minutes |-> 0]

\* A statement by id names the row and its user: WHERE user_id = $1 AND id = $2.
Owned(s, u) == session[s].status # "absent" /\ session[s].user = u

ActiveOf(u) == {s \in Sids : session[s].user = u /\ session[s].status \in Active}

\* The partial unique index: what an INSERT of an active row for u collides with.
IndexConflictRunningOnly(u) ==
  \E s \in Sids : session[s].user = u /\ session[s].status = "running"
IndexConflict(u) == ActiveOf(u) # {}

\* EXTRACT(EPOCH FROM ...)::int: a span of ticks in seconds, rounded to the nearest,
\* a half away from zero. int(Duration.Seconds()) of Go drops the fraction.
Rounded(span) ==
  IF span >= 0 THEN (2 * span + TickRate) \div (2 * TickRate)
               ELSE - ((TickRate - 2 * span) \div (2 * TickRate))
Truncated(span) == IF span >= 0 THEN span \div TickRate ELSE - ((- span) \div TickRate)

\* The accumulator with the open segment folded in, at instant t: by a statement, and
\* by activeElapsedSeconds.
Folded(row, t) ==
  row.elapsed + (IF row.segment = NoInstant THEN 0 ELSE Rounded(t - row.segment))
ActiveElapsed(row, t) ==
  row.elapsed + (IF row.segment = NoInstant THEN 0 ELSE Truncated(t - row.segment))

\* CHECK (elapsed_seconds >= 0): a statement that breaks it fails as a whole.
NoElapsedCheck(row) == TRUE
ElapsedCheck(row) == row.elapsed >= 0

StartedRow(u, k, t) ==
  [Absent EXCEPT !.status = "running", !.user = u, !.kind = k, !.task = t,
                 !.segment = now, !.heartbeat = now, !.started = now, !.updated = now,
                 !.opened = 1]

PausedRowKeepSegment(row, t) ==
  [row EXCEPT !.elapsed = Folded(row, t), !.status = "paused", !.updated = now]
PausedRow(row, t) ==
  [row EXCEPT !.elapsed = Folded(row, t), !.segment = NoInstant,
              !.status = "paused", !.updated = now]

ResumedRow(row, t) ==
  [row EXCEPT !.segment = t, !.heartbeat = t, !.status = "running", !.updated = now,
              !.opened = @ + 1]

DiscardedRow(row, t) ==
  [row EXCEPT !.elapsed = Folded(row, t), !.segment = NoInstant,
              !.status = "discarded", !.updated = now]

CompletedRow(row, t) ==
  [row EXCEPT !.elapsed = ActiveElapsed(row, t), !.segment = NoInstant,
              !.status = "completed", !.updated = now]

\* Scheduler's second statement: the segment is cleared, not folded.
ExpiredRow(row) ==
  [row EXCEPT !.status = "discarded", !.segment = NoInstant, !.updated = now]

Day(t) == t \div DayLength

\* Seconds rounded up to whole minutes, at least one.
DurationMinutes(seconds) ==
  LET ceiling == (seconds + MinuteLength - 1) \div MinuteLength
  IN  IF ceiling > 1 THEN ceiling ELSE 1

\* Minutes of focus_sessions for u on day d.
DayMinutes(h, u, d) ==
  MapThenSumSet(LAMBDA s : h[s].minutes,
                {s \in Sids : /\ h[s].rows > 0
                              /\ session[s].user = u
                              /\ Day(h[s].start) = d})

\* The row a completion adds for session s, and the rows it has so far.
Recorded(s, seconds) ==
  [history EXCEPT ![s] = [rows    |-> @.rows + 1,
                          task    |-> session[s].task,
                          start   |-> session[s].started,
                          minutes |-> @.minutes + DurationMinutes(seconds)]]

\* autoCheckFocusedStudy: with history h, on the day session s started.
StudyCheckOnCompletionDay(s, h) ==
  LET u == session[s].user
      d == Day(now)
  IN  IF u \in StudyUsers /\ DayMinutes(h, u, d) >= DailyMinimum
        THEN study \cup {<<u, d>>} ELSE study
StudyCheckAnyMinutes(s, h) ==
  LET u == session[s].user
      d == Day(session[s].started)
  IN  IF u \in StudyUsers THEN study \cup {<<u, d>>} ELSE study
StudyCheck(s, h) ==
  LET u == session[s].user
      d == Day(session[s].started)
  IN  IF u \in StudyUsers /\ DayMinutes(h, u, d) >= DailyMinimum
        THEN study \cup {<<u, d>>} ELSE study

-----------------------------------------------------------------------------
(* Requests *)

Idle ==
  [pc |-> "idle", op |-> "none", user |-> Nil, sid |-> Nil, task |-> Nil,
   kind |-> "work", at |-> 0]

At(r, op, pc) == req[r].op = op /\ req[r].pc = pc

Goto(r, pc) == req' = [req EXCEPT ![r].pc = pc]

\* The handler writes its reply and is free for another request.
Answer(r) == req' = [req EXCEPT ![r] = Idle]

ArriveStart(r, u, k, t) ==
  /\ req[r] = Idle
  /\ req' = [req EXCEPT ![r] = [Idle EXCEPT !.pc = "check", !.op = "start",
                                            !.user = u, !.kind = k, !.task = t]]
  /\ UNCHANGED <<now, tables, sweep>>

\* Pause, Resume, Heartbeat, Complete, Discard: the instant is taken here.
ArriveById(r, op, u, s) ==
  /\ req[r] = Idle
  /\ Owned(s, u)
  /\ op = "resume" => session[s].opened < MaxSegments
  /\ req' = [req EXCEPT ![r] = [Idle EXCEPT !.pc = "exec", !.op = op,
                                            !.user = u, !.sid = s, !.at = now]]
  /\ UNCHANGED <<now, tables, sweep>>

ArriveDeleteTask(r, u, t) ==
  /\ req[r] = Idle
  /\ req' = [req EXCEPT ![r] = [Idle EXCEPT !.pc = "count", !.op = "delete",
                                            !.user = u, !.task = t]]
  /\ UNCHANGED <<now, tables, sweep>>

\* Start, first statement: the handler's look for an active session.
StartCheck(r) ==
  /\ At(r, "start", "check")
  /\ IF ActiveOf(req[r].user) = {} THEN Goto(r, "insert") ELSE Answer(r)
  /\ UNCHANGED <<now, tables, sweep>>

\* Start, second statement: the INSERT, which the unique index may refuse and
\* the foreign key refuses when the task is gone.
StartInsert(r) ==
  /\ At(r, "start", "insert")
  /\ \/ /\ IndexConflict(req[r].user)
        /\ Goto(r, "reread")
        /\ UNCHANGED session
     \/ /\ ~ IndexConflict(req[r].user)
        /\ req[r].task \notin tasks \cup {Nil}
        /\ Answer(r)
        /\ UNCHANGED session
     \/ /\ ~ IndexConflict(req[r].user)
        /\ req[r].task \in tasks \cup {Nil}
        /\ \E s \in Sids :
             /\ session[s] = Absent
             /\ session' = [session EXCEPT ![s] = StartedRow(req[r].user, req[r].kind, req[r].task)]
             /\ Answer(r)
  /\ UNCHANGED <<now, tasks, history, study, sweep>>

\* Start refused by the index: the session for the 409 is read again, and may be
\* gone by now.
StartReread(r) ==
  /\ At(r, "start", "reread")
  /\ Answer(r)
  /\ UNCHANGED <<now, tables, sweep>>

\* Pause and Discard: a row the WHERE clause does not match is left alone and
\* the request goes on to read the session back.
PauseMatches(s) == session[s].status = "running"
DiscardMatchesAny(s) == session[s].status # "absent"
DiscardMatchesRunning(s) == session[s].status = "running"
DiscardMatches(s) == session[s].status \in Active

ExecFold(r, op, matches, row) ==
  /\ At(r, op, "exec")
  /\ LET s == req[r].sid
     IN  \/ /\ matches /\ ElapsedCheck(row)
            /\ session' = [session EXCEPT ![s] = row]
            /\ Goto(r, "readback")
         \/ /\ matches /\ ~ ElapsedCheck(row)
            /\ Answer(r)
            /\ UNCHANGED session
         \/ /\ ~ matches
            /\ Goto(r, "readback")
            /\ UNCHANGED session
  /\ UNCHANGED <<now, tasks, history, study, sweep>>

ExecPause(r) ==
  LET s == req[r].sid
  IN  ExecFold(r, "pause", PauseMatches(s), PausedRow(session[s], req[r].at))

ExecDiscard(r) ==
  LET s == req[r].sid
  IN  ExecFold(r, "discard", DiscardMatches(s), DiscardedRow(session[s], req[r].at))

\* Resume: no row matched is ErrInvalidState.
ResumeMatchesInactive(s) == session[s].status # "running"
ResumeMatches(s) == session[s].status = "paused"

ExecResume(r) ==
  /\ At(r, "resume", "exec")
  /\ LET s == req[r].sid
     IN  \/ /\ ResumeMatches(s)
            /\ session' = [session EXCEPT ![s] = ResumedRow(session[s], req[r].at)]
         \/ /\ ~ ResumeMatches(s)
            /\ UNCHANGED session
  /\ Answer(r)
  /\ UNCHANGED <<now, tasks, history, study, sweep>>

ExecHeartbeat(r) ==
  /\ At(r, "heartbeat", "exec")
  /\ LET s == req[r].sid
     IN  \/ /\ session[s].status = "running"
            /\ session' = [session EXCEPT ![s].heartbeat = req[r].at]
         \/ /\ session[s].status # "running"
            /\ UNCHANGED session
  /\ Answer(r)
  /\ UNCHANGED <<now, tasks, history, study, sweep>>

\* Complete: one transaction under the row lock (FOR UPDATE OF afs).
CompleteAllowedAlways(s) == session[s].status # "absent"
CompleteAllowed(s) ==
  /\ session[s].status \in Active
  /\ session[s].kind = "work" => session[s].task # Nil

ExecComplete(r) ==
  /\ At(r, "complete", "exec")
  /\ LET s   == req[r].sid
         row == CompletedRow(session[s], req[r].at)
     IN  \/ /\ ~ (CompleteAllowed(s) /\ ElapsedCheck(row))
            /\ UNCHANGED <<session, history, study>>
         \/ /\ CompleteAllowed(s) /\ ElapsedCheck(row)
            /\ session' = [session EXCEPT ![s] = row]
            /\ IF session[s].kind = "work"
                 THEN /\ history' = Recorded(s, row.elapsed)
                      /\ study' = StudyCheck(s, history')
                 ELSE UNCHANGED <<history, study>>
  /\ Answer(r)
  /\ UNCHANGED <<now, tasks, sweep>>

\* GetByID after the statement of Pause and Discard; the reply carries the row as
\* it is by then.
ReadBack(r) ==
  /\ req[r].pc = "readback"
  /\ Answer(r)
  /\ UNCHANGED <<now, tables, sweep>>

\* TaskModel.Delete: a count of the active sessions of the task, then the DELETE.
DeleteCountFree(r) ==
  ~ \E s \in ActiveOf(req[r].user) : session[s].task = req[r].task

DeleteCount(r) ==
  /\ At(r, "delete", "count")
  /\ \/ /\ DeleteCountFree(r)
        /\ Goto(r, "delete")
     \/ /\ ~ DeleteCountFree(r)
        /\ Answer(r)
  /\ UNCHANGED <<now, tables, sweep>>

\* ON DELETE SET NULL for active_focus_sessions, ON DELETE CASCADE for focus_sessions.
DeleteTask(r) ==
  /\ At(r, "delete", "delete")
  /\ LET t == req[r].task
     IN  \/ /\ t \in tasks /\ TaskOwner[t] = req[r].user
            /\ tasks' = tasks \ {t}
            /\ session' = [s \in Sids |-> IF session[s].task = t
                                            THEN [session[s] EXCEPT !.task = Nil]
                                            ELSE session[s]]
            /\ history' = [s \in Sids |-> IF history[s].task = t THEN NoRows ELSE history[s]]
            /\ Answer(r)
         \/ /\ ~ (t \in tasks /\ TaskOwner[t] = req[r].user)
            /\ Answer(r)
            /\ UNCHANGED <<tasks, session, history>>
  /\ UNCHANGED <<now, study, sweep>>

\* A database error, a cancelled request context or a crash of the instance ends
\* the request between two statements.
Abort(r) ==
  /\ req[r] # Idle
  /\ Answer(r)
  /\ UNCHANGED <<now, tables, sweep>>

-----------------------------------------------------------------------------
(* The scheduler: AutoExpireStale, one tick of one instance *)

SweepIdle == [pc |-> "idle", at |-> 0]

SweepStart(i) ==
  /\ sweep[i].pc = "idle"
  /\ sweep' = [sweep EXCEPT ![i] = [pc |-> "pause", at |-> now]]
  /\ UNCHANGED <<now, tables, req>>

HeartbeatStaleLate(s, t) ==
  session[s].status = "running" /\ session[s].heartbeat < t - 2 * RunningGrace - 1
HeartbeatStale(s, t) ==
  session[s].status = "running" /\ session[s].heartbeat < t - RunningGrace
UntouchedRunning(s, t) ==
  session[s].status = "running" /\ session[s].updated < t - PausedGrace
Untouched(s, t) ==
  session[s].status = "paused" /\ session[s].updated < t - PausedGrace

\* First statement. It pauses every stale session or, when one of them fails the
\* check, none: then the tick ends.
SweepPause(i) ==
  /\ sweep[i].pc = "pause"
  /\ LET t     == sweep[i].at
         stale == {s \in Sids : HeartbeatStale(s, t)}
     IN  \/ /\ \A s \in stale : ElapsedCheck(PausedRow(session[s], t))
            /\ session' = [s \in Sids |-> IF s \in stale THEN PausedRow(session[s], t)
                                                         ELSE session[s]]
            /\ sweep' = [sweep EXCEPT ![i].pc = "discard"]
         \/ /\ \E s \in stale : ~ ElapsedCheck(PausedRow(session[s], t))
            /\ sweep' = [sweep EXCEPT ![i] = SweepIdle]
            /\ UNCHANGED session
  /\ UNCHANGED <<now, tasks, history, study, req>>

SweepDiscard(i) ==
  /\ sweep[i].pc = "discard"
  /\ session' = [s \in Sids |-> IF Untouched(s, sweep[i].at) THEN ExpiredRow(session[s])
                                                             ELSE session[s]]
  /\ sweep' = [sweep EXCEPT ![i] = SweepIdle]
  /\ UNCHANGED <<now, tasks, history, study, req>>

\* A database error, the 30 s timeout or a crash ends the tick between statements.
SweepAbort(i) ==
  /\ sweep[i].pc # "idle"
  /\ sweep' = [sweep EXCEPT ![i] = SweepIdle]
  /\ UNCHANGED <<now, tables, req>>

-----------------------------------------------------------------------------
(* The clock. No instant in use gets older than MaxLag. *)

Tick ==
  /\ now < MaxTime
  /\ \A r \in Requests : req[r].pc = "exec" => now < req[r].at + MaxLag
  /\ \A i \in Instances : sweep[i].pc # "idle" => now < sweep[i].at + MaxLag
  /\ now' = now + 1
  /\ UNCHANGED <<tables, req, sweep>>

-----------------------------------------------------------------------------
Init ==
  /\ now = 0
  /\ tasks = Tasks
  /\ session = [s \in Sids |-> Absent]
  /\ history = [s \in Sids |-> NoRows]
  /\ study = {}
  /\ req = [r \in Requests |-> Idle]
  /\ sweep = [i \in Instances |-> SweepIdle]

Arrive(r) ==
  \/ \E u \in Users, p \in Starts : ArriveStart(r, u, p[1], p[2])
  \/ \E op \in ByIdOps, u \in Users, s \in Sids : ArriveById(r, op, u, s)
  \/ \E u \in Users, t \in Tasks : ArriveDeleteTask(r, u, t)

Handle(r) ==
  \/ StartCheck(r) \/ StartInsert(r) \/ StartReread(r)
  \/ ExecPause(r) \/ ExecResume(r) \/ ExecHeartbeat(r)
  \/ ExecComplete(r) \/ ExecDiscard(r) \/ ReadBack(r)
  \/ DeleteCount(r) \/ DeleteTask(r)
  \/ Abort(r)

Sweep(i) == SweepStart(i) \/ SweepPause(i) \/ SweepDiscard(i) \/ SweepAbort(i)

Next ==
  \/ \E r \in Requests : Arrive(r) \/ Handle(r)
  \/ \E i \in Instances : Sweep(i)
  \/ Tick

Spec == Init /\ [][Next]_vars

\* time.Ticker starts a tick of every instance again and again; statements may fail,
\* but not for ever.
SweepFairness ==
  \A i \in Instances : /\ WF_vars(SweepStart(i))
                       /\ SF_vars(SweepPause(i))
                       /\ SF_vars(SweepDiscard(i))

FairSpec == Spec /\ SweepFairness

-----------------------------------------------------------------------------
(* Properties *)

Row ==
  [status : {"absent"} \cup Active \cup Terminal, user : Users \cup {Nil},
   kind : Kinds, task : Tasks \cup {Nil}, elapsed : Nat, segment : Nat \cup {NoInstant},
   heartbeat : Nat, started : Nat, updated : Nat, opened : Nat]

Request ==
  [pc : {"idle", "check", "insert", "reread", "exec", "readback", "count", "delete"},
   op : {"none", "start", "delete"} \cup ByIdOps, user : Users \cup {Nil},
   sid : Sids \cup {Nil}, task : Tasks \cup {Nil}, kind : Kinds, at : Nat]

\* Every variable has its type; elapsed_seconds never goes below zero, because the
\* CHECK of migration 025 stops the statements that would fold a negative segment.
TypeOK ==
  /\ now \in Nat
  /\ tasks \subseteq Tasks
  /\ session \in [Sids -> Row]
  /\ history \in [Sids -> [rows : Nat, task : Tasks \cup {Nil}, start : Nat, minutes : Nat]]
  /\ study \subseteq StudyUsers \X Nat
  /\ req \in [Requests -> Request]
  /\ sweep \in [Instances -> [pc : {"idle", "pause", "discard"}, at : Nat]]

\* One running or paused session per user, whatever starts race each other, resume
\* and expire: the handler's look before the INSERT is not what holds it.
SingleActive ==
  \A s1, s2 \in Sids :
    /\ session[s1].status \in Active /\ session[s2].status \in Active
    /\ session[s1].user = session[s2].user
    => s1 = s2

\* The accumulator is well formed: a segment is open exactly while a session runs.
\* Five statements write both columns, two of them the scheduler's.
SegmentIffRunning ==
  \A s \in Sids : (session[s].segment # NoInstant) <=> (session[s].status = "running")

\* Stats count completed sessions only, and each of them once: focus_sessions has
\* exactly one row of a completed work session whose task still exists, and none of
\* any other, however completes, discards, expiry and task deletion interleave.
HistoryExact ==
  \A s \in Sids :
    history[s].rows = IF /\ session[s].status = "completed"
                         /\ session[s].kind = "work"
                         /\ session[s].task # Nil
                        THEN 1 ELSE 0

\* A day whose recorded minutes reach the minimum has its 'Focused study' log, the
\* day being the one the sessions started on, also when they complete after midnight.
StudyLogged ==
  \A u \in StudyUsers : \A d \in {Day(t) : t \in Instant} :
    DayMinutes(history, u, d) >= DailyMinimum => <<u, d>> \in study

\* A log appears only by a step after which the minutes of completed sessions of
\* that day reach the minimum: running or discarded time never counts.
StudyEarned ==
  [][\A ud \in study' \ study :
       DayMinutes(history', ud[1], ud[2]) >= DailyMinimum]_vars

\* A completed or discarded session is never reopened, discarded or credited again,
\* though requests and ticks that saw it active are still under way.
TerminalIsFinal ==
  [][\A s \in Sids : session[s].status \in Terminal =>
       /\ session'[s].status = session[s].status
       /\ session'[s].elapsed = session[s].elapsed]_vars

\* The 200 of a discard carries a session that is over: no race leaves it active.
\* (It may carry a completed one: Discard does not look at what it reads back.)
DiscardEndsSession ==
  \A r \in Requests :
    At(r, "discard", "readback") => session[req[r].sid].status \in Terminal

\* The running total of a session: elapsed_seconds and the open segment. Both sides
\* of the bound below are in half ticks.
Credited(s) == Folded(session[s], now)

\* A session may be credited with more seconds than it is old (Pause, Discard and the
\* scheduler round; the instant of a resume may lie before the pause it follows), but
\* only by half a second for each of its segments and MaxLag for each resumption: no
\* race of pauses, completions and the scheduler folds a segment twice.
OverCreditBounded ==
  \A s \in Sids :
    LET n == session[s].opened
    IN  n > 0 => 2 * TickRate * Credited(s)
                   <= 2 * (now - session[s].started) + TickRate * n + 2 * MaxLag * (n - 1)

\* The task of an active work session cannot be deleted (TaskModel.Delete asks to
\* finish or discard the session first), so the session can still be completed.
ActiveWorkHasTask ==
  \A s \in Sids :
    session[s].status \in Active /\ session[s].kind = "work" => session[s].task # Nil

HeartbeatIsOld(s) ==
  session[s].status = "running" /\ session[s].heartbeat < now - RunningGrace
UntouchedForGrace(s) ==
  session[s].status = "paused" /\ session[s].updated < now - PausedGrace

\* A running session without a heartbeat for the grace period does not stay so: the
\* scheduler pauses it, unless a client revives or ends it.
StaleIsPaused ==
  \A s \in Sids : HeartbeatIsOld(s) ~> ~ HeartbeatIsOld(s)

\* A paused session left alone for the grace period does not hold the user's single
\* slot for ever.
UntouchedIsDiscarded ==
  \A s \in Sids : UntouchedForGrace(s) ~> ~ UntouchedForGrace(s)

\* The detailed system implements the life cycle it promises.
Lifecycle == INSTANCE FocusLifecycle WITH
  owner    <- [s \in Sids |-> session[s].user],
  phase    <- [s \in Sids |-> session[s].status],
  recorded <- [s \in Sids |-> history[s].rows]
ImplementsLifecycle == Lifecycle!Spec
=============================================================================
