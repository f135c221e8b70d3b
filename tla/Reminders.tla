------------------------------ MODULE Reminders ------------------------------
(***************************************************************************)
(* The reminders of the backend: the table reminders, the requests that    *)
(* create, change and delete its rows, the scheduler of every backend      *)
(* instance, which claims the due rows in a transaction and mails them     *)
(* after the commit, and the browser, which polls for what has fired.      *)
(*                                                                         *)
(* A single SQL statement is one step. The claim is a transaction of two   *)
(* steps, the SELECT ... FOR UPDATE SKIP LOCKED and the commit, and holds  *)
(* its row locks in between.                                               *)
(***************************************************************************)
EXTENDS Integers, FiniteSets

CONSTANTS
  Notes,       \* ids of the notes
  Ids,         \* ids the table may give to reminders
  Crons,       \* cron expressions that parse
  Period,      \* seconds between the occurrences of a cron, 0 when it has none
  Requests,    \* update handlers that may be in flight at once
  Instances,   \* backend processes, each with a scheduler
  Nil,         \* SQL NULL
  ClaimLimit,  \* rows a tick claims at most
  PollLimit,   \* rows a poll returns at most
  TickGap,     \* least time between two ticks of a scheduler
  Second,      \* length of a second on the clock
  MaxTime,     \* bound: the last instant of the clock
  MaxArms,     \* bound: a reminder armed so often gets no update that arms it
  Browsers     \* the browsers of the notes' owner that poll

ASSUME ReminderNilAssumption == Nil \notin Notes \cup Ids \cup Crons \cup Int
ASSUME PeriodAssumption == Period \in [Crons -> Nat]
ASSUME ReminderBoundsAssumption ==
  /\ {TickGap, MaxTime} \subseteq Nat
  /\ {ClaimLimit, PollLimit, Second, MaxArms} \subseteq Nat \ {0}

VARIABLES
  now,        \* the clock
  notes,      \* ids of the rows of table notes
  reminders,  \* table reminders
  req,        \* the update each handler is serving
  sched,      \* where each scheduler is in its tick
  mailed,     \* history: the firings an e-mail was sent for
  browser     \* the poll of each browser: its cursor, reply and notifications

vars == <<now, notes, reminders, req, sched, mailed, browser>>

NoInstant == -1   \* SQL NULL, and no cursor yet
ZeroTime == -1    \* Go's zero time, long before second 0

-----------------------------------------------------------------------------
(* The table *)

NoRow ==
  [state |-> "unused", note |-> Nil, type |-> "one_time", cron |-> Nil, next |-> 0,
   active |-> FALSE, last |-> NoInstant, arms |-> 0]

There(m) == reminders[m].state = "stored"

\* nextOccurrence: the first occurrence after t; none at all is the zero time.
NextOccurrence(t, c) ==
  IF Period[c] = 0 THEN ZeroTime
  ELSE IF t < 0 THEN 0 ELSE (t \div Period[c] + 1) * Period[c]

IsOccurrence(t, c) == IF Period[c] = 0 THEN t = ZeroTime ELSE t % Period[c] = 0

\* A firing: the reminder, which of its armings, and the instant it was due.
Firing(m) == <<m, reminders[m].arms, reminders[m].next>>

\* The row as the claim leaves it at instant t.
FiredRowKeepNext(row, t) ==
  [row EXCEPT !.last = t, !.active = row.type = "recurring"]
FiredRow(row, t) ==
  [row EXCEPT !.last = t,
              !.next = IF row.type = "recurring" THEN NextOccurrence(@, row.cron) ELSE @,
              !.active = IF row.type = "one_time" THEN FALSE ELSE @]

-----------------------------------------------------------------------------
(* Row locks. FOR UPDATE without OF locks the rows of the three tables the   *)
(* claim joins: the reminders, their notes, and their user.                  *)

SchedIdle == [pc |-> "idle", at |-> NoInstant, claimed |-> {}, outbox |-> {}]

Claiming(i) == sched[i].pc = "claimed"
LockedRowNever(m) == FALSE
LockedRow(m) == \E i \in Instances : Claiming(i) /\ m \in sched[i].claimed
LockedNote(n) == \E i \in Instances : Claiming(i) /\ \E m \in sched[i].claimed : reminders[m].note = n
LockedUser == \E i \in Instances : Claiming(i) /\ sched[i].claimed # {}

-----------------------------------------------------------------------------
(* Requests *)

ReqIdle == [pc |-> "idle", id |-> Nil, cron |-> Nil, next |-> Nil, active |-> Nil]

\* The INSERT waits for the locks on the note and the user its foreign keys name.
Insert(m, row) ==
  /\ reminders[m].state = "unused"
  /\ row.note \in notes /\ ~ LockedNote(row.note) /\ ~ LockedUser
  /\ reminders' = [reminders EXCEPT ![m] = [row EXCEPT !.state = "stored", !.active = TRUE, !.arms = 1]]
  /\ UNCHANGED <<now, notes, req, sched, mailed, browser>>

\* Create, one_time: nothing keeps fire_at from being in the past.
CreateOneTime(m, n, t) == Insert(m, [NoRow EXCEPT !.note = n, !.next = t])

\* Create, recurring.
CreateRecurring(m, n, c) ==
  Insert(m, [NoRow EXCEPT !.note = n, !.type = "recurring", !.cron = c,
                          !.next = NextOccurrence(now, c)])

\* Update, first statement: GetByID; the new fire time and the cron to write (the one
\* supplied, else the one just read) are fixed here.
UpdateRead(r, m, c, on) ==
  /\ req[r] = ReqIdle
  /\ There(m)
  /\ c # Nil \/ on = TRUE => reminders[m].arms < MaxArms
  /\ req' = [req EXCEPT ![r] =
       [pc |-> "write", id |-> m,
        cron |-> IF c # Nil THEN c ELSE reminders[m].cron,
        next |-> IF c # Nil THEN NextOccurrence(now, c) ELSE Nil,
        active |-> on]]
  /\ UNCHANGED <<now, notes, reminders, sched, mailed, browser>>

\* COALESCE($n, column)
CoalesceNever(v, column) == v
Coalesce(v, column) == IF v = Nil THEN column ELSE v

UpdatedRowForgetNext(row, u) ==
  [row EXCEPT !.cron = Coalesce(u.cron, @), !.active = Coalesce(u.active, @)]
UpdatedRow(row, u) ==
  [row EXCEPT !.next = Coalesce(u.next, @), !.cron = Coalesce(u.cron, @),
              !.active = Coalesce(u.active, @)]

\* A new fire time or is_active = true arms the reminder again.
Rearms(u) == u.next # Nil \/ u.active = TRUE

\* Update, second statement: it waits for the row and finds it gone or writes it.
UpdateWrite(r) ==
  /\ req[r].pc = "write"
  /\ LET m   == req[r].id
         row == UpdatedRow(reminders[m], req[r])
     IN  /\ ~ LockedRow(m)
         /\ \/ /\ There(m)
               /\ reminders' = [reminders EXCEPT ![m] =
                    [row EXCEPT !.arms = IF Rearms(req[r]) THEN @ + 1 ELSE @]]
            \/ /\ ~ There(m)
               /\ UNCHANGED reminders
  /\ req' = [req EXCEPT ![r] = ReqIdle]
  /\ UNCHANGED <<now, notes, sched, mailed, browser>>

\* The handler fails between its statements, or the instance dies.
UpdateAbort(r) ==
  /\ req[r].pc = "write"
  /\ req' = [req EXCEPT ![r] = ReqIdle]
  /\ UNCHANGED <<now, notes, reminders, sched, mailed, browser>>

GoneRow == [NoRow EXCEPT !.state = "deleted"]

Delete(m) ==
  /\ There(m) /\ ~ LockedRow(m)
  /\ reminders' = [reminders EXCEPT ![m] = GoneRow]
  /\ UNCHANGED <<now, notes, req, sched, mailed, browser>>

\* NoteModel.Delete and the cascade to the note's reminders.
DeleteNote(n) ==
  /\ n \in notes /\ ~ LockedNote(n)
  /\ notes' = notes \ {n}
  /\ reminders' = [m \in Ids |-> IF reminders[m].note = n THEN GoneRow ELSE reminders[m]]
  /\ UNCHANGED <<now, req, sched, mailed, browser>>

-----------------------------------------------------------------------------
(* The scheduler: ProcessDue, one tick of one instance *)

\* The ticker fires; the instant is taken here.
Tick(i) ==
  /\ sched[i].pc = "idle"
  /\ sched[i].at = NoInstant \/ now >= sched[i].at + TickGap
  /\ sched' = [sched EXCEPT ![i].pc = "select", ![i].at = now]
  /\ UNCHANGED <<now, notes, reminders, req, mailed, browser>>

DueAt(m, t) == There(m) /\ reminders[m].active /\ reminders[m].next <= t

\* SKIP LOCKED: rows another claim holds, or whose user or note it holds, are not seen.
SkipNothing(m) == TRUE
NotLocked(m) ==
  ~ LockedRow(m) /\ ~ LockedNote(reminders[m].note) /\ ~ LockedUser

\* ORDER BY next_fire_at LIMIT: the earliest of the rows, at most ClaimLimit of them.
Batches(rows) ==
  {B \in SUBSET rows :
     /\ Cardinality(B) = IF Cardinality(rows) < ClaimLimit THEN Cardinality(rows) ELSE ClaimLimit
     /\ \A m \in B, x \in rows \ B : reminders[m].next <= reminders[x].next}

Select(i) ==
  /\ sched[i].pc = "select"
  /\ \E B \in Batches({m \in Ids : DueAt(m, sched[i].at) /\ NotLocked(m)}) :
       sched' = [sched EXCEPT ![i].pc = "claimed", ![i].claimed = B]
  /\ UNCHANGED <<now, notes, reminders, req, mailed, browser>>

\* The UPDATEs and the COMMIT; what was claimed is to be mailed.
Commit(i) ==
  /\ sched[i].pc = "claimed"
  /\ reminders' = [m \in Ids |-> IF m \in sched[i].claimed
                                   THEN FiredRow(reminders[m], sched[i].at)
                                   ELSE reminders[m]]
  /\ sched' = [sched EXCEPT ![i].pc = "mail", ![i].claimed = {},
                            ![i].outbox = {Firing(m) : m \in sched[i].claimed}]
  /\ UNCHANGED <<now, notes, req, mailed, browser>>

\* One e-mail of the batch; a failed send is logged and skipped.
Mail(i) ==
  /\ sched[i].pc = "mail"
  /\ \E f \in sched[i].outbox :
       /\ sched' = [sched EXCEPT ![i].outbox = @ \ {f}]
       /\ mailed' = mailed \cup {f} \/ mailed' = mailed
  /\ UNCHANGED <<now, notes, reminders, req, browser>>

TickEnd(i) ==
  /\ sched[i].pc = "mail" /\ sched[i].outbox = {}
  /\ sched' = [sched EXCEPT ![i].pc = "idle"]
  /\ UNCHANGED <<now, notes, reminders, req, mailed, browser>>

\* An error or the 30 s timeout rolls the claim back; a crash at any point of the tick
\* also loses the e-mails not yet sent.
TickAbort(i) ==
  /\ sched[i].pc # "idle"
  /\ sched' = [sched EXCEPT ![i] = [SchedIdle EXCEPT !.at = sched[i].at]]
  /\ UNCHANGED <<now, notes, reminders, req, mailed, browser>>

-----------------------------------------------------------------------------
(* The browser: useReminderNotifications, with notifications granted *)

\* DueInWindow: fired after the cursor, the earliest first, at most PollLimit.
Windows(cursor) ==
  LET fired == {m \in Ids : There(m) /\ reminders[m].last > cursor}
  IN  {W \in SUBSET fired :
         /\ Cardinality(W) = IF Cardinality(fired) < PollLimit THEN Cardinality(fired) ELSE PollLimit
         /\ \A m \in W, x \in fired \ W : reminders[m].last <= reminders[x].last}

\* maxLastFired compares the stamps as the strings they come in. A fraction of zero is
\* not written, and 'Z' comes after '.': the whole second is the last of its second.
WrittenBefore(t, u) ==
  \/ t = NoInstant /\ u # NoInstant
  \/ t # NoInstant /\ u # NoInstant
     /\ \/ t \div Second < u \div Second
        \/ /\ t \div Second = u \div Second
           /\ \/ t % Second # 0 /\ u % Second = 0
              \/ t % Second # 0 /\ t < u

\* What lastFiredCursor may become when the firings are shown: the last of the stamps.
Latest(firings, cursor) ==
  LET stamps == {f[2] : f \in firings} \cup {cursor}
  IN  {t \in stamps : \A u \in stamps \ {t} : WrittenBefore(u, t)}

PollRead(b) ==
  /\ browser[b].pc = "idle"
  /\ \E W \in Windows(browser[b].cursor) :
       browser' = [browser EXCEPT ![b].pc = "reply",
                                  ![b].reply = {<<m, reminders[m].last>> : m \in W}]
  /\ UNCHANGED <<now, notes, reminders, req, sched, mailed>>

\* fireBrowserNotifications, then the cursor moves to the latest firing of the reply.
PollApply(b) ==
  /\ browser[b].pc = "reply"
  /\ \E t \in Latest(browser[b].reply, browser[b].cursor) :
       browser' = [browser EXCEPT ![b] =
         [pc     |-> "idle",
          cursor |-> t,
          reply  |-> {},
          shown  |-> @.shown \cup @.reply]]
  /\ UNCHANGED <<now, notes, reminders, req, sched, mailed>>

\* The request fails: the next interval polls again from the same cursor.
PollFail(b) ==
  /\ browser[b].pc = "reply"
  /\ browser' = [browser EXCEPT ![b].pc = "idle", ![b].reply = {}]
  /\ UNCHANGED <<now, notes, reminders, req, sched, mailed>>

-----------------------------------------------------------------------------
Clock ==
  /\ now < MaxTime
  /\ now' = now + 1
  /\ UNCHANGED <<notes, reminders, req, sched, mailed, browser>>

Init ==
  /\ now = 0
  /\ notes = Notes
  /\ reminders = [m \in Ids |-> NoRow]
  /\ req = [r \in Requests |-> ReqIdle]
  /\ sched = [i \in Instances |-> SchedIdle]
  /\ mailed = {}
  /\ browser = [b \in Browsers |-> [pc |-> "idle", cursor |-> NoInstant, reply |-> {}, shown |-> {}]]

Create ==
  \E m \in Ids, n \in Notes : \/ \E t \in 0..MaxTime : CreateOneTime(m, n, t)
                              \/ \E c \in Crons : CreateRecurring(m, n, c)

Update(r) ==
  \/ \E m \in Ids, c \in Crons \cup {Nil}, on \in BOOLEAN \cup {Nil} : UpdateRead(r, m, c, on)
  \/ UpdateWrite(r) \/ UpdateAbort(r)

Remove == (\E m \in Ids : Delete(m)) \/ (\E n \in Notes : DeleteNote(n))

ProcessDue(i) ==
  Tick(i) \/ Select(i) \/ Commit(i) \/ Mail(i) \/ TickEnd(i) \/ TickAbort(i)

Poll(b) == PollRead(b) \/ PollApply(b) \/ PollFail(b)

Next ==
  \/ Create \/ Remove \/ Clock
  \/ \E r \in Requests : Update(r)
  \/ \E i \in Instances : ProcessDue(i)
  \/ \E b \in Browsers : Poll(b)

Spec == Init /\ [][Next]_vars

\* The ticker of every instance fires again and again, and a send returns. A statement
\* may fail but not for ever, nor every commit of a claim that holds rows.
SchedulerFairness ==
  \A i \in Instances : /\ WF_vars(Tick(i))
                       /\ SF_vars(Select(i))
                       /\ SF_vars(sched[i].claimed # {} /\ Commit(i))
                       /\ WF_vars(Commit(i))
                       /\ WF_vars(Mail(i))
                       /\ WF_vars(TickEnd(i))

FairSpec == Spec /\ SchedulerFairness

-----------------------------------------------------------------------------
(* Properties *)

Instant == Nat \cup {NoInstant}

\* Every variable has its type; next_fire_at and cron are never NULL by an update that
\* leaves them out.
TypeOK ==
  /\ now \in Nat
  /\ notes \subseteq Notes
  /\ reminders \in [Ids ->
       [state : {"unused", "stored", "deleted"}, note : Notes \cup {Nil},
        type : {"one_time", "recurring"}, cron : Crons \cup {Nil}, next : Instant,
        active : BOOLEAN, last : Instant, arms : Nat]]
  /\ req \in [Requests ->
       [pc : {"idle", "write"}, id : Ids \cup {Nil}, cron : Crons \cup {Nil},
        next : Instant \cup {Nil}, active : BOOLEAN \cup {Nil}]]
  /\ sched \in [Instances ->
       [pc : {"idle", "select", "claimed", "mail"}, at : Instant,
        claimed : SUBSET Ids, outbox : SUBSET (Ids \X Nat \X Instant)]]
  /\ mailed \subseteq Ids \X Nat \X Instant
  /\ browser \in [Browsers ->
       [pc : {"idle", "reply"}, cursor : Instant, reply : SUBSET (Ids \X Instant),
        shown : SUBSET (Ids \X Instant)]]

\* A failed send is one missed notification, never a duplicate one: whatever the claims
\* of two instances, updates and crashes, no firing is mailed twice.
NoDoubleMail ==
  \A i \in Instances : \A f \in sched[i].outbox :
    f \notin mailed /\ \A j \in Instances \ {i} : f \notin sched[j].outbox

\* A step that fires a reminder fires one that is active and due at the instant it
\* stamps: an update that was answered before is not overlooked by a claim under way.
FiredWasDue ==
  [][\A m \in Ids : reminders'[m].last > reminders[m].last =>
       There(m) /\ reminders[m].active /\ reminders[m].next <= reminders'[m].last]_vars

\* The fire time of a recurring reminder is an occurrence of the cron stored beside it,
\* though an update computes it before it writes and claims move it meanwhile. (With two
\* updates in flight the cron of one may be put back beside the fire time of the other.)
NextIsOccurrence ==
  \A m \in Ids : There(m) /\ reminders[m].type = "recurring" =>
    IsOccurrence(reminders[m].next, reminders[m].cron)

OverdueSince(m, t) == DueAt(m, now) /\ reminders[m].next = t

\* An active reminder whose time has come does not stay so: some tick claims it, though
\* each instance skips the rows that a claim of another one has locked.
DueIsClaimed ==
  \A m \in Ids, t \in 0..MaxTime : OverdueSince(m, t) ~> ~ OverdueSince(m, t)

\* Reminders that fire are caught up on the next poll, because they carry a stamp later
\* than the cursor (the comment at useReminderNotifications.ts:9): a firing that is not
\* shown nor in a reply is not older than the cursor. (Equal stamps are not held against
\* the code, for the clock of the model is coarse.)
NoFiringBehindCursor ==
  \A b \in Browsers, m \in Ids : There(m) /\ reminders[m].last # NoInstant =>
    \/ <<m, reminders[m].last>> \in browser[b].shown \cup browser[b].reply
    \/ reminders[m].last >= browser[b].cursor
=============================================================================
