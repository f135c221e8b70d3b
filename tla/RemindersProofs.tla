-------------------------- MODULE RemindersProofs --------------------------
(***************************************************************************)
(* Proofs about Reminders for any notes, ids, crons, requests, instances,  *)
(* browsers and limits.                                                    *)
(***************************************************************************)
EXTENDS Reminders, TLAPS

-----------------------------------------------------------------------------
(* Occurrences *)

\* A cron that has occurrences has one after every instant.
LEMMA Progress ==
  ASSUME NEW t \in Nat, NEW p \in Nat \ {0}
  PROVE  (t \div p + 1) * p \in Nat /\ (t \div p + 1) * p > t /\ ((t \div p + 1) * p) % p = 0
<1>1. t \div p \in Nat /\ t = p * (t \div p) + (t % p) /\ t % p \in 0..(p - 1)
  OBVIOUS
<1> DEFINE q == t \div p
<1>2. q \in Nat /\ t < p * q + p
  BY <1>1
<1> HIDE DEF q
<1>3. (q + 1) * p = p * q + p
  BY <1>2
<1>4. p * q + p \in Nat
  BY <1>2
<1>5. ((q + 1) * p) % p = 0
  BY <1>2
<1> QED BY <1>2, <1>3, <1>4, <1>5 DEF q

\* nextOccurrence gives an occurrence, and a later one when the cron has any.
LEMMA NextLater ==
  ASSUME NEW t \in Instant, NEW c \in Crons
  PROVE  /\ NextOccurrence(t, c) \in Instant
         /\ IsOccurrence(NextOccurrence(t, c), c)
         /\ Period[c] # 0 => NextOccurrence(t, c) > t
<1> DEFINE p == Period[c]
<1>1. p \in Nat
  BY PeriodAssumption
<1>2. CASE p = 0
  BY <1>2 DEF NextOccurrence, IsOccurrence, Instant, ZeroTime, NoInstant
<1>3. CASE p # 0 /\ t < 0
  <2>1. NextOccurrence(t, c) = 0 /\ 0 % p = 0
    BY <1>1, <1>3 DEF NextOccurrence
  <2> QED BY <1>3, <2>1 DEF IsOccurrence, Instant
<1>4. CASE p # 0 /\ ~ (t < 0)
  <2>1. t \in Nat
    BY <1>4 DEF Instant, NoInstant
  <2>2. NextOccurrence(t, c) = (t \div p + 1) * p
    BY <1>4 DEF NextOccurrence
  <2>3. (t \div p + 1) * p \in Nat /\ (t \div p + 1) * p > t /\ ((t \div p + 1) * p) % p = 0
    BY <1>1, <1>4, <2>1, Progress
  <2> QED BY <1>4, <2>2, <2>3 DEF IsOccurrence, Instant
<1> QED BY <1>2, <1>3, <1>4

-----------------------------------------------------------------------------
(* Types *)

Row == [state : {"unused", "stored", "deleted"}, note : Notes \cup {Nil},
        type : {"one_time", "recurring"}, cron : Crons \cup {Nil}, next : Instant,
        active : BOOLEAN, last : Instant, arms : Nat]
Req == [pc : {"idle", "write"}, id : Ids \cup {Nil}, cron : Crons \cup {Nil},
        next : Instant \cup {Nil}, active : BOOLEAN \cup {Nil}]
Firings == SUBSET (Ids \X Nat \X Instant)
Sched == [pc : {"idle", "select", "claimed", "mail"}, at : Instant,
          claimed : SUBSET Ids, outbox : Firings]
Shows == SUBSET (Ids \X Instant)
Browser == [pc : {"idle", "reply"}, cursor : Instant, reply : Shows, shown : Shows]

\* A recurring row has a cron, and nothing recorded lies ahead of the clock.
Recurs(row) == row.type = "recurring" => row.cron \in Crons
Past ==
  /\ \A m \in Ids : Recurs(reminders[m]) /\ reminders[m].last <= now
  /\ \A i \in Instances : sched[i].at <= now
  /\ \A b \in Browsers : /\ browser[b].cursor <= now
                         /\ \A f \in browser[b].reply : f[2] <= now

TInv == TypeOK /\ Past

LEMMA TypeOKAs ==
  TypeOK <=> /\ now \in Nat /\ notes \subseteq Notes /\ mailed \in Firings
             /\ reminders \in [Ids -> Row] /\ req \in [Requests -> Req]
             /\ sched \in [Instances -> Sched] /\ browser \in [Browsers -> Browser]
  BY DEF TypeOK, Row, Req, Sched, Browser, Firings, Shows

\* The rows that the statements write.
LEMMA RowForms ==
  /\ NoRow \in Row /\ Recurs(NoRow) /\ NoRow.last = NoInstant
  /\ GoneRow \in Row /\ Recurs(GoneRow) /\ GoneRow.last = NoInstant
  /\ ReqIdle \in Req /\ SchedIdle \in Sched
  /\ NoInstant \in Instant
  BY DEF NoRow, GoneRow, ReqIdle, SchedIdle, Row, Req, Sched, Recurs, Instant, NoInstant, Firings

LEMMA UpdatedForm ==
  ASSUME NEW row \in Row, NEW u \in Req, Recurs(row), NEW n \in Nat
  PROVE  LET new == [UpdatedRow(row, u) EXCEPT !.arms = n]
         IN  new \in Row /\ Recurs(new) /\ new.last = row.last
<1>1. /\ Coalesce(u.next, row.next) \in Instant
      /\ Coalesce(u.cron, row.cron) \in Crons \cup {Nil}
      /\ row.cron \in Crons => Coalesce(u.cron, row.cron) \in Crons
      /\ Coalesce(u.active, row.active) \in BOOLEAN
  BY DEF Coalesce, Row, Req
<1> QED BY <1>1 DEF UpdatedRow, Row, Recurs

LEMMA FiredForm ==
  ASSUME NEW row \in Row, Recurs(row), NEW t \in Instant
  PROVE  FiredRow(row, t) \in Row /\ Recurs(FiredRow(row, t)) /\ FiredRow(row, t).last = t
<1>1. row.type = "recurring" => NextOccurrence(row.next, row.cron) \in Instant
  BY NextLater DEF Recurs, Row
<1> QED BY <1>1 DEF FiredRow, Row, Recurs

\* At first.
LEMMA InitTypes == Init => TInv
<1> SUFFICES ASSUME Init PROVE TInv
  OBVIOUS
<1>1. [pc |-> "idle", cursor |-> NoInstant, reply |-> {}, shown |-> {}] \in Browser
  BY RowForms DEF Browser, Shows
<1>2. SchedIdle.at = NoInstant
  BY DEF SchedIdle
<1> QED BY <1>1, <1>2, RowForms, TypeOKAs DEF Init, TInv, Past, NoInstant, Firings

\* Every step keeps the types and the order of the instants.
LEMMA StepTypes == ASSUME TInv, [Next]_vars PROVE TInv'
<1> DEFINE PastRows == \A m \in Ids : Recurs(reminders[m]) /\ reminders[m].last <= now
           PastTicks == \A i \in Instances : sched[i].at <= now
           PastPoll(b) == browser[b].cursor <= now /\ \A f \in browser[b].reply : f[2] <= now
           PastPolls == \A b \in Browsers : PastPoll(b)
<1>t. /\ now \in Nat /\ notes \subseteq Notes /\ mailed \in Firings
      /\ reminders \in [Ids -> Row] /\ req \in [Requests -> Req]
      /\ sched \in [Instances -> Sched] /\ browser \in [Browsers -> Browser]
  BY TypeOKAs DEF TInv
<1>p. PastRows /\ PastTicks /\ PastPolls
  BY DEF TInv, Past
<1>q. ASSUME /\ now' \in Nat /\ notes' \subseteq Notes /\ mailed' \in Firings
             /\ reminders' \in [Ids -> Row] /\ req' \in [Requests -> Req]
             /\ sched' \in [Instances -> Sched] /\ browser' \in [Browsers -> Browser]
             /\ PastRows' /\ PastTicks' /\ PastPolls'
      PROVE  TInv'
  BY <1>q DEF TInv, Past, TypeOK, Row, Req, Sched, Browser, Firings, Shows
\* A statement that only writes rows, and one that only moves a scheduler.
<1>r. ASSUME reminders' \in [Ids -> Row], PastRows', notes' \subseteq Notes,
             UNCHANGED <<now, req, sched, mailed, browser>>
      PROVE  TInv'
  BY <1>t, <1>p, <1>q, <1>r
<1>s. ASSUME NEW i \in Instances, NEW z \in Sched, sched' = [sched EXCEPT ![i] = z], z.at <= now,
             mailed' \in Firings, UNCHANGED <<now, notes, reminders, req, browser>>
      PROVE  TInv'
  <2>1. sched' \in [Instances -> Sched] /\ PastTicks'
    BY <1>t, <1>p, <1>s
  <2> QED BY <1>t, <1>p, <1>q, <1>s, <2>1
<1>b. ASSUME NEW b \in Browsers, NEW z \in Browser, browser' = [browser EXCEPT ![b] = z],
             z.cursor <= now, \A f \in z.reply : f[2] <= now,
             UNCHANGED <<now, notes, reminders, req, sched, mailed>>
      PROVE  TInv'
  <2>1. browser' \in [Browsers -> Browser] /\ PastPolls'
    BY <1>t, <1>p, <1>b
  <2> QED BY <1>t, <1>p, <1>q, <1>b, <2>1
<1>1. ASSUME Create PROVE TInv'
  <2>1. ASSUME NEW m \in Ids, NEW row \in Row, Recurs(row), row.last = NoInstant, Insert(m, row)
        PROVE  TInv'
    <3>1. [row EXCEPT !.state = "stored", !.active = TRUE, !.arms = 1] \in Row
      BY DEF Row
    <3>2. reminders' \in [Ids -> Row] /\ PastRows'
      BY <1>t, <1>p, <2>1, <3>1 DEF Insert, Recurs, Row, NoInstant
    <3> QED BY <1>t, <1>r, <2>1, <3>2 DEF Insert
  <2>2. ASSUME NEW m \in Ids, NEW n \in Notes, NEW t \in 0..MaxTime, CreateOneTime(m, n, t)
        PROVE  TInv'
    <3>1. LET row == [NoRow EXCEPT !.note = n, !.next = t]
          IN  row \in Row /\ Recurs(row) /\ row.last = NoInstant
      <4> t \in Instant
        BY ReminderBoundsAssumption DEF Instant
      <4> QED BY RowForms DEF Row, Recurs, NoRow
    <3> QED BY <2>1, <2>2, <3>1 DEF CreateOneTime
  <2>3. ASSUME NEW m \in Ids, NEW n \in Notes, NEW c \in Crons, CreateRecurring(m, n, c)
        PROVE  TInv'
    <3>1. NextOccurrence(now, c) \in Instant
      BY <1>t, NextLater DEF Instant
    <3>2. LET row == [NoRow EXCEPT !.note = n, !.type = "recurring", !.cron = c,
                                   !.next = NextOccurrence(now, c)]
          IN  row \in Row /\ Recurs(row) /\ row.last = NoInstant
      BY <3>1, RowForms DEF Row, Recurs, NoRow
    <3> QED BY <2>1, <2>3, <3>2 DEF CreateRecurring
  <2> QED BY <1>1, <2>2, <2>3 DEF Create
<1>2. ASSUME Remove PROVE TInv'
  <2>1. reminders' \in [Ids -> Row] /\ PastRows'
    BY <1>2, <1>t, <1>p, RowForms DEF Remove, Delete, DeleteNote, NoInstant
  <2> QED BY <1>2, <1>t, <1>r, <2>1 DEF Remove, Delete, DeleteNote
<1>3. ASSUME Clock PROVE TInv'
  <2>1. now' \in Nat /\ now <= now'
    BY <1>3, <1>t DEF Clock
  <2>2. PastRows' /\ PastTicks' /\ PastPolls'
    BY <1>3, <1>t, <1>p, <2>1 DEF Clock, Row, Sched, Browser, Shows, Instant, NoInstant
  <2> QED BY <1>3, <1>t, <1>q, <2>1, <2>2 DEF Clock
<1>4. ASSUME NEW r \in Requests, Update(r) PROVE TInv'
  <2>q. ASSUME req' \in [Requests -> Req], UNCHANGED <<now, notes, reminders, sched, mailed, browser>>
        PROVE  TInv'
    BY <1>t, <1>p, <1>q, <2>q
  <2>1. ASSUME NEW m \in Ids, NEW c \in Crons \cup {Nil}, NEW on \in BOOLEAN \cup {Nil}, UpdateRead(r, m, c, on)
        PROVE  TInv'
    <3>1. c # Nil => NextOccurrence(now, c) \in Instant
      BY <1>t, NextLater DEF Instant
    <3>2. [pc |-> "write", id |-> m, cron |-> IF c # Nil THEN c ELSE reminders[m].cron,
           next |-> IF c # Nil THEN NextOccurrence(now, c) ELSE Nil, active |-> on] \in Req
      BY <1>t, <3>1 DEF Req, Row
    <3>3. req' \in [Requests -> Req]
      BY <1>t, <2>1, <3>2 DEF UpdateRead
    <3> QED BY <2>1, <2>q, <3>3 DEF UpdateRead
  <2>2. CASE UpdateWrite(r)
    <3>1. req' \in [Requests -> Req]
      BY <1>t, <2>2, RowForms DEF UpdateWrite
    <3>2. reminders' \in [Ids -> Row] /\ PastRows'
      <4>1. CASE UNCHANGED reminders
        BY <1>t, <1>p, <2>2, <4>1 DEF UpdateWrite
      <4>2. CASE ~ UNCHANGED reminders
        <5> DEFINE m == req[r].id
                   n == IF Rearms(req[r]) THEN reminders[m].arms + 1 ELSE reminders[m].arms
                   row == [UpdatedRow(reminders[m], req[r]) EXCEPT !.arms = n]
        <5>1. reminders' = [reminders EXCEPT ![m] = row] /\ There(m)
          BY <2>2, <4>2 DEF UpdateWrite, UpdatedRow
        <5>2. m \in Ids
          BY <1>t, <4>2, <5>1
        <5>3. req[r] \in Req /\ reminders[m] \in Row /\ n \in Nat /\ Recurs(reminders[m])
          BY <1>t, <1>p, <5>2 DEF Row
        <5>4. row \in Row /\ Recurs(row) /\ row.last = reminders[m].last
          BY <5>3, UpdatedForm
        <5> HIDE DEF row
        <5> QED BY <1>t, <1>p, <2>2, <5>1, <5>2, <5>4 DEF UpdateWrite
      <4> QED BY <4>1, <4>2
    <3> QED BY <1>t, <1>p, <1>q, <2>2, <3>1, <3>2 DEF UpdateWrite
  <2>3. CASE UpdateAbort(r)
    <3>1. req' \in [Requests -> Req]
      BY <1>t, <2>3, RowForms DEF UpdateAbort
    <3> QED BY <2>3, <2>q, <3>1 DEF UpdateAbort
  <2> QED BY <1>4, <2>1, <2>2, <2>3 DEF Update
<1>5. ASSUME NEW i \in Instances, ProcessDue(i) PROVE TInv'
  <2>0. sched[i] \in Sched /\ sched[i].at <= now /\ now \in Instant
    BY <1>t, <1>p DEF Instant
  <2>1. CASE Tick(i)
    <3>1. [sched[i] EXCEPT !.pc = "select", !.at = now] \in Sched
      BY <2>0 DEF Sched
    <3>2. sched' = [sched EXCEPT ![i] = [sched[i] EXCEPT !.pc = "select", !.at = now]]
      BY <1>t, <2>1 DEF Tick
    <3>3. [sched[i] EXCEPT !.pc = "select", !.at = now].at <= now
      BY <1>t, <2>0 DEF Sched
    <3> QED BY <1>s, <1>t, <2>1, <3>1, <3>2, <3>3 DEF Tick
  <2>2. CASE Select(i)
    <3>1. PICK B \in Batches({m \in Ids : DueAt(m, sched[i].at) /\ NotLocked(m)}) :
                 sched' = [sched EXCEPT ![i] = [sched[i] EXCEPT !.pc = "claimed", !.claimed = B]]
      BY <2>2 DEF Select
    <3>2. [sched[i] EXCEPT !.pc = "claimed", !.claimed = B] \in Sched
      BY <2>0, <3>1 DEF Sched, Batches
    <3> QED BY <1>s, <1>t, <2>0, <2>2, <3>1, <3>2 DEF Select, Sched
  <2>3. CASE Commit(i)
    <3>1. reminders' \in [Ids -> Row] /\ PastRows'
      <4>1. ASSUME NEW m \in Ids
            PROVE  LET row == FiredRow(reminders[m], sched[i].at)
                   IN  row \in Row /\ Recurs(row) /\ row.last = sched[i].at
        BY <1>t, <1>p, <2>0, FiredForm DEF Sched
      <4> QED BY <1>t, <1>p, <2>0, <2>3, <4>1 DEF Commit
    <3>2. \A m \in sched[i].claimed : Firing(m) \in Ids \X Nat \X Instant
      BY <1>t, <2>0 DEF Firing, Row, Sched
    <3>3. [sched[i] EXCEPT !.pc = "mail", !.claimed = {},
                           !.outbox = {Firing(m) : m \in sched[i].claimed}] \in Sched
      BY <2>0, <3>2 DEF Sched, Firings
    <3>4. sched' \in [Instances -> Sched] /\ PastTicks'
      BY <1>t, <1>p, <2>3, <3>3 DEF Commit, Sched
    <3> QED BY <1>t, <1>p, <1>q, <2>3, <3>1, <3>4 DEF Commit
  <2>4. CASE Mail(i)
    <3>1. PICK f \in sched[i].outbox :
             /\ sched' = [sched EXCEPT ![i] = [sched[i] EXCEPT !.outbox = @ \ {f}]]
             /\ mailed' = mailed \cup {f} \/ mailed' = mailed
      BY <2>4 DEF Mail
    <3>2. [sched[i] EXCEPT !.outbox = @ \ {f}] \in Sched /\ mailed' \in Firings
      BY <1>t, <2>0, <3>1 DEF Sched, Firings
    <3> QED BY <1>s, <2>0, <2>4, <3>1, <3>2 DEF Mail, Sched
  <2>5. CASE TickEnd(i)
    <3>1. [sched[i] EXCEPT !.pc = "idle"] \in Sched
      BY <2>0 DEF Sched
    <3> QED BY <1>s, <1>t, <2>0, <2>5, <3>1 DEF TickEnd, Sched
  <2>6. CASE TickAbort(i)
    <3>1. [SchedIdle EXCEPT !.at = sched[i].at] \in Sched
      BY <2>0, RowForms DEF Sched
    <3> QED BY <1>s, <1>t, <2>0, <2>6, <3>1, RowForms DEF TickAbort, Sched
  <2> QED BY <1>5, <2>1, <2>2, <2>3, <2>4, <2>5, <2>6 DEF ProcessDue
<1>6. ASSUME NEW b \in Browsers, Poll(b) PROVE TInv'
  <2>0. browser[b] \in Browser /\ PastPoll(b)
    BY <1>t, <1>p
  <2>1. CASE PollRead(b)
    <3>1. PICK W \in Windows(browser[b].cursor) :
             browser' = [browser EXCEPT ![b] =
                [browser[b] EXCEPT !.pc = "reply", !.reply = {<<m, reminders[m].last>> : m \in W}]]
      BY <2>1 DEF PollRead
    <3>2. W \subseteq Ids
      BY DEF Windows
    <3>3. [browser[b] EXCEPT !.pc = "reply", !.reply = {<<m, reminders[m].last>> : m \in W}] \in Browser
      <4>1. {<<m, reminders[m].last>> : m \in W} \in Shows
        BY <1>t, <3>2 DEF Shows, Row
      <4> QED BY <2>0, <4>1 DEF Browser
    <3>4. \A f \in {<<m, reminders[m].last>> : m \in W} : f[2] <= now
      BY <1>p, <3>2
    <3> QED BY <1>b, <2>0, <2>1, <3>1, <3>3, <3>4 DEF PollRead, Browser
  <2>2. CASE PollApply(b)
    <3>1. PICK t \in Latest(browser[b].reply, browser[b].cursor) :
             browser' = [browser EXCEPT ![b] = [pc |-> "idle", cursor |-> t, reply |-> {},
                                                shown |-> browser[b].shown \cup browser[b].reply]]
      BY <2>2 DEF PollApply
    <3>2. t \in Instant /\ t <= now
      <4>1. t \in {f[2] : f \in browser[b].reply} \cup {browser[b].cursor}
        BY DEF Latest
      <4> QED BY <2>0, <4>1 DEF Browser, Shows
    <3>3. [pc |-> "idle", cursor |-> t, reply |-> {}, shown |-> browser[b].shown \cup browser[b].reply]
            \in Browser
      BY <2>0, <3>2 DEF Browser, Shows
    <3> QED BY <1>b, <2>2, <3>1, <3>2, <3>3 DEF PollApply
  <2>3. CASE PollFail(b)
    <3>1. [browser[b] EXCEPT !.pc = "idle", !.reply = {}] \in Browser
      BY <2>0 DEF Browser, Shows
    <3> QED BY <1>b, <2>0, <2>3, <3>1 DEF PollFail, Browser
  <2> QED BY <1>6, <2>1, <2>2, <2>3 DEF Poll
<1>7. CASE UNCHANGED vars
  BY <1>7, <1>t, <1>p, <1>q DEF vars
<1> QED BY <1>1, <1>2, <1>3, <1>4, <1>5, <1>6, <1>7 DEF Next

\* Every variable has its type, for any notes, crons, requests, instances and browsers.
THEOREM RemindersTypeCorrect == Spec => []TypeOK
<1>1. TInv => TypeOK
  BY DEF TInv
<1> QED BY InitTypes, StepTypes, <1>1, PTL DEF Spec

-----------------------------------------------------------------------------
(* What a tick has locked *)

\* A claimed row is there, active and due at the instant of its tick, and no other tick
\* has claimed it.
Claims ==
  \A i \in Instances : Claiming(i) => \A m \in sched[i].claimed :
    /\ DueAt(m, sched[i].at)
    /\ \A j \in Instances \ {i} : Claiming(j) => m \notin sched[j].claimed

\* Only a commit touches a row that is locked, and none but its own.
LEMMA LockedStays ==
  ASSUME TInv, Claims, Next, NEW m \in Ids, LockedRow(m), \A i \in Instances : ~ Commit(i)
  PROVE  reminders'[m] = reminders[m]
<1>t. reminders \in [Ids -> Row] /\ There(m)
  BY TypeOKAs DEF TInv, Claims, LockedRow, DueAt
<1>1. CASE Create
  BY <1>t, <1>1 DEF Create, CreateOneTime, CreateRecurring, Insert, There
<1>2. CASE Remove
  BY <1>t, <1>2 DEF Remove, Delete, DeleteNote, LockedNote, LockedRow
<1>3. ASSUME NEW r \in Requests, Update(r) PROVE reminders'[m] = reminders[m]
  <2>1. CASE UpdateWrite(r)
    BY <1>t, <2>1 DEF UpdateWrite
  <2> QED BY <1>3, <2>1 DEF Update, UpdateRead, UpdateAbort
<1>4. CASE UNCHANGED reminders
  BY <1>4
<1> QED BY <1>1, <1>2, <1>3, <1>4
    DEF Next, Clock, ProcessDue, Tick, Select, Mail, TickEnd, TickAbort, Poll, PollRead, PollApply, PollFail

\* At first nothing is claimed.
LEMMA InitClaims == Init => Claims
  BY DEF Init, Claims, Claiming, SchedIdle

\* Every step keeps the claims.
LEMMA StepClaims == ASSUME TInv, Claims, [Next]_vars PROVE Claims'
<1>t. sched \in [Instances -> Sched] /\ reminders \in [Ids -> Row]
  BY TypeOKAs DEF TInv
<1>0. \A i \in Instances : Claiming(i) => \A m \in sched[i].claimed : m \in Ids /\ LockedRow(m)
  BY <1>t DEF LockedRow, Sched
<1>1. ASSUME NEW i \in Instances, Commit(i) PROVE Claims'
  <2>1. \A j \in Instances \ {i} : sched'[j] = sched[j]
    BY <1>1, <1>t DEF Commit
  <2>2. ~ Claiming(i)'
    BY <1>1, <1>t DEF Commit, Claiming, Sched
  <2>3. ASSUME NEW j \in Instances, Claiming(j)', NEW m \in sched'[j].claimed
        PROVE  /\ DueAt(m, sched[j].at)'
               /\ \A k \in Instances \ {j} : Claiming(k)' => m \notin sched'[k].claimed
    <3>1. j # i /\ sched'[j] = sched[j] /\ Claiming(j) /\ m \in Ids
      BY <1>0, <2>1, <2>2, <2>3 DEF Claiming
    <3>2. m \notin sched[i].claimed /\ DueAt(m, sched[j].at)
      BY <1>1, <2>3, <3>1 DEF Claims, Commit, Claiming
    <3>3. reminders'[m] = reminders[m]
      BY <1>1, <3>1, <3>2 DEF Commit
    <3>4. DueAt(m, sched[j].at)'
      BY <3>1, <3>2, <3>3 DEF DueAt, There
    <3>5. ASSUME NEW k \in Instances \ {j}, Claiming(k)' PROVE m \notin sched'[k].claimed
      <4>1. k # i /\ sched'[k] = sched[k] /\ Claiming(k)
        BY <2>1, <2>2, <3>5 DEF Claiming
      <4> QED BY <2>3, <3>1, <4>1 DEF Claims
    <3> QED BY <3>4, <3>5
  <2> QED BY <2>3 DEF Claims
<1>2. ASSUME NEW i \in Instances, Select(i) PROVE Claims'
  <2>1. PICK B \in Batches({m \in Ids : DueAt(m, sched[i].at) /\ NotLocked(m)}) :
          sched' = [sched EXCEPT ![i].pc = "claimed", ![i].claimed = B]
    BY <1>2 DEF Select
  <2>2. /\ \A m \in B : m \in Ids /\ DueAt(m, sched[i].at) /\ ~ LockedRow(m)
        /\ sched'[i].at = sched[i].at /\ sched'[i].claimed = B
        /\ \A j \in Instances \ {i} : sched'[j] = sched[j]
        /\ UNCHANGED reminders
    BY <1>2, <1>t, <2>1 DEF Batches, NotLocked, Select, Sched
  <2>3. ASSUME NEW j \in Instances \ {i}, Claiming(j) PROVE \A m \in B : m \notin sched[j].claimed
    BY <2>2, <2>3 DEF LockedRow
  <2>4. ASSUME NEW j \in Instances, Claiming(j)', NEW m \in sched'[j].claimed
        PROVE  /\ DueAt(m, sched[j].at)'
               /\ \A k \in Instances \ {j} : Claiming(k)' => m \notin sched'[k].claimed
    <3>1. CASE j = i
      BY <2>2, <2>3, <2>4, <3>1 DEF Claiming, DueAt, There
    <3>2. CASE j # i
      BY <2>2, <2>3, <2>4, <3>2 DEF Claims, Claiming, DueAt, There
    <3> QED BY <3>1, <3>2
  <2> QED BY <2>4 DEF Claims
\* All the others claim nothing; an abort gives up.
<1>3. ASSUME \A j \in Instances : Claiming(j)' => sched'[j] = sched[j],
             \A j \in Instances, m \in Ids : Claiming(j) /\ m \in sched[j].claimed => reminders'[m] = reminders[m]
      PROVE  Claims'
  <2>1. \A j \in Instances : Claiming(j)' => Claiming(j)
    BY <1>3 DEF Claiming
  <2> QED BY <1>0, <1>3, <2>1 DEF Claims, DueAt, There
<1>4. ASSUME Next, \A i \in Instances : ~ Commit(i), \A i \in Instances : ~ Select(i) PROVE Claims'
  <2>1. \A j \in Instances, m \in Ids : Claiming(j) /\ m \in sched[j].claimed => reminders'[m] = reminders[m]
    BY <1>4, <1>0, LockedStays
  <2>2. ASSUME NEW i \in Instances, Tick(i) \/ Mail(i) \/ TickEnd(i) \/ TickAbort(i)
        PROVE  \A j \in Instances : Claiming(j)' => sched'[j] = sched[j]
    <3>1. CASE Tick(i)
      BY <1>t, <3>1 DEF Tick, Claiming, Sched
    <3>2. CASE Mail(i)
      BY <1>t, <3>2 DEF Mail, Claiming, Sched
    <3>3. CASE TickEnd(i)
      BY <1>t, <3>3 DEF TickEnd, Claiming, Sched
    <3>4. CASE TickAbort(i)
      BY <1>t, <3>4 DEF TickAbort, Claiming, SchedIdle
    <3> QED BY <2>2, <3>1, <3>2, <3>3, <3>4
  <2>3. (\E i \in Instances : Tick(i) \/ Mail(i) \/ TickEnd(i) \/ TickAbort(i)) \/ UNCHANGED sched
    BY <1>4 DEF Next, Clock, Create, CreateOneTime, CreateRecurring, Insert, Remove, Delete, DeleteNote,
       Update, UpdateRead, UpdateWrite, UpdateAbort, ProcessDue, Poll, PollRead, PollApply, PollFail
  <2> QED BY <1>3, <2>1, <2>2, <2>3
<1>5. CASE UNCHANGED vars
  BY <1>3, <1>5 DEF vars
<1> QED BY <1>1, <1>2, <1>4, <1>5

\* Without a commit a row keeps its stamp; a new row and a deleted one have none.
LEMMA LastStays ==
  ASSUME TInv, [Next]_vars, \A i \in Instances : ~ Commit(i), NEW m \in Ids
  PROVE  \/ reminders'[m].last = NoInstant
         \/ reminders'[m].last = reminders[m].last /\ (There(m)' => There(m))
<1> DEFINE Kept == reminders'[m].last = reminders[m].last /\ (There(m)' => There(m))
<1>t. reminders \in [Ids -> Row] /\ req \in [Requests -> Req]
  BY TypeOKAs DEF TInv
<1>1. ASSUME Create PROVE reminders'[m].last = NoInstant \/ Kept
  <2>1. ASSUME NEW x \in Ids, NEW row, Insert(x, row),
               [row EXCEPT !.state = "stored", !.active = TRUE, !.arms = 1].last = NoInstant
        PROVE  reminders'[m].last = NoInstant \/ Kept
    BY <1>t, <2>1 DEF Insert, There
  <2> QED BY <1>1, <2>1 DEF Create, CreateOneTime, CreateRecurring, NoRow
<1>2. ASSUME Remove PROVE reminders'[m].last = NoInstant \/ Kept
  BY <1>2, <1>t, RowForms DEF Remove, Delete, DeleteNote, There
<1>3. ASSUME NEW r \in Requests, Update(r) PROVE Kept
  <2>1. CASE UNCHANGED reminders
    BY <2>1 DEF There
  <2>2. CASE ~ UNCHANGED reminders
    <3>1. PICK n : reminders' = [reminders EXCEPT ![req[r].id] =
                                   [UpdatedRow(reminders[req[r].id], req[r]) EXCEPT !.arms = n]]
      BY <1>3, <2>2 DEF Update, UpdateRead, UpdateWrite, UpdateAbort
    <3>2. LET row == [UpdatedRow(reminders[m], req[r]) EXCEPT !.arms = n]
          IN  row.last = reminders[m].last /\ row.state = reminders[m].state
      BY <1>t DEF UpdatedRow, Row
    <3> QED BY <1>t, <3>1, <3>2 DEF There
  <2> QED BY <2>1, <2>2
<1>4. CASE UNCHANGED reminders
  BY <1>4 DEF There
<1> QED BY <1>1, <1>2, <1>3, <1>4
    DEF Next, vars, Clock, ProcessDue, Tick, Select, Mail, TickEnd, TickAbort, Poll, PollRead, PollApply, PollFail

\* A commit stamps the rows of its claim.
LEMMA CommitStamps ==
  ASSUME TInv, NEW i \in Instances, Commit(i), NEW m \in Ids
  PROVE  /\ There(m)' <=> There(m)
         /\ reminders'[m].last = IF m \in sched[i].claimed THEN sched[i].at ELSE reminders[m].last
<1>1. reminders \in [Ids -> Row]
  BY TypeOKAs DEF TInv
<1>2. LET row == FiredRow(reminders[m], sched[i].at)
      IN  row.state = reminders[m].state /\ row.last = sched[i].at
  BY <1>1 DEF FiredRow, Row
<1> QED BY <1>1, <1>2 DEF Commit, There

\* Only a commit stamps a row, and only a row that is due at its instant.
LEMMA StampedWasDue ==
  ASSUME TInv, Claims, [Next]_vars, NEW m \in Ids, reminders'[m].last > reminders[m].last
  PROVE  There(m) /\ reminders[m].active /\ reminders[m].next <= reminders'[m].last
<1>1. reminders[m] \in Row
  BY TypeOKAs DEF TInv
<1>2. reminders'[m].last # reminders[m].last /\ reminders'[m].last # NoInstant
  BY <1>1 DEF Row, Instant, NoInstant
<1>3. PICK i \in Instances : Commit(i)
  BY <1>2, LastStays
<1>4. m \in sched[i].claimed /\ reminders'[m].last = sched[i].at
  BY <1>2, <1>3, CommitStamps
<1> QED BY <1>3, <1>4 DEF Claims, Claiming, Commit, DueAt

\* A reminder fires only while it is active and due (ClaimDue, models/reminder.go:222-289), whatever
\* updates, deletes and claims of other instances run beside the tick.
THEOREM OnlyDueFires == Spec => FiredWasDue
<1>1. Init => TInv /\ Claims
  BY InitTypes, InitClaims
<1>2. TInv /\ Claims /\ [Next]_vars => TInv' /\ Claims'
  BY StepTypes, StepClaims
<1>3. TInv /\ Claims /\ [Next]_vars =>
        [\A m \in Ids : reminders'[m].last > reminders[m].last =>
           There(m) /\ reminders[m].active /\ reminders[m].next <= reminders'[m].last]_vars
  BY StampedWasDue
<1> QED BY <1>1, <1>2, <1>3, PTL DEF Spec, FiredWasDue

-----------------------------------------------------------------------------
(* What has fired does not fire again *)

EveryCronRecurs == \A c \in Crons : Period[c] # 0

\* A firing of a row that is there belongs to an earlier arming, or to an earlier
\* occurrence of this one, or the row rests.
Used(f) ==
  /\ reminders[f[1]].state # "unused"
  /\ There(f[1]) => /\ f[2] <= reminders[f[1]].arms
                    /\ f[2] = reminders[f[1]].arms /\ reminders[f[1]].active
                         => f[3] < reminders[f[1]].next

Sent == /\ \A f \in mailed : Used(f)
        /\ \A i \in Instances : \A f \in sched[i].outbox : Used(f)

LEMMA InitSent == Init => Sent
  BY DEF Init, Sent, SchedIdle

\* A firing that is used up stays so.
LEMMA StaysUsed ==
  ASSUME EveryCronRecurs, TInv, Claims, [Next]_vars, NEW f \in Ids \X Nat \X Instant, Used(f)
  PROVE  Used(f)'
<1> DEFINE m == f[1]
           old == reminders[m]
<1>t. /\ reminders \in [Ids -> Row] /\ req \in [Requests -> Req] /\ m \in Ids
      /\ f[2] \in Nat /\ f[3] \in Instant /\ \A x \in Ids : Recurs(reminders[x])
  BY TypeOKAs DEF TInv, Past
\* A row that keeps its arming and its occurrence, or has a later one of either.
<1>k. ASSUME NEW row, reminders'[m] = row,
             \/ row = old
             \/ row.state = "deleted"
             \/ /\ row.state = old.state /\ row.arms \in Nat /\ row.arms > old.arms
             \/ /\ row.state = old.state /\ row.arms = old.arms /\ (row.active => old.active)
                /\ row.next >= old.next /\ row.next \in Instant
      PROVE  Used(f)'
  <2>1. old.state # "unused" /\ row.state # "unused" /\ Used(f)
    BY <1>k DEF Used
  <2>2. CASE row = old
    BY <1>k, <2>2 DEF Used, There
  <2>3. CASE row.state = "deleted"
    BY <1>k, <2>3 DEF Used, There
  <2>4. CASE row.state = old.state /\ row.arms \in Nat /\ row.arms > old.arms
    <3>1. row.state = "stored" => f[2] < row.arms
      BY <1>t, <2>1, <2>4 DEF Used, There, Row
    <3> QED BY <1>t, <1>k, <2>1, <2>4, <3>1 DEF Used, There
  <2>5. CASE /\ row.state = old.state /\ row.arms = old.arms /\ (row.active => old.active)
             /\ row.next >= old.next /\ row.next \in Instant
    <3>1. row.state = "stored" /\ row.active /\ f[2] = row.arms => f[3] < row.next
      BY <1>t, <2>1, <2>5 DEF Used, There, Row, Instant, NoInstant
    <3> QED BY <1>k, <2>1, <2>5, <3>1 DEF Used, There
  <2> QED BY <1>k, <2>2, <2>3, <2>4, <2>5
<1>1. CASE Create
  BY <1>t, <1>k, <1>1 DEF Create, CreateOneTime, CreateRecurring, Insert, Used
<1>2. CASE Remove
  BY <1>t, <1>k, <1>2 DEF Remove, Delete, DeleteNote, GoneRow, NoRow
<1>3. ASSUME NEW r \in Requests, Update(r) PROVE Used(f)'
  <2>1. CASE reminders' = reminders
    BY <1>k, <2>1
  <2>2. CASE reminders' # reminders
    <3> DEFINE u == req[r]
               x == u.id
               n == IF Rearms(u) THEN reminders[x].arms + 1 ELSE reminders[x].arms
               row == [UpdatedRow(reminders[x], u) EXCEPT !.arms = n]
    <3>1. reminders' = [reminders EXCEPT ![x] = row]
      BY <1>3, <2>2 DEF Update, UpdateRead, UpdateAbort, UpdateWrite, UpdatedRow
    <3>2. ASSUME x = m PROVE Used(f)'
      <4>1. row.state = old.state /\ row.arms = n
        BY <1>t, <3>2 DEF UpdatedRow, Row
      <4>2. CASE Rearms(u)
        <5>1. n \in Nat /\ n > old.arms
          BY <1>t, <3>2, <4>2 DEF Row
        <5> QED BY <1>t, <1>k, <3>1, <3>2, <4>1, <5>1
      <4>3. CASE ~ Rearms(u)
        <5>1. n = old.arms /\ row.next = old.next /\ (row.active => old.active)
          BY <1>t, <3>2, <4>3 DEF Rearms, UpdatedRow, Coalesce, Row, Req
        <5>2. row.next >= old.next /\ row.next \in Instant
          BY <1>t, <5>1 DEF Row, Instant, NoInstant
        <5> QED BY <1>t, <1>k, <3>1, <3>2, <4>1, <5>1, <5>2
      <4> QED BY <4>2, <4>3
    <3>3. ASSUME x # m PROVE Used(f)'
      BY <1>t, <1>k, <3>1, <3>3
    <3> QED BY <3>2, <3>3
  <2> QED BY <2>1, <2>2
<1>4. ASSUME NEW i \in Instances, Commit(i) PROVE Used(f)'
  <2>1. CASE m \notin sched[i].claimed
    BY <1>t, <1>k, <1>4, <2>1 DEF Commit
  <2>2. CASE m \in sched[i].claimed
    <3> DEFINE row == FiredRow(old, sched[i].at)
    <3>1. reminders'[m] = row
      BY <1>t, <1>4, <2>2 DEF Commit
    <3>2. old.active
      BY <1>4, <2>2 DEF Claims, Claiming, Commit, DueAt
    <3>3. /\ row.state = old.state /\ row.arms = old.arms
          /\ row.next = IF old.type = "recurring" THEN NextOccurrence(old.next, old.cron) ELSE old.next
      BY <1>t DEF FiredRow, Row
    <3>4. row.next >= old.next /\ row.next \in Instant
      <4>1. old \in Row /\ Recurs(old)
        BY <1>t
      <4>2. CASE old.type = "recurring"
        BY <3>3, <4>1, <4>2, NextLater DEF EveryCronRecurs, Recurs, Row, Instant, NoInstant
      <4>3. CASE old.type # "recurring"
        BY <3>3, <4>1, <4>3 DEF Row, Instant, NoInstant
      <4> QED BY <4>2, <4>3
    <3> QED BY <1>k, <3>1, <3>2, <3>3, <3>4
  <2> QED BY <2>1, <2>2
<1>5. CASE UNCHANGED reminders
  BY <1>5, <1>k
<1> QED BY <1>1, <1>2, <1>3, <1>4, <1>5
    DEF Next, vars, Clock, ProcessDue, Tick, Select, Mail, TickEnd, TickAbort, Poll, PollRead, PollApply, PollFail

\* What a commit puts into its outbox is used up by it, and was sent by nobody before.
LEMMA CommitSends ==
  ASSUME EveryCronRecurs, TInv, Claims, Sent, NEW i \in Instances, Commit(i), NEW m \in sched[i].claimed,
         NEW f, f = Firing(m)
  PROVE  Used(f)' /\ f \notin mailed /\ \A j \in Instances : f \notin sched[j].outbox
<1>t. /\ reminders \in [Ids -> Row] /\ sched \in [Instances -> Sched]
      /\ \A x \in Ids : Recurs(reminders[x])
  BY TypeOKAs DEF TInv, Past
<1> DEFINE old == reminders[m]
           row == FiredRow(old, sched[i].at)
<1>1. m \in Ids /\ There(m) /\ old.active /\ old \in Row /\ Recurs(old)
  BY <1>t DEF Sched, Claims, Claiming, Commit, DueAt
<1>0. f[1] = m /\ f[2] = old.arms /\ f[3] = old.next
  BY DEF Firing
<1>2. ~ Used(f)
  BY <1>0, <1>1 DEF Used, Row, Instant, NoInstant
<1>3. reminders'[m] = row
  BY <1>1, <1>t DEF Commit
<1>4. /\ row.state = "stored" /\ row.arms = old.arms
      /\ old.type = "recurring" => row.next = NextOccurrence(old.next, old.cron)
      /\ old.type = "one_time" => ~ row.active
  BY <1>1 DEF FiredRow, Row, There
<1>5. row.active => old.next < row.next
  <2>1. CASE old.type = "recurring"
    BY <1>1, <1>4, <2>1, NextLater DEF EveryCronRecurs, Recurs, Row, Instant, NoInstant
  <2> QED BY <1>1, <1>4, <2>1 DEF Row
<1>6. Used(f)'
  <2> HIDE DEF row
  <2>1. f[2] <= row.arms
    BY <1>0, <1>1, <1>4 DEF Row
  <2>2. row.active => f[3] < row.next
    BY <1>0, <1>5
  <2> QED BY <1>0, <1>3, <1>4, <2>1, <2>2 DEF Used, There
<1> QED BY <1>2, <1>6 DEF Sent

\* Every step keeps what was sent used up, and sends nothing twice.
LEMMA StepSent ==
  ASSUME EveryCronRecurs, TInv, Claims, Sent, NoDoubleMail, [Next]_vars
  PROVE  Sent' /\ NoDoubleMail'
<1>t. mailed \in Firings /\ sched \in [Instances -> Sched]
  BY TypeOKAs DEF TInv
<1>u. \A f \in Ids \X Nat \X Instant : Used(f) => Used(f)'
  BY StaysUsed
<1>o. \A i \in Instances : sched[i].outbox \subseteq Ids \X Nat \X Instant
  BY <1>t DEF Sched, Firings
<1>m. mailed \subseteq Ids \X Nat \X Instant
  BY <1>t DEF Firings
<1>1. ASSUME NEW i \in Instances, Commit(i) PROVE Sent' /\ NoDoubleMail'
  <2>1. /\ \A j \in Instances \ {i} : sched'[j] = sched[j]
        /\ sched'[i].outbox = {Firing(m) : m \in sched[i].claimed}
        /\ mailed' = mailed
    BY <1>1, <1>t DEF Commit, Sched
  <2>2. \A f \in sched'[i].outbox : /\ Used(f)' /\ f \notin mailed
                                  /\ \A j \in Instances : f \notin sched[j].outbox
    <3> TAKE f \in sched'[i].outbox
    <3>1. PICK m \in sched[i].claimed : f = Firing(m)
      BY <2>1
    <3> QED BY <1>1, <3>1, CommitSends
  <2>3. Sent'
    BY <1>u, <1>o, <1>m, <2>1, <2>2 DEF Sent
  <2>4. NoDoubleMail'
    BY <2>1, <2>2 DEF NoDoubleMail
  <2> QED BY <2>3, <2>4
\* All the others move a firing from an outbox to the mailed ones at most.
<1>2. ASSUME \A j \in Instances : sched'[j].outbox \subseteq sched[j].outbox,
             mailed' = mailed \/ \E i \in Instances : \E f \in sched[i].outbox \ sched'[i].outbox :
                                  mailed' = mailed \cup {f}
      PROVE  Sent' /\ NoDoubleMail'
  <2>1. Sent'
    BY <1>2, <1>u, <1>o, <1>m DEF Sent
  <2>2. CASE mailed' = mailed
    BY <1>2, <2>1, <2>2 DEF NoDoubleMail
  <2>3. ASSUME NEW i \in Instances, NEW f \in sched[i].outbox \ sched'[i].outbox, mailed' = mailed \cup {f}
        PROVE  NoDoubleMail'
    <3>1. \A j \in Instances : f \notin sched'[j].outbox
      BY <1>2, <2>3 DEF NoDoubleMail
    <3> QED BY <1>2, <2>3, <3>1 DEF NoDoubleMail
  <2> QED BY <1>2, <2>1, <2>2, <2>3
<1>3. ASSUME NEW i \in Instances, Tick(i) \/ Select(i) \/ Mail(i) \/ TickEnd(i) \/ TickAbort(i)
      PROVE  Sent' /\ NoDoubleMail'
  <2>1. CASE Tick(i)
    BY <1>2, <1>t, <2>1 DEF Tick, Sched
  <2>2. CASE Select(i)
    BY <1>2, <1>t, <2>2 DEF Select, Sched
  <2>3. CASE Mail(i)
    <3>1. PICK f \in sched[i].outbox :
             /\ sched' = [sched EXCEPT ![i].outbox = @ \ {f}]
             /\ mailed' = mailed \cup {f} \/ mailed' = mailed
      BY <2>3 DEF Mail
    <3>2. sched'[i].outbox = sched[i].outbox \ {f} /\ \A j \in Instances \ {i} : sched'[j] = sched[j]
      BY <1>t, <3>1 DEF Sched
    <3> QED BY <1>2, <3>1, <3>2
  <2>4. CASE TickEnd(i)
    BY <1>2, <1>t, <2>4 DEF TickEnd, Sched
  <2>5. CASE TickAbort(i)
    BY <1>2, <1>t, <2>5 DEF TickAbort, SchedIdle
  <2> QED BY <1>3, <2>1, <2>2, <2>3, <2>4, <2>5
<1>4. CASE UNCHANGED <<sched, mailed>>
  BY <1>2, <1>4
<1> QED BY <1>1, <1>3, <1>4 DEF Next, vars, Clock, Create, CreateOneTime, CreateRecurring, Insert, Remove,
     Delete, DeleteNote, Update, UpdateRead, UpdateWrite, UpdateAbort, ProcessDue, Poll, PollRead, PollApply, PollFail

\* If every cron has occurrences, no firing is mailed twice (ProcessDue, services/reminders.go:128-150),
\* by any number of instances and through any updates, deletes, failures and crashes.
THEOREM NoFiringMailedTwice == ASSUME EveryCronRecurs PROVE Spec => []NoDoubleMail
<1> DEFINE Inv == TInv /\ Claims /\ Sent /\ NoDoubleMail
<1>1. Init => Inv
  BY InitTypes, InitClaims, InitSent DEF Init, NoDoubleMail, SchedIdle
<1>2. Inv /\ [Next]_vars => Inv'
  BY StepTypes, StepClaims, StepSent
<1> QED BY <1>1, <1>2, PTL DEF Spec

-----------------------------------------------------------------------------
(* The fire time and its cron *)

OneUpdateAtATime == \A r, s \in Requests : r = s

\* What an update under way is about to write: a new cron with an occurrence of it, or
\* the cron the row still has.
Pairs ==
  \A r \in Requests : req[r].pc = "write" =>
    LET u == req[r] IN
      /\ u.id \in Ids /\ reminders[u.id].state # "unused"
      /\ IF u.next = Nil THEN There(u.id) => u.cron = reminders[u.id].cron
                        ELSE u.cron \in Crons /\ IsOccurrence(u.next, u.cron)

\* A recurring row that is there carries an occurrence of its cron.
Due(row) == row.state = "stored" /\ row.type = "recurring" => IsOccurrence(row.next, row.cron)
Occurs == \A m \in Ids : Due(reminders[m])

LEMMA InitOccurs == Init => Pairs /\ Occurs
  BY DEF Init, Pairs, Occurs, Due, ReqIdle, NoRow

\* Every step keeps both.
LEMMA StepOccurs ==
  ASSUME OneUpdateAtATime, TInv, Pairs, Occurs, [Next]_vars
  PROVE  Pairs' /\ Occurs'
<1>t. /\ now \in Nat /\ reminders \in [Ids -> Row] /\ req \in [Requests -> Req]
      /\ \A m \in Ids : Recurs(reminders[m])
  BY TypeOKAs DEF TInv, Past
\* A step that leaves the updates alone and the crons of the rows that are there.
<1>k. ASSUME UNCHANGED req,
             \A m \in Ids : \/ reminders'[m] = reminders[m]
                           \/ /\ reminders[m].state = "unused" /\ Due(reminders'[m])
                              /\ reminders'[m].state = "stored"
                           \/ reminders'[m].state = "deleted"
                           \/ /\ reminders'[m].state = reminders[m].state
                              /\ reminders'[m].cron = reminders[m].cron /\ Due(reminders'[m])
      PROVE  Pairs' /\ Occurs'
  <2>1. Occurs'
    BY <1>k DEF Occurs, Due
  <2>2. ASSUME NEW m \in Ids, reminders[m].state # "unused"
        PROVE  /\ reminders'[m].state # "unused"
               /\ reminders'[m].state = "stored" =>
                    reminders[m].state = "stored" /\ reminders'[m].cron = reminders[m].cron
    BY <1>k, <2>2
  <2>3. Pairs'
    BY <1>k, <2>2 DEF Pairs, There
  <2> QED BY <2>1, <2>3
<1>1. ASSUME Create PROVE Pairs' /\ Occurs'
  <2>1. ASSUME NEW m \in Ids, NEW row, Insert(m, row),
               LET new == [row EXCEPT !.state = "stored", !.active = TRUE, !.arms = 1]
               IN  Due(new) /\ new.state = "stored"
        PROVE  Pairs' /\ Occurs'
    BY <1>t, <1>k, <2>1 DEF Insert, There
  <2>2. ASSUME NEW m \in Ids, NEW n \in Notes, NEW t \in 0..MaxTime, CreateOneTime(m, n, t)
        PROVE  Pairs' /\ Occurs'
    BY <2>1, <2>2 DEF CreateOneTime, NoRow, Due
  <2>3. ASSUME NEW m \in Ids, NEW n \in Notes, NEW c \in Crons, CreateRecurring(m, n, c)
        PROVE  Pairs' /\ Occurs'
    <3>1. IsOccurrence(NextOccurrence(now, c), c)
      BY <1>t, NextLater DEF Instant
    <3> QED BY <2>1, <2>3, <3>1 DEF CreateRecurring, NoRow, Due
  <2> QED BY <1>1, <2>2, <2>3 DEF Create
<1>2. ASSUME Remove PROVE Pairs' /\ Occurs'
  BY <1>2, <1>t, <1>k DEF Remove, Delete, DeleteNote, GoneRow, NoRow
<1>3. ASSUME NEW i \in Instances, Commit(i) PROVE Pairs' /\ Occurs'
  <2>1. ASSUME NEW m \in Ids
        PROVE  LET row == FiredRow(reminders[m], sched[i].at)
               IN  row.state = reminders[m].state /\ row.cron = reminders[m].cron /\ Due(row)
    <3> DEFINE old == reminders[m]
               row == FiredRow(old, sched[i].at)
    <3>1. old \in Row /\ Recurs(old) /\ Due(old)
      BY <1>t DEF Occurs
    <3>2. /\ row.state = old.state /\ row.cron = old.cron /\ row.type = old.type
          /\ row.next = IF old.type = "recurring" THEN NextOccurrence(old.next, old.cron) ELSE old.next
      BY <3>1 DEF FiredRow, Row
    <3>3. old.type = "recurring" => IsOccurrence(NextOccurrence(old.next, old.cron), old.cron)
      BY <3>1, NextLater DEF Recurs, Row
    <3> QED BY <3>2, <3>3 DEF Due
  <2> QED BY <1>3, <1>k, <2>1 DEF Commit
<1>4. ASSUME NEW r \in Requests, Update(r) PROVE Pairs' /\ Occurs'
  <2>0. Requests = {r}
    BY DEF OneUpdateAtATime
  <2>1. ASSUME NEW m \in Ids, NEW c \in Crons \cup {Nil}, NEW on \in BOOLEAN \cup {Nil}, UpdateRead(r, m, c, on)
        PROVE  Pairs' /\ Occurs'
    <3>1. /\ req'[r].id = m /\ There(m) /\ UNCHANGED reminders
          /\ req'[r].cron = IF c # Nil THEN c ELSE reminders[m].cron
          /\ req'[r].next = IF c # Nil THEN NextOccurrence(now, c) ELSE Nil
      BY <1>t, <2>1 DEF UpdateRead
    <3>2. c # Nil => NextOccurrence(now, c) # Nil /\ IsOccurrence(NextOccurrence(now, c), c)
      BY <1>t, NextLater, ReminderNilAssumption DEF Instant, NoInstant
    <3>3. Pairs'
      BY <2>0, <3>1, <3>2 DEF Pairs, There
    <3>4. Occurs'
      BY <3>1 DEF Occurs
    <3> QED BY <3>3, <3>4
  <2>2. CASE UpdateWrite(r)
    <3>1. req'[r] = ReqIdle
      BY <1>t, <2>2 DEF UpdateWrite
    <3>2. Pairs'
      BY <2>0, <3>1 DEF Pairs, ReqIdle
    <3>3. CASE UNCHANGED reminders
      BY <3>2, <3>3 DEF Occurs
    <3>4. CASE ~ UNCHANGED reminders
      <4> DEFINE u == req[r]
                 m == u.id
                 old == reminders[m]
                 n == IF Rearms(u) THEN old.arms + 1 ELSE old.arms
                 row == [UpdatedRow(old, u) EXCEPT !.arms = n]
      <4>1. reminders' = [reminders EXCEPT ![m] = row] /\ There(m)
        BY <2>2, <3>4 DEF UpdateWrite, UpdatedRow
      <4>2. /\ m \in Ids
            /\ IF u.next = Nil THEN u.cron = old.cron ELSE u.cron \in Crons /\ IsOccurrence(u.next, u.cron)
        BY <2>2, <4>1 DEF UpdateWrite, Pairs
      <4>3. /\ row.next = Coalesce(u.next, old.next) /\ row.cron = Coalesce(u.cron, old.cron)
            /\ row.type = old.type /\ row.state = old.state
        BY <1>t, <4>2 DEF UpdatedRow, Row
      <4>4. Due(old)
        BY <4>2 DEF Occurs
      <4>5. Due(row)
        BY <4>2, <4>3, <4>4, ReminderNilAssumption DEF Coalesce, Due
      <4> HIDE DEF row
      <4> QED BY <1>t, <3>2, <4>1, <4>2, <4>5 DEF Occurs
    <3> QED BY <3>3, <3>4
  <2>3. CASE UpdateAbort(r)
    <3>1. req'[r] = ReqIdle /\ UNCHANGED reminders
      BY <1>t, <2>3 DEF UpdateAbort
    <3> QED BY <2>0, <3>1 DEF Pairs, Occurs, ReqIdle
  <2> QED BY <1>4, <2>1, <2>2, <2>3 DEF Update
<1>5. CASE UNCHANGED <<req, reminders>>
  BY <1>5, <1>k
<1> QED BY <1>1, <1>2, <1>3, <1>4, <1>5
    DEF Next, vars, Clock, ProcessDue, Tick, Select, Mail, TickEnd, TickAbort, Poll, PollRead, PollApply, PollFail

\* With one update at a time, the fire time of a recurring reminder is an occurrence of the
\* cron beside it (Update, services/reminders.go:95-122), however claims and deletes fall.
THEOREM FireTimeFitsCron == ASSUME OneUpdateAtATime PROVE Spec => []NextIsOccurrence
<1> DEFINE Inv == TInv /\ Pairs /\ Occurs
<1>1. Init => Inv
  BY InitTypes, InitOccurs
<1>2. Inv /\ [Next]_vars => Inv'
  BY StepTypes, StepOccurs
<1>3. Inv => NextIsOccurrence
  BY DEF Occurs, Due, There, NextIsOccurrence
<1> QED BY <1>1, <1>2, <1>3, PTL DEF Spec

=============================================================================
