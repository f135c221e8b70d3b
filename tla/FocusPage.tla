------------------------------ MODULE FocusPage ------------------------------
(***************************************************************************)
(* The focus page of the app: its timer store (zustand), the query that    *)
(* caches GET /focus/active, the mutations it sends and the effects that   *)
(* complete a pomodoro at zero, tick, send heartbeats and pause on         *)
(* pagehide; beside the server's sessions, which another tab and the       *)
(* scheduler change too.                                                   *)
(*                                                                         *)
(* A request is served and answered in two steps; answers arrive in any    *)
(* order.  The callbacks given to mutate() run only for the latest call of *)
(* a mutation, while the page is mounted; the callbacks of the hook always *)
(* run.  One task stands for all tasks.                                    *)
(***************************************************************************)
EXTENDS Integers, FiniteSets, FiniteSetsExt

CONSTANTS
  MaxSid,     \* bound: sessions the server may create
  MaxTime,    \* bound: the last second of the clock
  MaxActs,    \* bound: clicks, navigations, lost requests and acts of others
  Slots,      \* bound: requests in flight
  Planned,    \* planned seconds of a pomodoro
  Disturbed   \* whether requests get lost and other tabs and the scheduler act

ASSUME BoundsAssumption ==
  {MaxSid, MaxTime, MaxActs, Planned} \subseteq Nat /\ Disturbed \in BOOLEAN

VARIABLES
  now,       \* the clock, shared by browser and server
  row,       \* the server's sessions
  recorded,  \* rows of history each session left
  wire,      \* the requests in flight
  cache,     \* the query ["focus", "active"]
  store,     \* useFocusStore
  page,      \* the local state of a mounted FocusPage
  acts       \* how much of MaxActs is used

vars == <<now, row, recorded, wire, cache, store, page, acts>>
server == <<row, recorded>>

NoSid == 0
NoInstant == -1
Sids == 1..MaxSid
Open == {"running", "paused"}

\* ActiveFocusSession. "timed" is planned_duration_seconds # null.
None == [sid |-> NoSid, status |-> "absent", kind |-> "work", timed |-> FALSE,
         elapsed |-> 0, segment |-> NoInstant]
Kinds == {"work", "short_break", "long_break"}
Sessions ==
  [sid : Sids \cup {NoSid}, status : Open \cup {"absent", "completed", "discarded"},
   kind : Kinds, timed : BOOLEAN, elapsed : 0..MaxTime, segment : NoInstant..MaxTime]

Elapsed(s) == IF s.segment = NoInstant THEN s.elapsed ELSE s.elapsed + (now - s.segment)

Paused(s) == [s EXCEPT !.status = "paused", !.elapsed = Elapsed(s), !.segment = NoInstant]
Resumed(s) == [s EXCEPT !.status = "running", !.segment = now]
Ended(s, status) == [s EXCEPT !.status = status, !.elapsed = Elapsed(s), !.segment = NoInstant]

-----------------------------------------------------------------------------
(* The wire *)

Mutations == {"start", "pause", "resume", "complete", "discard"}
Free ==
  [op |-> "none", session |-> None, by |-> "user", stage |-> "sent", code |-> "ok",
   quiet |-> FALSE]

\* by "effect": sent by the page, not by a button.  quiet: nobody reads the answer.
Request(op, s, by) == [Free EXCEPT !.op = op, !.session = s, !.by = by]

FreeSlots(w) == {i \in Slots : w[i] = Free}
Put(w, r) == [w EXCEPT ![Min(FreeSlots(w))] = r]

FreshCache == [known |-> FALSE, data |-> None, stale |-> FALSE, failed |-> FALSE, get |-> 0]

\* A refetch drops the fetch that is under way, unless there is no data yet.
DropsFetch(c) == c.get # 0 /\ c.known
FetchWire(w, c) ==
  IF c.get # 0 /\ ~ c.known THEN w
  ELSE Put(IF DropsFetch(c) THEN [w EXCEPT ![c.get] = Free] ELSE w, Request("get", None, "effect"))
FetchSlot(w, c) ==
  IF c.get # 0 /\ ~ c.known THEN c.get
  ELSE IF DropsFetch(c) THEN Min(FreeSlots([w EXCEPT ![c.get] = Free]))
  ELSE Min(FreeSlots(w))

Refetch(w, c) == wire' = FetchWire(w, c) /\ cache' = [c EXCEPT !.get = FetchSlot(w, c)]

\* invalidateQueries: a query nobody observes is only marked.
Invalidate(w, c) ==
  IF page.mounted THEN Refetch(w, c) ELSE wire' = w /\ cache' = [c EXCEPT !.stale = TRUE]

-----------------------------------------------------------------------------
(* useFocusStore *)

FreshStore == [copy |-> None, shown |-> 0, mode |-> "pomodoro", selected |-> FALSE,
               preselected |-> FALSE]

Hydrate(st, s) ==
  [st EXCEPT !.copy = s, !.shown = s.elapsed,
             !.selected = @ \/ (s # None /\ s.kind = "work")]
ApplySession(st, s) ==
  [Hydrate(st, s) EXCEPT !.preselected = @ /\ s.kind # "work"]
ClearSession(st) == [st EXCEPT !.copy = None, !.shown = 0]
ClearPreselected(st) == [st EXCEPT !.preselected = FALSE]

PauseLocal(st) ==
  IF st.copy.status # "running" \/ st.copy.segment = NoInstant THEN st
  ELSE [st EXCEPT !.copy = [st.copy EXCEPT !.status = "paused", !.elapsed = st.shown,
                                           !.segment = NoInstant]]
ResumeLocal(st) ==
  IF st.copy.status # "paused" THEN st
  ELSE [st EXCEPT !.copy = [st.copy EXCEPT !.status = "running", !.segment = now]]

-----------------------------------------------------------------------------
(* FocusPage *)

FreshPage == [mounted |-> TRUE, pending |-> "none", completing |-> FALSE, error |-> "none",
              invalid |-> FALSE, latest |-> [op \in Mutations |-> 0]]
Unmounted == [FreshPage EXCEPT !.mounted = FALSE]

Active == store.copy.status \in Open
Running == store.copy.status = "running"

\* deriveFocusState
FocusState ==
  CASE page.pending # "none" -> page.pending
    [] page.pending = "none" /\ ~ Active -> "idle"
    [] page.pending = "none" /\ Active /\ store.copy.kind = "work" ->
         IF Running THEN "running_work" ELSE "paused_work"
    [] page.pending = "none" /\ Active /\ store.copy.kind # "work" ->
         IF Running THEN "running_break" ELSE "paused_break"

\* The buttons under the timer; Stop is disabled while a step is pending.
Buttons ==
  {b \in {"pause", "resume", "stop", "discard", "start", "short_break", "long_break"} :
     CASE b = "pause" -> Active /\ Running
       [] b = "resume" -> Active /\ ~ Running
       [] b = "stop" -> /\ Active /\ store.copy.kind = "work" /\ ~ store.copy.timed
                        /\ page.pending = "none"
       [] b = "discard" -> Active
       [] b = "start" -> ~ Active
       [] b \in {"short_break", "long_break"} -> ~ Active /\ store.mode = "pomodoro"}

\* The seconds left are zero on a pomodoro of work that runs.
AtZero ==
  /\ page.mounted
  /\ FocusState = "running_work"
  /\ store.copy.timed
  /\ store.shown >= Planned

\* mutate(): the request goes out and its callbacks replace those of the call before.
Mutate(pg, op, s, by) ==
  /\ FreeSlots(wire) # {}
  /\ wire' = Put(wire, Request(op, s, by))
  /\ page' = [pg EXCEPT !.latest[op] = Min(FreeSlots(wire))]

\* What the user, the network, another tab or the scheduler may do, or not.
Acts == acts < MaxActs /\ acts' = acts + 1

OnPage == page.mounted /\ UNCHANGED <<now, server>>
UserActs == OnPage /\ Acts
Disturbs == Disturbed /\ Acts

OnStart ==
  /\ UserActs
  /\ "start" \in Buttons
  /\ \/ /\ ~ store.selected
        /\ page' = [page EXCEPT !.error = "no task"]
        /\ UNCHANGED wire
     \/ /\ store.selected
        /\ store.mode = "pomodoro" /\ page.invalid
        /\ page' = [page EXCEPT !.error = "durations"]
        /\ UNCHANGED wire
     \/ /\ store.selected
        /\ store.mode = "pomodoro" => ~ page.invalid
        /\ Mutate([page EXCEPT !.error = "none"], "start",
                  [None EXCEPT !.timed = (store.mode = "pomodoro")], "user")
  /\ UNCHANGED <<cache, store>>

OnBreak(kind) ==
  /\ UserActs
  /\ kind \in Buttons
  /\ Mutate([page EXCEPT !.error = "none"], "start",
            [None EXCEPT !.kind = kind, !.timed = TRUE], "user")
  /\ UNCHANGED <<cache, store>>

OnPause ==
  /\ UserActs
  /\ "pause" \in Buttons
  /\ store' = PauseLocal(store)
  /\ Mutate(page, "pause", store.copy, "user")
  /\ UNCHANGED cache

OnResume ==
  /\ UserActs
  /\ "resume" \in Buttons
  /\ store' = ResumeLocal(store)
  /\ Mutate(page, "resume", store.copy, "user")
  /\ UNCHANGED cache

OnStop ==
  /\ UserActs
  /\ "stop" \in Buttons
  /\ Mutate(page, "complete", store.copy, "user")
  /\ UNCHANGED <<cache, store>>

OnDiscard ==
  /\ UserActs
  /\ "discard" \in Buttons
  /\ Mutate(page, "discard", store.copy, "user")
  /\ UNCHANGED <<cache, store>>

\* The effect that completes a pomodoro at zero.
AutoComplete ==
  /\ OnPage /\ UNCHANGED acts
  /\ AtZero
  /\ ~ page.completing
  /\ Mutate([page EXCEPT !.completing = TRUE, !.pending = "completing"],
            "complete", store.copy, "effect")
  /\ UNCHANGED <<cache, store>>

\* The mode buttons, the task picker and the duration fields.  A field that reads less
\* than a minute, or nothing, leaves the duration and records an error.
Configures == UserActs /\ ~ Active /\ UNCHANGED <<wire, cache>>

SetTimerMode(m) ==
  /\ Configures
  /\ store' = [store EXCEPT !.mode = m]
  /\ UNCHANGED page

PickTask ==
  /\ Configures
  /\ store' = [store EXCEPT !.selected = TRUE]
  /\ UNCHANGED page

SetDuration(valid) ==
  /\ Configures
  /\ store.mode = "pomodoro"
  /\ page' = [page EXCEPT !.invalid = ~ valid]
  /\ UNCHANGED store

\* The interval of one second.
TickTimer ==
  /\ OnPage /\ UNCHANGED acts
  /\ Running
  /\ store' = [store EXCEPT !.shown = Elapsed(store.copy)]
  /\ UNCHANGED <<wire, cache, page>>

\* Another route, and back: with a task when a "focus" link of it was followed.
Leave ==
  /\ UserActs
  /\ page' = Unmounted
  /\ UNCHANGED <<wire, cache, store>>

Return(linked) ==
  /\ ~ page.mounted
  /\ Acts
  /\ page' = FreshPage
  /\ LET st == IF linked THEN [store EXCEPT !.selected = TRUE, !.preselected = TRUE] ELSE store
     IN  store' = IF cache.known /\ ~ cache.failed THEN Hydrate(st, cache.data) ELSE st
  /\ \/ /\ cache.known /\ ~ cache.stale
        /\ UNCHANGED <<wire, cache>>
     \/ /\ cache.get = 0          \* stale by age or by invalidation
        /\ FreeSlots(wire) # {}
        /\ Refetch(wire, cache)
     \/ /\ cache.get # 0
        /\ UNCHANGED <<wire, cache>>
  /\ UNCHANGED <<now, server>>

\* pagehide sends the pause by sendBeacon; what is in flight is served, not answered.
Reload ==
  /\ UserActs
  /\ page' = FreshPage
  /\ store' = FreshStore
  /\ LET sent == [i \in Slots |->
                    IF wire[i].stage = "sent" /\ wire[i].op \in Mutations
                      THEN [wire[i] EXCEPT !.quiet = TRUE] ELSE Free]
         left == IF Running THEN Put(sent, [Request("pause", store.copy, "effect") EXCEPT !.quiet = TRUE])
                            ELSE sent
     IN  /\ Cardinality(FreeSlots(sent)) >= 2
         /\ Refetch(left, FreshCache)

-----------------------------------------------------------------------------
(* Answers.  Latest: the callbacks of mutate() still run. *)

Latest(i) == page.mounted /\ page.latest[wire[i].op] = i
Received(i) == [wire EXCEPT ![i] = Free]
Settled(i) == [page EXCEPT !.latest[wire[i].op] = IF @ = i THEN 0 ELSE @]

Answered(i, ops, code) ==
  /\ wire[i].stage = "answered" /\ wire[i].op \in ops /\ ~ wire[i].quiet
  /\ (wire[i].code = "ok") = (code = "ok")
  /\ UNCHANGED <<now, server, acts>>

\* setQueryData(active, s).  hydrate() runs when the data is another, or isSuccess is new.
Known(c, s) == [c EXCEPT !.known = TRUE, !.data = s, !.stale = FALSE, !.failed = FALSE]
ShownOnce(st, s) == IF page.mounted /\ ~ cache.known THEN Hydrate(st, s) ELSE st
Shown(st, s) == IF page.mounted THEN Hydrate(st, s) ELSE st

GetAnswered(i) ==
  LET s == wire[i].session
      c == [cache EXCEPT !.get = 0]
  IN  /\ Answered(i, {"get"}, "ok")
      /\ wire' = Received(i)
      /\ \/ /\ cache.get # i
            /\ UNCHANGED <<cache, store>>
         \/ /\ cache.get = i
            /\ cache' = Known(c, s)
            /\ \/ (~ cache.known \/ cache.failed \/ cache.data # s) /\ store' = Shown(store, s)
               \* heartbeat_at may be all that changed
               \/ cache.known /\ cache.data = s /\ s.status = "running" /\ store' = Shown(store, s)
               \/ cache.known /\ ~ cache.failed /\ cache.data = s /\ UNCHANGED store
      /\ UNCHANGED page

\* The retries of the query are used up: it keeps what it had, marked stale.
GetFailed(i) ==
  /\ Answered(i, {"get"}, "failed")
  /\ wire' = Received(i)
  /\ cache' = IF cache.get = i THEN [cache EXCEPT !.get = 0, !.stale = TRUE, !.failed = TRUE]
                               ELSE cache
  /\ UNCHANGED <<store, page>>

\* Start, pause, resume: the answer's session goes to the cache and the store.
StartOk(i) ==
  /\ Answered(i, {"start"}, "ok")
  /\ wire' = Received(i)
  /\ cache' = Known(cache, wire[i].session)
  /\ store' = IF Latest(i) THEN ApplySession(store, wire[i].session)
                           ELSE Shown(store, wire[i].session)
  /\ page' = IF Latest(i) /\ (wire[i].session.kind = "work" \/ wire[i].by = "effect")
               THEN [Settled(i) EXCEPT !.pending = "none"] ELSE Settled(i)

ResumeOrPauseOk(i) ==
  /\ Answered(i, {"pause", "resume"}, "ok")
  /\ wire' = Received(i)
  /\ cache' = Known(cache, wire[i].session)
  /\ store' = IF Latest(i) THEN ApplySession(store, wire[i].session)
                           ELSE Shown(store, wire[i].session)
  /\ page' = Settled(i)

DiscardOk(i) ==
  /\ Answered(i, {"discard"}, "ok")
  /\ wire' = Received(i)
  /\ cache' = Known(cache, wire[i].session)
  /\ store' = IF Latest(i) THEN ClearSession(ClearPreselected(store))
                           ELSE Shown(store, wire[i].session)
  /\ page' = Settled(i)

\* Stop: the session is cleared, and every focus query is invalidated.
StopOk(i) ==
  /\ Answered(i, {"complete"}, "ok")
  /\ wire[i].by = "user" \/ ~ Latest(i)
  /\ Invalidate(Received(i), Known(cache, wire[i].session))
  /\ store' = IF Latest(i) THEN ClearSession(ClearPreselected(store))
                           ELSE Shown(store, wire[i].session)
  /\ page' = Settled(i)

\* The pomodoro is completed: the short break starts.
AutoCompleteOk(i) ==
  LET w == FetchWire(Received(i), Known(cache, wire[i].session))
      c == [Known(cache, wire[i].session) EXCEPT !.get = FetchSlot(Received(i), Known(cache, wire[i].session))]
  IN  /\ Answered(i, {"complete"}, "ok")
      /\ wire[i].by = "effect" /\ Latest(i)
      /\ FreeSlots(w) # {}
      /\ wire' = Put(w, Request("start", [None EXCEPT !.kind = "short_break", !.timed = TRUE], "effect"))
      /\ cache' = c
      /\ store' = ClearPreselected(Shown(store, wire[i].session))
      /\ page' = [Settled(i) EXCEPT !.pending = "transitioning", !.completing = FALSE,
                                    !.error = "none", !.latest["start"] = Min(FreeSlots(w))]

\* A failure nobody listens to any more.
FailedUnheard(i) ==
  /\ Answered(i, Mutations, "failed")
  /\ ~ Latest(i)
  /\ wire' = Received(i)
  /\ UNCHANGED <<cache, store, page>>

\* Only the Start button looks at the status of the failure.
Exists(i) == wire[i].session.kind = "work" /\ wire[i].code = "conflict"

StartFailed(i) ==
  /\ Answered(i, {"start"}, "failed")
  /\ Latest(i)
  /\ IF Exists(i) THEN Refetch(Received(i), cache)
                  ELSE wire' = Received(i) /\ UNCHANGED cache
  /\ page' = [Settled(i) EXCEPT !.error = IF Exists(i) THEN "exists" ELSE "failed",
                                !.pending = IF wire[i].by = "effect" THEN "none" ELSE @]
  /\ UNCHANGED store

\* Pause, resume, stop and discard ask for the server's session again.
ActionFailed(i) ==
  /\ Answered(i, {"pause", "resume", "discard", "complete"}, "failed")
  /\ wire[i].by = "user" /\ Latest(i)
  /\ Refetch(Received(i), cache)
  /\ page' = [Settled(i) EXCEPT !.error =
                IF wire[i].op \in {"discard", "complete"} THEN "failed" ELSE @]
  /\ UNCHANGED store

AutoCompleteFailedBusy(i) ==
  /\ Answered(i, {"complete"}, "failed")
  /\ wire[i].by = "effect" /\ Latest(i)
  /\ wire' = Received(i)
  /\ page' = [Settled(i) EXCEPT !.error = "failed", !.pending = "none"]
  /\ UNCHANGED <<cache, store>>
AutoCompleteFailedBreak(i) ==
  /\ Answered(i, {"complete"}, "failed")
  /\ wire[i].by = "effect" /\ Latest(i)
  /\ wire' = [wire EXCEPT ![i] =
       Request("start", [None EXCEPT !.kind = "short_break", !.timed = TRUE], "effect")]
  /\ page' = [Settled(i) EXCEPT !.error = "failed", !.pending = "none", !.completing = FALSE]
  /\ UNCHANGED <<cache, store>>
AutoCompleteFailed(i) ==
  /\ Answered(i, {"complete"}, "failed")
  /\ wire[i].by = "effect" /\ Latest(i)
  /\ wire' = Received(i)
  /\ page' = [Settled(i) EXCEPT !.error = "failed", !.pending = "none", !.completing = FALSE]
  /\ UNCHANGED <<cache, store>>

Receive(i) ==
  \/ GetAnswered(i) \/ GetFailed(i) \/ StartOk(i) \/ ResumeOrPauseOk(i) \/ DiscardOk(i) \/ StopOk(i)
  \/ AutoCompleteOk(i) \/ FailedUnheard(i) \/ StartFailed(i) \/ ActionFailed(i)
  \/ AutoCompleteFailed(i)

-----------------------------------------------------------------------------
(* The server *)

Unused == {s \in Sids : row[s] = None}
OpenSids == {s \in Sids : row[s].status \in Open}
Current == IF OpenSids = {} THEN None ELSE row[Min(OpenSids)]

Create(s, asked) ==
  row' = [row EXCEPT ![s] = [asked EXCEPT !.sid = s, !.status = "running", !.segment = now]]

ServeStartUnchecked(asked) ==
  IF Unused # {} THEN Create(Min(Unused), asked) ELSE UNCHANGED row
ServeStart(asked) ==
  IF OpenSids = {} /\ Unused # {} THEN Create(Min(Unused), asked) ELSE UNCHANGED row

Change(s, statuses, new) ==
  row' = IF row[s].status \in statuses THEN [row EXCEPT ![s] = new] ELSE row

RecordsWork(s) == row[s].status \in Open /\ row[s].kind = "work"

Effect(r) ==
  LET s == r.session.sid
  IN  /\ \/ r.op = "get" /\ UNCHANGED row
         \/ r.op = "start" /\ ServeStart(r.session)
         \/ r.op = "pause" /\ Change(s, {"running"}, Paused(row[s]))
         \/ r.op = "resume" /\ Change(s, {"paused"}, Resumed(row[s]))
         \/ r.op = "complete" /\ Change(s, Open, Ended(row[s], "completed"))
         \/ r.op = "discard" /\ Change(s, Open, Ended(row[s], "discarded"))
      /\ recorded' = IF r.op = "complete" /\ RecordsWork(s)
                       THEN [recorded EXCEPT ![s] = @ + 1] ELSE recorded

\* Pause and discard of a session that is not open answer with it as it is.
Code(r) ==
  CASE r.op = "start" /\ OpenSids # {} -> "conflict"
    [] r.op = "start" /\ OpenSids = {} /\ Unused = {} -> "error"
    [] r.op = "resume" /\ row[r.session.sid].status # "paused" -> "conflict"
    [] r.op = "complete" /\ row[r.session.sid].status \notin Open -> "conflict"
    [] OTHER -> "ok"

\* The session in the body of the answer, once the effect is there.
Body(r) ==
  IF r.op = "get" THEN Current
  ELSE IF r.op = "start" THEN row'[Min(Unused)]
  ELSE row'[r.session.sid]

Serve(i) ==
  LET r == wire[i]
  IN  /\ r.op # "none" /\ r.stage = "sent"
      /\ Effect(r)
      /\ wire' = [wire EXCEPT ![i] =
           IF r.quiet THEN Free
           ELSE [r EXCEPT !.stage = "answered", !.code = Code(r),
                          !.session = IF Code(r) = "ok" THEN Body(r) ELSE @]]
      /\ UNCHANGED <<now, cache, store, page, acts>>

\* A request that does not get there, or whose answer does not get back; of a GET, with
\* every retry of the query.
Lose(i) ==
  LET r == wire[i]
  IN  /\ r.op # "none" /\ r.code = "ok"
      /\ Disturbs
      /\ wire' = [wire EXCEPT ![i] =
           IF r.quiet THEN Free
           ELSE [r EXCEPT !.stage = "answered", !.code = "error"]]
      /\ UNCHANGED <<now, server, cache, store, page>>

\* The page sends heartbeats for the session it shows running.
Beating(s) == page.mounted /\ Running /\ store.copy.sid = s

\* AutoExpireStale: a running session without heartbeats, a paused one left alone.
Expire(s) ==
  /\ \/ ~ Beating(s) /\ Change(s, {"running"}, Paused(row[s]))
     \/ Change(s, {"paused"}, Ended(row[s], "discarded"))
  /\ Disturbs
  /\ UNCHANGED <<now, recorded, wire, cache, store, page>>

OtherTab ==
  /\ Disturbs
  /\ \E r \in {Request("start", None, "user")}
              \cup {Request(op, row[s], "user") : op \in {"pause", "resume", "complete", "discard"},
                                                  s \in OpenSids} :
       Code(r) = "ok" /\ Effect(r)
  /\ UNCHANGED <<now, wire, cache, store, page>>

Clock ==
  /\ now < MaxTime
  /\ now' = now + 1
  /\ UNCHANGED <<server, wire, cache, store, page, acts>>

-----------------------------------------------------------------------------
Init ==
  /\ now = 0
  /\ row = [s \in Sids |-> None]
  /\ recorded = [s \in Sids |-> 0]
  /\ wire = [i \in Slots |-> IF i = Min(Slots) THEN Request("get", None, "effect") ELSE Free]
  /\ cache = [FreshCache EXCEPT !.get = Min(Slots)]
  /\ \E linked \in BOOLEAN :
       store = [FreshStore EXCEPT !.selected = linked, !.preselected = linked]
  /\ page = FreshPage
  /\ acts = 0

Next ==
  \/ OnStart \/ OnPause \/ OnResume \/ OnStop \/ OnDiscard \/ PickTask
  \/ \E m \in {"pomodoro", "stopwatch"} : SetTimerMode(m)
  \/ \E valid \in BOOLEAN : SetDuration(valid)
  \/ \E kind \in Kinds \ {"work"} : OnBreak(kind)
  \/ AutoComplete \/ TickTimer \/ Leave \/ Reload
  \/ \E linked \in BOOLEAN : Return(linked)
  \/ \E i \in Slots : Receive(i) \/ Serve(i) \/ Lose(i)
  \/ \E s \in Sids : Expire(s)
  \/ OtherTab \/ Clock

\* Timers fire, effects run, and what is in flight is served and answered.
Fairness ==
  /\ WF_vars(AutoComplete) /\ WF_vars(TickTimer) /\ WF_vars(Clock)
  /\ \A i \in Slots : WF_vars(Serve(i)) /\ WF_vars(Receive(i))

Spec == Init /\ [][Next]_vars
FairSpec == Spec /\ Fairness

-----------------------------------------------------------------------------
(* Properties *)

\* The server's side of this module is the life cycle that the backend's tables
\* implement too: no page, late answer or other tab takes a session off it.
Lifecycle == INSTANCE FocusLifecycle WITH
  Users <- {"user"}, Nil <- "nil",
  owner <- [s \in Sids |-> IF row[s] = None THEN "nil" ELSE "user"],
  phase <- [s \in Sids |-> row[s].status]
FollowsLifecycle == Lifecycle!Spec

\* The break the page starts by itself follows a pomodoro that is in the history: a
\* completion that failed starts none (the callback is onSuccess, FocusPage.tsx:119).
BreakFollowsRecord ==
  [][\A i \in Slots :
       (wire'[i].op = "start" /\ wire'[i].by = "effect" /\ wire[i] # wire'[i])
         => \E s \in Sids : recorded[s] > 0]_vars

\* At zero a pomodoro ends on the server, whatever single request is lost, as long
\* as the page stays open (the effect of FocusPage.tsx:111-131 tries again).
PlannedEndCompletes ==
  \A s \in Sids :
    (AtZero /\ store.copy.sid = s)
      ~> \/ row[s].status \notin Open
         \/ ~ page.mounted \/ store.copy.sid # s \/ ~ Running
         \/ store.shown < Planned   \* an answer that says less time has passed

\* A start of work refused because another tab has a session ends with that session on the
\* page, or with the session ended, if the fetch the refusal asks for (FocusPage.tsx:212-215)
\* is served after it and does not fail, its retries used up. (While the first load is out,
\* refetch() joins it: one served before the other tab started shows no session.)
ConflictSurfaces ==
  \A s \in Sids :
    (/\ page.mounted /\ page.error = "exists" /\ ~ Active /\ row[s].status \in Open
     /\ cache.get # 0 /\ wire[cache.get].stage = "sent")
      ~> \/ ~ page.mounted \/ page.error # "exists" \/ Active
         \/ row[s].status \notin Open
         \/ cache.failed /\ cache.get = 0

\* The page agrees with the server again and again: it shows the open session, in
\* the status it has there ("the client reconciles against it", architecture.md:175).
Agrees == store.copy.sid = Current.sid /\ store.copy.status = Current.status
Reconciles == [](page.mounted => <>(~ page.mounted \/ Agrees \/ (~ Active /\ OpenSids = {})))
=============================================================================
