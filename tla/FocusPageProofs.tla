-------------------------- MODULE FocusPageProofs --------------------------
(***************************************************************************)
(* Proofs about FocusPage for any number of sessions, requests in flight,  *)
(* acts and seconds.                                                       *)
(***************************************************************************)
EXTENDS FocusPage, WellFoundedInduction, TLAPS

\* The server gives the least unused id.
LEMMA LeastSid ==
  ASSUME NEW S \in SUBSET Sids, S # {}
  PROVE  Min(S) \in S
<1> DEFINE R == OpToRel(<, Nat)
<1>1. S \subseteq Nat
  BY BoundsAssumption DEF Sids
<1>2. \E d \in S : \A e \in S : ~ (<<e, d>> \in R)
  BY <1>1, NatLessThanWellFounded, WFMin
<1>3. \E x \in S : \A y \in S : x =< y
  <2>1. PICK d \in S : \A e \in S : ~ (<<e, d>> \in R)
    BY <1>2
  <2>2. \A e \in S : ~ (e < d)
    BY <1>1, <2>1 DEF OpToRel
  <2> QED BY <1>1, <2>2
<1> QED BY <1>3 DEF Min

-----------------------------------------------------------------------------
(* What is on the wire *)

Asked == [sid : {NoSid}, status : {"absent"}, kind : Kinds, timed : BOOLEAN,
          elapsed : {0}, segment : {NoInstant}]

\* The fields that there are, whatever their values.
IsRequest(r) == r \in [op : {r.op}, session : {r.session}, by : {r.by}, stage : {r.stage},
                       code : {r.code}, quiet : {r.quiet}]
IsSession(s) == s \in [sid : {s.sid}, status : {s.status}, kind : {s.kind}, timed : {s.timed},
                       elapsed : {s.elapsed}, segment : {s.segment}]

\* A request to start carries a kind and whether it is timed, and nothing else.
Asks(r) == IsRequest(r) /\ (r.op = "start" /\ r.stage = "sent" => r.session \in Asked)
Wired(w) == w = [i \in Slots |-> w[i]] /\ \A i \in Slots : Asks(w[i])

LEMMA Requests ==
  /\ Asks(Free)
  /\ \A op, s, by : (op = "start" => s \in Asked) => Asks(Request(op, s, by))
  /\ \A op, s, by : (op = "start" => s \in Asked) => Asks([Request(op, s, by) EXCEPT !.quiet = TRUE])
  /\ \A k \in Kinds, t \in BOOLEAN : [None EXCEPT !.kind = k, !.timed = t] \in Asked
  /\ \A t \in BOOLEAN : [None EXCEPT !.timed = t] \in Asked
  /\ \A op, s, by : Request(op, s, by).op = op /\ Request(op, s, by).session = s
<1>1. Asks(Free)
  BY DEF Asks, IsRequest, Free
<1>2. ASSUME NEW op, NEW s, NEW by, op = "start" => s \in Asked
      PROVE  Asks(Request(op, s, by)) /\ Asks([Request(op, s, by) EXCEPT !.quiet = TRUE])
  BY <1>2 DEF Asks, IsRequest, Free, Request
<1>3. \A k \in Kinds, t \in BOOLEAN : [None EXCEPT !.kind = k, !.timed = t] \in Asked
  BY DEF Asked, None
<1>4. \A t \in BOOLEAN : [None EXCEPT !.timed = t] \in Asked
  BY DEF Asked, None, Kinds
<1>5. ASSUME NEW op, NEW s, NEW by
      PROVE  Request(op, s, by).op = op /\ Request(op, s, by).session = s
  <2> DEFINE a == [Free EXCEPT !.op = op]
             b == [a EXCEPT !.session = s]
             c == [b EXCEPT !.by = by]
             Fields == {"op", "session", "by", "stage", "code", "quiet"}
  <2>1. Free = [f \in Fields |-> Free[f]]
    BY DEF Free
  <2>2. a = [f \in Fields |-> IF f = "op" THEN op ELSE Free[f]]
    BY <2>1
  <2>3. b = [f \in Fields |-> IF f = "session" THEN s ELSE a[f]]
    BY <2>2
  <2>4. c = [f \in Fields |-> IF f = "by" THEN by ELSE b[f]]
    BY <2>3
  <2>5. Request(op, s, by) = c
    BY DEF Request
  <2> QED BY <2>2, <2>3, <2>4, <2>5
<1> QED BY <1>1, <1>2, <1>3, <1>4, <1>5

LEMMA WiredExcept ==
  ASSUME NEW w, Wired(w), NEW r, Asks(r), NEW i
  PROVE  Wired([w EXCEPT ![i] = r])
BY DEF Wired

LEMMA WiredPut == ASSUME NEW w, Wired(w), NEW r, Asks(r) PROVE Wired(Put(w, r))
BY WiredExcept DEF Put

LEMMA WiredFetch == ASSUME NEW w, Wired(w), NEW c PROVE Wired(FetchWire(w, c))
<1>1. Asks(Request("get", None, "effect"))
  BY Requests
<1>2. Wired([w EXCEPT ![c.get] = Free])
  BY Requests, WiredExcept
<1> QED BY <1>1, <1>2, WiredPut DEF FetchWire

LEMMA InitWired == Init => Wired(wire)
<1>1. Asks(Request("get", None, "effect")) /\ Asks(Free)
  BY Requests
<1> QED BY <1>1 DEF Init, Wired

\* Every step keeps the requests as they are made.
LEMMA StepWired == ASSUME Wired(wire), [Next]_vars PROVE Wired(wire')
<1>r. ASSUME NEW i PROVE Wired(Received(i))
  BY Requests, WiredExcept DEF Received
<1>1. ASSUME NEW pg, NEW op, NEW s, NEW by, Mutate(pg, op, s, by), op = "start" => s \in Asked
      PROVE  Wired(wire')
  BY <1>1, Requests, WiredPut DEF Mutate
<1>2. CASE OnStart
  <2>1. [None EXCEPT !.timed = (store.mode = "pomodoro")] \in Asked
    BY Requests
  <2> QED BY <1>1, <1>2, <2>1 DEF OnStart
<1>3. ASSUME NEW kind \in Kinds \ {"work"}, OnBreak(kind) PROVE Wired(wire')
  <2>1. [None EXCEPT !.kind = kind, !.timed = TRUE] \in Asked
    BY Requests
  <2> QED BY <1>1, <1>3, <2>1 DEF OnBreak
<1>4. CASE OnPause \/ OnResume \/ OnStop \/ OnDiscard \/ AutoComplete
  BY <1>1, <1>4 DEF OnPause, OnResume, OnStop, OnDiscard, AutoComplete
<1>5. ASSUME NEW linked \in BOOLEAN, Return(linked) PROVE Wired(wire')
  BY <1>5, WiredFetch DEF Return, Refetch
<1>6. CASE Reload
  <2> DEFINE sent == [i \in Slots |-> IF wire[i].stage = "sent" /\ wire[i].op \in Mutations
                                        THEN [wire[i] EXCEPT !.quiet = TRUE] ELSE Free]
             left == IF Running THEN Put(sent, [Request("pause", store.copy, "effect") EXCEPT !.quiet = TRUE])
                                ELSE sent
  <2>1. Wired(sent)
    <3>1. ASSUME NEW i \in Slots PROVE Asks([wire[i] EXCEPT !.quiet = TRUE])
      BY DEF Wired, Asks, IsRequest
    <3> QED BY <3>1, Requests DEF Wired
  <2>2. Wired(left)
    <3> HIDE DEF sent
    <3> QED BY <2>1, Requests, WiredPut
  <2>3. \E c : wire' = FetchWire(left, c)
    BY <1>6 DEF Reload, Refetch
  <2> HIDE DEF left
  <2> QED BY <2>2, <2>3, WiredFetch
<1>7. ASSUME NEW i \in Slots, Receive(i) PROVE Wired(wire')
  <2>1. CASE GetAnswered(i) \/ GetFailed(i) \/ StartOk(i) \/ ResumeOrPauseOk(i) \/ DiscardOk(i) \/ FailedUnheard(i) \/ AutoCompleteFailed(i)
    BY <1>r, <2>1 DEF GetAnswered, GetFailed, StartOk, ResumeOrPauseOk, DiscardOk, FailedUnheard, AutoCompleteFailed
  <2>2. CASE StopOk(i)
    BY <1>r, <2>2, WiredFetch DEF StopOk, Invalidate, Refetch
  <2>3. CASE StartFailed(i) \/ ActionFailed(i)
    BY <1>r, <2>3, WiredFetch DEF StartFailed, ActionFailed, Refetch
  <2>4. CASE AutoCompleteOk(i)
    <3>1. [None EXCEPT !.kind = "short_break", !.timed = TRUE] \in Asked
      BY Requests DEF Kinds
    <3>2. PICK w : Wired(w) /\ wire' = Put(w, Request("start", [None EXCEPT !.kind = "short_break", !.timed = TRUE], "effect"))
      BY <1>r, <2>4, WiredFetch DEF AutoCompleteOk
    <3> QED BY <3>1, <3>2, Requests, WiredPut
  <2> QED BY <1>7, <2>1, <2>2, <2>3, <2>4 DEF Receive
<1>8. ASSUME NEW i \in Slots, Serve(i) \/ Lose(i) PROVE Wired(wire')
  <2>1. PICK r : Asks(r) /\ wire' = [wire EXCEPT ![i] = r]
    <3>1. ASSUME NEW code, NEW s
          PROVE  Asks([wire[i] EXCEPT !.stage = "answered", !.code = code, !.session = s])
      BY DEF Wired, Asks, IsRequest
    <3>2. \A code : Asks([wire[i] EXCEPT !.stage = "answered", !.code = code])
      BY DEF Wired, Asks, IsRequest
    <3> QED BY <1>8, <3>1, <3>2, Requests DEF Serve, Lose
  <2> QED BY <2>1, WiredExcept
<1>9. CASE UNCHANGED wire
  BY <1>9
<1> QED BY <1>2, <1>3, <1>4, <1>5, <1>6, <1>7, <1>8, <1>9
    DEF Next, vars, PickTask, SetTimerMode, SetDuration, Configures, TickTimer, Leave, Expire, OtherTab, Clock

-----------------------------------------------------------------------------
(* The server's sessions *)

\* A session that does not exist is a blank row; one that is not over has no history.
Kept(s) ==
  /\ IsSession(row[s])
  /\ row[s].status = "absent" => row[s] = None
  /\ row[s].status \in Open \cup {"absent"} => recorded[s] = 0
Rows == /\ row = [s \in Sids |-> row[s]] /\ recorded \in [Sids -> Nat]
        /\ \A s \in Sids : Kept(s)

LEMMA InitRows == Init => Rows
<1>1. IsSession(None) /\ None.status = "absent"
  BY DEF IsSession, None
<1>2. Init => /\ row = [s \in Sids |-> None] /\ recorded = [s \in Sids |-> 0]
  BY DEF Init
<1> QED BY <1>1, <1>2 DEF Rows, Kept

\* What a step may do to the sessions, of whatever request: start one, move one along, or
\* end one with its row of history.
Starts == /\ OpenSids = {}
          /\ \E s \in Sids, asked \in Asked : row[s] = None /\ Create(s, asked)
          /\ UNCHANGED recorded
Moves(from, to) ==
  /\ \E s \in Sids : /\ row[s].status \in from
                    /\ row' = [row EXCEPT ![s] = to[s]]
  /\ UNCHANGED recorded
PausedRows == [s \in Sids |-> Paused(row[s])]
ResumedRows == [s \in Sids |-> Resumed(row[s])]
EndedRows(status) == [s \in Sids |-> Ended(row[s], status)]
Completes ==
  \E s \in Sids : /\ row[s].status \in Open
                 /\ row' = [row EXCEPT ![s] = Ended(row[s], "completed")]
                 /\ recorded' = IF row[s].kind = "work" THEN [recorded EXCEPT ![s] = @ + 1] ELSE recorded
Serves ==
  \/ Starts \/ Completes
  \/ Moves({"running"}, PausedRows) \/ Moves({"paused"}, ResumedRows)
  \/ Moves(Open, EndedRows("discarded"))
  \/ UNCHANGED server

\* Every request that gets through does one of these.
LEMMA EffectServes ==
  ASSUME Rows, NEW r, Effect(r), r.op = "start" => r.session \in Asked
  PROVE  Serves
<1> DEFINE s == r.session.sid
<1>0. \A x : x \notin Sids => \A v : [row EXCEPT ![x] = v] = row
  BY DEF Rows
<1>c. \A x, S, v : Change(x, S, v) =>
        \/ row' = row
        \/ x \in Sids /\ row[x].status \in S /\ row' = [row EXCEPT ![x] = v]
  BY <1>0 DEF Change
<1>1. CASE r.op = "start"
  <2>1. UNCHANGED recorded
    BY <1>1 DEF Effect
  <2>2. ServeStart(r.session)
    BY <1>1 DEF Effect
  <2>3. CASE OpenSids = {} /\ Unused # {}
    <3>1. Min(Unused) \in Unused
      BY <2>3, LeastSid DEF Unused
    <3>2. Min(Unused) \in Sids /\ row[Min(Unused)] = None
      BY <3>1 DEF Unused
    <3> QED BY <1>1, <2>1, <2>2, <2>3, <3>2 DEF ServeStart, Serves, Starts
  <2> QED BY <2>1, <2>2, <2>3 DEF ServeStart, Serves, server
<1>2. CASE r.op = "pause"
  <2>1. UNCHANGED recorded /\ Change(s, {"running"}, Paused(row[s]))
    BY <1>2 DEF Effect
  <2> QED BY <1>c, <2>1 DEF Serves, server, Moves, PausedRows
<1>3. CASE r.op = "resume"
  <2>1. UNCHANGED recorded /\ Change(s, {"paused"}, Resumed(row[s]))
    BY <1>3 DEF Effect
  <2> QED BY <1>c, <2>1 DEF Serves, server, Moves, ResumedRows
<1>4. CASE r.op = "discard"
  <2>1. UNCHANGED recorded /\ Change(s, Open, Ended(row[s], "discarded"))
    BY <1>4 DEF Effect
  <2> QED BY <1>c, <2>1 DEF Serves, server, Moves, EndedRows
<1>5. CASE r.op = "complete"
  <2>1. /\ Change(s, Open, Ended(row[s], "completed"))
        /\ recorded' = IF RecordsWork(s) THEN [recorded EXCEPT ![s] = @ + 1] ELSE recorded
    BY <1>5 DEF Effect
  <2>2. CASE s \in Sids /\ row[s].status \in Open
    <3>1. row' = [row EXCEPT ![s] = Ended(row[s], "completed")]
      BY <2>1, <2>2 DEF Change
    <3> QED BY <2>1, <2>2, <3>1 DEF Serves, Completes, RecordsWork
  <2>3. CASE s \notin Sids
    <3>1. [recorded EXCEPT ![s] = @ + 1] = recorded
      BY <2>3 DEF Rows
    <3> QED BY <1>c, <2>1, <2>3, <3>1 DEF Serves, server
  <2>4. CASE row[s].status \notin Open
    BY <1>c, <2>1, <2>4 DEF Serves, server, RecordsWork
  <2> QED BY <2>2, <2>3, <2>4
<1>6. CASE r.op = "get"
  BY <1>6 DEF Effect, Serves, server
<1> QED BY <1>1, <1>2, <1>3, <1>4, <1>5, <1>6 DEF Effect

\* And so does every step.
LEMMA StepServes == ASSUME Rows, Wired(wire), [Next]_vars PROVE Serves
<1>1. ASSUME NEW i \in Slots, Serve(i) PROVE Serves
  <2>1. Effect(wire[i]) /\ (wire[i].op = "start" => wire[i].session \in Asked)
    BY <1>1 DEF Serve, Wired, Asks
  <2> QED BY <2>1, EffectServes
<1>2. CASE OtherTab
  <2>0. \A op, s : Request(op, s, "user").op = op /\ Request(op, s, "user").session = s
    BY Requests
  <2>1. PICK r \in {Request("start", None, "user")}
                  \cup {Request(op, row[s], "user") : op \in {"pause", "resume", "complete", "discard"},
                                                      s \in OpenSids} : Effect(r)
    BY <1>2 DEF OtherTab
  <2>2. None \in Asked
    BY DEF None, Asked, Kinds
  <2>3. r.op = "start" => r.session \in Asked
    <3>1. CASE r = Request("start", None, "user")
      BY <2>0, <2>2, <3>1
    <3>2. ASSUME NEW op \in {"pause", "resume", "complete", "discard"}, NEW s, r = Request(op, s, "user")
          PROVE  r.op # "start"
      BY <2>0, <3>2
    <3> QED BY <2>1, <3>1, <3>2
  <2> QED BY <2>1, <2>3, EffectServes
<1>3. ASSUME NEW s \in Sids, Expire(s) PROVE Serves
  BY <1>3 DEF Expire, Change, Serves, server, Moves, PausedRows, EndedRows, Open
<1>4. CASE UNCHANGED server
  BY <1>4 DEF Serves
<1>5. ASSUME NEW i \in Slots, Receive(i) PROVE UNCHANGED server
  BY <1>5 DEF Receive, GetAnswered, GetFailed, StartOk, ResumeOrPauseOk, DiscardOk, StopOk, AutoCompleteOk, FailedUnheard,
     StartFailed, ActionFailed, AutoCompleteFailed, Answered
<1> QED BY <1>1, <1>2, <1>3, <1>4, <1>5
    DEF Next, vars, server, OnStart, OnBreak, OnPause, OnResume, OnStop, OnDiscard, AutoComplete, PickTask,
        SetTimerMode, SetDuration, Configures, TickTimer, Leave, Return, Reload, Lose, Clock, UserActs, OnPage

\* What the new rows are.
LEMMA RowForms ==
  ASSUME NEW x, IsSession(x)
  PROVE  /\ Paused(x).status = "paused" /\ IsSession(Paused(x))
         /\ Resumed(x).status = "running" /\ IsSession(Resumed(x))
         /\ \A status : Ended(x, status).status = status /\ IsSession(Ended(x, status))
BY DEF Paused, Resumed, Ended, IsSession

LEMMA CreatedForm ==
  ASSUME NEW asked \in Asked, NEW s
  PROVE  LET new == [asked EXCEPT !.sid = s, !.status = "running", !.segment = now]
         IN  new.status = "running" /\ IsSession(new)
BY DEF Asked, IsSession

\* A row that is not blank has a status of its own.
LEMMA NotNone == ASSUME NEW x, x.status # "absent" PROVE x # None
BY DEF None

\* Every such step keeps the rows.
LEMMA ServesKeeps == ASSUME Rows, Serves PROVE Rows'
<1>1. ASSUME NEW s \in Sids, NEW x, IsSession(x), row' = [row EXCEPT ![s] = x],
             x.status # "absent",
             \/ recorded' = recorded /\ (x.status \in Open => recorded[s] = 0)
             \/ recorded' = [recorded EXCEPT ![s] = @ + 1] /\ x.status \notin Open
      PROVE  Rows'
  <2>1. row' = [y \in Sids |-> row'[y]] /\ recorded' \in [Sids -> Nat]
    BY <1>1 DEF Rows
  <2>2. ASSUME NEW y \in Sids PROVE Kept(y)'
    <3>1. CASE y = s
      <4>1. row'[y] = x
        BY <1>1, <3>1 DEF Rows
      <4>2. x.status \in Open => recorded'[y] = 0
        BY <1>1, <3>1
      <4> QED BY <1>1, <4>1, <4>2 DEF Kept
    <3>2. CASE y # s
      <4>1. row'[y] = row[y] /\ recorded'[y] = recorded[y]
        BY <1>1, <3>2 DEF Rows
      <4> QED BY <4>1 DEF Rows, Kept
    <3> QED BY <3>1, <3>2
  <2> QED BY <2>1, <2>2 DEF Rows
<1>2. CASE Starts
  <2>1. PICK s \in Sids, asked \in Asked : row[s] = None /\ Create(s, asked)
    BY <1>2 DEF Starts
  <2> DEFINE x == [asked EXCEPT !.sid = s, !.status = "running", !.segment = now]
  <2>2. row' = [row EXCEPT ![s] = x] /\ x.status = "running" /\ IsSession(x)
    BY <2>1, CreatedForm DEF Create
  <2>3. recorded[s] = 0 /\ recorded' = recorded
    <3>1. row[s].status = "absent"
      BY <2>1 DEF None
    <3> QED BY <1>2, <3>1 DEF Starts, Rows, Kept
  <2> HIDE DEF x
  <2> QED BY <1>1, <2>2, <2>3
<1>3. CASE Completes
  <2>1. PICK s \in Sids :
          /\ row' = [row EXCEPT ![s] = Ended(row[s], "completed")]
          /\ recorded' = recorded \/ recorded' = [recorded EXCEPT ![s] = @ + 1]
    BY <1>3 DEF Completes
  <2>2. IsSession(row[s])
    BY DEF Rows, Kept
  <2>3. Ended(row[s], "completed").status = "completed" /\ IsSession(Ended(row[s], "completed"))
    BY <2>2, RowForms
  <2> QED BY <1>1, <2>1, <2>3 DEF Open
<1>4. ASSUME NEW from \in {{"running"}, {"paused"}, Open}, NEW to,
             \A s \in Sids : IsSession(row[s]) => to[s].status # "absent" /\ IsSession(to[s]),
             Moves(from, to)
      PROVE  Rows'
  <2>1. PICK s \in Sids : /\ row[s].status \in from /\ row' = [row EXCEPT ![s] = to[s]]
                          /\ UNCHANGED recorded
    BY <1>4 DEF Moves
  <2>2. IsSession(row[s]) /\ recorded[s] = 0
    BY <1>4, <2>1 DEF Rows, Kept, Open
  <2> QED BY <1>1, <1>4, <2>1, <2>2
<1>5. CASE Moves({"running"}, PausedRows)
  BY <1>4, <1>5, RowForms DEF PausedRows
<1>6. CASE Moves({"paused"}, ResumedRows)
  BY <1>4, <1>6, RowForms DEF ResumedRows
<1>7. CASE Moves(Open, EndedRows("discarded"))
  BY <1>4, <1>7, RowForms DEF EndedRows
<1>8. CASE UNCHANGED server
  BY <1>8 DEF server, Rows, Kept
<1> QED BY <1>2, <1>3, <1>5, <1>6, <1>7, <1>8 DEF Serves

-----------------------------------------------------------------------------
(* The life cycle *)

LEMMA LifecycleInit == Init => Lifecycle!Init
BY DEF Init, Lifecycle!Init, None

\* What a step that gives one session another row does to the life cycle.
Becomes(s, x) == row' = [row EXCEPT ![s] = x]
Reaches(s, status) == [y \in Sids |-> row[y].status]'
                        = [y \in Sids |-> IF y \in {s} THEN status ELSE row[y].status]
Owned == [s \in Sids |-> IF row[s] = None THEN "nil" ELSE "user"]

LEMMA Moved ==
  ASSUME Rows, NEW s \in Sids, NEW x, NEW status, Becomes(s, x),
         x.status = status, status # "absent"
  PROVE  /\ Reaches(s, status)
         /\ Owned' = [Owned EXCEPT ![s] = "user"]
         /\ row[s].status # "absent" => Owned' = Owned
<1>1. x # None /\ (row[s].status # "absent" => row[s] # None)
  BY NotNone
<1>2. \A y \in Sids : row'[y] = IF y = s THEN x ELSE row[y]
  BY DEF Becomes, Rows
<1> QED BY <1>1, <1>2 DEF Reaches, Owned

\* Every such step is one of the life cycle, or none.
LEMMA LifecycleStep == ASSUME Rows, Serves PROVE Lifecycle!Next \/ UNCHANGED Lifecycle!vars
<1> DEFINE phase == [s \in Sids |-> row[s].status]
           owner == [s \in Sids |-> IF row[s] = None THEN "nil" ELSE "user"]
<1>k. ASSUME NEW s \in Sids, NEW status, Reaches(s, status)
      PROVE  phase' = [y \in Sids |-> IF y \in {s} THEN status ELSE phase[y]]
  BY <1>k DEF Reaches
<1>o. Owned = owner
  BY DEF Owned
<1>1. CASE Starts
  <2>1. PICK s \in Sids, asked \in Asked : row[s] = None /\ Create(s, asked)
    BY <1>1 DEF Starts
  <2> DEFINE x == [asked EXCEPT !.sid = s, !.status = "running", !.segment = now]
  <2>2. row' = [row EXCEPT ![s] = x] /\ x.status = "running"
    BY <2>1, CreatedForm DEF Create
  <2>3. phase[s] = "absent" /\ \A y \in Sids : phase[y] \notin Open
    BY <1>1, <2>1 DEF Starts, OpenSids, None
  <2>4. /\ phase' = [y \in Sids |-> IF y \in {s} THEN "running" ELSE phase[y]]
        /\ owner' = [owner EXCEPT ![s] = "user"]
    <3>1. Reaches(s, "running") /\ Owned' = [Owned EXCEPT ![s] = "user"]
      <4> HIDE DEF x
      <4> QED BY <2>2, Moved DEF Becomes
    <3> QED BY <1>k, <1>o, <3>1 DEF Owned
  <2>5. Lifecycle!Start(s, "user")
    <3>1. Lifecycle!Move({s}, {"absent"}, "running")
      BY <2>3, <2>4 DEF Lifecycle!Move
    <3>2. recorded' = recorded
      BY <1>1 DEF Starts
    <3>3. \A y \in Sids : phase[y] \notin Lifecycle!Open
      BY <2>3 DEF Lifecycle!Open, Open
    <3> QED BY <2>4, <3>1, <3>2, <3>3 DEF Lifecycle!Start
  <2> QED BY <2>5 DEF Lifecycle!Next
<1>2. CASE Completes
  <2>1. PICK s \in Sids :
          /\ row[s].status \in Open
          /\ row' = [row EXCEPT ![s] = Ended(row[s], "completed")]
          /\ recorded' = recorded \/ recorded' = [recorded EXCEPT ![s] = @ + 1]
    BY <1>2 DEF Completes
  <2>2. IsSession(row[s]) /\ recorded[s] = 0 /\ recorded \in [Sids -> Nat]
    BY <2>1 DEF Rows, Kept
  <2>3. Ended(row[s], "completed").status = "completed"
    BY <2>2, RowForms
  <2>c. row[s].status # "absent" /\ Ended(row[s], "completed").status # "absent"
    BY <2>1, <2>3 DEF Open
  <2>4. phase' = [y \in Sids |-> IF y \in {s} THEN "completed" ELSE phase[y]] /\ owner' = owner
    <3> DEFINE x == Ended(row[s], "completed")
    <3>1. row' = [row EXCEPT ![s] = x] /\ x.status = "completed" /\ x.status # "absent"
      BY <2>1, <2>3, <2>c
    <3>2. Reaches(s, "completed") /\ Owned' = Owned
      <4> HIDE DEF x
      <4> QED BY <2>c, <3>1, Moved DEF Becomes
    <3> QED BY <1>k, <1>o, <3>2 DEF Owned
  <2>5. \E n \in {0, 1} : recorded' = [recorded EXCEPT ![s] = n]
    BY <2>1, <2>2
  <2>6. Lifecycle!Complete(s)
    <3>1. Lifecycle!Move({s}, Lifecycle!Open, "completed")
      BY <2>1, <2>4 DEF Lifecycle!Move, Lifecycle!Open, Open
    <3> QED BY <2>4, <2>5, <3>1 DEF Lifecycle!Complete
  <2> QED BY <2>6 DEF Lifecycle!Next
\* A pause, a resume or a discard of one session.
<1>3. ASSUME NEW from \in {{"running"}, {"paused"}, Open}, NEW to, NEW status,
             \A s \in Sids : IsSession(row[s]) => to[s].status = status, status # "absent",
             Moves(from, to)
      PROVE  \E s \in Sids : Lifecycle!Move({s}, from, status) /\ owner' = owner /\ recorded' = recorded
  <2>1. PICK s \in Sids : /\ row[s].status \in from /\ row' = [row EXCEPT ![s] = to[s]]
                          /\ UNCHANGED recorded
    BY <1>3 DEF Moves
  <2>2. to[s].status = status
    BY <1>3 DEF Rows, Kept
  <2>3. row[s].status # "absent"
    BY <1>3, <2>1 DEF Open
  <2>4. phase' = [y \in Sids |-> IF y \in {s} THEN status ELSE phase[y]] /\ owner' = owner
    <3> DEFINE x == to[s]
    <3>1. row' = [row EXCEPT ![s] = x] /\ x.status = status /\ x.status # "absent"
      BY <1>3, <2>1, <2>2
    <3>2. Reaches(s, status) /\ Owned' = Owned
      <4> HIDE DEF x
      <4> QED BY <2>3, <3>1, Moved DEF Becomes
    <3> QED BY <1>k, <1>o, <3>2 DEF Owned
  <2> QED BY <2>1, <2>4 DEF Lifecycle!Move
<1>4. CASE Moves({"running"}, PausedRows)
  <2>1. \A s \in Sids : IsSession(row[s]) => PausedRows[s].status = "paused"
    BY RowForms DEF PausedRows
  <2>2. PICK s \in Sids : Lifecycle!Move({s}, {"running"}, "paused") /\ owner' = owner /\ recorded' = recorded
    BY <1>3, <1>4, <2>1
  <2>3. Lifecycle!Pause({s})
    BY <2>2 DEF Lifecycle!Pause
  <2> QED BY <2>3 DEF Lifecycle!Next
<1>5. CASE Moves({"paused"}, ResumedRows)
  <2>1. \A s \in Sids : IsSession(row[s]) => ResumedRows[s].status = "running"
    BY RowForms DEF ResumedRows
  <2>2. PICK s \in Sids : Lifecycle!Move({s}, {"paused"}, "running") /\ owner' = owner /\ recorded' = recorded
    BY <1>3, <1>5, <2>1
  <2>3. Lifecycle!Resume(s)
    BY <2>2 DEF Lifecycle!Resume
  <2> QED BY <2>3 DEF Lifecycle!Next
<1>6. CASE Moves(Open, EndedRows("discarded"))
  <2>1. \A s \in Sids : IsSession(row[s]) => EndedRows("discarded")[s].status = "discarded"
    BY RowForms DEF EndedRows
  <2>2. PICK s \in Sids : Lifecycle!Move({s}, Open, "discarded") /\ owner' = owner /\ recorded' = recorded
    BY <1>3, <1>6, <2>1
  <2>3. Lifecycle!Discard({s})
    BY <2>2 DEF Lifecycle!Discard, Lifecycle!Open, Open
  <2> QED BY <2>3 DEF Lifecycle!Next
<1>7. CASE UNCHANGED server
  BY <1>7 DEF server, Lifecycle!vars
<1> QED BY <1>1, <1>2, <1>4, <1>5, <1>6, <1>7 DEF Serves

\* Whatever the page sends, loses and sends again, and whatever another tab and the scheduler
\* do, the server's sessions follow the life cycle the backend implements
\* (models/active_focus.go), for any number of sessions and of requests in flight.
THEOREM PageFollowsLifecycle == Spec => FollowsLifecycle
<1>1. Init => Rows /\ Wired(wire)
  BY InitRows, InitWired
<1>2. Rows /\ Wired(wire) /\ [Next]_vars => Rows' /\ Wired(wire)'
  BY StepServes, ServesKeeps, StepWired
<1>3. Rows /\ Wired(wire) /\ [Next]_vars => [Lifecycle!Next]_(Lifecycle!vars)
  BY StepServes, LifecycleStep
<1> QED BY LifecycleInit, <1>1, <1>2, <1>3, PTL DEF Spec, FollowsLifecycle, Lifecycle!Spec

-----------------------------------------------------------------------------
(* The sessions the browser holds are copies of rows *)

\* What a row may do in a step: its kind and its id stay.
LEMMA RowStays ==
  ASSUME Rows, Serves, NEW s \in Sids
  PROVE  \/ row'[s] = row[s]
         \/ row[s].status = "absent" /\ row'[s].sid = s /\ row'[s].status # "absent"
         \/ /\ row[s].status # "absent" /\ row'[s].status # "absent"
            /\ row'[s].kind = row[s].kind /\ row'[s].sid = row[s].sid
<1>k. IsSession(row[s]) /\ row = [y \in Sids |-> row[y]]
  BY DEF Rows, Kept
<1>f. \A x : IsSession(x) =>
        /\ Paused(x).kind = x.kind /\ Paused(x).sid = x.sid /\ Paused(x).status = "paused"
        /\ Resumed(x).kind = x.kind /\ Resumed(x).sid = x.sid /\ Resumed(x).status = "running"
        /\ \A status : /\ Ended(x, status).kind = x.kind /\ Ended(x, status).sid = x.sid
                       /\ Ended(x, status).status = status
  BY DEF IsSession, Paused, Resumed, Ended
<1>1. CASE Starts
  <2>1. PICK y \in Sids, asked \in Asked : row[y] = None /\ Create(y, asked)
    BY <1>1 DEF Starts
  <2> DEFINE x == [asked EXCEPT !.sid = y, !.status = "running", !.segment = now]
  <2>2. x.sid = y /\ x.status = "running"
    BY DEF Asked
  <2>3. row'[s] = IF s = y THEN x ELSE row[s]
    BY <1>k, <2>1 DEF Create
  <2>4. row[y].status = "absent"
    BY <2>1 DEF None
  <2> HIDE DEF x
  <2> QED BY <2>2, <2>3, <2>4
<1>2. CASE Completes
  BY <1>2, <1>k, <1>f DEF Completes, Open
<1>3. CASE Moves({"running"}, PausedRows)
  BY <1>3, <1>k, <1>f DEF Moves, PausedRows
<1>4. CASE Moves({"paused"}, ResumedRows)
  BY <1>4, <1>k, <1>f DEF Moves, ResumedRows
<1>5. CASE Moves(Open, EndedRows("discarded"))
  BY <1>5, <1>k, <1>f DEF Moves, EndedRows, Open
<1>6. CASE UNCHANGED server
  BY <1>6 DEF server
<1> QED BY <1>1, <1>2, <1>3, <1>4, <1>5, <1>6 DEF Serves

Named == \A s \in Sids : row[s].status # "absent" => row[s].sid = s

\* s is a session that rw has, in whatever status, and of the same kind; or none.
CopyIn(rw, s) ==
  /\ IsSession(s)
  /\ s.status # "absent" =>
       s.sid \in Sids /\ rw[s.sid].status # "absent" /\ rw[s.sid].kind = s.kind
Recorded(rc) == \E s \in Sids : rc[s] > 0

\* What a request stands for: the session it acts on; of those the page sends by itself, a
\* completion ends a pomodoro of work, and a start follows a recorded one.
Traced(rw, rc, r) ==
  /\ IsRequest(r) /\ CopyIn(rw, r.session)
  /\ r.op \in Mutations \ {"start"} => r.session.status # "absent"
  /\ r.by = "effect" /\ r.op = "complete" =>
       /\ r.session.kind = "work"
       /\ r.stage = "answered" /\ r.code = "ok" => Recorded(rc)
  /\ r.by = "effect" /\ r.op = "start" => Recorded(rc)
WireOK(rw, rc, w) == w = [i \in Slots |-> w[i]] /\ \A i \in Slots : Traced(rw, rc, w[i])
StoreOK(rw, st) ==
  /\ st \in [copy : {st.copy}, shown : {st.shown}, mode : {st.mode},
             selected : {st.selected}, preselected : {st.preselected}]
  /\ CopyIn(rw, st.copy)
CacheOK(rw, c) ==
  /\ c \in [known : {c.known}, data : {c.data}, stale : {c.stale}, failed : {c.failed},
         get : {c.get}]
  /\ CopyIn(rw, c.data)
PageOK(pg) ==
  pg \in [mounted : {pg.mounted}, pending : {"none", "completing", "transitioning"},
          completing : {pg.completing}, error : {pg.error}, invalid : {pg.invalid},
          latest : {pg.latest}]

\* Copies stay copies, and what is recorded stays so.
LEMMA CopiesStay ==
  ASSUME Rows, Serves
  PROVE  /\ \A s : CopyIn(row, s) => CopyIn(row', s)
         /\ Recorded(recorded) => Recorded(recorded')
         /\ \A r : Traced(row, recorded, r) => Traced(row', recorded', r)
<1>1. \A s : CopyIn(row, s) => CopyIn(row', s)
  BY RowStays DEF CopyIn
<1>2. Recorded(recorded) => Recorded(recorded')
  <2>1. recorded' = recorded \/ \E s \in Sids : recorded' = [recorded EXCEPT ![s] = @ + 1]
    BY DEF Serves, Starts, Completes, Moves, server
  <2>2. ASSUME NEW s \in Sids PROVE recorded[s] > 0 => recorded'[s] > 0
    BY <2>1 DEF Rows
  <2> QED BY <2>2 DEF Recorded
<1>3. ASSUME NEW r, Traced(row, recorded, r) PROVE Traced(row', recorded', r)
  BY <1>1, <1>2, <1>3 DEF Traced
<1> QED BY <1>1, <1>2, <1>3

\* Rows that are there are copies of themselves.
LEMMA RowsAreCopies ==
  ASSUME Rows, Named, NEW s \in Sids
  PROVE  CopyIn(row, row[s])
BY DEF Rows, Kept, Named, CopyIn

LEMMA NamedKept == ASSUME Rows, Named, Serves PROVE Named'
BY RowStays DEF Named

-----------------------------------------------------------------------------
(* What the page does with them *)

LEMMA NoneIsCopy ==
  /\ \A rw : CopyIn(rw, None)
  /\ \A rw : \A s \in Asked : CopyIn(rw, s)
BY DEF CopyIn, IsSession, None, Asked

LEMMA RequestTraced ==
  ASSUME NEW rw, NEW rc, NEW op, NEW s, NEW by, CopyIn(rw, s),
         op \in Mutations \ {"start"} => s.status # "absent",
         by = "effect" /\ op = "complete" => s.kind = "work",
         by = "effect" /\ op = "start" => Recorded(rc)
  PROVE  Traced(rw, rc, Request(op, s, by)) /\ Traced(rw, rc, [Request(op, s, by) EXCEPT !.quiet = TRUE])
BY DEF Traced, IsRequest, Request, Free

LEMMA FreeTraced == \A rw, rc : Traced(rw, rc, Free)
BY NoneIsCopy DEF Traced, IsRequest, Free, Mutations

LEMMA WireExcept ==
  ASSUME NEW rw, NEW rc, NEW w, WireOK(rw, rc, w), NEW r, Traced(rw, rc, r), NEW i
  PROVE  WireOK(rw, rc, [w EXCEPT ![i] = r])
BY DEF WireOK

LEMMA WirePut ==
  ASSUME NEW rw, NEW rc, NEW w, WireOK(rw, rc, w), NEW r, Traced(rw, rc, r)
  PROVE  WireOK(rw, rc, Put(w, r))
BY WireExcept DEF Put

LEMMA WireFetch ==
  ASSUME NEW rw, NEW rc, NEW w, WireOK(rw, rc, w), NEW c
  PROVE  WireOK(rw, rc, FetchWire(w, c))
<1>1. Traced(rw, rc, Request("get", None, "effect"))
  BY RequestTraced, NoneIsCopy DEF Mutations
<1>2. WireOK(rw, rc, [w EXCEPT ![c.get] = Free])
  BY FreeTraced, WireExcept
<1> QED BY <1>1, <1>2, WirePut DEF FetchWire

LEMMA StoreSteps ==
  ASSUME NEW rw, NEW st, StoreOK(rw, st), NEW s, CopyIn(rw, s)
  PROVE  /\ StoreOK(rw, Hydrate(st, s)) /\ StoreOK(rw, ApplySession(st, s))
         /\ StoreOK(rw, ClearSession(st)) /\ StoreOK(rw, ClearPreselected(st))
         /\ StoreOK(rw, ClearSession(ClearPreselected(st)))
         /\ StoreOK(rw, Shown(st, s)) /\ StoreOK(rw, ClearPreselected(Shown(st, s)))
<1>1. ASSUME NEW x, StoreOK(rw, x) PROVE StoreOK(rw, Hydrate(x, s))
  BY <1>1 DEF StoreOK, Hydrate
<1>2. ASSUME NEW x, StoreOK(rw, x) PROVE StoreOK(rw, ClearPreselected(x))
  BY <1>2 DEF StoreOK, ClearPreselected
<1>3. ASSUME NEW x, StoreOK(rw, x) PROVE StoreOK(rw, ClearSession(x))
  BY <1>3, NoneIsCopy DEF StoreOK, ClearSession
<1>4. StoreOK(rw, ApplySession(st, s))
  <2> DEFINE h == Hydrate(st, s)
  <2>1. StoreOK(rw, h)
    BY <1>1
  <2> HIDE DEF h
  <2>2. StoreOK(rw, [h EXCEPT !.preselected = @ /\ s.kind # "work"])
    BY <2>1 DEF StoreOK
  <2> QED BY <2>2 DEF ApplySession, h
<1> QED BY <1>1, <1>2, <1>3, <1>4 DEF Shown

\* The local pause and resume, before the server has answered.
LEMMA LocalSteps ==
  ASSUME NEW rw, NEW st, StoreOK(rw, st)
  PROVE  StoreOK(rw, PauseLocal(st)) /\ StoreOK(rw, ResumeLocal(st))
<1>1. ASSUME NEW x, CopyIn(rw, x), x.status # "absent", NEW status, NEW e, NEW g, status # "absent"
      PROVE  CopyIn(rw, [x EXCEPT !.status = status, !.elapsed = e, !.segment = g])
             /\ CopyIn(rw, [x EXCEPT !.status = status, !.segment = g])
  BY <1>1 DEF CopyIn, IsSession
<1>2. ASSUME NEW x, CopyIn(rw, x) PROVE StoreOK(rw, [st EXCEPT !.copy = x])
  BY <1>2 DEF StoreOK
<1>3. StoreOK(rw, PauseLocal(st))
  <2> DEFINE x == [st.copy EXCEPT !.status = "paused", !.elapsed = st.shown, !.segment = NoInstant]
  <2>1. CASE st.copy.status = "running"
    <3>1. CopyIn(rw, x)
      BY <1>1, <2>1 DEF StoreOK
    <3> HIDE DEF x
    <3>2. StoreOK(rw, [st EXCEPT !.copy = x])
      BY <1>2, <3>1
    <3> QED BY <3>2 DEF PauseLocal, x
  <2> QED BY <2>1 DEF PauseLocal
<1>4. StoreOK(rw, ResumeLocal(st))
  <2> DEFINE x == [st.copy EXCEPT !.status = "running", !.segment = now]
  <2>1. CASE st.copy.status = "paused"
    <3>1. CopyIn(rw, x)
      BY <1>1, <2>1 DEF StoreOK
    <3> HIDE DEF x
    <3>2. StoreOK(rw, [st EXCEPT !.copy = x])
      BY <1>2, <3>1
    <3> QED BY <3>2 DEF ResumeLocal, x
  <2> QED BY <2>1 DEF ResumeLocal
<1> QED BY <1>3, <1>4

LEMMA CacheSteps ==
  ASSUME NEW rw, NEW c, CacheOK(rw, c)
  PROVE  /\ \A s : CopyIn(rw, s) => CacheOK(rw, Known(c, s))
         /\ \A n : CacheOK(rw, [c EXCEPT !.get = n])
         /\ CacheOK(rw, [c EXCEPT !.stale = TRUE])
         /\ CacheOK(rw, [c EXCEPT !.get = 0, !.stale = TRUE, !.failed = TRUE])
BY DEF CacheOK, Known

\* Asking for the active session again.
LEMMA Refetches ==
  ASSUME NEW rw, NEW rc, NEW w, WireOK(rw, rc, w), NEW c, CacheOK(rw, c), Refetch(w, c) \/ Invalidate(w, c)
  PROVE  WireOK(rw, rc, wire') /\ CacheOK(rw, cache')
<1>1. CASE Refetch(w, c)
  <2>1. CacheOK(rw, [c EXCEPT !.get = FetchSlot(w, c)])
    BY CacheSteps
  <2> QED BY <1>1, <2>1, WireFetch DEF Refetch
<1>2. CASE wire' = w /\ cache' = [c EXCEPT !.stale = TRUE]
  BY <1>2, CacheSteps
<1> QED BY <1>1, <1>2 DEF Invalidate

LEMMA PageSteps ==
  ASSUME NEW pg, PageOK(pg)
  PROVE  /\ \A op, i : PageOK([pg EXCEPT !.latest[op] = i])
         /\ \A e : PageOK([pg EXCEPT !.error = e])
         /\ \A b : PageOK([pg EXCEPT !.invalid = b])
         /\ PageOK([pg EXCEPT !.pending = "none"])
         /\ PageOK([pg EXCEPT !.completing = TRUE, !.pending = "completing"])
<1>1. \A op, i : PageOK([pg EXCEPT !.latest[op] = i])
  BY DEF PageOK
<1>2. \A e : PageOK([pg EXCEPT !.error = e])
  BY DEF PageOK
<1>3. \A b : PageOK([pg EXCEPT !.invalid = b])
  BY DEF PageOK
<1>4. PageOK([pg EXCEPT !.pending = "none"])
  BY DEF PageOK
<1>5. PageOK([pg EXCEPT !.completing = TRUE, !.pending = "completing"])
  BY DEF PageOK
<1> QED BY <1>1, <1>2, <1>3, <1>4, <1>5

LEMMA FreshPages == PageOK(FreshPage) /\ PageOK(Unmounted)
BY DEF PageOK, FreshPage, Unmounted

-----------------------------------------------------------------------------
(* The break after a recorded pomodoro *)

BrowserOK == /\ WireOK(row, recorded, wire) /\ CacheOK(row, cache)
             /\ StoreOK(row, store) /\ PageOK(page)
After == /\ WireOK(row, recorded, wire') /\ CacheOK(row, cache')
         /\ StoreOK(row, store') /\ PageOK(page')
BInv == Rows /\ Wired(wire) /\ Named /\ BrowserOK

\* A click, a tick or an effect of the page.
LEMMA PageActs ==
  ASSUME BrowserOK
  PROVE  /\ OnStart => After
         /\ \A kind \in Kinds \ {"work"} : OnBreak(kind) => After
         /\ OnPause \/ OnResume \/ OnStop \/ OnDiscard => After
         /\ AutoComplete => After
<1> USE DEF BrowserOK, After
<1>w. CopyIn(row, store.copy)
  BY DEF StoreOK
<1>m. ASSUME NEW pg, PageOK(pg), NEW op, NEW s, NEW by, Mutate(pg, op, s, by),
             Traced(row, recorded, Request(op, s, by))
      PROVE  WireOK(row, recorded, wire') /\ PageOK(page')
  BY <1>m, WirePut, PageSteps DEF Mutate
<1>1. CASE OnStart
  <2> DEFINE asked == [None EXCEPT !.timed = (store.mode = "pomodoro")]
  <2>1. Traced(row, recorded, Request("start", asked, "user"))
    <3>1. asked \in Asked
      BY Requests
    <3> HIDE DEF asked
    <3> QED BY <3>1, NoneIsCopy, RequestTraced
  <2>2. PageOK([page EXCEPT !.error = "none"]) /\ PageOK([page EXCEPT !.error = "no task"])
        /\ PageOK([page EXCEPT !.error = "durations"])
    BY PageSteps
  <2>3. /\ UNCHANGED <<cache, store>>
        /\ \/ UNCHANGED wire /\ PageOK(page')
           \/ Mutate([page EXCEPT !.error = "none"], "start", asked, "user")
    BY <1>1, <2>2 DEF OnStart
  <2> HIDE DEF asked
  <2> QED BY <1>m, <2>1, <2>2, <2>3
<1>2. ASSUME NEW kind \in Kinds \ {"work"}, OnBreak(kind) PROVE After
  <2> DEFINE asked == [None EXCEPT !.kind = kind, !.timed = TRUE]
  <2>1. Traced(row, recorded, Request("start", asked, "user"))
    <3>1. asked \in Asked
      BY Requests
    <3> HIDE DEF asked
    <3> QED BY <3>1, NoneIsCopy, RequestTraced
  <2>2. PageOK([page EXCEPT !.error = "none"])
    BY PageSteps
  <2>3. UNCHANGED <<cache, store>> /\ Mutate([page EXCEPT !.error = "none"], "start", asked, "user")
    BY <1>2 DEF OnBreak
  <2> HIDE DEF asked
  <2> QED BY <1>m, <2>1, <2>2, <2>3
<1>3. CASE OnPause \/ OnResume \/ OnStop \/ OnDiscard
  <2>1. Active
    BY <1>3 DEF OnPause, OnResume, OnStop, OnDiscard, Buttons
  <2>2. \A op \in Mutations \ {"start"} : Traced(row, recorded, Request(op, store.copy, "user"))
    BY <1>w, <2>1, RequestTraced DEF Active, Open
  <2>3. StoreOK(row, store') /\ cache' = cache
    BY <1>3, LocalSteps DEF OnPause, OnResume, OnStop, OnDiscard
  <2>4. \E op \in Mutations \ {"start"} : Mutate(page, op, store.copy, "user")
    BY <1>3 DEF OnPause, OnResume, OnStop, OnDiscard, Mutations
  <2> QED BY <1>m, <2>2, <2>3, <2>4
<1>4. CASE AutoComplete
  <2>1. store.copy.kind = "work" /\ store.copy.status \in Open
    BY <1>4 DEF AutoComplete, AtZero, FocusState, Active, PageOK
  <2>2. Traced(row, recorded, Request("complete", store.copy, "effect"))
    BY <1>w, <2>1, RequestTraced DEF Open
  <2>3. PageOK([page EXCEPT !.completing = TRUE, !.pending = "completing"])
    BY PageSteps
  <2> QED BY <1>4, <1>m, <2>2, <2>3 DEF AutoComplete
<1> QED BY <1>1, <1>2, <1>3, <1>4

\* Configuring, ticking, leaving, returning and reloading.
LEMMA PageMoves ==
  ASSUME BrowserOK
  PROVE  /\ PickTask \/ TickTimer \/ Leave \/ Reload => After
         /\ \A m : SetTimerMode(m) => After
         /\ \A valid : SetDuration(valid) => After
         /\ \A linked : Return(linked) => After
<1> USE DEF BrowserOK, After
<1>s. ASSUME NEW v
      PROVE  /\ StoreOK(row, [store EXCEPT !.selected = v]) /\ StoreOK(row, [store EXCEPT !.shown = v])
             /\ StoreOK(row, [store EXCEPT !.mode = v])
             /\ StoreOK(row, [store EXCEPT !.selected = TRUE, !.preselected = TRUE])
  BY DEF StoreOK
<1>1. CASE PickTask
  BY <1>s, <1>1 DEF PickTask, Configures
<1>2. CASE TickTimer
  BY <1>s, <1>2 DEF TickTimer
<1>3. CASE Leave
  BY <1>3, FreshPages DEF Leave
<1>4. ASSUME NEW m, SetTimerMode(m) PROVE After
  BY <1>s, <1>4 DEF SetTimerMode, Configures
<1>5. ASSUME NEW valid, SetDuration(valid) PROVE After
  BY <1>5, PageSteps DEF SetDuration, Configures
<1>6. ASSUME NEW linked, Return(linked) PROVE After
  <2> DEFINE st == IF linked THEN [store EXCEPT !.selected = TRUE, !.preselected = TRUE] ELSE store
  <2>1. StoreOK(row, st) /\ CopyIn(row, cache.data)
    BY <1>s DEF CacheOK
  <2>2. StoreOK(row, IF cache.known /\ ~ cache.failed THEN Hydrate(st, cache.data) ELSE st)
    <3> HIDE DEF st
    <3> QED BY <2>1, StoreSteps
  <2>3. StoreOK(row, store') /\ PageOK(page')
    BY <1>6, <2>2, FreshPages DEF Return
  <2>4. WireOK(row, recorded, wire') /\ CacheOK(row, cache')
    BY <1>6, Refetches DEF Return
  <2> QED BY <2>3, <2>4
<1>7. CASE Reload
  <2> DEFINE sent == [i \in Slots |-> IF wire[i].stage = "sent" /\ wire[i].op \in Mutations
                                        THEN [wire[i] EXCEPT !.quiet = TRUE] ELSE Free]
             beacon == [Request("pause", store.copy, "effect") EXCEPT !.quiet = TRUE]
             left == IF Running THEN Put(sent, beacon) ELSE sent
  <2>1. WireOK(row, recorded, sent)
    <3>1. ASSUME NEW i \in Slots PROVE Traced(row, recorded, [wire[i] EXCEPT !.quiet = TRUE])
      BY DEF WireOK, Traced, IsRequest
    <3> QED BY <3>1, FreeTraced DEF WireOK
  <2>2. Running => Traced(row, recorded, beacon)
    <3>1. CopyIn(row, store.copy)
      BY DEF StoreOK
    <3> QED BY <3>1, RequestTraced DEF Running, Mutations
  <2>3. WireOK(row, recorded, left)
    <3> HIDE DEF sent, beacon
    <3> QED BY <2>1, <2>2, WirePut
  <2>4. CacheOK(row, FreshCache)
    BY NoneIsCopy DEF CacheOK, FreshCache
  <2>5. StoreOK(row, FreshStore)
    BY NoneIsCopy DEF StoreOK, FreshStore
  <2>6. Refetch(left, FreshCache) /\ store' = FreshStore /\ page' = FreshPage
    BY <1>7 DEF Reload
  <2> HIDE DEF left
  <2> QED BY <2>3, <2>4, <2>5, <2>6, WireFetch, CacheSteps, FreshPages DEF Refetch
<1> QED BY <1>1, <1>2, <1>3, <1>4, <1>5, <1>6, <1>7

\* An answer.
LEMMA AnswersKeep ==
  ASSUME BrowserOK, NEW i \in Slots, Receive(i)
  PROVE  After
<1> USE DEF BrowserOK, After
<1> DEFINE s == wire[i].session
<1>t. Traced(row, recorded, wire[i]) /\ CopyIn(row, s)
  BY DEF WireOK, Traced
<1>r. WireOK(row, recorded, Received(i))
  BY FreeTraced, WireExcept DEF Received
<1>k. CacheOK(row, Known(cache, s))
  BY <1>t, CacheSteps
<1>s. /\ StoreOK(row, Shown(store, s)) /\ StoreOK(row, ApplySession(store, s))
      /\ StoreOK(row, ClearSession(ClearPreselected(store)))
      /\ StoreOK(row, ClearPreselected(Shown(store, s)))
  BY <1>t, StoreSteps
<1>p. PageOK(Settled(i))
  <2>1. \A n : PageOK([page EXCEPT !.latest[wire[i].op] = n])
    BY PageSteps
  <2> QED BY <2>1 DEF Settled
<1> HIDE DEF s
<1>1. CASE GetAnswered(i)
  <2>1. CacheOK(row, [cache EXCEPT !.get = 0])
    BY CacheSteps
  <2>2. CacheOK(row, Known([cache EXCEPT !.get = 0], s))
    BY <1>t, <2>1, CacheSteps
  <2> QED BY <1>1, <1>r, <1>s, <2>2 DEF GetAnswered, s
<1>2. CASE StartOk(i)
  BY <1>2, <1>r, <1>k, <1>s, <1>p, PageSteps DEF StartOk, s
<1>3. CASE ResumeOrPauseOk(i) \/ DiscardOk(i)
  BY <1>3, <1>r, <1>k, <1>s, <1>p DEF ResumeOrPauseOk, DiscardOk, s
<1>4. CASE StopOk(i)
  <2>1. WireOK(row, recorded, wire') /\ CacheOK(row, cache')
    BY <1>4, <1>r, <1>k, Refetches DEF StopOk, s
  <2> QED BY <1>4, <1>s, <1>p, <2>1 DEF StopOk, s
<1>5. CASE AutoCompleteOk(i)
  <2> DEFINE asked == [None EXCEPT !.kind = "short_break", !.timed = TRUE]
             w == FetchWire(Received(i), Known(cache, s))
             n == Min(FreeSlots(w))
  <2>1. Recorded(recorded)
    BY <1>5, <1>t DEF AutoCompleteOk, Answered, Traced
  <2>2. Traced(row, recorded, Request("start", asked, "effect"))
    <3>1. asked \in Asked
      BY Requests DEF Kinds
    <3> HIDE DEF asked
    <3> QED BY <2>1, <3>1, NoneIsCopy, RequestTraced DEF Mutations
  <2>3. WireOK(row, recorded, w)
    BY <1>r, WireFetch
  <2>4. wire' = Put(w, Request("start", asked, "effect"))
    BY <1>5 DEF AutoCompleteOk, s
  <2>5. WireOK(row, recorded, wire')
    <3> HIDE DEF w, asked
    <3> QED BY <2>2, <2>3, <2>4, WirePut
  <2>6. CacheOK(row, cache')
    BY <1>5, <1>k, CacheSteps DEF AutoCompleteOk, s
  <2>7. PageOK(page')
    <3> HIDE DEF n
    <3>1. PageOK([Settled(i) EXCEPT !.pending = "transitioning", !.completing = FALSE,
                                    !.error = "none", !.latest["start"] = n])
      BY <1>p DEF PageOK
    <3> QED BY <1>5, <3>1 DEF AutoCompleteOk, n, s
  <2>8. StoreOK(row, store')
    BY <1>5, <1>s DEF AutoCompleteOk, s
  <2> QED BY <2>5, <2>6, <2>7, <2>8
<1>6. CASE FailedUnheard(i)
  BY <1>6, <1>r DEF FailedUnheard
<1>7. CASE StartFailed(i)
  <2>1. WireOK(row, recorded, wire') /\ CacheOK(row, cache')
    BY <1>7, <1>r, Refetches DEF StartFailed
  <2>2. \A e : PageOK([Settled(i) EXCEPT !.error = e, !.pending = "none"])
               /\ PageOK([Settled(i) EXCEPT !.error = e, !.pending = @])
    BY <1>p DEF PageOK
  <2> QED BY <1>7, <2>1, <2>2 DEF StartFailed
<1>8. CASE ActionFailed(i)
  <2>1. WireOK(row, recorded, wire') /\ CacheOK(row, cache')
    BY <1>8, <1>r, Refetches DEF ActionFailed
  <2> QED BY <1>8, <1>p, <2>1, PageSteps DEF ActionFailed
<1>9. CASE AutoCompleteFailed(i)
  <2>1. PageOK([Settled(i) EXCEPT !.error = "failed", !.pending = "none", !.completing = FALSE])
    BY <1>p DEF PageOK
  <2> QED BY <1>9, <1>r, <2>1 DEF AutoCompleteFailed
<1>10. CASE GetFailed(i)
  <2>1. CacheOK(row, cache')
    BY <1>10, CacheSteps DEF GetFailed
  <2> QED BY <1>10, <1>r, <2>1 DEF GetFailed
<1> QED BY <1>1, <1>2, <1>3, <1>4, <1>5, <1>6, <1>7, <1>8, <1>9, <1>10 DEF Receive

\* A request that is served or lost: what its answer carries is a copy of a row as it then is.
LEMMA ServerKeeps ==
  ASSUME BInv, Serves, Rows', Named', NEW i \in Slots, Serve(i) \/ Lose(i)
  PROVE  WireOK(row', recorded', wire')
<1> DEFINE r == wire[i]
           sid == r.session.sid
<1>1. /\ \A j \in Slots : Traced(row', recorded', wire[j])
      /\ Traced(row, recorded, r) /\ Traced(row', recorded', r)
      /\ wire = [j \in Slots |-> wire[j]]
  BY CopiesStay DEF BInv, BrowserOK, WireOK
<1>2. /\ wire' = [j \in Slots |-> wire'[j]]
      /\ \A j \in Slots \ {i} : wire'[j] = wire[j]
  BY <1>1 DEF Serve, Lose
<1>3. \A s \in Sids : CopyIn(row', row'[s])
  BY DEF Rows, Kept, Named, CopyIn
<1>4. ASSUME NEW code, code # "ok"
      PROVE  Traced(row', recorded', [r EXCEPT !.stage = "answered", !.code = code])
  BY <1>1, <1>4 DEF Traced, IsRequest
<1>5. ASSUME NEW s, CopyIn(row', s), r.op \in Mutations \ {"start"} => s.status # "absent",
             r.by = "effect" /\ r.op = "complete" => s.kind = "work" /\ Recorded(recorded')
      PROVE  Traced(row', recorded', [r EXCEPT !.stage = "answered", !.code = "ok", !.session = s])
  BY <1>1, <1>5 DEF Traced, IsRequest
<1> HIDE DEF r, sid
<1>6. CASE Lose(i)
  <2>1. wire'[i] = IF r.quiet THEN Free ELSE [r EXCEPT !.stage = "answered", !.code = "error"]
    BY <1>1, <1>6 DEF Lose, r
  <2>2. Traced(row', recorded', wire'[i])
    BY <1>4, <2>1, FreeTraced
  <2> QED BY <1>1, <1>2, <2>2 DEF WireOK
<1>7. CASE Serve(i) /\ (r.quiet \/ Code(r) # "ok")
  <2>1. wire'[i] = IF r.quiet THEN Free ELSE [r EXCEPT !.stage = "answered", !.code = Code(r)]
    <3>1. wire'[i] = IF r.quiet THEN Free ELSE [r EXCEPT !.stage = "answered", !.code = Code(r), !.session = @]
      BY <1>1, <1>7 DEF Serve, r
    <3>2. [r EXCEPT !.stage = "answered", !.code = Code(r), !.session = @]
            = [r EXCEPT !.stage = "answered", !.code = Code(r)]
      BY <1>1 DEF Traced, IsRequest
    <3> QED BY <3>1, <3>2
  <2>2. Traced(row', recorded', wire'[i])
    BY <1>4, <1>7, <2>1, FreeTraced
  <2> QED BY <1>1, <1>2, <2>2 DEF WireOK
<1>8. CASE Serve(i) /\ ~ r.quiet /\ Code(r) = "ok"
  <2> DEFINE s == Body(r)
  <2>1. Effect(r) /\ r.op # "none"
    BY <1>8 DEF Serve, r
  <2>2. /\ CopyIn(row', s) /\ (r.op \in Mutations \ {"start"} => s.status # "absent")
        /\ r.by = "effect" /\ r.op = "complete" => s.kind = "work" /\ Recorded(recorded')
    <3>1. CASE r.op = "get"
      <4>1. s = Current /\ row' = row
        BY <2>1, <3>1 DEF Body, Effect
      <4>2. OpenSids # {} => Min(OpenSids) \in OpenSids
        BY LeastSid DEF OpenSids
      <4>3. CopyIn(row', s)
        BY <1>3, <4>1, <4>2, NoneIsCopy DEF Current, OpenSids
      <4> QED BY <3>1, <4>3 DEF Mutations
    <3>2. CASE r.op = "start"
      <4>1. Unused # {}
        BY <1>8, <3>2 DEF Code
      <4>2. Min(Unused) \in Sids
        BY <4>1, LeastSid DEF Unused
      <4>3. s = row'[Min(Unused)]
        BY <3>2 DEF Body
      <4> QED BY <1>3, <3>2, <4>2, <4>3
    <3>3. CASE r.op \in Mutations \ {"start"}
      <4>1. sid \in Sids /\ row[sid].status # "absent" /\ row[sid].kind = r.session.kind
        BY <1>1, <3>3 DEF Traced, CopyIn, r, sid
      <4>2. s = row'[sid]
        BY <3>3 DEF Body, Mutations, r, sid
      <4>3. s.status # "absent" /\ s.kind = r.session.kind
        BY <4>1, <4>2, RowStays DEF BInv
      <4>4. ASSUME r.op = "complete", r.by = "effect" PROVE s.kind = "work" /\ Recorded(recorded')
        <5>1. r.session.kind = "work"
          BY <1>1, <4>4 DEF Traced
        <5>2. row[sid].status \in Open
          BY <1>8, <4>4 DEF Code, sid
        <5>3. recorded' = [recorded EXCEPT ![sid] = @ + 1]
          BY <2>1, <4>1, <4>4, <5>1, <5>2 DEF Effect, RecordsWork, sid
        <5>4. recorded \in [Sids -> Nat]
          BY DEF BInv, Rows
        <5>5. recorded'[sid] > 0
          BY <4>1, <5>3, <5>4
        <5> QED BY <4>1, <4>3, <5>1, <5>5 DEF Recorded
      <4> QED BY <1>3, <4>1, <4>2, <4>3, <4>4
    <3> QED BY <2>1, <3>1, <3>2, <3>3 DEF Effect, Mutations
  <2>3. wire'[i] = [r EXCEPT !.stage = "answered", !.code = "ok", !.session = s]
    BY <1>1, <1>8 DEF Serve, r
  <2>4. Traced(row', recorded', wire'[i])
    <3> HIDE DEF s
    <3> QED BY <1>5, <2>2, <2>3
  <2> QED BY <1>1, <1>2, <2>4 DEF WireOK
<1> QED BY <1>6, <1>7, <1>8

LEMMA BInit == Init => BInv
<1> SUFFICES ASSUME Init PROVE BInv
  OBVIOUS
<1>1. Rows /\ Wired(wire)
  BY InitRows, InitWired
<1>2. Named
  BY DEF Init, Named, None
<1>3. WireOK(row, recorded, wire)
  <2>1. Traced(row, recorded, Request("get", None, "effect")) /\ Traced(row, recorded, Free)
    BY RequestTraced, NoneIsCopy, FreeTraced DEF Mutations
  <2> QED BY <2>1 DEF Init, WireOK
<1>4. CacheOK(row, cache)
  BY NoneIsCopy DEF Init, CacheOK, FreshCache
<1>5. StoreOK(row, store)
  <2>1. ASSUME NEW b PROVE StoreOK(row, [FreshStore EXCEPT !.selected = b, !.preselected = b])
    BY NoneIsCopy DEF StoreOK, FreshStore
  <2> QED BY <2>1 DEF Init
<1>6. PageOK(page)
  BY FreshPages DEF Init
<1> QED BY <1>1, <1>2, <1>3, <1>4, <1>5, <1>6 DEF BInv, BrowserOK

LEMMA BStep == ASSUME BInv, [Next]_vars PROVE BInv'
<1>1. Serves /\ Rows' /\ Named' /\ Wired(wire)'
  BY StepServes, ServesKeeps, NamedKept, StepWired DEF BInv
<1> SUFFICES BrowserOK'
  BY <1>1 DEF BInv
<1>2. ASSUME After, UNCHANGED server PROVE BrowserOK'
  BY <1>2 DEF After, BrowserOK, server
<1>3. CacheOK(row', cache) /\ StoreOK(row', store)
  BY <1>1, CopiesStay DEF BInv, BrowserOK, CacheOK, StoreOK
<1>4. CASE UNCHANGED <<wire, cache, store, page>>
  <2>1. WireOK(row', recorded', wire)
    BY <1>1, CopiesStay DEF BInv, BrowserOK, WireOK
  <2> QED BY <1>3, <1>4, <2>1 DEF BInv, BrowserOK
<1>5. ASSUME NEW i \in Slots, Serve(i) \/ Lose(i) PROVE BrowserOK'
  <2>1. WireOK(row', recorded', wire')
    BY <1>1, <1>5, ServerKeeps
  <2>2. UNCHANGED <<cache, store, page>>
    BY <1>5 DEF Serve, Lose
  <2> QED BY <1>3, <2>1, <2>2 DEF BInv, BrowserOK
<1>6. ASSUME NEW i \in Slots, Receive(i) PROVE BrowserOK'
  <2>1. UNCHANGED server
    BY <1>6 DEF Receive, GetAnswered, GetFailed, StartOk, ResumeOrPauseOk, DiscardOk, StopOk, AutoCompleteOk, FailedUnheard,
       StartFailed, ActionFailed, AutoCompleteFailed, Answered
  <2> QED BY <1>2, <1>6, <2>1, AnswersKeep DEF BInv
<1>7. CASE OnStart \/ OnPause \/ OnResume \/ OnStop \/ OnDiscard \/ AutoComplete \/ (\E kind \in Kinds \ {"work"} : OnBreak(kind))
  <2>1. UNCHANGED server
    BY <1>7 DEF OnStart, OnPause, OnResume, OnStop, OnDiscard, AutoComplete, OnBreak, UserActs, OnPage
  <2> QED BY <1>2, <1>7, <2>1, PageActs DEF BInv
<1>8. CASE PickTask \/ TickTimer \/ Leave \/ Reload \/ (\E m \in {"pomodoro", "stopwatch"} : SetTimerMode(m))
           \/ (\E valid \in BOOLEAN : SetDuration(valid)) \/ (\E linked \in BOOLEAN : Return(linked))
  <2>1. UNCHANGED server
    BY <1>8 DEF PickTask, TickTimer, Leave, Reload, SetTimerMode, SetDuration, Return, Configures, UserActs, OnPage
  <2> QED BY <1>2, <1>8, <2>1, PageMoves DEF BInv
<1>9. CASE OtherTab \/ Clock \/ (\E s \in Sids : Expire(s)) \/ UNCHANGED vars
  BY <1>4, <1>9 DEF vars, Expire, OtherTab, Clock
<1> QED BY <1>5, <1>6, <1>7, <1>8, <1>9 DEF Next

\* A break the page starts by itself follows a session of work the server has recorded: a
\* completion that failed, or was served for another session, starts none (the callback of
\* FocusPage.tsx:119 is onSuccess), for any number of sessions, requests, losses and tabs.
THEOREM BreakAfterRecord == Spec => BreakFollowsRecord
<1>1. ASSUME BInv, [Next]_vars, NEW i \in Slots,
             wire'[i].op = "start", wire'[i].by = "effect", wire[i] # wire'[i]
      PROVE  Recorded(recorded)
  <2>1. Recorded(recorded')
    BY <1>1, BStep DEF BInv, BrowserOK, WireOK, Traced
  <2>2. CASE recorded' = recorded
    BY <2>1, <2>2
  <2>3. ASSUME NEW j \in Slots, Serve(j) PROVE Recorded(recorded)
    <3>1. j = i
      BY <1>1, <2>3 DEF Serve, BInv, Wired
    <3>2. wire[i].op = "start" /\ wire[i].by = "effect"
      <4>1. IsRequest(wire[i]) /\ wire = [k \in Slots |-> wire[k]]
        BY <1>1 DEF BInv, Wired, Asks
      <4>2. ASSUME NEW code, NEW s
            PROVE  LET r == [wire[i] EXCEPT !.stage = "answered", !.code = code, !.session = s]
                   IN  r.op = wire[i].op /\ r.by = wire[i].by
        BY <4>1 DEF IsRequest
      <4>3. wire'[i] = Free \/ (wire'[i].op = wire[i].op /\ wire'[i].by = wire[i].by)
        BY <2>3, <3>1, <4>1, <4>2 DEF Serve
      <4>4. wire'[i] # Free
        BY <1>1 DEF Free
      <4> QED BY <1>1, <4>3, <4>4
    <3> QED BY <1>1, <3>2 DEF BInv, BrowserOK, WireOK, Traced
  <2>4. CASE UNCHANGED wire
    BY <1>1, <2>4
  <2>5. ASSUME NEW j \in Slots, Receive(j) PROVE UNCHANGED recorded
    BY <2>5 DEF Receive, GetAnswered, GetFailed, StartOk, ResumeOrPauseOk, DiscardOk, StopOk, AutoCompleteOk, FailedUnheard,
       StartFailed, ActionFailed, AutoCompleteFailed, Answered, server
  <2>6. CASE \/ OnStart \/ OnPause \/ OnResume \/ OnStop \/ OnDiscard \/ AutoComplete
             \/ \E kind \in Kinds \ {"work"} : OnBreak(kind)
             \/ Reload \/ \E linked \in BOOLEAN : Return(linked)
             \/ \E k \in Slots : Lose(k)
    <3> recorded' = recorded
      BY <2>6 DEF server, OnStart, OnBreak, OnPause, OnResume, OnStop, OnDiscard, AutoComplete, Return, Reload,
         Lose, UserActs, OnPage
    <3> QED BY <2>2
  <2>7. CASE \/ PickTask \/ TickTimer \/ Leave \/ OtherTab \/ Clock \/ UNCHANGED vars
             \/ \E m \in {"pomodoro", "stopwatch"} : SetTimerMode(m)
             \/ \E valid \in BOOLEAN : SetDuration(valid)
             \/ \E s \in Sids : Expire(s)
    BY <2>4, <2>7 DEF vars, PickTask, SetTimerMode, SetDuration, Configures, TickTimer, Leave, Expire, OtherTab, Clock
  <2> QED BY <1>1, <2>2, <2>3, <2>5, <2>6, <2>7 DEF Next
<1>2. BInv /\ [Next]_vars
        => \A i \in Slots : wire'[i].op = "start" /\ wire'[i].by = "effect" /\ wire[i] # wire'[i]
                              => \E s \in Sids : recorded[s] > 0
  BY <1>1 DEF Recorded
<1>3. BInv /\ [Next]_vars => BInv'
  BY BStep
<1> QED BY BInit, <1>2, <1>3, PTL DEF Spec, BreakFollowsRecord

=============================================================================
