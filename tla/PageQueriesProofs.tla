------------------------- MODULE PageQueriesProofs -------------------------
(***************************************************************************)
(* Proofs about Pages, for any bounds and any values of the constants that *)
(* its assumptions allow: what the queries of the dashboard, the notes,    *)
(* the tasks and the reminders of a note have, and that they settle.       *)
(***************************************************************************)
EXTENDS Pages, WellFoundedInduction, TLAPS

-----------------------------------------------------------------------------
(* A query *)

Q == INSTANCE Query

\* A query is a record with the fields of Opened, whatever its data.
IsQuery(q) ==
  /\ q \in [known : BOOLEAN, stale : BOOLEAN, missed : BOOLEAN, late : BOOLEAN,
            stage : {"idle", "sent", "served"}, data : {q.data}, reply : {q.reply}]
  /\ q.late => q.stage = "served"

\* What a query has, or has on its way, is d; nothing is said of one that is
\* to be fetched, or that missed something.
Fresh(q, d) ==
  /\ q.stage = "idle" /\ q.known /\ ~ q.stale /\ ~ q.missed => q.data = d
  /\ q.stage = "served" /\ ~ q.late => q.reply = d

\* A query that is observed is not left stale, unless it missed something.
Kept(q) == q.stage = "idle" => (q.known /\ ~ q.stale) \/ q.missed

\* A query when its page opens: it claims nothing, or what it was loaded with.
LEMMA OpenedIs ==
  ASSUME NEW d
  PROVE  /\ IsQuery(Q!Opened(d)) /\ IsQuery(Q!Unopened(d)) /\ IsQuery(Q!Loaded(d))
         /\ Q!Opened(d).data = d /\ Q!Unopened(d).data = d /\ Q!Loaded(d).data = d
         /\ Q!Opened(d).stage = "sent" /\ Q!Unopened(d).stage = "idle" /\ Q!Loaded(d).stage = "idle"
         /\ \A e : Fresh(Q!Opened(d), e) /\ Fresh(Q!Unopened(d), e)
         /\ Fresh(Q!Loaded(d), d) /\ Kept(Q!Opened(d)) /\ Kept(Q!Loaded(d))
         /\ Q!Loaded(d).known /\ ~ Q!Loaded(d).missed
  BY DEF Q!Opened, Q!Unopened, Q!Loaded, IsQuery, Fresh, Kept

\* An invalidated query claims nothing: it is fetched again, marked or missed.
LEMMA InvalidateIs ==
  ASSUME NEW q, IsQuery(q), NEW observed \in BOOLEAN
  PROVE  /\ IsQuery(Q!Invalidate(q, observed))
         /\ Q!Invalidate(q, observed).data = q.data
         /\ \A d : Fresh(Q!Invalidate(q, observed), d)
         /\ observed => Kept(Q!Invalidate(q, observed))
         /\ Q!Invalidate(q, observed).known = q.known
  BY DEF Q!Invalidate, Q!FetchAgain, Q!Idle, IsQuery, Fresh, Kept

\* Nor does a query whose page has not heard of a mutation.
LEMMA UnheardIs ==
  ASSUME NEW q, IsQuery(q)
  PROVE  /\ IsQuery(Q!Unheard(q)) /\ (Kept(q) => Kept(Q!Unheard(q)))
         /\ Q!Unheard(q).data = q.data /\ Q!Unheard(q).reply = q.reply
         /\ Q!Unheard(q).stage = q.stage /\ Q!Unheard(q).known = q.known
         /\ Q!Unheard(q).missed
         /\ \A d : Fresh(Q!Unheard(q), d)
  BY DEF Q!Unheard, IsQuery, Fresh, Kept

\* A component that mounts fetches what is stale or not there yet.
LEMMA ObserveIs ==
  ASSUME NEW q, IsQuery(q)
  PROVE  /\ IsQuery(Q!Observe(q)) /\ Kept(Q!Observe(q))
         /\ Q!Observe(q).data = q.data
         /\ \A d : Fresh(q, d) => Fresh(Q!Observe(q), d)
  BY DEF Q!Observe, Q!FetchAgain, Q!Idle, IsQuery, Fresh, Kept

\* What is served is what the server has.
LEMMA ServeIs ==
  ASSUME NEW q, IsQuery(q), NEW d
  PROVE  /\ IsQuery(Q!Serve(q, d)) /\ Kept(Q!Serve(q, d)) /\ Fresh(Q!Serve(q, d), d)
         /\ Q!Serve(q, d).data = q.data /\ Q!Serve(q, d).reply = d
         /\ Q!Serve(q, d).known = q.known /\ Q!Serve(q, d).missed = q.missed
  BY DEF Q!Serve, IsQuery, Fresh, Kept

\* What lands has been served.
LEMMA LandIs ==
  ASSUME NEW q, IsQuery(q), q.stage = "served"
  PROVE  /\ IsQuery(Q!Land(q)) /\ Kept(Q!Land(q))
         /\ Q!Land(q).data = q.reply /\ Q!Land(q).stage = "idle"
         /\ \A d : Fresh(q, d) => Fresh(Q!Land(q), d)
         /\ Q!Land(q).known
  BY DEF Q!Land, IsQuery, Fresh, Kept

\* A fetch that fails leaves the data, which claim nothing.
LEMMA FetchFailsIs ==
  ASSUME NEW q, IsQuery(q)
  PROVE  /\ IsQuery(Q!FetchFails(q)) /\ Kept(Q!FetchFails(q))
         /\ Q!FetchFails(q).data = q.data /\ Q!FetchFails(q).stage = "idle"
         /\ Q!FetchFails(q).known = q.known /\ Q!FetchFails(q).missed
         /\ \A d : Fresh(Q!FetchFails(q), d)
  BY DEF Q!FetchFails, IsQuery, Fresh, Kept

-----------------------------------------------------------------------------
(* The requests in flight *)

IsRequest(r) == r = [f \in DOMAIN r |-> r[f]] /\ {"op", "stage"} \subseteq DOMAIN r
IsNet(n) == n \in [Slots -> {n[i] : i \in Slots}] /\ \A i \in Slots : IsRequest(n[i])

\* No mutation has been done whose answer is still on its way.
NoneDone(n) == \A i \in Slots : n[i].stage # "done"

\* The least free slot is one.
LEMMA MinFree ==
  ASSUME NEW S \in SUBSET Slots, S # {}
  PROVE  Q!Min(S) \in S
  <1> DEFINE R == OpToRel(<, Nat)
  <1>1. S \subseteq Nat
    BY SlotsAssumption
  <1>2. \E d \in S : \A e \in S : ~ (<<e, d>> \in R)
    BY <1>1, NatLessThanWellFounded, WFMin
  <1>3. \E x \in S : \A y \in S : x <= y
    <2>1. PICK d \in S : \A e \in S : ~ (<<e, d>> \in R)
      BY <1>2
    <2>2. \A e \in S : ~ (e < d)
      BY <1>1, <2>1 DEF OpToRel
    <2> QED BY <1>1, <2>2
  <1> QED BY <1>3 DEF Q!Min

\* A request is sent from a free slot.
LEMMA SendIs ==
  ASSUME NEW n, IsNet(n), Q!FreeSlots(n) # {}, NEW r, IsRequest(r)
  PROVE  \E i \in Slots : /\ i = Q!Min(Q!FreeSlots(n)) /\ n[i] = Q!Free
                          /\ Q!Send(n, r)[i] = r
                          /\ \A j \in Slots \ {i} : Q!Send(n, r)[j] = n[j]
                          /\ IsNet(Q!Send(n, r))
  <1> DEFINE i == Q!Min(Q!FreeSlots(n))
             m == Q!Send(n, r)
  <1>1. Q!FreeSlots(n) \in SUBSET Slots
    BY DEF Q!FreeSlots, IsNet
  <1>2. i \in Slots /\ n[i] = Q!Free
    BY <1>1, MinFree DEF Q!FreeSlots
  <1>3. m = [n EXCEPT ![i] = r]
    BY DEF Q!Send
  <1> HIDE DEF i, m
  <1>4. m[i] = r /\ \A j \in Slots \ {i} : m[j] = n[j]
    BY <1>2, <1>3 DEF IsNet
  <1>5. IsNet(m)
    <2>1. DOMAIN m = Slots /\ m = [j \in Slots |-> m[j]]
      BY <1>2, <1>3 DEF IsNet
    <2>2. \A j \in Slots : IsRequest(m[j])
      BY <1>4 DEF IsNet
    <2> QED BY <2>1, <2>2 DEF IsNet
  <1> QED BY <1>2, <1>4, <1>5 DEF i, m

\* A free slot holds a request, too.
LEMMA FreeIs == IsRequest(Q!Free) /\ Q!Free.stage = "free" /\ Q!Free.op = "none"
  BY DEF Q!Free, IsRequest

\* Settling frees one slot.
LEMMA SettleIs ==
  ASSUME NEW n, IsNet(n), NEW i \in Slots
  PROVE  /\ IsNet(Q!Settle(n, i)) /\ Q!Settle(n, i)[i] = Q!Free
         /\ \A j \in Slots \ {i} : Q!Settle(n, i)[j] = n[j]
  <1> DEFINE m == Q!Settle(n, i)
  <1>3. m = [n EXCEPT ![i] = Q!Free]
    BY DEF Q!Settle
  <1> HIDE DEF m
  <1>4. m[i] = Q!Free /\ \A j \in Slots \ {i} : m[j] = n[j]
    BY <1>3 DEF IsNet
  <1>1. DOMAIN m = Slots /\ m = [j \in Slots |-> m[j]]
    BY <1>3 DEF IsNet
  <1>2. \A j \in Slots : IsRequest(m[j])
    BY <1>4, FreeIs DEF IsNet
  <1> QED BY <1>1, <1>2, <1>4 DEF IsNet, m

\* A request goes on to another stage.
Staged(n, i, stage) == [n EXCEPT ![i].stage = stage]

\* Going on to another stage changes nothing else of a request, and no other.
LEMMA StageIs ==
  ASSUME NEW n, IsNet(n), NEW i \in Slots, NEW stage
  PROVE  LET m == Staged(n, i, stage)
         IN /\ IsNet(m) /\ DOMAIN m[i] = DOMAIN n[i] /\ m[i].stage = stage
            /\ \A f \in DOMAIN n[i] \ {"stage"} : m[i][f] = n[i][f]
            /\ \A j \in Slots \ {i} : m[j] = n[j]
  BY DEF IsNet, IsRequest, Staged

\* With nothing in flight no mutation waits for its answer.
LEMMA QuietIs ==
  ASSUME NEW n, IsNet(n)
  PROVE  Q!Quiet(n) => NoneDone(n)
  BY FreeIs DEF Q!Quiet, Q!FreeSlots, NoneDone, IsNet

\* A request that is sent, goes on or settles leaves a mutation done, or
\* there was none before.
LEMMA SendNone ==
  ASSUME NEW n, IsNet(n), Q!FreeSlots(n) # {}, NEW r, IsRequest(r), r.stage = "sent"
  PROVE  IsNet(Q!Send(n, r)) /\ (NoneDone(Q!Send(n, r)) => NoneDone(n))
  <1> DEFINE m == Q!Send(n, r)
  <1>1. PICK i \in Slots : /\ n[i] = Q!Free /\ m[i] = r /\ IsNet(m)
                          /\ \A j \in Slots \ {i} : m[j] = n[j]
    BY SendIs
  <1> HIDE DEF m
  <1>2. NoneDone(m) => NoneDone(n)
    BY <1>1, FreeIs DEF NoneDone
  <1> QED BY <1>1, <1>2 DEF m

\* The same of a request that goes on to another stage.
LEMMA StageNone ==
  ASSUME NEW n, IsNet(n), NEW i \in Slots, NEW stage
  PROVE  /\ IsNet(Staged(n, i, stage))
         /\ NoneDone(Staged(n, i, stage)) => stage # "done"
         /\ NoneDone(Staged(n, i, stage)) /\ n[i].stage # "done" => NoneDone(n)
  <1> DEFINE m == Staged(n, i, stage)
  <1>1. IsNet(m) /\ m[i].stage = stage /\ \A j \in Slots \ {i} : m[j] = n[j]
    BY StageIs
  <1> HIDE DEF m
  <1>2. /\ NoneDone(m) => stage # "done"
        /\ NoneDone(m) /\ n[i].stage # "done" => NoneDone(n)
    BY <1>1 DEF NoneDone
  <1> QED BY <1>1, <1>2 DEF m

\* The same of a request that settles.
LEMMA SettleNone ==
  ASSUME NEW n, IsNet(n), NEW i \in Slots
  PROVE  /\ IsNet(Q!Settle(n, i))
         /\ NoneDone(Q!Settle(n, i)) /\ n[i].stage # "done" => NoneDone(n)
  <1> DEFINE m == Q!Settle(n, i)
  <1>1. IsNet(m) /\ \A j \in Slots \ {i} : m[j] = n[j]
    BY SettleIs
  <1> HIDE DEF m
  <1>2. NoneDone(m) /\ n[i].stage # "done" => NoneDone(n)
    BY <1>1 DEF NoneDone
  <1> QED BY <1>1, <1>2 DEF m

\* A request that is lost fails.  Either its mutation has happened, and no
\* query claims anything any more, or a mutation is done that was before.
LEMMA LoseNone ==
  ASSUME NEW n, IsNet(n), NEW i \in Slots, Q!Losable(n, i)
  PROVE  /\ IsNet(Q!Lost(n, i))
         /\ NoneDone(Q!Lost(n, i)) /\ n[i].stage # "done" => NoneDone(n)
         /\ \A q : IsQuery(q) =>
              LET r == Q!AfterLoss(n, i, q)
              IN /\ IsQuery(r) /\ (Kept(q) => Kept(r))
                 /\ r.data = q.data /\ r.reply = q.reply
                 /\ r.stage = q.stage /\ r.known = q.known
                 /\ n[i].stage = "done" => r.missed /\ \A d : Fresh(r, d)
                 /\ n[i].stage # "done" => r = q
  <1>1. Q!Lost(n, i) = Staged(n, i, "failed")
    BY DEF Q!Lost, Staged
  <1> QED BY <1>1, StageNone, UnheardIs DEF Q!AfterLoss

-----------------------------------------------------------------------------
(* The dashboard *)

DashboardInv ==
  /\ IsNet(net) /\ \A i \in Slots : net[i] = Q!Free \/ net[i].op = "save"
  /\ IsQuery(query) /\ Kept(query)
  /\ NoneDone(net) => Fresh(query, db)

\* The dashboard's queries and mutations are those of Query.
LEMMA DashboardQuery ==
  /\ \A q, o : Dashboard!Invalidate(q, o) = Q!Invalidate(q, o)
  /\ \A q, d : Dashboard!Serve(q, d) = Q!Serve(q, d)
  /\ \A q : Dashboard!Land(q) = Q!Land(q) /\ Dashboard!Idle(q) = Q!Idle(q)
  /\ \A d : Dashboard!Opened(d) = Q!Opened(d)
  /\ \A n, r : Dashboard!Send(n, r) = Q!Send(n, r)
  /\ \A n, i : Dashboard!Settle(n, i) = Q!Settle(n, i)
  /\ \A n : Dashboard!Quiet(n) = Q!Quiet(n)
  /\ Dashboard!Free = Q!Free
  /\ \A q : Dashboard!FetchFails(q) = Q!FetchFails(q)
  /\ \A n, i : Dashboard!Losable(n, i) = Q!Losable(n, i) /\ Dashboard!Lost(n, i) = Q!Lost(n, i)
  /\ \A n, i, q : Dashboard!AfterLoss(n, i, q) = Q!AfterLoss(n, i, q)
  BY DEF Dashboard!Invalidate, Dashboard!Serve, Dashboard!Land, Dashboard!Idle, Dashboard!Opened,
         Dashboard!Send, Dashboard!Settle, Dashboard!Quiet, Dashboard!Free, Dashboard!FreeSlots,
         Dashboard!FetchAgain, Dashboard!Min, Dashboard!FetchFails, Dashboard!Losable, Dashboard!Lost,
         Dashboard!AfterLoss, Dashboard!Unheard, Q!FetchFails, Q!Losable, Q!Lost, Q!AfterLoss, Q!Unheard,
         Q!Invalidate, Q!Serve, Q!Land, Q!Idle, Q!Opened, Q!Send, Q!Settle, Q!Quiet, Q!Free,
         Q!FreeSlots, Q!FetchAgain, Q!Min

\* The dashboard opens with nothing in flight, and its layout on its way.
LEMMA DashboardInit == Dashboard!Init => DashboardInv
  <1> SUFFICES ASSUME Dashboard!Init PROVE DashboardInv
    OBVIOUS
  <1>1. net = [i \in Slots |-> Q!Free] /\ query = Q!Opened(<<>>)
    BY DashboardQuery DEF Dashboard!Init
  <1>2. IsNet(net)
    BY <1>1, FreeIs DEF IsNet
  <1> QED BY <1>1, <1>2, OpenedIs DEF DashboardInv

\* A save that is done claims nothing of the query, and its answer fetches again.
LEMMA DashboardStep == DashboardInv /\ [Dashboard!Next]_vars => DashboardInv'
  <1> SUFFICES ASSUME DashboardInv, [Dashboard!Next]_vars PROVE DashboardInv'
    OBVIOUS
  <1> USE DEF DashboardInv
  <1>1. CASE UNCHANGED vars
    BY <1>1 DEF vars, IsNet, IsRequest, NoneDone
  <1>2. CASE Dashboard!StartCustomizing \/ Dashboard!Cancel
    BY <1>2 DEF Dashboard!StartCustomizing, Dashboard!Cancel, IsNet, IsRequest, NoneDone
  <1>3. ASSUME NEW id, Dashboard!DragStart(id) \/ Dashboard!Drop(id) PROVE DashboardInv'
    BY <1>3 DEF Dashboard!DragStart, Dashboard!Drop, IsNet, IsRequest, NoneDone
  <1>4. CASE Dashboard!Save
    <2> DEFINE r == [op |-> "save", stage |-> "sent", layout |-> view.currentOrder]
    <2>1. net' = Q!Send(net, r) /\ UNCHANGED <<db, query>>
      BY <1>4, DashboardQuery DEF Dashboard!Save
    <2>2. IsRequest(r) /\ r.op = "save" /\ r.stage = "sent"
      BY DEF IsRequest
    <2> HIDE DEF r
    <2>3. \A i \in Slots : net[i] = Q!Free
      BY <1>4 DEF Dashboard!Save, Dashboard!Pending, IsNet
    <2>4. Q!FreeSlots(net) # {}
      BY <2>3, SlotsAssumption DEF Q!FreeSlots, IsNet
    <2>5. PICK i \in Slots : /\ net[i] = Q!Free /\ net'[i] = r
                             /\ \A j \in Slots \ {i} : net'[j] = net[j]
                             /\ IsNet(net')
      BY <2>1, <2>2, <2>4, SendIs
    <2>6. NoneDone(net') => NoneDone(net)
      BY <2>5, FreeIs DEF NoneDone
    <2> QED BY <2>1, <2>2, <2>5, <2>6 DEF IsNet, IsRequest, NoneDone
  <1>5. ASSUME NEW i \in Slots, Dashboard!ServeSave(i) PROVE DashboardInv'
    <2>1. PICK stage \in {"done", "failed"} :
            /\ net' = Staged(net, i, stage)
            /\ stage = "failed" => UNCHANGED db
      BY <1>5 DEF Dashboard!ServeSave, Staged
    <2>2. net[i].op = "save" /\ net[i].stage = "sent" /\ UNCHANGED query
      BY <1>5 DEF Dashboard!ServeSave
    <2>3. {"op", "stage"} \subseteq DOMAIN net[i]
      BY DEF IsNet, IsRequest
    <2>4. IsNet(net') /\ net'[i].op = "save" /\ net'[i].stage = stage
      BY <2>1, <2>2, <2>3, StageIs
    <2>5. \A j \in Slots \ {i} : net'[j] = net[j]
      BY <2>1, StageIs
    <2>6. NoneDone(net') => NoneDone(net) /\ UNCHANGED db
      BY <2>1, <2>2, <2>4, <2>5 DEF NoneDone
    <2> QED BY <2>2, <2>4, <2>5, <2>6
  <1>6. ASSUME NEW i \in Slots, Dashboard!SaveAccepted(i) PROVE DashboardInv'
    <2>1. /\ net' = Staged(net, i, "refetching") /\ net[i].stage = "done"
          /\ query' = Q!Invalidate(query, TRUE) /\ UNCHANGED db
      BY <1>6, DashboardQuery DEF Dashboard!SaveAccepted, Staged
    <2>2. {"op", "stage"} \subseteq DOMAIN net[i] /\ net[i].op = "save"
      BY <2>1, FreeIs DEF IsNet, IsRequest
    <2>3. IsNet(net') /\ net'[i].op = "save"
      BY <2>1, <2>2, StageIs
    <2>4. \A j \in Slots \ {i} : net'[j] = net[j]
      BY <2>1, StageIs
    <2>5. IsQuery(query') /\ Kept(query') /\ Fresh(query', db')
      BY <2>1, InvalidateIs
    <2> QED BY <2>3, <2>4, <2>5
  <1>7. ASSUME NEW i \in Slots, Dashboard!SaveRefused(i) PROVE DashboardInv'
    <2>1. net' = Q!Settle(net, i) /\ net[i].stage = "failed" /\ UNCHANGED <<db, query>>
      BY <1>7, DashboardQuery DEF Dashboard!SaveRefused
    <2>2. IsNet(net') /\ net'[i] = Q!Free /\ \A j \in Slots \ {i} : net'[j] = net[j]
      BY <2>1, SettleIs
    <2>3. NoneDone(net') => NoneDone(net)
      BY <2>1, <2>2 DEF NoneDone
    <2> QED BY <2>1, <2>2, <2>3
  <1>8. CASE Dashboard!ServeQuery
    <2>1. query' = Q!Serve(query, db) /\ UNCHANGED <<db, net>>
      BY <1>8, DashboardQuery DEF Dashboard!ServeQuery
    <2> QED BY <2>1, ServeIs DEF IsNet, IsRequest, NoneDone
  <1>9. CASE Dashboard!LandQuery
    <2>1. /\ query' = Q!Land(query) /\ query.stage = "served" /\ UNCHANGED db
          /\ net' = [i \in Slots |-> IF net[i].stage = "refetching" THEN Q!Free ELSE net[i]]
      BY <1>9, DashboardQuery DEF Dashboard!LandQuery, Dashboard!Fetched
    <2>2. IsNet(net') /\ \A i \in Slots : net'[i] \in {Q!Free, net[i]}
      BY <2>1, FreeIs DEF IsNet
    <2>3. NoneDone(net') => NoneDone(net)
      BY <2>1 DEF NoneDone
    <2> QED BY <2>1, <2>2, <2>3, LandIs
  <1>10. CASE Dashboard!FailQuery
    <2>1. /\ query' = Q!FetchFails(query) /\ UNCHANGED db
          /\ net' = [i \in Slots |-> IF net[i].stage = "refetching" THEN Q!Free ELSE net[i]]
      BY <1>10, DashboardQuery DEF Dashboard!FailQuery, Dashboard!Fetched
    <2>2. IsNet(net') /\ \A i \in Slots : net'[i] \in {Q!Free, net[i]}
      BY <2>1, FreeIs DEF IsNet
    <2> QED BY <2>1, <2>2, FetchFailsIs
  <1>11. ASSUME NEW i \in Slots, Dashboard!Lose(i) PROVE DashboardInv'
    <2>1. /\ net' = Staged(net, i, "failed") /\ net' = Q!Lost(net, i) /\ Q!Losable(net, i)
          /\ query' = Q!AfterLoss(net, i, query) /\ UNCHANGED db
      BY <1>11, DashboardQuery DEF Dashboard!Lose, Q!Lost, Staged
    <2>2. {"op", "stage"} \subseteq DOMAIN net[i] /\ net[i].op = "save"
      BY <2>1, FreeIs DEF IsNet, IsRequest, Q!Losable
    <2>3. IsNet(net') /\ net'[i].op = "save" /\ \A j \in Slots \ {i} : net'[j] = net[j]
      BY <2>1, <2>2, StageIs
    <2>4. IsQuery(query') /\ Kept(query') /\ (NoneDone(net') => Fresh(query', db'))
      BY <2>1, LoseNone
    <2> QED BY <2>3, <2>4
  <1> QED BY <1>1, <1>2, <1>3, <1>4, <1>5, <1>6, <1>7, <1>8, <1>9, <1>10, <1>11 DEF Dashboard!Next

\* Quiet and idle, the dashboard has what is stored.
LEMMA DashboardSettles == DashboardInv => Dashboard!LayoutSettles
  BY DashboardQuery, QuietIs DEF DashboardInv, Dashboard!LayoutSettles, Q!Idle, Fresh, Kept, IsQuery

-----------------------------------------------------------------------------
(* The notes page *)

\* The notes page's queries and mutations are those of Query.
LEMMA NotesQuery ==
  /\ \A q, o : Notes!Invalidate(q, o) = Q!Invalidate(q, o)
  /\ \A q : Notes!Observe(q) = Q!Observe(q)
  /\ \A q, d : Notes!Serve(q, d) = Q!Serve(q, d)
  /\ \A q : Notes!Land(q) = Q!Land(q) /\ Notes!Idle(q) = Q!Idle(q)
  /\ \A d : Notes!Opened(d) = Q!Opened(d) /\ Notes!Unopened(d) = Q!Unopened(d)
  /\ \A n, r : Notes!Send(n, r) = Q!Send(n, r)
  /\ \A n, i : Notes!Settle(n, i) = Q!Settle(n, i)
  /\ \A n : Notes!Quiet(n) = Q!Quiet(n) /\ Notes!FreeSlots(n) = Q!FreeSlots(n)
  /\ Notes!Free = Q!Free
  /\ \A q : Notes!FetchFails(q) = Q!FetchFails(q)
  /\ \A n, i : Notes!Losable(n, i) = Q!Losable(n, i) /\ Notes!Lost(n, i) = Q!Lost(n, i)
  /\ \A n, i, q : Notes!AfterLoss(n, i, q) = Q!AfterLoss(n, i, q)
  BY DEF Notes!Invalidate, Notes!Observe, Notes!Serve, Notes!Land, Notes!Idle, Notes!Opened,
         Notes!Unopened, Notes!Send, Notes!Settle, Notes!Quiet, Notes!Free, Notes!FreeSlots,
         Notes!FetchAgain, Notes!Min, Notes!FetchFails, Notes!Losable, Notes!Lost,
         Notes!AfterLoss, Notes!Unheard, Q!FetchFails, Q!Losable, Q!Lost, Q!AfterLoss, Q!Unheard,
         Q!Invalidate, Q!Observe, Q!Serve, Q!Land, Q!Idle, Q!Opened, Q!Unopened, Q!Send,
         Q!Settle, Q!Quiet, Q!Free, Q!FreeSlots, Q!FetchAgain, Q!Min

Searches == Notes!Searches

\* A form that is shown is about the note it is named after.
IsForm(f) ==
  /\ f \in [key : {f.key}, about : {f.about}, slot : {f.slot}, error : {f.error}, title : {f.title}]
  /\ f.key # Notes!None /\ f.about = f.key

IsNotesView(v) ==
  /\ v \in [local : Searches, search : Searches, selected : {v.selected},
            editing : {v.editing}, preview : {v.preview}, form : {v.form}]
  /\ v.form = Notes!NoForm \/ IsForm(v.form)

NotesInv ==
  /\ IsNet(net)
  /\ IsNotesView(view) /\ view.form.key = Notes!FormKey(view, query)
  /\ DOMAIN query = Searches /\ query = [s \in Searches |-> query[s]]
  /\ \A s \in Searches : IsQuery(query[s])
  /\ Kept(query[view.search])
  /\ NoneDone(net) => \A s \in Searches : Fresh(query[s], Notes!Found(s))

\* What is shown depends on the list and the ids the page remembers.
LEMMA FormKeyIs ==
  ASSUME NEW v, NEW w, NEW qs, NEW rs, qs[v.search].data = rs[w.search].data,
         v.selected = w.selected, v.editing = w.editing, v.preview = w.preview
  PROVE  Notes!FormKey(v, qs) = Notes!FormKey(w, rs)
  BY DEF Notes!FormKey, Notes!Previewed, Notes!ActiveNote, Notes!Listed, Notes!SelectedNote

\* After a rendering the form is the one for what is shown.
LEMMA RenderedIs ==
  ASSUME NEW v, IsNotesView(v), NEW qs
  PROVE  LET w == Notes!Rendered(v, qs)
         IN IsNotesView(w) /\ w.search = v.search /\ w.form.key = Notes!FormKey(w, qs)
  <1> DEFINE key == Notes!FormKey(v, qs)
             w == Notes!Rendered(v, qs)
  <1>1. key # Notes!None => key = Notes!FormNote(v, qs)
    BY DEF Notes!FormKey, Notes!FormNote
  <1>2. \A about, notes :
          LET f == Notes!Mounted(about, about, notes) IN f.key = about /\ (about # Notes!None => IsForm(f))
    BY DEF Notes!Mounted, IsForm
  <1>3. CASE key = v.form.key
    BY <1>3 DEF Notes!Rendered
  <1>4. CASE key # v.form.key
    <2> DEFINE f == IF key = Notes!None THEN Notes!NoForm
                    ELSE Notes!Mounted(key, Notes!FormNote(v, qs), Notes!Listed(v, qs))
    <2>1. w = [v EXCEPT !.form = f]
      BY <1>4 DEF Notes!Rendered
    <2>2. f.key = key /\ (f = Notes!NoForm \/ IsForm(f))
      BY <1>1, <1>2 DEF Notes!NoForm
    <2> HIDE DEF f, key, w
    <2>3. IsNotesView(w) /\ w.form = f /\ w.search = v.search /\ w.selected = v.selected
          /\ w.editing = v.editing /\ w.preview = v.preview
      BY <2>1, <2>2 DEF IsNotesView
    <2>4. Notes!FormKey(w, qs) = key
      BY <2>3, FormKeyIs DEF key
    <2> QED BY <2>2, <2>3, <2>4 DEF w
  <1> QED BY <1>3, <1>4

\* What a search finds depends on the notes only.
LEMMA FoundSame == UNCHANGED db => \A s : Notes!Found(s)' = Notes!Found(s)
  BY DEF Notes!Found

\* The notes page opens with its list loaded or on its way.
LEMMA NotesInit == Notes!Init => NotesInv
  <1> SUFFICES ASSUME Notes!Init PROVE NotesInv
    OBVIOUS
  <1>1. /\ net = [i \in Slots |-> Q!Free]
        /\ query = [s \in Searches |-> IF s = "" THEN Q!Opened(<<>>) ELSE Q!Unopened(<<>>)]
    BY NotesQuery DEF Notes!Init, Notes!Unknown, Notes!Everything, Searches
  <1>2. IsNet(net)
    BY <1>1, FreeIs DEF IsNet
  <1>3. view = [local |-> "", search |-> "", selected |-> 0, editing |-> 0, preview |-> TRUE,
                form |-> Notes!NoForm] /\ "" \in Searches
    BY DEF Notes!Init, Notes!Searches, Searches, Notes!Everything, Notes!None
  <1>4. IsNotesView(view)
    BY <1>3 DEF IsNotesView
  <1>5. query[""].data = <<>>
    BY <1>1, <1>3, OpenedIs
  <1>6. Notes!ActiveNote(view, query) = 0
    BY <1>3, <1>5 DEF Notes!ActiveNote, Notes!Listed, Notes!SelectedNote, Notes!FindOr,
         Notes!Ids, Notes!None, Notes!New
  <1>7. view.form.key = Notes!FormKey(view, query)
    BY <1>3, <1>6 DEF Notes!FormKey, Notes!Previewed, Notes!None, Notes!New, Notes!NoForm
  <1>8. \A s \in Searches : IsQuery(query[s]) /\ \A d : Fresh(query[s], d)
    BY <1>1, OpenedIs
  <1>9. Kept(query[view.search])
    BY <1>1, <1>3, OpenedIs
  <1>10. DOMAIN query = Searches /\ query = [s \in Searches |-> query[s]]
    BY <1>1
  <1> QED BY <1>2, <1>4, <1>7, <1>8, <1>9, <1>10 DEF NotesInv

\* Every mutation of the notes page fetches again what it may have changed.
LEMMA NotesStep == NotesInv /\ [Notes!Next]_vars => NotesInv'
  <1> SUFFICES ASSUME NotesInv, [Notes!Next]_vars PROVE NotesInv'
    OBVIOUS
  <1>0. /\ IsNet(net) /\ IsNotesView(view) /\ view.form.key = Notes!FormKey(view, query)
        /\ DOMAIN query = Searches /\ query = [s \in Searches |-> query[s]]
        /\ \A s \in Searches : IsQuery(query[s])
        /\ Kept(query[view.search])
        /\ NoneDone(net) => \A s \in Searches : Fresh(query[s], Notes!Found(s))
        /\ view.search \in Searches /\ view.local \in Searches
    BY DEF NotesInv, IsNotesView
  \* What an action that renders, or leaves the page alone, has to show.
  <1>a. ASSUME NEW v, IsNotesView(v), view' = Notes!Rendered(v, query'),
               IsNet(net'), DOMAIN query' = Searches, query' = [s \in Searches |-> query'[s]],
               \A s \in Searches : IsQuery(query'[s]), Kept(query'[v.search]),
               NoneDone(net') => \A s \in Searches : Fresh(query'[s], Notes!Found(s)')
        PROVE  NotesInv'
    <2>1. IsNotesView(view') /\ view'.search = v.search /\ view'.form.key = Notes!FormKey(view', query')
      BY <1>a, RenderedIs
    <2>2. Notes!FormKey(view', query') = Notes!FormKey(view, query)'
      BY DEF Notes!FormKey, Notes!Previewed, Notes!ActiveNote, Notes!Listed, Notes!SelectedNote,
             Notes!FindOr, Notes!Ids
    <2> QED BY <1>a, <2>1, <2>2 DEF NotesInv, IsNotesView
  <1>b. ASSUME IsNotesView(view'), view'.form.key = view.form.key,
               view'.search = view.search, view'.selected = view.selected,
               view'.editing = view.editing, view'.preview = view.preview,
               query'[view.search].data = query[view.search].data, Kept(query'[view.search]),
               IsNet(net'), DOMAIN query' = Searches, query' = [s \in Searches |-> query'[s]],
               \A s \in Searches : IsQuery(query'[s]),
               NoneDone(net') => \A s \in Searches : Fresh(query'[s], Notes!Found(s)')
        PROVE  NotesInv'
    <2>1. Notes!FormKey(view', query') = Notes!FormKey(view, query)
      BY <1>b, FormKeyIs
    <2>2. Notes!FormKey(view', query') = Notes!FormKey(view, query)'
      BY DEF Notes!FormKey, Notes!Previewed, Notes!ActiveNote, Notes!Listed, Notes!SelectedNote,
             Notes!FindOr, Notes!Ids
    <2> QED BY <1>0, <1>b, <2>1, <2>2 DEF NotesInv, IsNotesView
  <1>c. ASSUME UNCHANGED query, IsNotesView(view'), view'.form.key = view.form.key,
               view'.search = view.search, view'.selected = view.selected,
               view'.editing = view.editing, view'.preview = view.preview,
               IsNet(net'), NoneDone(net') => NoneDone(net) /\ UNCHANGED db
        PROVE  NotesInv'
    <2>1. NoneDone(net') => \A s \in Searches : Fresh(query'[s], Notes!Found(s)')
      BY <1>0, <1>c, FoundSame
    <2> QED BY <1>0, <1>b, <1>c, <2>1
  <1>1. CASE UNCHANGED vars
    BY <1>0, <1>1, <1>c DEF vars
  <1>2. ASSUME NEW s, Notes!TypeSearch(s), s \in Searches PROVE NotesInv'
    <2>1. view' = [view EXCEPT !.local = s] /\ UNCHANGED <<db, query, net>>
      BY <1>2 DEF Notes!TypeSearch
    <2>2. /\ IsNotesView(view') /\ view'.search = view.search /\ view'.selected = view.selected
          /\ view'.editing = view.editing /\ view'.preview = view.preview
          /\ view'.form = view.form
      BY <1>0, <1>2, <2>1 DEF IsNotesView
    <2> QED BY <1>0, <1>c, <2>1, <2>2
  <1>3. ASSUME NEW s \in Searches, Notes!ServeQuery(s) PROVE NotesInv'
    <2> DEFINE q == Q!Serve(query[s], Notes!Found(s))
    <2>1. query' = [query EXCEPT ![s] = q] /\ UNCHANGED <<db, view, net>>
      BY <1>3, NotesQuery DEF Notes!ServeQuery
    <2>2. IsQuery(q) /\ Kept(q) /\ Fresh(q, Notes!Found(s)) /\ q.data = query[s].data
      BY <1>0, ServeIs
    <2> HIDE DEF q
    <2>3. \A r \in Searches : query'[r] = IF r = s THEN q ELSE query[r]
      BY <1>0, <2>1
    <2>4. DOMAIN query' = Searches /\ query' = [r \in Searches |-> query'[r]]
      BY <1>0, <2>1
    <2>5. NoneDone(net') => \A r \in Searches : Fresh(query'[r], Notes!Found(r)')
      BY <1>0, <2>1, <2>2, <2>3, FoundSame
    <2>6. /\ \A r \in Searches : IsQuery(query'[r])
          /\ Kept(query'[view.search]) /\ query'[view.search].data = query[view.search].data
      BY <1>0, <2>2, <2>3
    <2> QED BY <1>0, <1>b, <2>1, <2>4, <2>5, <2>6
  <1>4. ASSUME NEW s \in Searches, Notes!LandQuery(s) PROVE NotesInv'
    <2> DEFINE q == Q!Land(query[s])
    <2>1. /\ query' = [query EXCEPT ![s] = q] /\ query[s].stage = "served"
          /\ view' = Notes!Rendered(view, query') /\ UNCHANGED <<db, net>>
      BY <1>4, NotesQuery DEF Notes!LandQuery, Notes!Render
    <2>2. IsQuery(q) /\ Kept(q) /\ \A d : Fresh(query[s], d) => Fresh(q, d)
      BY <1>0, <2>1, LandIs
    <2> HIDE DEF q
    <2>3. \A r \in Searches : query'[r] = IF r = s THEN q ELSE query[r]
      BY <1>0, <2>1
    <2>4. DOMAIN query' = Searches /\ query' = [r \in Searches |-> query'[r]]
      BY <1>0, <2>1
    <2>5. NoneDone(net') => \A r \in Searches : Fresh(query'[r], Notes!Found(r)')
      BY <1>0, <2>1, <2>2, <2>3, FoundSame
    <2>6. (\A r \in Searches : IsQuery(query'[r])) /\ Kept(query'[view.search])
      BY <1>0, <2>2, <2>3
    <2> QED BY <1>0, <1>a, <2>1, <2>4, <2>5, <2>6
  <1>5. CASE Notes!SearchRests
    <2> DEFINE s == view.local
               q == Q!Observe(query[s])
               v == [view EXCEPT !.search = s]
    <2>1. /\ query' = [query EXCEPT ![s] = q]
          /\ view' = Notes!Rendered(v, query') /\ UNCHANGED <<db, net>>
      BY <1>5, NotesQuery DEF Notes!SearchRests, Notes!Render
    <2>2. IsQuery(q) /\ Kept(q) /\ \A d : Fresh(query[s], d) => Fresh(q, d)
      BY <1>0, ObserveIs
    <2>3. IsNotesView(v) /\ v.search = s
      BY <1>0 DEF IsNotesView
    <2> HIDE DEF q, v
    <2>4. \A r \in Searches : query'[r] = IF r = s THEN q ELSE query[r]
      BY <1>0, <2>1
    <2>5. DOMAIN query' = Searches /\ query' = [r \in Searches |-> query'[r]]
      BY <1>0, <2>1
    <2>6. NoneDone(net') => \A r \in Searches : Fresh(query'[r], Notes!Found(r)')
      BY <1>0, <2>1, <2>2, <2>4, FoundSame
    <2>7. (\A r \in Searches : IsQuery(query'[r])) /\ Kept(query'[v.search])
      BY <1>0, <2>2, <2>3, <2>4
    <2> QED BY <1>0, <1>a, <2>1, <2>3, <2>5, <2>6, <2>7
  <1>6. CASE Notes!NewNote \/ (\E id : Notes!PickNote(id)) \/ \E preview : Notes!ShowAs(preview)
    <2>1. PICK selected, editing, preview :
            LET v == [view EXCEPT !.selected = selected, !.editing = editing, !.preview = preview]
            IN view' = Notes!Rendered(v, query) /\ UNCHANGED <<db, query, net>>
      <3>1. CASE Notes!NewNote
        BY <3>1 DEF Notes!NewNote, Notes!Render
      <3>2. CASE \E id : Notes!PickNote(id)
        BY <3>2 DEF Notes!PickNote, Notes!Render, Notes!Chosen
      <3>3. CASE \E preview : Notes!ShowAs(preview)
        <4>1. PICK preview : Notes!ShowAs(preview)
          BY <3>3
        <4>2. [view EXCEPT !.selected = view.selected, !.editing = view.editing, !.preview = preview]
                = [view EXCEPT !.preview = preview]
          BY <1>0 DEF IsNotesView
        <4> QED BY <4>1, <4>2 DEF Notes!ShowAs, Notes!Render
      <3> QED BY <1>6, <3>1, <3>2, <3>3
    <2> DEFINE v == [view EXCEPT !.selected = selected, !.editing = editing, !.preview = preview]
    <2>2. IsNotesView(v) /\ v.search = view.search
      BY <1>0 DEF IsNotesView
    <2> HIDE DEF v
    <2>3. NoneDone(net') => \A r \in Searches : Fresh(query'[r], Notes!Found(r)')
      BY <1>0, <2>1, FoundSame
    <2> QED BY <1>0, <1>a, <2>1, <2>2, <2>3 DEF v
  <1>7. ASSUME NEW title, Notes!Write(title) PROVE NotesInv'
    <2>1. view' = [view EXCEPT !.form.title = title] /\ IsForm(view.form) /\ UNCHANGED <<db, query, net>>
      BY <1>0, <1>7 DEF Notes!Write, IsNotesView
    <2>2. /\ view'.search = view.search /\ view'.selected = view.selected
          /\ view'.editing = view.editing /\ view'.preview = view.preview
          /\ view'.form.key = view.form.key
      BY <1>0, <2>1 DEF IsNotesView, IsForm
    <2>3. IsNotesView(view')
      BY <1>0, <2>1 DEF IsNotesView, IsForm
    <2> QED BY <1>0, <1>c, <2>1, <2>2, <2>3
  <1>8. CASE Notes!Submit
    <2> DEFINE r == [op |-> "save", stage |-> "sent", id |-> Notes!FormNote(view, query),
                     title |-> view.form.title, about |-> view.form.about]
               slot == Notes!Min(Notes!FreeSlots(net))
    <2>1. net' = Q!Send(net, r) /\ Q!FreeSlots(net) # {} /\ IsForm(view.form) /\ UNCHANGED <<db, query>>
      BY <1>0, <1>8, NotesQuery DEF Notes!Submit, Notes!CanSend, IsNotesView
    <2>2. IsRequest(r) /\ r.stage = "sent"
      BY DEF IsRequest
    <2>3. view' = [view EXCEPT !.form.slot = slot, !.form.error = FALSE]
      BY <1>8 DEF Notes!Submit
    <2> HIDE DEF r, slot
    <2>4. IsNet(net') /\ (NoneDone(net') => NoneDone(net))
      BY <1>0, <2>1, <2>2, SendNone
    <2>5. /\ view'.search = view.search /\ view'.selected = view.selected
          /\ view'.editing = view.editing /\ view'.preview = view.preview
          /\ view'.form.key = view.form.key
      BY <1>0, <2>1, <2>3 DEF IsNotesView, IsForm
    <2>6. IsNotesView(view')
      BY <1>0, <2>1, <2>3 DEF IsNotesView, IsForm
    <2> QED BY <1>0, <1>c, <2>1, <2>4, <2>5, <2>6
  <1>9. CASE Notes!DeleteNote
    <2> DEFINE r == [op |-> "delete", stage |-> "sent", id |-> Notes!Active,
                     remaining |-> Notes!Without(Notes!Listed(view, query), Notes!Active)]
    <2>1. net' = Q!Send(net, r) /\ Q!FreeSlots(net) # {} /\ UNCHANGED <<db, view, query>>
      BY <1>9, NotesQuery DEF Notes!DeleteNote, Notes!CanSend
    <2>2. IsRequest(r) /\ r.stage = "sent"
      BY DEF IsRequest
    <2> HIDE DEF r
    <2>3. IsNet(net') /\ (NoneDone(net') => NoneDone(net))
      BY <1>0, <2>1, <2>2, SendNone
    <2> QED BY <1>0, <1>c, <2>1, <2>3
  <1>10. ASSUME NEW i \in Slots, Notes!ServeSave(i) \/ Notes!ServeDelete(i) PROVE NotesInv'
    <2>1. UNCHANGED <<view, query>>
      BY <1>10 DEF Notes!ServeSave, Notes!ServeDelete
    <2>2. /\ net[i].stage = "sent"
          /\ \/ net' = Staged(net, i, "failed") /\ UNCHANGED db
             \/ net' = Staged(net, i, "done")
             \/ \E id : net' = [Staged(net, i, "done") EXCEPT ![i].id = id]
      <3>1. CASE Notes!ServeDelete(i)
        BY <3>1 DEF Notes!ServeDelete, Staged
      <3>2. CASE Notes!ServeSave(i)
        <4>1. [Staged(net, i, "done") EXCEPT ![i].id = Notes!Min(Notes!FreshIds)]
                = [net EXCEPT ![i].stage = "done", ![i].id = Notes!Min(Notes!FreshIds)]
          BY <1>0 DEF Staged, IsNet, IsRequest
        <4> QED BY <3>2, <4>1 DEF Notes!ServeSave, Staged
      <3> QED BY <1>10, <3>1, <3>2
    <2>3. CASE net' = Staged(net, i, "failed") /\ UNCHANGED db
      <3>1. IsNet(net') /\ (NoneDone(net') => NoneDone(net))
        BY <1>0, <2>2, <2>3, StageNone
      <3> QED BY <1>0, <1>c, <2>1, <2>3, <3>1
    <2>4. CASE net' = Staged(net, i, "done")
      <3>1. IsNet(net') /\ ~ NoneDone(net')
        BY <1>0, <2>2, <2>4, StageNone
      <3> QED BY <1>0, <1>c, <2>1, <2>4, <3>1
    <2>5. ASSUME NEW id, net' = [Staged(net, i, "done") EXCEPT ![i].id = id] PROVE NotesInv'
      <3> DEFINE n == Staged(net, i, "done")
      <3>1. IsNet(n) /\ n[i].stage = "done" /\ net' = [n EXCEPT ![i].id = id]
        BY <1>0, <2>5, StageIs
      <3> HIDE DEF n
      <3>2. IsNet(net') /\ net'[i].stage = "done"
        BY <3>1 DEF IsNet, IsRequest
      <3> QED BY <1>0, <1>c, <2>1, <3>2 DEF NoneDone
    <2> QED BY <2>2, <2>3, <2>4, <2>5
  <1>11. ASSUME NEW i \in Slots, Notes!Saved(i) \/ Notes!Deleted(i) PROVE NotesInv'
    <2>1. PICK id : view' = Notes!Rendered(Notes!Chosen(view, id), query')
      BY <1>11 DEF Notes!Saved, Notes!Deleted, Notes!Render
    <2> DEFINE v == Notes!Chosen(view, id)
    <2>2. IsNotesView(v) /\ v.search = view.search
      BY <1>0 DEF IsNotesView, Notes!Chosen
    <2> HIDE DEF v
    <2>3. query' = [s \in Searches |-> Q!Invalidate(query[s], s = view.search)] /\ net' = Q!Settle(net, i)
      BY <1>0, <1>11, NotesQuery DEF Notes!Saved, Notes!Deleted, Notes!Invalidated, Notes!Render
    <2>4. \A s \in Searches : /\ IsQuery(query'[s]) /\ \A d : Fresh(query'[s], d)
                              /\ s = view.search => Kept(query'[s])
      BY <1>0, <2>3, InvalidateIs
    <2>5. DOMAIN query' = Searches /\ query' = [s \in Searches |-> query'[s]]
      BY <2>3
    <2>6. IsNet(net')
      BY <1>0, <2>3, SettleNone
    <2> QED BY <1>0, <1>a, <2>1, <2>2, <2>4, <2>5, <2>6 DEF v
  <1>12. ASSUME NEW i \in Slots, Notes!SaveRefused(i) \/ Notes!DeleteRefused(i) PROVE NotesInv'
    <2>1. net' = Q!Settle(net, i) /\ net[i].stage = "failed" /\ UNCHANGED <<db, query>>
      BY <1>12, NotesQuery DEF Notes!SaveRefused, Notes!DeleteRefused
    <2>2. IsNet(net') /\ (NoneDone(net') => NoneDone(net))
      BY <1>0, <2>1, SettleNone
    <2>3. \/ view' = view
          \/ view.form # Notes!NoForm /\ view' = [view EXCEPT !.form.slot = 0, !.form.error = TRUE]
      BY <1>12 DEF Notes!SaveRefused, Notes!DeleteRefused
    <2>4. /\ view'.search = view.search /\ view'.selected = view.selected
          /\ view'.editing = view.editing /\ view'.preview = view.preview
          /\ view'.form.key = view.form.key
      BY <1>0, <2>3 DEF IsNotesView, IsForm
    <2>5. IsNotesView(view')
      <3>1. CASE view' = view
        BY <1>0, <3>1 DEF IsNotesView, IsForm
      <3>2. CASE view.form # Notes!NoForm /\ view' = [view EXCEPT !.form.slot = 0, !.form.error = TRUE]
        <4>1. IsForm(view.form)
          BY <1>0, <3>2 DEF IsNotesView
        <4> QED BY <1>0, <3>2, <4>1 DEF IsNotesView, IsForm
      <3> QED BY <2>3, <3>1, <3>2
    <2> QED BY <1>0, <1>c, <2>1, <2>2, <2>4, <2>5
  <1>13. ASSUME NEW s \in Searches, Notes!FailQuery(s) PROVE NotesInv'
    <2> DEFINE q == Q!FetchFails(query[s])
    <2>1. query' = [query EXCEPT ![s] = q] /\ UNCHANGED <<db, view, net>>
      BY <1>13, NotesQuery DEF Notes!FailQuery
    <2>2. IsQuery(q) /\ Kept(q) /\ q.data = query[s].data /\ \A d : Fresh(q, d)
      BY <1>0, FetchFailsIs
    <2> HIDE DEF q
    <2>3. \A r \in Searches : query'[r] = IF r = s THEN q ELSE query[r]
      BY <1>0, <2>1
    <2>4. DOMAIN query' = Searches /\ query' = [r \in Searches |-> query'[r]]
      BY <1>0, <2>1
    <2>5. NoneDone(net') => \A r \in Searches : Fresh(query'[r], Notes!Found(r)')
      BY <1>0, <2>1, <2>2, <2>3, FoundSame
    <2>6. /\ \A r \in Searches : IsQuery(query'[r])
          /\ Kept(query'[view.search]) /\ query'[view.search].data = query[view.search].data
      BY <1>0, <2>2, <2>3
    <2> QED BY <1>0, <1>b, <2>1, <2>4, <2>5, <2>6
  <1>14. ASSUME NEW i \in Slots, Notes!Lose(i) PROVE NotesInv'
    <2>1. /\ query' = [s \in Searches |-> Q!AfterLoss(net, i, query[s])]
          /\ net' = Q!Lost(net, i) /\ Q!Losable(net, i) /\ UNCHANGED <<db, view>>
      BY <1>14, NotesQuery DEF Notes!Lose, Searches
    <2>2. /\ IsNet(net')
          /\ \A s \in Searches :
               /\ IsQuery(query'[s]) /\ (Kept(query[s]) => Kept(query'[s]))
               /\ query'[s].data = query[s].data
               /\ NoneDone(net') => (NoneDone(net) /\ query'[s] = query[s]) \/ \A d : Fresh(query'[s], d)
      BY <1>0, <2>1, LoseNone
    <2>3. NoneDone(net') => \A r \in Searches : Fresh(query'[r], Notes!Found(r)')
      BY <1>0, <2>1, <2>2, FoundSame
    <2> QED BY <1>0, <1>b, <2>1, <2>2, <2>3
  <1> QED BY <1>1, <1>2, <1>3, <1>4, <1>5, <1>6, <1>7, <1>8, <1>9, <1>10, <1>11, <1>12, <1>13, <1>14
          DEF Notes!Next, Searches

\* The lists settle.
LEMMA NotesSettle == NotesInv => Notes!NotesSettle
  BY NotesQuery, QuietIs DEF NotesInv, IsNotesView, Notes!NotesSettle, Q!Idle, Fresh, Kept, IsQuery

\* A form is sent to the note it is about.
LEMMA NotesApart == NotesInv => Notes!KeepsDraftsApart
  <1> SUFFICES ASSUME NotesInv, Notes!Submit PROVE Notes!FormNote(view, query) = view.form.about
    BY DEF Notes!KeepsDraftsApart
  <1>1. view.form # Notes!NoForm
    BY DEF Notes!Submit
  <1>2. view.form.about = Notes!FormKey(view, query) /\ Notes!FormKey(view, query) # Notes!None
    BY <1>1 DEF NotesInv, IsNotesView, IsForm
  <1> QED BY <1>2 DEF Notes!FormKey, Notes!FormNote

-----------------------------------------------------------------------------
(* The tasks page *)

\* The tasks page's queries and mutations are those of Query.
LEMMA TasksQuery ==
  /\ \A q, o : Tasks!Invalidate(q, o) = Q!Invalidate(q, o)
  /\ \A q : Tasks!Observe(q) = Q!Observe(q)
  /\ \A q, d : Tasks!Serve(q, d) = Q!Serve(q, d)
  /\ \A q : Tasks!Land(q) = Q!Land(q) /\ Tasks!Idle(q) = Q!Idle(q)
  /\ \A d : Tasks!Opened(d) = Q!Opened(d) /\ Tasks!Unopened(d) = Q!Unopened(d)
  /\ \A n, r : Tasks!Send(n, r) = Q!Send(n, r)
  /\ \A n, i : Tasks!Settle(n, i) = Q!Settle(n, i)
  /\ \A n : Tasks!Quiet(n) = Q!Quiet(n) /\ Tasks!FreeSlots(n) = Q!FreeSlots(n)
  /\ Tasks!Free = Q!Free
  /\ \A q : Tasks!FetchFails(q) = Q!FetchFails(q)
  /\ \A n, i : Tasks!Losable(n, i) = Q!Losable(n, i) /\ Tasks!Lost(n, i) = Q!Lost(n, i)
  /\ \A n, i, q : Tasks!AfterLoss(n, i, q) = Q!AfterLoss(n, i, q)
  BY DEF Tasks!Invalidate, Tasks!Observe, Tasks!Serve, Tasks!Land, Tasks!Idle, Tasks!Opened,
         Tasks!Unopened, Tasks!Send, Tasks!Settle, Tasks!Quiet, Tasks!Free, Tasks!FreeSlots,
         Tasks!FetchAgain, Tasks!Min, Tasks!FetchFails, Tasks!Losable, Tasks!Lost,
         Tasks!AfterLoss, Tasks!Unheard, Q!FetchFails, Q!Losable, Q!Lost, Q!AfterLoss, Q!Unheard,
         Q!Invalidate, Q!Observe, Q!Serve, Q!Land, Q!Idle, Q!Opened, Q!Unopened, Q!Send,
         Q!Settle, Q!Quiet, Q!Free, Q!FreeSlots, Q!FetchAgain, Q!Min

Lists == Tasks!Lists

IsTasksView(v) ==
  v \in [tab : Tasks!Views, status : Tasks!Statuses \cup {Tasks!Any}, creating : {v.creating},
         slot : {v.slot}, edit : {v.edit}]

TasksInv ==
  /\ IsNet(net) /\ IsTasksView(view)
  /\ DOMAIN db = TaskIds
  /\ DOMAIN query = Lists /\ query = [f \in Lists |-> query[f]]
  /\ \A f \in Lists : IsQuery(query[f])
  /\ Kept(query[Tasks!Filters(view)])
  /\ NoneDone(net) => \A f \in Lists : Fresh(query[f], Tasks!ListTasks(f))

\* The filters of a page are those of one of the lists.
LEMMA FiltersIs ==
  ASSUME NEW v, IsTasksView(v)
  PROVE  Tasks!Filters(v) \in Lists
  BY DEF IsTasksView, Tasks!Filters, Lists, Tasks!Lists, Tasks!Any

\* A rendering closes an edit at most.
LEMMA TasksRenderedIs ==
  ASSUME NEW v, IsTasksView(v), NEW qs
  PROVE  LET w == Tasks!Rendered(v, qs)
         IN IsTasksView(w) /\ Tasks!Filters(w) = Tasks!Filters(v)
  BY DEF IsTasksView, Tasks!Filters, Tasks!Rendered

\* What a filter lists depends on the tasks only.
LEMMA ListTasksSame == UNCHANGED db => \A f : Tasks!ListTasks(f)' = Tasks!ListTasks(f)
  BY DEF Tasks!ListTasks

\* The tasks page opens on its first tab.
LEMMA TasksInit == Tasks!Init => TasksInv
  <1> SUFFICES ASSUME Tasks!Init PROVE TasksInv
    OBVIOUS
  <1>1. /\ net = [i \in Slots |-> Q!Free]
        /\ query = [f \in Lists |-> IF f = Tasks!Filters(view) THEN Q!Opened(<<>>) ELSE Q!Unopened(<<>>)]
    BY TasksQuery DEF Tasks!Init, Tasks!NoTasks, Lists
  <1>2. IsNet(net)
    BY <1>1, FreeIs DEF IsNet
  <1>3. IsTasksView(view) /\ DOMAIN db = TaskIds
    BY DEF Tasks!Init, IsTasksView, Tasks!Views, Tasks!Any
  <1>4. \A f \in Lists : IsQuery(query[f]) /\ \A d : Fresh(query[f], d)
    BY <1>1, OpenedIs
  <1>5. Kept(query[Tasks!Filters(view)])
    BY <1>1, <1>3, FiltersIs, OpenedIs
  <1>6. DOMAIN query = Lists /\ query = [f \in Lists |-> query[f]]
    BY <1>1
  <1> QED BY <1>2, <1>3, <1>4, <1>5, <1>6 DEF TasksInv

\* Every mutation of the tasks page fetches again what it may have changed.
LEMMA TasksStep == TasksInv /\ [Tasks!Next]_vars => TasksInv'
  <1> SUFFICES ASSUME TasksInv, [Tasks!Next]_vars PROVE TasksInv'
    OBVIOUS
  <1>0. /\ IsNet(net) /\ IsTasksView(view) /\ DOMAIN db = TaskIds
        /\ DOMAIN query = Lists /\ query = [f \in Lists |-> query[f]]
        /\ \A f \in Lists : IsQuery(query[f])
        /\ Tasks!Filters(view) \in Lists /\ Kept(query[Tasks!Filters(view)])
        /\ NoneDone(net) => \A f \in Lists : Fresh(query[f], Tasks!ListTasks(f))
    BY FiltersIs DEF TasksInv
  \* An action that reads or fetches no list: the tasks stay, or a mutation is done.
  <1>a. ASSUME UNCHANGED query, IsTasksView(view'), Tasks!Filters(view') = Tasks!Filters(view),
               IsNet(net'), DOMAIN db' = TaskIds,
               NoneDone(net') => NoneDone(net) /\ \A f \in Lists : Tasks!ListTasks(f)' = Tasks!ListTasks(f)
        PROVE  TasksInv'
    <2>1. Tasks!Filters(view)' = Tasks!Filters(view')
      BY DEF Tasks!Filters
    <2> QED BY <1>0, <1>a, <2>1 DEF TasksInv, IsTasksView
  \* One list is fetched, or lands.
  <1>b. ASSUME NEW f \in Lists, NEW q, IsQuery(q), Kept(q),
               NoneDone(net) => Fresh(q, Tasks!ListTasks(f)),
               query' = [query EXCEPT ![f] = q], UNCHANGED <<db, net>>,
               IsTasksView(view'), Tasks!Filters(view') \in {f, Tasks!Filters(view)}
        PROVE  TasksInv'
    <2>1. \A g \in Lists : query'[g] = IF g = f THEN q ELSE query[g]
      BY <1>0, <1>b
    <2>2. DOMAIN query' = Lists /\ query' = [g \in Lists |-> query'[g]]
      BY <1>0, <1>b
    <2>3. Tasks!Filters(view)' = Tasks!Filters(view')
      BY DEF Tasks!Filters
    <2>4. Kept(query'[Tasks!Filters(view)'])
      BY <1>0, <1>b, <2>1, <2>3
    <2>5. NoneDone(net') => \A g \in Lists : Fresh(query'[g], Tasks!ListTasks(g)')
      BY <1>0, <1>b, <2>1, ListTasksSame
    <2>6. \A g \in Lists : IsQuery(query'[g])
      BY <1>0, <1>b, <2>1
    <2>7. IsNet(net') /\ DOMAIN db' = TaskIds
      BY <1>0, <1>b
    <2> QED BY <1>b, <2>2, <2>4, <2>5, <2>6, <2>7 DEF TasksInv, IsTasksView
  \* The filters change, and the page reads another list.
  <1>c. ASSUME NEW v, IsTasksView(v), Tasks!Filter(v) PROVE TasksInv'
    <2> DEFINE f == Tasks!Filters(v)
               q == Q!Observe(query[f])
    <2>1. query' = [query EXCEPT ![f] = q] /\ view' = Tasks!Rendered(v, query') /\ UNCHANGED <<db, net>>
      BY <1>c, TasksQuery DEF Tasks!Filter
    <2>2. f \in Lists /\ IsTasksView(view') /\ Tasks!Filters(view') = f
      BY <1>c, <2>1, FiltersIs, TasksRenderedIs
    <2>3. IsQuery(q) /\ Kept(q) /\ \A d : Fresh(query[f], d) => Fresh(q, d)
      BY <1>0, <2>2, ObserveIs
    <2> HIDE DEF f, q
    <2> QED BY <1>0, <1>b, <2>1, <2>2, <2>3
  <1>d. ASSUME NEW creating, NEW slot, NEW edit,
               view' = [view EXCEPT !.creating = creating, !.slot = slot, !.edit = edit]
        PROVE  IsTasksView(view') /\ Tasks!Filters(view') = Tasks!Filters(view)
    BY <1>0, <1>d DEF IsTasksView, Tasks!Filters
  <1>e. ASSUME NEW t, NEW field, NEW value, Tasks!CanSend, Tasks!SendUpdate(t, field, value)
        PROVE  \E r : /\ IsRequest(r) /\ r.stage = "sent" /\ net' = Q!Send(net, r)
                     /\ Q!FreeSlots(net) # {}
    <2> DEFINE r == [op |-> "update", stage |-> "sent", id |-> t, field |-> field, value |-> value]
    <2>1. IsRequest(r) /\ r.stage = "sent"
      BY DEF IsRequest
    <2> QED BY <1>e, <2>1, TasksQuery DEF Tasks!CanSend, Tasks!SendUpdate
  <1>1. CASE UNCHANGED vars
    BY <1>0, <1>1, <1>a, ListTasksSame DEF vars
  <1>2. ASSUME NEW tab \in Tasks!Views, Tasks!SelectView(tab) PROVE TasksInv'
    <2>1. PICK status \in Tasks!Statuses \cup {Tasks!Any} :
            Tasks!Filter([view EXCEPT !.tab = tab, !.status = status])
      <3>1. view.status \in Tasks!Statuses \cup {Tasks!Any}
        BY <1>0 DEF IsTasksView
      <3> QED BY <1>2, <3>1 DEF Tasks!SelectView
    <2>2. IsTasksView([view EXCEPT !.tab = tab, !.status = status])
      BY <1>0, <1>2 DEF IsTasksView
    <2> QED BY <1>c, <2>1, <2>2
  <1>3. ASSUME NEW status \in Tasks!Statuses \cup {Tasks!Any}, Tasks!SelectStatus(status) PROVE TasksInv'
    <2>1. IsTasksView([view EXCEPT !.status = status])
      BY <1>0, <1>3 DEF IsTasksView
    <2> QED BY <1>3, <1>c, <2>1 DEF Tasks!SelectStatus
  <1>4. CASE Tasks!ToggleForm \/ Tasks!CancelEdit \/ \E text : Tasks!TypeText(text)
    <2>1. UNCHANGED <<db, query, net>> /\ \E creating, slot, edit :
            view' = [view EXCEPT !.creating = creating, !.slot = slot, !.edit = edit]
      <3>1. CASE Tasks!ToggleForm
        <4>1. view' = [view EXCEPT !.creating = ~ view.creating, !.slot = 0, !.edit = view.edit]
          BY <1>0, <3>1 DEF Tasks!ToggleForm, IsTasksView
        <4>2. UNCHANGED <<db, query, net>>
          BY <3>1 DEF Tasks!ToggleForm
        <4> QED BY <4>1, <4>2
      <3>2. CASE Tasks!CancelEdit
        <4>1. view' = [view EXCEPT !.creating = view.creating, !.slot = view.slot, !.edit = Tasks!NoEdit]
          BY <1>0, <3>2 DEF Tasks!CancelEdit, IsTasksView
        <4>2. UNCHANGED <<db, query, net>>
          BY <3>2 DEF Tasks!CancelEdit
        <4> QED BY <4>1, <4>2
      <3>3. ASSUME NEW text, Tasks!TypeText(text)
            PROVE  UNCHANGED <<db, query, net>> /\ \E creating, slot, edit :
                     view' = [view EXCEPT !.creating = creating, !.slot = slot, !.edit = edit]
        <4>1. view' = [view EXCEPT !.creating = view.creating, !.slot = view.slot,
                                   !.edit = [view.edit EXCEPT !.text = text]]
          BY <1>0, <3>3 DEF Tasks!TypeText, IsTasksView
        <4>2. UNCHANGED <<db, query, net>>
          BY <3>3 DEF Tasks!TypeText
        <4> QED BY <4>1, <4>2
      <3> QED BY <1>4, <3>1, <3>2, <3>3
    <2> QED BY <1>0, <1>a, <1>d, <2>1, ListTasksSame
  <1>5. ASSUME NEW t, NEW field, Tasks!StartEdit(t, field) PROVE TasksInv'
    <2>1. /\ UNCHANGED <<db, query, net>>
          /\ view' = [view EXCEPT !.edit = [id |-> t, field |-> field, text |-> Tasks!Shown[t].text]]
      BY <1>5 DEF Tasks!StartEdit
    <2>2. IsTasksView(view') /\ Tasks!Filters(view') = Tasks!Filters(view)
      BY <1>0, <2>1 DEF IsTasksView, Tasks!Filters
    <2> QED BY <1>0, <1>a, <2>1, <2>2, ListTasksSame
  <1>6. ASSUME NEW input, Tasks!CreateTask(input) PROVE TasksInv'
    <2> DEFINE r == [op |-> "create", stage |-> "sent", input |-> input]
    <2>1. net' = Q!Send(net, r) /\ Q!FreeSlots(net) # {} /\ UNCHANGED <<db, query>>
      BY <1>6, TasksQuery DEF Tasks!CreateTask, Tasks!CanSend
    <2>2. IsRequest(r) /\ r.stage = "sent"
      BY DEF IsRequest
    <2> HIDE DEF r
    <2>3. IsNet(net') /\ (NoneDone(net') => NoneDone(net))
      BY <1>0, <2>1, <2>2, SendNone
    <2>4. PICK slot : view' = [view EXCEPT !.slot = slot]
      BY <1>6 DEF Tasks!CreateTask
    <2>5. IsTasksView(view') /\ Tasks!Filters(view') = Tasks!Filters(view)
      BY <1>0, <2>4 DEF IsTasksView, Tasks!Filters
    <2> QED BY <1>0, <1>a, <2>1, <2>3, <2>5, ListTasksSame
  <1>7. ASSUME NEW t, \/ Tasks!MoveToToday(t) \/ Tasks!DeleteTask(t)
                      \/ \E status : Tasks!UpdateStatus(t, status)
        PROVE  TasksInv'
    <2>1. PICK r : /\ IsRequest(r) /\ r.stage = "sent" /\ net' = Q!Send(net, r)
                   /\ Q!FreeSlots(net) # {} /\ UNCHANGED <<db, view, query>>
      <3>1. CASE Tasks!MoveToToday(t)
        BY <3>1, <1>e DEF Tasks!MoveToToday
      <3>2. CASE Tasks!DeleteTask(t)
        <4> DEFINE r == [op |-> "delete", stage |-> "sent", id |-> t]
        <4>1. IsRequest(r) /\ r.stage = "sent"
          BY DEF IsRequest
        <4> QED BY <3>2, <4>1, TasksQuery DEF Tasks!DeleteTask, Tasks!CanSend
      <3>3. CASE \E status : Tasks!UpdateStatus(t, status)
        BY <3>3, <1>e DEF Tasks!UpdateStatus
      <3> QED BY <1>7, <3>1, <3>2, <3>3
    <2>2. IsNet(net') /\ (NoneDone(net') => NoneDone(net))
      BY <1>0, <2>1, SendNone
    <2> QED BY <1>0, <1>a, <2>1, <2>2, ListTasksSame
  <1>8. CASE Tasks!SaveEdit
    <2>1. view' = [view EXCEPT !.edit = Tasks!NoEdit] /\ UNCHANGED <<db, query>>
      BY <1>8 DEF Tasks!SaveEdit
    <2>2. IsTasksView(view') /\ Tasks!Filters(view') = Tasks!Filters(view)
      BY <1>0, <2>1 DEF IsTasksView, Tasks!Filters
    <2>3. \/ UNCHANGED net
          \/ \E r : /\ IsRequest(r) /\ r.stage = "sent" /\ net' = Q!Send(net, r)
                   /\ Q!FreeSlots(net) # {}
      BY <1>8, <1>e DEF Tasks!SaveEdit
    <2>4. IsNet(net') /\ (NoneDone(net') => NoneDone(net))
      BY <1>0, <2>3, SendNone
    <2> QED BY <1>0, <1>a, <2>1, <2>2, <2>4, ListTasksSame
  <1>9. ASSUME NEW i \in Slots, Tasks!ServeCreate(i) \/ Tasks!ServeUpdate(i) \/ Tasks!ServeDelete(i)
        PROVE  TasksInv'
    <2>1. UNCHANGED <<view, query>> /\ net[i].stage = "sent" /\ DOMAIN db' = TaskIds
      BY <1>0, <1>9 DEF Tasks!ServeCreate, Tasks!ServeUpdate, Tasks!ServeDelete
    <2>2. \/ net' = Staged(net, i, "done")
          \/ /\ net' = Staged(net, i, "failed")
             /\ \A f \in Lists : Tasks!ListTasks(f)' = Tasks!ListTasks(f)
      <3>1. CASE Tasks!ServeCreate(i)
        BY <3>1 DEF Tasks!ServeCreate, Tasks!Answer, Staged
      <3>2. CASE Tasks!ServeUpdate(i)
        BY <3>2, ListTasksSame DEF Tasks!ServeUpdate, Tasks!Answer, Staged
      <3>3. CASE Tasks!ServeDelete(i) /\ db[net[i].id].live
        BY <3>3 DEF Tasks!ServeDelete, Tasks!Answer, Staged
      <3>4. CASE Tasks!ServeDelete(i) /\ ~ db[net[i].id].live
        <4>1. /\ net' = Staged(net, i, "failed") /\ db' = [db EXCEPT ![net[i].id] = Tasks!NoTask]
              /\ Tasks!NoTask.live = FALSE
          BY <3>4 DEF Tasks!ServeDelete, Tasks!Answer, Staged, Tasks!NoTask
        <4>2. \A t \in TaskIds : db'[t] = db[t] \/ (~ db[t].live /\ ~ db'[t].live)
          BY <1>0, <3>4, <4>1
        <4>3. ASSUME NEW f \in Lists PROVE Tasks!ListTasks(f)' = Tasks!ListTasks(f)
          <5>1. \A t \in TaskIds : Tasks!Belongs(db'[t], f) = Tasks!Belongs(db[t], f)
            BY <4>2 DEF Tasks!Belongs
          <5>2. \A t \in TaskIds : Tasks!Belongs(db[t], f) => db'[t] = db[t]
            BY <4>2 DEF Tasks!Belongs
          <5> QED BY <5>1, <5>2 DEF Tasks!ListTasks
        <4> QED BY <4>1, <4>3
      <3> QED BY <1>9, <3>1, <3>2, <3>3, <3>4
    <2>3. IsNet(net') /\ (NoneDone(net') => /\ NoneDone(net)
                                           /\ \A f \in Lists : Tasks!ListTasks(f)' = Tasks!ListTasks(f))
      <3>1. CASE net' = Staged(net, i, "done")
        BY <1>0, <3>1, StageNone
      <3>2. CASE net' = Staged(net, i, "failed") /\ \A f \in Lists : Tasks!ListTasks(f)' = Tasks!ListTasks(f)
        BY <1>0, <2>1, <3>2, StageNone
      <3> QED BY <2>2, <3>1, <3>2
    <2> QED BY <1>0, <1>a, <2>1, <2>3
  <1>10. ASSUME NEW i \in Slots, Tasks!Succeeded(i) PROVE TasksInv'
    <2>1. /\ query' = [f \in Lists |-> Q!Invalidate(query[f], f = Tasks!Filters(view))]
          /\ net' = Q!Settle(net, i) /\ UNCHANGED db
      BY <1>10, TasksQuery DEF Tasks!Succeeded, Tasks!Invalidated, Lists, Tasks!Key
    <2>2. \/ view' = view
          \/ view' = [view EXCEPT !.creating = FALSE, !.slot = 0]
      BY <1>10 DEF Tasks!Succeeded
    <2>3. IsTasksView(view') /\ Tasks!Filters(view') = Tasks!Filters(view)
      BY <1>0, <2>2 DEF IsTasksView, Tasks!Filters
    <2>4. \A f \in Lists : /\ IsQuery(query'[f]) /\ \A d : Fresh(query'[f], d)
                           /\ f = Tasks!Filters(view) => Kept(query'[f])
      BY <1>0, <2>1, InvalidateIs
    <2>5. DOMAIN query' = Lists /\ query' = [f \in Lists |-> query'[f]]
      BY <2>1
    <2>6. IsNet(net') /\ DOMAIN db' = TaskIds
      BY <1>0, <2>1, SettleNone
    <2>7. Tasks!Filters(view)' = Tasks!Filters(view')
      BY DEF Tasks!Filters
    <2> QED BY <1>0, <2>3, <2>4, <2>5, <2>6, <2>7 DEF TasksInv, IsTasksView
  <1>11. ASSUME NEW i \in Slots, Tasks!Failed(i) PROVE TasksInv'
    <2>1. /\ net' = Q!Settle(net, i) /\ net[i].stage = "failed" /\ UNCHANGED <<db, query>>
          /\ view' = view \/ view' = [view EXCEPT !.slot = 0]
      BY <1>11, TasksQuery DEF Tasks!Failed
    <2>2. IsNet(net') /\ (NoneDone(net') => NoneDone(net))
      BY <1>0, <2>1, SettleNone
    <2>3. IsTasksView(view') /\ Tasks!Filters(view') = Tasks!Filters(view)
      BY <1>0, <2>1 DEF IsTasksView, Tasks!Filters
    <2> QED BY <1>0, <1>a, <2>1, <2>2, <2>3, ListTasksSame
  <1>12. ASSUME NEW f \in Lists, Tasks!ServeQuery(f) PROVE TasksInv'
    <2> DEFINE q == Q!Serve(query[f], Tasks!ListTasks(f))
    <2>1. query' = [query EXCEPT ![f] = q] /\ UNCHANGED <<db, view, net>>
      BY <1>12, TasksQuery DEF Tasks!ServeQuery
    <2>2. IsQuery(q) /\ Kept(q) /\ Fresh(q, Tasks!ListTasks(f))
      BY <1>0, ServeIs
    <2> HIDE DEF q
    <2> QED BY <1>0, <1>b, <2>1, <2>2
  <1>13. ASSUME NEW f \in Lists, Tasks!LandQuery(f) PROVE TasksInv'
    <2> DEFINE q == Q!Land(query[f])
    <2>1. /\ query' = [query EXCEPT ![f] = q] /\ query[f].stage = "served"
          /\ view' = Tasks!Rendered(view, query') /\ UNCHANGED <<db, net>>
      BY <1>13, TasksQuery DEF Tasks!LandQuery
    <2>2. IsQuery(q) /\ Kept(q) /\ \A d : Fresh(query[f], d) => Fresh(q, d)
      BY <1>0, <2>1, LandIs
    <2>3. IsTasksView(view') /\ Tasks!Filters(view') = Tasks!Filters(view)
      BY <1>0, <2>1, TasksRenderedIs
    <2> HIDE DEF q
    <2> QED BY <1>0, <1>b, <2>1, <2>2, <2>3
  <1>14. ASSUME NEW f \in Lists, Tasks!FailQuery(f) PROVE TasksInv'
    <2> DEFINE q == Q!FetchFails(query[f])
    <2>1. query' = [query EXCEPT ![f] = q] /\ UNCHANGED <<db, view, net>>
      BY <1>14, TasksQuery DEF Tasks!FailQuery
    <2>2. IsQuery(q) /\ Kept(q) /\ Fresh(q, Tasks!ListTasks(f))
      BY <1>0, FetchFailsIs
    <2> HIDE DEF q
    <2> QED BY <1>0, <1>b, <2>1, <2>2
  <1>15. ASSUME NEW i \in Slots, Tasks!Lose(i) PROVE TasksInv'
    <2>1. /\ query' = [f \in Lists |-> Q!AfterLoss(net, i, query[f])]
          /\ net' = Q!Lost(net, i) /\ Q!Losable(net, i) /\ UNCHANGED <<db, view>>
      BY <1>15, TasksQuery DEF Tasks!Lose, Lists
    <2>2. /\ IsNet(net')
          /\ \A f \in Lists :
               /\ IsQuery(query'[f]) /\ (Kept(query[f]) => Kept(query'[f]))
               /\ NoneDone(net') => (NoneDone(net) /\ query'[f] = query[f]) \/ \A d : Fresh(query'[f], d)
      BY <1>0, <2>1, LoseNone
    <2>3. NoneDone(net') => \A f \in Lists : Fresh(query'[f], Tasks!ListTasks(f)')
      BY <1>0, <2>1, <2>2, ListTasksSame
    <2>4. Tasks!Filters(view)' = Tasks!Filters(view) /\ Tasks!Filters(view) \in Lists
      BY <1>0, <2>1, FiltersIs DEF Tasks!Filters
    <2> QED BY <1>0, <2>1, <2>2, <2>3, <2>4 DEF TasksInv, IsTasksView
  <1> QED BY <1>1, <1>2, <1>3, <1>4, <1>5, <1>6, <1>7, <1>8, <1>9, <1>10, <1>11, <1>12, <1>13,
             <1>14, <1>15
          DEF Tasks!Next, Lists

\* The list on the page settles.
LEMMA TasksSettle == TasksInv => Tasks!TaskListSettles
  BY TasksQuery, QuietIs, FiltersIs
     DEF TasksInv, Tasks!TaskListSettles, Tasks!Shown, Tasks!Key, Q!Idle, Fresh, Kept, IsQuery

-----------------------------------------------------------------------------
(* The reminders of a note *)

\* The section's queries and mutations are those of Query.
LEMMA RemindersQuery ==
  /\ \A q, o : Reminders!Invalidate(q, o) = Q!Invalidate(q, o)
  /\ \A q, d : Reminders!Serve(q, d) = Q!Serve(q, d)
  /\ \A q : Reminders!Land(q) = Q!Land(q) /\ Reminders!Idle(q) = Q!Idle(q)
  /\ \A d : Reminders!Loaded(d) = Q!Loaded(d)
  /\ \A n, r : Reminders!Send(n, r) = Q!Send(n, r)
  /\ \A n, i : Reminders!Settle(n, i) = Q!Settle(n, i)
  /\ \A n : Reminders!Quiet(n) = Q!Quiet(n) /\ Reminders!FreeSlots(n) = Q!FreeSlots(n)
  /\ Reminders!Free = Q!Free
  /\ \A q : Reminders!FetchFails(q) = Q!FetchFails(q)
  /\ \A n, i : Reminders!Losable(n, i) = Q!Losable(n, i) /\ Reminders!Lost(n, i) = Q!Lost(n, i)
  /\ \A n, i, q : Reminders!AfterLoss(n, i, q) = Q!AfterLoss(n, i, q)
  BY DEF Reminders!Invalidate, Reminders!Serve, Reminders!Land, Reminders!Idle, Reminders!Opened,
         Reminders!Unopened, Reminders!Loaded, Reminders!Send, Reminders!Settle, Reminders!Quiet,
         Reminders!Free, Reminders!FreeSlots, Reminders!FetchAgain, Reminders!Min, Reminders!FetchFails, Reminders!Losable, Reminders!Lost,
         Reminders!AfterLoss, Reminders!Unheard, Q!FetchFails, Q!Losable, Q!Lost, Q!AfterLoss, Q!Unheard,
         Q!Invalidate, Q!Serve, Q!Land, Q!Idle, Q!Opened, Q!Unopened, Q!Loaded, Q!Send,
         Q!Settle, Q!Quiet, Q!Free, Q!FreeSlots, Q!FetchAgain, Q!Min

RemindersInv ==
  /\ IsNet(net)
  /\ db = [r \in DOMAIN db |-> db[r]]
  /\ IsQuery(query) /\ Kept(query)
  /\ NoneDone(net) => Fresh(query, db)

\* The reminders of a note open with their list on its way.
LEMMA RemindersInit == Reminders!Init => RemindersInv
  <1> SUFFICES ASSUME Reminders!Init PROVE RemindersInv
    OBVIOUS
  <1>1. net = [i \in Slots |-> Q!Free] /\ query = Q!Loaded(db)
    BY RemindersQuery DEF Reminders!Init
  <1>2. IsNet(net)
    BY <1>1, FreeIs DEF IsNet
  <1>3. db = [r \in DOMAIN db |-> db[r]]
    BY DEF Reminders!Init
  <1> QED BY <1>1, <1>2, <1>3, OpenedIs DEF RemindersInv

\* Every mutation of reminders fetches their list again.
LEMMA RemindersStep == RemindersInv /\ [Reminders!Next]_vars => RemindersInv'
  <1> SUFFICES ASSUME RemindersInv, [Reminders!Next]_vars PROVE RemindersInv'
    OBVIOUS
  <1> USE DEF RemindersInv
  \* The reminders stay, or a mutation is done.
  <1>a. ASSUME UNCHANGED query, IsNet(net'), db' = [r \in DOMAIN db' |-> db'[r]],
               NoneDone(net') => NoneDone(net) /\ UNCHANGED db
        PROVE  RemindersInv'
    BY <1>a
  <1>b. ASSUME NEW r, IsRequest(r), r.stage = "sent", Reminders!CanSend,
               net' = Reminders!Send(net, r), UNCHANGED <<db, query>>
        PROVE  RemindersInv'
    <2>1. net' = Q!Send(net, r) /\ Q!FreeSlots(net) # {}
      BY <1>b, RemindersQuery DEF Reminders!CanSend
    <2>2. IsNet(net') /\ (NoneDone(net') => NoneDone(net))
      BY <1>b, <2>1, SendNone
    <2> QED BY <1>a, <1>b, <2>2
  <1>1. CASE UNCHANGED vars
    BY <1>1 DEF vars, IsNet, IsRequest, NoneDone
  <1>2. CASE \/ Reminders!AddReminder \/ \E id : Reminders!ToggleEdit(id)
             \/ \E form : Reminders!EditIn(form) \/ Reminders!Cancel(form)
    <2>1. UNCHANGED <<db, query, net>>
      BY <1>2 DEF Reminders!AddReminder, Reminders!ToggleEdit, Reminders!EditIn, Reminders!Cancel
    <2> QED BY <1>a, <2>1
  <1>3. ASSUME NEW form, Reminders!Submit(form) PROVE RemindersInv'
    <2> DEFINE f == view[form]
               r == [op |-> IF form = "add" THEN "create" ELSE "update", stage |-> "sent",
                     id |-> f.id, type |-> f.type,
                     cron |-> IF f.type = "recurring" THEN f.cron ELSE Reminders!NoCron]
    <2>1. IsRequest(r) /\ r.stage = "sent"
      BY DEF IsRequest
    <2>2. Reminders!CanSend /\ net' = Reminders!Send(net, r) /\ UNCHANGED <<db, query>>
      BY <1>3 DEF Reminders!Submit
    <2> QED BY <1>b, <2>1, <2>2
  <1>4. ASSUME NEW id, Reminders!ToggleActive(id) PROVE RemindersInv'
    <2> DEFINE r == [op |-> "toggle", stage |-> "sent", id |-> id,
                     active |-> ~ query.data[id].active]
    <2>1. IsRequest(r) /\ r.stage = "sent"
      BY DEF IsRequest
    <2>2. Reminders!CanSend /\ net' = Reminders!Send(net, r) /\ UNCHANGED <<db, query>>
      BY <1>4 DEF Reminders!ToggleActive, Reminders!Reminders
    <2> QED BY <1>b, <2>1, <2>2
  <1>5. ASSUME NEW id, Reminders!DeleteReminder(id) PROVE RemindersInv'
    <2> DEFINE r == [op |-> "delete", stage |-> "sent", id |-> id]
    <2>1. IsRequest(r) /\ r.stage = "sent"
      BY DEF IsRequest
    <2>2. Reminders!CanSend /\ net' = Reminders!Send(net, r) /\ UNCHANGED <<db, query>>
      BY <1>5 DEF Reminders!DeleteReminder
    <2> QED BY <1>b, <2>1, <2>2
  <1>6. ASSUME NEW i \in Slots,
               \/ Reminders!ServeCreate(i) \/ Reminders!ServeUpdate(i)
               \/ Reminders!ServeToggle(i) \/ Reminders!ServeDelete(i)
        PROVE  RemindersInv'
    <2>1. UNCHANGED query /\ net[i].stage = "sent" /\ db' = [r \in DOMAIN db' |-> db'[r]]
      <3>1. CASE Reminders!ServeCreate(i)
        BY <3>1 DEF Reminders!ServeCreate, Reminders!Put
      <3>2. CASE Reminders!ServeUpdate(i)
        BY <3>2 DEF Reminders!ServeUpdate
      <3>3. CASE Reminders!ServeToggle(i)
        BY <3>3 DEF Reminders!ServeToggle
      <3>4. CASE Reminders!ServeDelete(i)
        BY <3>4 DEF Reminders!ServeDelete, Reminders!Without
      <3> QED BY <1>6, <3>1, <3>2, <3>3, <3>4
    <2>2. net' = Staged(net, i, "done") \/ (net' = Staged(net, i, "failed") /\ UNCHANGED db)
      <3>1. CASE Reminders!ServeCreate(i)
        BY <3>1 DEF Reminders!ServeCreate, Reminders!Answer, Staged
      <3>2. CASE Reminders!ServeUpdate(i)
        BY <3>2 DEF Reminders!ServeUpdate, Reminders!Answer, Staged
      <3>3. CASE Reminders!ServeToggle(i)
        BY <3>3 DEF Reminders!ServeToggle, Reminders!Answer, Staged
      <3>4. CASE Reminders!ServeDelete(i)
        BY <3>4 DEF Reminders!ServeDelete, Reminders!Answer, Reminders!Without, Staged
      <3> QED BY <1>6, <3>1, <3>2, <3>3, <3>4
    <2>3. IsNet(net') /\ (NoneDone(net') => NoneDone(net) /\ UNCHANGED db)
      <3>1. CASE net' = Staged(net, i, "done")
        BY <3>1, StageNone
      <3>2. CASE net' = Staged(net, i, "failed") /\ UNCHANGED db
        BY <2>1, <3>2, StageNone
      <3> QED BY <2>2, <3>1, <3>2
    <2> QED BY <1>a, <2>1, <2>3
  <1>7. ASSUME NEW i \in Slots, Reminders!Succeeded(i) PROVE RemindersInv'
    <2>1. query' = Q!Invalidate(query, TRUE) /\ net' = Q!Settle(net, i) /\ UNCHANGED db
      BY <1>7, RemindersQuery DEF Reminders!Succeeded
    <2>2. IsQuery(query') /\ Kept(query') /\ Fresh(query', db')
      BY <2>1, InvalidateIs
    <2>3. IsNet(net')
      BY <2>1, SettleNone
    <2> QED BY <2>1, <2>2, <2>3
  <1>8. ASSUME NEW i \in Slots, Reminders!Failed(i) PROVE RemindersInv'
    <2>1. net' = Q!Settle(net, i) /\ net[i].stage = "failed" /\ UNCHANGED <<db, query>>
      BY <1>8, RemindersQuery DEF Reminders!Failed
    <2>2. IsNet(net') /\ (NoneDone(net') => NoneDone(net))
      BY <2>1, SettleNone
    <2> QED BY <1>a, <2>1, <2>2
  <1>9. CASE Reminders!ServeQuery
    <2>1. query' = Q!Serve(query, db) /\ UNCHANGED <<db, net>>
      BY <1>9, RemindersQuery DEF Reminders!ServeQuery
    <2> QED BY <2>1, ServeIs DEF IsNet, IsRequest, NoneDone
  <1>10. CASE Reminders!LandQuery
    <2>1. query' = Q!Land(query) /\ query.stage = "served" /\ UNCHANGED <<db, net>>
      BY <1>10, RemindersQuery DEF Reminders!LandQuery
    <2> QED BY <2>1, LandIs DEF IsNet, IsRequest, NoneDone
  <1>11. CASE Reminders!FailQuery
    <2>1. query' = Q!FetchFails(query) /\ UNCHANGED <<db, net>>
      BY <1>11, RemindersQuery DEF Reminders!FailQuery
    <2> QED BY <2>1, FetchFailsIs DEF IsNet, IsRequest, NoneDone
  <1>12. ASSUME NEW i \in Slots, Reminders!Lose(i) PROVE RemindersInv'
    <2>1. /\ query' = Q!AfterLoss(net, i, query)
          /\ net' = Q!Lost(net, i) /\ Q!Losable(net, i) /\ UNCHANGED db
      BY <1>12, RemindersQuery DEF Reminders!Lose
    <2>2. IsNet(net') /\ IsQuery(query') /\ Kept(query') /\ (NoneDone(net') => Fresh(query', db'))
      BY <2>1, LoseNone
    <2> QED BY <2>1, <2>2
  <1> QED BY <1>1, <1>2, <1>3, <1>4, <1>5, <1>6, <1>7, <1>8, <1>9, <1>10, <1>11, <1>12
          DEF Reminders!Next

\* The section settles.
LEMMA RemindersSettled == RemindersInv => Reminders!RemindersSettle
  BY RemindersQuery, QuietIs
     DEF RemindersInv, Reminders!RemindersSettle, Q!Idle, Fresh, Kept, IsQuery
=============================================================================
