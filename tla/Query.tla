-------------------------------- MODULE Query --------------------------------
(***************************************************************************)
(* What the pages of the app use of TanStack Query and of the browser's    *)
(* network, as queryClient.ts configures them: a query with its cached     *)
(* data and the fetch under way, and the mutations in flight.              *)
(*                                                                         *)
(* A fetch is sent, served and landed, or fails once its retries are used  *)
(* up.  Invalidating an observed query drops its fetch and sends another,  *)
(* unless it has no data yet; a query nobody observes is only marked       *)
(* stale, its fetch goes on, and when that lands the mark is gone.  The    *)
(* page hears nothing of a mutation whose answer is lost, or is an error   *)
(* though the server has committed: no onSuccess runs.                     *)
(*                                                                         *)
(* missed records, for the properties, that the data may lack what nothing *)
(* is going to fetch, and late that so does what is about to land.         *)
(***************************************************************************)
EXTENDS Naturals, FiniteSets, FiniteSetsExt

\* A query whose first fetch is sent; none stands for data not there yet.
Opened(none) ==
  [known |-> FALSE, stale |-> FALSE, missed |-> FALSE, late |-> FALSE,
   stage |-> "sent", data |-> none, reply |-> none]
Unopened(none) == [Opened(none) EXCEPT !.stage = "idle"]
Loaded(data) == [Unopened(data) EXCEPT !.known = TRUE]

Idle(q) == q.stage = "idle"
FetchAgain(q) == [q EXCEPT !.stage = "sent", !.reply = q.data, !.late = FALSE]
Invalidate(q, observed) ==
  IF observed /\ (Idle(q) \/ q.known) THEN FetchAgain(q)
  ELSE [q EXCEPT !.stale = TRUE, !.late = @ \/ q.stage = "served"]
\* A component mounts that reads the query.
Observe(q) ==
  IF Idle(q) /\ (q.stale \/ ~ q.known) THEN FetchAgain(q) ELSE q
\* A mutation has changed what the query is about, and no onSuccess runs.
Unheard(q) == [q EXCEPT !.missed = TRUE, !.late = q.stage = "served"]

Serve(q, data) == [q EXCEPT !.stage = "served", !.reply = data]
Land(q) ==
  [q EXCEPT !.known = TRUE, !.stale = FALSE, !.missed = q.late, !.late = FALSE,
            !.stage = "idle", !.data = q.reply]
\* The data stays, marked stale, until something fetches it again.
FetchFails(q) ==
  [q EXCEPT !.stale = TRUE, !.missed = TRUE, !.late = FALSE, !.stage = "idle", !.reply = q.data]

-----------------------------------------------------------------------------
(* Mutations in flight: a function from slots to requests *)

Free == [op |-> "none", stage |-> "free"]
FreeSlots(net) == {i \in DOMAIN net : net[i] = Free}
Send(net, r) == [net EXCEPT ![Min(FreeSlots(net))] = r]
Settle(net, i) == [net EXCEPT ![i] = Free]
Quiet(net) == FreeSlots(net) = DOMAIN net
Pending(net, op) == \E i \in DOMAIN net : net[i].op = op

\* The request of slot i never arrives, or its answer gets lost or is an error
\* though the server went through with it: the page sees it fail.
Losable(net, i) == net[i].stage \in {"sent", "done"}
Lost(net, i) == [net EXCEPT ![i].stage = "failed"]
AfterLoss(net, i, q) == IF net[i].stage = "done" THEN Unheard(q) ELSE q
=============================================================================
