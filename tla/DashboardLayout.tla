--------------------------- MODULE DashboardLayout ---------------------------
(***************************************************************************)
(* The order of the widgets in DashboardPage.tsx: stored with the user,    *)
(* shown with what the registry lacks dropped and what it has besides      *)
(* appended, and rearranged by dragging while the user customizes it.      *)
(*                                                                         *)
(* Saving closes the customization only after the layout was fetched       *)
(* again; Cancel and Customize work meanwhile.  The widgets' contents and  *)
(* the heatmap's year are left out.                                        *)
(***************************************************************************)
EXTENDS Query, Arrays, SequencesExt

CONSTANTS
  Registry,  \* DEFAULT_WIDGET_ORDER, the ids of WIDGET_REGISTRY, a sequence
  Layouts,   \* bound: what may be stored at first; <<>> stands for null, too
  Slots,     \* bound: requests in flight
  MaxActs    \* bound: acts of the user, losses and failures

VARIABLES
  db,      \* the server: users.widget_layout
  view,    \* the page
  query,   \* the layout as the page has it
  net,     \* the mutations in flight
  acts     \* how much of MaxActs is used

vars == <<db, view, query, net, acts>>

None == ""
Known == ToSet(Registry)
Act == acts < MaxActs /\ acts' = acts + 1

\* The widgets shown for a stored layout.
OrderOf(layout) ==
  LET filtered == Filter(layout, Known)
      missing == Filter(Registry, Known \ ToSet(filtered))
  IN filtered \o missing
Order == OrderOf(query.data)
DisplayOrder == IF view.customizing THEN view.currentOrder ELSE Order

\* id, taken out and put where target was; MovedBesides forgets to take it out.
MovedBesides(order, id, target) == InsertAt(order, IndexOf(order, target), id)
Moved(order, id, target) == ArrayMove(order, IndexOf(order, id), IndexOf(order, target))

-----------------------------------------------------------------------------
(* The user *)

StartCustomizing ==
  /\ Act
  /\ ~ view.customizing
  /\ view' = [view EXCEPT !.customizing = TRUE, !.currentOrder = Order]
  /\ UNCHANGED <<db, query, net>>

\* Of a widget while customizing, of a link in one at any time.
DragStart(id) ==
  /\ Act
  /\ view' = [view EXCEPT !.dragId = id]
  /\ UNCHANGED <<db, query, net>>

\* The id that was dragged last stays until it is dropped on another widget.
Drop(target) ==
  /\ view.dragId \notin {None, target}
  /\ view' = [view EXCEPT !.currentOrder = Moved(@, view.dragId, target), !.dragId = None]
  /\ UNCHANGED <<db, query, net, acts>>

Save ==
  /\ Act
  /\ view.customizing
  /\ ~ Pending(net, "save")
  /\ net' = Send(net, [op |-> "save", stage |-> "sent", layout |-> view.currentOrder])
  /\ UNCHANGED <<db, view, query>>

Cancel ==
  /\ Act
  /\ view.customizing
  /\ view' = [view EXCEPT !.customizing = FALSE, !.currentOrder = Order]
  /\ UNCHANGED <<db, query, net>>

-----------------------------------------------------------------------------
(* The server and its answers *)

ServeSave(i) ==
  /\ net[i].op = "save" /\ net[i].stage = "sent"
  /\ \/ db' = net[i].layout /\ net' = [net EXCEPT ![i].stage = "done"]
     \/ net' = [net EXCEPT ![i].stage = "failed"] /\ UNCHANGED db
  /\ UNCHANGED <<view, query, acts>>

\* onSuccess: mutateAsync waits for the fetch it starts.
SaveAccepted(i) ==
  /\ net[i].stage = "done"
  /\ query' = Invalidate(query, TRUE)
  /\ net' = [net EXCEPT ![i].stage = "refetching"]
  /\ UNCHANGED <<db, view, acts>>

\* The page goes on customizing.
SaveRefused(i) ==
  /\ net[i].stage = "failed"
  /\ net' = Settle(net, i)
  /\ UNCHANGED <<db, view, query, acts>>

ServeQuery ==
  /\ query.stage = "sent"
  /\ query' = Serve(query, db)
  /\ UNCHANGED <<db, view, net, acts>>

\* handleSave goes on when its fetch is over.
Fetched(q) ==
  LET saves == {i \in Slots : net[i].stage = "refetching"}
  IN /\ query' = q
     /\ net' = [i \in Slots |-> IF i \in saves THEN Free ELSE net[i]]
     /\ view' = IF saves = {} THEN view ELSE [view EXCEPT !.customizing = FALSE]
     /\ UNCHANGED db
LandQuery == query.stage = "served" /\ Fetched(Land(query)) /\ UNCHANGED acts
FailQuery == Act /\ ~ Idle(query) /\ Fetched(FetchFails(query))

Lose(i) ==
  /\ Act
  /\ Losable(net, i)
  /\ query' = AfterLoss(net, i, query)
  /\ net' = Lost(net, i)
  /\ UNCHANGED <<db, view>>

-----------------------------------------------------------------------------

Init ==
  /\ db \in Layouts
  /\ view = [customizing |-> FALSE, dragId |-> None, currentOrder |-> Registry]
  /\ query = Opened(<<>>)
  /\ net = [i \in Slots |-> Free]
  /\ acts = 0

Next ==
  \/ StartCustomizing \/ Save \/ Cancel
  \/ \E id \in Known : DragStart(id) \/ Drop(id)
  \/ \E i \in Slots : ServeSave(i) \/ SaveAccepted(i) \/ SaveRefused(i) \/ Lose(i)
  \/ ServeQuery \/ LandQuery \/ FailQuery

Spec == Init /\ [][Next]_vars

-----------------------------------------------------------------------------
(* Properties *)

\* The order on the page has every widget once, whatever was stored by an
\* earlier version, dragged, saved, cancelled or fetched meanwhile; so has the
\* order a save sends, which would be shown ever after.
EveryWidgetOnce ==
  LET complete(order) == ToSet(order) = Known /\ Len(order) = Len(Registry)
  IN /\ complete(DisplayOrder)
     /\ \A i \in Slots : Pending(net, "save") /\ net[i] # Free => complete(net[i].layout)

\* Once nothing is in flight the page shows the order that is stored, unless
\* it was first loaded while a save went on, or an answer was lost or a fetch
\* failed and nothing was fetched since.
LayoutSettles ==
  Quiet(net) /\ Idle(query) /\ ~ query.missed => query.data = db
=============================================================================
