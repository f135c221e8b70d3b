------------------------------ MODULE HabitList ------------------------------
(***************************************************************************)
(* The manage dialog of the habits page as a list: rows dragged into a new *)
(* order, rows swapped for an edit form or a confirmation, habits created  *)
(* and deleted, and the panel of categories; beside the server's habits    *)
(* and categories, and the table under the dialog.                         *)
(*                                                                         *)
(* A habit is its name, for UNIQUE (user_id, name): creating a deleted     *)
(* habit revives it.  The fields of a habit, and what an edit changes of   *)
(* them, are in HabitEntry; here an edit is what it does to the order.     *)
(***************************************************************************)
EXTENDS Query, Arrays, SequencesExt

CONSTANTS
  Ids,         \* bound: the names of habits
  Categories,  \* bound: the names of categories
  Slots,       \* bound: requests in flight
  MaxActs      \* bound: acts of the user, losses and failures

VARIABLES
  db,      \* the server: habit and category
  view,    \* the dialog
  query,   \* the queries habits (the dialog), matrix (the table) and categories
  net,     \* the mutations in flight
  acts     \* how much of MaxActs is used

vars == <<db, view, query, net, acts>>

Nobody == 0
NoOrder == <<>>

Act == acts < MaxActs /\ acts' = acts + 1
CanSend == FreeSlots(net) # {}

\* A row of habits; sort_order is 0 until a reorder numbers it.  strayed
\* records, for the properties, that it has another number than the last
\* reorder gave or would have given it.
Live(d) == {h \in Ids : d.habit[h].live}
\* ORDER BY sort_order, name; r has the numbers of the rows that are listed.
Before(r, a, b) == r[a] < r[b] \/ (r[a] = r[b] /\ a <= b)
Sorted(r) ==
  [n \in 1..Cardinality(DOMAIN r) |->
     CHOOSE h \in DOMAIN r : Cardinality({g \in DOMAIN r : Before(r, g, h)}) = n]
ListHabits(d) == Sorted([h \in Live(d) |-> d.habit[h].order])

-----------------------------------------------------------------------------
(* ManageHabitsDialog *)

\* As if the dragged habits were not taken out of the rest.
OrderedTwice(habits, optimistic) ==
  Filter(optimistic, ToSet(habits)) \o habits
\* The dragged order first, as far as its habits are still there.
OrderedHabits(habits, optimistic) ==
  LET kept == Filter(optimistic, ToSet(habits))
  IN kept \o Filter(habits, Ids \ ToSet(kept))
Shown == OrderedHabits(query.habits.data, view.optimistic)

\* Rows that are being edited or deleted cannot be dragged.
SortableIds == Filter(Shown, Ids \ {view.editing, view.deleting})

DragEnd(from, to) ==
  /\ Act /\ CanSend
  /\ ~ Pending(net, "reorder")
  /\ {from, to} \subseteq DOMAIN SortableIds /\ from # to
  /\ LET next == ArrayMove(SortableIds, from, to)
     IN /\ view' = [view EXCEPT !.optimistic = next]
        /\ net' = Send(net, [op |-> "reorder", stage |-> "sent", ids |-> next])
  /\ UNCHANGED <<db, query>>

\* The pencil of a row; the row of another edit becomes a row again.  saving:
\* the slot of the save of the row that is open.
EditRow(h) ==
  /\ Act
  /\ h \in ToSet(SortableIds)
  /\ view' = [view EXCEPT !.editing = h, !.saving = 0]
  /\ UNCHANGED <<db, query, net>>
CancelEdit ==
  /\ view.editing \in ToSet(Shown)
  /\ view' = [view EXCEPT !.editing = Nobody, !.saving = 0]
  /\ UNCHANGED <<db, query, net, acts>>
SaveEdit ==
  /\ CanSend
  /\ view.editing \in ToSet(Shown) /\ view.saving = 0
  /\ net' = Send(net, [op |-> "update", stage |-> "sent", id |-> view.editing, order |-> 0])
  /\ view' = [view EXCEPT !.saving = Min(FreeSlots(net))]
  /\ UNCHANGED <<db, query, acts>>

AskDelete(h) ==
  /\ Act
  /\ h \in ToSet(SortableIds)
  /\ view' = [view EXCEPT !.deleting = h]
  /\ UNCHANGED <<db, query, net>>
KeepHabit ==
  /\ view.deleting \in ToSet(Shown)
  /\ view' = [view EXCEPT !.deleting = Nobody]
  /\ UNCHANGED <<db, query, net, acts>>
\* DeleteHabitButton, disabled while its own delete is pending.
ConfirmDelete ==
  /\ CanSend
  /\ view.deleting \in ToSet(Shown) /\ view.deleting # view.editing
  /\ \A i \in Slots : net[i].op = "delete" => net[i].id # view.deleting
  /\ net' = Send(net, [op |-> "delete", stage |-> "sent", id |-> view.deleting])
  /\ UNCHANGED <<db, view, query, acts>>

\* HabitForm, open from Add habit to Cancel or to the answer.
AddHabit ==
  /\ Act
  /\ ~ view.creating
  /\ view' = [view EXCEPT !.creating = TRUE]
  /\ UNCHANGED <<db, query, net>>
CancelCreate ==
  /\ view.creating
  /\ view' = [view EXCEPT !.creating = FALSE]
  /\ UNCHANGED <<db, query, net, acts>>
CreateHabit(h, c) ==
  /\ CanSend
  /\ view.creating /\ ~ Pending(net, "create")
  /\ c \in query.categories.data
  /\ net' = Send(net, [op |-> "create", stage |-> "sent", id |-> h, category |-> c])
  /\ UNCHANGED <<db, view, query, acts>>

\* CategoryPanel
CreateCategory(c) ==
  /\ Act /\ CanSend
  /\ ~ Pending(net, "createCategory")
  /\ net' = Send(net, [op |-> "createCategory", stage |-> "sent", category |-> c])
  /\ UNCHANGED <<db, view, query>>
DeleteCategory(c) ==
  /\ Act /\ CanSend
  /\ c \in query.categories.data
  /\ net' = Send(net, [op |-> "deleteCategory", stage |-> "sent", category |-> c])
  /\ UNCHANGED <<db, view, query>>

-----------------------------------------------------------------------------
(* The server.  A reorder checks its list, then numbers the rows in a      *)
(* transaction; an update reads the row, then writes all of it, the number *)
(* it has read too; the delete of a category counts its habits, deleted    *)
(* ones too, then deletes it unless the foreign key forbids.               *)

Answer(i, ok) == [net EXCEPT ![i].stage = IF ok THEN "done" ELSE "failed"]
Arrived(i, op) == net[i].op = op /\ net[i].stage = "sent"

ReorderCheck(i) ==
  /\ Arrived(i, "reorder")
  /\ net' = [net EXCEPT ![i].stage =
               IF Len(net[i].ids) = Cardinality(Live(db)) /\ ToSet(net[i].ids) = Live(db)
               THEN "checked" ELSE "failed"]
  /\ UNCHANGED <<db, view, query, acts>>
Numbered(row, k) == [row EXCEPT !.order = k, !.strayed = FALSE]
ReorderCommit(i) ==
  /\ net[i].op = "reorder" /\ net[i].stage = "checked"
  /\ db' = [db EXCEPT !.habit = [h \in Ids |->
              IF h \in ToSet(net[i].ids) \cap Live(db)
              THEN Numbered(db.habit[h], IndexOf(net[i].ids, h)) ELSE db.habit[h]]]
  /\ net' = Answer(i, TRUE)
  /\ UNCHANGED <<view, query, acts>>

UpdateRead(i) ==
  /\ Arrived(i, "update")
  /\ LET row == db.habit[net[i].id]
     IN net' = [net EXCEPT ![i].order = row.order, ![i].stage = IF row.live THEN "read" ELSE "failed"]
  /\ UNCHANGED <<db, view, query, acts>>
\* The UPDATE finds a row that was deleted meanwhile, the read after it does not.
UpdateWrite(i) ==
  /\ net[i].op = "update" /\ net[i].stage = "read"
  /\ LET h == net[i].id
         row == db.habit[h]
     IN /\ db' = [db EXCEPT !.habit[h].order = net[i].order,
                            !.habit[h].strayed = @ \/ net[i].order # row.order]
        /\ net' = Answer(i, row.live)
  /\ UNCHANGED <<view, query, acts>>

ServeDelete(i) ==
  /\ Arrived(i, "delete")
  /\ db' = [db EXCEPT !.habit[net[i].id].live = FALSE]
  /\ net' = Answer(i, db.habit[net[i].id].live)
  /\ UNCHANGED <<view, query, acts>>

\* ON CONFLICT (user_id, name) only revives the row that is there.
ServeCreate(i) ==
  /\ Arrived(i, "create")
  /\ LET h == net[i].id
         found == net[i].category \in db.category
     IN /\ db' = IF ~ found THEN db
                 ELSE IF db.habit[h].category # "none"
                 THEN [db EXCEPT !.habit[h].strayed = @ \/ ~ db.habit[h].live, !.habit[h].live = TRUE]
                 ELSE [db EXCEPT !.habit[h] = [@ EXCEPT !.live = TRUE, !.category = net[i].category]]
        /\ net' = Answer(i, found)
  /\ UNCHANGED <<view, query, acts>>

ServeCreateCategory(i) ==
  /\ Arrived(i, "createCategory")
  /\ db' = [db EXCEPT !.category = @ \cup {net[i].category}]
  /\ net' = Answer(i, TRUE)
  /\ UNCHANGED <<view, query, acts>>

Used(c) == \E h \in Ids : db.habit[h].category = c
CountHabits(i) ==
  /\ Arrived(i, "deleteCategory")
  /\ net' = [net EXCEPT ![i].stage = IF Used(net[i].category) THEN "failed" ELSE "counted"]
  /\ UNCHANGED <<db, view, query, acts>>
ServeDeleteCategory(i) ==
  /\ net[i].op = "deleteCategory" /\ net[i].stage = "counted"
  /\ LET c == net[i].category
         gone == c \in db.category /\ ~ Used(c)
     IN /\ db' = IF gone THEN [db EXCEPT !.category = @ \ {c}] ELSE db
        /\ net' = Answer(i, gone)
  /\ UNCHANGED <<view, query, acts>>

ServeQuery(q) ==
  /\ query[q].stage = "sent"
  /\ query' = [query EXCEPT ![q] = Serve(@, IF q = "categories" THEN db.category ELSE ListHabits(db))]
  /\ UNCHANGED <<db, view, net, acts>>

-----------------------------------------------------------------------------
(* The answers *)

Answered(i, op, stage) == net[i].op = op /\ net[i].stage = stage
InvalidateAll == [q \in DOMAIN query |-> Invalidate(query[q], TRUE)]

\* onSuccess of useReorderHabits returns nothing: nobody waits for the refetch.
ReorderAccepted(i) ==
  /\ Answered(i, "reorder", "done")
  /\ query' = InvalidateAll
  /\ net' = Settle(net, i)
  /\ UNCHANGED <<db, view, acts>>
\* As if the dragged order stayed.
ReorderRefusedKept(i) ==
  /\ Answered(i, "reorder", "failed")
  /\ net' = Settle(net, i)
  /\ UNCHANGED <<db, view, query, acts>>
ReorderRefused(i) ==
  /\ Answered(i, "reorder", "failed")
  /\ view' = [view EXCEPT !.optimistic = NoOrder]
  /\ net' = Settle(net, i)
  /\ UNCHANGED <<db, query, acts>>

HabitChanged(i) ==
  /\ \E op \in {"create", "update", "delete"} : Answered(i, op, "done")
  /\ query' = InvalidateAll
  /\ net' = [net EXCEPT ![i].stage = "refetching"]
  /\ UNCHANGED <<db, view, acts>>
CategoriesChanged(i) ==
  /\ Answered(i, "createCategory", "done") \/ Answered(i, "deleteCategory", "done")
  /\ query' = [query EXCEPT !.categories = Invalidate(@, TRUE)]
  /\ net' = [net EXCEPT ![i].stage = "refetchingCategories"]
  /\ UNCHANGED <<db, view, acts>>
Refused(i) ==
  /\ net[i].op # "reorder" /\ net[i].stage = "failed"
  /\ view' = IF view.saving = i THEN [view EXCEPT !.saving = 0] ELSE view
  /\ net' = Settle(net, i)
  /\ UNCHANGED <<db, query, acts>>

\* Whoever waits for the fetch that is over goes on: onDone closes the form of
\* a new habit, or whatever row of an edit or confirmation is open.
Through(q, i) ==
  \/ net[i].stage = "refetching" /\ \A other \in DOMAIN query \ {q} : Idle(query[other])
  \/ net[i].stage = "refetchingCategories" /\ q = "categories"
Resumed(ops) ==
  [view EXCEPT !.creating = @ /\ "create" \notin ops,
               !.deleting = IF "delete" \in ops THEN Nobody ELSE @,
               !.editing = IF "update" \in ops THEN Nobody ELSE @,
               \* A row that is gone takes its save along.
               !.saving = IF "update" \in ops \/ view.editing \notin ToSet(query'.habits.data)
                          THEN 0 ELSE @]
Fetched(q, new) ==
  /\ query' = [query EXCEPT ![q] = new]
  /\ LET through == {i \in Slots : Through(q, i)}
     IN /\ net' = [i \in Slots |-> IF i \in through THEN Free ELSE net[i]]
        /\ view' = Resumed({net[i].op : i \in through})
  /\ UNCHANGED db
LandQuery(q) == query[q].stage = "served" /\ Fetched(q, Land(query[q])) /\ UNCHANGED acts
FailQuery(q) == Act /\ ~ Idle(query[q]) /\ Fetched(q, FetchFails(query[q]))

\* The mutations of categories invalidate their list only.
Lose(i) ==
  /\ Act
  /\ Losable(net, i)
  /\ query' = [q \in DOMAIN query |->
       IF net[i].op \in {"createCategory", "deleteCategory"} /\ q # "categories" THEN query[q]
       ELSE AfterLoss(net, i, query[q])]
  /\ net' = Lost(net, i)
  /\ UNCHANGED <<db, view>>

-----------------------------------------------------------------------------

\* The defaults seeded at registration, and categories nobody uses yet.
Init ==
  /\ \E used \in Categories, start \in SUBSET Ids :
       db = [category |-> {used},
             habit |-> [h \in Ids |->
               [live |-> h \in start, strayed |-> FALSE, order |-> IF h \in start THEN h ELSE 0,
                category |-> IF h \in start THEN used ELSE "none"]]]
  /\ view = [optimistic |-> NoOrder, editing |-> Nobody, saving |-> 0, deleting |-> Nobody,
             creating |-> FALSE]
  /\ query = [habits |-> Loaded(ListHabits(db)), matrix |-> Loaded(ListHabits(db)),
              categories |-> Loaded(db.category)]
  /\ net = [i \in Slots |-> Free]
  /\ acts = 0

Next ==
  \/ \E from, to \in 1..Cardinality(Ids) : DragEnd(from, to)
  \/ \E h \in Ids : EditRow(h) \/ AskDelete(h) \/ \E c \in Categories : CreateHabit(h, c)
  \/ CancelEdit \/ SaveEdit \/ KeepHabit \/ ConfirmDelete \/ AddHabit \/ CancelCreate
  \/ \E c \in Categories : CreateCategory(c) \/ DeleteCategory(c)
  \/ \E i \in Slots :
       \/ ReorderCheck(i) \/ ReorderCommit(i) \/ UpdateRead(i) \/ UpdateWrite(i)
       \/ ServeDelete(i) \/ ServeCreate(i)
       \/ ServeCreateCategory(i) \/ CountHabits(i) \/ ServeDeleteCategory(i)
       \/ ReorderAccepted(i) \/ ReorderRefused(i) \/ HabitChanged(i)
       \/ CategoriesChanged(i) \/ Refused(i) \/ Lose(i)
  \/ \E q \in DOMAIN query : ServeQuery(q) \/ LandQuery(q) \/ FailQuery(q)

Spec == Init /\ [][Next]_vars

-----------------------------------------------------------------------------
(* Properties *)

Settled == Quiet(net) /\ \A q \in DOMAIN query : Idle(query[q])

\* The dragged order hides and doubles no habit of the list, and once nothing is
\* in flight the list is that of the server, whatever was dragged, created and
\* deleted since, unless an answer was lost or a fetch failed and nothing was
\* fetched since.
EveryHabitListed ==
  /\ IsInjective(Shown) /\ ToSet(Shown) = ToSet(query.habits.data)
  /\ Settled /\ ~ query.habits.missed => ToSet(Shown) = Live(db)

\* The habits the user dragged stand in the table in the order of the dialog,
\* once nothing is in flight and with the same exception; a reorder the server
\* refused leaves no trace in the dialog.  Two habits are left out: one that was
\* revived, which kept the number it had when the others got theirs, and one
\* whose edit had read the row before the reorder and wrote it back after.
DraggedOrderKept ==
  Settled /\ ~ query.habits.missed /\ ~ query.matrix.missed =>
    LET dragged(s) == Filter(s, {h \in ToSet(view.optimistic) : ~ db.habit[h].strayed})
    IN dragged(Shown) = dragged(query.matrix.data)
=============================================================================
