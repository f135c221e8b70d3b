------------------------------ MODULE NotesPage ------------------------------
(***************************************************************************)
(* NotesPage.tsx: a list of notes, searched; beside it a note, previewed   *)
(* or in a form.  What stands beside the list is not chosen: it is worked  *)
(* out at every render from the ids the page remembers and the list it has *)
(* just then, so a search, a refetch, a deletion or a late answer can put  *)
(* another note there.                                                     *)
(*                                                                         *)
(* A note is its title, which is also what a search finds; a body goes the *)
(* same way.  The reminders under a preview are in RemindersSection.       *)
(***************************************************************************)
EXTENDS Query, Sequences, SequencesExt

CONSTANTS
  NoteIds,    \* bound: ids the server gives to notes, numbers from 1
  Titles,     \* bound: titles, one of which a search finds
  Slots,      \* bound: requests in flight
  MaxActs     \* bound: acts of the user, losses and failures

VARIABLES
  db,      \* the server: the notes, the last updated first
  view,    \* the page
  query,   \* the list of each search the page has asked for
  net,     \* the mutations in flight
  acts     \* how much of MaxActs is used

vars == <<db, view, query, net, acts>>

None == 0
New == 99
NoForm == [key |-> None]
Everything == ""

Act == acts < MaxActs /\ acts' = acts + 1
CanSend == FreeSlots(net) # {}

-----------------------------------------------------------------------------
(* What is rendered for the page v and the queries qs *)

Searches == {Everything} \cup Titles
Listed(v, qs) == qs[v.search].data
Ids(notes) == {notes[k].id : k \in DOMAIN notes}
Without(notes, id) == SelectSeq(notes, LAMBDA n : n.id # id)
\* notes.find(...) ?? otherwise
FindOr(notes, id, otherwise) == IF id \in Ids(notes) THEN id ELSE otherwise

SelectedNote(v, notes) == FindOr(notes, v.selected, IF notes = <<>> THEN None ELSE notes[1].id)
ActiveNote(v, qs) ==
  LET notes == Listed(v, qs)
  IN IF v.editing = New THEN None ELSE FindOr(notes, v.editing, SelectedNote(v, notes))

Previewed(v, qs) == v.preview /\ ActiveNote(v, qs) # None
FormKey(v, qs) ==
  IF Previewed(v, qs) THEN None ELSE IF v.editing = New THEN New ELSE ActiveNote(v, qs)
\* The note the form would save to.
FormNote(v, qs) == IF v.editing = New THEN New ELSE ActiveNote(v, qs)

TitleOf(notes, id) == notes[CHOOSE k \in DOMAIN notes : notes[k].id = id].title
\* A form that is mounted: the text in it, whose text that is, its own save.
Mounted(key, about, notes) ==
  [key |-> key, about |-> about, slot |-> 0, error |-> FALSE,
   title |-> IF about \in Ids(notes) THEN TitleOf(notes, about) ELSE ""]
\* As if the form had no key: it lives on while some form is shown.
RenderedUnkeyed(v, qs) ==
  LET key == FormKey(v, qs)
  IN IF (key = None) = (v.form.key = None) THEN v
     ELSE [v EXCEPT !.form = IF key = None THEN NoForm
                             ELSE Mounted(key, FormNote(v, qs), Listed(v, qs))]
\* A form whose key changed is another form.
Rendered(v, qs) ==
  LET key == FormKey(v, qs)
  IN IF key = v.form.key THEN v
     ELSE [v EXCEPT !.form = IF key = None THEN NoForm
                             ELSE Mounted(key, FormNote(v, qs), Listed(v, qs))]

Render(v, qs) == view' = Rendered(v, qs) /\ query' = qs
Active == ActiveNote(view, query)

-----------------------------------------------------------------------------
(* The user *)

\* DebouncedSearch: the page hears of the text when it has rested for 300 ms.
TypeSearch(s) ==
  /\ Act
  /\ view.local # s
  /\ view' = [view EXCEPT !.local = s]
  /\ UNCHANGED <<db, query, net>>

Unknown == Unopened(<<>>)
SearchRests ==
  /\ view.search # view.local
  /\ Render([view EXCEPT !.search = view.local],
            [query EXCEPT ![view.local] = Observe(@)])
  /\ UNCHANGED <<db, net, acts>>

NewNote ==
  /\ Act
  /\ Render([view EXCEPT !.selected = None, !.editing = New, !.preview = FALSE], query)
  /\ UNCHANGED <<db, net>>

Chosen(v, id) == [v EXCEPT !.selected = id, !.editing = id, !.preview = TRUE]
PickNote(id) ==
  /\ Act
  /\ id \in Ids(Listed(view, query))
  /\ Render(Chosen(view, id), query)
  /\ UNCHANGED <<db, net>>

\* The buttons View and Edit of a note.
ShowAs(preview) ==
  /\ Act
  /\ Active # None /\ view.preview # preview
  /\ Render([view EXCEPT !.preview = preview], query)
  /\ UNCHANGED <<db, net>>

Write(title) ==
  /\ Act
  /\ view.form # NoForm /\ view.form.title # title
  /\ view' = [view EXCEPT !.form.title = title]
  /\ UNCHANGED <<db, query, net>>

\* The title is required; the button waits for the form's own save.
Submit ==
  /\ CanSend
  /\ view.form # NoForm /\ view.form.slot = 0 /\ view.form.title # ""
  /\ net' = Send(net, [op |-> "save", stage |-> "sent", id |-> FormNote(view, query),
                       title |-> view.form.title, about |-> view.form.about])
  /\ view' = [view EXCEPT !.form.slot = Min(FreeSlots(net)), !.form.error = FALSE]
  /\ UNCHANGED <<db, query, acts>>

\* remaining: the list as it was when Delete was pressed.
DeleteNote ==
  /\ Act /\ CanSend
  /\ Active # None
  /\ net' = Send(net, [op |-> "delete", stage |-> "sent", id |-> Active,
                       remaining |-> Without(Listed(view, query), Active)])
  /\ UNCHANGED <<db, view, query>>

-----------------------------------------------------------------------------
(* The server *)

Others(id) == Without(db, id)
FreshIds == NoteIds \ (Ids(db) \cup {net[i].id : i \in {j \in Slots : net[j] # Free}})

ServeSave(i) ==
  /\ net[i].op = "save" /\ net[i].stage = "sent"
  /\ \/ /\ net[i].id \in Ids(db)
        /\ db' = <<[id |-> net[i].id, title |-> net[i].title]>> \o Others(net[i].id)
        /\ net' = [net EXCEPT ![i].stage = "done"]
     \/ /\ net[i].id = New /\ FreshIds # {}
        /\ db' = <<[id |-> Min(FreshIds), title |-> net[i].title]>> \o db
        /\ net' = [net EXCEPT ![i].stage = "done", ![i].id = Min(FreshIds)]
     \/ /\ net[i].id \notin Ids(db) \cup {New}
        /\ net' = [net EXCEPT ![i].stage = "failed"]
        /\ UNCHANGED db
  /\ UNCHANGED <<view, query, acts>>

ServeDelete(i) ==
  /\ net[i].op = "delete" /\ net[i].stage = "sent"
  /\ \/ /\ net[i].id \in Ids(db)
        /\ db' = Others(net[i].id)
        /\ net' = [net EXCEPT ![i].stage = "done"]
     \/ /\ net[i].id \notin Ids(db)
        /\ net' = [net EXCEPT ![i].stage = "failed"]
        /\ UNCHANGED db
  /\ UNCHANGED <<view, query, acts>>

FoundIn(notes, search) == SelectSeq(notes, LAMBDA n : search \in {Everything, n.title})
Found(search) == FoundIn(db, search)
ServeQuery(s) ==
  /\ query[s].stage = "sent"
  /\ query' = [query EXCEPT ![s] = Serve(@, Found(s))]
  /\ UNCHANGED <<db, view, net, acts>>

-----------------------------------------------------------------------------
(* The answers *)

Invalidated == [s \in DOMAIN query |-> Invalidate(query[s], s = view.search)]

\* onSaved, whatever the page shows by now.
Saved(i) ==
  /\ net[i].op = "save" /\ net[i].stage = "done"
  /\ Render(Chosen(view, net[i].id), Invalidated)
  /\ net' = Settle(net, i)
  /\ UNCHANGED <<db, acts>>

SaveRefused(i) ==
  /\ net[i].op = "save" /\ net[i].stage = "failed"
  /\ view' = IF view.form # NoForm /\ view.form.slot = i
             THEN [view EXCEPT !.form.slot = 0, !.form.error = TRUE] ELSE view
  /\ net' = Settle(net, i)
  /\ UNCHANGED <<db, query, acts>>

\* handleDelete goes on: the first note that remained is chosen.
Deleted(i) ==
  /\ net[i].op = "delete" /\ net[i].stage = "done"
  /\ LET rest == net[i].remaining
     IN Render(Chosen(view, IF rest = <<>> THEN None ELSE rest[1].id), Invalidated)
  /\ net' = Settle(net, i)
  /\ UNCHANGED <<db, acts>>
DeleteRefused(i) ==
  /\ net[i].op = "delete" /\ net[i].stage = "failed"
  /\ net' = Settle(net, i)
  /\ UNCHANGED <<db, view, query, acts>>

LandQuery(s) ==
  /\ query[s].stage = "served"
  /\ Render(view, [query EXCEPT ![s] = Land(@)])
  /\ UNCHANGED <<db, net, acts>>

FailQuery(s) ==
  /\ Act
  /\ ~ Idle(query[s])
  /\ query' = [query EXCEPT ![s] = FetchFails(@)]
  /\ UNCHANGED <<db, view, net>>
\* Or the note is written, and the read after the commit fails.
Lose(i) ==
  /\ Act
  /\ Losable(net, i)
  /\ query' = [s \in Searches |-> AfterLoss(net, i, query[s])]
  /\ net' = Lost(net, i)
  /\ UNCHANGED <<db, view>>

-----------------------------------------------------------------------------

Init ==
  /\ db \in {<<>>} \cup {<<[id |-> 1, title |-> t]>> : t \in Titles}
              \cup {<<[id |-> 2, title |-> t], [id |-> 1, title |-> u]>> : t, u \in Titles}
  /\ query = [s \in Searches |-> IF s = Everything THEN Opened(<<>>) ELSE Unknown]
  /\ view = [local |-> Everything, search |-> Everything, selected |-> None,
             editing |-> None, preview |-> TRUE, form |-> NoForm]
  /\ net = [i \in Slots |-> Free]
  /\ acts = 0

Next ==
  \/ \E s \in Searches : TypeSearch(s) \/ ServeQuery(s) \/ LandQuery(s) \/ FailQuery(s)
  \/ SearchRests \/ NewNote \/ Submit \/ DeleteNote
  \/ \E id \in NoteIds : PickNote(id)
  \/ \E preview \in BOOLEAN : ShowAs(preview)
  \/ \E title \in Titles : Write(title)
  \/ \E i \in Slots :
       \/ ServeSave(i) \/ ServeDelete(i)
       \/ Saved(i) \/ SaveRefused(i) \/ Deleted(i) \/ DeleteRefused(i) \/ Lose(i)

Spec == Init /\ [][Next]_vars

-----------------------------------------------------------------------------
(* Properties *)

\* Once nothing is in flight, the list is what the server finds, unless it was
\* on its way, first of all or for a search that was left, when a mutation
\* succeeded, or an answer was lost (NoteModel.Update reads the note again after
\* its commit, and may fail) or its fetch failed, and it was not fetched since.
NotesSettle ==
  LET shown == query[view.search]
  IN Quiet(net) /\ Idle(shown) /\ ~ shown.missed => shown.data = Found(view.search)

\* A save goes to the note whose text the form was opened with, whatever a
\* search, a refetch, a deletion or the answer to another save has put beside
\* the list since: for that the form has a key (NotesPage.tsx:126).
KeepsDraftsApart == Submit => FormNote(view, query) = view.form.about
=============================================================================
