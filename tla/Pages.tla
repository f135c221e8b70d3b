-------------------------------- MODULE Pages --------------------------------
(***************************************************************************)
(* The pages of the app, one of them open.  They share nothing but the     *)
(* shape of their state, so one specification has them all.                *)
(***************************************************************************)
EXTENDS Integers, FiniteSets

CONSTANTS
  Slots,                                         \* bound: requests in flight
  Today, Names, Values, Habits, EntryActs,       \* of HabitEntry
  HabitIds, Categories, ListActs,                \* of HabitList
  NoteIds, Titles, NotesActs,                    \* of NotesPage
  TaskIds, Texts, TasksActs,                     \* of TaskPage
  ReminderIds, RawCrons, Numbers, RemindersActs, \* of NoteReminders
  Registry, Layouts, DashboardActs               \* of DashboardLayout

VARIABLES page, db, view, query, net, acts
vars == <<page, db, view, query, net, acts>>

\* A slot is never 0, with which a form says that it waits for nothing.
ASSUME SlotsAssumption == Slots \subseteq Nat \ {0} /\ Slots # {}

\* A cron typed as text has five parts, or stands for BadCron.
Crons == INSTANCE Cron
ASSUME CronsAssumption == \A c \in RawCrons : Crons!IsCron(c)

\* A habit's numbers are whole, its days those of a week.
Habit == INSTANCE HabitRules
ASSUME HabitsAssumption == Values \subseteq Int /\ Habits \subseteq Habit!Rules(Names)

\* A habit's name is not 0, with which the dialog says that none is edited,
\* nor a category "none", which a habit has that was never created.
ASSUME IdsAssumption ==
  IsFiniteSet(HabitIds) /\ HabitIds \subseteq Nat \ {0} /\ "none" \notin Categories

\* A widget is registered once, and stored once by an earlier version, too.
Array == INSTANCE Arrays
ASSUME LayoutsAssumption == \A layout \in Layouts \cup {Registry} : Array!Distinct(layout)

-----------------------------------------------------------------------------

Entry == INSTANCE HabitEntry WITH MaxActs <- EntryActs
List == INSTANCE HabitList WITH Ids <- HabitIds, MaxActs <- ListActs
Notes == INSTANCE NotesPage WITH MaxActs <- NotesActs
Tasks == INSTANCE TaskPage WITH MaxActs <- TasksActs
Reminders == INSTANCE NoteReminders WITH MaxActs <- RemindersActs
Dashboard == INSTANCE DashboardLayout WITH MaxActs <- DashboardActs

Init ==
  \/ page = "habit" /\ Entry!Init
  \/ page = "habits" /\ List!Init
  \/ page = "notes" /\ Notes!Init
  \/ page = "tasks" /\ Tasks!Init
  \/ page = "reminders" /\ Reminders!Init
  \/ page = "dashboard" /\ Dashboard!Init

Next ==
  \/ page = "habit" /\ Entry!Next /\ UNCHANGED page
  \/ page = "habits" /\ List!Next /\ UNCHANGED page
  \/ page = "notes" /\ Notes!Next /\ UNCHANGED page
  \/ page = "tasks" /\ Tasks!Next /\ UNCHANGED page
  \/ page = "reminders" /\ Reminders!Next /\ UNCHANGED page
  \/ page = "dashboard" /\ Dashboard!Next /\ UNCHANGED page

Spec == Init /\ [][Next]_vars

-----------------------------------------------------------------------------
(* Properties *)

\* Once nothing is in flight, every page shows what the server has, whatever
\* the order in which mutations and refetches were served, but for what was not
\* fetched again since it was on its way when a mutation succeeded, or since an
\* answer was lost or a fetch failed.
PagesSettle ==
  /\ page = "habit" => Entry!CellsSettle
  /\ page = "notes" => Notes!NotesSettle
  /\ page = "tasks" => Tasks!TaskListSettles
  /\ page = "reminders" => Reminders!RemindersSettle
  /\ page = "dashboard" => Dashboard!LayoutSettles

\* What the page computes of a habit is what the server computes.
MirrorInSync == page = "habit" => Entry!MirrorInSync

\* A save from a row opened while no save was in flight, on a list that had
\* missed none, changes no field but those the user entered, unless another
\* save has written the habit between its read and its write.
UntouchedFieldsKept == [][page = "habit" => Entry!KeepsUntouchedFields]_vars

\* The dialog lists every habit once, whatever was dragged, created, deleted,
\* unless it has missed an answer or a fetch.
EveryHabitListed == page = "habits" => List!EveryHabitListed

\* The habits that were dragged stand in the table in the dialog's order, but
\* for those whose number a revival or an edit overtaken by the reorder changed.
DraggedOrderKept == page = "habits" => List!DraggedOrderKept

\* A save goes to the note whose text the form was opened with.
DraftGoesToItsNote == [][page = "notes" => Notes!KeepsDraftsApart]_vars

\* A reminder's form sends the schedule it shows.
FormAgrees == page = "reminders" => Reminders!FormAgrees

\* The dashboard shows, and saves, every widget once.
EveryWidgetOnce == page = "dashboard" => Dashboard!EveryWidgetOnce
=============================================================================
