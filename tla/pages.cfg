SPECIFICATION Spec
CONSTANTS
  Slots = {1, 2}
  Today = 2
  Names = {"a", "b"}
  Values = {0, 4}
  Habits <- MCHabits
  EntryActs = 3
  HabitIds = {1, 2, 3}
  Categories = {"c", "d"}
  ListActs = 2
  NoteIds = {1, 2, 3}
  Titles = {"x", "y"}
  NotesActs = 3
  TaskIds = {1, 2}
  Texts = {"a"}
  TasksActs = 3
  ReminderIds = {1, 2}
  RawCrons <- MCCrons
  Numbers = {0, 31, 99}
  RemindersActs = 3
  Registry <- MCRegistry
  Layouts <- MCLayouts
  DashboardActs = 6
INVARIANT PagesSettle MirrorInSync EveryHabitListed DraggedOrderKept FormAgrees EveryWidgetOnce
PROPERTY UntouchedFieldsKept DraftGoesToItsNote
CHECK_DEADLOCK FALSE
