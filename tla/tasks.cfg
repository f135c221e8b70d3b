SPECIFICATION Spec
CONSTANTS
  FirstYear = 2027
  FirstWeekday = 5
  Ids = {m1, m2}
  Requests = {r1, r2}
  Rescheduling = {r1}
  Dates = {28}
  RulesUsed = {"weekdays", "monthly"}
  StatusesUsed = {"todo", "done"}
  FirstDay = 28
  LastDay = 29
  Horizon = 28
  MaxCompletions = 1
  MaxOverlaps = 1
SYMMETRY Symm
VIEW View
INVARIANT TypeOK OccurrencePerCompletion
PROPERTY OccurrenceIsLater CompletionKept
