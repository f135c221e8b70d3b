SPECIFICATION Spec
CONSTANTS
  FirstYear = 2027
  FirstWeekday = 5
  Ids = {m1, m2}
  Requests = {r1, r2}
  Rescheduling = {r1, r2}
  Dates = {28}
  RulesUsed = {"daily"}
  StatusesUsed = {"todo", "done"}
  FirstDay = 28
  LastDay = 28
  Horizon = 30
  MaxCompletions = 1
  MaxOverlaps = 1
SYMMETRY Symm
INVARIANT NoExtraOccurrence
