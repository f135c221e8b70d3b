SPECIFICATION Spec
CONSTANTS
  every1 = every1
  every2 = every2
  never = never
  Nil = Nil
  Notes = {n1}
  Ids = {m1, m2}
  Crons = {every1}
  Period <- MCPeriod
  Requests = {}
  Instances = {i1, i2}
  ClaimLimit = 2
  PollLimit = 2
  Second = 2
  TickGap = 1
  MaxTime = 2
  MaxArms = 1
  Browsers = {b1}
INVARIANT NoFiringBehindCursor
