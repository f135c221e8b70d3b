SPECIFICATION FairSpec
CONSTANTS
  every1 = every1
  every2 = every2
  never = never
  Nil = Nil
  Notes = {n1}
  Ids = {m1}
  Crons = {every1, every2}
  Period <- MCPeriod
  Requests = {r1}
  Instances = {i1, i2}
  ClaimLimit = 1
  PollLimit = 1
  Second = 2
  TickGap = 0
  MaxTime = 1
  MaxArms = 2
  Browsers = {b1}
INVARIANT TypeOK NoDoubleMail NextIsOccurrence
PROPERTY FiredWasDue DueIsClaimed
