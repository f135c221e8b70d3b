SPECIFICATION FairSpec
CONSTANTS
  u1 = u1
  t1 = t1
  Users = {u1}
  Tasks = {t1}
  TaskOwner <- MCOwner
  Starts <- MCWorkStarts
  Sids = {s1}
  Requests = {r1, r2}
  Instances = {i1}
  StudyUsers = {}
  Nil = Nil
  MaxTime = 2
  MaxLag = 1
  RunningGrace = 1
  PausedGrace = 0
  DayLength = 4
  MaxSegments = 2
  TickRate = 2
  MinuteLength = 2
  DailyMinimum = 2
INVARIANT TypeOK OverCreditBounded
PROPERTY StaleIsPaused UntouchedIsDiscarded
