SPECIFICATION Spec
CONSTANTS
  u1 = u1
  t1 = t1
  Users = {u1}
  Tasks = {t1}
  TaskOwner <- MCOwner
  Starts <- MCWorkStarts
  Sids = {s1}
  Requests = {r1, r2}
  Instances = {}
  StudyUsers = {}
  Nil = Nil
  MaxTime = 4
  MaxLag = 0
  RunningGrace = 1
  PausedGrace = 0
  DayLength = 4
  MaxSegments = 2
  TickRate = 1
  MinuteLength = 2
  DailyMinimum = 2
INVARIANT ActiveWorkHasTask
