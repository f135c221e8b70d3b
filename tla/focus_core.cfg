SPECIFICATION Spec
CONSTANTS
  u1 = u1
  t1 = t1
  Users = {u1}
  Tasks = {t1}
  TaskOwner <- MCOwner
  Starts <- MCStarts
  Sids = {s1, s2}
  Requests = {r1, r2}
  Instances = {i1}
  StudyUsers = {u1}
  Nil = Nil
  MaxTime = 1
  MaxLag = 0
  RunningGrace = 0
  PausedGrace = 0
  DayLength = 1
  MaxSegments = 100
  TickRate = 2
  MinuteLength = 1
  DailyMinimum = 2
SYMMETRY Symm
VIEW View
INVARIANT SingleActive SegmentIffRunning HistoryExact StudyLogged DiscardEndsSession
PROPERTY StudyEarned TerminalIsFinal ImplementsLifecycle
