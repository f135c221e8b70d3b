SPECIFICATION FairSpec
CONSTANTS
  MaxSid = 2
  MaxTime = 1
  MaxActs = 3
  Planned = 1
  Disturbed = TRUE
  Slots <- MCSlots
PROPERTY FollowsLifecycle BreakFollowsRecord PlannedEndCompletes ConflictSurfaces
CHECK_DEADLOCK FALSE
