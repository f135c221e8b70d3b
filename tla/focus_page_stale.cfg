SPECIFICATION FairSpec
CONSTANTS
  MaxSid = 2
  MaxTime = 1
  MaxActs = 3
  Planned = 1
  Disturbed = FALSE
  Slots <- MCSlots

PROPERTY Reconciles
CHECK_DEADLOCK FALSE
