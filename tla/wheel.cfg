SPECIFICATION FairSpec
CONSTANTS
  Items = {t1, t2}
  max_time = 3
  Thresholds = {0, 4}
  MaxLag = 2
  Jumps <- MCJumps
  MaxSets = 1
INVARIANTS
  TypeOK
  OnSchedule
  FiresOnTime
  ItemsOnce
PROPERTIES
  LeavesByExpiring
  EventuallyExpires
