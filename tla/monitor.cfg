SPECIFICATION FairSpec
CONSTANTS
  u1 = u1  e1 = e1  e2 = e2
  None = None
  Users = {u1}
  Endpoints = {e1, e2}
  DeadAtStart = {e2}
  BackupAmber = 0
  BackupRed = 1
  DrillAmber = 0
  DrillRed = 1
  Repeat = 3
  MaxLength = 1
  Ceiling = 2
  MaxBackoff = 2
  MaxChanges = 2
  MaxFaults = 1
INVARIANTS TypeOK
PROPERTIES OncePerWindow BackupTold StorageTold
