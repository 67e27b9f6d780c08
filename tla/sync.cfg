SPECIFICATION Spec
CONSTANTS
  Last = 1
  Writes = {"workers", "archive", "status"}
  MaxCommits = 1
  MaxEdits = 2
  MaxLogins = 1
  MaxFaults = 2
INVARIANTS TypeOK DraftsTakenBack HeardIsShown LockHasOwner
PROPERTIES ListsAdvance
CHECK_DEADLOCK FALSE
