SPECIFICATION Spec
CONSTANTS
  Schedules <- MCSchedules
  Typed <- MCTyped
  EditTabs <- MCEditTabs
  MaxEdits = 1
  MaxSaves = 1
INVARIANTS
  StoredIsRegistered
CHECK_DEADLOCK FALSE
