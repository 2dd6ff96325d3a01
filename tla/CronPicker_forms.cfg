SPECIFICATION Spec
CONSTANTS
  Schedules <- MCSchedules
  Typed <- MCTyped
  EditTabs <- MCEditTabs
  MaxEdits = 2
  MaxSaves = 2
INVARIANTS
  TypeOK
  WholeInputIsCron
PROPERTIES
  ClosingKeepsChoices
  OpeningKeepsFields
  RunnableOnlyUntouchedOrMisread
CHECK_DEADLOCK FALSE
