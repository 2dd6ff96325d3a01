SPECIFICATION Spec
CONSTANTS
  N = 3
  Name = {postgis}
  Version = {v1}
  Target = {t1, t2}
  Publisher = {ongres}
  Priorities <- MCPriorities
  Answers <- MCAnswers
INVARIANTS
  TypeOK
  NothingLost
  TargetFromHighest
  MetadataNotErased
CHECK_DEADLOCK FALSE
