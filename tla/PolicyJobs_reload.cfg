SPECIFICATION Spec
CONSTANTS
  p1 = p1
  p2 = p2
  r1 = r1
  r2 = r2
  l1 = l1
  l2 = l2
  l3 = l3
  nightly = nightly
  hourly = hourly
  six = six
  Unset = Unset
  PolicyId = {p1, p2}
  Schedule = {nightly, hourly, six, Unset}
  Parsable = {nightly, hourly}
  Request = {r1, r2}
  Load = {l1, l2, l3}
  FirstRows <- MCFirstRows
  AskedRows <- MCAskedRows
  MaxRestarts = 1
INVARIANTS
  TypeOK
  JobsCurrent
  OrphansNeverStart
PROPERTIES
  DisabledStaysDisabled
  EventuallyScheduled
CHECK_DEADLOCK FALSE
