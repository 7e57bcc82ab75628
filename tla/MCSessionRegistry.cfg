SPECIFICATION Spec
CONSTANTS
  SessionId = {s1, s2}
  Name = {n1, n2}
  Client = {c1, c2}
  Operation = {o1, o2}
  Directory = {d1}
  None = None
  PersistMayFail = TRUE
SYMMETRY Symmetry
INVARIANTS
  TypeOK
  SingleController
  UniqueNames
  EphemeralIsControlled
  DiskIsCurrent
PROPERTIES
  RecoveryIsExact
