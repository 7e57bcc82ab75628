SPECIFICATION DaemonSpec
CONSTANTS
  SessionId = {s1, s2}
  Name = {n1, n2}
  Client = {c1, c2}
  Operation = {o1}
  Directory = {d1}
  None = None
  PersistMayFail = FALSE
  MaxActivePtys = 1
SYMMETRY Symmetry
INVARIANTS
  AttachmentsAgree
  RemovedWorkIsStopped
