SPECIFICATION DaemonSpec
CONSTANTS
  SessionId = {s1}
  Name = {n1}
  Client = {c1, c2}
  Operation = {o1, o2}
  Directory = {d1}
  None = None
  PersistMayFail = FALSE
  MaxActivePtys = 1
SYMMETRY Symmetry
PROPERTY NoLostHistory
