SPECIFICATION MCSpec
CONSTANTS
  Client = {i1}
  MaxJobs = 1
  MaxStreams = 2
  MaxKeys = 2
  MaxOutput = 3
  MaxInputBytes = 1
  MaxRead = 1
  ReplayBytes = 2
  Budget = 2
  MaxInFlight = 1
  None = None
  Session = {s1, s2}
  Host = {home, far}
  Home = home
  MaxSubmitted = 1
  MaxEvents = 1
  Nil = Nil
SYMMETRY Symmetry
INVARIANTS
  
  
  DetachIsAcknowledged
  ActiveIsAttached
  TurnIsKept
PROPERTIES
  OutputIsContiguous
CHECK_DEADLOCK FALSE
