SPECIFICATION FairTrailSpec
CONSTANTS
  MaxActions = 3
  MaxLogs = 2
  MaxFaults = 2
  CheckpointInterval = 2
  None = None
INVARIANTS
  
  AcknowledgedIsDurable
  ActedIsRecorded
PROPERTIES
  AppendReturns
CHECK_DEADLOCK FALSE
