SPECIFICATION FairTurnSpec
CONSTANTS
  ls = ls
  rm = rm
  Word = {ls, rm}
  Path = {"f", "secret"}
  None = None
  Responses <- MCResponses
  Setups <- MCSetups
  MaxTurns = 2
  MaxSwaps = 1
  MaxStops = 1
  MaxAnswers = 3
  provider_requests = 3
  tool_calls = 2
  tool_calls_per_response = 2
  auto_continues = 1
  LargeResult = 3
  MaxBytes = 6
  MinimumBytes = 2
  Marker = 1
INVARIANTS EngineTypeOK  EffectsAreKept 
PROPERTY TurnEnds
CHECK_DEADLOCK FALSE
