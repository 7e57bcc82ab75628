SPECIFICATION MCSpec
CONSTANTS
    Flows <- MCFlows
    Saves <- MCSaves
    ProgramCatalogs <- MCProgramCatalogs
    PredicateCatalogs <- MCPredicateCatalogs
    ConcretePaths <- MCConcretePaths
    MaxEdits = 2
    StreamAnswers <- MCStreamAnswers
    ErrorBodies <- MCErrorBodies
    JsonDocuments <- MCJsonDocuments
    MAX_STREAM_RESPONSE_BYTES = 13
    MAX_PENDING_LINE_BYTES = 3
    MAX_TOOL_CALLS = 2
    MAX_TOOL_ARGUMENT_BYTES = 4
    MIN_PLAUSIBLE_CONTEXT_TOKENS = 5
    MaxChunk = 3
INVARIANTS
    
    
    HashNamesOnePlan
    AnswerIsWhole
CHECK_DEADLOCK FALSE
