CONSTANTS
    Null = Null
    Hours <- MCHours
    Buffers <- MCBuffers
    MaxStays = 3
SPECIFICATION Spec
INVARIANTS
    NextAvailableIsFirstFree
    AnswersAgree
CHECK_DEADLOCK FALSE
