SPECIFICATION Spec
CONSTANTS
    Idle = Idle
CHECK_DEADLOCK FALSE
INVARIANTS  StreamsReadBack ImagesKept  ContentAsWritten FunctionsEvaluate PaintingKept  
