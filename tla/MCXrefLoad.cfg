\* Every file of three sections.
SPECIFICATION Spec
CONSTANTS
    Offsets <- MCOffsets
    ObjNums <- MCObjNums
    Gens <- MCGens
    Files <- MCFiles
    Start = 30
    None = None
    NotInt = NotInt
INVARIANTS
    HighestGenerationWins
    NewestRevisionWins
    PrevListBounded
PROPERTIES
    LoadTerminates
CHECK_DEADLOCK FALSE
