\* A document of up to five numbers and up to three objects written, in one of
\* two lengths.
SPECIFICATION Spec
CONSTANTS
    Greatest = 5
    MaxObjects = 3
    Sizes = {1, 2}
    PrevSize = 2
    HeaderSize = 3
    Fresh = Fresh
INVARIANTS
    ListedExactly
    IndexAscending
    WrittenApart
PROPERTIES
    WriteTerminates
CHECK_DEADLOCK FALSE
