\* Right, wrong and unreadable entries; lookups of both kinds.
SPECIFICATION Spec
CONSTANTS
    Nums <- MCNums
    Offs <- MCOffs
    Documents <- PlainDocs
    Clients = {FALSE, TRUE}
    Direct = Direct
    MaxCalls = 2
    MaxDepth = 8
INVARIANTS
    NumberMatches
    HealthyFound
CHECK_DEADLOCK FALSE
