SPECIFICATION Spec
CONSTANTS
    OldPages = OldPages
    Root = Root
    Pages = Pages
    Null = Null
    Nodes = {1, 2, 3, 4}
    Documents <- CollectDocs
    CatalogEntries = {3}
    MaxAdds = 2
    Handlers = {h1, h2}
    Foreign = {f1, f2}
    MaxSigs = 2
    MaxOld = 3
    MaxPart = 2
    MaxEnd = 11
    MaxCalls = 2
    NumPages = 3
    MaxOps = 4
    Idle = Idle
CHECK_DEADLOCK FALSE
INVARIANTS CollectedWhole SignedWhole     LaidOut
