SPECIFICATION RevisionsSpec
CONSTANTS
    MaxOld = 3
    Gens = {0, 1}
    MaxFresh = 2
    MaxRevisions = 2
CHECK_DEADLOCK FALSE
INVARIANTS LatestRevisionFound
PROPERTIES RefinesStore
