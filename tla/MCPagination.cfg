\* Lists of up to seven records; both limits bite before the end of the longest.
SPECIFICATION FairSpec
CONSTANTS
    bad = bad
    Records <- MCRecords
    Valid <- MCValid
    Lists <- MCLists
    Cursors <- MCCursors
    PageSize = 2
    MaxPages = 3
    MaxItems = 5
INVARIANTS
    TypeOK
    CompleteIsWhole
    BoundedIsPrefix
    NoPageTwice
PROPERTIES
    EveryListEnds
