\* The same, for what the docstring says of a truncated list.
SPECIFICATION Spec
CONSTANTS
    bad = bad
    Records <- MCRecords
    Valid <- MCValid
    Lists <- MCLists
    Cursors <- MCCursors
    PageSize = 2
    MaxPages = 3
    MaxItems = 5
INVARIANT TruncatedMeansFewer
