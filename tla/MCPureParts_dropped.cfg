\* RowsKept alone: an inner join from a left-joined component.
SPECIFICATION Spec
CONSTANTS
    None = None
    Keys <- MCKeys
    Refs <- MCRefs
    MaxRefs = 2
    MaxHops = 3
    Components <- MCComponents
    Joins <- MCJoins
    MaxJoins = 2
    Tables <- MCTables
    RowsToCompare <- MCRows
    MaxRows = 1
    MaxBatch = 2
INVARIANT RowsKept
\* The reading ends.
CHECK_DEADLOCK FALSE
