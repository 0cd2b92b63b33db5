\* KeylessNotReferenced alone: a reference with no columns to an entity without a key.
SPECIFICATION Spec
CONSTANTS
    None = None
    Keys <- MCKeys
    Refs <- MCRefs
    MaxRefs = 2
    MaxHops = 3
    Components <- MCComponents
    Joins <- MCJoins
    MaxJoins = 2
    Tables <- MCTables
    RowsToCompare <- MCRows
    MaxRows = 1
    MaxBatch = 2
INVARIANT KeylessNotReferenced
\* The reading ends.
CHECK_DEADLOCK FALSE
