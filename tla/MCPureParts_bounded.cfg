\* Graphs, joins and comparisons.
SPECIFICATION Spec
CONSTANTS
    None = None
    Keys <- MCKeys
    Refs <- MCRefs
    MaxRefs = 3
    MaxHops = 3
    Components <- MCComponents
    Joins <- MCJoins
    MaxJoins = 2
    Tables <- MCTables
    RowsToCompare <- MCRows
    MaxRows = 3
    MaxBatch = 2
INVARIANTS AcyclicAgrees GrainExact ReachableOrAmbiguous JoinsKeepGrain RowsKeptUnlessLeft BatchedVerdictExact GroupedVerdictExact
\* The reading ends.
CHECK_DEADLOCK FALSE
