\* Whether the row of overlapping handlers lists the findings of one push only.
CONSTANTS
    Pushes = 3
    FaultSets = {{"overlap"}}
SPECIFICATION Spec
INVARIANT RowListsOnePush
CHECK_DEADLOCK FALSE
