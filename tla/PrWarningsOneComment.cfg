\* How many comments a pull request gets when its pushes are handled in order.
CONSTANTS
    Pushes = 4
    FaultSets = {{}}
SPECIFICATION Spec
INVARIANT OneCommentPerPr
CHECK_DEADLOCK FALSE
