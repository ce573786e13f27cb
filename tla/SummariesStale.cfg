\* Which symbols still show a summary of the old evidence after the pass.
CONSTANTS
    N = 3
    MaxFailures = 3
    MaxWaits = 1
    MaxTries = 1
    CommitEvery = 10
SPECIFICATION Spec
INVARIANT FailedSymbolIsEmpty
CHECK_DEADLOCK FALSE
