\* Three pushes, handled in order, or with handlers that overlap, crash, lose
\* answers and fail to commit.
CONSTANTS
    Pushes = 3
    FaultSets = {{}, {"overlap", "crash", "lost_answer", "db_error"}}
SPECIFICATION Spec
INVARIANT TypeOK
INVARIANT WarningsAreTold
INVARIANT NoNoise
INVARIANT OneWarningComment
INVARIANT CommentMatchesRow
INVARIANT LastVerdictStands
CHECK_DEADLOCK FALSE
