\* Four symbols, two of them between progress commits, short limits.
CONSTANTS
    N = 4
    MaxFailures = 2
    MaxWaits = 1
    MaxTries = 2
    CommitEvery = 2
SPECIFICATION Spec
INVARIANT TypeOK
INVARIANT FailuresAreConsecutive
INVARIANT GeneratedAreStored
INVARIANT ProgressIsHonest
PROPERTY UnreachedKeepTheirs
PROPERTY PassEnds
CHECK_DEADLOCK FALSE
