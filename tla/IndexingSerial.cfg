\* One client, no seed script: three runs of one repository, one of another.
CONSTANTS
    p = p
    q = q
    r1 = r1
    r2 = r2
    r3 = r3
    r4 = r4
    d1 = d1
    d2 = d2
    c1 = c1
    c2 = c2
    Repos = {p, q}
    ApiRuns = {r1, r2, r3, r4}
    SeedRuns = {}
    Clients = {c1}
    RepoOf <- SerialRepoOf
    ClientOf <- OneClient
    RepoLimit = 2
    Parses <- AnyParse
SPECIFICATION Spec
INVARIANT OneRunPerRepo
INVARIANT ActiveIsShown
INVARIANT ProgressOnlyInProgress
INVARIANT IndexIsWhole
INVARIANT DoneIsFresh
PROPERTY Lifecycle
PROPERTY ImplementsLifecycle
