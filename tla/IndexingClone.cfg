\* Two seed scripts on the demo repository, one after the other or at once, while
\* its default branch moves on.
CONSTANTS
    q = q
    d1 = d1
    d2 = d2
    c1 = c1
    Repos = {q}
    ApiRuns = {}
    SeedRuns = {d1, d2}
    Clients = {c1}
    RepoOf <- DemoRepoOf
    ClientOf <- NoClient
    RepoLimit = 1
    Parses <- AllOrNothing
    MaxHead = 2
SPECIFICATION CloneSpec
SYMMETRY SeedsAreAlike
INVARIANT AloneReadsOneRevision
INVARIANT LoneIndexIsWhole
INVARIANT DamageIsRepaired
