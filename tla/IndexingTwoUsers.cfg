\* Two dashboard users reindex one repository at the same time.
CONSTANTS
    p = p
    q = q
    r1 = r1
    r2 = r2
    r3 = r3
    r4 = r4
    d1 = d1
    d2 = d2
    c1 = c1
    c2 = c2
    Repos = {p}
    ApiRuns = {r1, r2, r3}
    SeedRuns = {}
    Clients = {c1, c2}
    RepoOf <- OneRepoOf
    ClientOf <- TwoClients
    RepoLimit = 1
    Parses <- AnyParse
SPECIFICATION Spec

INVARIANT OneRunPerRepo
