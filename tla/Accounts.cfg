CONSTANTS
    s1 = s1
    s2 = s2
    s3 = s3
    o1 = o1
    o2 = o2
    o3 = o3
    Sessions = {s1, s2}
    People = {alice, bob, demo_user}
    DemoUser = demo_user
    Orgs = {o1, o2, o3}
    Installations = {i1, i2}
    Names = {n1, n2}
    DemoRepo = n1
    RepoLimit = 1
    None = None
SPECIFICATION Spec
SYMMETRY AllAlike
INVARIANT TypeOK
INVARIANT OneOrgPerInstallation
INVARIANT TokensAgree
INVARIANT PlanLimitHolds
INVARIANT DemoIsOne
PROPERTY DemoOnlySeeded
