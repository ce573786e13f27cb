--------------------------- MODULE MCRepoIndexing ---------------------------
(* Instances of RepoIndexing for TLC. *)
EXTENDS RepoIndexingLifecycle

CONSTANTS p, q, r1, r2, r3, r4, d1, d2, c1, c2

\* One repository, indexed three times, and a second one indexed once.
SerialRepoOf == [r \in ApiRuns |-> IF r = r4 THEN q ELSE p]

\* Requests about one repository, seed scripts about the demo's.
OneRepoOf == [r \in Runs |-> IF r \in SeedRuns THEN q ELSE p]

\* Nothing in the repository, no code, nothing called or imported, all of it.
AnyParse == {tables \in SUBSET Tables : tables # {} => "files" \in tables}

OneClient == [r \in ApiRuns |-> c1]
TwoClients == [r \in ApiRuns |-> IF r = r2 THEN c2 ELSE c1]
=============================================================================
