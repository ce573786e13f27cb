----------------------------- MODULE MCRepoClone -----------------------------
(* An instance of RepoClone for TLC: seed scripts on the demo repository. *)
EXTENDS RepoClone, TLC

CONSTANTS q, d1, d2, c1

SeedsAreAlike == Permutations({d1, d2})

\* A repository with everything, or a directory that was gone.
AllOrNothing == {{}, Tables}

DemoRepoOf == [r \in Runs |-> q]
NoClient == [r \in ApiRuns |-> c1]
=============================================================================
