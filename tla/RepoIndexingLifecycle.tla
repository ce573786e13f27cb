------------------------ MODULE RepoIndexingLifecycle ------------------------
(* RepoIndexing seen from the card: how it implements IndexLifecycle. *)
EXTENDS RepoIndexing

\* The stored index is that of the run that is at work, or that the server lost.
Fresh == [repo \in Repos |->
             \E r \in latest[repo] : RepoOf[r] = repo /\ pc[r] \in Active \cup {"lost"}]

\* The stored index is one run's, and with it the evidence of its symbols.
Whole == [repo \in Repos |->
             \E r \in Runs : /\ latest[repo] = {r} /\ index[repo] \subseteq {r} \X Tables
                             /\ HasSymbols(repo) => evidence[repo] = {r} \X Batches]

Life == INSTANCE IndexLifecycle WITH card <- status, fresh <- Fresh, whole <- Whole

\* With one client at a time and no seed script an indexing keeps the promises of
\* IndexLifecycle, whatever fails on the way and however often the server dies.
ImplementsLifecycle == Life!Spec
=============================================================================
