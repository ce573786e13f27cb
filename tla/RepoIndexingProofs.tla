------------------------- MODULE RepoIndexingProofs -------------------------
(***************************************************************************)
(* What holds of RepoIndexing with any repositories, runs and clients:     *)
(* requests and seed scripts may overlap as they like, any stage may fail, *)
(* and the server may die and come back at any point.                      *)
(***************************************************************************)
EXTENDS RepoIndexing, TLAPS

\* A database without repositories, and no run begun.
LEMMA TypeInit == Init => TypeOK
BY DEF Init, TypeOK, Statuses, InProgress, PCs

\* Every transaction, failure and crash leaves values of the declared types.
LEMMA TypeNext == TypeOK /\ [Next]_vars => TypeOK'
<1> SUFFICES ASSUME TypeOK, [Next]_vars PROVE TypeOK'
  OBVIOUS
<1> USE RunsAssumption DEF TypeOK, Runs, Goto, SetStatus, SetProgress, Stored,
                          Statuses, InProgress, PCs, Active, Stages, Batches
<1>1. ASSUME NEW r \in ApiRuns, AddRepo(r) PROVE TypeOK'
  BY <1>1 DEF AddRepo
<1>2. ASSUME NEW r \in ApiRuns, ReindexCheck(r) PROVE TypeOK'
  BY <1>2 DEF ReindexCheck
<1>3. ASSUME NEW r \in ApiRuns, ReindexCommit(r) PROVE TypeOK'
  <2>1. PICK p \in {FALSE, progress[RepoOf[r]]} : SetProgress(r, p)
    BY <1>3 DEF ReindexCommit
  <2>2. RepoOf[r] \in Repos
    OBVIOUS
  <2>4. progress[RepoOf[r]] \in BOOLEAN
    BY <2>2
  <2>5. p \in BOOLEAN
    BY <2>1, <2>4, Zenon
  <2>3. progress' \in [Repos -> BOOLEAN]
    BY <2>1, <2>2, <2>5
  <2>. QED
    BY <1>3, <2>3 DEF ReindexCommit
<1>4. ASSUME NEW r \in SeedRuns, Seed(r) PROVE TypeOK'
  BY <1>4 DEF Seed
<1>5. ASSUME NEW r \in SeedRuns, SeedKilled(r) PROVE TypeOK'
  BY <1>5 DEF SeedKilled, Dead
<1>6. ASSUME NEW r \in Runs, Start(r) PROVE TypeOK'
  BY <1>6 DEF Start
<1>7. ASSUME NEW r \in Runs, SaveHistory(r) PROVE TypeOK'
  BY <1>7 DEF SaveHistory
<1>8. ASSUME NEW r \in Runs, BeginParsing(r) PROVE TypeOK'
  BY <1>8 DEF BeginParsing
<1>9. ASSUME NEW r \in Runs, ParseFiles(r) PROVE TypeOK'
  BY <1>9 DEF ParseFiles
<1>10. ASSUME NEW r \in Runs, ClearReferences(r) \/ ClearSymbols(r) \/ ClearFiles(r)
       PROVE TypeOK'
  <2>1. PICK table \in Tables, from \in PCs, to \in PCs : ClearRows(r, table, from, to)
    BY <1>10 DEF ClearReferences, ClearSymbols, ClearFiles, Tables
  <2>2. Rows(RepoOf[r], table) \subseteq Runs \X Tables
    BY DEF Rows
  <2>3. held' \in [Runs -> SUBSET (Runs \X Tables)]
    BY <2>1, <2>2 DEF ClearRows
  <2>4. pc' \in [Runs -> PCs]
    BY <2>1 DEF ClearRows
  <2>. QED
    BY <2>1, <2>3, <2>4 DEF ClearRows
<1>11. ASSUME NEW r \in Runs, SaveIndex(r) PROVE TypeOK'
  <2>1. PICK tables \in Parses :
          index' = [index EXCEPT ![RepoOf[r]] = Others(r) \cup ({r} \X tables)]
    BY <1>11 DEF SaveIndex
  <2>2. tables \subseteq Tables /\ Others(r) \subseteq Runs \X Tables
    BY DEF Others
  <2>3. index' \in [Repos -> SUBSET (Runs \X Tables)]
    BY <2>1, <2>2
  <2>4. latest' \in [Repos -> SUBSET Runs]
    BY <1>11 DEF SaveIndex
  <2>. QED
    BY <1>11, <2>3, <2>4 DEF SaveIndex
<1>12. ASSUME NEW r \in Runs, IndexConflict(r) PROVE TypeOK'
  BY <1>12 DEF IndexConflict
<1>13. ASSUME NEW r \in Runs, ClearEvidence(r) PROVE TypeOK'
  BY <1>13 DEF ClearEvidence
<1>14. ASSUME NEW r \in Runs, NothingToLink(r) PROVE TypeOK'
  BY <1>14 DEF NothingToLink
<1>15. ASSUME NEW r \in Runs, LinkEvidence(r) PROVE TypeOK'
  BY <1>15 DEF LinkEvidence, AddEvidence
<1>16. ASSUME NEW r \in Runs, LinkLastEvidence(r) PROVE TypeOK'
  BY <1>16 DEF LinkLastEvidence, AddEvidence
<1>17. ASSUME NEW r \in Runs, BeginSummaries(r) PROVE TypeOK'
  BY <1>17 DEF BeginSummaries
<1>18. ASSUME NEW r \in Runs, NothingToSummarize(r) PROVE TypeOK'
  BY <1>18 DEF NothingToSummarize
<1>19. ASSUME NEW r \in Runs, EndSummaries(r) PROVE TypeOK'
  BY <1>19 DEF EndSummaries
<1>20. ASSUME NEW r \in Runs, Finish(r) PROVE TypeOK'
  BY <1>20 DEF Finish
<1>21. ASSUME NEW r \in Runs, MarkFailed(r) PROVE TypeOK'
  BY <1>21 DEF MarkFailed
<1>22. ASSUME NEW r \in Runs, ReportProgress(r) PROVE TypeOK'
  BY <1>22 DEF ReportProgress
<1>23. ASSUME NEW r \in Runs, TaskNotScheduled(r) PROVE TypeOK'
  BY <1>23 DEF TaskNotScheduled
<1>24. ASSUME NEW r \in Runs, StartFails(r) PROVE TypeOK'
  BY <1>24 DEF StartFails
<1>25. ASSUME NEW r \in Runs, Fail(r) PROVE TypeOK'
  BY <1>25 DEF Fail
<1>26. ASSUME NEW r \in Runs, FailureNotRecorded(r) PROVE TypeOK'
  BY <1>26 DEF FailureNotRecorded
<1>27. CASE Crash
  BY <1>27 DEF Crash, Dead
<1>28. CASE Startup
  BY <1>28 DEF Startup
<1>29. CASE UNCHANGED vars
  BY <1>29 DEF vars
<1>. QED
  BY <1>1, <1>2, <1>3, <1>4, <1>5, <1>6, <1>7, <1>8, <1>9, <1>10, <1>11, <1>12, <1>13, <1>14, <1>15, <1>16, <1>17, <1>18, <1>19, <1>20, <1>21, <1>22, <1>23, <1>24, <1>25, <1>26, <1>27, <1>28, <1>29 DEF Next, Request, Advance, Trouble

\* The status is one of the five the code writes or tests, and a run is always at
\* one of the places run_indexing and its callers have.
THEOREM TypeCorrect == Spec => []TypeOK
BY TypeInit, TypeNext, PTL DEF Spec
-----------------------------------------------------------------------------
\* A run that dies while it owns a repository is remembered as lost.
LEMMA DeadActive == \A r \in Runs : pc[r] \in Active => Dead(r) = "lost"
BY DEF Dead, Active, Stages

\* A run that moves within the states that own a repository, and marks no
\* other repository as in progress, leaves every repository owned.
LEMMA OwnerMoves ==
    ASSUME TypeOK, InProgressIsOwned, NEW r \in Runs, NEW to \in Active \cup {"lost"},
           pc' = [pc EXCEPT ![r] = to],
           \A repo \in Repos : status'[repo] # status[repo] => repo = RepoOf[r]
    PROVE  InProgressIsOwned'
<1> SUFFICES ASSUME NEW repo \in Repos, status'[repo] \in InProgress
             PROVE  \E s \in Runs : RepoOf[s] = repo /\ pc'[s] \in Active \cup {"lost"}
  BY DEF InProgressIsOwned
<1>1. CASE repo = RepoOf[r]
  BY <1>1 DEF TypeOK
<1>2. CASE repo # RepoOf[r]
  <2>1. PICK s \in Runs : RepoOf[s] = repo /\ pc[s] \in Active \cup {"lost"}
    BY <1>2 DEF InProgressIsOwned
  <2>. QED
    BY <1>2, <2>1 DEF TypeOK
<1>. QED
  BY <1>1, <1>2

\* No step leaves a repository in progress without a run, alive or lost.
LEMMA OwnedNext == TypeOK /\ InProgressIsOwned /\ [Next]_vars => InProgressIsOwned'
<1> SUFFICES ASSUME TypeOK, InProgressIsOwned, [Next]_vars PROVE InProgressIsOwned'
  OBVIOUS
<1>1. ASSUME NEW r \in ApiRuns, AddRepo(r) PROVE InProgressIsOwned'
  <2>1. /\ pc' = [pc EXCEPT ![r] = "accepted"]
        /\ \A repo \in Repos : status'[repo] # status[repo] => repo = RepoOf[r]
    BY <1>1 DEF AddRepo, Goto, SetStatus, TypeOK
  <2>. QED
    BY <2>1, OwnerMoves DEF Active, Stages, Runs
<1>2. ASSUME NEW r \in ApiRuns, ReindexCheck(r) PROVE InProgressIsOwned'
  BY <1>2 DEF ReindexCheck, Goto, TypeOK, InProgressIsOwned, Active, Stages, Runs
<1>3. ASSUME NEW r \in ApiRuns, ReindexCommit(r) PROVE InProgressIsOwned'
  <2>1. /\ pc' = [pc EXCEPT ![r] = "accepted"]
        /\ \A repo \in Repos : status'[repo] # status[repo] => repo = RepoOf[r]
    BY <1>3 DEF ReindexCommit, Goto, SetStatus, TypeOK
  <2>. QED
    BY <2>1, OwnerMoves DEF Active, Stages, Runs
<1>4. ASSUME NEW r \in SeedRuns, Seed(r) PROVE InProgressIsOwned'
  <2>1. /\ pc' = [pc EXCEPT ![r] = "accepted"]
        /\ \A repo \in Repos : status'[repo] # status[repo] => repo = RepoOf[r]
    BY <1>4 DEF Seed, Goto, SetStatus, TypeOK
  <2>. QED
    BY <2>1, OwnerMoves DEF Active, Stages, Runs
<1>5. ASSUME NEW r \in SeedRuns, SeedKilled(r) PROVE InProgressIsOwned'
  <2>1. /\ pc' = [pc EXCEPT ![r] = "lost"]
        /\ \A repo \in Repos : status'[repo] # status[repo] => repo = RepoOf[r]
    BY <1>5, DeadActive DEF SeedKilled, Runs
  <2>. QED
    BY <2>1, OwnerMoves DEF Active, Stages, Runs
<1>6. ASSUME NEW r \in Runs, Start(r) PROVE InProgressIsOwned'
  <2>1. /\ pc' = [pc EXCEPT ![r] = "clone"]
        /\ \A repo \in Repos : status'[repo] # status[repo] => repo = RepoOf[r]
    BY <1>6 DEF Start, Goto, SetStatus, TypeOK
  <2>. QED
    BY <2>1, OwnerMoves DEF Active, Stages, Runs
<1>7. ASSUME NEW r \in Runs, SaveHistory(r) PROVE InProgressIsOwned'
  <2>1. /\ pc' = [pc EXCEPT ![r] = "history"]
        /\ \A repo \in Repos : status'[repo] # status[repo] => repo = RepoOf[r]
    BY <1>7 DEF SaveHistory, Goto, SetStatus, TypeOK
  <2>. QED
    BY <2>1, OwnerMoves DEF Active, Stages, Runs
<1>8. ASSUME NEW r \in Runs, BeginParsing(r) PROVE InProgressIsOwned'
  <2>1. /\ pc' = [pc EXCEPT ![r] = "scan"]
        /\ \A repo \in Repos : status'[repo] # status[repo] => repo = RepoOf[r]
    BY <1>8 DEF BeginParsing, Goto, SetStatus, TypeOK
  <2>. QED
    BY <2>1, OwnerMoves DEF Active, Stages, Runs
<1>9. ASSUME NEW r \in Runs, ParseFiles(r) PROVE InProgressIsOwned'
  <2>1. /\ pc' = [pc EXCEPT ![r] = "files"]
        /\ \A repo \in Repos : status'[repo] # status[repo] => repo = RepoOf[r]
    BY <1>9 DEF ParseFiles, Goto, SetStatus, TypeOK
  <2>. QED
    BY <2>1, OwnerMoves DEF Active, Stages, Runs
<1>10. ASSUME NEW r \in Runs, ClearReferences(r) \/ ClearSymbols(r) \/ ClearFiles(r)
       PROVE InProgressIsOwned'
  <2>1. PICK to \in {"symbols", "sources", "save"} : pc' = [pc EXCEPT ![r] = to]
    BY <1>10 DEF ClearReferences, ClearSymbols, ClearFiles, ClearRows, Goto
  <2>2. UNCHANGED status
    BY <1>10 DEF ClearReferences, ClearSymbols, ClearFiles, ClearRows
  <2>. QED
    BY <2>1, <2>2, OwnerMoves DEF Active, Stages, Runs
<1>11. ASSUME NEW r \in Runs, SaveIndex(r) PROVE InProgressIsOwned'
  <2>1. /\ pc' = [pc EXCEPT ![r] = "link"]
        /\ \A repo \in Repos : status'[repo] # status[repo] => repo = RepoOf[r]
    BY <1>11 DEF SaveIndex, Goto, SetStatus, TypeOK
  <2>. QED
    BY <2>1, OwnerMoves DEF Active, Stages, Runs
<1>12. ASSUME NEW r \in Runs, IndexConflict(r) PROVE InProgressIsOwned'
  <2>1. /\ pc' = [pc EXCEPT ![r] = "failing"]
        /\ \A repo \in Repos : status'[repo] # status[repo] => repo = RepoOf[r]
    BY <1>12 DEF IndexConflict, Goto, SetStatus, TypeOK
  <2>. QED
    BY <2>1, OwnerMoves DEF Active, Stages, Runs
<1>13. ASSUME NEW r \in Runs, ClearEvidence(r) PROVE InProgressIsOwned'
  <2>1. /\ pc' = [pc EXCEPT ![r] = "evidence"]
        /\ \A repo \in Repos : status'[repo] # status[repo] => repo = RepoOf[r]
    BY <1>13 DEF ClearEvidence, Goto, SetStatus, TypeOK
  <2>. QED
    BY <2>1, OwnerMoves DEF Active, Stages, Runs
<1>14. ASSUME NEW r \in Runs, NothingToLink(r) PROVE InProgressIsOwned'
  <2>1. /\ pc' = [pc EXCEPT ![r] = "linked"]
        /\ \A repo \in Repos : status'[repo] # status[repo] => repo = RepoOf[r]
    BY <1>14 DEF NothingToLink, Goto, SetStatus, TypeOK
  <2>. QED
    BY <2>1, OwnerMoves DEF Active, Stages, Runs
<1>15. ASSUME NEW r \in Runs, LinkEvidence(r) PROVE InProgressIsOwned'
  <2>1. /\ pc' = [pc EXCEPT ![r] = "relink"]
        /\ \A repo \in Repos : status'[repo] # status[repo] => repo = RepoOf[r]
    BY <1>15 DEF LinkEvidence, AddEvidence, Goto, SetStatus, TypeOK
  <2>. QED
    BY <2>1, OwnerMoves DEF Active, Stages, Runs
<1>16. ASSUME NEW r \in Runs, LinkLastEvidence(r) PROVE InProgressIsOwned'
  <2>1. /\ pc' = [pc EXCEPT ![r] = "linked"]
        /\ \A repo \in Repos : status'[repo] # status[repo] => repo = RepoOf[r]
    BY <1>16 DEF LinkLastEvidence, AddEvidence, Goto, SetStatus, TypeOK
  <2>. QED
    BY <2>1, OwnerMoves DEF Active, Stages, Runs
<1>17. ASSUME NEW r \in Runs, BeginSummaries(r) PROVE InProgressIsOwned'
  <2>1. /\ pc' = [pc EXCEPT ![r] = "summary"]
        /\ \A repo \in Repos : status'[repo] # status[repo] => repo = RepoOf[r]
    BY <1>17 DEF BeginSummaries, Goto, SetStatus, TypeOK
  <2>. QED
    BY <2>1, OwnerMoves DEF Active, Stages, Runs
<1>18. ASSUME NEW r \in Runs, NothingToSummarize(r) PROVE InProgressIsOwned'
  <2>1. /\ pc' = [pc EXCEPT ![r] = "finish"]
        /\ \A repo \in Repos : status'[repo] # status[repo] => repo = RepoOf[r]
    BY <1>18 DEF NothingToSummarize, Goto, SetStatus, TypeOK
  <2>. QED
    BY <2>1, OwnerMoves DEF Active, Stages, Runs
<1>19. ASSUME NEW r \in Runs, EndSummaries(r) PROVE InProgressIsOwned'
  <2>1. /\ pc' = [pc EXCEPT ![r] = "finish"]
        /\ \A repo \in Repos : status'[repo] # status[repo] => repo = RepoOf[r]
    BY <1>19 DEF EndSummaries, Goto, SetStatus, TypeOK
  <2>. QED
    BY <2>1, OwnerMoves DEF Active, Stages, Runs
<1>20. ASSUME NEW r \in Runs, Finish(r) PROVE InProgressIsOwned'
  <2>1. \A repo \in Repos \ {RepoOf[r]} : status'[repo] = status[repo]
    BY <1>20 DEF Finish, SetStatus, TypeOK
  <2>2. status'[RepoOf[r]] \notin InProgress
    BY <1>20, RunsAssumption DEF Finish, SetStatus, TypeOK, InProgress
  <2>. QED
    BY <1>20, <2>1, <2>2 DEF Finish, Goto, TypeOK, InProgressIsOwned
<1>21. ASSUME NEW r \in Runs, MarkFailed(r) PROVE InProgressIsOwned'
  <2>1. \A repo \in Repos \ {RepoOf[r]} : status'[repo] = status[repo]
    BY <1>21 DEF MarkFailed, SetStatus, TypeOK
  <2>2. status'[RepoOf[r]] \notin InProgress
    BY <1>21, RunsAssumption DEF MarkFailed, SetStatus, TypeOK, InProgress
  <2>. QED
    BY <1>21, <2>1, <2>2 DEF MarkFailed, Goto, TypeOK, InProgressIsOwned
<1>22. ASSUME NEW r \in Runs, ReportProgress(r) PROVE InProgressIsOwned'
  BY <1>22 DEF ReportProgress, InProgressIsOwned
<1>23. ASSUME NEW r \in Runs, TaskNotScheduled(r) PROVE InProgressIsOwned'
  <2>1. /\ pc' = [pc EXCEPT ![r] = "lost"]
        /\ \A repo \in Repos : status'[repo] # status[repo] => repo = RepoOf[r]
    BY <1>23 DEF TaskNotScheduled, Goto, SetStatus, TypeOK
  <2>. QED
    BY <2>1, OwnerMoves DEF Active, Stages, Runs
<1>24. ASSUME NEW r \in Runs, StartFails(r) PROVE InProgressIsOwned'
  <2>1. /\ pc' = [pc EXCEPT ![r] = "failing"]
        /\ \A repo \in Repos : status'[repo] # status[repo] => repo = RepoOf[r]
    BY <1>24 DEF StartFails, Goto, SetStatus, TypeOK
  <2>. QED
    BY <2>1, OwnerMoves DEF Active, Stages, Runs
<1>25. ASSUME NEW r \in Runs, Fail(r) PROVE InProgressIsOwned'
  <2>1. /\ pc' = [pc EXCEPT ![r] = "failing"]
        /\ \A repo \in Repos : status'[repo] # status[repo] => repo = RepoOf[r]
    BY <1>25 DEF Fail, Goto, SetStatus, TypeOK
  <2>. QED
    BY <2>1, OwnerMoves DEF Active, Stages, Runs
<1>26. ASSUME NEW r \in Runs, FailureNotRecorded(r) PROVE InProgressIsOwned'
  <2>1. /\ pc' = [pc EXCEPT ![r] = "lost"]
        /\ \A repo \in Repos : status'[repo] # status[repo] => repo = RepoOf[r]
    BY <1>26 DEF FailureNotRecorded, Goto, SetStatus, TypeOK
  <2>. QED
    BY <2>1, OwnerMoves DEF Active, Stages, Runs
<1>27. CASE Crash
  <2>1. ASSUME NEW r \in Runs, pc[r] \in Active \cup {"lost"}
        PROVE  pc'[r] \in Active \cup {"lost"}
    BY <1>27, <2>1, DeadActive DEF Crash, Dead
  <2>. QED
    BY <1>27, <2>1 DEF Crash, InProgressIsOwned
<1>28. CASE Startup
  <2>1. \A repo \in Repos : status'[repo] \notin InProgress
    BY <1>28 DEF Startup, TypeOK, InProgress
  <2>. QED
    BY <2>1 DEF InProgressIsOwned
<1>29. CASE UNCHANGED vars
  BY <1>29 DEF vars, InProgressIsOwned
<1>. QED
  BY <1>1, <1>2, <1>3, <1>4, <1>5, <1>6, <1>7, <1>8, <1>9, <1>10, <1>11, <1>12, <1>13, <1>14, <1>15, <1>16, <1>17, <1>18, <1>19, <1>20, <1>21, <1>22, <1>23, <1>24, <1>25, <1>26, <1>27, <1>28, <1>29 DEF Next, Request, Advance, Trouble

\* Every repository in progress has a run that will settle it or whose end
\* could not be recorded, for any clients, seed scripts, crashes and failures.
THEOREM NothingLeftInProgress == Spec => []InProgressIsOwned
<1>1. Init => InProgressIsOwned
  BY DEF Init, InProgressIsOwned, InProgress
<1>. QED
  BY <1>1, OwnedNext, TypeCorrect, PTL DEF Spec
-----------------------------------------------------------------------------
\* Only the commit at the end of parse_repo changes what index is stored.
LEMMA OnlySaveChangesIndex ==
    [Next]_vars => UNCHANGED index \/ \E r \in Runs : SaveIndex(r)
<1> SUFFICES ASSUME [Next]_vars, ~ \E r \in Runs : SaveIndex(r) PROVE UNCHANGED index
  OBVIOUS
<1> USE DEF Stored
<1>1. ASSUME NEW r \in ApiRuns, Request(r) PROVE UNCHANGED index
  BY <1>1 DEF Request, AddRepo, ReindexCheck, ReindexCommit
<1>2. ASSUME NEW r \in SeedRuns, Seed(r) \/ SeedKilled(r) PROVE UNCHANGED index
  BY <1>2 DEF Seed, SeedKilled
<1>3. ASSUME NEW r \in Runs, Advance(r) PROVE UNCHANGED index
  BY <1>3 DEF Advance, Start, SaveHistory, BeginParsing, ParseFiles, ClearRows,
              ClearReferences, ClearSymbols, ClearFiles,
              IndexConflict, ClearEvidence, NothingToLink, LinkEvidence,
              LinkLastEvidence, AddEvidence, BeginSummaries, NothingToSummarize,
              EndSummaries, Finish, MarkFailed
<1>4. ASSUME NEW r \in Runs, ReportProgress(r) \/ Trouble(r) PROVE UNCHANGED index
  BY <1>4 DEF ReportProgress, Trouble, TaskNotScheduled, StartFails, Fail,
              FailureNotRecorded
<1>5. CASE Crash \/ Startup \/ UNCHANGED vars
  BY <1>5 DEF Crash, Startup, vars
<1>. QED
  BY <1>1, <1>2, <1>3, <1>4, <1>5 DEF Next

\* What a save takes away is what it has read; what it adds is its own.
LEMMA SaveReplacesRows ==
    ASSUME TypeOK, NEW r \in Runs, SaveIndex(r)
    PROVE  /\ \A repo \in Repos \ {RepoOf[r]} : index'[repo] = index[repo]
           /\ latest'[RepoOf[r]] = {r}
           /\ index[RepoOf[r]] \ index'[RepoOf[r]] \subseteq held[r]
           /\ index'[RepoOf[r]] \ index[RepoOf[r]] \subseteq {r} \X Tables
<1>1. PICK tables \in Parses :
        index' = [index EXCEPT ![RepoOf[r]] = Others(r) \cup ({r} \X tables)]
  BY DEF SaveIndex
<1>2. RepoOf[r] \in Repos /\ tables \subseteq Tables
  BY RunsAssumption
<1>3. index'[RepoOf[r]] = (index[RepoOf[r]] \ held[r]) \cup ({r} \X tables)
  BY <1>1, <1>2 DEF Others, TypeOK
<1>4. latest'[RepoOf[r]] = {r}
  BY <1>2 DEF SaveIndex, TypeOK
<1>5. {r} \X tables \subseteq {r} \X Tables
  BY <1>2
<1>6. \A repo \in Repos \ {RepoOf[r]} : index'[repo] = index[repo]
  BY <1>1 DEF TypeOK
<1>. QED
  BY <1>3, <1>4, <1>5, <1>6

\* A failed or killed run leaves the previous index as it was: rows go only in
\* the commit that stores another parse, and only those its run has read.
THEOREM IndexNeverLost == Spec => IndexOnlyReplaced
<1> DEFINE Replaced(repo, r) ==
             /\ RepoOf[r] = repo
             /\ pc[r] = "save" /\ pc'[r] = "link" /\ latest'[repo] = {r}
             /\ index[repo] \ index'[repo] \subseteq held[r]
             /\ index'[repo] \ index[repo] \subseteq {r} \X Tables
<1>1. ASSUME TypeOK, [Next]_vars
      PROVE  [\A repo \in Repos : index'[repo] # index[repo] =>
                \E r \in Runs : Replaced(repo, r)]_vars
  <2>1. CASE UNCHANGED index
    BY <2>1
  <2>2. ASSUME NEW r \in Runs, SaveIndex(r), NEW repo \in Repos,
               index'[repo] # index[repo]
        PROVE  Replaced(repo, r)
    <3>1. RepoOf[r] = repo
      BY <1>1, <2>2, SaveReplacesRows
    <3>2. pc[r] = "save" /\ pc'[r] = "link"
      BY <1>1, <2>2 DEF SaveIndex, Goto, TypeOK
    <3>. QED
      BY <1>1, <2>2, <3>1, <3>2, SaveReplacesRows
  <2>. QED
    BY <1>1, <2>1, <2>2, OnlySaveChangesIndex
<1>. QED
  BY <1>1, TypeCorrect, PTL DEF Spec, IndexOnlyReplaced

=============================================================================
