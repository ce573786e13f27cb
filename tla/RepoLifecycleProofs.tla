------------------------- MODULE RepoLifecycleProofs -------------------------
(***************************************************************************)
(* RepoIndexing implements IndexLifecycle when one client asks at a time   *)
(* and no seed script runs: every step of a run, of a failure and of the   *)
(* server is a step of the card or leaves it as it is.                     *)
(***************************************************************************)
EXTENDS RepoIndexingLifecycle, RepoIndexingSerialProofs

\* A run that owns its repository: at work, or lost with the card in progress.
Owning == Active \cup {"lost"}

Over == {"failing", "lost", "ended"}
Linking == {"relink", "linked", "summary", "finish"}

\* What SerialInv does not say: of lost runs, and of whose rows may be stored.
LifeInv ==
    /\ \A r \in Runs : pc[r] = "lost" =>
         /\ status[RepoOf[r]] \in InProgress
         /\ \A s \in Runs \ {r} : RepoOf[s] = RepoOf[r] => pc[s] \notin Owning
    /\ \A repo \in Repos : \A r \in latest[repo] :
         RepoOf[r] = repo /\ pc[r] \in Saved \cup Over
    /\ \A repo \in Repos : \A r \in Runs : \A b \in Batches :
         <<r, b>> \in evidence[repo] => RepoOf[r] = repo /\ pc[r] \in Linking \cup Over
-----------------------------------------------------------------------------
\* No other run owns the repository of r.
Sole(r) == \A s \in Runs \ {r} : RepoOf[s] = RepoOf[r] => pc[s] \notin Owning

\* A step of r leaves the other runs and the other repositories alone.
OwnChange(r) ==
    /\ \A s \in Runs \ {r} : pc'[s] = pc[s]
    /\ \A repo \in Repos \ {RepoOf[r]} :
          /\ status'[repo] = status[repo]
          /\ index'[repo] = index[repo]
          /\ latest'[repo] = latest[repo]
          /\ evidence'[repo] = evidence[repo]

\* The transactions that store something, and the others.
Storing(r) == SaveIndex(r) \/ ClearEvidence(r) \/ LinkEvidence(r) \/ LinkLastEvidence(r)

\* A run that is at work, or whose repository is settled, has no rival.
LEMMA WorkIsSole ==
    ASSUME TypeOK, SerialInv, LifeInv, NEW r \in Runs,
           pc[r] \in Active \/ status[RepoOf[r]] \notin InProgress
    PROVE  Sole(r)
<1> SUFFICES ASSUME NEW s \in Runs \ {r}, RepoOf[s] = RepoOf[r], pc[s] \in Owning
             PROVE  FALSE
  BY DEF Sole
<1>1. status[RepoOf[s]] \in InProgress
  BY DEF SerialInv, RunInv, LifeInv, Owning, Active, Stages, Saved, InProgress
<1>2. pc[r] \in Active
  BY <1>1
<1>. QED
  BY <1>2 DEF SerialInv, OneRunPerRepo, LifeInv, Owning

\* Every step of a request or of its task is its own run's and repository's.
LEMMA StepsAreOwn ==
    ASSUME TypeOK, NEW r \in Runs, Request(r) \/ Advance(r) \/ ReportProgress(r) \/ Trouble(r)
    PROVE  OwnChange(r)
<1> USE DEF TypeOK, OwnChange, Goto, SetStatus, Stored
<1>1. CASE Request(r)
  BY <1>1 DEF Request, AddRepo, ReindexCheck, ReindexCommit
<1>2. CASE Start(r) \/ SaveHistory(r) \/ BeginParsing(r) \/ ParseFiles(r)
       \/ ClearReferences(r) \/ ClearSymbols(r) \/ ClearFiles(r)
  BY <1>2 DEF Start, SaveHistory, BeginParsing, ParseFiles, ClearReferences, ClearSymbols,
              ClearFiles, ClearRows
<1>3. CASE SaveIndex(r) \/ IndexConflict(r) \/ ClearEvidence(r) \/ NothingToLink(r)
  BY <1>3 DEF SaveIndex, IndexConflict, ClearEvidence, NothingToLink
<1>4. CASE LinkEvidence(r) \/ LinkLastEvidence(r)
  BY <1>4 DEF LinkEvidence, LinkLastEvidence, AddEvidence
<1>5. CASE \/ BeginSummaries(r) \/ NothingToSummarize(r) \/ EndSummaries(r)
           \/ Finish(r) \/ MarkFailed(r) \/ ReportProgress(r)
  BY <1>5 DEF BeginSummaries, NothingToSummarize, EndSummaries, Finish, MarkFailed,
              ReportProgress
<1>6. CASE Trouble(r)
  BY <1>6 DEF Trouble, TaskNotScheduled, StartFails, Fail, FailureNotRecorded
<1>. QED
  BY <1>1, <1>2, <1>3, <1>4, <1>5, <1>6 DEF Advance

\* A sole run's step keeps LifeInv if its own rows stay where they may be.
LEMMA SoleStepKeeps ==
    ASSUME TypeOK, LifeInv, NEW r \in Runs, Sole(r), OwnChange(r),
           pc'[r] = "lost" => status'[RepoOf[r]] \in InProgress,
           latest'[RepoOf[r]] \subseteq latest[RepoOf[r]] \cup {r},
           r \in latest'[RepoOf[r]] => pc'[r] \in Saved \cup Over,
           evidence'[RepoOf[r]] \subseteq evidence[RepoOf[r]] \cup ({r} \X Batches),
           \A b \in Batches : <<r, b>> \in evidence'[RepoOf[r]] => pc'[r] \in Linking \cup Over
    PROVE  LifeInv'
<1> RepoOf[r] \in Repos
  BY RunsAssumption
<1>1. ASSUME NEW s \in Runs, pc'[s] = "lost"
      PROVE  /\ status'[RepoOf[s]] \in InProgress
             /\ \A t \in Runs \ {s} : RepoOf[t] = RepoOf[s] => pc'[t] \notin Owning
  <2>1. CASE s = r
    BY <1>1, <2>1 DEF OwnChange, Sole
  <2>2. CASE s # r
    <3>1. pc[s] = "lost" /\ RepoOf[s] # RepoOf[r]
      BY <1>1, <2>2 DEF OwnChange, Sole, Owning
    <3>. QED
      BY <3>1, RunsAssumption DEF OwnChange, LifeInv
  <2>. QED
    BY <2>1, <2>2
<1>2. ASSUME NEW repo \in Repos, NEW s \in latest'[repo]
      PROVE  RepoOf[s] = repo /\ pc'[s] \in Saved \cup Over
  <2>1. CASE repo = RepoOf[r]
    BY <1>2, <2>1 DEF OwnChange, LifeInv, TypeOK
  <2>2. CASE repo # RepoOf[r]
    BY <1>2, <2>2 DEF OwnChange, LifeInv, TypeOK
  <2>. QED
    BY <2>1, <2>2
<1>3. ASSUME NEW repo \in Repos, NEW s \in Runs, NEW b \in Batches, <<s, b>> \in evidence'[repo]
      PROVE  RepoOf[s] = repo /\ pc'[s] \in Linking \cup Over
  <2>1. CASE repo = RepoOf[r] /\ s = r
    BY <1>3, <2>1
  <2>2. CASE repo = RepoOf[r] /\ s # r
    BY <1>3, <2>2 DEF OwnChange, LifeInv
  <2>3. CASE repo # RepoOf[r]
    BY <1>3, <2>3 DEF OwnChange, LifeInv
  <2>. QED
    BY <2>1, <2>2, <2>3
<1>. QED
  BY <1>1, <1>2, <1>3 DEF LifeInv

LEMMA LifeInit == Init => LifeInv
BY DEF Init, LifeInv

\* The steps of RepoIndexing keep LifeInv.
LEMMA LifeInvNext == Serial /\ TypeOK /\ SerialInv /\ LifeInv /\ [Next]_vars => LifeInv'
<1> SUFFICES ASSUME Serial, TypeOK, SerialInv, LifeInv, [Next]_vars PROVE LifeInv'
  OBVIOUS
<1> Runs = ApiRuns
  BY DEF Serial, Runs
<1> \A r \in Runs : RepoOf[r] \in Repos /\ RunInv(r)
  BY RunsAssumption DEF SerialInv
<1> USE DEF Goto, SetStatus, Stored
<1>1. ASSUME NEW r \in Runs, Request(r) PROVE LifeInv'
  <2>1. status[RepoOf[r]] \notin InProgress
    BY <1>1 DEF Request, AddRepo, ReindexCheck, ReindexCommit, MayReindex, RunInv, InProgress
  <2>2. /\ pc[r] \in {"idle", "checked"} /\ pc'[r] \in {"checked", "accepted"}
        /\ UNCHANGED <<latest, evidence>>
    BY <1>1 DEF Request, AddRepo, ReindexCheck, ReindexCommit, TypeOK
  <2>3. r \notin latest[RepoOf[r]] /\ \A b \in Batches : <<r, b>> \notin evidence[RepoOf[r]]
    BY <2>2 DEF LifeInv, Saved, Over, Linking
  <2>. QED
    BY <1>1, <2>1, <2>2, <2>3, WorkIsSole, StepsAreOwn, SoleStepKeeps
<1>2. ASSUME NEW r \in Runs, SaveIndex(r) PROVE LifeInv'
  <2>1. /\ pc[r] = "save" /\ pc'[r] = "link" /\ UNCHANGED evidence
        /\ latest'[RepoOf[r]] = {r}
    BY <1>2 DEF SaveIndex, TypeOK
  <2>2. \A b \in Batches : <<r, b>> \notin evidence[RepoOf[r]]
    BY <2>1 DEF LifeInv, Over, Linking
  <2>. QED
    BY <1>2, <2>1, <2>2, WorkIsSole, StepsAreOwn, SoleStepKeeps
       DEF Advance, Active, Stages, Saved
<1>3. ASSUME NEW r \in Runs, ClearEvidence(r) PROVE LifeInv'
  <2>1. /\ pc[r] = "link" /\ pc'[r] = "evidence" /\ UNCHANGED <<index, latest>>
        /\ evidence'[RepoOf[r]] = {}
    BY <1>3 DEF ClearEvidence, TypeOK
  <2>. QED
    BY <1>3, <2>1, WorkIsSole, StepsAreOwn, SoleStepKeeps
       DEF Advance, Active, Stages, Saved
<1>4. ASSUME NEW r \in Runs, LinkEvidence(r) \/ LinkLastEvidence(r) PROVE LifeInv'
  <2>1. /\ pc[r] \in {"evidence", "relink"} /\ pc'[r] \in {"relink", "linked"} /\ UNCHANGED <<index, latest>>
        /\ \E b \in Batches : evidence'[RepoOf[r]] = evidence[RepoOf[r]] \cup {<<r, b>>}
    BY <1>4 DEF LinkEvidence, LinkLastEvidence, AddEvidence, TypeOK, Batches
  <2>2. evidence'[RepoOf[r]] \subseteq evidence[RepoOf[r]] \cup ({r} \X Batches)
    BY <2>1
  <2>. QED
    BY <1>4, <2>1, <2>2, WorkIsSole, StepsAreOwn, SoleStepKeeps
       DEF Advance, Active, Stages, Saved, Linking
<1>5. ASSUME NEW r \in Runs, Advance(r) \/ ReportProgress(r) \/ Trouble(r), ~Storing(r)
      PROVE  LifeInv'
  <2>1. /\ pc[r] \in Active /\ UNCHANGED <<latest, evidence>>
        /\ pc[r] \in Saved \cup Over => pc'[r] \in Saved \cup Over
        /\ pc[r] \in Linking \cup Over => pc'[r] \in Linking \cup Over
        /\ pc'[r] = "lost" => UNCHANGED status
    <3> USE DEF TypeOK, Active, Stages, Saved, Linking, Over
    <3>1. CASE \/ Start(r) \/ SaveHistory(r) \/ BeginParsing(r) \/ ParseFiles(r)
               \/ ClearReferences(r) \/ ClearSymbols(r) \/ ClearFiles(r)
               \/ IndexConflict(r) \/ NothingToLink(r)
      BY <3>1 DEF Start, SaveHistory, BeginParsing, ParseFiles, ClearReferences, ClearSymbols,
                  ClearFiles, ClearRows, IndexConflict, NothingToLink
    <3>2. CASE \/ BeginSummaries(r) \/ NothingToSummarize(r) \/ EndSummaries(r)
               \/ Finish(r) \/ MarkFailed(r) \/ ReportProgress(r)
      BY <3>2 DEF BeginSummaries, NothingToSummarize, EndSummaries, Finish, MarkFailed,
                  ReportProgress
    <3>3. CASE Trouble(r)
      BY <3>3 DEF Trouble, TaskNotScheduled, StartFails, Fail, FailureNotRecorded
    <3>. QED
      BY <1>5, <3>1, <3>2, <3>3 DEF Advance, Storing
  <2>2. status[RepoOf[r]] \in InProgress
    BY <2>1 DEF RunInv, Active, Stages, Saved, InProgress
  <2>. QED
    BY <1>5, <2>1, <2>2, WorkIsSole, StepsAreOwn, SoleStepKeeps DEF LifeInv
<1>6. CASE Crash
  <2>1. \A r \in Runs : pc'[r] = Dead(r)
    BY <1>6 DEF Crash
  <2>2. \A r \in Runs :
          /\ pc[r] \in Saved \cup Over => pc'[r] \in Over
          /\ pc[r] \in Linking \cup Over => pc'[r] \in Over
          /\ pc'[r] \in Owning => pc[r] \in Owning
    BY <2>1 DEF Dead, Active, Stages, Saved, Linking, Over, Owning
  <2>3. UNCHANGED <<status, latest, evidence>>
    BY <1>6 DEF Crash
  <2>4. ASSUME NEW r \in Runs, pc'[r] = "lost"
        PROVE  /\ status[RepoOf[r]] \in InProgress
               /\ \A s \in Runs \ {r} : RepoOf[s] = RepoOf[r] => pc'[s] \notin Owning
    <3>1. pc[r] \in Owning
      BY <2>2, <2>4 DEF Owning
    <3>2. status[RepoOf[r]] \in InProgress
      BY <3>1 DEF LifeInv, RunInv, Owning, Active, Stages, Saved, InProgress
    <3>3. \A s \in Runs \ {r} : RepoOf[s] = RepoOf[r] => pc[s] \notin Owning
      BY <3>1, WorkIsSole DEF LifeInv, Sole, Owning
    <3>. QED
      BY <2>2, <3>2, <3>3
  <2>. QED
    BY <2>2, <2>3, <2>4 DEF LifeInv, TypeOK
<1>7. CASE Startup
  <2>1. \A r \in Runs : pc'[r] = (IF pc[r] = "lost" THEN "ended" ELSE pc[r])
    BY <1>7 DEF Startup
  <2>. QED
    BY <1>7, <2>1 DEF Startup, LifeInv, TypeOK, Over
<1>8. CASE UNCHANGED vars
  BY <1>8 DEF vars, LifeInv
<1>. QED
  BY <1>1, <1>2, <1>3, <1>4, <1>5, <1>6, <1>7, <1>8 DEF Next, Serial, Storing

\* A lost run is the last owner of its repository, and rows stored for a run are
\* those of a run that came as far as storing them.
THEOREM LifeInvariant == ASSUME Serial PROVE Spec => []LifeInv
BY LifeInit, LifeInvNext, TypeCorrect, SerialInvariant, PTL DEF Spec
-----------------------------------------------------------------------------
\* The value of a repository in the card's variables.
FreshOf(repo) == \E r \in latest[repo] : RepoOf[r] = repo /\ pc[r] \in Owning
WholeOf(repo) == \E r \in Runs : /\ latest[repo] = {r} /\ index[repo] \subseteq {r} \X Tables
                                 /\ HasSymbols(repo) => evidence[repo] = {r} \X Batches

LEMMA Mapped ==
    /\ Fresh = [repo \in Repos |-> FreshOf(repo)]
    /\ Whole = [repo \in Repos |-> WholeOf(repo)]
BY DEF Fresh, Whole, FreshOf, WholeOf, Owning

\* A step of one run shows on the card of its repository only.
LEMMA OneCard ==
    ASSUME TypeOK, LifeInv, NEW r \in Runs, OwnChange(r), NEW repo \in Repos \ {RepoOf[r]}
    PROVE  /\ status'[repo] = status[repo]
           /\ FreshOf(repo)' <=> FreshOf(repo)
           /\ WholeOf(repo)' <=> WholeOf(repo)
<1>1. FreshOf(repo)' <=> FreshOf(repo)
  <2>1. latest'[repo] = latest[repo] /\ \A s \in latest[repo] : s # r /\ pc'[s] = pc[s]
    BY DEF OwnChange, LifeInv, TypeOK
  <2>. QED
    BY <2>1 DEF FreshOf
<1>2. WholeOf(repo)' <=> WholeOf(repo)
  BY DEF OwnChange, WholeOf, HasSymbols, Rows
<1>. QED
  BY <1>1, <1>2 DEF OwnChange

\* What the card shows of a sole run's repository, by what is stored for the run.
LEMMA SoleFresh ==
    ASSUME TypeOK, LifeInv, NEW r \in Runs, Sole(r)
    PROVE  FreshOf(RepoOf[r]) <=> r \in latest[RepoOf[r]] /\ pc[r] \in Owning
BY RunsAssumption DEF FreshOf, Sole, LifeInv, TypeOK

LEMMA SoleFreshNext ==
    ASSUME TypeOK', LifeInv', NEW r \in Runs, Sole(r), OwnChange(r)
    PROVE  FreshOf(RepoOf[r])' <=> r \in latest'[RepoOf[r]] /\ pc'[r] \in Owning
BY RunsAssumption DEF FreshOf, Sole, OwnChange, LifeInv, TypeOK

\* A step of one run sets its repository's card, and no other's.
LEMMA CardMoves ==
    ASSUME TypeOK, TypeOK', LifeInv, NEW r \in Runs, OwnChange(r)
    PROVE  /\ status' = [status EXCEPT ![RepoOf[r]] = status'[RepoOf[r]]]
           /\ Fresh' = [Fresh EXCEPT ![RepoOf[r]] = FreshOf(RepoOf[r])']
           /\ Whole' = [Whole EXCEPT ![RepoOf[r]] = WholeOf(RepoOf[r])']
<1>1. status' = [status EXCEPT ![RepoOf[r]] = status'[RepoOf[r]]]
  BY OneCard DEF TypeOK
<1>2. Fresh' = [repo \in Repos |-> FreshOf(repo)']
  BY DEF Fresh, FreshOf, Owning
<1>3. Whole' = [repo \in Repos |-> WholeOf(repo)']
  BY DEF Whole, WholeOf
<1>4. \A repo \in Repos \ {RepoOf[r]} : Fresh'[repo] = Fresh[repo] /\ Whole'[repo] = Whole[repo]
  <2> SUFFICES ASSUME NEW repo \in Repos \ {RepoOf[r]}
               PROVE  Fresh'[repo] = Fresh[repo] /\ Whole'[repo] = Whole[repo]
    OBVIOUS
  <2>1. (FreshOf(repo)' <=> FreshOf(repo)) /\ (WholeOf(repo)' <=> WholeOf(repo))
    BY OneCard
  <2>2. FreshOf(repo) \in BOOLEAN /\ WholeOf(repo) \in BOOLEAN
    BY DEF FreshOf, WholeOf
  <2>3. FreshOf(repo)' \in BOOLEAN /\ WholeOf(repo)' \in BOOLEAN
    BY DEF FreshOf, WholeOf
  <2>. QED
    BY <1>2, <1>3, <2>1, <2>2, <2>3, Mapped
<1>5. \A repo \in Repos : /\ Fresh'[repo] = FreshOf(repo)'
                          /\ Whole'[repo] = WholeOf(repo)'
  BY <1>2, <1>3
<1>. QED
  BY <1>1, <1>2, <1>3, <1>4, <1>5, Mapped

\* A step that changes nothing of its repository's card is a stutter.
LEMMA CardStays ==
    ASSUME TypeOK, TypeOK', LifeInv, NEW r \in Runs, OwnChange(r),
           status'[RepoOf[r]] = status[RepoOf[r]],
           FreshOf(RepoOf[r])' <=> FreshOf(RepoOf[r]),
           WholeOf(RepoOf[r])' <=> WholeOf(RepoOf[r])
    PROVE  UNCHANGED Life!vars
<1> DEFINE repo == RepoOf[r]
<1>1. repo \in Repos
  BY RunsAssumption
<1>2. FreshOf(repo)' = Fresh[repo] /\ WholeOf(repo)' = Whole[repo]
  <2>1. FreshOf(repo) \in BOOLEAN /\ WholeOf(repo) \in BOOLEAN
    BY DEF FreshOf, WholeOf
  <2>2. FreshOf(repo)' \in BOOLEAN /\ WholeOf(repo)' \in BOOLEAN
    BY DEF FreshOf, WholeOf
  <2>. QED
    BY <1>1, <2>1, <2>2, Mapped
<1>3. Fresh' = Fresh /\ Whole' = Whole
  <2>1. Fresh' = [Fresh EXCEPT ![repo] = Fresh[repo]]
    BY <1>2, CardMoves
  <2>2. Whole' = [Whole EXCEPT ![repo] = Whole[repo]]
    BY <1>2, CardMoves
  <2>. QED
    BY <1>1, <2>1, <2>2, Mapped
<1>4. status' = status
  BY <1>1, CardMoves DEF TypeOK
<1>. QED
  BY <1>3, <1>4 DEF Life!vars
-----------------------------------------------------------------------------
LifeStep == Life!Next \/ UNCHANGED Life!vars

\* Nothing is indexed at first.
LEMMA LifeInitial == Init => Life!Init
BY DEF Init, Life!Init, Fresh, Whole

\* A run that changes no rows keeps what the card says of them.
LEMMA RowsStay ==
    ASSUME NEW r \in Runs, UNCHANGED <<index, latest, evidence>>
    PROVE  WholeOf(RepoOf[r])' <=> WholeOf(RepoOf[r])
BY DEF WholeOf, HasSymbols, Rows

\* A request is a request, or the first half of one.
LEMMA RequestMaps ==
    ASSUME TypeOK, TypeOK', SerialInv, LifeInv, LifeInv', NEW r \in Runs, Request(r)
    PROVE  LifeStep
<1> DEFINE repo == RepoOf[r]
<1> repo \in Repos /\ RunInv(r) /\ OwnChange(r)
  BY RunsAssumption, StepsAreOwn DEF SerialInv
<1>1. /\ pc[r] \in {"idle", "checked"}
      /\ status[repo] \notin InProgress
      /\ UNCHANGED <<index, latest, evidence>>
      /\ status'[repo] = status[repo] \/ status'[repo] = "collecting"
  BY DEF Request, AddRepo, ReindexCheck, ReindexCommit, MayReindex, RunInv, InProgress,
         Goto, SetStatus, Stored, TypeOK
<1>2. r \notin latest[repo] /\ Sole(r)
  BY <1>1, WorkIsSole DEF LifeInv, Saved, Over
<1>3. (FreshOf(repo)' <=> FreshOf(repo)) /\ (WholeOf(repo)' <=> WholeOf(repo))
  BY <1>1, <1>2, SoleFresh, SoleFreshNext, RowsStay
<1>4. CASE status'[repo] = status[repo]
  BY <1>3, <1>4, CardStays DEF LifeStep
<1>5. CASE status'[repo] = "collecting"
  <2>1. status' = [status EXCEPT ![repo] = "collecting"]
    BY <1>5, CardMoves
  <2>2. Fresh' = Fresh /\ Whole' = Whole
    <3>1. FreshOf(repo)' = Fresh[repo] /\ WholeOf(repo)' = Whole[repo]
      <4>1. FreshOf(repo) \in BOOLEAN /\ WholeOf(repo) \in BOOLEAN
        BY DEF FreshOf, WholeOf
      <4>2. FreshOf(repo)' \in BOOLEAN /\ WholeOf(repo)' \in BOOLEAN
        BY DEF FreshOf, WholeOf
      <4>. QED
        BY <1>3, <4>1, <4>2, Mapped
    <3>2. Fresh' = [Fresh EXCEPT ![repo] = Fresh[repo]]
      BY <3>1, CardMoves
    <3>3. Whole' = [Whole EXCEPT ![repo] = Whole[repo]]
      BY <3>1, CardMoves
    <3>. QED
      BY <3>2, <3>3, Mapped
  <2>3. status[repo] \in Life!Settled
    BY <1>1 DEF TypeOK, Statuses, Life!Settled
  <2>. QED
    BY <2>1, <2>2, <2>3 DEF LifeStep, Life!Next, Life!Request
<1>. QED
  BY <1>1, <1>4, <1>5

\* The commit of parse_repo is the replacement.
LEMMA SaveMaps ==
    ASSUME TypeOK, TypeOK', SerialInv, LifeInv, LifeInv', NEW r \in Runs, SaveIndex(r)
    PROVE  LifeStep
<1> DEFINE repo == RepoOf[r]
<1> repo \in Repos /\ RunInv(r) /\ OwnChange(r)
  BY RunsAssumption, StepsAreOwn DEF SerialInv, Advance
<1>1. pc[r] = "save" /\ pc'[r] = "link" /\ UNCHANGED status
  BY DEF SaveIndex, Goto, TypeOK
<1>2. latest'[repo] = {r}
  BY DEF SaveIndex, TypeOK
<1>3. Sole(r) /\ r \notin latest[repo]
  BY <1>1, WorkIsSole DEF Active, Stages, LifeInv, Saved, Over
<1>4. ~FreshOf(repo) /\ FreshOf(repo)'
  BY <1>1, <1>2, <1>3, SoleFresh, SoleFreshNext DEF Owning, Active, Stages
<1>5. Fresh[repo] = FALSE /\ Fresh' = [Fresh EXCEPT ![repo] = TRUE]
  <2>1. FreshOf(repo)' = TRUE /\ FreshOf(repo) = FALSE
    BY <1>4 DEF FreshOf
  <2>2. Fresh' = [Fresh EXCEPT ![repo] = FreshOf(repo)']
    BY CardMoves
  <2>. QED
    BY <2>1, <2>2, Mapped
<1>6. \E w \in BOOLEAN : Whole' = [Whole EXCEPT ![repo] = w]
  <2>1. WholeOf(repo)' \in BOOLEAN
    BY DEF WholeOf
  <2>2. Whole' = [Whole EXCEPT ![repo] = WholeOf(repo)']
    BY CardMoves
  <2>. QED
    BY <2>1, <2>2
<1>7. status[repo] = "parsing"
  BY <1>1 DEF RunInv
<1>. QED
  BY <1>1, <1>5, <1>6, <1>7 DEF LifeStep, Life!Next, Life!Replace

\* The evidence becomes whole with its last batch; until then nothing shows.
LEMMA LinkMaps ==
    ASSUME TypeOK, TypeOK', SerialInv, LifeInv, LifeInv', NEW r \in Runs,
           ClearEvidence(r) \/ LinkEvidence(r) \/ LinkLastEvidence(r)
    PROVE  LifeStep
<1> DEFINE repo == RepoOf[r]
<1> repo \in Repos /\ RunInv(r) /\ OwnChange(r)
  BY RunsAssumption, StepsAreOwn DEF SerialInv, Advance
<1>1. /\ pc[r] \in Saved /\ pc'[r] \in Saved
      /\ UNCHANGED <<status, index, latest>>
  BY DEF ClearEvidence, LinkEvidence, LinkLastEvidence, AddEvidence, Goto, TypeOK, Saved
<1>2. Sole(r) /\ latest[repo] = {r} /\ status[repo] = "parsing"
  BY <1>1, WorkIsSole DEF RunInv, Active, Stages, Saved
<1>3. FreshOf(repo) /\ FreshOf(repo)'
  BY <1>1, <1>2, SoleFresh, SoleFreshNext DEF Owning, Active, Stages, Saved
<1>4. /\ WholeOf(repo) <=> (HasSymbols(repo) => evidence[repo] = {r} \X Batches)
      /\ WholeOf(repo)' <=> (HasSymbols(repo) => evidence'[repo] = {r} \X Batches)
  <2>1. index[repo] \subseteq {r} \X Tables
    BY <1>2 DEF SerialInv, RepoInv
  <2>2. HasSymbols(repo)' <=> HasSymbols(repo)
    BY <1>1 DEF HasSymbols, Rows
  <2>. QED
    BY <1>1, <1>2, <2>1, <2>2 DEF WholeOf
<1>5. <<r, "last">> \in {r} \X Batches
  BY DEF Batches
<1>6. CASE ClearEvidence(r)
  <2>1. \A b \in Batches : <<r, b>> \notin evidence[repo]
    BY <1>6 DEF ClearEvidence, Goto, LifeInv, Linking, Over
  <2>2. HasSymbols(repo) /\ evidence'[repo] = {}
    BY <1>6 DEF ClearEvidence, TypeOK
  <2>3. ~WholeOf(repo) /\ ~WholeOf(repo)'
    BY <1>4, <1>5, <2>1, <2>2 DEF Batches
  <2>. QED
    BY <1>1, <1>3, <2>3, CardStays DEF LifeStep
<1>7. CASE LinkEvidence(r)
  <2>1. evidence[repo] = {} /\ evidence'[repo] = {<<r, "first">>}
    BY <1>7 DEF LinkEvidence, AddEvidence, Goto, RunInv, TypeOK
  <2>2. evidence[repo] # {r} \X Batches /\ evidence'[repo] # {r} \X Batches
    BY <1>5, <2>1
  <2>. QED
    BY <1>1, <1>3, <1>4, <2>2, CardStays DEF LifeStep
<1>8. CASE LinkLastEvidence(r)
  <2>1. evidence'[repo] = {<<r, "first">>, <<r, "last">>}
    BY <1>8 DEF LinkLastEvidence, AddEvidence, Goto, RunInv, TypeOK
  <2>2. WholeOf(repo)'
    BY <1>4, <2>1 DEF Batches
  <2>3. Whole' = [Whole EXCEPT ![repo] = TRUE]
    <3>1. WholeOf(repo)' = TRUE
      BY <2>2 DEF WholeOf
    <3>. QED
      BY <3>1, CardMoves
  <2>4. Fresh[repo] = TRUE /\ Fresh' = Fresh
    <3>1. FreshOf(repo) = TRUE /\ FreshOf(repo)' = TRUE
      BY <1>3 DEF FreshOf
    <3>2. Fresh' = [Fresh EXCEPT ![repo] = FreshOf(repo)']
      BY CardMoves
    <3>. QED
      BY <3>1, <3>2, Mapped
  <2>. QED
    BY <1>1, <1>2, <2>3, <2>4 DEF LifeStep, Life!Next, Life!Link
<1>. QED
  BY <1>6, <1>7, <1>8

\* A run that is done shows a fresh and whole index.
LEMMA FinishMaps ==
    ASSUME TypeOK, TypeOK', SerialInv, LifeInv, LifeInv', NEW r \in Runs, Finish(r)
    PROVE  LifeStep
<1> DEFINE repo == RepoOf[r]
<1> repo \in Repos /\ RunInv(r) /\ OwnChange(r)
  BY RunsAssumption, StepsAreOwn DEF SerialInv, Advance
<1>1. /\ pc[r] = "finish" /\ pc'[r] = "ended"
      /\ status' = [status EXCEPT ![repo] = "done"]
      /\ UNCHANGED <<index, latest, evidence>>
  BY DEF Finish, Goto, SetStatus, Stored, TypeOK
<1>2. Sole(r) /\ latest[repo] = {r} /\ status[repo] = "parsing"
  BY <1>1, WorkIsSole DEF RunInv, Active, Stages, Saved
<1>3. FreshOf(repo) /\ ~FreshOf(repo)'
  BY <1>1, <1>2, SoleFresh, SoleFreshNext DEF Owning, Active, Stages
<1>4. WholeOf(repo)
  BY <1>1, <1>2 DEF WholeOf, RunInv, SerialInv, RepoInv
<1>5. Fresh[repo] = TRUE /\ Fresh' = [Fresh EXCEPT ![repo] = FALSE]
  <2>1. FreshOf(repo)' = FALSE /\ FreshOf(repo) = TRUE
    BY <1>3 DEF FreshOf
  <2>2. Fresh' = [Fresh EXCEPT ![repo] = FreshOf(repo)']
    BY CardMoves
  <2>. QED
    BY <2>1, <2>2, Mapped
<1>6. Whole[repo] = TRUE /\ Whole' = Whole
  <2>1. WholeOf(repo) = TRUE
    BY <1>4 DEF WholeOf
  <2>. QED
    BY <1>1, <2>1, Mapped DEF Whole, HasSymbols, Rows
<1>. QED
  BY <1>1, <1>2, <1>5, <1>6 DEF LifeStep, Life!Next, Life!Finish, Life!Show

\* A recorded failure is one; the index that stays is nobody's any more.
LEMMA FailureMaps ==
    ASSUME TypeOK, TypeOK', SerialInv, LifeInv, LifeInv', NEW r \in Runs, MarkFailed(r)
    PROVE  LifeStep
<1> DEFINE repo == RepoOf[r]
<1> repo \in Repos /\ RunInv(r) /\ OwnChange(r)
  BY RunsAssumption, StepsAreOwn DEF SerialInv, Advance
<1>1. /\ pc[r] = "failing" /\ pc'[r] = "ended"
      /\ status' = [status EXCEPT ![repo] = "failed"]
      /\ UNCHANGED <<index, latest, evidence>>
  BY DEF MarkFailed, Goto, SetStatus, Stored, TypeOK
<1>2. Sole(r) /\ status[repo] \in Life!InProgress
  BY <1>1, WorkIsSole DEF RunInv, Active, InProgress, Life!InProgress
<1>3. ~FreshOf(repo)'
  BY <1>1, <1>2, SoleFreshNext DEF Owning, Active, Stages
<1>4. Fresh' = [Fresh EXCEPT ![repo] = FALSE]
  <2>1. FreshOf(repo)' = FALSE
    BY <1>3 DEF FreshOf
  <2>. QED
    BY <2>1, CardMoves
<1>5. Fresh' = [x \in Repos |-> Fresh[x] /\ x \notin {repo}]
  <2>1. \A x \in Repos : Fresh[x] \in BOOLEAN
    BY DEF Fresh
  <2>. QED
    BY <1>4, <2>1, Mapped
<1>6. status' = [x \in Repos |-> IF x \in {repo} THEN "failed" ELSE status[x]]
  BY <1>1 DEF TypeOK
<1>7. Whole' = Whole
  BY <1>1 DEF Whole, HasSymbols, Rows
<1>8. Life!Fail({repo})
  BY <1>2, <1>5, <1>6, <1>7 DEF Life!Fail
<1>. QED
  BY <1>8 DEF LifeStep, Life!Next

\* The second stage shows on the card, and nothing else of it.
LEMMA ParsingMaps ==
    ASSUME TypeOK, TypeOK', SerialInv, LifeInv, LifeInv', NEW r \in Runs, BeginParsing(r)
    PROVE  LifeStep
<1> DEFINE repo == RepoOf[r]
<1> repo \in Repos /\ RunInv(r)
  BY RunsAssumption DEF SerialInv
<1>1. /\ pc' = [pc EXCEPT ![r] = "scan"] /\ pc[r] = "history"
      /\ status' = [status EXCEPT ![repo] = "parsing"]
      /\ UNCHANGED <<index, latest, evidence>>
  BY DEF BeginParsing, Goto, SetStatus, Stored
<1>2. \A s \in Runs : pc'[s] \in Owning <=> pc[s] \in Owning
  BY <1>1 DEF TypeOK, Owning, Active, Stages
<1>3. Fresh' = Fresh
  <2>1. \A x \in Repos : \A s \in latest[x] : s \in Runs
    BY DEF TypeOK
  <2>2. \A x \in Repos : FreshOf(x)' = FreshOf(x)
    BY <1>1, <1>2, <2>1 DEF FreshOf
  <2>3. Fresh' = [x \in Repos |-> FreshOf(x)']
    BY DEF Fresh, FreshOf, Owning
  <2>. QED
    BY <2>2, <2>3, Mapped
<1>4. Whole' = Whole
  BY <1>1 DEF Whole, HasSymbols, Rows
<1>5. status[repo] = "collecting"
  BY <1>1 DEF RunInv
<1>. QED
  BY <1>1, <1>3, <1>4, <1>5 DEF LifeStep, Life!Next, Life!Parse, Life!Show

\* The other steps of a run do not show on the card.
LEMMA OthersMap ==
    ASSUME TypeOK, TypeOK', SerialInv, LifeInv, LifeInv', NEW r \in Runs,
           Advance(r) \/ ReportProgress(r) \/ Trouble(r), ~Storing(r),
           ~BeginParsing(r), ~Finish(r), ~MarkFailed(r)
    PROVE  LifeStep
<1> DEFINE repo == RepoOf[r]
<1> repo \in Repos /\ RunInv(r) /\ OwnChange(r)
  BY RunsAssumption, StepsAreOwn DEF SerialInv
<1>1. /\ pc[r] \in Active /\ pc'[r] \in Owning
      /\ UNCHANGED <<index, latest, evidence>>
      /\ status'[repo] = status[repo]
  <2> USE DEF TypeOK, Owning, Active, Stages, Goto, SetStatus, Stored
  <2>1. CASE \/ Start(r) \/ SaveHistory(r) \/ ParseFiles(r)
             \/ ClearReferences(r) \/ ClearSymbols(r) \/ ClearFiles(r)
             \/ IndexConflict(r) \/ NothingToLink(r)
    BY <2>1 DEF Start, SaveHistory, ParseFiles, ClearReferences, ClearSymbols, ClearFiles,
                ClearRows, IndexConflict, NothingToLink
  <2>2. CASE BeginSummaries(r)
    BY <2>2 DEF BeginSummaries, RunInv, Saved
  <2>3. CASE NothingToSummarize(r) \/ EndSummaries(r) \/ ReportProgress(r)
    BY <2>3 DEF NothingToSummarize, EndSummaries, ReportProgress
  <2>4. CASE Trouble(r)
    BY <2>4 DEF Trouble, TaskNotScheduled, StartFails, Fail, FailureNotRecorded
  <2>. QED
    BY <2>1, <2>2, <2>3, <2>4 DEF Advance, Storing
<1>2. Sole(r) /\ pc[r] \in Owning
  BY <1>1, WorkIsSole DEF Owning
<1>. QED
  BY <1>1, <1>2, SoleFresh, SoleFreshNext, RowsStay, CardStays DEF LifeStep

\* The server's death does not show; its restart fails what was in progress.
LEMMA ServerMaps ==
    ASSUME Serial, TypeOK, TypeOK', SerialInv, LifeInv, Crash \/ Startup
    PROVE  LifeStep
<1> Runs = ApiRuns
  BY DEF Serial, Runs
<1>1. UNCHANGED <<index, latest, evidence>>
  BY DEF Crash, Startup, Stored
<1>2. Whole' = Whole
  BY <1>1 DEF Whole, HasSymbols, Rows
<1>3. Fresh' = [repo \in Repos |-> FreshOf(repo)']
  BY DEF Fresh, FreshOf, Owning
<1>4. CASE Crash
  <2>1. \A r \in Runs : pc'[r] \in Owning <=> pc[r] \in Owning
    BY <1>4 DEF Crash, Dead, Owning, Active, Stages
  <2>2. \A repo \in Repos : \A r \in latest[repo] : r \in Runs
    BY DEF TypeOK
  <2>3. \A repo \in Repos : FreshOf(repo)' = FreshOf(repo)
    BY <1>1, <2>1, <2>2 DEF FreshOf
  <2>4. Fresh' = Fresh
    BY <1>3, <2>3, Mapped
  <2>. QED
    BY <1>2, <1>4, <2>4 DEF Crash, LifeStep, Life!vars
<1>5. CASE Startup
  <2> DEFINE failing == {repo \in Repos : status[repo] \in InProgress}
  <2>1. \A r \in Runs : pc[r] \notin Active
    BY <1>5 DEF Startup, SerialInv
  <2>2. \A r \in Runs : pc'[r] \notin Owning
    BY <1>5, <2>1 DEF Startup, TypeOK, Owning, Active, Stages
  <2>3. \A repo \in Repos : FreshOf(repo)' = FALSE
    BY <1>1, <2>2 DEF FreshOf, TypeOK
  <2>4. \A repo \in Repos \ failing : FreshOf(repo) = FALSE
    BY <2>1 DEF FreshOf, LifeInv, TypeOK, Owning
  <2>5. \A repo \in Repos : Fresh[repo] \in BOOLEAN
    BY DEF Fresh
  <2>6. Fresh' = [repo \in Repos |-> Fresh[repo] /\ repo \notin failing]
    BY <1>3, <2>3, <2>4, <2>5, Mapped
  <2>7. status' = [repo \in Repos |-> IF repo \in failing THEN "failed" ELSE status[repo]]
    BY <1>5 DEF Startup
  <2>8. CASE failing = {}
    <3>1. Fresh' = Fresh
      BY <1>3, <2>3, <2>4, <2>8, Mapped
    <3>2. status' = status
      BY <2>7, <2>8 DEF TypeOK
    <3>. QED
      BY <1>2, <3>1, <3>2 DEF LifeStep, Life!vars
  <2>9. CASE failing # {}
    <3>1. Life!Fail(failing)
      BY <1>2, <2>6, <2>7, <2>9 DEF Life!Fail, Life!InProgress, InProgress
    <3>. QED
      BY <3>1 DEF LifeStep, Life!Next
  <2>. QED
    BY <2>8, <2>9
<1>. QED
  BY <1>4, <1>5

\* Every step of the indexing is a step of the card, or does not show on it.
LEMMA NextMaps ==
    Serial /\ TypeOK /\ TypeOK' /\ SerialInv /\ LifeInv /\ LifeInv' /\ [Next]_vars
      => [Life!Next]_(Life!vars)
<1> SUFFICES ASSUME Serial, TypeOK, TypeOK', SerialInv, LifeInv, LifeInv', [Next]_vars
             PROVE  LifeStep
  BY DEF LifeStep
<1>1. ASSUME NEW r \in ApiRuns, Request(r) PROVE LifeStep
  BY <1>1, RequestMaps DEF Runs
<1>2. ASSUME NEW r \in Runs, Advance(r) \/ ReportProgress(r) \/ Trouble(r) PROVE LifeStep
  BY <1>2, SaveMaps, LinkMaps, ParsingMaps, FinishMaps, FailureMaps, OthersMap DEF Storing
<1>3. CASE Crash \/ Startup
  BY <1>3, ServerMaps
<1>4. CASE UNCHANGED vars
  BY <1>4 DEF vars, LifeStep, Life!vars, Fresh, Whole, HasSymbols, Rows
<1>. QED
  BY <1>1, <1>2, <1>3, <1>4 DEF Next, Serial

\* With one client at a time an indexing implements the life cycle of the card:
\* states in order, one whole replacement per request, and "done" only for an
\* index with its own evidence, through every failure and restart.
THEOREM IndexingImplementsLifecycle == ASSUME Serial PROVE Spec => ImplementsLifecycle
BY LifeInitial, NextMaps, TypeCorrect, SerialInvariant, LifeInvariant, PTL
   DEF Spec, ImplementsLifecycle, Life!Spec
-----------------------------------------------------------------------------
\* The new index is in place only while the card says parsing.
FreshIsParsing ==
    \A repo \in Repos :
        /\ status[repo] = "done" => Whole[repo]
        /\ Fresh[repo] => status[repo] = "parsing"

\* The card shows one of the known states.
LEMMA CardTypeNext == Life!TypeOK /\ [Life!Next]_(Life!vars) => Life!TypeOK'
<1> SUFFICES ASSUME Life!TypeOK, [Life!Next]_(Life!vars) PROVE Life!TypeOK'
  OBVIOUS
<1> USE DEF Life!TypeOK, Life!InProgress, Life!Settled
<1>1. ASSUME NEW repo \in Repos,
             Life!Request(repo) \/ Life!Parse(repo) \/ Life!Replace(repo)
             \/ Life!Link(repo) \/ Life!Finish(repo)
      PROVE  Life!TypeOK'
  BY <1>1 DEF Life!Request, Life!Parse, Life!Replace, Life!Link, Life!Finish, Life!Show
<1>2. ASSUME NEW failing \in SUBSET Repos, Life!Fail(failing) PROVE Life!TypeOK'
  BY <1>2 DEF Life!Fail
<1>3. CASE UNCHANGED Life!vars
  BY <1>3 DEF Life!vars
<1>. QED
  BY <1>1, <1>2, <1>3 DEF Life!Next

\* A step of one repository, and a failure of many.
LEMMA FreshIsParsingNext ==
    Life!TypeOK /\ FreshIsParsing /\ [Life!Next]_(Life!vars) => FreshIsParsing'
<1> SUFFICES ASSUME Life!TypeOK, FreshIsParsing, [Life!Next]_(Life!vars)
             PROVE  FreshIsParsing'
  OBVIOUS
<1> USE DEF Life!TypeOK, FreshIsParsing
<1>1. ASSUME NEW repo \in Repos, Life!Request(repo) \/ Life!Parse(repo)
      PROVE  FreshIsParsing'
  BY <1>1 DEF Life!Request, Life!Parse, Life!Show, Life!Settled
<1>2. ASSUME NEW repo \in Repos, Life!Replace(repo) \/ Life!Link(repo) \/ Life!Finish(repo)
      PROVE  FreshIsParsing'
  BY <1>2 DEF Life!Replace, Life!Link, Life!Finish, Life!Show
<1>3. ASSUME NEW failing \in SUBSET Repos, Life!Fail(failing) PROVE FreshIsParsing'
  BY <1>3 DEF Life!Fail
<1>4. CASE UNCHANGED Life!vars
  BY <1>4 DEF Life!vars
<1>. QED
  BY <1>1, <1>2, <1>3, <1>4 DEF Life!Next

\* An indexing that keeps the lifecycle's promises never shows an index as done
\* without its own evidence, and never settles in the middle of a replacement.
THEOREM DoneWithEvidence == Life!Spec => []Life!DoneIsWhole
<1>1. Life!Init => Life!TypeOK /\ FreshIsParsing
  BY DEF Life!Init, Life!TypeOK, FreshIsParsing, Life!InProgress, Life!Settled
<1>2. Life!TypeOK /\ FreshIsParsing /\ [Life!Next]_(Life!vars)
        => (Life!TypeOK /\ FreshIsParsing)'
  BY CardTypeNext, FreshIsParsingNext
<1>3. FreshIsParsing => Life!DoneIsWhole
  BY DEF FreshIsParsing, Life!DoneIsWhole, Life!Settled
<1>. QED
  BY <1>1, <1>2, <1>3, PTL DEF Life!Spec

\* So the card of the detailed indexing can be trusted: done means the evidence of
\* its own index, and no index is left half replaced between two runs.
THEOREM CardIsTrusted == ASSUME Serial PROVE Spec => []Life!DoneIsWhole
BY IndexingImplementsLifecycle, DoneWithEvidence, PTL DEF ImplementsLifecycle
=============================================================================
