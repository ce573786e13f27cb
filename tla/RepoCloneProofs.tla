--------------------------- MODULE RepoCloneProofs ---------------------------
(***************************************************************************)
(* What holds of RepoClone with any repositories, runs, pushes and         *)
(* failures: the composition is a RepoIndexing, so that what is proved of  *)
(* the runs holds of it, and a run that meets no other works on one        *)
(* revision.  One client at a time makes runs meet no other, and the       *)
(* composition an IndexLifecycle.                                          *)
(***************************************************************************)
EXTENDS RepoClone, RepoLifecycleProofs

\* The commands of ensure_clone that are steps of their own.
GitCommand(r) ==
    \/ Refresh(r) \/ Discard(r) \/ NoClone(r) \/ BeginClone(r) \/ EndClone(r)

\* A step of a run in the composition is one of RepoIndexing, or a git command.
LEMMA StepIsStep == [CloneNext]_allVars => [Next]_vars
<1> SUFFICES ASSUME [CloneNext]_allVars PROVE [Next]_vars
  OBVIOUS
<1>1. CASE UNCHANGED allVars
  BY <1>1 DEF allVars
<1>2. CASE Push
  BY <1>2 DEF Push
<1>3. CASE Processes
  BY <1>3 DEF Processes, Next
<1>4. ASSUME NEW r \in Runs, GitCommand(r) PROVE [Next]_vars
  BY <1>4 DEF GitCommand, Refresh, Discard, NoClone, BeginClone, EndClone, Git
<1>5. ASSUME NEW r \in Runs, CloneFails(r) \/ StageFails(r) PROVE [Next]_vars
  BY <1>5 DEF CloneFails, StageFails, Next, Trouble
<1>6. ASSUME NEW r \in Runs, Begin(r) PROVE [Next]_vars
  BY <1>6 DEF Begin, Next, Request
<1>7. ASSUME NEW r \in Runs,
             CollectHistory(r) \/ ListFiles(r) \/ ReadFiles(r) \/ StoreIndex(r) \/ LinkLines(r)
      PROVE  [Next]_vars
  BY <1>7 DEF CollectHistory, ListFiles, ReadFiles, StoreIndex, LinkLines, Next, Advance
<1>8. ASSUME NEW r \in Runs, Elsewhere(r) PROVE [Next]_vars
  BY <1>8 DEF Elsewhere, Next, Request, Advance, Trouble
<1>. QED
  BY <1>1, <1>2, <1>3, <1>4, <1>5, <1>6, <1>7, <1>8 DEF CloneNext, GitCommand

\* The shared clone takes nothing from the runs: whatever is proved of
\* RepoIndexing's transactions holds when they read a clone that moves.
THEOREM CloneRunsAreRuns == CloneSpec => Spec
BY StepIsStep, PTL DEF CloneSpec, CloneInit, Spec
-----------------------------------------------------------------------------
Kinds == {"log", "files", "lines"}

\* All that a run has read is the revision v.
ReadOnly(r, v) == \A k \in Kinds : read[r][k] \subseteq {v}

Untouched(r) == git[r] = "find" /\ \A k \in Kinds : read[r][k] = {}

\* What holds of a run that has met no other, by its place.
LoneRun(r) ==
    /\ pc[r] \in {"idle", "checked", "accepted"} => Untouched(r)
    /\ pc[r] = "clone" =>
         /\ \A k \in Kinds : read[r][k] = {}
         /\ git[r] = "fetch" => Dir(r) = Missing
         /\ git[r] = "cloning" => Dir(r) = Partial
         /\ git[r] = "ready" => Dir(r) \in since[r]..head
    /\ pc[r] \in Stages \ {"clone"} => Dir(r) \in since[r]..head /\ ReadOnly(r, Dir(r))
    /\ pc[r] \in {"failing", "lost", "ended"} => \E v \in since[r]..head : ReadOnly(r, v)

\* Runs that are active together have met; the others read one revision.
CloneInv ==
    /\ \A r, s \in Runs :
         (r # s /\ RepoOf[r] = RepoOf[s] /\ pc[r] \in Active /\ pc[s] \in Active) => met[r]
    /\ \A r \in Runs : since[r] \in 1..head
    /\ \A r \in Runs : ~met[r] => LoneRun(r)

\* The stages that come after ensure_clone.
Later == Stages \ {"clone"}
-----------------------------------------------------------------------------
\* No clone yet, and no run begun.
LEMMA CloneTypeInit == CloneInit => CloneTypeOK
BY TypeInit, RunsAssumption, MaxHeadAssumption
   DEF CloneInit, CloneTypeOK, Revisions, Contents, Reads, Missing, Partial

\* What a stage adds to a run's reading is what the directory may hold.
LEMMA SeeingType ==
    ASSUME CloneTypeOK, NEW r \in Runs, NEW k \in Kinds, Seeing(r, k)
    PROVE  /\ UNCHANGED <<head, clone, git, since, met>>
           /\ read' \in [Runs -> Reads]
           /\ \A s \in Runs \ {r} : read'[s] = read[s]
           /\ \A j \in Kinds \ {k} : read'[r][j] = read[r][j]
           /\ read'[r][k] = read[r][k] \cup {Dir(r)}
<1>1. Dir(r) \in Contents
  BY RunsAssumption DEF CloneTypeOK, Dir
<1>2. read[r] \in Reads
  BY DEF CloneTypeOK
<1>3. [read[r] EXCEPT ![k] = @ \cup {Dir(r)}] \in Reads
  BY <1>1, <1>2 DEF Reads, Kinds
<1>. QED
  BY <1>2, <1>3 DEF Seeing, CloneTypeOK, Reads, Kinds

\* Every command leaves the directory missing, partial or at a revision.
LEMMA CloneTypeNext == CloneTypeOK /\ [CloneNext]_allVars => CloneTypeOK'
<1> SUFFICES ASSUME CloneTypeOK, [CloneNext]_allVars PROVE CloneTypeOK'
  OBVIOUS
<1>0. TypeOK'
  BY StepIsStep, TypeNext DEF CloneTypeOK
<1>1. CASE UNCHANGED allVars
  BY <1>0, <1>1 DEF allVars, cloneVars, CloneTypeOK
<1>2. CASE Push
  BY <1>0, <1>2, MaxHeadAssumption DEF Push, CloneTypeOK, Revisions
<1>3. CASE Processes
  BY <1>0, <1>3 DEF Processes, cloneVars, CloneTypeOK
<1>4. ASSUME NEW r \in Runs, GitCommand(r) PROVE CloneTypeOK'
  <2>1. clone' \in [Repos -> Contents]
    BY <1>4, RunsAssumption, MaxHeadAssumption
       DEF GitCommand, Refresh, Discard, NoClone, BeginClone, EndClone, SetDir, CloneTypeOK,
           Contents, Revisions, Missing, Partial
  <2>2. git' \in [Runs -> {"find", "fetch", "cloning", "ready"}]
    BY <1>4 DEF GitCommand, Refresh, Discard, NoClone, BeginClone, EndClone, Git, CloneTypeOK
  <2>3. UNCHANGED <<head, read, since, met>>
    BY <1>4 DEF GitCommand, Refresh, Discard, NoClone, BeginClone, EndClone, Git
  <2>. QED
    BY <1>0, <2>1, <2>2, <2>3 DEF CloneTypeOK
<1>5. ASSUME NEW r \in Runs, CloneFails(r) PROVE CloneTypeOK'
  BY <1>0, <1>5, RunsAssumption DEF CloneFails, SetDir, CloneTypeOK, Contents
<1>6. ASSUME NEW r \in Runs, Begin(r) PROVE CloneTypeOK'
  <2>1. since' \in [Runs -> Revisions]
    BY <1>6 DEF Begin, CloneTypeOK
  <2>2. met' \in [Runs -> BOOLEAN]
    BY <1>6 DEF Begin, CloneTypeOK
  <2>. QED
    BY <1>0, <1>6, <2>1, <2>2 DEF Begin, CloneTypeOK
<1>7. ASSUME NEW r \in Runs, NEW k \in Kinds, Seeing(r, k) PROVE CloneTypeOK'
  BY <1>0, <1>7, SeeingType DEF CloneTypeOK
<1>8. ASSUME NEW r \in Runs, StoreIndex(r) \/ StageFails(r) \/ Elsewhere(r) PROVE CloneTypeOK'
  BY <1>0, <1>8 DEF StoreIndex, StageFails, Elsewhere, cloneVars, CloneTypeOK
<1>. QED
  <2>1. ASSUME NEW r \in Runs, CollectHistory(r) \/ ListFiles(r) \/ ReadFiles(r) \/ LinkLines(r)
        PROVE  \E k \in Kinds : Seeing(r, k)
    BY <2>1 DEF CollectHistory, ListFiles, ReadFiles, LinkLines, Kinds
  <2>. QED
    BY <1>1, <1>2, <1>3, <1>4, <1>5, <1>6, <1>7, <1>8, <2>1 DEF CloneNext, GitCommand

\* The directory of a repository is missing, partial or at a revision, and every
\* run's reading is made of such contents.
THEOREM CloneTypeCorrect == CloneSpec => []CloneTypeOK
BY CloneTypeInit, CloneTypeNext, PTL DEF CloneSpec
-----------------------------------------------------------------------------
\* What a run has read before its repository is asked about is nothing.
LEMMA CloneInvInit == CloneInit => CloneInv
BY DEF CloneInit, Init, CloneInv, LoneRun, Untouched, Kinds, Active, Stages

\* A run that has met no other is not disturbed by the step of an active run:
\* if that works on its repository, it is not active itself.
LEMMA OthersKeep ==
    ASSUME CloneTypeOK, CloneInv, NEW r \in Runs, pc[r] \in Active,
           NEW s \in Runs \ {r}, ~met[s],
           pc'[s] = pc[s], git'[s] = git[s], read'[s] = read[s],
           UNCHANGED <<head, since>>,
           \A repo \in Repos \ {RepoOf[r]} : clone'[repo] = clone[repo]
    PROVE  LoneRun(s)'
<1>1. LoneRun(s)
  BY DEF CloneInv
<1>2. CASE RepoOf[s] = RepoOf[r]
  <2>1. pc[s] \notin Active
    BY <1>2 DEF CloneInv
  <2>. QED
    BY <1>1, <2>1 DEF LoneRun, Untouched, ReadOnly, Active, Stages
<1>3. CASE RepoOf[s] # RepoOf[r]
  <2>1. Dir(s)' = Dir(s)
    BY <1>3, RunsAssumption DEF Dir
  <2>. QED
    BY <1>1, <2>1 DEF LoneRun, Untouched, ReadOnly, Missing, Partial
<1>. QED
  BY <1>2, <1>3

\* An active run's step keeps the invariant if it keeps the run's own part.
LEMMA ActiveStepKeeps ==
    ASSUME CloneTypeOK, CloneInv, NEW r \in Runs, pc[r] \in Active,
           \A s \in Runs \ {r} :
              pc'[s] = pc[s] /\ git'[s] = git[s] /\ read'[s] = read[s],
           UNCHANGED <<head, since, met>>,
           \A repo \in Repos \ {RepoOf[r]} : clone'[repo] = clone[repo],
           ~met[r] => LoneRun(r)'
    PROVE  CloneInv'
<1>1. \A s, t \in Runs :
        (s # t /\ RepoOf[s] = RepoOf[t] /\ pc'[s] \in Active /\ pc'[t] \in Active) => met'[s]
  BY DEF CloneInv
<1>2. ASSUME NEW s \in Runs, ~met'[s] PROVE LoneRun(s)'
  BY <1>2, OthersKeep
<1>. QED
  BY <1>1, <1>2 DEF CloneInv

\* A step that reads nothing and leaves the directory alone keeps a lone run's
\* part: the run ends, stays, goes to its first stage or from one to a later one.
LEMMA LoneStepKeeps ==
    ASSUME CloneTypeOK, CloneInv, NEW r \in Runs, ~met[r], UNCHANGED cloneVars,
           \/ pc'[r] \in Over
           \/ pc'[r] = pc[r]
           \/ pc[r] = "accepted" /\ pc'[r] = "clone"
           \/ pc[r] = "idle" /\ pc'[r] = "checked"
           \/ pc[r] \in Later /\ pc'[r] \in Later
    PROVE  LoneRun(r)'
<1>1. LoneRun(r) /\ pc[r] \in PCs /\ since[r] \in since[r]..head
  BY DEF CloneInv, CloneTypeOK, TypeOK, Revisions
<1>2. CASE pc'[r] \in Over
  <2>1. \E v \in since[r]..head : ReadOnly(r, v)
    BY <1>1 DEF LoneRun, Untouched, ReadOnly, PCs, Active, Stages
  <2>. QED
    BY <1>2, <2>1 DEF LoneRun, ReadOnly, Over, Stages, cloneVars
<1>3. CASE pc'[r] = pc[r]
  BY <1>1, <1>3 DEF LoneRun, Untouched, ReadOnly, Dir, cloneVars, Missing, Partial
<1>4. CASE pc[r] = "accepted" /\ pc'[r] = "clone"
  BY <1>1, <1>4 DEF LoneRun, Untouched, Stages, cloneVars
<1>5. CASE pc[r] = "idle" /\ pc'[r] = "checked"
  BY <1>1, <1>5 DEF LoneRun, Untouched, Stages, cloneVars
<1>6. CASE pc[r] \in Later /\ pc'[r] \in Later
  BY <1>1, <1>6 DEF LoneRun, ReadOnly, Dir, Later, Stages, cloneVars
<1>. QED
  BY <1>2, <1>3, <1>4, <1>5, <1>6

\* A run that sees the directory in a later stage still has one revision only.
LEMMA LoneSeeingKeeps ==
    ASSUME CloneTypeOK, CloneInv, NEW r \in Runs, ~met[r], NEW k \in Kinds, Seeing(r, k),
           Dir(r) \in since[r]..head, ReadOnly(r, Dir(r)), pc'[r] \in Later
    PROVE  LoneRun(r)'
<1>1. ReadOnly(r, Dir(r))'
  BY SeeingType DEF ReadOnly, Dir
<1>. QED
  BY <1>1, SeeingType DEF LoneRun, Later, Stages, Dir

\* What is left of the directory's story: one step for each kind of action.
LEMMA CloneInvNext == CloneTypeOK /\ CloneInv /\ [CloneNext]_allVars => CloneInv'
<1> SUFFICES ASSUME CloneTypeOK, CloneInv, [CloneNext]_allVars PROVE CloneInv'
  OBVIOUS
<1> USE DEF Goto
<1>0. TypeOK /\ \A r \in Runs : since[r] \in 1..head
  BY DEF CloneTypeOK, CloneInv
<1>1. CASE UNCHANGED allVars
  BY <1>1 DEF allVars, vars, cloneVars, CloneInv, LoneRun, Untouched, ReadOnly, Dir
<1>2. CASE Push
  <2>1. head' = head + 1 /\ head \in Nat /\ UNCHANGED <<pc, clone, git, read, since, met>>
    BY <1>2 DEF Push, vars, CloneTypeOK, Revisions
  <2>2. \A r \in Runs : since[r]..head \subseteq since'[r]..head'
    BY <1>0, <2>1
  <2>. QED
    BY <2>1, <2>2 DEF CloneInv, LoneRun, Untouched, ReadOnly, Dir, Missing, Partial
<1>3. CASE Processes
  <2>1. UNCHANGED cloneVars
    BY <1>3 DEF Processes
  <2>2. \A r \in Runs : pc'[r] = pc[r] \/ pc'[r] \in Over
    BY <1>0, <1>3 DEF Processes, Crash, Startup, Dead, TypeOK, Over
  <2>3. \A r \in Runs : pc'[r] \in Active => pc[r] \in Active
    BY <1>0, <1>3 DEF Processes, Crash, Startup, Dead, TypeOK, Active, Stages
  <2>4. \A r \in Runs : ~met[r] => LoneRun(r)'
    BY <2>1, <2>2, LoneStepKeeps
  <2>. QED
    BY <2>1, <2>3, <2>4 DEF CloneInv, cloneVars
<1>4. ASSUME NEW r \in Runs, GitCommand(r) PROVE CloneInv'
  <2>1. /\ pc[r] = "clone" /\ UNCHANGED pc
        /\ \A s \in Runs \ {r} : git'[s] = git[s]
        /\ UNCHANGED <<head, read, since, met>>
        /\ \A repo \in Repos \ {RepoOf[r]} : clone'[repo] = clone[repo]
    BY <1>4 DEF GitCommand, Refresh, Discard, NoClone, BeginClone, EndClone, SetDir, Git,
                vars, CloneTypeOK
  <2>2. pc[r] \in Active
    BY <2>1 DEF Active, Stages
  <2>3. \/ git'[r] = "ready" /\ Dir(r)' = head
        \/ git'[r] = "fetch" /\ Dir(r)' = Missing
        \/ git'[r] = "cloning" /\ Dir(r)' = Partial
    BY <1>4, RunsAssumption
       DEF GitCommand, Refresh, Discard, NoClone, BeginClone, EndClone, SetDir, Git, Dir,
           CloneTypeOK
  <2>4. head \in since[r]..head
    BY <1>0 DEF CloneTypeOK, Revisions
  <2>5. ASSUME ~met[r] PROVE LoneRun(r)'
    BY <2>1, <2>3, <2>4, <2>5 DEF CloneInv, LoneRun, Missing, Partial
  <2>. QED
    BY <2>1, <2>2, <2>5, ActiveStepKeeps
<1>5. ASSUME NEW r \in Runs, CloneFails(r) PROVE CloneInv'
  <2>1. /\ pc[r] = "clone" /\ pc' = [pc EXCEPT ![r] = "failing"]
        /\ UNCHANGED <<head, git, read, since, met>>
        /\ \A repo \in Repos \ {RepoOf[r]} : clone'[repo] = clone[repo]
    BY <1>5 DEF CloneFails, Fail, SetDir, CloneTypeOK
  <2>2. pc[r] \in Active /\ \A s \in Runs \ {r} : pc'[s] = pc[s]
    BY <1>0, <2>1 DEF Active, Stages, TypeOK
  <2>3. ASSUME ~met[r] PROVE LoneRun(r)'
    <3>1. ReadOnly(r, since[r]) /\ since[r] \in since[r]..head
      BY <1>0, <2>1, <2>3 DEF CloneInv, LoneRun, ReadOnly, CloneTypeOK, Revisions
    <3>. QED
      BY <1>0, <2>1, <3>1 DEF LoneRun, ReadOnly, Stages, TypeOK
  <2>. QED
    BY <2>1, <2>2, <2>3, ActiveStepKeeps
<1>6. ASSUME NEW r \in Runs, Begin(r) PROVE CloneInv'
  <2> DEFINE others == {s \in Runs \ {r} : RepoOf[s] = RepoOf[r] /\ pc[s] \in Active}
  <2>1. /\ pc[r] \in {"idle", "checked"} /\ pc' = [pc EXCEPT ![r] = "accepted"]
        /\ since' = [since EXCEPT ![r] = head]
        /\ met' = [s \in Runs |-> met[s] \/ s \in others \/ (s = r /\ others # {})]
        /\ UNCHANGED <<head, clone, git, read>>
    BY <1>6 DEF Begin, AddRepo, ReindexCommit, Seed
  <2>2. /\ pc'[r] = "accepted" /\ since'[r] = head
        /\ \A s \in Runs \ {r} : pc'[s] = pc[s] /\ since'[s] = since[s]
    BY <1>0, <2>1 DEF TypeOK, CloneTypeOK
  <2>3. ASSUME NEW s \in Runs, NEW t \in Runs, s # t, RepoOf[s] = RepoOf[t],
               pc'[s] \in Active, pc'[t] \in Active
        PROVE  met'[s]
    <3>1. CASE s = r
      <4>1. t \in others
        BY <2>2, <2>3, <3>1
      <4>. QED
        BY <2>1, <3>1, <4>1
    <3>2. CASE t = r
      <4>1. s \in others
        BY <2>2, <2>3, <3>2
      <4>. QED
        BY <2>1, <4>1
    <3>3. CASE s # r /\ t # r
      <4>1. met[s]
        BY <2>2, <2>3, <3>3 DEF CloneInv
      <4>. QED
        BY <2>1, <4>1
    <3>. QED
      BY <3>1, <3>2, <3>3
  <2>4. \A s \in Runs : since'[s] \in 1..head'
    BY <1>0, <2>1, <2>2 DEF CloneTypeOK, Revisions
  <2>5. ASSUME NEW s \in Runs, ~met'[s] PROVE LoneRun(s)'
    <3>1. LoneRun(s)
      BY <2>1, <2>5 DEF CloneInv
    <3>2. CASE s = r
      BY <2>1, <2>2, <3>1, <3>2 DEF LoneRun, Untouched, Stages
    <3>3. CASE s # r
      BY <2>1, <2>2, <3>1, <3>3 DEF LoneRun, Untouched, ReadOnly, Dir, Missing, Partial
    <3>. QED
      BY <3>2, <3>3
  <2>. QED
    BY <2>3, <2>4, <2>5 DEF CloneInv
<1>7. ASSUME NEW r \in Runs, CollectHistory(r) PROVE CloneInv'
  <2>1. /\ pc[r] = "clone" /\ pc' = [pc EXCEPT ![r] = "history"]
        /\ Seeing(r, "log") /\ git[r] = "ready"
    BY <1>7 DEF CollectHistory, SaveHistory
  <2>2. pc[r] \in Active /\ pc'[r] \in Later /\ \A s \in Runs \ {r} : pc'[s] = pc[s]
    BY <1>0, <2>1 DEF Active, Later, Stages, TypeOK
  <2>3. ASSUME ~met[r] PROVE LoneRun(r)'
    <3>1. Dir(r) \in since[r]..head /\ ReadOnly(r, Dir(r))
      BY <2>1, <2>3 DEF CloneInv, LoneRun, ReadOnly
    <3>. QED
      BY <2>1, <2>2, <2>3, <3>1, LoneSeeingKeeps DEF Kinds
  <2>. QED
    BY <2>1, <2>2, <2>3, SeeingType, ActiveStepKeeps DEF Kinds
<1>8. ASSUME NEW r \in Runs, ListFiles(r) \/ ReadFiles(r) \/ LinkLines(r) PROVE CloneInv'
  <2>1. /\ pc[r] \in Later
        /\ \E to \in Later : pc' = [pc EXCEPT ![r] = to]
    BY <1>8 DEF ListFiles, ParseFiles, ReadFiles, ClearReferences, ClearRows, LinkLines,
                LinkEvidence, LinkLastEvidence, Later, Stages
  <2>2. PICK k \in Kinds : Seeing(r, k)
    BY <1>8 DEF ListFiles, ReadFiles, LinkLines, Kinds
  <2>3. pc[r] \in Active /\ pc'[r] \in Later /\ \A s \in Runs \ {r} : pc'[s] = pc[s]
    BY <1>0, <2>1 DEF Active, Later, TypeOK
  <2>4. ASSUME ~met[r] PROVE LoneRun(r)'
    <3>1. Dir(r) \in since[r]..head /\ ReadOnly(r, Dir(r))
      BY <2>1, <2>4 DEF CloneInv, LoneRun, Later
    <3>. QED
      BY <2>2, <2>3, <2>4, <3>1, LoneSeeingKeeps
  <2>. QED
    BY <2>2, <2>3, <2>4, SeeingType, ActiveStepKeeps
<1>9. ASSUME NEW r \in Runs, StoreIndex(r) \/ StageFails(r) \/ Elsewhere(r) PROVE CloneInv'
  <2>1. UNCHANGED cloneVars
    BY <1>9 DEF StoreIndex, StageFails, Elsewhere
  <2>2. CASE r \in ApiRuns /\ ReindexCheck(r)
    <3>1. pc[r] = "idle" /\ pc' = [pc EXCEPT ![r] = "checked"]
      BY <2>2 DEF ReindexCheck
    <3>2. pc'[r] = "checked" /\ \A s \in Runs \ {r} : pc'[s] = pc[s]
      BY <1>0, <3>1 DEF TypeOK
    <3>3. \A s \in Runs : ~met[s] => LoneRun(s)'
      BY <2>1, <3>1, <3>2, LoneStepKeeps
    <3>4. \A s \in Runs : pc'[s] \in Active => pc[s] \in Active
      BY <3>2 DEF Active, Stages
    <3>. QED
      BY <2>1, <3>3, <3>4 DEF CloneInv, cloneVars
  <2>3. CASE ~(r \in ApiRuns /\ ReindexCheck(r))
    <3>1. /\ pc[r] \in Active
          /\ \A s \in Runs \ {r} : pc'[s] = pc[s]
          /\ \/ pc'[r] \in Over
             \/ pc'[r] = pc[r]
             \/ pc[r] = "accepted" /\ pc'[r] = "clone"
             \/ pc[r] \in Later /\ pc'[r] \in Later
      <4> USE <1>0 DEF TypeOK, Active, Stages, Over, Later
      <4>1. CASE StoreIndex(r)
        BY <4>1 DEF StoreIndex, SaveIndex
      <4>2. CASE StageFails(r)
        BY <4>2 DEF StageFails, Fail
      <4>3. CASE Start(r) \/ StartFails(r) \/ TaskNotScheduled(r)
        BY <4>3 DEF Start, StartFails, TaskNotScheduled
      <4>4. CASE BeginParsing(r) \/ IndexConflict(r) \/ ClearEvidence(r) \/ NothingToLink(r)
        BY <4>4 DEF BeginParsing, IndexConflict, ClearEvidence, NothingToLink
      <4>5. CASE \/ BeginSummaries(r) \/ NothingToSummarize(r) \/ EndSummaries(r)
                 \/ Finish(r) \/ ReportProgress(r)
        BY <4>5 DEF BeginSummaries, NothingToSummarize, EndSummaries, Finish, ReportProgress
      <4>6. CASE MarkFailed(r) \/ FailureNotRecorded(r)
        BY <4>6 DEF MarkFailed, FailureNotRecorded
      <4>7. CASE SeedKilled(r)
        BY <4>7 DEF SeedKilled, Dead
      <4>8. CASE ClearSymbols(r) \/ ClearFiles(r)
        BY <4>8 DEF ClearSymbols, ClearFiles, ClearRows
      <4>. QED
        BY <1>9, <2>3, <4>1, <4>2, <4>3, <4>4, <4>5, <4>6, <4>7, <4>8 DEF Elsewhere
    <3>2. ~met[r] => LoneRun(r)'
      BY <2>1, <3>1, LoneStepKeeps
    <3>. QED
      BY <2>1, <3>1, <3>2, ActiveStepKeeps DEF cloneVars
  <2>. QED
    BY <2>2, <2>3
<1>. QED
  BY <1>1, <1>2, <1>3, <1>4, <1>5, <1>6, <1>7, <1>8, <1>9 DEF CloneNext, GitCommand

\* The strengthened invariant: who has met whom, and what the directory is to a run
\* that has met nobody, at each of its places.
THEOREM CloneInvariant == CloneSpec => []CloneInv
BY CloneInvInit, CloneInvNext, CloneTypeCorrect, PTL DEF CloneSpec

\* A run that meets no other takes its commits, files and lines from one revision,
\* whatever earlier runs left in the directory and however often the branch moves.
THEOREM LoneRunReadsOneRevision == CloneSpec => []AloneReadsOneRevision
<1>1. CloneTypeOK /\ CloneInv => AloneReadsOneRevision
  <2> SUFFICES ASSUME CloneTypeOK, CloneInv, NEW r \in Runs, ~met[r]
               PROVE  \E v \in since[r]..MaxHead :
                         read[r].log \cup read[r].files \cup read[r].lines \subseteq {v}
    BY DEF AloneReadsOneRevision
  <2>1. LoneRun(r) /\ pc[r] \in PCs /\ since[r] \in 1..head /\ head \in 1..MaxHead
    BY DEF CloneInv, CloneTypeOK, TypeOK, Revisions
  <2>2. PICK v \in since[r]..head : ReadOnly(r, v)
    BY <2>1, MaxHeadAssumption DEF LoneRun, Untouched, ReadOnly, PCs, Active, Stages
  <2>. QED
    BY <2>1, <2>2, MaxHeadAssumption DEF ReadOnly, Kinds
<1>. QED
  BY <1>1, CloneTypeCorrect, CloneInvariant, PTL

\* ensure_clone leaves a run that meets no other with a whole clone, and no remains
\* of an earlier one stand in its way.
THEOREM DamageNeverLasts == CloneSpec => []DamageIsRepaired
<1>1. CloneTypeOK /\ CloneInv => DamageIsRepaired
  BY MaxHeadAssumption
     DEF CloneInv, LoneRun, DamageIsRepaired, CloneTypeOK, Revisions
<1>. QED
  BY <1>1, CloneTypeCorrect, CloneInvariant, PTL
-----------------------------------------------------------------------------
(* Whose rows stand side by side. *)

\* The stages between the first SELECT of _clear_previous and the commit.
Replacing == {"symbols", "sources", "save"}

\* The tables a run has read in order to delete what is there.
Cleared(r) == CASE pc[r] = "symbols" -> {"references"}
                [] pc[r] = "sources" -> {"references", "symbols"}
                [] pc[r] = "save" -> Tables
                [] OTHER -> {}

\* What a run has not read there was saved by a run it has met.
MissedFromMet(r) ==
    \A row \in index[RepoOf[r]] :
        row[2] \in Cleared(r) /\ row \notin held[r] => met[r] /\ met[row[1]]

RowsInv == LoneIndexIsWhole /\ \A r \in Runs : MissedFromMet(r)

Clearing(r) == ClearReferences(r) \/ ClearSymbols(r) \/ ClearFiles(r)

\* Meeting a run cannot be undone.
LEMMA MetStays ==
    ASSUME CloneTypeOK, [CloneNext]_allVars, NEW r \in Runs, met[r]
    PROVE  met'[r]
<1>1. ASSUME NEW s \in Runs, Begin(s) PROVE met'[r]
  BY <1>1 DEF Begin
<1>2. CloneNext => (\E s \in Runs : Begin(s)) \/ UNCHANGED met
  BY DEF CloneNext, Refresh, Discard, NoClone, BeginClone, EndClone, Git, CloneFails,
     CollectHistory, ListFiles, ReadFiles, StoreIndex, LinkLines, StageFails, Elsewhere,
     Seeing, Push, Processes, cloneVars
<1>. QED
  BY <1>1, <1>2 DEF allVars, cloneVars

\* The rows, and the runs that are replacing them, are where they were.
RowsStand ==
    /\ UNCHANGED index
    /\ \A s \in Runs : pc'[s] \in Replacing => pc'[s] = pc[s] /\ held'[s] = held[s]

\* Only a save and the three SELECTs before it concern the rows: after any other
\* step a run in the middle of a replacement is where it was.
LEMMA RowsUntouched ==
    ASSUME TypeOK, [Next]_vars, \A r \in Runs : ~SaveIndex(r) /\ ~Clearing(r)
    PROVE  RowsStand
<1> USE DEF RowsStand, TypeOK, Replacing, Goto, SetStatus, Stored, Runs
<1>1. ASSUME NEW r \in ApiRuns, Request(r) PROVE RowsStand
  BY <1>1 DEF Request, AddRepo, ReindexCheck, ReindexCommit
<1>2. ASSUME NEW r \in SeedRuns, Seed(r) \/ SeedKilled(r) PROVE RowsStand
  BY <1>2 DEF Seed, SeedKilled, Dead, Active, Stages
<1>3. ASSUME NEW r \in Runs, Start(r) \/ SaveHistory(r) \/ BeginParsing(r) \/ ParseFiles(r) \/ ReportProgress(r)
      PROVE RowsStand
  BY <1>3 DEF Start, SaveHistory, BeginParsing, ParseFiles, ReportProgress
<1>4. ASSUME NEW r \in Runs, IndexConflict(r) \/ ClearEvidence(r) \/ NothingToLink(r)
      PROVE RowsStand
  BY <1>4 DEF IndexConflict, ClearEvidence, NothingToLink
<1>5. ASSUME NEW r \in Runs, LinkEvidence(r) \/ LinkLastEvidence(r)
      PROVE RowsStand
  BY <1>5 DEF LinkEvidence, LinkLastEvidence, AddEvidence
<1>6. ASSUME NEW r \in Runs, \/ BeginSummaries(r) \/ NothingToSummarize(r) \/ EndSummaries(r)
                             \/ Finish(r) \/ MarkFailed(r)
      PROVE RowsStand
  BY <1>6 DEF BeginSummaries, NothingToSummarize, EndSummaries, Finish, MarkFailed
<1>7. ASSUME NEW r \in Runs, Trouble(r)
      PROVE RowsStand
  BY <1>7 DEF Trouble, TaskNotScheduled, StartFails, Fail, FailureNotRecorded
<1>8. CASE Crash
  BY <1>8 DEF Crash, Dead, Active, Stages
<1>9. CASE Startup
  BY <1>9 DEF Startup
<1>10. CASE UNCHANGED vars
  BY <1>10 DEF vars
<1>. QED
  BY <1>1, <1>2, <1>3, <1>4, <1>5, <1>6, <1>7, <1>8, <1>9, <1>10
     DEF Next, Advance, Clearing

\* A SELECT reads the rows of its table; a save meets only what it has missed.
LEMMA RowsInvNext ==
    CloneTypeOK /\ CloneInv /\ RowsInv /\ [CloneNext]_allVars => RowsInv'
<1> SUFFICES ASSUME CloneTypeOK, CloneInv, RowsInv, [CloneNext]_allVars PROVE RowsInv'
  OBVIOUS
<1>1. TypeOK /\ [Next]_vars /\ \A r \in Runs : met[r] => met'[r]
  BY StepIsStep, MetStays DEF CloneTypeOK
<1>2. \A repo \in Repos : \A row \in index[repo] : row[1] \in Runs /\ row[2] \in Tables
  BY <1>1 DEF TypeOK
<1>3. \A r \in Runs : RepoOf[r] \in Repos
  BY RunsAssumption
<1>4. ASSUME UNCHANGED index PROVE LoneIndexIsWhole'
  BY <1>1, <1>2, <1>4 DEF RowsInv, LoneIndexIsWhole
<1>5. ASSUME NEW s \in Runs, pc'[s] = pc[s], held'[s] = held[s],
             index'[RepoOf[s]] = index[RepoOf[s]]
      PROVE  MissedFromMet(s)'
  BY <1>1, <1>2, <1>3, <1>5 DEF RowsInv, MissedFromMet, Cleared
<1>6. ASSUME NEW s \in Runs, pc'[s] \notin Replacing PROVE MissedFromMet(s)'
  BY <1>6 DEF MissedFromMet, Cleared, Replacing
<1>7. ASSUME NEW r \in Runs, Clearing(r) PROVE RowsInv'
  <2>1. PICK table \in Tables, from \in PCs, to \in Replacing :
          /\ ClearRows(r, table, from, to)
          /\ \A t \in Cleared(r)' \ {table} : t \in Cleared(r)
    <3>1. CASE ClearReferences(r)
      BY <1>1, <3>1 DEF ClearReferences, ClearRows, Goto, TypeOK, Cleared, Tables, Replacing,
                        PCs, Active, Stages
    <3>2. CASE ClearSymbols(r)
      BY <1>1, <3>2 DEF ClearSymbols, ClearRows, Goto, TypeOK, Cleared, Tables, Replacing,
                        PCs, Active, Stages
    <3>3. CASE ClearFiles(r)
      BY <1>1, <3>3 DEF ClearFiles, ClearRows, Goto, TypeOK, Cleared, Tables, Replacing,
                        PCs, Active, Stages
    <3>. QED
      BY <1>7, <3>1, <3>2, <3>3 DEF Clearing
  <2>2. /\ UNCHANGED index
        /\ held'[r] = held[r] \cup Rows(RepoOf[r], table)
        /\ \A s \in Runs \ {r} : pc'[s] = pc[s] /\ held'[s] = held[s]
    BY <1>1, <2>1 DEF ClearRows, Goto, Stored, TypeOK
  <2>3. ASSUME NEW row \in index[RepoOf[r]], row[2] \in Cleared(r)', row \notin held'[r]
        PROVE  met'[r] /\ met'[row[1]]
    <3>1. row \in Runs \X Tables
      BY <1>1, <1>3 DEF TypeOK
    <3>2. row[2] # table
      BY <2>2, <2>3, <3>1 DEF Rows
    <3>3. row[2] \in Cleared(r) /\ row \notin held[r]
      BY <2>1, <2>2, <2>3, <3>2
    <3>. QED
      BY <1>1, <1>2, <1>3, <3>3 DEF RowsInv, MissedFromMet
  <2>4. MissedFromMet(r)'
    BY <2>2, <2>3 DEF MissedFromMet
  <2>. QED
    BY <1>4, <1>5, <2>2, <2>4 DEF RowsInv
<1>8. ASSUME NEW r \in Runs, SaveIndex(r) PROVE RowsInv'
  <2> DEFINE repo == RepoOf[r]
  <2>1. PICK tables \in Parses :
          index' = [index EXCEPT ![repo] = Others(r) \cup ({r} \X tables)]
    BY <1>8 DEF SaveIndex
  <2>2. /\ pc[r] = "save" /\ pc'[r] = "link"
        /\ \A s \in Runs \ {r} : pc'[s] = pc[s] /\ held'[s] = held[s]
    BY <1>1, <1>8 DEF SaveIndex, Goto, TypeOK
  <2>3. /\ index'[repo] = Others(r) \cup ({r} \X tables)
        /\ \A other \in Repos \ {repo} : index'[other] = index[other]
    BY <1>1, <1>3, <2>1 DEF TypeOK
  <2>4. \A row \in Others(r) : row \in index[repo] /\ met[r] /\ met[row[1]]
    BY <1>2, <1>3, <2>2 DEF Others, RowsInv, MissedFromMet, Cleared
  <2>5. ASSUME NEW other \in Repos, NEW x \in index'[other], NEW y \in index'[other],
               x[1] # y[1]
        PROVE  met'[x[1]] /\ met'[y[1]]
    <3>1. CASE other # repo
      BY <1>1, <1>2, <2>3, <2>5, <3>1 DEF RowsInv, LoneIndexIsWhole
    <3>2. CASE other = repo /\ x \in Others(r) /\ y \in Others(r)
      BY <1>1, <1>2, <1>3, <2>4, <3>2
    <3>3. CASE other = repo /\ (x \notin Others(r) \/ y \notin Others(r))
      <4>1. x \in {r} \X tables \/ y \in {r} \X tables
        BY <2>3, <3>3
      <4>2. x[1] = r \/ y[1] = r
        BY <4>1
      <4>3. x \in Others(r) \/ y \in Others(r)
        BY <2>3, <2>5, <3>3
      <4>. QED
        BY <1>1, <1>2, <1>3, <2>3, <2>4, <2>5, <3>3, <4>2, <4>3
    <3>. QED
      BY <3>1, <3>2, <3>3
  <2>6. LoneIndexIsWhole'
    BY <2>5 DEF LoneIndexIsWhole
  <2>7. ASSUME NEW s \in Runs PROVE MissedFromMet(s)'
    <3>1. CASE s = r
      BY <1>6, <2>2, <3>1 DEF Replacing
    <3>2. CASE s # r /\ RepoOf[s] # repo
      BY <1>3, <1>5, <2>2, <2>3, <3>2
    <3>3. CASE s # r /\ pc'[s] \notin Replacing
      BY <1>6, <3>3
    <3>4. CASE s # r /\ RepoOf[s] = repo /\ pc'[s] \in Replacing
      <4>1. met[s] /\ met[r]
        BY <2>2, <3>4 DEF CloneInv, Replacing, Active, Stages
      <4>2. Cleared(s)' = Cleared(s) /\ held'[s] = held[s]
        BY <2>2, <3>4 DEF Cleared
      <4>3. ASSUME NEW row \in index'[repo], row[2] \in Cleared(s), row \notin held[s]
            PROVE  met'[s] /\ met'[row[1]]
        <5>1. CASE row \in Others(r)
          BY <1>1, <1>2, <1>3, <2>4, <4>1, <5>1
        <5>2. CASE row \in {r} \X tables
          BY <1>1, <4>1, <5>2
        <5>. QED
          BY <2>3, <4>3, <5>1, <5>2
      <4>. QED
        BY <3>4, <4>2, <4>3 DEF MissedFromMet
    <3>. QED
      BY <3>1, <3>2, <3>3, <3>4
  <2>. QED
    BY <2>6, <2>7 DEF RowsInv
<1>9. CASE \A r \in Runs : ~SaveIndex(r) /\ ~Clearing(r)
  <2>1. RowsStand
    BY <1>1, <1>9, RowsUntouched
  <2>2. \A s \in Runs : MissedFromMet(s)'
    BY <1>5, <1>6, <2>1 DEF RowsStand
  <2>. QED
    BY <1>4, <2>1, <2>2 DEF RowsInv, RowsStand
<1>. QED
  BY <1>7, <1>8, <1>9

\* However runs overlap, rows of two parses stand side by side only if both runs
\* were at work with another: one that meets nobody has read all there is when it
\* deletes, and leaves its own rows alone.
THEOREM LoneRunsIndexAlone == CloneSpec => []LoneIndexIsWhole
<1>1. CloneInit => RowsInv
  BY RunsAssumption DEF CloneInit, Init, RowsInv, LoneIndexIsWhole, MissedFromMet
<1>2. RowsInv => LoneIndexIsWhole
  BY DEF RowsInv
<1>. QED
  BY <1>1, <1>2, RowsInvNext, CloneTypeCorrect, CloneInvariant, PTL DEF CloneSpec
-----------------------------------------------------------------------------
(* One client at a time. *)

NobodyMeets == \A r \in Runs : ~met[r]

\* A run that becomes active finds no other active on its repository.
LEMMA MeetsNobodyNext ==
    ASSUME TypeOK, OneRunPerRepo', NobodyMeets, [CloneNext]_allVars
    PROVE  NobodyMeets'
<1>1. ASSUME NEW r \in Runs, Begin(r) PROVE NobodyMeets'
  <2> DEFINE others == {s \in Runs \ {r} : RepoOf[s] = RepoOf[r] /\ pc[s] \in Active}
  <2>1. met' = [s \in Runs |-> met[s] \/ s \in others \/ (s = r /\ others # {})]
    BY <1>1 DEF Begin
  <2>2. pc'[r] \in Active /\ \A s \in Runs \ {r} : pc'[s] = pc[s]
    BY <1>1 DEF Begin, AddRepo, ReindexCommit, Seed, Goto, TypeOK, Active, Stages
  <2>3. others = {}
    BY <2>2 DEF OneRunPerRepo
  <2>. QED
    BY <2>1, <2>3 DEF NobodyMeets
<1>2. ASSUME UNCHANGED met PROVE NobodyMeets'
  BY <1>2 DEF NobodyMeets
<1>3. CloneNext => (\E r \in Runs : Begin(r)) \/ UNCHANGED met
  BY DEF CloneNext, Refresh, Discard, NoClone, BeginClone, EndClone, Git, CloneFails,
     CollectHistory, ListFiles, ReadFiles, StoreIndex, LinkLines, StageFails, Elsewhere,
     Seeing, Push, Processes, cloneVars
<1>. QED
  BY <1>1, <1>2, <1>3 DEF allVars, cloneVars

\* With one client at a time no two runs ever share a clone, crashes and failures
\* included: their commits, files and lines are always of one revision.
THEOREM SerialReadsOneRevision ==
    ASSUME Serial
    PROVE  CloneSpec => [](AloneReadsOneRevision /\ NobodyMeets)
<1>1. CloneInit => NobodyMeets
  BY DEF CloneInit, NobodyMeets
<1>2. Spec => []OneRunPerRepo
  BY OneRunAtATime
<1>3. TypeOK /\ OneRunPerRepo' /\ NobodyMeets /\ [CloneNext]_allVars => NobodyMeets'
  BY MeetsNobodyNext
<1>. QED
  BY <1>1, <1>2, <1>3, CloneRunsAreRuns, TypeCorrect, LoneRunReadsOneRevision, PTL DEF CloneSpec

\* With one client at a time the card promises the same when runs read a clone that
\* is damaged, mended and moves on.
THEOREM CloneImplementsLifecycle == ASSUME Serial PROVE CloneSpec => ImplementsLifecycle
BY CloneRunsAreRuns, IndexingImplementsLifecycle, PTL
=============================================================================
