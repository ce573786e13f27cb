--------------------- MODULE RepoIndexingSerialProofs ---------------------
(***************************************************************************)
(* What holds when one client asks at a time and no seed script runs: the  *)
(* assumption Serial of RepoIndexing.  The invariant that makes it go      *)
(* through ties the place of each run to its repository's row and to the   *)
(* rows the run has stored so far.                                         *)
(***************************************************************************)
EXTENDS RepoIndexingProofs

\* The stages after parse_repo's commit.
Saved == {"link", "evidence", "relink", "linked", "summary", "finish"}

\* What the open transaction of a run has read is all there is in these tables.
HeldInv(r) ==
    /\ pc[r] \in {"symbols", "sources", "save"} => Rows(RepoOf[r], "references") \subseteq held[r]
    /\ pc[r] \in {"sources", "save"} => Rows(RepoOf[r], "symbols") \subseteq held[r]
    /\ pc[r] = "save" => Rows(RepoOf[r], "files") \subseteq held[r]

\* What the place of a run says of its repository.
RunInv(r) ==
    /\ pc[r] = "checked" => status[RepoOf[r]] \in {"done", "failed"}
    /\ pc[r] \in {"accepted", "clone", "history"} => status[RepoOf[r]] = "collecting"
    /\ pc[r] \in Saved \cup {"scan", "files", "symbols", "sources", "save"} =>
          status[RepoOf[r]] = "parsing"
    /\ pc[r] = "failing" => status[RepoOf[r]] \in InProgress
    /\ HeldInv(r)
    /\ pc[r] \in Saved => latest[RepoOf[r]] = {r}
    /\ pc[r] = "evidence" => evidence[RepoOf[r]] = {}
    /\ pc[r] = "relink" => evidence[RepoOf[r]] = {<<r, "first">>}
    /\ pc[r] \in {"linked", "summary", "finish"} =>
          (HasSymbols(RepoOf[r]) => evidence[RepoOf[r]] = {r} \X Batches)

ShownFresh(repo) ==
    \E r \in Runs : /\ latest[repo] = {r} /\ index[repo] \subseteq {r} \X Tables
                    /\ HasSymbols(repo) => evidence[repo] = {r} \X Batches

RepoInv(repo) ==
    /\ progress[repo] => status[repo] \in InProgress
    /\ index[repo] \subseteq latest[repo] \X Tables
    /\ status[repo] = "done" => ShownFresh(repo)

SerialInv ==
    /\ ~serverUp => \A r \in Runs : pc[r] \notin Active \cup {"checked"}
    /\ \A r, s \in Runs : (pc[r] \in Asking /\ pc[s] \in Asking) => r = s
    /\ OneRunPerRepo
    /\ \A r \in Runs : RunInv(r)
    /\ \A repo \in Repos : RepoInv(repo)
-----------------------------------------------------------------------------
\* No other run is at work on the repository of r, or about to be.
Alone(r) ==
    \A s \in Runs \ {r} : RepoOf[s] = RepoOf[r] => pc[s] \notin Active \cup {"checked"}

\* A step of one run, moving to `to', that touches no other repository.
OwnStep(r, to) ==
    /\ serverUp /\ serverUp'
    /\ pc' = [pc EXCEPT ![r] = to]
    /\ \A s \in Runs \ {r} : held'[s] = held[s]
    /\ \A repo \in Repos \ {RepoOf[r]} :
          /\ status'[repo] = status[repo]
          /\ progress'[repo] = progress[repo]
          /\ index'[repo] = index[repo]
          /\ latest'[repo] = latest[repo]
          /\ evidence'[repo] = evidence[repo]

\* A run that is active or has been checked is alone with its repository.
LEMMA BusyIsAlone ==
    ASSUME TypeOK, SerialInv, NEW r \in Runs, pc[r] \in Active \cup {"checked"}
    PROVE  serverUp /\ Alone(r)
<1>1. serverUp
  BY DEF SerialInv
<1>2. ASSUME NEW s \in Runs \ {r}, RepoOf[s] = RepoOf[r]
      PROVE  pc[s] \notin Active \cup {"checked"}
  <2>1. CASE pc[r] = "checked"
    <3>1. status[RepoOf[r]] \notin InProgress
      BY <2>1 DEF SerialInv, RunInv, InProgress
    <3>2. pc[s] \notin Active
      BY <1>2, <3>1 DEF SerialInv, RunInv, Active, Stages, Saved, InProgress
    <3>. QED
      BY <2>1, <3>2 DEF SerialInv, Asking
  <2>2. CASE pc[r] \in Active
    <3>1. status[RepoOf[r]] \in InProgress
      BY <2>2 DEF SerialInv, RunInv, Active, Stages, Saved, InProgress
    <3>2. pc[s] # "checked"
      BY <1>2, <3>1 DEF SerialInv, RunInv, InProgress
    <3>. QED
      BY <1>2, <2>2, <3>2 DEF SerialInv, OneRunPerRepo
  <2>. QED
    BY <2>1, <2>2
<1>. QED
  BY <1>1, <1>2 DEF Alone

\* A run that works alone preserves the invariant if it preserves its own part.
LEMMA OwnStepKeeps ==
    ASSUME TypeOK, SerialInv, NEW r \in Runs, NEW to \in PCs, OwnStep(r, to), Alone(r),
           to \in Asking => \A s \in Runs \ {r} : pc[s] \notin Asking,
           RunInv(r)', RepoInv(RepoOf[r])'
    PROVE  SerialInv'
<1> RepoOf[r] \in Repos
  BY RunsAssumption
<1>1. \A s \in Runs \ {r} : pc'[s] = pc[s]
  BY DEF OwnStep, TypeOK
<1>2. pc'[r] = to
  BY DEF OwnStep, TypeOK
<1>3. \A s, t \in Runs : (pc'[s] \in Asking /\ pc'[t] \in Asking) => s = t
  BY <1>1, <1>2 DEF SerialInv
<1>4. OneRunPerRepo'
  BY <1>1, <1>2 DEF SerialInv, OneRunPerRepo, Alone
<1>5. ASSUME NEW s \in Runs PROVE RunInv(s)'
  <2>1. CASE s = r
    BY <2>1
  <2>2. CASE s # r /\ RepoOf[s] = RepoOf[r]
    <3>1. pc'[s] \notin Active \cup {"checked"}
      BY <1>1, <2>2 DEF Alone
    <3>. QED
      BY <3>1 DEF RunInv, HeldInv, Active, Stages, Saved
  <2>3. CASE s # r /\ RepoOf[s] # RepoOf[r]
    <3>1. RepoOf[s] \in Repos
      BY RunsAssumption
    <3>2. /\ status'[RepoOf[s]] = status[RepoOf[s]]
          /\ index'[RepoOf[s]] = index[RepoOf[s]]
          /\ latest'[RepoOf[s]] = latest[RepoOf[s]]
          /\ evidence'[RepoOf[s]] = evidence[RepoOf[s]]
          /\ held'[s] = held[s]
      BY <2>3, <3>1 DEF OwnStep
    <3>3. pc'[s] = pc[s] /\ RunInv(s)
      BY <1>1, <2>3 DEF SerialInv
    <3>. QED
      BY <3>2, <3>3 DEF RunInv, HeldInv, HasSymbols, Rows
  <2>. QED
    BY <2>1, <2>2, <2>3
<1>6. ASSUME NEW repo \in Repos PROVE RepoInv(repo)'
  <2>1. CASE repo = RepoOf[r]
    BY <2>1
  <2>2. CASE repo # RepoOf[r]
    BY <2>2 DEF OwnStep, SerialInv, RepoInv, ShownFresh, HasSymbols, Rows
  <2>. QED
    BY <2>1, <2>2
<1>7. serverUp'
  BY DEF OwnStep
<1>. QED
  BY <1>3, <1>4, <1>5, <1>6, <1>7 DEF SerialInv

\* Nothing is stored and nobody has asked for anything.
LEMMA SerialInit == Init => SerialInv
BY RunsAssumption DEF Init, SerialInv, OneRunPerRepo, RunInv, HeldInv, RepoInv, Active, Stages,
   Asking, Saved

\* The rows of a repository are those of the three tables.
LEMMA AllRows ==
    ASSUME NEW repo, index[repo] \subseteq Runs \X Tables, NEW S,
           Rows(repo, "references") \subseteq S, Rows(repo, "symbols") \subseteq S,
           Rows(repo, "files") \subseteq S
    PROVE  index[repo] \subseteq S
<1>1. ASSUME NEW row \in index[repo] PROVE row \in S
  <2>1. PICK r \in Runs, table \in Tables : row = <<r, table>>
    OBVIOUS
  <2>2. row \in Rows(repo, table)
    BY <2>1 DEF Rows
  <2>. QED
    BY <2>1, <2>2 DEF Tables
<1>. QED
  BY <1>1

\* The step of a run goes through OwnStepKeeps, since a run that does anything
\* is alone with its repository; the server's own steps concern them all.
LEMMA SerialNext == Serial /\ TypeOK /\ SerialInv /\ [Next]_vars => SerialInv'
<1> SUFFICES ASSUME Serial, TypeOK, SerialInv, [Next]_vars PROVE SerialInv'
  OBVIOUS
<1> Runs = ApiRuns
  BY DEF Serial, Runs
<1> USE DEF Goto, SetStatus, SetProgress, Stored, HeldInv, HasSymbols, Rows
<1>1. ASSUME NEW r \in ApiRuns, AddRepo(r) PROVE SerialInv'
  <2>1. RepoOf[r] \in Repos /\ RunInv(r) /\ RepoInv(RepoOf[r])
    BY RunsAssumption DEF SerialInv
  <2>2. Alone(r) /\ serverUp
    BY <1>1 DEF AddRepo, MayReindex, SerialInv, RunInv, Alone, Active, Stages, Saved, Asking,
                 InProgress, Quiet, Serial
  <2>6. \A s \in Runs \ {r} : pc[s] \notin Asking
    BY <1>1 DEF AddRepo, Quiet, Serial
  <2>3. OwnStep(r, "accepted")
    BY <1>1, <2>2 DEF OwnStep, AddRepo, TypeOK
  <2>4. RunInv(r)'
    BY <1>1, <2>1 DEF AddRepo, RunInv, TypeOK, Saved, InProgress, Stages
  <2>5. RepoInv(RepoOf[r])'
    BY <1>1, <2>1 DEF AddRepo, RepoInv, RunInv, ShownFresh, TypeOK, Saved, InProgress, Stages
  <2>. QED
    BY <2>2, <2>3, <2>4, <2>5, <2>6, OwnStepKeeps DEF PCs, Active, Stages, Asking, TypeOK
<1>2. ASSUME NEW r \in ApiRuns, ReindexCheck(r) PROVE SerialInv'
  <2>1. RepoOf[r] \in Repos /\ RunInv(r) /\ RepoInv(RepoOf[r])
    BY RunsAssumption DEF SerialInv
  <2>2. Alone(r) /\ serverUp
    BY <1>2 DEF ReindexCheck, MayReindex, SerialInv, RunInv, Alone, Active, Stages, Saved, Asking,
                 InProgress, Quiet, Serial
  <2>6. \A s \in Runs \ {r} : pc[s] \notin Asking
    BY <1>2 DEF ReindexCheck, Quiet, Serial
  <2>3. OwnStep(r, "checked")
    BY <1>2, <2>2 DEF OwnStep, ReindexCheck, TypeOK
  <2>4. RunInv(r)'
    BY <1>2, <2>1 DEF ReindexCheck, RunInv, TypeOK, Saved, InProgress, Stages, MayReindex, Statuses
  <2>5. RepoInv(RepoOf[r])'
    BY <1>2, <2>1 DEF ReindexCheck, RepoInv, RunInv, ShownFresh, TypeOK, Saved, InProgress, Stages
  <2>. QED
    BY <2>2, <2>3, <2>4, <2>5, <2>6, OwnStepKeeps DEF PCs, Active, Stages, Asking, TypeOK
<1>3. ASSUME NEW r \in ApiRuns, ReindexCommit(r) PROVE SerialInv'
  <2>1. RepoOf[r] \in Repos /\ RunInv(r) /\ RepoInv(RepoOf[r])
    BY RunsAssumption DEF SerialInv
  <2>2. Alone(r) /\ serverUp
    BY <1>3, BusyIsAlone DEF ReindexCommit, Active, Stages
  <2>6. \A s \in Runs \ {r} : pc[s] \notin Asking
    BY <1>3 DEF ReindexCommit, SerialInv, Asking
  <2>3. OwnStep(r, "accepted")
    BY <1>3, <2>2 DEF OwnStep, ReindexCommit, TypeOK
  <2>4. RunInv(r)'
    BY <1>3, <2>1 DEF ReindexCommit, RunInv, TypeOK, Saved, InProgress, Stages
  <2>5. RepoInv(RepoOf[r])'
    BY <1>3, <2>1 DEF ReindexCommit, RepoInv, RunInv, ShownFresh, TypeOK, Saved, InProgress, Stages
  <2>. QED
    BY <2>2, <2>3, <2>4, <2>5, <2>6, OwnStepKeeps DEF PCs, Active, Stages, Asking, TypeOK
<1>4. ASSUME NEW r \in Runs, Start(r) PROVE SerialInv'
  <2>1. RepoOf[r] \in Repos /\ RunInv(r) /\ RepoInv(RepoOf[r])
    BY RunsAssumption DEF SerialInv
  <2>2. Alone(r) /\ serverUp
    BY <1>4, BusyIsAlone DEF Start, Active, Stages
  <2>3. OwnStep(r, "clone")
    BY <1>4, <2>2 DEF OwnStep, Start, TypeOK
  <2>4. RunInv(r)'
    BY <1>4, <2>1 DEF Start, RunInv, TypeOK, Saved, InProgress, Stages
  <2>5. RepoInv(RepoOf[r])'
    BY <1>4, <2>1 DEF Start, RepoInv, RunInv, ShownFresh, TypeOK, Saved, InProgress, Stages
  <2>. QED
    BY <2>2, <2>3, <2>4, <2>5, OwnStepKeeps DEF PCs, Active, Stages, Asking, TypeOK
<1>5. ASSUME NEW r \in Runs, SaveHistory(r) PROVE SerialInv'
  <2>1. RepoOf[r] \in Repos /\ RunInv(r) /\ RepoInv(RepoOf[r])
    BY RunsAssumption DEF SerialInv
  <2>2. Alone(r) /\ serverUp
    BY <1>5, BusyIsAlone DEF SaveHistory, Active, Stages
  <2>3. OwnStep(r, "history")
    BY <1>5, <2>2 DEF OwnStep, SaveHistory, TypeOK
  <2>4. RunInv(r)'
    BY <1>5, <2>1 DEF SaveHistory, RunInv, TypeOK, Saved, InProgress, Stages
  <2>5. RepoInv(RepoOf[r])'
    BY <1>5, <2>1 DEF SaveHistory, RepoInv, RunInv, ShownFresh, TypeOK, Saved, InProgress, Stages
  <2>. QED
    BY <2>2, <2>3, <2>4, <2>5, OwnStepKeeps DEF PCs, Active, Stages, Asking, TypeOK
<1>6. ASSUME NEW r \in Runs, BeginParsing(r) PROVE SerialInv'
  <2>1. RepoOf[r] \in Repos /\ RunInv(r) /\ RepoInv(RepoOf[r])
    BY RunsAssumption DEF SerialInv
  <2>2. Alone(r) /\ serverUp
    BY <1>6, BusyIsAlone DEF BeginParsing, Active, Stages
  <2>3. OwnStep(r, "scan")
    BY <1>6, <2>2 DEF OwnStep, BeginParsing, TypeOK
  <2>4. RunInv(r)'
    BY <1>6, <2>1 DEF BeginParsing, RunInv, TypeOK, Saved, InProgress, Stages
  <2>5. RepoInv(RepoOf[r])'
    BY <1>6, <2>1 DEF BeginParsing, RepoInv, RunInv, ShownFresh, TypeOK, Saved, InProgress, Stages
  <2>. QED
    BY <2>2, <2>3, <2>4, <2>5, OwnStepKeeps DEF PCs, Active, Stages, Asking, TypeOK
<1>7. ASSUME NEW r \in Runs, ParseFiles(r) PROVE SerialInv'
  <2>1. RepoOf[r] \in Repos /\ RunInv(r) /\ RepoInv(RepoOf[r])
    BY RunsAssumption DEF SerialInv
  <2>2. Alone(r) /\ serverUp
    BY <1>7, BusyIsAlone DEF ParseFiles, Active, Stages
  <2>3. OwnStep(r, "files")
    BY <1>7, <2>2 DEF OwnStep, ParseFiles, TypeOK
  <2>4. RunInv(r)'
    BY <1>7, <2>1 DEF ParseFiles, RunInv, TypeOK, Saved, InProgress, Stages
  <2>5. RepoInv(RepoOf[r])'
    BY <1>7, <2>1 DEF ParseFiles, RepoInv, RunInv, ShownFresh, TypeOK, Saved, InProgress, Stages
  <2>. QED
    BY <2>2, <2>3, <2>4, <2>5, OwnStepKeeps DEF PCs, Active, Stages, Asking, TypeOK
<1>8. ASSUME NEW r \in Runs, ClearReferences(r) \/ ClearSymbols(r) \/ ClearFiles(r)
      PROVE SerialInv'
  <2>1. RepoOf[r] \in Repos /\ RunInv(r) /\ RepoInv(RepoOf[r])
    BY RunsAssumption DEF SerialInv
  <2> USE DEF ClearReferences, ClearSymbols, ClearFiles, ClearRows
  <2>2. Alone(r) /\ serverUp
    BY <1>8, BusyIsAlone DEF Active, Stages
  <2>6. PICK to \in {"symbols", "sources", "save"} : pc' = [pc EXCEPT ![r] = to]
    BY <1>8
  <2>3. OwnStep(r, to)
    BY <1>8, <2>2, <2>6 DEF OwnStep, TypeOK
  <2>7. HeldInv(r)'
    BY <1>8, <2>1 DEF RunInv, TypeOK
  <2>4. RunInv(r)'
    <3> HIDE DEF HeldInv
    <3>1. pc[r] \in {"files", "symbols", "sources"} /\ pc'[r] \in {"symbols", "sources", "save"}
      BY <1>8, <2>6 DEF TypeOK
    <3>. QED
      BY <1>8, <2>1, <2>7, <3>1 DEF RunInv, Saved
  <2>5. RepoInv(RepoOf[r])'
    BY <1>8, <2>1 DEF RepoInv, ShownFresh
  <2>. QED
    BY <2>2, <2>3, <2>4, <2>5, OwnStepKeeps DEF PCs, Active, Stages, Asking, TypeOK
<1>9. ASSUME NEW r \in Runs, SaveIndex(r) PROVE SerialInv'
  <2>1. RepoOf[r] \in Repos /\ RunInv(r) /\ RepoInv(RepoOf[r])
    BY RunsAssumption DEF SerialInv
  <2>2. Alone(r) /\ serverUp
    BY <1>9, BusyIsAlone DEF SaveIndex, Active, Stages
  <2>3. OwnStep(r, "link")
    BY <1>9, <2>2 DEF OwnStep, SaveIndex, Others, TypeOK
  <2>6. latest'[RepoOf[r]] = {r} /\ index'[RepoOf[r]] \subseteq {r} \X Tables
    <3>1. index[RepoOf[r]] \subseteq held[r]
      BY <1>9, <2>1, AllRows DEF SaveIndex, RunInv, TypeOK
    <3>2. Others(r) = {}
      BY <3>1 DEF Others
    <3>3. PICK tables \in Parses :
            index' = [index EXCEPT ![RepoOf[r]] = Others(r) \cup ({r} \X tables)]
      BY <1>9 DEF SaveIndex
    <3>4. tables \subseteq Tables
      BY RunsAssumption
    <3>5. index'[RepoOf[r]] = {r} \X tables
      BY <2>1, <3>2, <3>3 DEF TypeOK
    <3>. QED
      BY <1>9, <2>1, <3>4, <3>5 DEF SaveIndex, TypeOK
  <2>4. RunInv(r)'
    BY <1>9, <2>1, <2>6 DEF SaveIndex, RunInv, TypeOK, Saved
  <2>5. RepoInv(RepoOf[r])'
    BY <1>9, <2>1, <2>6 DEF SaveIndex, RepoInv, RunInv, TypeOK, InProgress
  <2>. QED
    BY <2>2, <2>3, <2>4, <2>5, OwnStepKeeps DEF PCs, Active, Stages, Asking, TypeOK
<1>10. ASSUME NEW r \in Runs, IndexConflict(r) PROVE SerialInv'
  <2>1. RepoOf[r] \in Repos /\ RunInv(r) /\ RepoInv(RepoOf[r])
    BY RunsAssumption DEF SerialInv
  <2>2. Alone(r) /\ serverUp
    BY <1>10, BusyIsAlone DEF IndexConflict, Active, Stages
  <2>3. OwnStep(r, "failing")
    BY <1>10, <2>2 DEF OwnStep, IndexConflict, TypeOK
  <2>4. RunInv(r)'
    BY <1>10, <2>1 DEF IndexConflict, RunInv, TypeOK, Saved, InProgress, Stages
  <2>5. RepoInv(RepoOf[r])'
    BY <1>10, <2>1 DEF IndexConflict, RepoInv, RunInv, ShownFresh, TypeOK, Saved, InProgress, Stages
  <2>. QED
    BY <2>2, <2>3, <2>4, <2>5, OwnStepKeeps DEF PCs, Active, Stages, Asking, TypeOK
<1>11. ASSUME NEW r \in Runs, ClearEvidence(r) PROVE SerialInv'
  <2>1. RepoOf[r] \in Repos /\ RunInv(r) /\ RepoInv(RepoOf[r])
    BY RunsAssumption DEF SerialInv
  <2>2. Alone(r) /\ serverUp
    BY <1>11, BusyIsAlone DEF ClearEvidence, Active, Stages
  <2>3. OwnStep(r, "evidence")
    BY <1>11, <2>2 DEF OwnStep, ClearEvidence, TypeOK
  <2>4. RunInv(r)'
    BY <1>11, <2>1 DEF ClearEvidence, RunInv, TypeOK, Saved, InProgress, Stages
  <2>5. RepoInv(RepoOf[r])'
    BY <1>11, <2>1 DEF ClearEvidence, RepoInv, RunInv, ShownFresh, TypeOK, Saved, InProgress, Stages
  <2>. QED
    BY <2>2, <2>3, <2>4, <2>5, OwnStepKeeps DEF PCs, Active, Stages, Asking, TypeOK
<1>12. ASSUME NEW r \in Runs, NothingToLink(r) PROVE SerialInv'
  <2>1. RepoOf[r] \in Repos /\ RunInv(r) /\ RepoInv(RepoOf[r])
    BY RunsAssumption DEF SerialInv
  <2>2. Alone(r) /\ serverUp
    BY <1>12, BusyIsAlone DEF NothingToLink, Active, Stages
  <2>3. OwnStep(r, "linked")
    BY <1>12, <2>2 DEF OwnStep, NothingToLink, TypeOK
  <2>4. RunInv(r)'
    BY <1>12, <2>1 DEF NothingToLink, RunInv, TypeOK, Saved, InProgress, Stages
  <2>5. RepoInv(RepoOf[r])'
    BY <1>12, <2>1 DEF NothingToLink, RepoInv, RunInv, ShownFresh, TypeOK, Saved, InProgress, Stages
  <2>. QED
    BY <2>2, <2>3, <2>4, <2>5, OwnStepKeeps DEF PCs, Active, Stages, Asking, TypeOK
<1>13. ASSUME NEW r \in Runs, LinkEvidence(r) PROVE SerialInv'
  <2>1. RepoOf[r] \in Repos /\ RunInv(r) /\ RepoInv(RepoOf[r])
    BY RunsAssumption DEF SerialInv
  <2>2. Alone(r) /\ serverUp
    BY <1>13, BusyIsAlone DEF LinkEvidence, Active, Stages
  <2>3. OwnStep(r, "relink")
    BY <1>13, <2>2 DEF OwnStep, LinkEvidence, AddEvidence, TypeOK
  <2>4. RunInv(r)'
    BY <1>13, <2>1 DEF LinkEvidence, AddEvidence, RunInv, TypeOK, Saved, InProgress, Stages
  <2>5. RepoInv(RepoOf[r])'
    BY <1>13, <2>1 DEF LinkEvidence, AddEvidence, RepoInv, RunInv, ShownFresh, TypeOK, Saved, InProgress, Stages
  <2>. QED
    BY <2>2, <2>3, <2>4, <2>5, OwnStepKeeps DEF PCs, Active, Stages, Asking, TypeOK
<1>14. ASSUME NEW r \in Runs, LinkLastEvidence(r) PROVE SerialInv'
  <2>1. RepoOf[r] \in Repos /\ RunInv(r) /\ RepoInv(RepoOf[r])
    BY RunsAssumption DEF SerialInv
  <2>2. Alone(r) /\ serverUp
    BY <1>14, BusyIsAlone DEF LinkLastEvidence, Active, Stages
  <2>6. evidence'[RepoOf[r]] = {r} \X Batches
    <3>1. evidence'[RepoOf[r]] = {<<r, "first">>, <<r, "last">>}
      BY <1>14, <2>1 DEF LinkLastEvidence, AddEvidence, RunInv, TypeOK
    <3>. QED
      BY <3>1 DEF Batches
  <2>3. OwnStep(r, "linked")
    BY <1>14, <2>2 DEF OwnStep, LinkLastEvidence, AddEvidence, TypeOK
  <2>4. RunInv(r)'
    BY <1>14, <2>1, <2>6 DEF LinkLastEvidence, AddEvidence, RunInv, TypeOK, Saved, InProgress, Stages
  <2>5. RepoInv(RepoOf[r])'
    BY <1>14, <2>1 DEF LinkLastEvidence, AddEvidence, RepoInv, RunInv, ShownFresh, TypeOK, Saved, InProgress, Stages
  <2>. QED
    BY <2>2, <2>3, <2>4, <2>5, OwnStepKeeps DEF PCs, Active, Stages, Asking, TypeOK
<1>15. ASSUME NEW r \in Runs, BeginSummaries(r) PROVE SerialInv'
  <2>1. RepoOf[r] \in Repos /\ RunInv(r) /\ RepoInv(RepoOf[r])
    BY RunsAssumption DEF SerialInv
  <2>2. Alone(r) /\ serverUp
    BY <1>15, BusyIsAlone DEF BeginSummaries, Active, Stages
  <2>3. OwnStep(r, "summary")
    BY <1>15, <2>2 DEF OwnStep, BeginSummaries, TypeOK
  <2>4. RunInv(r)'
    BY <1>15, <2>1 DEF BeginSummaries, RunInv, TypeOK, Saved, InProgress, Stages
  <2>5. RepoInv(RepoOf[r])'
    BY <1>15, <2>1 DEF BeginSummaries, RepoInv, RunInv, ShownFresh, TypeOK, Saved, InProgress, Stages
  <2>. QED
    BY <2>2, <2>3, <2>4, <2>5, OwnStepKeeps DEF PCs, Active, Stages, Asking, TypeOK
<1>16. ASSUME NEW r \in Runs, NothingToSummarize(r) PROVE SerialInv'
  <2>1. RepoOf[r] \in Repos /\ RunInv(r) /\ RepoInv(RepoOf[r])
    BY RunsAssumption DEF SerialInv
  <2>2. Alone(r) /\ serverUp
    BY <1>16, BusyIsAlone DEF NothingToSummarize, Active, Stages
  <2>3. OwnStep(r, "finish")
    BY <1>16, <2>2 DEF OwnStep, NothingToSummarize, TypeOK
  <2>4. RunInv(r)'
    BY <1>16, <2>1 DEF NothingToSummarize, RunInv, TypeOK, Saved, InProgress, Stages
  <2>5. RepoInv(RepoOf[r])'
    BY <1>16, <2>1 DEF NothingToSummarize, RepoInv, RunInv, ShownFresh, TypeOK, Saved, InProgress, Stages
  <2>. QED
    BY <2>2, <2>3, <2>4, <2>5, OwnStepKeeps DEF PCs, Active, Stages, Asking, TypeOK
<1>17. ASSUME NEW r \in Runs, EndSummaries(r) PROVE SerialInv'
  <2>1. RepoOf[r] \in Repos /\ RunInv(r) /\ RepoInv(RepoOf[r])
    BY RunsAssumption DEF SerialInv
  <2>2. Alone(r) /\ serverUp
    BY <1>17, BusyIsAlone DEF EndSummaries, Active, Stages
  <2>3. OwnStep(r, "finish")
    BY <1>17, <2>2 DEF OwnStep, EndSummaries, TypeOK
  <2>4. RunInv(r)'
    BY <1>17, <2>1 DEF EndSummaries, RunInv, TypeOK, Saved, InProgress, Stages
  <2>5. RepoInv(RepoOf[r])'
    BY <1>17, <2>1 DEF EndSummaries, RepoInv, RunInv, ShownFresh, TypeOK, Saved, InProgress, Stages
  <2>. QED
    BY <2>2, <2>3, <2>4, <2>5, OwnStepKeeps DEF PCs, Active, Stages, Asking, TypeOK
<1>18. ASSUME NEW r \in Runs, Finish(r) PROVE SerialInv'
  <2>1. RepoOf[r] \in Repos /\ RunInv(r) /\ RepoInv(RepoOf[r])
    BY RunsAssumption DEF SerialInv
  <2>2. Alone(r) /\ serverUp
    BY <1>18, BusyIsAlone DEF Finish, Active, Stages
  <2>3. OwnStep(r, "ended")
    BY <1>18, <2>2 DEF OwnStep, Finish, TypeOK
  <2>4. RunInv(r)'
    BY <1>18, <2>1 DEF Finish, RunInv, TypeOK, Saved, InProgress, Stages
  <2>5. RepoInv(RepoOf[r])'
    BY <1>18, <2>1 DEF Finish, RepoInv, RunInv, ShownFresh, TypeOK, Saved, InProgress, Stages
  <2>. QED
    BY <2>2, <2>3, <2>4, <2>5, OwnStepKeeps DEF PCs, Active, Stages, Asking, TypeOK
<1>19. ASSUME NEW r \in Runs, MarkFailed(r) PROVE SerialInv'
  <2>1. RepoOf[r] \in Repos /\ RunInv(r) /\ RepoInv(RepoOf[r])
    BY RunsAssumption DEF SerialInv
  <2>2. Alone(r) /\ serverUp
    BY <1>19, BusyIsAlone DEF MarkFailed, Active, Stages
  <2>3. OwnStep(r, "ended")
    BY <1>19, <2>2 DEF OwnStep, MarkFailed, TypeOK
  <2>4. RunInv(r)'
    BY <1>19, <2>1 DEF MarkFailed, RunInv, TypeOK, Saved, InProgress, Stages
  <2>5. RepoInv(RepoOf[r])'
    BY <1>19, <2>1 DEF MarkFailed, RepoInv, RunInv, ShownFresh, TypeOK, Saved, InProgress, Stages
  <2>. QED
    BY <2>2, <2>3, <2>4, <2>5, OwnStepKeeps DEF PCs, Active, Stages, Asking, TypeOK
<1>20. ASSUME NEW r \in Runs, ReportProgress(r) PROVE SerialInv'
  <2>1. RepoOf[r] \in Repos /\ RunInv(r) /\ RepoInv(RepoOf[r])
    BY RunsAssumption DEF SerialInv
  <2>2. Alone(r) /\ serverUp
    BY <1>20, BusyIsAlone DEF ReportProgress, Active, Stages
  <2>6. pc[r] \in PCs /\ pc[r] \notin Asking
    BY <1>20 DEF ReportProgress, TypeOK, Asking
  <2>3. OwnStep(r, pc[r])
    BY <1>20, <2>2 DEF OwnStep, ReportProgress, TypeOK
  <2>4. RunInv(r)'
    BY <1>20, <2>1 DEF ReportProgress, RunInv, TypeOK, Saved, InProgress, Stages
  <2>5. RepoInv(RepoOf[r])'
    BY <1>20, <2>1 DEF ReportProgress, RepoInv, RunInv, ShownFresh, TypeOK, Saved, InProgress, Stages
  <2>. QED
    BY <2>2, <2>3, <2>4, <2>5, <2>6, OwnStepKeeps DEF PCs, Active, Stages, Asking, TypeOK
<1>21. ASSUME NEW r \in Runs, TaskNotScheduled(r) PROVE SerialInv'
  <2>1. RepoOf[r] \in Repos /\ RunInv(r) /\ RepoInv(RepoOf[r])
    BY RunsAssumption DEF SerialInv
  <2>2. Alone(r) /\ serverUp
    BY <1>21, BusyIsAlone DEF TaskNotScheduled, Active, Stages
  <2>3. OwnStep(r, "lost")
    BY <1>21, <2>2 DEF OwnStep, TaskNotScheduled, TypeOK
  <2>4. RunInv(r)'
    BY <1>21, <2>1 DEF TaskNotScheduled, RunInv, TypeOK, Saved, InProgress, Stages
  <2>5. RepoInv(RepoOf[r])'
    BY <1>21, <2>1 DEF TaskNotScheduled, RepoInv, RunInv, ShownFresh, TypeOK, Saved, InProgress, Stages
  <2>. QED
    BY <2>2, <2>3, <2>4, <2>5, OwnStepKeeps DEF PCs, Active, Stages, Asking, TypeOK
<1>22. ASSUME NEW r \in Runs, StartFails(r) PROVE SerialInv'
  <2>1. RepoOf[r] \in Repos /\ RunInv(r) /\ RepoInv(RepoOf[r])
    BY RunsAssumption DEF SerialInv
  <2>2. Alone(r) /\ serverUp
    BY <1>22, BusyIsAlone DEF StartFails, Active, Stages
  <2>3. OwnStep(r, "failing")
    BY <1>22, <2>2 DEF OwnStep, StartFails, TypeOK
  <2>4. RunInv(r)'
    BY <1>22, <2>1 DEF StartFails, RunInv, TypeOK, Saved, InProgress, Stages
  <2>5. RepoInv(RepoOf[r])'
    BY <1>22, <2>1 DEF StartFails, RepoInv, RunInv, ShownFresh, TypeOK, Saved, InProgress, Stages
  <2>. QED
    BY <2>2, <2>3, <2>4, <2>5, OwnStepKeeps DEF PCs, Active, Stages, Asking, TypeOK
<1>23. ASSUME NEW r \in Runs, Fail(r) PROVE SerialInv'
  <2>1. RepoOf[r] \in Repos /\ RunInv(r) /\ RepoInv(RepoOf[r])
    BY RunsAssumption DEF SerialInv
  <2>2. Alone(r) /\ serverUp
    BY <1>23, BusyIsAlone DEF Fail, Active, Stages
  <2>3. OwnStep(r, "failing")
    BY <1>23, <2>2 DEF OwnStep, Fail, TypeOK
  <2>4. RunInv(r)'
    BY <1>23, <2>1 DEF Fail, RunInv, TypeOK, Saved, InProgress, Stages
  <2>5. RepoInv(RepoOf[r])'
    BY <1>23, <2>1 DEF Fail, RepoInv, RunInv, ShownFresh, TypeOK, Saved, InProgress, Stages
  <2>. QED
    BY <2>2, <2>3, <2>4, <2>5, OwnStepKeeps DEF PCs, Active, Stages, Asking, TypeOK
<1>24. ASSUME NEW r \in Runs, FailureNotRecorded(r) PROVE SerialInv'
  <2>1. RepoOf[r] \in Repos /\ RunInv(r) /\ RepoInv(RepoOf[r])
    BY RunsAssumption DEF SerialInv
  <2>2. Alone(r) /\ serverUp
    BY <1>24, BusyIsAlone DEF FailureNotRecorded, Active, Stages
  <2>3. OwnStep(r, "lost")
    BY <1>24, <2>2 DEF OwnStep, FailureNotRecorded, TypeOK
  <2>4. RunInv(r)'
    BY <1>24, <2>1 DEF FailureNotRecorded, RunInv, TypeOK, Saved, InProgress, Stages
  <2>5. RepoInv(RepoOf[r])'
    BY <1>24, <2>1 DEF FailureNotRecorded, RepoInv, RunInv, ShownFresh, TypeOK, Saved, InProgress, Stages
  <2>. QED
    BY <2>2, <2>3, <2>4, <2>5, OwnStepKeeps DEF PCs, Active, Stages, Asking, TypeOK
<1>25. CASE Crash
  <2>1. \A r \in Runs : pc'[r] \notin Active \cup {"checked"}
    BY <1>25 DEF Crash, Dead, TypeOK, Active, Stages
  <2>2. \A r \in Runs : pc'[r] \notin Asking /\ RunInv(r)'
    BY <2>1 DEF RunInv, Active, Stages, Saved, Asking
  <2>3. \A repo \in Repos : RepoInv(repo)'
    BY <1>25 DEF Crash, SerialInv, RepoInv, ShownFresh
  <2>. QED
    BY <2>1, <2>2, <2>3 DEF SerialInv, OneRunPerRepo
<1>26. CASE Startup
  <2>1. \A r \in Runs : pc'[r] \notin Active \cup {"checked"}
    BY <1>26 DEF Startup, SerialInv, TypeOK, Active, Stages
  <2>2. \A r \in Runs : pc'[r] \notin Asking /\ RunInv(r)'
    BY <2>1 DEF RunInv, Active, Stages, Saved, Asking
  <2>3. \A repo \in Repos : RepoInv(repo)'
    BY <1>26 DEF Startup, SerialInv, RepoInv, ShownFresh, TypeOK, InProgress
  <2>. QED
    BY <2>1, <2>2, <2>3 DEF SerialInv, OneRunPerRepo
<1>27. CASE UNCHANGED vars
  BY <1>27 DEF vars, SerialInv, OneRunPerRepo, RunInv, RepoInv, ShownFresh
<1>. QED
  BY <1>1, <1>2, <1>3, <1>4, <1>5, <1>6, <1>7, <1>8, <1>9, <1>10, <1>11, <1>12, <1>13, <1>14, <1>15, <1>16, <1>17, <1>18, <1>19, <1>20, <1>21, <1>22, <1>23, <1>24, <1>25, <1>26, <1>27 DEF Next, Request, Advance, Trouble, Serial

\* The strengthened invariant of one client's indexings: the status is where the
\* run is, and the stored rows are those of the run up to its last commit.
THEOREM SerialInvariant == ASSUME Serial PROVE Spec => []SerialInv
BY SerialInit, SerialNext, TypeCorrect, PTL DEF Spec
-----------------------------------------------------------------------------
\* One client at a time never gets two runs to work on one repository: the
\* check of reindex_repo is enough for it.
THEOREM OneRunAtATime == ASSUME Serial PROVE Spec => []OneRunPerRepo
<1>1. SerialInv => OneRunPerRepo
  BY DEF SerialInv
<1>. QED
  BY <1>1, SerialInvariant, PTL

\* No run works behind a card that shows done or failed.
THEOREM RunsAreShown == ASSUME Serial PROVE Spec => []ActiveIsShown
<1>1. SerialInv => ActiveIsShown
  BY DEF SerialInv, RunInv, ActiveIsShown, Active, Stages, Saved, InProgress
<1>. QED
  BY <1>1, SerialInvariant, PTL

\* The progress columns are null whenever the status is done or failed.
THEOREM ProgressIsCleared == ASSUME Serial PROVE Spec => []ProgressOnlyInProgress
<1>1. SerialInv => ProgressOnlyInProgress
  BY DEF SerialInv, RepoInv, ProgressOnlyInProgress
<1>. QED
  BY <1>1, SerialInvariant, PTL

\* The rows of the index are those of the parse that was saved last: what a save
\* has read is all there is, as nobody saves in between.
THEOREM IndexStaysWhole == ASSUME Serial PROVE Spec => []IndexIsWhole
<1>1. SerialInv => IndexIsWhole
  BY DEF SerialInv, RepoInv, IndexIsWhole
<1>. QED
  BY <1>1, SerialInvariant, PTL

\* A repository shown as done has one run's index and that run's evidence,
\* all of it, whatever failures, crashes and restarts came before.
THEOREM DoneShowsOneRun == ASSUME Serial PROVE Spec => []DoneIsFresh
<1>1. SerialInv => DoneIsFresh
  BY DEF SerialInv, RepoInv, ShownFresh, DoneIsFresh
<1>. QED
  BY <1>1, SerialInvariant, PTL

\* The status of a repository moves along collecting, parsing and done, may
\* fail on the way, and starts again from done or failed only.
THEOREM StatusMovesInOrder == ASSUME Serial PROVE Spec => Lifecycle
<1> DEFINE Move(old, new) ==
      \/ old \notin InProgress /\ new = "collecting"
      \/ old = "collecting" /\ new = "parsing"
      \/ old = "parsing" /\ new = "done"
      \/ old \in InProgress /\ new = "failed"
<1>1. ASSUME TypeOK, SerialInv, [Next]_vars, NEW repo \in Repos, status'[repo] # status[repo]
      PROVE  Move(status[repo], status'[repo])
  <2> USE <1>1
  <2> Runs = ApiRuns
    BY DEF Serial, Runs
  <2>1. CASE \E r \in Runs : AddRepo(r) \/ ReindexCommit(r)
    <3>1. PICK r \in Runs : AddRepo(r) \/ ReindexCommit(r)
      BY <2>1
    <3>2. repo = RepoOf[r] /\ status'[repo] = "collecting"
      BY <3>1 DEF AddRepo, ReindexCommit, SetStatus, TypeOK
    <3>3. status[repo] \notin InProgress
      BY <3>1, <3>2 DEF AddRepo, ReindexCommit, Goto, SerialInv, RunInv, InProgress
    <3>. QED
      BY <3>2, <3>3
  <2>2. CASE \E r \in Runs : BeginParsing(r)
    BY <2>2 DEF BeginParsing, Goto, SetStatus, TypeOK, SerialInv, RunInv
  <2>3. CASE \E r \in Runs : BeginSummaries(r) \/ Finish(r)
    <3>1. PICK r \in Runs : BeginSummaries(r) \/ Finish(r)
      BY <2>3
    <3>2. repo = RepoOf[r] /\ status'[repo] \in {"parsing", "done"}
      BY <3>1 DEF BeginSummaries, Finish, SetStatus, TypeOK
    <3>3. status[repo] = "parsing"
      BY <3>1, <3>2 DEF BeginSummaries, Finish, Goto, SerialInv, RunInv, Saved
    <3>. QED
      BY <1>1, <3>2, <3>3
  <2>4. CASE \E r \in Runs : MarkFailed(r)
    BY <2>4 DEF MarkFailed, Goto, SetStatus, TypeOK, SerialInv, RunInv
  <2>5. CASE Startup
    BY <2>5 DEF Startup, TypeOK
  <2>6. CASE UNCHANGED status
    BY <2>6
  <2>7. ASSUME NEW r \in Runs, Request(r)
        PROVE  AddRepo(r) \/ ReindexCommit(r) \/ UNCHANGED status
    BY <2>7 DEF Request, ReindexCheck
  <2>8. ASSUME NEW r \in Runs, Advance(r) \/ ReportProgress(r) \/ Trouble(r)
        PROVE  \/ BeginParsing(r) \/ BeginSummaries(r) \/ Finish(r) \/ MarkFailed(r)
               \/ UNCHANGED status
    BY <2>8, Zenon DEF Advance, Start, SaveHistory, ParseFiles, ClearReferences, ClearSymbols,
                ClearFiles, ClearRows, SaveIndex, IndexConflict, ClearEvidence, NothingToLink, LinkEvidence,
                LinkLastEvidence, AddEvidence, NothingToSummarize, EndSummaries,
                ReportProgress, Trouble, TaskNotScheduled, StartFails, Fail,
                FailureNotRecorded
  <2>9. CASE Crash \/ UNCHANGED vars
    BY <2>6, <2>9 DEF Crash, vars
  <2>. QED
    <3>1. CASE \E r \in ApiRuns : Request(r)
      BY <2>1, <2>6, <2>7, <3>1
    <3>2. CASE \E r \in Runs : Advance(r) \/ ReportProgress(r) \/ Trouble(r)
      BY <2>2, <2>3, <2>4, <2>6, <2>8, <3>2
    <3>. QED
      BY <2>5, <2>9, <3>1, <3>2 DEF Next, Serial
<1>2. TypeOK /\ SerialInv /\ [Next]_vars =>
        [\A repo \in Repos : status'[repo] # status[repo] =>
            Move(status[repo], status'[repo])]_vars
  BY <1>1
<1>. QED
  BY <1>2, TypeCorrect, SerialInvariant, PTL DEF Spec, Lifecycle

=============================================================================
