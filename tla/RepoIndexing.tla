---------------------------- MODULE RepoIndexing ----------------------------
(***************************************************************************)
(* The life of a repository's index: the API requests that ask for an      *)
(* indexing (src/api/repos.py), the background task that carries it out    *)
(* (src/indexing/runner.py and the stages it calls), the demo seed script, *)
(* which runs the same task in a process of its own (src/demo.py), and the *)
(* server's crash and restart (src/main.py, reset_stuck_indexing).         *)
(*                                                                         *)
(* A run is one request together with the background task it schedules, or *)
(* one execution of the seed script.  Every step below is one database     *)
(* transaction, or the point at which a session reads what it later acts   *)
(* on: the rest of a run is local to it.  SQLAlchemy expires a row's       *)
(* attributes on commit and writes the assigned columns alone, so a stage  *)
(* overwrites whatever other sessions wrote in the meantime; where a stage *)
(* reads the row again just before it assigns, both are one step here.     *)
(***************************************************************************)
EXTENDS Naturals, FiniteSets

CONSTANTS
    Repos,      \* the repositories of one organization and of the demo organization
    ApiRuns,    \* runs asked for through POST /repos and POST /repos/{id}/reindex
    SeedRuns,   \* runs of python -m src.demo
    Clients,    \* dashboard users; each waits for one answer before asking again
    RepoOf,     \* the repository a run is about
    ClientOf,   \* who sends an API run's request
    RepoLimit,  \* Organization.repo_limit, the plan's limit
    Parses      \* the tables a parse may have rows for

Runs == ApiRuns \cup SeedRuns

\* symbol_references, symbols and source_files.
Tables == {"references", "symbols", "files"}

\* The demo organization's: its sessions are read-only (writable_user), so no
\* request is about one of them.
DemoRepos == {RepoOf[r] : r \in SeedRuns}

ASSUME RunsAssumption ==
    /\ ApiRuns \cap SeedRuns = {}
    /\ RepoOf \in [Runs -> Repos]
    /\ \A r \in ApiRuns, d \in SeedRuns : RepoOf[r] # RepoOf[d]
    /\ ClientOf \in [ApiRuns -> Clients]
    /\ RepoLimit \in Nat
    /\ \A tables \in Parses :
         tables \subseteq Tables /\ (tables # {} => "files" \in tables)

VARIABLES
    serverUp,   \* the API process is running
    status,     \* repos.indexing_status; "absent" before the row exists
    progress,   \* repos.progress_current and progress_total are not null
    index,      \* whose rows are stored in each table of the index
    latest,     \* history: the run that saved the repository's index last
    evidence,   \* whose symbol_evidence rows are stored: first batches, last batches
    held,       \* the index rows a run's open transaction has read to delete them
    pc          \* where each run is

vars == <<serverUp, status, progress, index, latest, evidence, held, pc>>
-----------------------------------------------------------------------------
InProgress == {"collecting", "parsing"}
Statuses == InProgress \cup {"absent", "done", "failed"}

\* The stages of run_indexing, in order, each named for what comes next.
Stages == {"clone", "history", "scan", "files", "symbols", "sources",
           "save", "link", "evidence", "relink", "linked", "summary", "finish"}

\* A request that has been checked or committed and not yet answered.
Asking == {"checked", "accepted"}

\* A run that has marked its repository as in progress and will go on.
Active == Stages \cup {"accepted", "failing"}

\* "lost": the run is gone and its repository has not been told.
PCs == Active \cup {"idle", "checked", "lost", "ended"}

Batches == {"first", "last"}

TypeOK ==
    /\ serverUp \in BOOLEAN
    /\ status \in [Repos -> Statuses]
    /\ progress \in [Repos -> BOOLEAN]
    /\ index \in [Repos -> SUBSET (Runs \X Tables)]
    /\ latest \in [Repos -> SUBSET Runs]
    /\ evidence \in [Repos -> SUBSET (Runs \X Batches)]
    /\ held \in [Runs -> SUBSET (Runs \X Tables)]
    /\ pc \in [Runs -> PCs]

Init ==
    /\ serverUp = FALSE
    /\ status = [repo \in Repos |-> "absent"]
    /\ progress = [repo \in Repos |-> FALSE]
    /\ index = [repo \in Repos |-> {}]
    /\ latest = [repo \in Repos |-> {}]
    /\ evidence = [repo \in Repos |-> {}]
    /\ held = [r \in Runs |-> {}]
    /\ pc = [r \in Runs |-> "idle"]

Goto(r, from, to) == pc[r] = from /\ pc' = [pc EXCEPT ![r] = to]

SetStatus(r, s) == status' = [status EXCEPT ![RepoOf[r]] = s]
SetProgress(r, p) == progress' = [progress EXCEPT ![RepoOf[r]] = p]

Stored == <<index, latest, evidence>>   \* what an indexing leaves behind

Rows(repo, table) == index[repo] \cap (Runs \X {table})
HasSymbols(repo) == Rows(repo, "symbols") # {}
-----------------------------------------------------------------------------
(* Requests.  A refused request (404, 403, 409) changes nothing. *)

\* The client of r has no other request under way.
Quiet(r) ==
    \A s \in ApiRuns : (s # r /\ ClientOf[s] = ClientOf[r]) => pc[s] \notin Asking

\* POST /repos: the organization row is locked from the limit check to the
\* commit, so the handler is one step.
AddRepo(r) ==
    /\ serverUp /\ Quiet(r)
    /\ status[RepoOf[r]] = "absent"
    /\ Cardinality({repo \in Repos \ DemoRepos : status[repo] # "absent"}) < RepoLimit
    /\ Goto(r, "idle", "accepted")
    /\ SetStatus(r, "collecting")
    /\ UNCHANGED <<serverUp, progress, Stored, held>>

\* Mutant of MayReindex: the 409 is forgotten.
MayAlwaysReindex(r) == status[RepoOf[r]] # "absent"

MayReindex(r) == status[RepoOf[r]] \notin InProgress \cup {"absent"}

\* POST /repos/{id}/reindex reads the row without a lock ...
ReindexCheck(r) ==
    /\ serverUp /\ Quiet(r)
    /\ MayReindex(r)
    /\ Goto(r, "idle", "checked")
    /\ UNCHANGED <<serverUp, status, progress, Stored, held>>

\* ... and commits later.  A progress column that was null when it was read is
\* not part of the UPDATE, so a value written since then may survive.
ReindexCommit(r) ==
    /\ Goto(r, "checked", "accepted")
    /\ SetStatus(r, "collecting")
    /\ \E p \in {FALSE, progress[RepoOf[r]]} : SetProgress(r, p)
    /\ UNCHANGED <<serverUp, Stored, held>>

\* The seed script registers or re-registers its repository: no check of the
\* status, no limit.
Seed(r) ==
    /\ Goto(r, "idle", "accepted")
    /\ SetStatus(r, "collecting")
    /\ SetProgress(r, FALSE)
    /\ UNCHANGED <<serverUp, Stored, held>>

\* Reading the row back after the commit fails: the request answers 500 (the
\* script stops) and no task is scheduled.
TaskNotScheduled(r) ==
    /\ Goto(r, "accepted", "lost")
    /\ UNCHANGED <<serverUp, status, progress, Stored, held>>
-----------------------------------------------------------------------------
(* run_indexing, one transaction at a time. *)

Start(r) ==
    /\ Goto(r, "accepted", "clone")
    /\ UNCHANGED <<serverUp, status, progress, Stored, held>>

\* Mutant of StartFails: the task returns without a word.
StartFailsSilently(r) ==
    /\ Goto(r, "accepted", "ended")
    /\ UNCHANGED <<serverUp, status, progress, Stored, held>>

\* db.get raises: the failure is recorded like any other.
StartFails(r) ==
    /\ Goto(r, "accepted", "failing")
    /\ UNCHANGED <<serverUp, status, progress, Stored, held>>

SaveHistory(r) ==
    /\ Goto(r, "clone", "history")
    /\ SetProgress(r, TRUE)
    /\ UNCHANGED <<serverUp, status, Stored, held>>

\* Mutant of BeginParsing: the status is not moved on.
BeginParsingUnmarked(r) ==
    /\ Goto(r, "history", "scan")
    /\ UNCHANGED <<serverUp, status, progress, Stored, held>>

BeginParsing(r) ==
    /\ Goto(r, "history", "scan")
    /\ SetStatus(r, "parsing")
    /\ UNCHANGED <<serverUp, progress, Stored, held>>

ParseFiles(r) ==
    /\ Goto(r, "scan", "files")
    /\ SetProgress(r, TRUE)
    /\ UNCHANGED <<serverUp, status, Stored, held>>

\* Mutant of ClearRows: the deletion is committed at once.
ClearRowsCommitted(r, table, from, to) ==
    /\ Goto(r, from, to)
    /\ index' = [index EXCEPT ![RepoOf[r]] = @ \ Rows(RepoOf[r], table)]
    /\ UNCHANGED <<serverUp, status, progress, latest, evidence, held>>

\* _clear_previous reads one table after the other, and under READ COMMITTED
\* each SELECT sees what others have committed by then.  The session does not
\* flush before the last one: what was read is deleted, and nothing else.
ClearRows(r, table, from, to) ==
    /\ Goto(r, from, to)
    /\ held' = [held EXCEPT ![r] = @ \cup Rows(RepoOf[r], table)]
    /\ UNCHANGED <<serverUp, status, progress, Stored>>

\* Mutant of ClearReferences: the references are forgotten.
ClearNoReferences(r) ==
    /\ Goto(r, "files", "symbols")
    /\ UNCHANGED <<serverUp, status, progress, Stored, held>>

\* Mutant of ClearSymbols: the symbols are forgotten.
ClearNoSymbols(r) ==
    /\ Goto(r, "symbols", "sources")
    /\ UNCHANGED <<serverUp, status, progress, Stored, held>>

ClearReferences(r) == ClearRows(r, "references", "files", "symbols")
ClearSymbols(r) == ClearRows(r, "symbols", "symbols", "sources")
ClearFiles(r) == ClearRows(r, "files", "sources", "save")

\* What another run committed after this run had read the table: it stays.  A
\* row that another run has deleted by now is deleted by nobody, with a warning.
Others(r) == index[RepoOf[r]] \ held[r]

\* One commit: the old rows go, and the new ones are there.
SaveIndex(r) ==
    /\ Goto(r, "save", "link")
    /\ \E tables \in Parses :
         index' = [index EXCEPT ![RepoOf[r]] = Others(r) \cup ({r} \X tables)]
    /\ latest' = [latest EXCEPT ![RepoOf[r]] = {r}]
    /\ SetProgress(r, TRUE)
    /\ held' = [held EXCEPT ![r] = {}]
    /\ UNCHANGED <<serverUp, status, evidence>>

\* Of files (repo_id, path) is unique and of symbols (repo_id, ident), of
\* references nothing: the rows of two parses clash if they have a path or an
\* ident in common, and stand side by side if not.
IndexConflict(r) ==
    /\ \E row \in Others(r) : row[2] # "references"
    /\ Goto(r, "save", "failing")
    /\ held' = [held EXCEPT ![r] = {}]
    /\ UNCHANGED <<serverUp, status, progress, Stored>>

\* Mutant of ClearEvidence: the evidence of earlier runs stays.
ClearNoEvidence(r) ==
    /\ HasSymbols(RepoOf[r])
    /\ Goto(r, "link", "evidence")
    /\ SetProgress(r, TRUE)
    /\ UNCHANGED <<serverUp, status, Stored, held>>

\* All evidence of the repository goes, in a transaction of its own.
ClearEvidence(r) ==
    /\ HasSymbols(RepoOf[r])
    /\ Goto(r, "link", "evidence")
    /\ evidence' = [evidence EXCEPT ![RepoOf[r]] = {}]
    /\ SetProgress(r, TRUE)
    /\ UNCHANGED <<serverUp, status, index, latest, held>>

\* Mutant of NothingToLink: the linking is left to the next indexing.
NothingLinkedYet(r) ==
    /\ Goto(r, "link", "linked")
    /\ UNCHANGED <<serverUp, status, progress, Stored, held>>

\* Without a symbol link_symbol_evidence does nothing, and neither does
\* generate_repo_summaries below.
NothingToLink(r) ==
    /\ ~HasSymbols(RepoOf[r])
    /\ Goto(r, "link", "linked")
    /\ UNCHANGED <<serverUp, status, progress, Stored, held>>

AddEvidence(r, batch) ==
    /\ evidence' = [evidence EXCEPT ![RepoOf[r]] = @ \cup {<<r, batch>>}]
    /\ SetProgress(r, TRUE)
    /\ UNCHANGED <<serverUp, status, index, latest, held>>

LinkEvidence(r) == Goto(r, "evidence", "relink") /\ AddEvidence(r, "first")
LinkLastEvidence(r) == Goto(r, "relink", "linked") /\ AddEvidence(r, "last")

\* Mutant of BeginSummaries: the index is declared done before its summaries.
BeginSummariesDone(r) ==
    /\ HasSymbols(RepoOf[r])
    /\ Goto(r, "linked", "summary")
    /\ SetStatus(r, "done")
    /\ SetProgress(r, TRUE)
    /\ UNCHANGED <<serverUp, Stored, held>>

BeginSummaries(r) ==
    /\ HasSymbols(RepoOf[r])
    /\ Goto(r, "linked", "summary")
    /\ SetStatus(r, "parsing")
    /\ SetProgress(r, TRUE)
    /\ UNCHANGED <<serverUp, Stored, held>>

NothingToSummarize(r) ==
    /\ ~HasSymbols(RepoOf[r])
    /\ Goto(r, "linked", "finish")
    /\ UNCHANGED <<serverUp, status, progress, Stored, held>>

EndSummaries(r) ==
    /\ Goto(r, "summary", "finish")
    /\ SetProgress(r, TRUE)
    /\ UNCHANGED <<serverUp, status, Stored, held>>

Finish(r) ==
    /\ Goto(r, "finish", "ended")
    /\ SetStatus(r, "done")
    /\ SetProgress(r, FALSE)
    /\ UNCHANGED <<serverUp, Stored, held>>

\* The commits every 50 commits, 1 PR, 50 files, 20 symbols or 10 summaries.
ReportProgress(r) ==
    /\ pc[r] \in {"history", "files", "evidence", "relink", "summary"}
    /\ SetProgress(r, TRUE)
    /\ UNCHANGED <<serverUp, status, Stored, held, pc>>

\* Any stage may raise: token, clone, GitHub, file system or database.
Fail(r) ==
    /\ pc[r] \in Stages
    /\ pc' = [pc EXCEPT ![r] = "failing"]
    /\ held' = [held EXCEPT ![r] = {}]
    /\ UNCHANGED <<serverUp, status, progress, Stored>>

\* Mutant of MarkFailed: the progress columns keep their value.
MarkFailedWithProgress(r) ==
    /\ Goto(r, "failing", "ended")
    /\ SetStatus(r, "failed")
    /\ UNCHANGED <<serverUp, progress, Stored, held>>

\* Mutant of MarkFailed: the session is not rolled back, so the commit raises.
MarkFailedNever(r) ==
    /\ Goto(r, "failing", "ended")
    /\ UNCHANGED <<serverUp, status, progress, Stored, held>>

MarkFailed(r) ==
    /\ Goto(r, "failing", "ended")
    /\ SetStatus(r, "failed")
    /\ SetProgress(r, FALSE)
    /\ UNCHANGED <<serverUp, Stored, held>>

\* _mark_failed raises in turn, and that is only logged.
FailureNotRecorded(r) ==
    /\ Goto(r, "failing", "lost")
    /\ UNCHANGED <<serverUp, status, progress, Stored, held>>
-----------------------------------------------------------------------------
(* Processes. *)

\* Mutant of Dead: a killed run is given a state of its own.
DeadKilled(r) == IF pc[r] \in Active THEN "killed" ELSE pc[r]

\* Where the server's death leaves a run.
Dead(r) == CASE pc[r] \in Active -> "lost"
             [] pc[r] = "checked" -> "ended"
             [] OTHER -> pc[r]

\* The seed script is interrupted.
SeedKilled(r) ==
    /\ pc[r] \in Active
    /\ pc' = [pc EXCEPT ![r] = Dead(r)]
    /\ held' = [held EXCEPT ![r] = {}]
    /\ UNCHANGED <<serverUp, status, progress, Stored>>

\* Requests and background tasks live in the server's process.
Crash ==
    /\ serverUp
    /\ serverUp' = FALSE
    /\ pc' = [r \in Runs |-> IF r \in ApiRuns THEN Dead(r) ELSE pc[r]]
    /\ held' = [r \in Runs |-> IF r \in ApiRuns THEN {} ELSE held[r]]
    /\ UNCHANGED <<status, progress, Stored>>

\* lifespan: reset_stuck_indexing comes before the first request.  A lost run
\* has nothing left to be told.
Startup ==
    /\ ~serverUp
    /\ serverUp' = TRUE
    /\ status' = [repo \in Repos |->
                    IF status[repo] \in InProgress THEN "failed" ELSE status[repo]]
    /\ progress' = [repo \in Repos |->
                      IF status[repo] \in InProgress THEN FALSE ELSE progress[repo]]
    /\ pc' = [r \in Runs |-> IF pc[r] = "lost" THEN "ended" ELSE pc[r]]
    /\ UNCHANGED <<Stored, held>>
-----------------------------------------------------------------------------
\* A request: answered 201, 202 or 500.
Request(r) == AddRepo(r) \/ ReindexCheck(r) \/ ReindexCommit(r)

\* What a scheduled task does next if nothing goes wrong.
Advance(r) ==
    \/ Start(r) \/ SaveHistory(r) \/ BeginParsing(r) \/ ParseFiles(r)
    \/ ClearReferences(r) \/ ClearSymbols(r) \/ ClearFiles(r)
    \/ SaveIndex(r) \/ IndexConflict(r)
    \/ ClearEvidence(r) \/ NothingToLink(r)
    \/ LinkEvidence(r) \/ LinkLastEvidence(r)
    \/ BeginSummaries(r) \/ NothingToSummarize(r) \/ EndSummaries(r)
    \/ Finish(r) \/ MarkFailed(r)

Trouble(r) == TaskNotScheduled(r) \/ StartFails(r) \/ Fail(r) \/ FailureNotRecorded(r)

Next ==
    \/ \E r \in ApiRuns : Request(r)
    \/ \E r \in SeedRuns : Seed(r) \/ SeedKilled(r)
    \/ \E r \in Runs : Advance(r) \/ ReportProgress(r) \/ Trouble(r)
    \/ Crash
    \/ Startup

\* A scheduled task is a thread that keeps running while its process lives:
\* the calls it makes have timeouts.  The container is restarted after a crash
\* (restart: unless-stopped).
Fairness == (\A r \in Runs : WF_vars(Advance(r))) /\ WF_vars(Startup)

Spec == Init /\ [][Next]_vars
FairSpec == Spec /\ Fairness
-----------------------------------------------------------------------------
(* What holds with any number of clients and seed scripts. *)

\* A repository shown as in progress has a run that will settle it, or had one
\* whose end could not be written: nothing is left "collecting" by accident
\* (runner.py's comments at _mark_failed and at db.get).
InProgressIsOwned ==
    \A repo \in Repos : status[repo] \in InProgress =>
        \E r \in Runs : RepoOf[r] = repo /\ pc[r] \in Active \cup {"lost"}

\* An index is never lost on the way: its rows go only in the commit that stores
\* another parse of the repository, which takes away what it has read and no
\* more, so that a run that fails or dies leaves the previous index on screen
\* (parse_repo, _clear_previous).
IndexOnlyReplaced ==
    [][\A repo \in Repos : index'[repo] # index[repo] =>
         \E r \in Runs : /\ RepoOf[r] = repo
                         /\ pc[r] = "save" /\ pc'[r] = "link" /\ latest'[repo] = {r}
                         /\ index[repo] \ index'[repo] \subseteq held[r]
                         /\ index'[repo] \ index[repo] \subseteq {r} \X Tables]_vars

\* An indexing comes to an end: the card does not stay at "collecting" unless
\* a live server has lost the run and cannot know.
IndexingSettles ==
    \A repo \in Repos :
        status[repo] \in InProgress ~>
            \/ status[repo] \notin InProgress
            \/ serverUp /\ \E r \in Runs : RepoOf[r] = repo /\ pc[r] = "lost"
-----------------------------------------------------------------------------
(* What holds when one client asks at a time and no seed script runs. *)

Serial == SeedRuns = {} /\ \A r, s \in ApiRuns : ClientOf[r] = ClientOf[s]

\* A repository is indexed by one run at a time: a second request is answered
\* 409 until the first has settled (reindex_repo).
OneRunPerRepo ==
    \A r, s \in Runs :
        (pc[r] \in Active /\ pc[s] \in Active /\ RepoOf[r] = RepoOf[s]) => r = s

\* No run works behind a card that shows done or failed: the client would be
\* offered a reindex button for it.
ActiveIsShown ==
    \A r \in Runs : pc[r] \in Active => status[RepoOf[r]] \in InProgress

\* Progress is null outside collecting and parsing (db/models.py, Repo).
ProgressOnlyInProgress ==
    \A repo \in Repos : progress[repo] => status[repo] \in InProgress

\* Files, symbols and references are always those of the parse that was saved
\* last, also while another run is at work and after one that failed.
IndexIsWhole ==
    \A repo \in Repos : index[repo] \subseteq latest[repo] \X Tables

\* A repository shown as done has the index of one run and exactly that run's
\* evidence, whatever failed or was cut short before it.
DoneIsFresh ==
    \A repo \in Repos : status[repo] = "done" =>
        \E r \in Runs :
            /\ latest[repo] = {r} /\ index[repo] \subseteq {r} \X Tables
            /\ HasSymbols(repo) => evidence[repo] = {r} \X Batches

\* The status moves as its comment says: collecting -> parsing -> done | failed.
Lifecycle ==
    [][\A repo \in Repos : status'[repo] # status[repo] =>
         \/ status[repo] \notin InProgress /\ status'[repo] = "collecting"
         \/ status[repo] = "collecting" /\ status'[repo] = "parsing"
         \/ status[repo] = "parsing" /\ status'[repo] = "done"
         \/ status[repo] \in InProgress /\ status'[repo] = "failed"]_vars
=============================================================================
