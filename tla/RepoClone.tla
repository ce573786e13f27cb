------------------------------ MODULE RepoClone ------------------------------
(***************************************************************************)
(* RepoIndexing together with the clone it works on: the directory of a    *)
(* repository (_repo_clone_dir in src/indexing/history.py), which its runs *)
(* share, and what each stage reads there (src/github/git_history.py).     *)
(*                                                                         *)
(* The default branch on GitHub is at revisions 1, 2, .. as it is pushed   *)
(* to.  The clone is missing, partial (there is a .git, and HEAD is of no  *)
(* use) or has HEAD and the work tree at a revision.  A fetch with reset   *)
(* and clean takes effect at once, and so does rmtree; a clone command     *)
(* has a beginning and an end.  The stages of RepoIndexing are joined with *)
(* what they read.                                                         *)
(***************************************************************************)
EXTENDS RepoIndexing

CONSTANT MaxHead    \* the bound on pushes

ASSUME MaxHeadAssumption == MaxHead \in Nat \ {0}

VARIABLES
    head,   \* the default branch's revision on GitHub
    clone,  \* the directory of each repository
    git,    \* where each run is in ensure_clone
    read,   \* what each run has read of the directory: log, files, lines
    since,  \* head when the run was asked for
    met     \* another run of the repository was active at the same time

cloneVars == <<head, clone, git, read, since, met>>
allVars == <<vars, cloneVars>>
-----------------------------------------------------------------------------
Revisions == 1..MaxHead
Missing == 0
Partial == MaxHead + 1
Contents == Revisions \cup {Missing, Partial}

Reads == [log : SUBSET Contents, files : SUBSET Contents, lines : SUBSET Contents]

CloneTypeOK ==
    /\ TypeOK
    /\ head \in Revisions
    /\ clone \in [Repos -> Contents]
    /\ git \in [Runs -> {"find", "fetch", "cloning", "ready"}]
    /\ read \in [Runs -> Reads]
    /\ since \in [Runs -> Revisions]
    /\ met \in [Runs -> BOOLEAN]

CloneInit ==
    /\ Init
    /\ head = 1
    /\ clone = [repo \in Repos |-> Missing]
    /\ git = [r \in Runs |-> "find"]
    /\ read = [r \in Runs |-> [log |-> {}, files |-> {}, lines |-> {}]]
    /\ since = [r \in Runs |-> 1]
    /\ met = [r \in Runs |-> FALSE]

Dir(r) == clone[RepoOf[r]]
SetDir(r, c) == clone' = [clone EXCEPT ![RepoOf[r]] = c]

\* A git command of ensure_clone, while the run is at its first stage.
Git(r, from, to) ==
    /\ pc[r] = "clone" /\ git[r] = from
    /\ git' = [git EXCEPT ![r] = to]
    /\ UNCHANGED <<vars, head, read, since, met>>

Push ==
    /\ head < MaxHead
    /\ head' = head + 1
    /\ UNCHANGED <<vars, clone, git, read, since, met>>
-----------------------------------------------------------------------------
(* ensure_clone *)

\* Mutant of Refresh: the work tree is not reset to what was fetched.
RefreshFetchOnly(r) ==
    /\ Git(r, "find", "ready")
    /\ Dir(r) # Missing
    /\ UNCHANGED clone

\* fetch, reset --hard and clean; they may well mend a partial clone.
Refresh(r) ==
    /\ Git(r, "find", "ready")
    /\ Dir(r) # Missing
    /\ SetDir(r, head)

\* Mutant of Discard: the damaged clone is left where it is.
DiscardNothing(r) ==
    /\ Git(r, "find", "fetch")
    /\ Dir(r) # Missing
    /\ UNCHANGED clone

\* One of them fails, for the clone's sake or GitHub's: away with it.
Discard(r) ==
    /\ Git(r, "find", "fetch")
    /\ Dir(r) # Missing
    /\ SetDir(r, Missing)

NoClone(r) ==
    /\ Git(r, "find", "fetch")
    /\ Dir(r) = Missing
    /\ UNCHANGED clone

BeginClone(r) ==
    /\ Git(r, "fetch", "cloning")
    /\ Dir(r) = Missing
    /\ SetDir(r, Partial)

\* Someone may have removed what is being cloned: then the command fails.
EndClone(r) ==
    /\ Git(r, "cloning", "ready")
    /\ Dir(r) # Missing
    /\ SetDir(r, head)

\* The clone command fails, or is refused because the directory has appeared:
\* the directory goes, whoever's it is, and the run fails.
CloneFails(r) ==
    /\ git[r] = "cloning" \/ (git[r] = "fetch" /\ Dir(r) # Missing)
    /\ pc[r] = "clone" /\ Fail(r)
    /\ SetDir(r, Missing)
    /\ UNCHANGED <<head, git, read, since, met>>
-----------------------------------------------------------------------------
(* The stages of RepoIndexing. *)

Seeing(r, what) ==
    /\ read' = [read EXCEPT ![r][what] = @ \cup {Dir(r)}]
    /\ UNCHANGED <<head, clone, git, since, met>>

\* The run becomes active: it meets the runs that are.
Begin(r) ==
    LET others == {s \in Runs \ {r} : RepoOf[s] = RepoOf[r] /\ pc[s] \in Active}
    IN  /\ \/ r \in ApiRuns /\ (AddRepo(r) \/ ReindexCommit(r))
           \/ r \in SeedRuns /\ Seed(r)
        /\ since' = [since EXCEPT ![r] = head]
        /\ met' = [s \in Runs |-> met[s] \/ s \in others \/ (s = r /\ others # {})]
        /\ UNCHANGED <<head, clone, git, read>>

\* list_commits; without a HEAD it raises, and the stage fails.
CollectHistory(r) ==
    /\ git[r] = "ready" /\ Dir(r) \in Revisions
    /\ SaveHistory(r)
    /\ Seeing(r, "log")

\* _iter_files lists the directory; nothing is an answer, too.
ListFiles(r) == ParseFiles(r) /\ Seeing(r, "files")

\* _read has read the files; one that is gone is left out.
ReadFiles(r) == ClearReferences(r) /\ Seeing(r, "files")

\* Nothing read, nothing parsed.
StoreIndex(r) ==
    /\ SaveIndex(r)
    /\ read[r].files = {Missing} => index'[RepoOf[r]] \subseteq Others(r)
    /\ UNCHANGED cloneVars

\* line_history; an error is an empty history.
LinkLines(r) == (LinkEvidence(r) \/ LinkLastEvidence(r)) /\ Seeing(r, "lines")

\* Any other failure, outside of ensure_clone's own commands.
StageFails(r) ==
    /\ pc[r] = "clone" => git[r] \in {"find", "ready"}
    /\ Fail(r)
    /\ UNCHANGED cloneVars

\* Steps that have nothing to do with the directory.
Elsewhere(r) ==
    /\ \/ r \in ApiRuns /\ ReindexCheck(r)
       \/ r \in SeedRuns /\ SeedKilled(r)
       \/ Start(r) \/ BeginParsing(r) \/ ClearSymbols(r) \/ ClearFiles(r)
       \/ IndexConflict(r) \/ ClearEvidence(r)
       \/ NothingToLink(r) \/ BeginSummaries(r) \/ NothingToSummarize(r)
       \/ EndSummaries(r) \/ Finish(r) \/ MarkFailed(r) \/ ReportProgress(r)
       \/ TaskNotScheduled(r) \/ StartFails(r) \/ FailureNotRecorded(r)
    /\ UNCHANGED cloneVars

\* A process that dies leaves the directory as it is.
Processes == (Crash \/ Startup) /\ UNCHANGED cloneVars

CloneNext ==
    \/ \E r \in Runs :
         \/ Refresh(r) \/ Discard(r) \/ NoClone(r)
         \/ BeginClone(r) \/ EndClone(r) \/ CloneFails(r)
         \/ Begin(r) \/ CollectHistory(r) \/ ListFiles(r) \/ ReadFiles(r)
         \/ StoreIndex(r) \/ LinkLines(r) \/ StageFails(r) \/ Elsewhere(r)
    \/ Push
    \/ Processes

CloneSpec == CloneInit /\ [][CloneNext]_allVars
-----------------------------------------------------------------------------
\* A run that meets no other takes its commits, its files and its lines from one
\* revision, one that was on GitHub at the request or came later: not from an old
\* work tree, nor from a clone that someone left unfinished (ensure_clone; the
\* ranges of _link_symbol_evidence are lines of that revision).
AloneReadsOneRevision ==
    \A r \in Runs : ~met[r] =>
        \E v \in since[r]..MaxHead :
            read[r].log \cup read[r].files \cup read[r].lines \subseteq {v}

\* Rows of two parses stand side by side only if their runs were at work at the
\* same time: a run that meets no other leaves its own rows alone, whatever an
\* earlier accident left in the tables, and nobody's rows stay beside them.
LoneIndexIsWhole ==
    \A repo \in Repos : \A x, y \in index[repo] :
        x[1] # y[1] => met[x[1]] /\ met[y[1]]

\* A damaged clone does not fail the next run: left alone, a run is never refused
\* by what lies in the directory, and leaves ensure_clone with a whole clone
\* ("reindexing would fail at the same place for ever", ensure_clone).
DamageIsRepaired ==
    \A r \in Runs : (~met[r] /\ pc[r] = "clone") =>
        /\ git[r] = "fetch" => Dir(r) = Missing
        /\ git[r] = "ready" => Dir(r) \in Revisions
=============================================================================
