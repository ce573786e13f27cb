# Code Trace backend: a TLA+ model

Code Trace indexes a customer's GitHub repositories: it clones each one, collects commits and
pull requests, parses the files into symbols and references, links every symbol to the history
of its lines, lets an LLM summarize that history, and warns on pull requests about changes that
break callers. This directory models the parts of the backend whose correctness depends on the
order of events: database transactions, background tasks, crashes, retries and webhooks.

## 1. The system

One API process (FastAPI, synchronous handlers in a thread pool, background tasks in threads of
the same process), one PostgreSQL database, and a command-line seed script that runs the same
indexing task in a process of its own. External services: GitHub's API, git, an LLM provider.

| Component | Source (under `src/src/`) | State | Operations | Hard behaviour | Correct when |
|---|---|---|---|---|---|
| Repository API | `api/repos.py` | `repos` rows | add, reindex, list | check-then-commit of concurrent requests; limit under a row lock | one indexing per repository; the limit holds |
| Indexing runner | `indexing/runner.py` | `indexing_status`, `progress_*` | `run_indexing`, `_mark_failed`, `reset_stuck_indexing` | any stage may raise; the process may die; a restart resets | the status never sticks, and shows what is going on |
| History, evidence | `indexing/history.py` | `commits`, `pull_requests`, `symbol_evidences` | collect, link | several commits per stage; partial results | a done repository has one run's evidence |
| Parsing, storage | `indexing/parsing.py` | `source_files`, `symbols`, `symbol_references` | `parse_repo`, `_clear_previous`, name resolution | replaced in one transaction; two tasks at once | the index is that of one parse, and never lost |
| Summaries | `indexing/history.py`, `llm/*` | `symbol_summaries`, progress | one pass per indexing | one session for all symbols; rollbacks; retries, waits, give-up | counters, table and progress agree; the pass ends |
| Demo seed | `demo.py` | demo organization's rows | `seed_demo` | a second process, no status check | safe to run again |
| PR warnings | `api/pr_warnings.py`, `github/client.py` | `pr_warnings` rows, comments on GitHub | webhook handler | overlapping handlers, lost answers, two commits | GitHub and the history tell the same |
| Change detection | `analysis/pr_changes.py` | none | compare two revisions | pairing of renames | every change reported once |
| Explorer | `api/explorer.py` | none (reads) | tree, file, impact graph | caps, depth, cycles | edges refer to nodes shown |
| Context panel | `api/context.py` | query log | evidence and summary of a line | reads during an indexing | no summary without evidence |
| GitHub App | `github/app_auth.py` | token cache | installation token | expiry during use, concurrent refresh | a token used is valid |
| Clone | `github/git_history.py` | a directory per repository | clone, fetch, reset, log | shared by concurrent tasks, broken clones | reads see one revision |
| Installations | `github/installation.py`, `api/integrations.py` | `organizations.github_installation_id` | bind, callback, disconnect | check-then-commit, unique constraint | one organization per installation |
| Accounts | `api/auth.py`, `auth.py`, `api/organizations.py` | users, organizations, tokens | sign up, log in, create organization, demo session | double clicks; stale claims | one organization per user; demo is read-only, and the demo's |
| Query logs | `api/admin.py` | `query_logs` | list, retention at startup | - | - |

How they interact. A request to add or reindex commits `collecting` and hands `run_indexing` to a
background task; the runner calls the stages in order, each with its own commits, and the
dashboard polls the status those commits leave. The server's startup rewrites the status of
everything in progress, in whichever process it runs. The webhook reads the index the tasks
maintain, and shares with them only the database. The seed script shares `run_indexing` and the
database, and nothing else.

`PROJECT.json` lists every component with its status and, under `hazards`, what can go wrong in
this code that a test would hardly reach, each with the properties aimed at it.

## 2. The modules

| Module | Models |
|---|---|
| `RepoIndexing` | the life of a repository's index: requests, tasks, seed scripts, crash and restart |
| `RepoClone` | `RepoIndexing` joined with the clone directory its runs share and a branch that moves |
| `IndexLifecycle` | abstract: what a repository's card promises to those who look at it |
| `RepoIndexingLifecycle` | the refinement mapping from `RepoIndexing` to `IndexLifecycle` |
| `SummaryGeneration` | the pass that writes the summaries, with retries and waits |
| `PrWarnings` | the webhook handlers of one pull request, its row and its comments |
| `Accounts` | sign-up, organizations, installations, the demo, the plan's limit |
| `ReferenceResolution` | module names, import index, resolution of references (pure) |
| `ImpactGraph` | the graph of callers and callees, layer by layer (pure) |
| `ChangeDetection` | the verdict on two revisions of a file (pure) |
| `ContextPanel` | choice of evidence, check of a reply, the panel of a line (pure) |
| `Algorithms` | the four pure modules together: one question, one answer, and what answers promise |
| `MC...` | instances for TLC |
| `...Proofs` | theorems, see section 5 |

`RepoClone` EXTENDS `RepoIndexing` and joins its actions with what they read of the directory;
`Algorithms` EXTENDS the four pure modules; its questions are constants, and `MCAlgorithms` only
says which TLC asks, with nodes of the graph ranked by `ReferenceResolution`'s counts. The other modules meet only in the database, and no
transaction of one reads what another leaves half done.

Some definitions are labelled "Mutant of ...": a version of a definition with a plausible bug.
Nothing uses them; they stand in for the original to show that a property can fail.

### RepoIndexing

A *run* is one request with the task it schedules, or one execution of the seed script. `pc` says
where it is, and names the next transaction: `accepted`, the stages `clone`, `history`, `scan`,
`files`, `symbols`, `sources`, `save`, `link`, `evidence`, `relink`, `linked`, `summary`, `finish`, then `ended`;
`failing` is the exception handler, and `lost` a run that is gone without its repository having
been told. Each action is one commit, or the reading a later commit relies on:

- `AddRepo` is one step because the handler holds the organization's row lock from the limit check
  to the commit. `ReindexCheck` and `ReindexCommit` are two, because `reindex_repo` locks nothing.
- The transaction in `parse_repo` is four steps. `ClearReferences`, `ClearSymbols` and `ClearFiles`
  are the three SELECTs of `_clear_previous`, each of which sees what is committed when it comes
  (READ COMMITTED, and the session does not flush by itself); `held` is what they have read, and
  `SaveIndex` deletes that and no more, together with the insert of the run's own rows.
- `index` holds, for each of the three tables, the names of the runs whose rows are stored there;
  `latest`, a history variable, says which run saved last. A parse may have nothing for symbols or
  for references, or for any of the tables (`Parses`). Files and symbols have unique constraints,
  which two parses violate if they have a path or an ident in common: beside files or symbols of
  another run a save may succeed or fail (`IndexConflict`). References have none.
- `evidence` holds the names of the runs whose rows are stored, in two batches, since the linking
  commits as it goes.
- `ReportProgress` stands for the commits in the middle of a stage.
- `Fail` is an exception in any stage, `MarkFailed` its handler, `FailureNotRecorded` the handler
  failing in turn. `Crash` takes the server's runs with it and `Startup` is `lifespan`.
- Column values are abstracted: progress is null or not; of commits, files and symbols only
  whether there is any symbol is kept.
- Nothing deletes a repository in this code, so `run_indexing` always finds its row.
- No request is about a demo repository: demo sessions are read-only.

Where a session reads a row again immediately before it assigns to it, reading and writing are one
step. In `ReindexCommit` they are not, and a progress column that was null when it was read may
keep what another task has written since.

### IndexLifecycle

Three columns per repository: the card, whether the stored index is already that of the indexing
under way (`fresh`), and whether the stored evidence is that of the stored index (`whole`). Its
actions are the promises: states in order, one replacement per request, done only when whole, and
a failure from any state in progress, of one repository or of all a dead server worked on. The
mapping takes `card` from `status`, and computes `fresh` and `whole` from the names of the runs in
`latest`, `index` and `evidence`. The commits in between (progress, deletion of the old evidence, each batch)
are stutters, or `Link` when the last batch makes the evidence whole.

### RepoClone

`clone` is the directory: missing, partial, or at a revision of the branch, which `Push` moves.
`git` says where a run is in `ensure_clone`: `Refresh` is fetch, reset and clean; `Discard` the
removal after one of them fails; `BeginClone` and `EndClone` the two ends of `git clone`, between
which anybody else may look at the directory; `CloneFails` removes it, whoever's it is. `read`
keeps the revisions each run saw in `list_commits` (`log`), in the listing and the reading of files
(`files`) and in `git log -L` (`lines`). A fetch with its reset, and `rmtree`, take effect at
once. `met` tells the runs that were active together with another from those that were not: the
code has no lock on the directory and none on the index, so of overlapping runs only what
`RepoIndexing` promises of any runs is claimed, and section 4 shows what they can do.

### Accounts

A *session* is a database session at work on one request. A handler is cut where another session
can act between a read and the write that relies on it: `LockUser`/`CreateOrganization`,
`DemoMissing`/`DemoInsert`/`DemoSession`, `Callback`/`BindInstallation`/`CommitCallback`,
`AddRepo`/`LockOrg`/`StoreRepo`. Row locks are guards (`UserRowFree`, `OrgRowFree`), unique
constraints are guards of the insert or the update (`SlugFree`, `UniqueInstallation`; an insert
waits for one that has not been committed), and a violation is `Abort`, which any open transaction
may meet. `CommitSeed` is the seed script's transaction, which holds organization, user,
installation and repository together. Anybody may sign up with any address, the demo's included,
and the demo takes that user for its own; without such a sign-up nobody has the password of the
demo's user (`SignedUp`). A token is what `create_token` signs: user, organization
and whether it is read-only; it outlives every later change of the rows. `RepoIndexing` takes up
where a repository has been added.

### The pure modules

Each translates its functions as operators, with sequences where the code's order decides (the
walk of the files, the imports of a file, the dictionary of a revision's functions) and sets of
answers where the database's order does (ties between equally referenced nodes, equally narrow
symbols). A name is a sequence of parts, a directory too, which is empty for the root of the
repository (`ParentModule`), a constant's statement a value, evidence a number in the
order of dates with the attributes that the rules look at. A loop that fills a dictionary is
given by what it leaves: under a name, the last item that assigns to it (`ParseSymbols`,
`ImportIndex`), or the first that may not be overwritten (`Registered`). Where a turn depends on the turn
before it, it is a recursive function (`Graphs`, `MatchRenames`). Each module ends with definitions
that say what the answer should be without following the code's steps.

In `Algorithms` a behaviour is one question and its answer, `query`. What is assumed of the
questions: sequences and finite sets are what they are called; a reference has a name; a row of
`symbol_summaries` is one that a pass can have made of the evidence the symbol has, or had before
a reindexing took it away; and no file is called `None`, since `_build_import_index` asks for a
module `x.None` when `x` is imported as a whole, and `_import_references` does not.

### SummaryGeneration

`stored` is the committed table, `pending` what the session has flushed since its last commit. A
commit applies all of it and a rollback undoes all of it, whichever symbol it belongs to: the
heart of the model. Below the loop, `replies` counts `summarize`'s two attempts, `tries` the
provider's, `waits` the rate-limit waits of a symbol. Which reply is good is a free choice.

### PrWarnings

One pull request, one event per push. A handler reads the row (`Judge`), calls GitHub
(`ClearComment`, `UpdateComment`, `CommentGone`, `CreateComment`), and then goes through the
points of `_upsert_warning` and the commit that follows: `ReadItems`, `UpsertRow` (commit),
`RefreshRow`, `StampRow` (commit). The verdict on a push is fixed by the push. `faults` selects
what may go wrong besides refused calls: overlap and reordering, crashes, a posted comment whose
answer is lost, a failing commit; it is chosen from `FaultSets` and then stays. A row carries the pushes whose findings it lists, so mixing
shows. `told` remembers what some comment has spoken of.

## 3. What the runs check

| Run | Bounds | Shows |
|---|---|---|
| `indexing_serial` | one client, 4 runs, 2 repositories, limit 2, any parse | `OneRunPerRepo`, `ActiveIsShown`, `ProgressOnlyInProgress`, `IndexIsWhole`, `DoneIsFresh`, `Lifecycle`, and that `IndexLifecycle` is implemented |
| `indexing_races` | 2 clients, 3 runs of one repository, any parse, fairness | `TypeOK`, `InProgressIsOwned`, `IndexOnlyReplaced`, `IndexingSettles` |
| `indexing_clone` | 2 seed scripts of one repository, 2 revisions, a full parse or none | `AloneReadsOneRevision`, `LoneIndexIsWhole`, `DamageIsRepaired` |
| `indexing_two_users` | 2 clients, 3 runs | `OneRunPerRepo` fails |
| `summaries` | 4 symbols, give-up at 2, 1 wait, 2 tries, progress every 2 | counters, table, progress, termination |
| `summaries_stale` | 3 symbols | `FailedSymbolIsEmpty` fails |
| `pr_warnings` | 3 pushes, no fault or all of them | `TypeOK`, `WarningsAreTold`, `NoNoise`; in order also `OneWarningComment`, `CommentMatchesRow`, `LastVerdictStands` |
| `pr_warnings_one_comment` | 4 pushes, one at a time | `OneCommentPerPr` fails |
| `pr_warnings_mixed` | 3 overlapping pushes | `RowListsOnePush` fails |
| `accounts` | 2 sessions, 3 addresses, one of them the demo's, 3 organizations, 2 installations, 2 repository names, limit 1 | `TypeOK`, `OneOrgPerInstallation`, `TokensAgree`, `PlanLimitHolds`, `DemoIsOne`, `DemoOnlySeeded` |
| `algorithms` | below | `LinksFollowScope`, `GraphShowsNearest`, `GraphIsFounded`, `VerdictIsExact`, `RenamesAreCertain`, `DisplayCoversSummary`, `PanelIsGrounded`, `RepliesAreGrounded` |
| `qualified_calls` | as `algorithms` | `QualifiedCallsStay` fails |

What the newer properties say:

- `AloneReadsOneRevision`: a run that met no other reads commits, files and line ranges of one
  revision, not older than its request, whatever is pushed meanwhile and whatever an earlier run
  left in the directory. `DamageIsRepaired`: a damaged clone does not fail the next run for ever.
- `IndexIsWhole`: with one client the stored rows are those of the parse that was saved last.
  `IndexOnlyReplaced`, for any clients: rows go only in the commit of a save, which takes away what
  it has read and adds its own. `LoneIndexIsWhole`: rows of two parses are side by side only if
  their runs overlapped, so that the next run on its own clears what an accident left.
- `OneOrgPerInstallation`, `PlanLimitHolds`, `DemoIsOne`: what the checks before a write leave open,
  the constraints and locks at the write settle. `TokensAgree`: a token, valid for a week, is never
  contradicted by the user's row. `DemoIsOne` exempts demo sessions from being the demo's only if
  somebody signed up with its address. `DemoOnlySeeded`: no demo session changes the demo, at once or
  through a callback that comes later.
- `LinksFollowScope`: in the cases Python and TypeScript decide, a stored link never leaves the
  file that scope and imports name; and the rows of imports agree with the import index.
- `GraphShowsNearest`, `GraphIsFounded`: the graph is the nearest nodes by a definition of distance
  that does not follow the layers; it has all the edges among them that touch the inner layers,
  none to a node that was cut, and no direction that no reference gives.
- `VerdictIsExact`, `RenamesAreCertain`: each loss is told once, nothing else is, and a rename's new
  name is the only candidate.
- `DisplayCoversSummary`, `PanelIsGrounded`, `RepliesAreGrounded`: what a summary cites was given to
  the model and is on the panel; a rejected reply is not "no history"; without evidence a file in a
  directory is given the way to it.

Why the bounds are enough. Three runs of one repository give a first index, one to replace, and a
task overlapping both, which is what it takes for a save to fall between two SELECTs of another;
the fourth run, on a second repository, brings in the limit and a client
whose requests alternate. Two seed scripts overlap, or follow one another after the first was
killed or failed in the middle of a clone, with a push between any two steps. A pass over four
symbols has a streak that reaches the limit (2) with a success before or after it and a symbol
never reached, and a progress commit both inside and at the end. Three pushes give an old row and
two handlers that replace it, or warn, resolve, warn; a second comment takes the fourth. Two
sessions are the two sides of each race, and three organizations the demo and two that compete for
an installation; the demo's address may be signed up before the first visit, after it or never; with a limit of 1 two requests can compete for the last place. The code's own
limits (5 failures, 6 waits, 3 tries, every 10th symbol, 100 nodes) are constants of the model,
reduced for TLC so that each one is met.

The inputs of `algorithms`: every set of symbols named `foo` in up to four Python files (with a
package, with and without its `__init__.py`) or in three sets of scripts (a file, a folder with an
index, both), up to two of nine imports, and five kinds of receiver; every set of references among
four symbols, with a cut at 1 to 3 nodes; files in the root and in a directory; up to three symbols before, in every order and with
repeated names, against every set of at most one symbol of each of five names after; three items
of evidence of four kinds shared by a method and its class, of which two are shown; replies of up
to two sentences, each with any citation.

Deadlock is checked in `RepoIndexing` and `RepoClone`, where the server or a seed script can go on,
and in `Accounts`, where another sign-in always is possible. It is not in `SummaryGeneration` and
`PrWarnings`, which stop when their symbols or pushes are used up, nor in `Algorithms`, which
stops after its one answer.

Fairness. `RepoIndexing`'s `FairSpec` lets each scheduled task go on while it can (it is a thread,
and its calls have timeouts) and the server be started again after a crash (`restart:
unless-stopped` in `deploy/docker-compose.prod.yml`). No fairness is assumed of clients, of seed
scripts being started, of failures or of crashes. `SummaryGeneration` is one thread with bounded
sleeps. `IndexingSettles` makes an exception for a run that a living server has lost: the code
offers no way out but a restart.

## 4. Where the code and its documents disagree

- **Two reindexings at once** (`indexing_two_users`). The API promises 409 while an indexing is
  in progress; `reindex_repo` checks without the lock that `add_repo` takes. The card, the progress
  and the evidence suffer, and so may the stored index, as the next list tells.
- **A summary comes back** (`summaries_stale`). A symbol whose call fails should be left without a
  summary; its deletion is uncommitted, and a later symbol's rollback restores the old one.
- **A second comment** (`pr_warnings_one_comment`). One comment per pull request is promised; a
  resolved warning deletes the row with the comment's id.
- **Findings of two pushes in one row** (`pr_warnings_mixed`). Overlapping handlers each delete
  the items they saw and add their own.
- **A qualified call leaves its module** (`qualified_calls`). `b.foo()` with `import b` is dropped
  when `b.py` has no `foo`, says `_narrow`; with a single `foo` in the repository `_narrow` is not
  asked, and the call is linked to it.

Read in the code and left without a run of their own; where the models have the behaviour, the
properties are stated so as to leave it out, and say so:

- References of two parses. "What is not deleted stays in the graph", says `_clear_previous`
  (`parsing.py:87`), and lists references, symbols and files one after the other: of a run that
  commits after the first list, symbols and files are deleted and the references stay, beside those
  of the new parse, and `_update_reference_counts` counts both. `symbol_references` has no
  constraint that would refuse them. With two clients `IndexIsWhole` is therefore false (TLC finds
  it in the instance of `indexing_races`), and it is stated for one; the next indexing that
  overlaps no other clears what was left (`LoneIndexIsWhole`).
- An empty index. Two overlapping runs share a directory, which either removes when its own git
  command fails (`git_history.py:112` and `119`). A parse that comes after finds no files and no
  error, replaces the index by an empty one and goes on to done, where `parse_repo` promises that
  the screen does not go empty (`parsing.py:358`). `RepoClone` has this behaviour;
  `AloneReadsOneRevision` speaks of runs that meet no other.
- Rate limits. They are "not counted here", says the comment at the give-up (`history.py:339`), and
  "not counted as failures" that of the limit on waits (`history.py:34`). A symbol that has used up
  its waits is counted all the same (`history.py:328`): rate limits alone can end a pass and leave
  the later symbols without a new summary. `GiveUpOnLimit` does as the code does, and
  `FailuresAreConsecutive` counts every symbol that got no summary.
- The demo's address. A demo session is to carry the demo organization (`api/auth.py:78`). Nothing
  keeps anybody from signing up with the address; if that comes before the first visit or seed,
  `get_or_create_demo_user` takes the user as it is, and demo sessions carry that user's
  organization, or none. `DemoIsOne` makes an exception for it; the demo's data stays what the seed
  script made it all the same (`DemoOnlySeeded`), and no writable session is for it.
- An empty screen. An answer without evidence is to offer a way on (`context.py:37`,
  `docs/api-spec.md:366`). `_parent_module` has none for a file in the repository's root, and
  `PanelIsGrounded` promises one for files in a directory only.
- Edges between two nodes of the second layer are never looked at, although `_build_graph`'s
  docstring (`explorer.py:196-198`) keeps every edge with both ends in the graph. `GraphIsFounded`
  is stated for the edges the code looks at.
- A node of the second layer takes the direction of the neighbour it was found from, which may
  have been a caller it is called by; `docs/api-spec.md:432` speaks of callers and callees of the
  symbol. `GraphIsFounded` says what does hold.
- `_match_renames` pairs one new function with the first of two that are gone and have its
  parameters. `RenamesAreCertain` is stated for the new name.
- Of `client.ts` and `client/index.ts` the one that comes first in the walk is taken, whatever the
  comment at `parsing.py:147` says; `import pkg.b` binds `pkg` to `pkg/b.py`; `pkg.py` takes the
  place of `pkg/__init__.py`; and an import under another name (`from m import foo as bar`)
  narrows nothing, because no symbol is named `bar`.
- A pass of summaries that is given up leaves older ones in place, and these may cite evidence that
  is no longer among the items shown.

## 5. What is proved

`RepoIndexingProofs` makes no assumption but `RunsAssumption`: any repositories, runs, clients.

- `TypeCorrect`: the type invariant, inductive as it stands.
- `NothingLeftInProgress`: `InProgressIsOwned`. Inductive together with the types; lemma
  `OwnerMoves` says that a step which moves a run among the places that own a repository and
  marks no other repository keeps it, and every action is such a step or makes a repository leave
  the in-progress states.
- `IndexNeverLost`: `IndexOnlyReplaced`. No other action touches the index, and a save removes only
  rows that its transaction has read. That the stored rows are of one parse is not among these
  results: with two clients it is false (section 4).

`RepoIndexingSerialProofs` adds `Serial`: one client at a time and no seed script. `OneRunPerRepo`
is not inductive: nothing in it says why a second run cannot start. `SerialInv` ties each run's
place to its repository's status (`RunInv`), so that a run at work keeps `MayReindex` false; it
adds that two requests are never under way together, which closes the gap between `ReindexCheck`
and `ReindexCommit`, what the run has stored so far, which `DoneIsFresh` needs, and which rows its
transaction has read by each of its places, which `IndexIsWhole` needs: alone, it has read them all
when it saves. Lemma `BusyIsAlone` draws the consequence (a run that does anything is alone with its
repository) and `OwnStepKeeps` reduces each action to its own run and repository. `OneRunAtATime`,
`RunsAreShown`, `ProgressIsCleared`, `IndexStaysWhole`, `DoneShowsOneRun` and `StatusMovesInOrder`
follow.

`RepoLifecycleProofs`, also under `Serial`: `IndexingImplementsLifecycle`. `SerialInv` says which run
is at work; `LifeInv` adds whose index is stored at each of its places, and that stored evidence
belongs to it. `LifeStep` is a step of the card or a stutter; each action of `RepoIndexing` has a
lemma that names the one it is (`SaveMaps` is `Replace`, `LinkMaps` is `Link` or a stutter,
`ServerMaps` is `Fail` of every repository in progress, ...). What the abstract specification is
good for is `DoneWithEvidence`, by an invariant of two conjuncts; through the refinement it holds of
the detailed one (`CardIsTrusted`).

`RepoCloneProofs` makes no assumption but `RunsAssumption` and `MaxHeadAssumption`.
`CloneRunsAreRuns` shows that every step of the composition is a step of `RepoIndexing` or leaves
its variables alone, so that its theorems carry over. `CloneInv` is the
strengthening of `AloneReadsOneRevision`: a run that is alone and has its clone finds the
directory at the revision it has read, because nobody else changes it; a run in the middle of a
clone that is alone finds it partial; and runs that have not met have not been active together.
`LoneRunReadsOneRevision` and `DamageNeverLasts` follow. `RowsInv` is the strengthening of
`LoneIndexIsWhole`: whoever has rows in the tables that a run has not read has met that run, once
it has come to the table's SELECT; `LoneRunsIndexAlone` follows. With `Serial`, `OneRunAtATime` leaves a run
nobody to meet (`NobodyMeets`), so that what is claimed of lone runs holds of all
(`SerialReadsOneRevision`), and the composition implements the card's life (`CloneImplementsLifecycle`).

`AccountsProofs` makes no assumption but `AccountsAssumption`: any number of sessions. `AccInv` has
five parts, each needed by the others: rows belong to committed organizations only
(`NewOrgsAreEmpty`, so that committing one adds no owner and no repository);
`OneOrgPerInstallation`; `UsersInv`, that at most one session holds a user's row and that user has
no organization; `DemoInv`, that the demo organization is one or about to be inserted by one
session, that only the demo user belongs to it, and that requests that came through a writable
token work elsewhere; and `LimitInv`, that the one session between `LockOrg` and `StoreRepo` has
room for its repository. Each part has a lemma with one step per action. `InstallationsAreOwned`,
`TokensNeverStale`, `PlansHold`, `OneDemo` and `DemoIsSeeded` follow.

`PrWarningsProofs` makes no assumption but `PushesAssumption`: any number of pushes, any sets of
faults. Two invariants hold whatever overlaps, is lost or crashes. `ToldInv` adds to
`WarningsAreTold` that a handler which is about to write the row has something to warn of and has a
comment that said it, because the code posts before it records. `NoiseInv` adds to `NoNoise` that
until a push with findings is taken up no handler is past its verdict; it needs `QuietNext`, that such a
push is never put back. `OrderInv` is for handlers in order and without faults: one push is at
work at a time (`OneByOne`), what the one at work has read is the row as it is (`AtWork`), at every
point of it at most one comment warns (`OnlyWarns`), and between handlers the row and its comment
agree, or there is neither (`Settles`), as the last push that was handled says (`Verdict`). The three
properties are consequences; none is inductive alone, since it is the row that tells the next
handler which comment to edit.

`SummaryGenerationProofs` makes no assumption but `SizesAssumption`: any number of symbols and any
limits. `PassInv` says that symbols end one after the other (`Sequence`), that the last `failures`
of them have no success among them and the one before is a success (`Streak`), that new summaries
are never pending, and that no pending deletion is of one (`Table`), and that the count is the
cardinality of the new rows (`Counts`). `Table` is why one session for all symbols does no harm to
the count: a later rollback finds nothing of an earlier success to undo. `StreakIsConsecutive`,
`GeneratedIsTrue`, `BarIsHonest` and the action property `UnreachedAreKept` follow.

`AlgorithmsProofs` makes no assumption but `AlgorithmsAssumption`: any files, symbols, references,
evidence and replies of any size. Its eight theorems are the eight properties of the run
`algorithms`, each a lemma about the module's operators and the invariant `Answered`.

- Where the code counts (`NewestSize`: the newest *k* of a set are *k* of it, or all) there is an
  induction over a set. It is done by the least counterexample: a set of sizes for which the lemma
  fails would have a least one (`LeastNumber`, from the library's `WFMin`), and taking its oldest
  element away gives a smaller one.
- The graph needs no induction, as it has two layers: `LayerAdds` says what a layer adds,
  `CutFillsRoom` that a cut takes as many as there is room for, and `GraphLayers` puts two together.
- `RenameStates` shows that the recursive function of `MatchRenames` exists, and `PairKeepsCertain`
  that each turn keeps `CertainPairs`: among those that appeared and have its parameters, a paired
  function is the only one, now and not just at its turn, since what earlier turns took away was
  the only one of its parameters too.
- Links: `ModulesAreFiles` (a registered name leads to a file that answers to it), `InForceIsIndexed`
  (the last import of a name is the one the index holds) and `OnlyImportsAreIndexed`. They leave one
  step per rule of `_narrow`, each with the case that `_narrow` is not asked (`OnlyCandidate`).

Every strengthening was first checked by TLC on the instance of its run. Only model-checked:
liveness (`IndexingSettles`, `PassEnds`), which is out of the prover's reach; and that the
statements of section 4 fail, which is a matter of one behaviour each.

## 6. Not modelled, and the plan

Not modelled:

- `github/app_auth.py`: a cached token's validity is a matter of minutes on a clock; what depends on
  it is a call that may fail, which every module has.
- `api/admin.py` and the query logs: one insert per panel request, a deletion by age at startup,
  listings; nothing reads the rows back.
- `parser/*`: the syntax of source text. The modules take parsed symbols, imports and references.
- `llm/prompts.py`, wording of comments, password hashing, the text of slugs and of install states:
  formatting, about which no property speaks.
- `config.py`, `schemas.py`, migrations: declarations; the constraints of `db/models.py` appear where
  a module meets them.
- `api/inquiries.py`: one insert. The file tree and the file view of `api/explorer.py`, the listing
  endpoints of `api/integrations.py` and `api/repos.py`: reads.

The plan from here: every invariant and action property that a run checks is stated by a theorem.
What is left is to state more. An abstract specification of what the history of warnings and GitHub
promise to a reader, shown to be implemented by `PrWarnings` in order; and the same for
`SummaryGeneration` (a table that grows, one symbol after the other), to which `RepoIndexing` could
then refer.
