----------------------------- MODULE PrWarnings -----------------------------
(***************************************************************************)
(* The warning on one pull request: the webhook handlers of                *)
(* src/api/pr_warnings.py, the row they keep in pr_warnings and the        *)
(* comments they leave on GitHub.                                          *)
(*                                                                         *)
(* Every push sends one event, handled in a thread of its own              *)
(* (run_in_threadpool).  A handler reads the row, calls GitHub and then    *)
(* commits twice; between these points other handlers run.  An event is    *)
(* named by its push, and so are the comment and the row its handler       *)
(* creates.  GitHub does not send an event twice.                          *)
(***************************************************************************)
EXTENDS Naturals, FiniteSets

CONSTANTS
    Pushes,      \* the number of pushes to the pull request
    FaultSets    \* the sets of faults that may happen together

AllFaults == {
    "overlap",      \* events are handled at the same time or out of order
    "crash",        \* the server dies with its handlers
    "lost_answer",  \* GitHub posts a comment and the answer is lost
    "db_error"}     \* a commit raises

ASSUME PushesAssumption == Pushes \in Nat \ {0} /\ FaultSets \subseteq SUBSET AllFaults

Events == 1..Pushes
None == 0
Ids == Events \cup {None}

VARIABLES
    faults,   \* which of AllFaults may happen in this behaviour
    warns,    \* detect_changes' verdict on each push: something to warn of
    row,      \* the row: its id, head_sha, github_comment_id and, in items, the
              \* pushes whose findings it lists
    body,     \* the push each comment on GitHub speaks of, None if there is no comment
    told,     \* the pushes that some comment has spoken of
    seen,     \* the row as each handler last read it
    target,   \* the comment a handler will record
    pc

vars == <<faults, warns, row, body, told, seen, target, pc>>
-----------------------------------------------------------------------------
Rows == [id : Ids, head : Ids, comment : Ids, items : SUBSET Events]
NoRow == [id |-> None, head |-> None, comment |-> None, items |-> {}]

Running ==
    {"judge", "clear", "delete", "update", "create", "items", "upsert", "refresh", "stamp"}
Settled == {"done", "failed", "lost"}
PCs == Running \cup Settled \cup {"sent"}

TypeOK ==
    /\ faults \in FaultSets
    /\ warns \in [Events -> BOOLEAN]
    /\ row \in Rows
    /\ body \in [Events -> Ids]
    /\ told \subseteq Events
    /\ seen \in [Events -> Rows]
    /\ target \in [Events -> Ids]
    /\ pc \in [Events -> PCs]

Init ==
    /\ faults \in FaultSets
    /\ warns \in [Events -> BOOLEAN]
    /\ row = NoRow
    /\ body = [e \in Events |-> None]
    /\ told = {}
    /\ seen = [e \in Events |-> NoRow]
    /\ target = [e \in Events |-> None]
    /\ pc = [e \in Events |-> "sent"]

Goto(e, from, to) == pc[e] = from /\ pc' = [pc EXCEPT ![e] = to]

\* Comment c is made to speak of push e.
Say(c, e) == body' = [body EXCEPT ![c] = e] /\ told' = told \cup {e}

NoCall == UNCHANGED <<body, told>>
-----------------------------------------------------------------------------
(* Receiving an event and judging it. *)

\* An event that never arrives: the server is down.
Lose(e) ==
    /\ Goto(e, "sent", "lost")
    /\ UNCHANGED <<faults, warns, row, body, told, seen, target>>

Receive(e) ==
    /\ "overlap" \in faults \/ \A d \in Events : d < e => pc[d] \in Settled
    /\ Goto(e, "sent", "judge")
    /\ UNCHANGED <<faults, warns, row, body, told, seen, target>>

\* Mutant of AfterJudging: a clean push is always announced.
AfterJudgingNoisy(e) ==
    CASE ~warns[e] /\ row.comment # None -> "clear"
      [] ~warns[e] /\ row.comment = None -> "create"
      [] warns[e] /\ row.comment # None -> "update"
      [] warns[e] /\ row.comment = None -> "create"

\* Mutant of AfterJudging: the comment's id is not looked up.
AfterJudgingAnew(e) ==
    CASE ~warns[e] /\ row = NoRow -> "done"
      [] ~warns[e] /\ row # NoRow /\ row.comment # None -> "clear"
      [] ~warns[e] /\ row # NoRow /\ row.comment = None -> "delete"
      [] warns[e] -> "create"

\* Mutant of AfterJudging: a resolved warning is dropped without a word.
AfterJudgingSilent(e) ==
    CASE ~warns[e] /\ row = NoRow -> "done"
      [] ~warns[e] /\ row # NoRow -> "delete"
      [] warns[e] /\ row.comment # None -> "update"
      [] warns[e] /\ row.comment = None -> "create"

\* Where _apply_warnings goes from the row it reads.
AfterJudging(e) ==
    CASE ~warns[e] /\ row = NoRow -> "done"
      [] ~warns[e] /\ row # NoRow /\ row.comment # None -> "clear"
      [] ~warns[e] /\ row # NoRow /\ row.comment = None -> "delete"
      [] warns[e] /\ row.comment # None -> "update"
      [] warns[e] /\ row.comment = None -> "create"

\* The files are fetched, the changes judged, the row read.
Judge(e) ==
    /\ Goto(e, "judge", AfterJudging(e))
    /\ seen' = [seen EXCEPT ![e] = row]
    /\ UNCHANGED <<faults, warns, row, body, told, target>>
-----------------------------------------------------------------------------
(* Calls to GitHub.  GitHubAppError in any of them ends the handler. *)

CallFails(e) ==
    /\ pc[e] \in {"judge", "clear", "update", "create"}
    /\ pc' = [pc EXCEPT ![e] = "failed"]
    /\ UNCHANGED <<faults, warns, row, seen, target>>
    /\ \/ NoCall
       \/ "lost_answer" \in faults /\ pc[e] = "create" /\ Say(e, e)
       \/ /\ "lost_answer" \in faults /\ pc[e] \in {"clear", "update"}
          /\ body[seen[e].comment] # None
          /\ Say(seen[e].comment, e)

\* The comment of a resolved warning says so, if it is still there.
ClearComment(e) ==
    /\ Goto(e, "clear", "delete")
    /\ IF body[seen[e].comment] # None THEN Say(seen[e].comment, e) ELSE NoCall
    /\ UNCHANGED <<faults, warns, row, seen, target>>

UpdateComment(e) ==
    /\ Goto(e, "update", "items")
    /\ body[seen[e].comment] # None
    /\ Say(seen[e].comment, e)
    /\ target' = [target EXCEPT ![e] = seen[e].comment]
    /\ UNCHANGED <<faults, warns, row, seen>>

\* 404: the comment was deleted by hand.
CommentGone(e) ==
    /\ Goto(e, "update", "create")
    /\ body[seen[e].comment] = None
    /\ UNCHANGED <<faults, warns, row, body, told, seen, target>>

\* Mutant of CreateComment: the row is committed before the comment is sent.
RowBeforeComment(e) ==
    /\ Goto(e, "create", "items")
    /\ target' = [target EXCEPT ![e] = e]
    /\ UNCHANGED <<faults, warns, row, body, told, seen>>

CreateComment(e) ==
    /\ Goto(e, "create", "items")
    /\ Say(e, e)
    /\ target' = [target EXCEPT ![e] = e]
    /\ UNCHANGED <<faults, warns, row, seen>>
-----------------------------------------------------------------------------
(* Commits. *)

\* The row the handler read is still there (StaleDataError otherwise), or it
\* read none and there is none (IntegrityError otherwise).
RowAsSeen(e) == row.id = seen[e].id

\* Mutant of DeleteRow: the session is never committed.
DeleteRowUncommitted(e) ==
    /\ Goto(e, "delete", "done")
    /\ UNCHANGED <<faults, warns, row, body, told, seen, target>>

\* A row that another handler has deleted or replaced is not matched by the
\* DELETE; that is only a warning in the log.
DeleteRow(e) ==
    /\ Goto(e, "delete", "done")
    /\ row' = IF RowAsSeen(e) THEN NoRow ELSE row
    /\ UNCHANGED <<faults, warns, body, told, seen, target>>

\* _upsert_warning lists the row's items to delete them; the row itself is as
\* the handler read it before the calls.
ReadItems(e) ==
    /\ Goto(e, "items", "upsert")
    /\ seen' = [seen EXCEPT ![e].items = IF RowAsSeen(e) THEN row.items ELSE {}]
    /\ UNCHANGED <<faults, warns, row, body, told, target>>

\* Mutant of UpsertRow: the old items are kept.
UpsertRowKeepsItems(e) ==
    /\ RowAsSeen(e)
    /\ Goto(e, "upsert", "refresh")
    /\ row' = IF row = NoRow THEN [id |-> e, head |-> e, comment |-> None, items |-> {e}]
              ELSE [row EXCEPT !.head = e, !.items = @ \cup {e}]
    /\ seen' = [seen EXCEPT ![e].id = row'.id]
    /\ UNCHANGED <<faults, warns, body, told, target>>

\* Mutant of UpsertRow: the row is written under an id no handler uses.
UpsertRowElsewhere(e) ==
    /\ RowAsSeen(e)
    /\ Goto(e, "upsert", "refresh")
    /\ row' = [row EXCEPT !.id = Pushes + 1, !.head = e]
    /\ seen' = [seen EXCEPT ![e].id = row'.id]
    /\ UNCHANGED <<faults, warns, body, told, target>>

\* The row is inserted, or its items replaced, and committed without a
\* comment's id.  The update waits for the lock of a handler that is ahead, so
\* the items that one has added meanwhile are not among those deleted.
UpsertRow(e) ==
    /\ RowAsSeen(e)
    /\ Goto(e, "upsert", "refresh")
    /\ row' = IF row = NoRow THEN [id |-> e, head |-> e, comment |-> None, items |-> {e}]
              ELSE [row EXCEPT !.head = e, !.items = (@ \ seen[e].items) \cup {e}]
    /\ seen' = [seen EXCEPT ![e].id = row'.id]
    /\ UNCHANGED <<faults, warns, body, told, target>>

RefreshRow(e) ==
    /\ RowAsSeen(e)
    /\ Goto(e, "refresh", "stamp")
    /\ seen' = [seen EXCEPT ![e] = row]
    /\ UNCHANGED <<faults, warns, row, body, told, target>>

\* The comment's id is written if it differs from what the refresh read.
StampRow(e) ==
    /\ RowAsSeen(e) \/ seen[e].comment = target[e]
    /\ Goto(e, "stamp", "done")
    /\ row' = IF seen[e].comment = target[e] THEN row ELSE [row EXCEPT !.comment = target[e]]
    /\ UNCHANGED <<faults, warns, body, told, seen, target>>

\* A commit that another handler's commit has made impossible, or that fails:
\* not a GitHubAppError, so the webhook answers 500.
CommitFails(e) ==
    /\ \/ pc[e] \in {"upsert", "refresh"} /\ ~RowAsSeen(e)
       \/ pc[e] = "stamp" /\ ~RowAsSeen(e) /\ seen[e].comment # target[e]
       \/ pc[e] \in {"delete", "upsert", "stamp"} /\ "db_error" \in faults
    /\ pc' = [pc EXCEPT ![e] = "failed"]
    /\ UNCHANGED <<faults, warns, row, body, told, seen, target>>
-----------------------------------------------------------------------------
\* Someone deletes a comment on GitHub.
DeleteByHand(c) ==
    /\ body[c] # None
    /\ body' = [body EXCEPT ![c] = None]
    /\ UNCHANGED <<faults, warns, row, told, seen, target, pc>>

Crash ==
    /\ "crash" \in faults
    /\ \E e \in Events : pc[e] \in Running
    /\ pc' = [e \in Events |-> IF pc[e] \in Running THEN "failed" ELSE pc[e]]
    /\ UNCHANGED <<faults, warns, row, body, told, seen, target>>

Handle(e) ==
    \/ Receive(e) \/ Judge(e) \/ CallFails(e) \/ ClearComment(e) \/ UpdateComment(e)
    \/ CommentGone(e) \/ CreateComment(e) \/ DeleteRow(e) \/ ReadItems(e)
    \/ UpsertRow(e) \/ RefreshRow(e) \/ StampRow(e) \/ CommitFails(e)

Next ==
    \/ \E e \in Events : Handle(e) \/ Lose(e) \/ DeleteByHand(e)
    \/ Crash

Spec == Init /\ [][Next]_vars
-----------------------------------------------------------------------------
(* What holds whatever happens. *)

\* A warning in the history has been told on the pull request: the comment is
\* sent first, and the row written only when that succeeded (_apply_warnings).
WarningsAreTold ==
    \A e \in row.items \cup ({row.head} \ {None}) : e \in told /\ warns[e]

\* A pull request that never had anything to warn of gets no row and no
\* comment (_apply_warnings' rule against noise).
NoNoise ==
    (\A e \in Events : warns[e] => pc[e] \in {"sent", "lost"}) =>
        row = NoRow /\ \A c \in Events : body[c] = None
-----------------------------------------------------------------------------
(* What holds of a pull request whose events are handled one after the       *)
(* other, without a fault.                                                 *)

InOrder == faults = {}

\* No handler is at work.
AtRest == \A e \in Events : pc[e] \notin Running

CommentsThere == {c \in Events : body[c] # None}

\* At most one comment of the pull request warns of anything.
OneWarningComment ==
    InOrder => \A c, d \in CommentsThere : (warns[body[c]] /\ warns[body[d]]) => c = d

\* GitHub and the history agree: while there is a row its comment speaks of
\* the same push, unless deleted by hand, and without one no comment warns.
CommentMatchesRow ==
    (InOrder /\ AtRest) =>
        /\ row # NoRow => row.comment # None /\ body[row.comment] \in {row.head, None}
        /\ \A c \in CommentsThere : warns[body[c]] => c = row.comment

\* The history shows the findings of the last push that was handled to the end
\* and no others, or nothing if that push was clean.
LastVerdictStands ==
    \A e \in Events :
        (InOrder /\ AtRest /\ pc[e] = "done" /\ \A d \in Events : d > e => pc[d] # "done") =>
            IF warns[e] THEN row.head = e /\ row.items = {e} ELSE row = NoRow

\* "Replaces the warning row wholesale with the latest verdict"
\* (_upsert_warning's docstring).
RowListsOnePush == row # NoRow => row.items = {row.head}

\* "One comment per pull request: a later check does not post a new comment
\* but edits the old one" (docs/api-spec.md, section 8).
OneCommentPerPr == Cardinality(CommentsThere) <= 1
=============================================================================
