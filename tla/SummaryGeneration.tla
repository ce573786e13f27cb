------------------------- MODULE SummaryGeneration -------------------------
(***************************************************************************)
(* generate_repo_summaries (src/indexing/history.py): one pass over a      *)
(* repository's symbols that replaces each stored summary by one written   *)
(* from the evidence linked just before, with the layers below it:         *)
(* generate_summary and summarize (src/llm/summarizer.py) and the          *)
(* provider's retries (src/llm/provider.py).                               *)
(*                                                                         *)
(* The pass uses one database session.  What it has deleted or written and *)
(* not committed is `pending'; a commit applies all of it, whichever       *)
(* symbol it belongs to, and a rollback undoes all of it.                  *)
(***************************************************************************)
EXTENDS Naturals, FiniteSets

CONSTANTS
    N,            \* the number of symbols, numbered in the order of the pass
    MaxFailures,  \* _MAX_CONSECUTIVE_SUMMARY_FAILURES (5)
    MaxWaits,     \* _MAX_RATE_LIMIT_WAITS (6)
    MaxTries,     \* _MAX_RETRIES of the provider (3)
    CommitEvery   \* the progress commit's interval (10)

ASSUME SizesAssumption ==
    /\ N \in Nat \ {0} /\ MaxFailures \in Nat \ {0} /\ MaxWaits \in Nat
    /\ MaxTries \in Nat \ {0} /\ CommitEvery \in Nat \ {0}

Symbols == 1..N

VARIABLES
    stored,     \* committed summaries: none, of an earlier indexing, of this one
    pending,    \* what the open transaction would change
    cur,        \* index, the symbol being processed
    waits,      \* wait_count
    tries,      \* attempt of OpenAIProvider.complete
    replies,    \* attempt of summarize
    failures,   \* consecutive_failures
    generated,  \* generated, the value returned
    outcome,    \* how the processing of each symbol ended
    progress,   \* repos.progress_current
    pc

vars == <<stored, pending, cur, waits, tries, replies, failures, generated, outcome,
          progress, pc>>

call == <<tries, replies>>
database == <<stored, pending>>
-----------------------------------------------------------------------------
Summaries == {"none", "old", "new"}
Outcomes == {"untouched", "made", "unavailable", "limited", "error"}
PCs == {"delete", "ask", "store", "next", "finish", "done", "interrupted"}

\* Two attempts: the prompt, and the prompt with a reminder of the format.
MaxReplies == 2

TypeOK ==
    /\ stored \in [Symbols -> Summaries]
    /\ pending \in [Symbols -> {"keep", "delete", "write"}]
    /\ cur \in Symbols
    /\ waits \in 0..MaxWaits
    /\ tries \in 1..MaxTries
    /\ replies \in 1..MaxReplies
    /\ failures \in 0..MaxFailures
    /\ generated \in 0..N
    /\ outcome \in [Symbols -> Outcomes]
    /\ progress \in 0..N
    /\ pc \in PCs

Untouched == [s \in Symbols |-> "keep"]

\* After the first commit of the pass, with whatever earlier indexings left.
Init ==
    /\ stored \in [Symbols -> {"none", "old"}]
    /\ pending = Untouched
    /\ cur = 1
    /\ waits = 0 /\ tries = 1 /\ replies = 1
    /\ failures = 0
    /\ generated = 0
    /\ outcome = [s \in Symbols |-> "untouched"]
    /\ progress = 0
    /\ pc = "delete"
-----------------------------------------------------------------------------
(* The session. *)

\* What the table holds once the pending changes p are committed.
After(p) == [s \in Symbols |-> CASE p[s] = "keep" -> stored[s]
                                 [] p[s] = "delete" -> "none"
                                 [] p[s] = "write" -> "new"]

Commit(p) == stored' = After(p) /\ pending' = Untouched
Rollback == pending' = Untouched /\ UNCHANGED stored

\* How the processing of the current symbol ends.
FinishSymbol(result) ==
    /\ outcome' = [outcome EXCEPT ![cur] = result]
    /\ pc' = "next"
    /\ UNCHANGED <<cur, waits, call, progress>>

FailSymbol(result) ==
    /\ FinishSymbol(result)
    /\ failures' = failures + 1
    /\ UNCHANGED generated
-----------------------------------------------------------------------------
(* One symbol. *)

\* Mutant of DeleteSummary: every summary is deleted before the first is made.
DeleteAllSummaries ==
    /\ pc = "delete"
    /\ pending' = [s \in Symbols |-> IF stored[s] = "old" THEN "delete" ELSE pending[s]]
    /\ tries' = 1 /\ replies' = 1
    /\ pc' = "ask"
    /\ UNCHANGED <<stored, cur, waits, failures, generated, outcome, progress>>

\* _delete_summary, flushed and not committed.
DeleteSummary ==
    /\ pc = "delete"
    /\ pending' = IF stored[cur] = "none" THEN pending
                  ELSE [pending EXCEPT ![cur] = "delete"]
    /\ tries' = 1 /\ replies' = 1
    /\ pc' = "ask"
    /\ UNCHANGED <<stored, cur, waits, failures, generated, outcome, progress>>

\* Evidence not worth summarizing: "no_history" is stored without a call.
NoHistory ==
    /\ pc = "ask" /\ tries = 1 /\ replies = 1
    /\ pc' = "store"
    /\ UNCHANGED <<database, cur, waits, call, failures, generated, outcome, progress>>

\* A reply that parses and cites its evidence.
GoodReply ==
    /\ pc = "ask"
    /\ pc' = "store"
    /\ UNCHANGED <<database, cur, waits, call, failures, generated, outcome, progress>>

\* A reply that does not: once more, then no summary.
AskAgain ==
    /\ pc = "ask" /\ replies < MaxReplies
    /\ replies' = replies + 1
    /\ tries' = 1
    /\ UNCHANGED <<database, cur, waits, failures, generated, outcome, progress, pc>>

\* 429 or 5xx: the provider waits and tries again.
RetryCall ==
    /\ pc = "ask" /\ tries < MaxTries
    /\ tries' = tries + 1
    /\ UNCHANGED <<database, cur, waits, replies, failures, generated, outcome, progress, pc>>

\* No summary comes of it: both replies are bad, the call fails in a way not
\* worth another try (no key, network, other status), or the tries end with
\* 5xx.  generate_summary returns None and the deletion stays pending.
NoSummary ==
    /\ pc = "ask"
    /\ FailSymbol("unavailable")
    /\ UNCHANGED database

MayWait == waits < MaxWaits

\* Mutant of WaitForLimit: the counter of waits is not carried on.
WaitForLimitForever ==
    /\ pc = "ask" /\ tries = MaxTries
    /\ MayWait
    /\ Rollback
    /\ pc' = "delete"
    /\ UNCHANGED <<cur, waits, call, failures, generated, outcome, progress>>

\* The tries end with 429: everything pending is rolled back and the same
\* symbol is processed again after a sleep ...
WaitForLimit ==
    /\ pc = "ask" /\ tries = MaxTries
    /\ MayWait
    /\ Rollback
    /\ waits' = waits + 1
    /\ pc' = "delete"
    /\ UNCHANGED <<cur, call, failures, generated, outcome, progress>>

\* ... and given up after MaxWaits sleeps.
GiveUpOnLimit ==
    /\ pc = "ask" /\ tries = MaxTries
    /\ ~MayWait
    /\ Rollback
    /\ FailSymbol("limited")

\* Any other exception, in the snippet, the prompt, the flush or the commit.
SymbolError ==
    /\ pc \in {"delete", "ask", "store"}
    /\ Rollback
    /\ FailSymbol("error")

\* Mutant of StoreSummary: the new row is left to the next commit.
StoreSummaryUncommitted ==
    /\ pc = "store"
    /\ pending' = [pending EXCEPT ![cur] = "write"]
    /\ generated' = generated + 1
    /\ failures' = 0
    /\ FinishSymbol("made")
    /\ UNCHANGED stored

\* Mutant of StoreSummary: a success does not end the streak of failures.
StoreSummaryKeepsStreak ==
    /\ pc = "store"
    /\ Commit([pending EXCEPT ![cur] = "write"])
    /\ generated' = generated + 1
    /\ UNCHANGED failures
    /\ FinishSymbol("made")

\* The new row is written and everything pending is committed with it.
StoreSummary ==
    /\ pc = "store"
    /\ Commit([pending EXCEPT ![cur] = "write"])
    /\ generated' = generated + 1
    /\ failures' = 0
    /\ FinishSymbol("made")
-----------------------------------------------------------------------------
(* The loop. *)

\* Mutant of GaveUp: one failure too many is tolerated.
GaveUpLate == failures > MaxFailures

GaveUp == failures >= MaxFailures

\* The next symbol, with a progress commit at every CommitEvery-th.
NextSymbol ==
    /\ pc = "next" /\ ~GaveUp
    /\ IF cur % CommitEvery = 0
       THEN progress' = cur /\ Commit(pending)
       ELSE UNCHANGED <<progress, database>>
    /\ IF cur < N
       THEN cur' = cur + 1 /\ waits' = 0 /\ pc' = "delete"
       ELSE pc' = "finish" /\ UNCHANGED <<cur, waits>>
    /\ UNCHANGED <<call, failures, generated, outcome>>

Abort ==
    /\ pc = "next" /\ GaveUp
    /\ pc' = "finish"
    /\ UNCHANGED <<database, cur, waits, call, failures, generated, outcome, progress>>

\* Mutant of LastProgress: the bar is filled whatever was done.
FullProgress == N

LastProgress == IF GaveUp THEN cur ELSE N

Finish ==
    /\ pc = "finish"
    /\ progress' = LastProgress
    /\ Commit(pending)
    /\ pc' = "done"
    /\ UNCHANGED <<cur, waits, call, failures, generated, outcome>>

\* The process dies, or a commit of the loop itself raises: run_indexing
\* rolls back and marks the repository failed.
Interrupted ==
    /\ pc \notin {"done", "interrupted"}
    /\ Rollback
    /\ pc' = "interrupted"
    /\ UNCHANGED <<cur, waits, call, failures, generated, outcome, progress>>

ProcessSymbol ==
    \/ DeleteSummary \/ NoHistory \/ GoodReply \/ AskAgain \/ RetryCall \/ NoSummary
    \/ WaitForLimit \/ GiveUpOnLimit \/ SymbolError \/ StoreSummary

Next == ProcessSymbol \/ NextSymbol \/ Abort \/ Finish \/ Interrupted

\* The pass is one thread; every call has a timeout and every sleep a bound.
Spec == Init /\ [][Next]_vars /\ WF_vars(ProcessSymbol \/ NextSymbol \/ Abort \/ Finish)
-----------------------------------------------------------------------------
Processed == {s \in Symbols : outcome[s] # "untouched"}

\* The streak of failures is what its name says: the symbols processed last,
\* none of which got a summary, back to the last success or the beginning.
FailuresAreConsecutive ==
    LET last == Cardinality(Processed) IN
    /\ \A s \in Processed : s > last - failures => outcome[s] # "made"
    /\ failures < last => outcome[last - failures] = "made"

\* What the pass counts as generated is in the table, also after the rollbacks
\* of later symbols.
GeneratedAreStored == generated = Cardinality({s \in Symbols : stored[s] = "new"})

\* When the LLM is down the summaries of the symbols not reached survive
\* (_link_symbol_evidence's comment), and those symbols are not touched.
UnreachedKeepTheirs ==
    [][\A s \in Symbols : s > cur => stored'[s] = stored[s]]_vars

\* The bar shows no more than what was processed (the comment at the last
\* progress commit).
ProgressIsHonest == progress <= Cardinality(Processed)

\* The pass ends, however often the provider answers 429.
PassEnds == <>(pc \in {"done", "interrupted"})

\* A symbol whose call brought no summary is left without one: "if it fails
\* only that symbol's summary is empty" (generate_repo_summaries), since the
\* old one does not cite the evidence linked now.
FailedSymbolIsEmpty ==
    pc = "done" => \A s \in Symbols : outcome[s] = "unavailable" => stored[s] # "old"
=============================================================================
