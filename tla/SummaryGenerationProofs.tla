---------------------- MODULE SummaryGenerationProofs ----------------------
(***************************************************************************)
(* What holds of a summary pass over any number of symbols, whatever the   *)
(* limits on failures, waits and tries: the streak of failures, the count  *)
(* of summaries and the progress bar say what happened, the pass stops     *)
(* early only for a streak, and no commit touches a symbol further on.     *)
(***************************************************************************)
EXTENDS SummaryGeneration, FiniteSetTheorems, TLAPS

Working == {"delete", "ask", "store"}

\* The number of symbols whose processing has ended.
Ended == IF outcome[cur] = "untouched" THEN cur - 1 ELSE cur

\* Symbols end one after the other.
Sequence ==
    /\ \A s \in Symbols : s < cur => outcome[s] # "untouched"
    /\ \A s \in Symbols : s > cur => outcome[s] = "untouched"
    /\ pc \in Working => outcome[cur] = "untouched"
    /\ pc \in {"next", "finish", "done"} => outcome[cur] # "untouched"
    /\ pc \in {"finish", "done"} => GaveUp \/ cur = N

\* The symbols that ended last are the streak of failures, and a symbol is
\* begun only while it may grow.
Streak ==
    /\ failures <= Ended
    /\ \A s \in Symbols : s > Ended - failures => outcome[s] # "made"
    /\ failures < Ended => outcome[Ended - failures] = "made"
    /\ pc \in Working => failures < MaxFailures

\* New summaries are committed at once, and what is pending deletes none of them.
Table ==
    \A s \in Symbols :
        /\ stored[s] = "new" <=> outcome[s] = "made"
        /\ pending[s] # "write"
        /\ pending[s] = "delete" => s <= cur /\ outcome[s] # "made"

New == {s \in Symbols : stored[s] = "new"}

Counts == generated = Cardinality(New) /\ progress <= Ended

PassInv == Sequence /\ Streak /\ Table /\ Counts
-----------------------------------------------------------------------------
\* What a commit makes of one symbol's summary.
LEMMA CommitApplies ==
    ASSUME TypeOK, NEW p \in [Symbols -> {"keep", "delete", "write"}]
    PROVE  /\ After(p) \in [Symbols -> Summaries]
           /\ \A s \in Symbols : After(p)[s] = "new" <=>
                p[s] = "write" \/ (p[s] = "keep" /\ stored[s] = "new")
           /\ \A s \in Symbols : p[s] = "keep" => After(p)[s] = stored[s]
<1> USE DEF After, TypeOK, Summaries
<1>1. ASSUME NEW s \in Symbols
      PROVE  /\ After(p)[s] \in Summaries
             /\ After(p)[s] = "new" <=>
                  p[s] = "write" \/ (p[s] = "keep" /\ stored[s] = "new")
             /\ p[s] = "keep" => After(p)[s] = stored[s]
  <2>1. CASE p[s] = "keep"
    BY <2>1
  <2>2. CASE p[s] = "delete"
    BY <2>2
  <2>3. CASE p[s] = "write"
    BY <2>3
  <2>. QED
    BY <2>1, <2>2, <2>3
<1>. QED
  BY <1>1

\* The progress commits neither add nor remove a new summary.
LEMMA CommitKeepsNew ==
    ASSUME TypeOK, Table, Commit(pending)
    PROVE  /\ stored' \in [Symbols -> Summaries]
           /\ \A s \in Symbols : stored'[s] = "new" <=> stored[s] = "new"
           /\ \A s \in Symbols : s > cur => stored'[s] = stored[s]
           /\ pending' = Untouched
           /\ New' = New
<1>0. pending \in [Symbols -> {"keep", "delete", "write"}] /\ Symbols \subseteq Nat
  BY DEF TypeOK, Symbols
<1>1. stored' = After(pending) /\ pending' = Untouched
  BY DEF Commit
<1>2. ASSUME NEW s \in Symbols PROVE stored'[s] = "new" <=> stored[s] = "new"
  BY <1>0, <1>1, CommitApplies DEF Table
<1>3. ASSUME NEW s \in Symbols, s > cur PROVE stored'[s] = stored[s]
  <2>1. pending[s] = "keep"
    BY <1>0, <1>3 DEF Table, TypeOK
  <2>. QED
    BY <1>0, <1>1, <2>1, CommitApplies
<1>. QED
  BY <1>0, <1>1, <1>2, <1>3, CommitApplies DEF New

LEMMA UntouchedType ==
    /\ Untouched \in [Symbols -> {"keep", "delete", "write"}]
    /\ \A s \in Symbols : Untouched[s] = "keep"
BY DEF Untouched

LEMMA SymbolsAreBounded ==
    ASSUME NEW S \in SUBSET Symbols
    PROVE  IsFiniteSet(S) /\ Cardinality(S) \in 0..N
<1>1. IsFiniteSet(Symbols) /\ Cardinality(Symbols) = N
  BY FS_Interval, SizesAssumption DEF Symbols
<1>. QED
  BY <1>1, FS_Subset, FS_CardinalityType, SizesAssumption

\* Storing a summary adds exactly one to those the table holds.
LEMMA StoreAddsOne ==
    ASSUME TypeOK, PassInv, StoreSummary
    PROVE  /\ stored' \in [Symbols -> Summaries]
           /\ \A s \in Symbols : stored'[s] = "new" <=> (s = cur \/ stored[s] = "new")
           /\ \A s \in Symbols : s > cur => stored'[s] = stored[s]
           /\ generated' = Cardinality(New')
           /\ generated' \in 0..N
<1> DEFINE p == [pending EXCEPT ![cur] = "write"]
<1>0. p \in [Symbols -> {"keep", "delete", "write"}] /\ Symbols \subseteq Nat
  BY DEF TypeOK, Symbols
<1>p. p[cur] = "write" /\ \A s \in Symbols : s # cur => p[s] = pending[s]
  BY DEF TypeOK
<1>1. stored' = After(p) /\ generated' = generated + 1 /\ pc = "store"
  BY DEF StoreSummary, Commit
<1> HIDE DEF p
<1>2. ASSUME NEW s \in Symbols PROVE stored'[s] = "new" <=> (s = cur \/ stored[s] = "new")
  <2>1. CASE s = cur
    BY <1>0, <1>1, <1>p, <2>1, CommitApplies
  <2>2. CASE s # cur
    <3>1. p[s] = pending[s]
      BY <1>p, <2>2
    <3>2. pending[s] = "delete" => stored[s] # "new"
      BY DEF PassInv, Table
    <3>3. pending[s] \in {"keep", "delete"}
      BY DEF TypeOK, PassInv, Table
    <3>. QED
      BY <1>0, <1>1, <2>2, <3>1, <3>2, <3>3, CommitApplies
  <2>. QED
    BY <2>1, <2>2
<1>3. ASSUME NEW s \in Symbols, s > cur PROVE stored'[s] = stored[s]
  <2>1. p[s] = "keep"
    BY <1>0, <1>p, <1>3 DEF TypeOK, PassInv, Table
  <2>. QED
    BY <1>0, <1>1, <2>1, CommitApplies
<1>4. stored' \in [Symbols -> Summaries]
  BY <1>0, <1>1, CommitApplies
<1>5. cur \in Symbols /\ cur \notin New
  BY <1>1 DEF TypeOK, New, PassInv, Table, Sequence, Working
<1>6. New' = New \cup {cur}
  BY <1>2, <1>5 DEF New
<1>7. IsFiniteSet(New) /\ generated = Cardinality(New)
  BY SymbolsAreBounded DEF PassInv, Counts, New
<1>8. Cardinality(New') = Cardinality(New) + 1
  BY <1>5, <1>6, <1>7, FS_AddElement
<1>9. Cardinality(New') \in 0..N
  <2>1. New' \in SUBSET Symbols
    BY DEF New
  <2>. QED
    BY <2>1, SymbolsAreBounded
<1>. QED
  BY <1>1, <1>2, <1>3, <1>4, <1>7, <1>8, <1>9
-----------------------------------------------------------------------------
LEMMA PassInit == Init => TypeOK /\ PassInv
<1> SUFFICES ASSUME Init PROVE TypeOK /\ PassInv
  OBVIOUS
<1>1. 1 \in Symbols /\ N \in Nat /\ Symbols \subseteq Nat /\ \A s \in Symbols : s >= 1
  BY SizesAssumption DEF Symbols
<1>2. TypeOK
  BY <1>1, SizesAssumption DEF Init, TypeOK, Summaries, Untouched, Outcomes, PCs, MaxReplies
<1>3. New = {}
  BY DEF Init, New
<1>4. Ended = 0
  BY <1>1 DEF Init, Ended
<1>5. Cardinality({}) = 0
  BY FS_EmptySet
<1>6. Sequence
  BY <1>1 DEF Init, Sequence
<1>7. Streak
  BY <1>1, <1>4, SizesAssumption DEF Init, Streak
<1>8. Table
  BY <1>1 DEF Init, Table, Untouched
<1>9. Counts
  BY <1>3, <1>4, <1>5 DEF Init, Counts
<1>. QED
  BY <1>2, <1>6, <1>7, <1>8, <1>9 DEF PassInv

\* A step inside the processing of one symbol, before it ends.
LEMMA InsideStep ==
    ASSUME TypeOK, PassInv, pc \in Working, pc' \in Working,
           UNCHANGED <<stored, cur, failures, generated, outcome, progress>>,
           \A s \in Symbols : \/ pending'[s] \in {"keep", pending[s]}
                              \/ s = cur /\ pending'[s] = "delete"
    PROVE  PassInv'
<1>1. cur \in Nat /\ outcome[cur] = "untouched" /\ Ended' = Ended /\ New' = New
  BY DEF PassInv, Sequence, Ended, New, TypeOK, Symbols
<1>2. Sequence'
  BY DEF PassInv, Sequence, Working
<1>3. Streak'
  BY <1>1 DEF PassInv, Streak
<1>4. Table'
  BY <1>1 DEF PassInv, Table
<1>5. Counts'
  BY <1>1 DEF PassInv, Counts
<1>. QED
  BY <1>2, <1>3, <1>4, <1>5 DEF PassInv

\* The end of a symbol without a summary lengthens the streak.
LEMMA FailStep ==
    ASSUME TypeOK, PassInv, pc \in Working,
           NEW result \in {"unavailable", "limited", "error"}, FailSymbol(result),
           UNCHANGED stored, \A s \in Symbols : pending'[s] \in {"keep", pending[s]}
    PROVE  PassInv' /\ failures' \in 0..MaxFailures
<1>1. /\ cur \in Symbols /\ cur \in Nat /\ outcome[cur] = "untouched"
      /\ outcome \in [Symbols -> Outcomes] /\ failures \in Nat
      /\ Symbols \subseteq Nat
  BY DEF PassInv, Sequence, TypeOK, Symbols
<1>2. /\ outcome' = [outcome EXCEPT ![cur] = result] /\ pc' = "next"
      /\ UNCHANGED <<cur, progress, generated, stored>> /\ failures' = failures + 1
  BY DEF FailSymbol, FinishSymbol
<1>3. outcome'[cur] = result /\ \A s \in Symbols : s # cur => outcome'[s] = outcome[s]
  BY <1>1, <1>2
<1>4. Ended = cur - 1 /\ Ended' = cur /\ New' = New
  BY <1>1, <1>2, <1>3 DEF Ended, New
<1>5. failures < MaxFailures
  BY DEF PassInv, Streak
<1>6. Sequence'
  BY <1>1, <1>2, <1>3 DEF PassInv, Sequence, Working
<1>7. Streak'
  <2>1. Ended' - failures' = Ended - failures
    BY <1>1, <1>2, <1>4
  <2>2. failures' <= Ended' /\ (failures' < Ended' => failures < Ended)
    BY <1>1, <1>2, <1>4 DEF PassInv, Streak
  <2>3. \A s \in Symbols : s > Ended' - failures' => outcome'[s] # "made"
    BY <1>3, <2>1 DEF PassInv, Streak
  <2>4. failures' < Ended' => outcome'[Ended' - failures'] = "made"
    <3>1. CASE failures' < Ended'
      <4>1. outcome[Ended - failures] = "made" /\ Ended - failures \in Symbols
        BY <1>1, <1>4, <2>2, <3>1, SizesAssumption DEF PassInv, Streak, Symbols
      <4>. QED
        BY <1>1, <1>3, <2>1, <4>1
    <3>. QED
      BY <3>1
  <2>. QED
    BY <1>2, <2>2, <2>3, <2>4 DEF Streak, Working
<1>8. Table'
  BY <1>1, <1>2, <1>3 DEF PassInv, Table
<1>9. Counts'
  BY <1>1, <1>2, <1>4 DEF PassInv, Counts, TypeOK
<1>10. failures' \in 0..MaxFailures
  BY <1>1, <1>2, <1>5, SizesAssumption
<1>. QED
  BY <1>6, <1>7, <1>8, <1>9, <1>10 DEF PassInv

LEMMA StoreStep == ASSUME TypeOK, PassInv, StoreSummary PROVE PassInv'
<1>1. /\ cur \in Symbols /\ cur \in Nat /\ outcome[cur] = "untouched"
      /\ outcome \in [Symbols -> Outcomes] /\ progress \in Nat
      /\ Symbols \subseteq Nat
  BY DEF PassInv, Sequence, TypeOK, Symbols, StoreSummary, Working
<1>2. /\ outcome' = [outcome EXCEPT ![cur] = "made"] /\ pc' = "next"
      /\ UNCHANGED <<cur, progress>> /\ failures' = 0 /\ pending' = Untouched
  BY DEF StoreSummary, FinishSymbol, Commit
<1>3. outcome'[cur] = "made" /\ \A s \in Symbols : s # cur => outcome'[s] = outcome[s]
  BY <1>1, <1>2
<1>4. Ended = cur - 1 /\ Ended' = cur
  BY <1>1, <1>2, <1>3 DEF Ended
<1>5. Sequence'
  BY <1>1, <1>2, <1>3 DEF PassInv, Sequence, Working
<1>6. Streak'
  <2>1. \A s \in Symbols : s > cur => outcome'[s] # "made"
    BY <1>1, <1>3 DEF PassInv, Sequence
  <2>. QED
    BY <1>1, <1>2, <1>3, <1>4, <2>1 DEF Streak, Working
<1>7. Table'
  BY <1>2, <1>3, StoreAddsOne, UntouchedType DEF PassInv, Table
<1>8. Counts'
  BY <1>1, <1>2, <1>4, StoreAddsOne DEF PassInv, Counts
<1>. QED
  BY <1>5, <1>6, <1>7, <1>8 DEF PassInv

\* The loop between two symbols and after the last.
LEMMA LoopStep ==
    ASSUME TypeOK, PassInv, NextSymbol \/ Abort \/ Finish \/ Interrupted
    PROVE  PassInv'
<1>1. /\ cur \in Symbols /\ cur \in Nat /\ N \in Nat /\ failures \in Nat
      /\ outcome \in [Symbols -> Outcomes] /\ Symbols \subseteq Nat
      /\ pc \in PCs /\ progress \in Nat
  BY SizesAssumption DEF TypeOK, Symbols
<1>2. UNCHANGED <<outcome, failures, generated>>
  BY DEF NextSymbol, Abort, Finish, Interrupted
<1>3. /\ \A s \in Symbols : stored'[s] = "new" <=> stored[s] = "new"
      /\ New' = New
      /\ \A s \in Symbols : pending'[s] \in {"keep", pending[s]}
  <2>1. CASE Commit(pending)
    BY <2>1, CommitKeepsNew, UntouchedType DEF PassInv
  <2>2. CASE Rollback
    BY <2>2, UntouchedType DEF Rollback, New
  <2>3. CASE UNCHANGED database
    BY <2>3 DEF database, New
  <2>. QED
    BY <2>1, <2>2, <2>3 DEF NextSymbol, Abort, Finish, Interrupted
<1>4. cur' >= cur /\ cur' \in Nat
  BY <1>1 DEF NextSymbol, Abort, Finish, Interrupted
<1>5. Ended' = Ended
  <2>1. CASE cur' = cur
    BY <1>2, <2>1 DEF Ended
  <2>2. CASE cur' # cur
    <3>1. pc = "next" /\ cur < N /\ cur' = cur + 1
      BY <2>2 DEF NextSymbol, Abort, Finish, Interrupted
    <3>2. cur' \in Symbols /\ cur' > cur
      BY <1>1, <3>1 DEF Symbols
    <3>3. outcome[cur'] = "untouched" /\ outcome[cur] # "untouched"
      BY <3>1, <3>2 DEF PassInv, Sequence
    <3>. QED
      BY <1>1, <1>2, <3>1, <3>3 DEF Ended
  <2>. QED
    BY <2>1, <2>2
<1>6. Sequence'
  <2>1. CASE NextSymbol /\ cur < N
    <3>1. cur' = cur + 1 /\ pc' = "delete" /\ pc = "next"
      BY <2>1 DEF NextSymbol
    <3>2. cur' \in Symbols
      BY <1>1, <3>1, <2>1 DEF Symbols
    <3>3. \A s \in Symbols : (s < cur' <=> s < cur \/ s = cur) /\ (s > cur' => s > cur)
      BY <1>1, <3>1
    <3>4. \A s \in Symbols : s < cur' => outcome[s] # "untouched"
      BY <3>1, <3>3 DEF PassInv, Sequence
    <3>5. outcome[cur'] = "untouched"
      BY <1>1, <3>1, <3>2 DEF PassInv, Sequence
    <3>. QED
      BY <1>2, <3>1, <3>3, <3>4, <3>5 DEF PassInv, Sequence
  <2>2. CASE NextSymbol /\ ~(cur < N)
    <3>1. cur' = cur /\ pc' = "finish" /\ pc = "next" /\ cur = N
      BY <1>1, <2>2 DEF NextSymbol, Symbols
    <3>. QED
      BY <1>2, <3>1 DEF PassInv, Sequence, Working
  <2>3. CASE Abort
    BY <1>2, <2>3 DEF Abort, PassInv, Sequence, Working, GaveUp
  <2>4. CASE Finish
    BY <1>2, <2>4 DEF Finish, PassInv, Sequence, Working, GaveUp
  <2>5. CASE Interrupted
    BY <1>2, <2>5 DEF Interrupted, PassInv, Sequence, Working, GaveUp
  <2>. QED
    BY <2>1, <2>2, <2>3, <2>4, <2>5
<1>7. Streak'
  <2>1. pc' \in Working => failures < MaxFailures
    BY <1>1, SizesAssumption
       DEF NextSymbol, Abort, Finish, Interrupted, Working, GaveUp
  <2>. QED
    BY <1>2, <1>5, <2>1 DEF PassInv, Streak
<1>8. Table'
  BY <1>1, <1>2, <1>3, <1>4 DEF PassInv, Table
<1>9. Counts'
  <2>1. progress' <= Ended
    <3>1. CASE progress' = progress
      BY <3>1 DEF PassInv, Counts
    <3>2. CASE pc = "next" /\ progress' = cur
      BY <1>1, <3>2 DEF PassInv, Sequence, Ended
    <3>3. CASE Finish
      <4>1. pc = "finish" /\ progress' = LastProgress
        BY <3>3 DEF Finish
      <4>2. LastProgress = cur /\ Ended = cur
        BY <4>1 DEF PassInv, Sequence, Ended, LastProgress
      <4>. QED
        BY <1>1, <4>1, <4>2
    <3>. QED
      BY <3>1, <3>2, <3>3 DEF NextSymbol, Abort, Interrupted
  <2>. QED
    BY <1>2, <1>3, <1>5, <2>1 DEF PassInv, Counts
<1>. QED
  BY <1>6, <1>7, <1>8, <1>9 DEF PassInv
-----------------------------------------------------------------------------
\* The steps of Working that end in Working, and those that end in a failure.
LEMMA PassNext == TypeOK /\ PassInv /\ [Next]_vars => PassInv'
<1> SUFFICES ASSUME TypeOK, PassInv, [Next]_vars PROVE PassInv'
  OBVIOUS
<1>0. pending \in [Symbols -> {"keep", "delete", "write"}]
  BY DEF TypeOK
<1>1. CASE DeleteSummary
  <2>1. \A s \in Symbols : \/ pending'[s] \in {"keep", pending[s]}
                           \/ s = cur /\ pending'[s] = "delete"
    BY <1>0, <1>1 DEF DeleteSummary
  <2>. QED
    BY <1>1, <2>1, InsideStep DEF DeleteSummary, Working
<1>2. CASE NoHistory \/ GoodReply \/ AskAgain \/ RetryCall
  BY <1>2, InsideStep DEF NoHistory, GoodReply, AskAgain, RetryCall, database, Working
<1>3. CASE WaitForLimit
  BY <1>3, InsideStep, UntouchedType DEF WaitForLimit, Rollback, Working
<1>4. CASE NoSummary
  BY <1>4, FailStep DEF NoSummary, database, Working
<1>5. CASE GiveUpOnLimit
  BY <1>5, FailStep, UntouchedType DEF GiveUpOnLimit, Rollback, Working
<1>6. CASE SymbolError
  BY <1>6, FailStep, UntouchedType DEF SymbolError, Rollback, Working
<1>7. CASE StoreSummary
  BY <1>7, StoreStep
<1>8. CASE NextSymbol \/ Abort \/ Finish \/ Interrupted
  BY <1>8, LoopStep
<1>9. CASE UNCHANGED vars
  BY <1>9 DEF vars, PassInv, Sequence, Streak, Table, Counts, New, Ended, GaveUp
<1>. QED
  BY <1>1, <1>2, <1>3, <1>4, <1>5, <1>6, <1>7, <1>8, <1>9 DEF Next, ProcessSymbol

\* The counts keep their bounds because the streak and the table do.
LEMMA PassTypeNext == TypeOK /\ PassInv /\ [Next]_vars => TypeOK'
<1> SUFFICES ASSUME TypeOK, PassInv, [Next]_vars PROVE TypeOK'
  OBVIOUS
<1>0. /\ N \in Nat /\ MaxWaits \in Nat /\ MaxTries \in Nat \ {0} /\ MaxFailures \in Nat \ {0}
      /\ Symbols \subseteq Nat /\ Symbols \subseteq 0..N
  BY SizesAssumption DEF Symbols
<1> USE DEF PCs
<1>1. CASE DeleteSummary
  <2>1. 1 \in 1..MaxTries /\ 1 \in 1..MaxReplies
    BY <1>0 DEF MaxReplies
  <2>. QED
    BY <1>1, <2>1 DEF DeleteSummary, TypeOK
<1>2. CASE NoHistory \/ GoodReply
  BY <1>2 DEF NoHistory, GoodReply, database, call, TypeOK
<1>3. CASE AskAgain \/ RetryCall
  BY <1>0, <1>3 DEF AskAgain, RetryCall, database, MaxReplies, TypeOK
<1>4. CASE WaitForLimit
  BY <1>0, <1>4, UntouchedType DEF WaitForLimit, MayWait, Rollback, call, TypeOK
<1>5. ASSUME NEW result \in {"unavailable", "limited", "error"}, FailSymbol(result),
             pc \in Working, UNCHANGED stored,
             pending' = pending \/ pending' = Untouched
      PROVE  TypeOK'
  <2>1. failures' \in 0..MaxFailures
    BY <1>0, <1>5 DEF FailSymbol, PassInv, Streak, TypeOK
  <2>2. outcome' \in [Symbols -> Outcomes]
    BY <1>5 DEF FailSymbol, FinishSymbol, Outcomes, TypeOK
  <2>. QED
    BY <1>5, <2>1, <2>2, UntouchedType DEF FailSymbol, FinishSymbol, call, TypeOK
<1>6. CASE NoSummary \/ GiveUpOnLimit \/ SymbolError
  BY <1>5, <1>6 DEF NoSummary, GiveUpOnLimit, SymbolError, Rollback, database, Working
<1>7. CASE StoreSummary
  <2>1. stored' \in [Symbols -> Summaries] /\ generated' \in 0..N
    BY <1>7, StoreAddsOne
  <2>2. outcome' \in [Symbols -> Outcomes]
    BY <1>7 DEF StoreSummary, FinishSymbol, Outcomes, TypeOK
  <2>3. /\ pending' = Untouched /\ failures' = 0 /\ pc' = "next"
        /\ UNCHANGED <<cur, waits, tries, replies, progress>>
    BY <1>7 DEF StoreSummary, FinishSymbol, Commit, call
  <2>4. 0 \in 0..MaxFailures
    BY <1>0
  <2>. QED
    BY <2>1, <2>2, <2>3, <2>4, UntouchedType DEF TypeOK
<1>8. CASE NextSymbol
  <2>1. stored' \in [Symbols -> Summaries]
        /\ pending' \in [Symbols -> {"keep", "delete", "write"}]
    BY <1>8, CommitKeepsNew, UntouchedType DEF NextSymbol, database, PassInv, TypeOK
  <2>2. cur' \in Symbols /\ waits' \in 0..MaxWaits
    BY <1>0, <1>8 DEF NextSymbol, TypeOK, Symbols
  <2>3. progress' \in 0..N
    BY <1>0, <1>8 DEF NextSymbol, TypeOK
  <2>. QED
    BY <1>8, <2>1, <2>2, <2>3 DEF NextSymbol, call, TypeOK
<1>9. CASE Abort
  BY <1>9 DEF Abort, database, call, TypeOK
<1>10. CASE Finish
  <2>1. stored' \in [Symbols -> Summaries]
        /\ pending' \in [Symbols -> {"keep", "delete", "write"}]
    BY <1>10, CommitKeepsNew, UntouchedType DEF Finish, PassInv
  <2>2. progress' \in 0..N
    BY <1>0, <1>10 DEF Finish, LastProgress, TypeOK
  <2>. QED
    BY <1>10, <2>1, <2>2 DEF Finish, call, TypeOK
<1>11. CASE Interrupted
  BY <1>11, UntouchedType DEF Interrupted, Rollback, call, TypeOK
<1>12. CASE UNCHANGED vars
  BY <1>12 DEF vars, TypeOK
<1>. QED
  BY <1>1, <1>2, <1>3, <1>4, <1>6, <1>7, <1>8, <1>9, <1>10, <1>11, <1>12
     DEF Next, ProcessSymbol

\* The counters stay within their limits, and the table within its symbols.
THEOREM PassInvariant == Spec => [](TypeOK /\ PassInv)
<1>1. TypeOK /\ PassInv /\ [Next]_vars => (TypeOK /\ PassInv)'
  BY PassNext, PassTypeNext
<1>. QED
  BY <1>1, PassInit, PTL DEF Spec

THEOREM TypeCorrect == Spec => []TypeOK
BY PassInvariant, PTL
-----------------------------------------------------------------------------
\* The symbols processed are the first ones, and their number is Ended.
LEMMA ProcessedAreFirst ==
    ASSUME TypeOK, PassInv
    PROVE  /\ Processed = 1..Ended /\ Ended \in 0..N
           /\ Cardinality(Processed) = Ended
<1>1. /\ cur \in Symbols /\ cur \in 1..N /\ N \in Nat
      /\ Ended \in Nat /\ Ended <= N /\ Symbols = 1..N
  BY SizesAssumption DEF TypeOK, Symbols, Ended
<1>2. ASSUME NEW s \in Symbols PROVE outcome[s] # "untouched" <=> s <= Ended
  <2>1. s \in Nat /\ cur \in Nat
    BY <1>1
  <2>2. s < cur \/ s = cur \/ s > cur
    BY <2>1
  <2>3. CASE outcome[cur] = "untouched"
    BY <2>1, <2>2, <2>3 DEF PassInv, Sequence, Ended
  <2>4. CASE outcome[cur] # "untouched"
    BY <2>1, <2>2, <2>4 DEF PassInv, Sequence, Ended
  <2>. QED
    BY <2>3, <2>4
<1>3. Processed = 1..Ended
  BY <1>1, <1>2 DEF Processed
<1>4. Cardinality(1..Ended) = Ended
  BY <1>1, FS_Interval
<1>. QED
  BY <1>1, <1>3, <1>4

\* consecutive_failures counts the symbols processed last, back to the last
\* success: a waited-out limit or a rollback does not break or lengthen it.
THEOREM StreakIsConsecutive == Spec => []FailuresAreConsecutive
<1>1. TypeOK /\ PassInv => FailuresAreConsecutive
  BY ProcessedAreFirst DEF FailuresAreConsecutive, PassInv, Streak, Processed
<1>. QED
  BY <1>1, PassInvariant, PTL

\* The value returned is the number of summaries this pass has left in the
\* table, whatever was rolled back.
THEOREM GeneratedIsTrue == Spec => []GeneratedAreStored
<1>1. TypeOK /\ PassInv => GeneratedAreStored
  BY DEF GeneratedAreStored, PassInv, Counts, New
<1>. QED
  BY <1>1, PassInvariant, PTL

\* The progress bar never runs ahead of the symbols processed.
THEOREM BarIsHonest == Spec => []ProgressIsHonest
<1>1. TypeOK /\ PassInv => ProgressIsHonest
  BY ProcessedAreFirst DEF ProgressIsHonest, PassInv, Counts
<1>. QED
  BY <1>1, PassInvariant, PTL

\* No commit, not even one of deletions left pending, changes a symbol the pass
\* has not come to.
THEOREM UnreachedAreKept == Spec => UnreachedKeepTheirs
<1>1. TypeOK /\ PassInv /\ [Next]_vars =>
        [\A s \in Symbols : s > cur => stored'[s] = stored[s]]_vars
  <2> SUFFICES ASSUME TypeOK, PassInv, Next, NEW s \in Symbols, s > cur
               PROVE  stored'[s] = stored[s]
    OBVIOUS
  <2>1. CASE StoreSummary
    BY <2>1, StoreAddsOne
  <2>2. CASE NextSymbol \/ Finish
    BY <2>2, CommitKeepsNew DEF NextSymbol, Finish, database, PassInv
  <2>3. CASE Next /\ ~StoreSummary /\ ~NextSymbol /\ ~Finish
    BY <2>3 DEF Next, ProcessSymbol, DeleteSummary, NoHistory, GoodReply, AskAgain,
       RetryCall, NoSummary, WaitForLimit, GiveUpOnLimit, SymbolError, Abort, Interrupted,
       Rollback, database
  <2>. QED
    BY <2>1, <2>2, <2>3
<1>. QED
  BY <1>1, PassInvariant, PTL DEF Spec, UnreachedKeepTheirs
=============================================================================
