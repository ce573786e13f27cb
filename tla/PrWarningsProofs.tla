-------------------------- MODULE PrWarningsProofs --------------------------
(***************************************************************************)
(* What holds of PrWarnings with any number of pushes: whatever the        *)
(* faults, that a warning on record was told and a clean pull request is   *)
(* left in peace; of handlers in order, that the comment, the row and the  *)
(* last verdict agree.                                                     *)
(***************************************************************************)
EXTENDS PrWarnings, TLAPS

\* Before the first event.
LEMMA TypeInit == Init => TypeOK
BY DEF Init, TypeOK, NoRow, Rows, Ids, PCs, Running, Settled

\* Judging leads to a place that exists.
LEMMA JudgingType ==
    ASSUME TypeOK, NEW e \in Events
    PROVE  /\ AfterJudging(e) \in {"done", "clear", "delete", "update", "create"}
           /\ AfterJudging(e) \in {"update", "create"} => warns[e]
           /\ AfterJudging(e) \in {"clear", "update"} => row.comment # None
           /\ AfterJudging(e) \in {"done", "clear", "delete"} => ~warns[e]
           /\ AfterJudging(e) \in {"clear", "delete"} <=> ~warns[e] /\ row # NoRow
           /\ AfterJudging(e) = "delete" => row.comment = None
           /\ AfterJudging(e) = "create" => row.comment = None
<1>1. warns[e] \in BOOLEAN
  BY DEF TypeOK
<1>2. CASE ~warns[e] /\ row = NoRow
  BY <1>2 DEF AfterJudging, NoRow
<1>3. CASE ~warns[e] /\ row # NoRow /\ row.comment # None
  BY <1>3 DEF AfterJudging
<1>4. CASE ~warns[e] /\ row # NoRow /\ row.comment = None
  BY <1>4 DEF AfterJudging
<1>5. CASE warns[e] /\ row.comment # None
  BY <1>5 DEF AfterJudging
<1>6. CASE warns[e] /\ row.comment = None
  BY <1>6 DEF AfterJudging
<1>. QED
  BY <1>1, <1>2, <1>3, <1>4, <1>5, <1>6

\* Every write to the row, to a comment or to what a handler remembers keeps to
\* the names of the events.
LEMMA TypeNext == TypeOK /\ [Next]_vars => TypeOK'
<1> SUFFICES ASSUME TypeOK, [Next]_vars PROVE TypeOK'
  OBVIOUS
<1> USE DEF TypeOK, Goto
<1>p. \A e \in Events : \A p \in PCs : [pc EXCEPT ![e] = p] \in [Events -> PCs]
  OBVIOUS
<1>q. {"judge", "clear", "delete", "update", "create", "items", "upsert", "refresh",
       "stamp", "done", "failed", "lost"} \subseteq PCs
  BY DEF PCs, Running, Settled
<1>r. None \in Ids /\ Events \subseteq Ids
  BY DEF Ids
<1>1. ASSUME NEW e \in Events, Lose(e) \/ Receive(e) PROVE TypeOK'
  BY <1>1, <1>p, <1>q DEF Lose, Receive
<1>2. ASSUME NEW e \in Events, Judge(e) PROVE TypeOK'
  BY <1>2, <1>p, <1>q, JudgingType DEF Judge
<1>3. ASSUME NEW e \in Events, CallFails(e) PROVE TypeOK'
  BY <1>3, <1>p, <1>q, <1>r DEF CallFails, NoCall, Say
<1>4. ASSUME NEW e \in Events, ClearComment(e) PROVE TypeOK'
  BY <1>4, <1>p, <1>q, <1>r DEF ClearComment, NoCall, Say
<1>5. ASSUME NEW e \in Events, UpdateComment(e) \/ CommentGone(e) PROVE TypeOK'
  <2>1. seen[e].comment \in Ids
    BY DEF Rows
  <2>. QED
    BY <1>5, <1>p, <1>q, <1>r, <2>1 DEF UpdateComment, CommentGone, Say
<1>6. ASSUME NEW e \in Events, CreateComment(e) PROVE TypeOK'
  BY <1>6, <1>p, <1>q, <1>r DEF CreateComment, Say
<1>7. ASSUME NEW e \in Events, DeleteRow(e) PROVE TypeOK'
  <2>1. NoRow \in Rows
    BY <1>r DEF NoRow, Rows
  <2>. QED
    BY <1>7, <1>p, <1>q, <2>1 DEF DeleteRow
<1>8. ASSUME NEW e \in Events, ReadItems(e) PROVE TypeOK'
  <2>1. seen' \in [Events -> Rows]
    BY <1>8 DEF ReadItems, Rows
  <2>. QED
    BY <1>8, <1>p, <1>q, <2>1 DEF ReadItems
<1>9. ASSUME NEW e \in Events, UpsertRow(e) PROVE TypeOK'
  <2>1. row' \in Rows
    BY <1>9, <1>r DEF UpsertRow, Rows
  <2>2. seen' \in [Events -> Rows]
    BY <1>9, <2>1 DEF UpsertRow, Rows
  <2>. QED
    BY <1>9, <1>p, <1>q, <2>1, <2>2 DEF UpsertRow
<1>10. ASSUME NEW e \in Events, RefreshRow(e) PROVE TypeOK'
  BY <1>10, <1>p, <1>q DEF RefreshRow
<1>11. ASSUME NEW e \in Events, StampRow(e) PROVE TypeOK'
  <2>1. row' \in Rows
    BY <1>11 DEF StampRow, Rows
  <2>. QED
    BY <1>11, <1>p, <1>q, <2>1 DEF StampRow
<1>12. ASSUME NEW e \in Events, CommitFails(e) PROVE TypeOK'
  BY <1>12, <1>p, <1>q DEF CommitFails
<1>13. ASSUME NEW e \in Events, DeleteByHand(e) PROVE TypeOK'
  BY <1>13, <1>r DEF DeleteByHand
<1>14. CASE Crash
  BY <1>14, <1>q DEF Crash
<1>15. CASE UNCHANGED vars
  BY <1>15 DEF vars
<1>. QED
  BY <1>1, <1>2, <1>3, <1>4, <1>5, <1>6, <1>7, <1>8, <1>9, <1>10, <1>11, <1>12,
     <1>13, <1>14, <1>15 DEF Next, Handle

\* The row and the comments name pushes of this pull request only.
THEOREM TypeCorrect == Spec => []TypeOK
BY TypeInit, TypeNext, PTL DEF Spec
-----------------------------------------------------------------------------
\* A handler that writes to the history has a warning, and has told it.
ToldInv ==
    /\ WarningsAreTold
    /\ \A e \in Events :
         /\ pc[e] \in {"update", "create"} => warns[e]
         /\ pc[e] \in {"items", "upsert", "refresh", "stamp"} => warns[e] /\ e \in told

LEMMA ToldInit == Init => ToldInv
BY DEF Init, ToldInv, WarningsAreTold, NoRow

\* Nothing that was told is taken back, and only UpsertRow adds to the history.
LEMMA ToldNext == TypeOK /\ ToldInv /\ [Next]_vars => ToldInv'
<1> SUFFICES ASSUME TypeOK, ToldInv, [Next]_vars PROVE ToldInv'
  OBVIOUS
<1> USE DEF ToldInv, WarningsAreTold, Goto
<1>1. told \subseteq told' /\ warns' = warns
  <2>1. ASSUME NEW e \in Events, Handle(e) PROVE told \subseteq told' /\ warns' = warns
    BY <2>1 DEF Handle, Receive, Judge, CallFails, ClearComment, UpdateComment, CommentGone,
                CreateComment, DeleteRow, ReadItems, UpsertRow, RefreshRow, StampRow,
                CommitFails, NoCall, Say
  <2>2. ASSUME NEW e \in Events, Lose(e) \/ DeleteByHand(e)
        PROVE  told \subseteq told' /\ warns' = warns
    BY <2>2 DEF Lose, DeleteByHand
  <2>3. CASE Crash \/ UNCHANGED vars
    BY <2>3 DEF Crash, vars
  <2>. QED
    BY <2>1, <2>2, <2>3 DEF Next
<1>2. ASSUME NEW e \in Events, NEW p, pc' = [pc EXCEPT ![e] = p],
             row'.items \subseteq row.items, row'.head \in {row.head, None},
             p \in {"update", "create"} => warns[e],
             p \in {"items", "upsert", "refresh", "stamp"} => warns[e] /\ e \in told'
      PROVE  ToldInv'
  BY <1>1, <1>2 DEF TypeOK
<1>3. ASSUME NEW e \in Events, Lose(e) \/ Receive(e) \/ CommitFails(e) \/ CallFails(e)
      PROVE  ToldInv'
  BY <1>2, <1>3 DEF Lose, Receive, CommitFails, CallFails
<1>4. ASSUME NEW e \in Events, Judge(e) PROVE ToldInv'
  BY <1>2, <1>4, JudgingType DEF Judge
<1>5. ASSUME NEW e \in Events, ClearComment(e) \/ UpdateComment(e) \/ CommentGone(e)
      PROVE  ToldInv'
  BY <1>2, <1>5 DEF ClearComment, UpdateComment, CommentGone, Say
<1>6. ASSUME NEW e \in Events, CreateComment(e) PROVE ToldInv'
  BY <1>2, <1>6 DEF CreateComment, Say
<1>7. ASSUME NEW e \in Events, DeleteRow(e) PROVE ToldInv'
  <2>1. row'.items \subseteq row.items /\ row'.head \in {row.head, None}
    BY <1>7 DEF DeleteRow, NoRow
  <2>. QED
    BY <1>2, <1>7, <2>1 DEF DeleteRow
<1>8. ASSUME NEW e \in Events, ReadItems(e) \/ RefreshRow(e) PROVE ToldInv'
  BY <1>1, <1>2, <1>8 DEF ReadItems, RefreshRow
<1>9. ASSUME NEW e \in Events, UpsertRow(e) PROVE ToldInv'
  <2>1. warns[e] /\ e \in told /\ pc' = [pc EXCEPT ![e] = "refresh"]
    BY <1>9 DEF UpsertRow
  <2>2. row'.items \subseteq row.items \cup {e} /\ row'.head = e
    BY <1>9 DEF UpsertRow, TypeOK, Rows
  <2>. QED
    BY <1>1, <2>1, <2>2 DEF TypeOK
<1>10. ASSUME NEW e \in Events, StampRow(e) PROVE ToldInv'
  <2>1. row'.items = row.items /\ row'.head = row.head
    BY <1>10 DEF StampRow, TypeOK, Rows
  <2>. QED
    BY <1>2, <1>10, <2>1 DEF StampRow
<1>11. ASSUME NEW e \in Events, DeleteByHand(e) PROVE ToldInv'
  BY <1>1, <1>11 DEF DeleteByHand
<1>12. CASE Crash
  BY <1>1, <1>12 DEF Crash, TypeOK
<1>13. CASE UNCHANGED vars
  BY <1>13 DEF vars
<1>. QED
  BY <1>3, <1>4, <1>5, <1>6, <1>7, <1>8, <1>9, <1>10, <1>11, <1>12, <1>13 DEF Next, Handle

\* A warning in the history was told on the pull request, whatever failed.
THEOREM RecordedWasTold == Spec => []WarningsAreTold
<1>1. Init => TypeOK /\ ToldInv
  BY TypeInit, ToldInit
<1>2. TypeOK /\ ToldInv /\ [Next]_vars => (TypeOK /\ ToldInv)'
  BY TypeNext, ToldNext
<1>3. ToldInv => WarningsAreTold
  BY DEF ToldInv
<1>. QED
  BY <1>1, <1>2, <1>3, PTL DEF Spec
-----------------------------------------------------------------------------
\* No push with something to warn of has reached a handler.
Quiet == \A e \in Events : warns[e] => pc[e] \in {"sent", "lost"}

\* Until one has, no handler gets past its verdict.
NoiseInv ==
    Quiet =>
        /\ row = NoRow
        /\ \A c \in Events : body[c] = None
        /\ \A e \in Events : pc[e] \in {"sent", "lost", "judge", "done", "failed"}

LEMMA NoiseInit == Init => NoiseInv
BY DEF Init, NoiseInv

\* A pull request that was not quiet never becomes so again.
LEMMA QuietNext == TypeOK /\ [Next]_vars /\ Quiet' => Quiet
<1> SUFFICES ASSUME TypeOK, [Next]_vars, Quiet' PROVE Quiet
  OBVIOUS
<1>1. ASSUME NEW e \in Events, NEW p, pc' = [pc EXCEPT ![e] = p], UNCHANGED warns,
             p \in {"sent", "lost"} => pc[e] = "sent"
      PROVE  Quiet
  BY <1>1 DEF Quiet, TypeOK
<1>2. ASSUME NEW e \in Events, Handle(e) PROVE Quiet
  <2>1. ASSUME Judge(e) PROVE Quiet
    BY <1>1, <2>1, JudgingType DEF Judge, Goto
  <2>. QED
    BY <1>1, <1>2, <2>1 DEF Handle, Receive, CallFails, ClearComment, UpdateComment,
       CommentGone, CreateComment, DeleteRow, ReadItems, UpsertRow, RefreshRow, StampRow,
       CommitFails, Goto
<1>3. ASSUME NEW e \in Events, Lose(e) PROVE Quiet
  BY <1>1, <1>3 DEF Lose, Goto
<1>4. CASE Crash
  BY <1>4 DEF Crash, Quiet, TypeOK, Running
<1>5. ASSUME UNCHANGED <<warns, pc>> PROVE Quiet
  BY <1>5 DEF Quiet
<1>. QED
  BY <1>2, <1>3, <1>4, <1>5 DEF Next, DeleteByHand, vars

LEMMA NoiseNext == TypeOK /\ NoiseInv /\ [Next]_vars => NoiseInv'
<1> SUFFICES ASSUME TypeOK, NoiseInv, [Next]_vars, Quiet'
             PROVE  /\ row' = NoRow
                    /\ \A c \in Events : body'[c] = None
                    /\ \A e \in Events :
                         pc'[e] \in {"sent", "lost", "judge", "done", "failed"}
  BY DEF NoiseInv
<1>1. /\ Quiet /\ row = NoRow
      /\ \A c \in Events : body[c] = None
      /\ \A e \in Events : pc[e] \in {"sent", "lost", "judge", "done", "failed"}
  BY QuietNext DEF NoiseInv
<1> USE <1>1 DEF TypeOK, Goto
<1>2. ASSUME NEW e \in Events, Judge(e)
      PROVE  pc' = [pc EXCEPT ![e] = "done"] /\ UNCHANGED <<row, body>>
  <2>1. ~warns[e]
    BY <1>2 DEF Judge, Quiet
  <2>2. AfterJudging(e) = "done"
    BY <2>1, JudgingType
  <2>. QED
    BY <1>2, <2>2 DEF Judge
<1>3. ASSUME NEW e \in Events, Lose(e) \/ Receive(e)
      PROVE  /\ UNCHANGED <<row, body>>
             /\ \E p \in {"lost", "judge"} : pc' = [pc EXCEPT ![e] = p]
  BY <1>3 DEF Lose, Receive
<1>4. ASSUME NEW e \in Events, CallFails(e)
      PROVE  pc' = [pc EXCEPT ![e] = "failed"] /\ UNCHANGED <<row, body>>
  BY <1>4 DEF CallFails, NoCall
<1>5. ASSUME NEW e \in Events,
             ClearComment(e) \/ UpdateComment(e) \/ CommentGone(e) \/ CreateComment(e)
             \/ DeleteRow(e) \/ ReadItems(e) \/ UpsertRow(e) \/ RefreshRow(e) \/ StampRow(e)
             \/ CommitFails(e) \/ DeleteByHand(e)
      PROVE  FALSE
  BY <1>5 DEF ClearComment, UpdateComment, CommentGone, CreateComment, DeleteRow, ReadItems,
              UpsertRow, RefreshRow, StampRow, CommitFails, DeleteByHand
<1>6. CASE Crash
  BY <1>6 DEF Crash
<1>7. CASE UNCHANGED vars
  BY <1>7 DEF vars
<1>. QED
  BY <1>2, <1>3, <1>4, <1>5, <1>6, <1>7 DEF Next, Handle

\* A pull request without anything to warn of gets no row and no comment.
THEOREM CleanStaysSilent == Spec => []NoNoise
<1>1. Init => TypeOK /\ NoiseInv
  BY TypeInit, NoiseInit
<1>2. TypeOK /\ NoiseInv /\ [Next]_vars => (TypeOK /\ NoiseInv)'
  BY TypeNext, NoiseNext
<1>3. NoiseInv => NoNoise
  BY DEF NoiseInv, NoNoise, Quiet
<1>. QED
  BY <1>1, <1>2, <1>3, PTL DEF Spec
-----------------------------------------------------------------------------
(* Handlers in order. *)

\* Comment t is the only one that may warn.
OnlyWarns(t) == \A c \in Events \ {t} : body[c] # None => ~warns[body[c]]

NoneWarns == OnlyWarns(None)

\* The row of one push, complete.
RowFull ==
    /\ row.id \in Events /\ row.head \in Events /\ row.comment \in Events
    /\ row.items = {row.head}

\* What a handler leaves when it ends: a row and its comment, or neither.
Settles ==
    IF row = NoRow THEN NoneWarns
    ELSE /\ RowFull
         /\ body[row.comment] \in {row.head, None}
         /\ OnlyWarns(row.comment)

\* What a handler at work has read and done so far.
AtWork(e) ==
    /\ pc[e] \in {"judge", "clear", "update", "create"} => Settles
    /\ pc[e] \in {"clear", "delete", "update", "create", "items", "upsert", "stamp"} =>
         seen[e] = row
    /\ pc[e] \in {"clear", "delete", "update"} => RowFull
    /\ pc[e] \in {"clear", "delete"} => ~warns[e]
    /\ pc[e] \in {"delete", "create"} => NoneWarns
    /\ pc[e] \in {"items", "upsert"} => row = NoRow \/ RowFull
    /\ pc[e] \in {"items", "upsert", "refresh", "stamp"} =>
         /\ target[e] \in Events
         /\ body[target[e]] \in {e, None}
         /\ OnlyWarns(target[e])
    /\ pc[e] \in {"refresh", "stamp"} =>
         /\ row.id \in Events /\ row.head = e /\ row.items = {e}
         /\ seen[e].id = row.id

\* Events are taken up one after the other.
OneByOne ==
    \A e \in Events : pc[e] \notin {"sent", "lost"} =>
        \A d \in Events : d < e => pc[d] \in Settled

\* The last push handled to the end, unless the next one's row is written already.
LastDone(e) ==
    /\ pc[e] = "done" /\ \A d \in Events : d > e => pc[d] # "done"
    /\ \A d \in Events : pc[d] \notin {"refresh", "stamp"}

Verdict ==
    \A e \in Events : LastDone(e) =>
        IF warns[e] THEN row.head = e /\ row.items = {e} ELSE row = NoRow

OrderInv ==
    InOrder =>
        /\ OneByOne
        /\ AtRest => Settles
        /\ \A e \in Events : AtWork(e)
        /\ Verdict

LEMMA OrderInit == Init => OrderInv
BY DEF Init, OrderInv, OneByOne, Settles, NoneWarns, OnlyWarns, AtWork, Verdict, LastDone

\* What a step of the handler whose turn it is must do for the invariant.
LEMMA TurnKeepsOrder ==
    ASSUME TypeOK, OrderInv, InOrder, UNCHANGED <<faults, warns>>,
           NEW e \in Events, pc[e] \in Running \cup {"sent"},
           \A d \in Events : d < e => pc[d] \in Settled,
           NEW p \in Running \cup {"done", "failed"}, pc' = [pc EXCEPT ![e] = p],
           p \in Running => AtWork(e)',
           p \in {"done", "failed"} => Settles',
           p = "done" =>
             IF warns[e] THEN row'.head = e /\ row'.items = {e} ELSE row' = NoRow,
           p \notin {"done", "refresh", "stamp"} =>
             row' = row /\ pc[e] \notin {"refresh", "stamp"}
    PROVE  OrderInv'
<1>t. e \in Nat /\ Events \subseteq Nat
  BY PushesAssumption DEF Events
<1>0. pc \in [Events -> PCs] /\ OneByOne /\ Verdict
  BY DEF TypeOK, OrderInv
<1>1. \A d \in Events : d > e => pc[d] \in {"sent", "lost"}
  <2>1. pc[e] \notin Settled
    BY DEF Running, Settled
  <2>. QED
    BY <1>0, <1>t, <2>1 DEF OneByOne
<1>2. \A d \in Events : d # e => pc'[d] = pc[d] /\ pc[d] \notin Running
  <2>1. \A d \in Events : d # e => d < e \/ d > e
    BY <1>t
  <2>2. \A d \in Events : d # e => pc'[d] = pc[d]
    BY <1>0
  <2>. QED
    BY <1>1, <2>1, <2>2 DEF Running, Settled
<1>3. pc'[e] = p
  BY <1>0
<1>4. OneByOne'
  <2> SUFFICES ASSUME NEW f \in Events, pc'[f] \notin {"sent", "lost"},
                      NEW d \in Events, d < f
               PROVE  pc'[d] \in Settled
    BY DEF OneByOne
  <2>1. f = e \/ f < e
    BY <1>1, <1>2, <1>t
  <2>2. d < e /\ d # e
    BY <2>1, <1>t
  <2>. QED
    BY <1>2, <2>2
<1>5. AtRest' => Settles'
  BY <1>3 DEF AtRest
<1>6. ASSUME NEW f \in Events PROVE AtWork(f)'
  <2>1. CASE f # e
    <3>1. pc'[f] \notin Running
      BY <1>2, <2>1
    <3>. QED
      BY <3>1 DEF AtWork, Running
  <2>2. CASE p \in Running /\ f = e
    BY <2>2
  <2>3. CASE p \in {"done", "failed"} /\ f = e
    BY <1>3, <2>3 DEF AtWork
  <2>. QED
    BY <2>1, <2>2, <2>3
<1>7. Verdict'
  <2> SUFFICES ASSUME NEW f \in Events, LastDone(f)'
               PROVE  IF warns[f] THEN row'.head = f /\ row'.items = {f} ELSE row' = NoRow
    BY DEF Verdict
  <2>1. pc'[f] = "done" /\ p \notin {"refresh", "stamp"}
        /\ \A d \in Events : d > f => pc'[d] # "done"
    BY <1>3 DEF LastDone
  <2>2. CASE p = "done"
    <3>1. f = e \/ f < e
      BY <1>1, <1>2, <1>t, <2>1
    <3>2. ~(f < e)
      BY <1>3, <1>t, <2>1, <2>2
    <3>. QED
      BY <2>2, <3>1, <3>2
  <2>3. CASE p # "done"
    <3>1. f # e /\ row' = row /\ pc[e] \notin {"refresh", "stamp", "done"}
      BY <1>3, <2>1, <2>3 DEF Running
    <3>2. LastDone(f)
      BY <1>2, <1>3, <2>1, <3>1 DEF LastDone, Running
    <3>. QED
      BY <1>0, <3>1, <3>2 DEF Verdict
  <2>. QED
    BY <2>2, <2>3
<1>. QED
  BY <1>4, <1>5, <1>6, <1>7 DEF OrderInv

\* A handler at work has the others behind or before it.
LEMMA TurnIsTaken ==
    ASSUME OrderInv, InOrder, NEW e \in Events, pc[e] \in Running
    PROVE  \A d \in Events : d < e => pc[d] \in Settled
BY DEF OrderInv, OneByOne, Running

\* In order no commit is made impossible by another, and none fails.
LEMMA CommitsSucceed ==
    ASSUME OrderInv, InOrder, NEW e \in Events PROVE ~CommitFails(e)
BY DEF OrderInv, InOrder, AtWork, CommitFails, RowAsSeen

LEMMA OrderGitHub ==
    ASSUME TypeOK, OrderInv, InOrder, NEW e \in Events,
           CallFails(e) \/ ClearComment(e) \/ UpdateComment(e) \/ CommentGone(e)
           \/ CreateComment(e)
    PROVE  OrderInv'
<1>1. /\ pc \in [Events -> PCs] /\ body \in [Events -> Ids] /\ seen \in [Events -> Rows]
      /\ target \in [Events -> Ids] /\ AtWork(e)
  BY DEF TypeOK, OrderInv
<1>2. pc[e] \in Running
  BY DEF CallFails, ClearComment, UpdateComment, CommentGone, CreateComment, Goto, Running
<1>3. \A d \in Events : d < e => pc[d] \in Settled
  BY <1>2, TurnIsTaken
<1>4. None \notin Events
  BY DEF None, Events
<1> USE DEF Goto, Say, NoCall
<1>5. ASSUME CallFails(e) PROVE OrderInv'
  <2>1. Settles /\ UNCHANGED <<row, body, warns, faults>>
    BY <1>1, <1>5 DEF AtWork, CallFails, InOrder
  <2>2. Settles'
    BY <2>1 DEF Settles, RowFull, NoneWarns, OnlyWarns
  <2>3. /\ pc' = [pc EXCEPT ![e] = "failed"] /\ pc[e] \notin {"refresh", "stamp"}
        /\ "failed" \notin Running
    BY <1>5 DEF CallFails, Running
  <2>. QED
    BY <1>2, <1>3, <2>1, <2>2, <2>3, TurnKeepsOrder
<1>6. ASSUME ClearComment(e) PROVE OrderInv'
  <2>1. /\ pc[e] = "clear" /\ pc' = [pc EXCEPT ![e] = "delete"]
        /\ UNCHANGED <<faults, warns, row, seen, target>>
    BY <1>6 DEF ClearComment
  <2>2. RowFull /\ seen[e] = row /\ ~warns[e] /\ Settles
    BY <1>1, <2>1 DEF AtWork
  <2>3. OnlyWarns(row.comment) /\ row.comment \in Events
    BY <2>2, <1>4 DEF Settles, RowFull, NoRow
  <2>4. NoneWarns'
    BY <1>1, <1>6, <2>1, <2>2, <2>3 DEF ClearComment, NoneWarns, OnlyWarns
  <2>5. AtWork(e)'
    BY <1>1, <2>1, <2>2, <2>4 DEF AtWork, RowFull
  <2>. QED
    BY <1>2, <1>3, <2>1, <2>5, TurnKeepsOrder DEF Running
<1>7. ASSUME UpdateComment(e) PROVE OrderInv'
  <2>1. /\ pc[e] = "update" /\ pc' = [pc EXCEPT ![e] = "items"]
        /\ UNCHANGED <<faults, warns, row, seen>>
        /\ body' = [body EXCEPT ![seen[e].comment] = e]
        /\ target' = [target EXCEPT ![e] = seen[e].comment]
    BY <1>7 DEF UpdateComment
  <2>2. RowFull /\ seen[e] = row /\ Settles
    BY <1>1, <2>1 DEF AtWork
  <2>3. OnlyWarns(row.comment) /\ row.comment \in Events
    BY <2>2, <1>4 DEF Settles, RowFull, NoRow
  <2>4. target'[e] = row.comment /\ body'[row.comment] = e
    BY <1>1, <2>1, <2>2, <2>3
  <2>5. OnlyWarns(row.comment)'
    BY <1>1, <2>1, <2>2, <2>3 DEF OnlyWarns
  <2>6. AtWork(e)'
    BY <1>1, <2>1, <2>2, <2>3, <2>4, <2>5 DEF AtWork, RowFull, OnlyWarns
  <2>. QED
    BY <1>2, <1>3, <2>1, <2>6, TurnKeepsOrder DEF Running
<1>8. ASSUME CommentGone(e) PROVE OrderInv'
  <2>1. /\ pc[e] = "update" /\ pc' = [pc EXCEPT ![e] = "create"]
        /\ UNCHANGED <<faults, warns, row, body, seen, target>>
        /\ body[seen[e].comment] = None
    BY <1>8 DEF CommentGone
  <2>2. RowFull /\ seen[e] = row /\ Settles
    BY <1>1, <2>1 DEF AtWork
  <2>3. OnlyWarns(row.comment) /\ row.comment \in Events
    BY <2>2, <1>4 DEF Settles, RowFull, NoRow
  <2>4. NoneWarns'
    BY <2>1, <2>2, <2>3 DEF NoneWarns, OnlyWarns
  <2>5. Settles'
    BY <2>1, <2>2 DEF Settles, RowFull, NoneWarns, OnlyWarns
  <2>6. AtWork(e)'
    BY <1>1, <2>1, <2>2, <2>4, <2>5 DEF AtWork
  <2>. QED
    BY <1>2, <1>3, <2>1, <2>6, TurnKeepsOrder DEF Running
<1>9. ASSUME CreateComment(e) PROVE OrderInv'
  <2>1. /\ pc[e] = "create" /\ pc' = [pc EXCEPT ![e] = "items"]
        /\ UNCHANGED <<faults, warns, row, seen>>
        /\ body' = [body EXCEPT ![e] = e]
        /\ target' = [target EXCEPT ![e] = e]
    BY <1>9 DEF CreateComment
  <2>2. seen[e] = row /\ Settles /\ NoneWarns
    BY <1>1, <2>1 DEF AtWork
  <2>3. row = NoRow \/ RowFull
    BY <2>2 DEF Settles
  <2>4. target'[e] = e /\ body'[e] = e
    BY <1>1, <2>1
  <2>5. OnlyWarns(e)'
    BY <1>1, <1>4, <2>1, <2>2 DEF NoneWarns, OnlyWarns
  <2>6. AtWork(e)'
    BY <1>1, <2>1, <2>2, <2>3, <2>4, <2>5 DEF AtWork, RowFull, OnlyWarns
  <2>. QED
    BY <1>2, <1>3, <2>1, <2>6, TurnKeepsOrder DEF Running
<1>. QED
  BY <1>5, <1>6, <1>7, <1>8, <1>9

LEMMA OrderCommits ==
    ASSUME TypeOK, ToldInv, OrderInv, InOrder, NEW e \in Events,
           DeleteRow(e) \/ ReadItems(e) \/ UpsertRow(e) \/ RefreshRow(e) \/ StampRow(e)
    PROVE  OrderInv'
<1>1. /\ pc \in [Events -> PCs] /\ body \in [Events -> Ids] /\ seen \in [Events -> Rows]
      /\ target \in [Events -> Ids] /\ row \in Rows /\ warns \in [Events -> BOOLEAN]
      /\ AtWork(e)
  BY DEF TypeOK, OrderInv
<1>2. pc[e] \in Running
  BY DEF DeleteRow, ReadItems, UpsertRow, RefreshRow, StampRow, Goto, Running
<1>3. \A d \in Events : d < e => pc[d] \in Settled
  BY <1>2, TurnIsTaken
<1>4. None \notin Events
  BY DEF None, Events
<1>5. pc[e] \in {"items", "upsert", "refresh", "stamp"} => warns[e]
  BY DEF ToldInv
<1> USE DEF Goto, RowAsSeen
<1>6. ASSUME DeleteRow(e) PROVE OrderInv'
  <2>1. /\ pc[e] = "delete" /\ pc' = [pc EXCEPT ![e] = "done"]
        /\ UNCHANGED <<faults, warns, body>>
    BY <1>6 DEF DeleteRow
  <2>2. seen[e] = row /\ ~warns[e] /\ NoneWarns
    BY <1>1, <2>1 DEF AtWork
  <2>3. row' = NoRow
    BY <1>6, <2>2 DEF DeleteRow
  <2>4. Settles'
    BY <2>1, <2>2, <2>3 DEF Settles, NoneWarns, OnlyWarns
  <2>. QED
    BY <1>2, <1>3, <2>1, <2>2, <2>3, <2>4, TurnKeepsOrder DEF Running
<1>7. ASSUME ReadItems(e) PROVE OrderInv'
  <2>1. /\ pc[e] = "items" /\ pc' = [pc EXCEPT ![e] = "upsert"]
        /\ UNCHANGED <<faults, warns, row, body, target>>
    BY <1>7 DEF ReadItems
  <2>2. /\ seen[e] = row /\ (row = NoRow \/ RowFull)
        /\ target[e] \in Events /\ body[target[e]] \in {e, None} /\ OnlyWarns(target[e])
    BY <1>1, <2>1 DEF AtWork
  <2>3. seen'[e] = row
    <3>1. seen'[e] = [row EXCEPT !.items = row.items]
      BY <1>1, <1>7, <2>2 DEF ReadItems
    <3>. QED
      BY <1>1, <3>1 DEF Rows
  <2>4. pc'[e] = "upsert" /\ (RowFull => RowFull')
        /\ (OnlyWarns(target[e]) => OnlyWarns(target[e])')
    BY <1>1, <2>1 DEF RowFull, OnlyWarns
  <2>5. AtWork(e)'
    BY <2>1, <2>2, <2>3, <2>4 DEF AtWork
  <2>. QED
    BY <1>2, <1>3, <2>1, <2>5, TurnKeepsOrder DEF Running
<1>8. ASSUME UpsertRow(e) PROVE OrderInv'
  <2>1. /\ pc[e] = "upsert" /\ pc' = [pc EXCEPT ![e] = "refresh"]
        /\ UNCHANGED <<faults, warns, body, target>>
    BY <1>8 DEF UpsertRow
  <2>2. /\ seen[e] = row /\ (row = NoRow \/ RowFull)
        /\ target[e] \in Events /\ body[target[e]] \in {e, None} /\ OnlyWarns(target[e])
    BY <1>1, <2>1 DEF AtWork
  <2>3. row'.id \in Events /\ row'.head = e /\ row'.items = {e}
    <3>1. CASE row = NoRow
      BY <1>8, <3>1 DEF UpsertRow
    <3>2. CASE row # NoRow
      <4>1. row' = [row EXCEPT !.head = e, !.items = (row.items \ row.items) \cup {e}]
        BY <1>8, <2>2, <3>2 DEF UpsertRow
      <4>. QED
        BY <1>1, <2>2, <3>2, <4>1 DEF Rows, RowFull
    <3>. QED
      BY <3>1, <3>2
  <2>4. seen'[e].id = row'.id
    BY <1>1, <1>8 DEF UpsertRow, Rows
  <2>5. pc'[e] = "refresh" /\ OnlyWarns(target[e])'
    BY <1>1, <2>1, <2>2 DEF OnlyWarns
  <2>6. AtWork(e)'
    BY <2>1, <2>2, <2>3, <2>4, <2>5 DEF AtWork
  <2>. QED
    BY <1>2, <1>3, <2>1, <2>6, TurnKeepsOrder DEF Running
<1>9. ASSUME RefreshRow(e) PROVE OrderInv'
  <2>1. /\ pc[e] = "refresh" /\ pc' = [pc EXCEPT ![e] = "stamp"]
        /\ UNCHANGED <<faults, warns, row, body, target>>
        /\ seen'[e] = row
    BY <1>1, <1>9 DEF RefreshRow
  <2>2. /\ row.id \in Events /\ row.head = e /\ row.items = {e}
        /\ target[e] \in Events /\ body[target[e]] \in {e, None} /\ OnlyWarns(target[e])
    BY <1>1, <2>1 DEF AtWork
  <2>3. pc'[e] = "stamp" /\ OnlyWarns(target[e])'
    BY <1>1, <2>1, <2>2 DEF OnlyWarns
  <2>4. AtWork(e)'
    BY <2>1, <2>2, <2>3 DEF AtWork
  <2>. QED
    BY <1>2, <1>3, <2>1, <2>4, TurnKeepsOrder DEF Running
<1>10. ASSUME StampRow(e) PROVE OrderInv'
  <2>1. /\ pc[e] = "stamp" /\ pc' = [pc EXCEPT ![e] = "done"]
        /\ UNCHANGED <<faults, warns, body, target>>
    BY <1>10 DEF StampRow
  <2>2. /\ seen[e] = row /\ row.id \in Events /\ row.head = e /\ row.items = {e}
        /\ target[e] \in Events /\ body[target[e]] \in {e, None} /\ OnlyWarns(target[e])
    BY <1>1, <2>1 DEF AtWork
  <2>3. /\ row'.id = row.id /\ row'.head = e /\ row'.items = {e}
        /\ row'.comment = target[e]
    BY <1>1, <1>10, <2>2 DEF StampRow, Rows
  <2>4. row' # NoRow
    BY <1>4, <2>2, <2>3 DEF NoRow
  <2>5. OnlyWarns(target[e])'
    BY <2>1, <2>2 DEF OnlyWarns
  <2>6. Settles'
    BY <2>1, <2>2, <2>3, <2>4, <2>5 DEF Settles, RowFull, OnlyWarns
  <2>. QED
    BY <1>2, <1>3, <1>5, <2>1, <2>3, <2>6, TurnKeepsOrder DEF Running
<1>. QED
  BY <1>6, <1>7, <1>8, <1>9, <1>10

LEMMA OrderByHand ==
    ASSUME TypeOK, OrderInv, InOrder, NEW c \in Events, DeleteByHand(c)
    PROVE  OrderInv'
<1>1. /\ body \in [Events -> Ids] /\ body' = [body EXCEPT ![c] = None]
      /\ UNCHANGED <<faults, warns, row, told, seen, target, pc>>
      /\ OneByOne /\ Verdict /\ (AtRest => Settles) /\ \A e \in Events : AtWork(e)
  BY DEF TypeOK, OrderInv, DeleteByHand
<1>2. \A t : OnlyWarns(t) => OnlyWarns(t)'
  BY <1>1 DEF OnlyWarns
<1>3. NoneWarns => NoneWarns'
  BY <1>1 DEF NoneWarns, OnlyWarns
<1>4. \A t \in Events : body'[t] \in {body[t], None}
  BY <1>1
<1>5. Settles => Settles'
  <2>1. CASE row = NoRow
    BY <1>1, <1>3, <2>1 DEF Settles
  <2>2. CASE row # NoRow
    BY <1>1, <1>2, <1>4, <2>2 DEF Settles, RowFull, OnlyWarns
  <2>. QED
    BY <2>1, <2>2
<1>6. ASSUME NEW e \in Events PROVE AtWork(e)'
  <2>1. pc' = pc /\ seen' = seen /\ row' = row /\ warns' = warns /\ target' = target
    BY <1>1
  <2>2. AtWork(e)
    BY <1>1
  <2>3. RowFull => RowFull'
    BY <2>1 DEF RowFull
  <2>4. pc[e] \in {"items", "upsert", "refresh", "stamp"} =>
          body'[target[e]] \in {e, None} /\ OnlyWarns(target[e])'
    BY <1>2, <1>4, <2>1, <2>2 DEF AtWork, OnlyWarns
  <2>. QED
    BY <1>3, <1>5, <2>1, <2>2, <2>3, <2>4 DEF AtWork
<1>. QED
  BY <1>1, <1>5, <1>6 DEF OrderInv, OneByOne, AtRest, Verdict, LastDone

LEMMA OrderArrival ==
    ASSUME TypeOK, OrderInv, InOrder, NEW e \in Events, Receive(e) \/ Lose(e) \/ Judge(e)
    PROVE  OrderInv'
<1>1. /\ pc \in [Events -> PCs] /\ body \in [Events -> Ids] /\ seen \in [Events -> Rows]
      /\ row \in Rows /\ warns \in [Events -> BOOLEAN]
      /\ OneByOne /\ Verdict /\ (AtRest => Settles) /\ \A f \in Events : AtWork(f)
  BY DEF TypeOK, OrderInv
<1>2. UNCHANGED <<faults, warns, row, body, told, target>>
  BY DEF Receive, Lose, Judge
<1>3. Settles => Settles'
  BY <1>2 DEF Settles, RowFull, NoneWarns, OnlyWarns
<1>4. None \notin Events /\ e \in Nat /\ Events \subseteq Nat
  BY PushesAssumption DEF None, Events
<1> USE DEF Goto
<1>5. ASSUME Receive(e) PROVE OrderInv'
  <2>1. /\ pc[e] = "sent" /\ pc' = [pc EXCEPT ![e] = "judge"]
        /\ \A d \in Events : d < e => pc[d] \in Settled
    BY <1>5 DEF Receive, InOrder
  <2>2. Settles
    <3>1. \A d \in Events : d > e => pc[d] \in {"sent", "lost"}
      BY <1>1, <1>4, <2>1 DEF OneByOne, Settled
    <3>2. \A d \in Events : d = e \/ d < e \/ d > e
      BY <1>4
    <3>3. AtRest
      BY <2>1, <3>1, <3>2 DEF AtRest, Running, Settled
    <3>. QED
      BY <1>1, <3>3
  <2>3. AtWork(e)'
    BY <1>1, <1>3, <2>1, <2>2 DEF AtWork
  <2>. QED
    BY <1>2, <2>1, <2>3, TurnKeepsOrder DEF Running
<1>6. ASSUME Lose(e) PROVE OrderInv'
  <2>1. /\ pc[e] = "sent" /\ pc' = [pc EXCEPT ![e] = "lost"] /\ UNCHANGED seen
    BY <1>6 DEF Lose
  <2>2. \A f \in Events : f # e => pc'[f] = pc[f]
    BY <1>1, <2>1
  <2>3. pc'[e] = "lost"
    BY <1>1, <2>1
  <2>4. OneByOne'
    BY <1>1, <2>1, <2>2, <2>3 DEF OneByOne, Settled
  <2>5. AtRest' => AtRest
    BY <2>1, <2>2 DEF AtRest, Running
  <2>6. ASSUME NEW f \in Events PROVE AtWork(f)'
    <3>1. CASE f = e
      BY <2>3, <3>1 DEF AtWork
    <3>2. CASE f # e
      <4>1. pc'[f] = pc[f] /\ AtWork(f)
        BY <1>1, <2>2, <3>2
      <4>. QED
        BY <1>2, <1>3, <2>1, <4>1 DEF AtWork, RowFull, NoneWarns, OnlyWarns
    <3>. QED
      BY <3>1, <3>2
  <2>7. Verdict'
    BY <1>1, <1>2, <2>1, <2>2, <2>3 DEF Verdict, LastDone
  <2>. QED
    BY <1>1, <1>3, <2>4, <2>5, <2>6, <2>7 DEF OrderInv
<1>7. ASSUME Judge(e) PROVE OrderInv'
  <2>1. /\ pc[e] = "judge" /\ pc' = [pc EXCEPT ![e] = AfterJudging(e)] /\ seen'[e] = row
    BY <1>1, <1>7 DEF Judge
  <2>2. AfterJudging(e) \in {"done", "clear", "delete", "update", "create"}
    BY JudgingType
  <2>3. pc'[e] = AfterJudging(e)
    BY <1>1, <2>1
  <2>4. Settles /\ Settles'
    BY <1>1, <1>3, <2>1 DEF AtWork
  <2>5. row = NoRow \/ (RowFull /\ row.comment # None)
    BY <1>4, <2>4 DEF Settles, RowFull
  <2>6. NoRow.comment = None
    BY DEF NoRow
  <2>7. AfterJudging(e) = "done" => ~warns[e] /\ row = NoRow
    BY JudgingType
  <2>8. AfterJudging(e) # "delete"
    BY <2>5, JudgingType
  <2>9. AfterJudging(e) = "create" => NoneWarns
    BY <2>4, <2>5, JudgingType DEF Settles
  <2>10. AfterJudging(e) \in {"clear", "update"} => RowFull
    BY <2>5, <2>6, JudgingType
  <2>11. AfterJudging(e) = "clear" => ~warns[e]
    BY JudgingType
  <2>12. /\ RowFull => RowFull'
         /\ NoneWarns => NoneWarns'
    BY <1>2 DEF RowFull, NoneWarns, OnlyWarns
  <2>13. AtWork(e)'
    BY <1>2, <2>1, <2>2, <2>3, <2>4, <2>8, <2>9, <2>10, <2>11, <2>12 DEF AtWork
  <2>14. pc[e] \in Running /\ \A d \in Events : d < e => pc[d] \in Settled
    <3>1. pc[e] \in Running
      BY <2>1 DEF Running
    <3>. QED
      BY <3>1, TurnIsTaken
  <2>15. AfterJudging(e) \in Running \cup {"done", "failed"}
    BY <2>2 DEF Running
  <2>. QED
    BY <1>2, <2>1, <2>2, <2>4, <2>7, <2>13, <2>14, <2>15, TurnKeepsOrder
<1>. QED
  BY <1>5, <1>6, <1>7

\* Handled in order and without faults, events keep the comment, the row and the
\* verdict together at every step.
LEMMA OrderNext == TypeOK /\ ToldInv /\ OrderInv /\ [Next]_vars => OrderInv'
<1> SUFFICES ASSUME TypeOK, ToldInv, OrderInv, [Next]_vars, InOrder' PROVE OrderInv'
  BY DEF OrderInv
<1>1. faults' = faults
  BY DEF Next, Handle, Lose, Receive, Judge, CallFails, ClearComment, UpdateComment,
         CommentGone, CreateComment, DeleteRow, ReadItems, UpsertRow, RefreshRow, StampRow,
         CommitFails, DeleteByHand, Crash, vars
<1>2. InOrder
  BY <1>1 DEF InOrder
<1>3. ASSUME NEW e \in Events, Handle(e) \/ Lose(e) \/ DeleteByHand(e) PROVE OrderInv'
  BY <1>2, <1>3, OrderArrival, OrderGitHub, OrderCommits, CommitsSucceed, OrderByHand
     DEF Handle
<1>4. ~Crash
  BY <1>2 DEF Crash, InOrder
<1>5. CASE UNCHANGED vars
  BY <1>5 DEF vars, OrderInv, InOrder, OneByOne, AtRest, Settles, RowFull, NoneWarns,
              OnlyWarns, AtWork, Verdict, LastDone
<1>. QED
  BY <1>3, <1>4, <1>5 DEF Next

LEMMA OrderHolds == Spec => [](TypeOK /\ OrderInv)
<1>1. Init => TypeOK /\ ToldInv /\ OrderInv
  BY TypeInit, ToldInit, OrderInit
<1>2. TypeOK /\ ToldInv /\ OrderInv /\ [Next]_vars => (TypeOK /\ ToldInv /\ OrderInv)'
  BY TypeNext, ToldNext, OrderNext
<1>. QED
  BY <1>1, <1>2, PTL DEF Spec

\* Between the steps of a handler too, one comment warns at most.
LEMMA OrderGivesOneWarning == TypeOK /\ OrderInv => OneWarningComment
<1> SUFFICES ASSUME TypeOK, OrderInv, InOrder PROVE \E t : OnlyWarns(t)
  BY DEF OneWarningComment, OnlyWarns, CommentsThere
<1>1. CASE AtRest
  BY <1>1 DEF OrderInv, Settles, NoneWarns
<1>2. ASSUME NEW e \in Events, pc[e] \in Running PROVE \E t : OnlyWarns(t)
  BY <1>2 DEF OrderInv, AtWork, Settles, NoneWarns, Running
<1>. QED
  BY <1>1, <1>2 DEF AtRest

\* Of handlers in order, at most one comment of the pull request warns.
THEOREM OneWarning == Spec => []OneWarningComment
BY OrderHolds, OrderGivesOneWarning, PTL

\* Of handlers in order, GitHub and the history agree whenever none is at work.
THEOREM CommentAndRowAgree == Spec => []CommentMatchesRow
<1>1. TypeOK /\ OrderInv => CommentMatchesRow
  <2> SUFFICES ASSUME OrderInv, InOrder, AtRest
               PROVE  /\ row # NoRow => /\ row.comment # None
                                        /\ body[row.comment] \in {row.head, None}
                      /\ \A c \in CommentsThere : warns[body[c]] => c = row.comment
    BY DEF CommentMatchesRow
  <2>1. Settles /\ None \notin Events
    BY DEF OrderInv, None, Events
  <2>2. CASE row = NoRow
    BY <2>1, <2>2 DEF Settles, NoneWarns, OnlyWarns, CommentsThere, None, Events
  <2>3. CASE row # NoRow
    BY <2>1, <2>3 DEF Settles, RowFull, OnlyWarns, CommentsThere
  <2>. QED
    BY <2>2, <2>3
<1>. QED
  BY <1>1, OrderHolds, PTL

\* Of handlers in order, the history shows the last verdict whenever none is at
\* work.
THEOREM LastVerdictShown == Spec => []LastVerdictStands
<1>1. TypeOK /\ OrderInv => LastVerdictStands
  BY DEF LastVerdictStands, OrderInv, AtRest, Running, Verdict, LastDone
<1>. QED
  BY <1>1, OrderHolds, PTL
=============================================================================
