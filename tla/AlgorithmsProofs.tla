-------------------------- MODULE AlgorithmsProofs --------------------------
(***************************************************************************)
(* What the pure algorithms answer for every input that their assumptions  *)
(* allow: the choice of evidence and the check of a reply (ContextPanel),  *)
(* the impact graph (ImpactGraph), the verdict on a changed file           *)
(* (ChangeDetection) and the links of references (ReferenceResolution).    *)
(* The lemmas are about the operators; the theorems at the end, about the  *)
(* answers of Algorithms.                                                  *)
(***************************************************************************)
EXTENDS Algorithms, FiniteSetTheorems, WellFoundedInduction, TLAPS

\* A set of natural numbers has a least one.
LEMMA LeastNumber ==
    ASSUME NEW S \in SUBSET Nat, S # {}
    PROVE  \E m \in S : \A k \in S : m <= k
<1>1. IsWellFoundedOn(OpToRel(<, Nat), Nat)
  BY NatLessThanWellFounded
<1>2. PICK m \in S : \A k \in S : ~ (<<k, m>> \in OpToRel(<, Nat))
  BY <1>1, WFMin
<1>3. ASSUME NEW k \in S PROVE m <= k
  <2>1. k \in Nat /\ m \in Nat
    OBVIOUS
  <2>2. ~ (k < m)
    BY <1>2, <2>1 DEF OpToRel
  <2>. QED
    BY <2>1, <2>2
<1>. QED
  BY <1>3

\* The least of two numbers.
LEMMA MinOfTwo ==
    ASSUME NEW x \in Nat, NEW y \in Nat
    PROVE  Min({x, y}) = IF x <= y THEN x ELSE y
BY DEF Min

\* Adding one smaller number to a set of numbers: it is among the newest k just
\* when there is room for it.
LEMMA NewestOfOneMore ==
    ASSUME NEW S \in SUBSET Nat, IsFiniteSet(S), NEW m \in Nat, NEW k \in Nat,
           \A i \in S : m < i
    PROVE  Newest(S \cup {m}, k) =
             Newest(S, k) \cup (IF Cardinality(S) < k THEN {m} ELSE {})
<1>1. ASSUME NEW i \in S PROVE {j \in S \cup {m} : j > i} = {j \in S : j > i}
  BY <1>1
<1>2. {j \in S \cup {m} : j > m} = S
  <2>1. \A j \in S \cup {m} : j > m <=> j \in S
    OBVIOUS
  <2>. QED
    BY <2>1, Zenon
<1>3. m \notin S
  OBVIOUS
<1>4. ASSUME NEW i
      PROVE  i \in Newest(S \cup {m}, k)
               <=> i \in Newest(S, k) \/ (i = m /\ Cardinality(S) < k)
  BY <1>1, <1>2, <1>3 DEF Newest
<1>. QED
  BY <1>4

\* The newest k of a set are k of it, or all of it: by the smallest set for which
\* it would not be so.
LEMMA NewestSize ==
    ASSUME NEW S \in SUBSET Nat, IsFiniteSet(S), NEW k \in Nat
    PROVE  /\ Newest(S, k) \subseteq S /\ IsFiniteSet(Newest(S, k))
           /\ Cardinality(Newest(S, k)) = Min({k, Cardinality(S)})
<1> DEFINE Fails(T) == Cardinality(Newest(T, k)) # Min({k, Cardinality(T)})
           bad == {c \in Nat : \E T \in SUBSET Nat :
                     IsFiniteSet(T) /\ Cardinality(T) = c /\ Fails(T)}
<1>1. \A T : Newest(T, k) \subseteq T
  BY DEF Newest
<1>2. ASSUME bad # {} PROVE FALSE
  <2>1. PICK c \in bad : \A d \in bad : c <= d
    BY <1>2, LeastNumber
  <2>2. PICK T \in SUBSET Nat : IsFiniteSet(T) /\ Cardinality(T) = c /\ Fails(T)
    BY <2>1
  <2>3. T # {}
    <3>1. ASSUME T = {} PROVE FALSE
      <4>1. Newest(T, k) = {} /\ Cardinality({}) = 0
        BY <1>1, <3>1, FS_EmptySet
      <4>. QED
        BY <2>2, <3>1, <4>1, MinOfTwo
    <3>. QED
      BY <3>1
  <2>4. PICK m \in T : \A i \in T : m <= i
    BY <2>3, LeastNumber
  <2> DEFINE U == T \ {m}
  <2>5. /\ IsFiniteSet(U) /\ Cardinality(U) = c - 1 /\ Cardinality(U) \in Nat
        /\ U \in SUBSET Nat /\ T = U \cup {m} /\ \A i \in U : m < i
        /\ m \in Nat /\ m \notin U
    <3>1. IsFiniteSet(U) /\ Cardinality(U) = c - 1
      BY <2>2, <2>4, FS_RemoveElement
    <3>2. Cardinality(U) \in Nat
      BY <3>1, FS_CardinalityType
    <3>. QED
      BY <2>2, <2>4, <3>1, <3>2
  <2> HIDE DEF U
  <2>6. Cardinality(Newest(U, k)) = Min({k, Cardinality(U)})
    <3>1. c \in Nat /\ ~(c <= Cardinality(U))
      BY <2>5
    <3>2. Cardinality(U) \notin bad
      BY <2>1, <3>1 DEF bad
    <3>. QED
      BY <2>5, <3>2
  <2>7. Newest(T, k) = Newest(U, k) \cup (IF Cardinality(U) < k THEN {m} ELSE {})
    BY <2>5, NewestOfOneMore
  <2>8. IsFiniteSet(Newest(U, k)) /\ m \notin Newest(U, k)
    BY <1>1, <2>5, FS_Subset
  <2>9. Cardinality(Newest(T, k)) =
          Cardinality(Newest(U, k)) + (IF Cardinality(U) < k THEN 1 ELSE 0)
    <3>1. CASE Cardinality(U) < k
      BY <2>7, <2>8, <3>1, FS_AddElement
    <3>2. CASE ~(Cardinality(U) < k)
      <4>1. Newest(T, k) = Newest(U, k) /\ Cardinality(Newest(U, k)) \in Nat
        BY <2>7, <2>8, <3>2, FS_CardinalityType
      <4>. QED
        BY <3>2, <4>1
    <3>. QED
      BY <3>1, <3>2
  <2>10. c \in Nat /\ Min({k, c}) = (IF k <= c THEN k ELSE c)
         /\ Min({k, Cardinality(U)}) = (IF k <= Cardinality(U) THEN k ELSE Cardinality(U))
    BY <2>5, MinOfTwo
  <2>11. Cardinality(Newest(T, k)) = Min({k, c})
    BY <2>5, <2>6, <2>9, <2>10
  <2>. QED
    BY <2>2, <2>11
<1>3. Cardinality(S) \in Nat /\ Cardinality(S) \notin bad
  BY <1>2, FS_CardinalityType
<1>4. ~Fails(S)
  BY <1>3
<1>. QED
  BY <1>1, <1>4, FS_Subset

\* What is not among the newest is older than all that are.
LEMMA NewestIsNewer ==
    ASSUME NEW S \in SUBSET Nat, IsFiniteSet(S), NEW k \in Nat,
           NEW i \in Newest(S, k), NEW j \in S \ Newest(S, k)
    PROVE  j < i
<1>1. i \in S /\ i \in Nat /\ j \in Nat /\ i # j
  BY DEF Newest
<1>2. ASSUME j > i PROVE FALSE
  <2> DEFINE newer(x) == {y \in S : y > x}
  <2>1. newer(j) \subseteq newer(i)
    <3>1. \A y \in S : y > j => y > i
      BY <1>1, <1>2
    <3>. QED
      BY <3>1
  <2>2. IsFiniteSet(newer(i)) /\ IsFiniteSet(newer(j))
    BY FS_Subset
  <2>3. /\ Cardinality(newer(j)) <= Cardinality(newer(i))
        /\ Cardinality(newer(j)) \in Nat /\ Cardinality(newer(i)) \in Nat
    BY <2>1, <2>2, FS_Subset, FS_CardinalityType
  <2>4. Cardinality(newer(i)) < k /\ ~(Cardinality(newer(j)) < k)
    BY DEF Newest
  <2> HIDE DEF newer
  <2>. QED
    BY <2>3, <2>4
<1>. QED
  BY <1>1, <1>2
-----------------------------------------------------------------------------
(* The evidence of the context panel. *)

\* What the panel shows of the evidence, and what the summary uses of it.
LEMMA DisplaySize ==
    ASSUME NEW items, NEW numbers \in SUBSET Nat, IsFiniteSet(numbers), NEW max \in Nat
    PROVE  LET used  == SelectForSummary(items, numbers, max)
               shown == SelectForDisplay(items, numbers, max)
           IN  /\ used \subseteq shown /\ shown \subseteq numbers
               /\ shown \ used \subseteq Newest(numbers \ used, max - Cardinality(used))
               /\ max - Cardinality(used) \in Nat
               /\ IsFiniteSet(shown)
               /\ Cardinality(shown) = Min({max, Cardinality(numbers)})
<1> DEFINE worth == {i \in numbers : ~IsNoise(items[i])}
           used  == Newest(worth, max)
           room  == max - Cardinality(used)
           fill  == Newest(numbers \ used, room)
           shown == used \cup fill
<1>1. worth \in SUBSET Nat /\ worth \subseteq numbers /\ IsFiniteSet(worth)
  BY FS_Subset
<1>2. /\ used \subseteq worth /\ IsFiniteSet(used)
      /\ Cardinality(used) = Min({max, Cardinality(worth)})
  <2> HIDE DEF worth
  <2>. QED
    BY <1>1, NewestSize
<1>3. /\ Cardinality(used) \in Nat /\ Cardinality(numbers) \in Nat /\ Cardinality(worth) \in Nat
      /\ Cardinality(worth) <= Cardinality(numbers)
  <2> HIDE DEF worth, used
  <2>. QED
    BY <1>1, <1>2, FS_CardinalityType, FS_Subset
<1> HIDE DEF worth, used
<1>4. room \in Nat /\ Cardinality(used) <= Cardinality(numbers)
  BY <1>2, <1>3, MinOfTwo
<1>5. /\ IsFiniteSet(numbers \ used) /\ numbers \ used \in SUBSET Nat
      /\ Cardinality(numbers \ used) = Cardinality(numbers) - Cardinality(used)
  <2>1. numbers \cap used = used
    BY <1>1, <1>2
  <2>. QED
    BY <2>1, FS_Difference
<1> HIDE DEF room
<1>6. /\ fill \subseteq numbers \ used /\ IsFiniteSet(fill)
      /\ Cardinality(fill) = Min({room, Cardinality(numbers \ used)})
  BY <1>4, <1>5, NewestSize
<1> HIDE DEF fill
<1>7. /\ IsFiniteSet(shown)
      /\ Cardinality(shown) = Cardinality(used) + Cardinality(fill)
  <2>1. used \cap fill = {}
    BY <1>6
  <2>2. Cardinality(used \cap fill) = 0
    BY <2>1, FS_EmptySet
  <2>3. Cardinality(fill) \in Nat
    BY <1>6, FS_CardinalityType
  <2>4. /\ IsFiniteSet(used \cup fill)
        /\ Cardinality(used \cup fill) =
             Cardinality(used) + Cardinality(fill) - Cardinality(used \cap fill)
    BY <1>2, <1>6, FS_Union
  <2>. QED
    BY <1>3, <2>2, <2>3, <2>4
<1>8. Cardinality(shown) = Min({max, Cardinality(numbers)})
  <2>1. room = max - Cardinality(used)
    BY DEF room
  <2>2. Cardinality(numbers \ used) \in Nat
    BY <1>3, <1>4, <1>5
  <2>3. /\ Min({max, Cardinality(worth)}) =
             IF max <= Cardinality(worth) THEN max ELSE Cardinality(worth)
        /\ Min({max, Cardinality(numbers)}) =
             IF max <= Cardinality(numbers) THEN max ELSE Cardinality(numbers)
        /\ Min({room, Cardinality(numbers \ used)}) =
             IF room <= Cardinality(numbers \ used) THEN room
             ELSE Cardinality(numbers \ used)
    BY <1>3, <1>4, <2>2, MinOfTwo
  <2> HIDE DEF shown
  <2>. QED
    BY <1>2, <1>3, <1>4, <1>5, <1>6, <1>7, <2>1, <2>3
<1>9. used = SelectForSummary(items, numbers, max)
      /\ shown = SelectForDisplay(items, numbers, max)
  BY DEF SelectForSummary, SelectForDisplay, used, worth, fill, room
<1>10. room = max - Cardinality(SelectForSummary(items, numbers, max))
       /\ fill = Newest(numbers \ SelectForSummary(items, numbers, max), room)
  BY <1>9 DEF room, fill
<1>. QED
  BY <1>1, <1>2, <1>4, <1>6, <1>7, <1>8, <1>9, <1>10

\* The rows a pass leaves name the evidence the summary was made from, or none.
LEMMA RowsCiteUsed ==
    ASSUME NEW items, NEW made, NEW max, NEW row \in Summaries(items, made, max)
    PROVE  /\ row.cites \subseteq SelectForSummary(items, made, max)
           /\ row.status \in {"none", "no_history"} => row.cites = {}
           /\ row.status = "none" <=> row = NoRow
           /\ row.status \in {"none", "no_history", "ok", "conflicting"}
BY DEF Summaries, NoRow, Row

\* Whatever the evidence and the row, the panel shows what the summary cites, the
\* newest of the rest in the places left, and says when there is more; it is never
\* empty while there is evidence, and leads out of a directory when there is none.
LEMMA PanelShowsSummary ==
    ASSUME NEW items, NEW made \in SUBSET Nat, IsFiniteSet(made), NEW max \in Nat \ {0},
           NEW numbers \in {made, {}}, NEW row \in Summaries(items, made, max), NEW dir
    PROVE  /\ CoversSummary(items, numbers, Panel(dir, items, numbers, row, max), max)
           /\ IsGroundedPanel(dir, numbers, row, Panel(dir, items, numbers, row, max))
<1> DEFINE used  == SelectForSummary(items, numbers, max)
           shown == SelectForDisplay(items, numbers, max)
           panel == Panel(dir, items, numbers, row, max)
<1>1. numbers \in SUBSET Nat /\ IsFiniteSet(numbers) /\ Cardinality(numbers) \in Nat
  BY FS_EmptySet, FS_CardinalityType
<1>2. /\ used \subseteq shown /\ shown \subseteq numbers
      /\ shown \ used \subseteq Newest(numbers \ used, max - Cardinality(used))
      /\ max - Cardinality(used) \in Nat
      /\ IsFiniteSet(shown)
      /\ Cardinality(shown) = Min({max, Cardinality(numbers)})
  BY <1>1, DisplaySize
<1>3. /\ panel.evidence = shown /\ panel.truncated = (shown # numbers)
      /\ panel.status = StatusOf(row, shown)
      /\ panel.parent = IF panel.status = "no_history" THEN ParentModule(dir) ELSE {}
      /\ panel.cites = IF row # NoRow /\ panel.status = row.status THEN row.cites ELSE {}
  BY DEF Panel
<1>4. shown = {} <=> numbers = {}
  <2>1. Cardinality(shown) = 0 <=> shown = {}
    BY <1>2, FS_EmptySet
  <2>2. Cardinality(numbers) = 0 <=> numbers = {}
    BY <1>1, FS_EmptySet
  <2>. QED
    BY <1>1, <1>2, <2>1, <2>2, MinOfTwo
<1>5. panel.status = IF numbers = {} THEN "no_history"
                     ELSE IF row # NoRow THEN row.status ELSE "ok"
  BY <1>3, <1>4 DEF StatusOf
<1>6. panel.cites \subseteq used /\ (panel.cites # {} => row # NoRow /\ numbers # {})
  <2>1. CASE numbers = {}
    BY <1>3, <1>5, <2>1, RowsCiteUsed
  <2>2. CASE numbers = made
    <3>1. row.cites \subseteq used
      BY <2>2, RowsCiteUsed
    <3>2. numbers = {} => used = {}
      BY <1>2
    <3> HIDE DEF panel, used
    <3>. QED
      BY <1>3, <3>1, <3>2
  <2>. QED
    BY <2>1, <2>2
<1> HIDE DEF panel, shown, used
<1>7. \A i \in shown \ used, j \in numbers \ shown : j < i
  <2> SUFFICES ASSUME NEW i \in shown \ used, NEW j \in numbers \ shown PROVE j < i
    OBVIOUS
  <2> DEFINE rest == numbers \ used
             room == max - Cardinality(used)
  <2>1. rest \in SUBSET Nat /\ IsFiniteSet(rest) /\ room \in Nat
    BY <1>1, <1>2, FS_Subset
  <2>2. i \in Newest(rest, room)
    BY <1>2
  <2>3. j \in rest \ Newest(rest, room)
    <3>1. shown = used \cup Newest(rest, room)
      BY DEF shown, used, SelectForDisplay
    <3>. QED
      BY <1>2, <3>1
  <2> HIDE DEF rest, room
  <2>. QED
    BY <2>1, <2>2, <2>3, NewestIsNewer
<1>8. shown # numbers <=> Cardinality(numbers) > max
  <2>1. shown \in SUBSET numbers
    BY <1>2
  <2>2. Cardinality(numbers) = Cardinality(shown) => numbers = shown
    BY <1>1, <2>1, FS_Subset
  <2>3. Min({max, Cardinality(numbers)}) =
          IF max <= Cardinality(numbers) THEN max ELSE Cardinality(numbers)
    BY <1>1, MinOfTwo
  <2>4. CASE shown = numbers
    BY <1>1, <1>2, <2>3, <2>4
  <2>5. CASE shown # numbers
    BY <1>1, <1>2, <2>2, <2>3, <2>5
  <2>. QED
    BY <2>4, <2>5
<1>9. CoversSummary(items, numbers, panel, max)
  BY <1>2, <1>3, <1>6, <1>7, <1>8 DEF CoversSummary, used
<1>10. IsGroundedPanel(dir, numbers, row, panel)
  BY <1>3, <1>4, <1>5, <1>6 DEF IsGroundedPanel, ParentModule
<1>. QED
  BY <1>9, <1>10 DEF panel

\* The narrowest symbols around a line, if any symbol is around it.
LEMMA InnermostExists ==
    ASSUME NEW symbols, \A s \in symbols : s.first \in Int /\ s.last \in Int,
           NEW line \in Int, NEW t \in symbols, line \in t.first..t.last
    PROVE  Innermost(symbols, line) # {}
<1> DEFINE covering == {s \in symbols : line \in s.first..s.last}
           widths == {s.last - s.first : s \in covering}
<1>1. widths \in SUBSET Nat /\ widths # {}
  OBVIOUS
<1>2. PICK w \in widths : \A v \in widths : w <= v
  BY <1>1, LeastNumber
<1>3. PICK s \in covering : w = s.last - s.first
  BY <1>2
<1>4. \A u \in covering : s.last - s.first <= u.last - u.first
  BY <1>2, <1>3
<1>5. s \in Innermost(symbols, line)
  BY <1>3, <1>4 DEF Innermost
<1>. QED
  BY <1>5

\* The panel of a line is about the innermost symbol that holds it.
LEMMA AboutTheLine ==
    ASSUME NEW symbols, \A s \in symbols : s.first \in Int /\ s.last \in Int,
           NEW line \in Int, NEW shown \in SUBSET Innermost(symbols, line),
           shown = {} => Innermost(symbols, line) = {}
    PROVE  IsAboutTheLine(symbols, line, shown)
<1>1. shown = {} => \A t \in symbols : ~(line \in t.first..t.last)
  BY InnermostExists
<1>2. ASSUME NEW s \in shown
      PROVE  /\ line \in s.first..s.last
             /\ \A t \in symbols :
                  (line \in t.first..t.last /\ s.first <= t.first /\ t.last <= s.last)
                    => t.first = s.first /\ t.last = s.last
  <2>1. /\ s \in symbols /\ line \in s.first..s.last
        /\ \A t \in symbols : line \in t.first..t.last =>
             s.last - s.first <= t.last - t.first
    BY DEF Innermost
  <2>. QED
    BY <2>1
<1>. QED
  BY <1>1, <1>2 DEF IsAboutTheLine

\* For any file, line, evidence and rows: the answer is about the innermost symbol
\* of the line, or about the whole file, and keeps the promises of the panel.
LEMMA ContextIsGrounded ==
    ASSUME NEW symbols, \A s \in symbols : s.first \in Int /\ s.last \in Int,
           NEW dir, NEW line \in Int, NEW n \in Nat, NEW items, NEW max \in Nat \ {0},
           NEW made \in [symbols -> SUBSET (1..n)], NEW linked, NEW rows,
           \A s \in symbols : /\ linked[s] \in {made[s], {}}
                              /\ rows[s] \in Summaries(items, made[s], max),
           NEW answer \in Context(symbols, dir, line, items, linked, rows, max)
    PROVE  /\ IsAboutTheLine(symbols, line, answer.symbol)
           /\ answer.symbol = {} \/ \E s \in symbols : answer.symbol = {s}
           /\ \A s \in answer.symbol :
                /\ CoversSummary(items, linked[s], answer.panel, max)
                /\ IsGroundedPanel(dir, linked[s], rows[s], answer.panel)
           /\ answer.symbol = {} =>
                LET all == LoadEvidence(linked, symbols)
                IN  /\ CoversSummary(items, all, answer.panel, max)
                    /\ IsGroundedPanel(dir, all, NoRow, answer.panel)
<1>0. ASSUME NEW S \in SUBSET (1..n) PROVE S \in SUBSET Nat /\ IsFiniteSet(S)
  <2>1. IsFiniteSet(1..n) /\ 1..n \in SUBSET Nat
    BY FS_Interval
  <2>2. IsFiniteSet(S)
    BY <2>1, FS_Subset
  <2>. QED
    BY <2>1, <2>2
<1>1. CASE Innermost(symbols, line) = {}
  <2> DEFINE all == LoadEvidence(linked, symbols)
  <2>1. answer = [symbol |-> {}, panel |-> Panel(dir, items, all, NoRow, max)]
    BY <1>1 DEF Context
  <2>2. all \in SUBSET (1..n)
    BY DEF LoadEvidence
  <2>3. NoRow \in Summaries(items, all, max)
    BY DEF Summaries
  <2> HIDE DEF all
  <2>4. /\ CoversSummary(items, all, Panel(dir, items, all, NoRow, max), max)
        /\ IsGroundedPanel(dir, all, NoRow, Panel(dir, items, all, NoRow, max))
    BY <1>0, <2>2, <2>3, PanelShowsSummary
  <2>5. IsAboutTheLine(symbols, line, {})
    BY <1>1, AboutTheLine
  <2>. QED
    BY <2>1, <2>4, <2>5 DEF all
<1>2. CASE Innermost(symbols, line) # {}
  <2>1. PICK s \in Innermost(symbols, line) :
          answer = [symbol |-> {s},
                    panel |-> Panel(dir, items, LoadEvidence(linked, {s}), rows[s], max)]
    BY <1>2 DEF Context
  <2>2. s \in symbols
    BY DEF Innermost
  <2>3. LoadEvidence(linked, {s}) = linked[s]
    BY DEF LoadEvidence
  <2>4. made[s] \in SUBSET Nat /\ IsFiniteSet(made[s])
    BY <1>0, <2>2
  <2>5. linked[s] \in {made[s], {}} /\ rows[s] \in Summaries(items, made[s], max)
    BY <2>2
  <2>6. /\ CoversSummary(items, linked[s], Panel(dir, items, linked[s], rows[s], max), max)
        /\ IsGroundedPanel(dir, linked[s], rows[s], Panel(dir, items, linked[s], rows[s], max))
    BY <2>4, <2>5, PanelShowsSummary
  <2>7. IsAboutTheLine(symbols, line, {s})
    BY <2>1, AboutTheLine
  <2>. QED
    BY <2>1, <2>2, <2>3, <2>6, <2>7
<1>. QED
  BY <1>1, <1>2

\* For any reply, however many sentences it has and whatever they cite: what is
\* stored cites evidence the model was given and did not drop, a rejected reply is
\* not "no history", and a conflict needs two commits.
LEMMA StoredRepliesAreGrounded ==
    ASSUME NEW reply, NEW used, IsFiniteSet(used), NEW row \in Validate(reply, used)
    PROVE  IsGroundedRow(reply, used, row)
<1> DEFINE kept == {s \in reply.sentences : IsGrounded(s, used, reply.dropped)}
<1>1. \A s \in kept : s.cites # {} /\ s.cites \subseteq used \ reply.dropped
  BY DEF IsGrounded
<1>2. CASE kept # {}
  <2> DEFINE status == IF IsConflict(reply, used) THEN "conflicting" ELSE "ok"
  <2>1. PICK said \in (SUBSET kept) \ {{}} : row = Row(status, UNION {s.cites : s \in said})
    BY <1>2 DEF Validate
  <2>2. row.status = status /\ row.cites = UNION {s.cites : s \in said}
    BY <2>1 DEF Row
  <2>3. PICK s \in said : TRUE
    BY <2>1
  <2>4. s.cites # {} /\ s.cites \subseteq row.cites
    BY <1>1, <2>1, <2>2, <2>3
  <2>5. row.cites \subseteq used \ reply.dropped
    BY <1>1, <2>1, <2>2
  <2>6. status = "conflicting" => Cardinality(used) >= 2
    <3> SUFFICES ASSUME IsConflict(reply, used) PROVE Cardinality(used) >= 2
      OBVIOUS
    <3>1. PICK x, y : x \in used /\ y \in used /\ x # y
      <4>1. /\ reply.sides[1] # {} /\ reply.sides[1] \subseteq used
            /\ reply.sides[2] # {} /\ reply.sides[2] \subseteq used
            /\ reply.sides[1] \cap reply.sides[2] = {}
        BY DEF IsConflict
      <4>. QED
        BY <4>1
    <3>2. IsFiniteSet({x}) /\ Cardinality({x}) = 1
      BY FS_Singleton
    <3>3. {x} \cup {y} \in SUBSET used /\ y \notin {x}
      BY <3>1
    <3>4. Cardinality({x} \cup {y}) = Cardinality({x}) + 1
      BY <3>2, <3>3, FS_AddElement
    <3>5. Cardinality(used) \in Nat /\ Cardinality({x} \cup {y}) <= Cardinality(used)
      BY <3>3, FS_Subset, FS_CardinalityType
    <3>. QED
      BY <3>2, <3>4, <3>5
  <2>. QED
    BY <2>2, <2>4, <2>5, <2>6 DEF IsGroundedRow
<1>3. CASE kept = {} /\ reply.sentences = {} /\ reply.status = "no_history"
  BY <1>3 DEF Validate, IsGroundedRow, Row, NoRow
<1>4. CASE kept = {} /\ ~(reply.sentences = {} /\ reply.status = "no_history")
  BY <1>4 DEF Validate, IsGroundedRow
<1>. QED
  BY <1>2, <1>3, <1>4
-----------------------------------------------------------------------------
(* The impact graph. *)

\* A graph is what the second layer makes of one of the first.
LEMMA TwoLayers ==
    ASSUME NEW root, NEW symbols, NEW rows, NEW count, NEW max,
           NEW g \in Graphs(root, symbols, rows, count, max)
    PROVE  LET refs == Neighbours(rows, symbols)
           IN  \E h \in AddLayer(OnlyRoot(root), 1, refs, count, max) :
                 g \in AddLayer(h, 2, refs, count, max)
<1> DEFINE refs == Neighbours(rows, symbols)
           Grow(L, d) == UNION {AddLayer(h, d, refs, count, max) : h \in L}
           Body(f) == [d \in 0..2 |-> IF d = 0 THEN {OnlyRoot(root)} ELSE Grow(f[d - 1], d)]
           layer == CHOOSE f : f = Body(f)
<1> HIDE DEF refs, Grow
<1>1. \E f : f = Body(f)
  <2> DEFINE one == Grow({OnlyRoot(root)}, 1)
             f == [d \in 0..2 |-> IF d = 0 THEN {OnlyRoot(root)}
                                  ELSE IF d = 1 THEN one ELSE Grow(one, 2)]
  <2>1. \A d \in 0..2 : d = 0 \/ d = 1 \/ d = 2
    OBVIOUS
  <2>2. f[0] = {OnlyRoot(root)} /\ f[1] = one /\ f[2] = Grow(one, 2)
    OBVIOUS
  <2>3. ASSUME NEW d \in 0..2 PROVE f[d] = Body(f)[d]
    BY <2>1, <2>2
  <2>4. f = Body(f)
    BY <2>3
  <2>. QED
    BY <2>4
<1>2. layer = Body(layer)
  BY <1>1
<1>3. Graphs(root, symbols, rows, count, max) = layer[2]
  BY DEF Graphs, GraphDepth, refs, Grow
<1> HIDE DEF layer
<1>4. layer[0] = {OnlyRoot(root)} /\ layer[1] = Grow(layer[0], 1) /\ layer[2] = Grow(layer[1], 2)
  <2>1. ASSUME NEW d \in 0..2
        PROVE  layer[d] = IF d = 0 THEN {OnlyRoot(root)} ELSE Grow(layer[d - 1], d)
    BY <1>2, Zenon
  <2>2. 0 \in 0..2 /\ 1 \in 0..2 /\ 2 \in 0..2 /\ 1 - 1 = 0 /\ 2 - 1 = 1
        /\ 1 # 0 /\ 2 # 0
    OBVIOUS
  <2>. QED
    BY <2>1, <2>2, Zenon
<1>5. g \in Grow(Grow({OnlyRoot(root)}, 1), 2)
  BY <1>3, <1>4
<1>. QED
  BY <1>5 DEF Grow, refs

\* The references found from a graph's frontier, and the nodes they lead to.
FoundFrom(h, refs) == Touching(refs, h.frontier)
NewFrom(h, refs) == Ends(FoundFrom(h, refs)) \ DOMAIN h.depth

\* The graph g is h with one more layer, cut to the room there is.
IsLayerOn(h, d, refs, count, max, g) ==
    /\ g.frontier \in Cut(NewFrom(h, refs), max + 1 - Cardinality(DOMAIN h.depth), count)
    /\ DOMAIN g.depth = DOMAIN h.depth \cup g.frontier
    /\ \A n \in DOMAIN h.depth : g.depth[n] = h.depth[n]
    /\ \A n \in g.frontier : g.depth[n] = d
    /\ DOMAIN g.direction = DOMAIN h.direction \cup g.frontier
    /\ \A n \in DOMAIN h.direction : g.direction[n] = h.direction[n]
    /\ \A n \in g.frontier :
         g.direction[n] \in IF d = 1 THEN {Way(FoundFrom(h, refs), n)}
                            ELSE Directions(h, FoundFrom(h, refs), count, n)
    /\ g.edges = h.edges \cup Drawn(FoundFrom(h, refs), g.frontier \cup DOMAIN h.depth)
    /\ g.truncated = (h.truncated \/ g.frontier # NewFrom(h, refs))

\* What a layer adds to a graph h.
LEMMA LayerAdds ==
    ASSUME NEW h, NEW d, NEW refs, NEW count, NEW max,
           NEW g \in AddLayer(h, d, refs, count, max),
           DOMAIN h.direction \subseteq DOMAIN h.depth
    PROVE  IsLayerOn(h, d, refs, count, max, g)
<1> DEFINE found == Touching(refs, h.frontier)
           new   == Ends(found) \ DOMAIN h.depth
           room  == max + 1 - Cardinality(DOMAIN h.depth)
           ways(n) == IF d = 1 THEN {Way(found, n)} ELSE Directions(h, found, count, n)
           grown(kept, way) ==
             [depth     |-> With(h.depth, [n \in kept |-> d]),
              direction |-> With(h.direction, way),
              frontier  |-> kept,
              edges     |-> h.edges \cup Drawn(found, kept \cup DOMAIN h.depth),
              truncated |-> h.truncated \/ kept # new]
<1> HIDE DEF found, new, room, ways
<1>1. PICK kept \in Cut(new, room, count) :
        \E way \in [kept -> {"caller", "callee"}] :
           (\A n \in kept : way[n] \in ways(n)) /\ g = grown(kept, way)
  <2> DEFINE allowed(kept) == {w \in [kept -> {"caller", "callee"}] :
                                 \A n \in kept : w[n] \in ways(n)}
  <2>1. AddLayer(h, d, refs, count, max) =
          UNION {{grown(kept, way) : way \in allowed(kept)} : kept \in Cut(new, room, count)}
    BY DEF AddLayer, found, new, room, ways
  <2> HIDE DEF grown
  <2>2. PICK kept \in Cut(new, room, count) : g \in {grown(kept, way) : way \in allowed(kept)}
    BY <2>1
  <2>. QED
    BY <2>2
<1>2. PICK way \in [kept -> {"caller", "callee"}] :
        (\A n \in kept : way[n] \in ways(n)) /\ g = grown(kept, way)
  BY <1>1
<1>3. /\ g.depth = With(h.depth, [n \in kept |-> d])
      /\ g.direction = With(h.direction, way)
      /\ g.frontier = kept /\ g.truncated = (h.truncated \/ kept # new)
      /\ g.edges = h.edges \cup Drawn(found, kept \cup DOMAIN h.depth)
  BY <1>2
<1>4. kept \subseteq new /\ new \cap DOMAIN h.depth = {}
  BY DEF Cut, new
<1>5. /\ DOMAIN g.depth = DOMAIN h.depth \cup kept
      /\ \A n \in DOMAIN h.depth : g.depth[n] = h.depth[n]
      /\ \A n \in kept : g.depth[n] = d
  BY <1>3, <1>4 DEF With
<1>6. /\ DOMAIN g.direction = DOMAIN h.direction \cup kept
      /\ \A n \in DOMAIN h.direction : g.direction[n] = h.direction[n]
      /\ \A n \in kept : g.direction[n] = way[n]
  BY <1>3, <1>4 DEF With
<1>. QED
  BY <1>2, <1>3, <1>5, <1>6 DEF found, new, room, ways, IsLayerOn, FoundFrom, NewFrom

\* A cut leaves nothing out while there is room.
LEMMA CutFillsRoom ==
    ASSUME NEW new, IsFiniteSet(new), NEW room \in Nat, NEW count,
           NEW kept \in Cut(new, room, count)
    PROVE  /\ kept \subseteq new /\ IsFiniteSet(kept)
           /\ Cardinality(kept) \in Nat /\ Cardinality(new) \in Nat
           /\ Cardinality(kept) = IF room <= Cardinality(new) THEN room ELSE Cardinality(new)
           /\ kept # new => Cardinality(kept) = room
           /\ room = 0 => kept = {}
           /\ \A n \in kept, m \in new \ kept : count[n] >= count[m]
<1>1. /\ kept \in SUBSET new /\ Cardinality(kept) = Min({room, Cardinality(new)})
      /\ \A n \in kept, m \in new \ kept : count[n] >= count[m]
  BY DEF Cut
<1>2. /\ IsFiniteSet(kept) /\ Cardinality(kept) \in Nat /\ Cardinality(new) \in Nat
      /\ Cardinality(kept) <= Cardinality(new)
      /\ Cardinality(new) = Cardinality(kept) => kept = new
  BY <1>1, FS_Subset, FS_CardinalityType
<1>3. Cardinality(kept) = IF room <= Cardinality(new) THEN room ELSE Cardinality(new)
  BY <1>1, <1>2, MinOfTwo
<1>4. Cardinality(kept) = 0 => kept = {}
  BY <1>2, FS_EmptySet
<1>. QED
  BY <1>1, <1>2, <1>3, <1>4

\* The graph g shows near, of what is next to the root, and far, of what is next
\* to that.
ShowsLayers(root, refs, count, max, g, near, far) ==
    LET around == Touching(refs, {root})
        beyond == Touching(refs, near)
        next   == Ends(around) \ {root}
        after  == Ends(beyond) \ (near \cup {root})
    IN  /\ IsFiniteSet(next) /\ IsFiniteSet(after)
        /\ near \in Cut(next, max, count)
        /\ max - Cardinality(near) \in Nat
        /\ far \in Cut(after, max - Cardinality(near), count)
        /\ DOMAIN g.depth = {root} \cup near \cup far
        /\ g.depth[root] = 0
        /\ \A n \in near : g.depth[n] = 1
        /\ \A n \in far : g.depth[n] = 2
        /\ DOMAIN g.direction = near \cup far
        /\ \A n \in near : g.direction[n] = Way(around, n)
        /\ \A n \in far : \E m \in near, e \in beyond :
             g.direction[n] = g.direction[m] /\ {e.source, e.target} = {m, n}
        /\ g.edges = Drawn(around, near \cup {root}) \cup Drawn(beyond, far \cup near \cup {root})
        /\ g.truncated = (near # next \/ far # after)

\* Every graph has its two layers.
LEMMA GraphLayers ==
    ASSUME NEW root, NEW symbols, IsFiniteSet(symbols), root \in symbols, NEW rows, NEW count,
           NEW max \in Nat, NEW g \in Graphs(root, symbols, rows, count, max)
    PROVE  \E near, far :
             ShowsLayers(root, Neighbours(rows, symbols), count, max, g, near, far)
<1> DEFINE refs   == Neighbours(rows, symbols)
           start  == OnlyRoot(root)
           around == Touching(refs, {root})
           next   == Ends(around) \ {root}
<1>1. PICK h \in AddLayer(start, 1, refs, count, max) : g \in AddLayer(h, 2, refs, count, max)
  BY TwoLayers
<1> DEFINE near == h.frontier
           far  == g.frontier
           beyond == Touching(refs, near)
           after  == Ends(beyond) \ (near \cup {root})
<1>2. /\ start.frontier = {root} /\ start.edges = {} /\ start.truncated = FALSE
      /\ DOMAIN start.depth = {root} /\ start.depth[root] = 0
      /\ DOMAIN start.direction = {}
  BY DEF OnlyRoot
<1>3. \A R \in SUBSET refs : Ends(R) \subseteq symbols
  BY DEF Ends, Neighbours
<1>4. IsFiniteSet(next) /\ IsFiniteSet(after)
  <2>1. next \in SUBSET symbols /\ after \in SUBSET symbols
    BY <1>3 DEF Touching
  <2> HIDE DEF next, after
  <2>. QED
    BY <2>1, FS_Subset
<1> HIDE DEF refs, start
<1>5. max + 1 - Cardinality(DOMAIN start.depth) = max
  <2>1. Cardinality({root}) = 1
    BY FS_Singleton
  <2>. QED
    BY <1>2, <2>1
<1>6. IsLayerOn(start, 1, refs, count, max, h)
  <2>1. DOMAIN start.direction \subseteq DOMAIN start.depth
    BY <1>2
  <2>. QED
    BY <1>1, <2>1, LayerAdds
<1>7. FoundFrom(start, refs) = around /\ NewFrom(start, refs) = next
  BY <1>2 DEF FoundFrom, NewFrom
<1> HIDE DEF next, around
<1>8. /\ near \in Cut(next, max, count)
      /\ DOMAIN h.depth = {root} \cup near /\ h.depth[root] = 0
      /\ \A n \in near : h.depth[n] = 1
      /\ DOMAIN h.direction = near
      /\ \A n \in near : h.direction[n] = Way(around, n)
      /\ h.edges = Drawn(around, near \cup {root})
      /\ h.truncated = (near # next)
  BY <1>2, <1>5, <1>6, <1>7 DEF IsLayerOn
<1>9. /\ IsFiniteSet(near) /\ Cardinality(near) \in Nat /\ Cardinality(near) <= max
      /\ near \subseteq next
  <2>1. /\ IsFiniteSet(near) /\ Cardinality(near) \in Nat /\ Cardinality(next) \in Nat
        /\ Cardinality(near) = IF max <= Cardinality(next) THEN max ELSE Cardinality(next)
        /\ near \subseteq next
    BY <1>4, <1>8, CutFillsRoom
  <2>. QED
    BY <2>1
<1>10. max + 1 - Cardinality(DOMAIN h.depth) = max - Cardinality(near)
  <2>1. root \notin near
    BY <1>9 DEF next
  <2>2. DOMAIN h.depth = near \cup {root}
    BY <1>8
  <2>3. Cardinality(near \cup {root}) = Cardinality(near) + 1
    BY <1>9, <2>1, FS_AddElement
  <2>. QED
    BY <1>9, <2>2, <2>3
<1>11. IsLayerOn(h, 2, refs, count, max, g)
  <2>1. DOMAIN h.direction \subseteq DOMAIN h.depth
    BY <1>8
  <2>. QED
    BY <1>1, <2>1, LayerAdds
<1>12. FoundFrom(h, refs) = beyond /\ NewFrom(h, refs) = after
  BY <1>8 DEF FoundFrom, NewFrom
<1> HIDE DEF after, beyond
<1>13. /\ far \in Cut(after, max - Cardinality(near), count)
       /\ DOMAIN g.depth = DOMAIN h.depth \cup far
       /\ \A n \in DOMAIN h.depth : g.depth[n] = h.depth[n]
       /\ \A n \in far : g.depth[n] = 2
       /\ DOMAIN g.direction = DOMAIN h.direction \cup far
       /\ \A n \in DOMAIN h.direction : g.direction[n] = h.direction[n]
       /\ \A n \in far : g.direction[n] \in Directions(h, beyond, count, n)
       /\ g.edges = h.edges \cup Drawn(beyond, far \cup DOMAIN h.depth)
       /\ g.truncated = (h.truncated \/ far # after)
  BY <1>10, <1>11, <1>12 DEF IsLayerOn
<1>14. \A n \in far : \E m \in near, e \in beyond :
         g.direction[n] = g.direction[m] /\ {e.source, e.target} = {m, n}
  BY <1>8, <1>13 DEF Directions
<1>15. max - Cardinality(near) \in Nat
  BY <1>9
<1> HIDE DEF near, far
<1>16. /\ DOMAIN g.depth = {root} \cup near \cup far /\ g.depth[root] = 0
       /\ \A n \in near : g.depth[n] = 1
       /\ DOMAIN g.direction = near \cup far
       /\ \A n \in near : g.direction[n] = Way(around, n)
       /\ g.truncated = (near # next \/ far # after)
  BY <1>8, <1>13
<1>17. g.edges = Drawn(around, near \cup {root}) \cup Drawn(beyond, far \cup near \cup {root})
  <2>1. far \cup DOMAIN h.depth = far \cup near \cup {root}
    BY <1>8
  <2>. QED
    BY <1>8, <1>13, <2>1
<1>18. ShowsLayers(root, refs, count, max, g, near, far)
  BY <1>4, <1>8, <1>13, <1>14, <1>15, <1>16, <1>17 DEF ShowsLayers, around, beyond, next, after
<1>. QED
  BY <1>18 DEF refs

\* Of the nodes next to the root and those after them, near and far are the most
\* referenced that fit, and far is empty unless all that are next fit.
AreNearest(near, far, next, after, count, max) ==
    /\ near \subseteq next /\ far \subseteq after
    /\ IsFiniteSet(near) /\ IsFiniteSet(far)
    /\ Cardinality(near) \in Nat /\ Cardinality(far) \in Nat
    /\ near # next => Cardinality(near) = max /\ far = {} /\ max < Cardinality(next)
    /\ near = next =>
         Cardinality(near) + Cardinality(far)
           = IF max <= Cardinality(near) + Cardinality(after) THEN max
             ELSE Cardinality(near) + Cardinality(after)
    /\ \A n \in near, m \in next \ near : count[n] >= count[m]
    /\ \A n \in far, m \in after \ far : count[n] >= count[m]

\* The layers a graph shows are the nearest.
LEMMA LayersAreNearest ==
    ASSUME NEW root, NEW refs, NEW count, NEW max \in Nat, NEW g, NEW near, NEW far,
           ShowsLayers(root, refs, count, max, g, near, far)
    PROVE  AreNearest(near, far, Ends(Touching(refs, {root})) \ {root},
                      Ends(Touching(refs, near)) \ (near \cup {root}), count, max)
<1> DEFINE next  == Ends(Touching(refs, {root})) \ {root}
           after == Ends(Touching(refs, near)) \ (near \cup {root})
           room  == max - Cardinality(near)
<1>1. /\ IsFiniteSet(next) /\ IsFiniteSet(after) /\ near \in Cut(next, max, count)
      /\ room \in Nat /\ far \in Cut(after, room, count)
  BY DEF ShowsLayers
<1> HIDE DEF next, after
<1>2. /\ near \subseteq next /\ IsFiniteSet(near)
      /\ Cardinality(near) \in Nat /\ Cardinality(next) \in Nat
      /\ Cardinality(near) = IF max <= Cardinality(next) THEN max ELSE Cardinality(next)
      /\ near # next => Cardinality(near) = max
      /\ \A n \in near, m \in next \ near : count[n] >= count[m]
  BY <1>1, CutFillsRoom
<1> HIDE DEF room
<1>3. /\ far \subseteq after /\ IsFiniteSet(far)
      /\ Cardinality(far) \in Nat /\ Cardinality(after) \in Nat
      /\ Cardinality(far) = IF room <= Cardinality(after) THEN room ELSE Cardinality(after)
      /\ room = 0 => far = {}
      /\ \A n \in far, m \in after \ far : count[n] >= count[m]
  BY <1>1, CutFillsRoom
<1>4. near # next => Cardinality(near) < Cardinality(next)
  <2>1. Cardinality(next) = Cardinality(near) => near = next
    BY <1>1, <1>2, FS_Subset
  <2>2. Cardinality(near) <= Cardinality(next)
    BY <1>1, <1>2, FS_Subset
  <2>. QED
    BY <1>2, <2>1, <2>2
<1>5. near # next => Cardinality(near) = max /\ far = {} /\ max < Cardinality(next)
  BY <1>2, <1>3, <1>4 DEF room
<1>6. Cardinality(near) + Cardinality(far)
        = IF max <= Cardinality(near) + Cardinality(after) THEN max
          ELSE Cardinality(near) + Cardinality(after)
  BY <1>1, <1>2, <1>3 DEF room
<1>. QED
  BY <1>2, <1>3, <1>5, <1>6 DEF next, after, AreNearest

\* Whatever the references, the symbols and the order of the rows, no edge of the
\* root or of a node next to it is left out between shown nodes, none leads to a
\* node that was cut, and every direction is that of a reference (_build_graph,
\* _neighbours).
LEMMA GraphHasItsEdges ==
    ASSUME NEW root, NEW symbols, IsFiniteSet(symbols), root \in symbols, NEW rows, NEW count,
           NEW max \in Nat, NEW g \in Graphs(root, symbols, rows, count, max)
    PROVE  IsFounded(root, symbols, rows, g)
<1> DEFINE refs   == Neighbours(rows, symbols)
           around == Touching(refs, {root})
           next   == Ends(around) \ {root}
<1>1. PICK near, far : ShowsLayers(root, refs, count, max, g, near, far)
  BY GraphLayers
<1> DEFINE beyond == Touching(refs, near)
           after  == Ends(beyond) \ (near \cup {root})
<1> HIDE DEF refs
<1>2. /\ DOMAIN g.depth = {root} \cup near \cup far /\ g.depth[root] = 0
      /\ \A n \in near : g.depth[n] = 1
      /\ \A n \in far : g.depth[n] = 2
      /\ DOMAIN g.direction = near \cup far
      /\ \A n \in near : g.direction[n] = Way(around, n)
      /\ \A n \in far : \E m \in near, e \in beyond :
           g.direction[n] = g.direction[m] /\ {e.source, e.target} = {m, n}
      /\ g.edges = Drawn(around, near \cup {root}) \cup Drawn(beyond, far \cup near \cup {root})
  BY <1>1 DEF ShowsLayers
<1>3. near \subseteq next /\ far \subseteq after /\ (near # next => far = {})
  BY <1>1, LayersAreNearest DEF AreNearest
<1>4. \A n \in near : n # root /\ \E e \in around : {e.source, e.target} = {root, n}
  BY <1>3 DEF Ends, Touching
<1>5. \A n \in far : n # root /\ n \notin near
  BY <1>3
<1>6. EdgesAreOfShown(root, symbols, rows, g)
  <2> DEFINE inner == {n \in DOMAIN g.depth : g.depth[n] < GraphDepth}
  <2>1. inner = {root} \cup near
    BY <1>2, <1>5 DEF GraphDepth
  <2>2. ASSUME NEW e \in refs, {e.source, e.target} \subseteq DOMAIN g.depth,
               e \in around, e \notin beyond
        PROVE  {e.source, e.target} \subseteq near \cup {root}
    <3>1. {e.source, e.target} \ {root} \subseteq next
      BY <2>2 DEF Ends
    <3>. QED
      BY <1>2, <1>3, <2>2, <3>1 DEF Touching
  <2>3. ASSUME NEW e
        PROVE  e \in g.edges <=> e \in Touching(refs, inner)
                                 /\ {e.source, e.target} \subseteq DOMAIN g.depth
    <3>1. e \in Touching(refs, inner) <=> e \in around \/ e \in beyond
      BY <2>1 DEF Touching
    <3>2. e \in g.edges <=>
            \/ e \in around /\ {e.source, e.target} \subseteq near \cup {root}
            \/ e \in beyond /\ {e.source, e.target} \subseteq far \cup near \cup {root}
      BY <1>2 DEF Drawn
    <3>3. e \in around => e \in refs
      BY DEF Touching
    <3>. QED
      BY <1>2, <2>2, <3>1, <3>2, <3>3
  <2> HIDE DEF inner
  <2>4. g.edges = {e \in Touching(refs, inner) : {e.source, e.target} \subseteq DOMAIN g.depth}
    BY <2>3
  <2>. QED
    BY <2>4 DEF EdgesAreOfShown, inner, refs
<1>7. ASSUME NEW n \in near
      PROVE  /\ g.depth[n] = 1
             /\ \E e \in refs : IF g.direction[n] = "caller" THEN e.source = n /\ e.target = root
                                ELSE e.source = root /\ e.target = n
  <2>1. \A e \in around : e \in refs /\ (e.source = root \/ e.target = root)
    BY DEF Touching
  <2>2. PICK e \in around : {e.source, e.target} = {root, n} /\ n # root
    BY <1>4
  <2>3. CASE \E c \in around : c.source = n
    <3>1. g.direction[n] = "caller"
      BY <1>2, <2>3 DEF Way
    <3>. QED
      BY <1>2, <2>1, <2>2, <2>3, <3>1
  <2>4. CASE ~ \E c \in around : c.source = n
    <3>1. g.direction[n] = "callee"
      BY <1>2, <2>4 DEF Way
    <3>2. e.source = root /\ e.target = n /\ e \in refs
      BY <2>1, <2>2, <2>4
    <3>. QED
      BY <1>2, <3>1, <3>2
  <2>. QED
    BY <2>3, <2>4
<1>8. ASSUME NEW n \in far
      PROVE  /\ g.depth[n] # 1
             /\ \E m \in DOMAIN g.direction, e \in refs :
                  /\ g.depth[m] = 1 /\ g.direction[m] = g.direction[n]
                  /\ {e.source, e.target} = {m, n}
  BY <1>2 DEF Touching
<1>9. DOMAIN g.depth \ {root} = near \cup far
  BY <1>2, <1>4, <1>5
<1>10. DirectionsAreFounded(root, symbols, rows, g)
  <2>1. DirectionsAreFounded(root, symbols, rows, g) =
          \A n \in DOMAIN g.depth \ {root} :
            IF g.depth[n] = 1
            THEN \E e \in refs : IF g.direction[n] = "caller"
                                 THEN e.source = n /\ e.target = root
                                 ELSE e.source = root /\ e.target = n
            ELSE \E m \in DOMAIN g.direction, e \in refs :
                   /\ g.depth[m] = 1 /\ g.direction[m] = g.direction[n]
                   /\ {e.source, e.target} = {m, n}
    BY DEF DirectionsAreFounded, refs
  <2>. QED
    BY <1>7, <1>8, <1>9, <2>1
<1>. QED
  BY <1>6, <1>10 DEF IsFounded

\* Whatever the references, the symbols and the order of the rows, what is shown
\* is as many nodes as fit, the nearest and of those the most referenced, and
\* truncated says just whether a node is missing (_build_graph).
LEMMA GraphIsNearest ==
    ASSUME NEW root, NEW symbols, IsFiniteSet(symbols), root \in symbols, NEW rows, NEW count,
           NEW max \in Nat, NEW g \in Graphs(root, symbols, rows, count, max)
    PROVE  ShowsNearest(root, symbols, rows, count, max, g)
<1> DEFINE refs    == Neighbours(rows, symbols)
           one     == Ends(Touching(refs, {root})) \cup {root}
           all     == one \cup Ends(Touching(refs, one))
           next    == Ends(Touching(refs, {root})) \ {root}
           shown   == DOMAIN g.depth \ {root}
           missing == (all \ {root}) \ shown
           dist(n) == IF n \in one THEN 1 ELSE 2
<1>1. PICK near, far : ShowsLayers(root, refs, count, max, g, near, far)
  BY GraphLayers
<1> DEFINE after == Ends(Touching(refs, near)) \ (near \cup {root})
<1>2. IsFiniteSet(all) /\ all \subseteq symbols
  <2>1. \A R \in SUBSET refs : Ends(R) \subseteq symbols
    BY DEF Ends, Neighbours
  <2>2. all \subseteq symbols
    BY <2>1 DEF Touching
  <2> HIDE DEF all
  <2>. QED
    BY <2>2, FS_Subset
<1> HIDE DEF refs
<1>3. /\ IsFiniteSet(next) /\ IsFiniteSet(after) /\ max - Cardinality(near) \in Nat
      /\ DOMAIN g.depth = {root} \cup near \cup far
      /\ \A n \in near : g.depth[n] = 1
      /\ \A n \in far : g.depth[n] = 2
      /\ g.truncated = (near # next \/ far # after)
  BY <1>1 DEF ShowsLayers
<1>0. AreNearest(near, far, next, after, count, max)
  BY <1>1, LayersAreNearest
<1> HIDE DEF all, one, next, after, shown, missing, dist
<1>4. /\ near \subseteq next /\ far \subseteq after /\ IsFiniteSet(near) /\ IsFiniteSet(far)
      /\ Cardinality(near) \in Nat /\ Cardinality(far) \in Nat
      /\ near # next => Cardinality(near) = max /\ far = {} /\ max < Cardinality(next)
      /\ near = next =>
           Cardinality(near) + Cardinality(far)
             = IF max <= Cardinality(near) + Cardinality(after) THEN max
               ELSE Cardinality(near) + Cardinality(after)
      /\ \A n \in near, m \in next \ near : count[n] >= count[m]
      /\ \A n \in far, m \in after \ far : count[n] >= count[m]
  BY <1>0 DEF AreNearest
<1>5. one = next \cup {root} /\ root \notin next /\ root \notin after
  BY DEF one, next, after
<1>6. near = next => all = {root} \cup near \cup after
  <2>1. ASSUME near = next, NEW n
        PROVE  n \in Ends(Touching(refs, one))
                 <=> n \in Ends(Touching(refs, {root})) \/ n \in Ends(Touching(refs, near))
    BY <1>5, <2>1 DEF Ends, Touching
  <2>2. ASSUME near = next, NEW n PROVE n \in all <=> n \in {root} \cup near \cup after
    BY <1>5, <2>1, <2>2 DEF all, one, after
  <2>. QED
    BY <2>2
<1>7. next \subseteq all /\ after \cap near = {} /\ one \subseteq all
  BY DEF all, one, next, after
<1>8. shown = near \cup far
  BY <1>3, <1>4, <1>5 DEF shown
<1>9. far \subseteq all
  BY <1>4, <1>6
<1>10. shown \subseteq all
  BY <1>4, <1>7, <1>8, <1>9
<1>11. Cardinality(shown) = Cardinality(near) + Cardinality(far)
  <2>1. Cardinality(near \cap far) = 0
    <3>1. near \cap far = {}
      BY <1>4, <1>7
    <3>. QED
      BY <3>1, FS_EmptySet
  <2>2. Cardinality(near \cup far) = Cardinality(near) + Cardinality(far) - Cardinality(near \cap far)
    BY <1>4, FS_Union
  <2>. QED
    BY <1>4, <1>8, <2>1, <2>2
<1>12. near = next => Cardinality(all) - 1 = Cardinality(near) + Cardinality(after)
  <2> SUFFICES ASSUME near = next
               PROVE  Cardinality(all) - 1 = Cardinality(near) + Cardinality(after)
    OBVIOUS
  <2>1. Cardinality(near \cup after)
          = Cardinality(near) + Cardinality(after) - Cardinality(near \cap after)
    BY <1>3, <1>4, FS_Union
  <2>2. Cardinality(near \cap after) = 0
    <3>1. near \cap after = {}
      BY <1>7
    <3>. QED
      BY <3>1, FS_EmptySet
  <2>3. IsFiniteSet(near \cup after) /\ root \notin near \cup after
    BY <1>3, <1>4, <1>5, FS_Union
  <2>4. Cardinality((near \cup after) \cup {root}) = Cardinality(near \cup after) + 1
    BY <2>3, FS_AddElement
  <2>5. all = (near \cup after) \cup {root}
    BY <1>6
  <2>6. Cardinality(after) \in Nat
    BY <1>3, FS_CardinalityType
  <2>. QED
    BY <1>4, <2>1, <2>2, <2>4, <2>5, <2>6
<1>13. Cardinality(next) <= Cardinality(all) - 1 /\ Cardinality(next) \in Nat
  <2>1. next \cup {root} \in SUBSET all
    BY <1>5, <1>7
  <2>2. Cardinality(next \cup {root}) <= Cardinality(all)
    BY <1>2, <2>1, FS_Subset
  <2>3. Cardinality(next \cup {root}) = Cardinality(next) + 1
    BY <1>3, <1>5, FS_AddElement
  <2>4. Cardinality(next) \in Nat /\ Cardinality(all) \in Nat
    BY <1>2, <1>3, FS_CardinalityType
  <2>. QED
    BY <2>2, <2>3, <2>4
<1>14. Cardinality(shown) = Min({max, Cardinality(all) - 1})
  <2>1. Cardinality(all) \in Nat /\ Cardinality(after) \in Nat
    BY <1>2, <1>3, FS_CardinalityType
  <2>2. Cardinality(all) - 1 \in Nat
    BY <1>13, <2>1
  <2>3. Cardinality(shown) = IF max <= Cardinality(all) - 1 THEN max ELSE Cardinality(all) - 1
    <3>1. CASE near = next
      BY <1>4, <1>11, <1>12, <3>1
    <3>2. CASE near # next
      <4>1. Cardinality(far) = 0 /\ Cardinality(near) = max
        BY <1>4, <3>2, FS_EmptySet
      <4>2. max < Cardinality(next)
        BY <1>4, <3>2
      <4>3. max <= Cardinality(all) - 1
        BY <1>13, <2>2, <4>2
      <4>. QED
        BY <1>11, <4>1, <4>3
    <3>. QED
      BY <3>1, <3>2
  <2>. QED
    BY <2>2, <2>3, MinOfTwo
<1>15. near = next => missing = after \ far
  BY <1>5, <1>6, <1>7, <1>8 DEF missing
<1>16. near # next => next \ near \subseteq missing /\ next \ near # {}
  BY <1>4, <1>5, <1>7, <1>8 DEF missing
<1>17. g.truncated <=> missing # {}
  BY <1>3, <1>4, <1>15, <1>16
<1>18. /\ \A n \in near : dist(n) = 1 /\ g.depth[n] = 1
       /\ \A n \in far : dist(n) = 2 /\ g.depth[n] = 2
  <2>1. \A n \in far : near = next /\ n \notin near /\ n # root
    BY <1>4, <1>5, <1>7
  <2>. QED
    BY <1>3, <1>4, <1>5, <2>1 DEF dist
<1>19. ASSUME NEW n \in shown, NEW m \in missing
       PROVE  dist(n) < dist(m) \/ (dist(n) = dist(m) /\ count[n] >= count[m])
  <2>1. m # root /\ m \notin near /\ m \notin far
    BY <1>8 DEF missing
  <2>2. CASE n \in near
    <3>1. CASE m \in one
      <4>1. m \in next \ near
        BY <1>5, <2>1, <3>1
      <4>2. count[n] >= count[m]
        BY <1>4, <2>2, <4>1
      <4>. QED
        BY <1>18, <2>2, <3>1, <4>2 DEF dist
    <3>2. CASE m \notin one
      BY <1>18, <2>2, <3>2 DEF dist
    <3>. QED
      BY <3>1, <3>2
  <2>3. CASE n \in far
    <3>1. near = next
      BY <1>4, <2>3
    <3>2. m \in after \ far
      BY <1>15, <3>1
    <3>3. m \notin one
      BY <1>5, <1>7, <3>1, <3>2
    <3>4. count[n] >= count[m]
      BY <1>4, <2>3, <3>2
    <3>. QED
      BY <1>18, <2>3, <3>3, <3>4 DEF dist
  <2>. QED
    BY <1>8, <2>2, <2>3
<1>20. \A n \in shown : g.depth[n] = dist(n)
  BY <1>8, <1>18
<1>21. /\ shown \subseteq all
       /\ Cardinality(shown) = Min({max, Cardinality(all) - 1})
       /\ g.truncated <=> missing # {}
       /\ \A n \in shown :
            /\ g.depth[n] = dist(n)
            /\ \A m \in missing :
                 dist(n) < dist(m) \/ (dist(n) = dist(m) /\ count[n] >= count[m])
  BY <1>10, <1>14, <1>17, <1>19, <1>20
<1>. QED
  BY <1>21 DEF ShowsNearest, Within2, missing, shown, dist, all, one, refs
-----------------------------------------------------------------------------
(* Change detection.                                                        *)

\* The states of the loop in _match_renames, by the number of symbols seen.
AreRenameStates(found, gone, added, m) ==
    /\ m[0] = {}
    /\ \A i \in 1..Len(found) : m[i] = Pair(found, gone, added, m[i - 1], i)
    /\ MatchRenames(found, gone, added) = m[Len(found)]

\* There are such states: MatchRenames is well defined, by the first symbol at
\* which it would not be.
LEMMA RenameStates ==
    ASSUME NEW S, NEW found \in Seq(S), NEW gone, NEW added
    PROVE  \E m : AreRenameStates(found, gone, added, m)
<1> DEFINE n == Len(found)
           Step(M, i) == Pair(found, gone, added, M, i)
           Body(f, k) == [i \in 0..k |-> IF i = 0 THEN {} ELSE Step(f[i - 1], i)]
           matched == CHOOSE f : f = Body(f, n)
           bad == {k \in 0..n : ~ \E f : f = Body(f, k)}
<1>1. n \in Nat
  OBVIOUS
<1> HIDE DEF n, Step
<1>2. bad = {}
  <2> SUFFICES ASSUME bad # {} PROVE FALSE
    OBVIOUS
  <2>1. PICK k \in bad : \A j \in bad : k <= j
    <3>1. bad \in SUBSET Nat
      BY <1>1
    <3>. QED
      BY <3>1, LeastNumber
  <2>2. k \in 0..n /\ k \in Nat /\ ~ \E f : f = Body(f, k)
    BY <1>1, <2>1
  <2>3. CASE k = 0
    <3> DEFINE f == [i \in 0..0 |-> {}]
    <3>1. \A i \in 0..0 : i = 0
      OBVIOUS
    <3>2. f = Body(f, 0)
      BY <3>1
    <3>. QED
      BY <2>2, <2>3, <3>2
  <2>4. CASE k # 0
    <3>1. k - 1 \in 0..n /\ ~ (k <= k - 1)
      BY <1>1, <2>2, <2>4
    <3>2. PICK f : f = Body(f, k - 1)
      BY <2>1, <3>1
    <3> DEFINE g == [i \in 0..k |-> IF i <= k - 1 THEN f[i] ELSE Step(f[k - 1], k)]
    <3>3. ASSUME NEW i \in 0..k
          PROVE  g[i] = IF i = 0 THEN {} ELSE Step(g[i - 1], i)
      <4>1. CASE i <= k - 1
        <5>1. i \in 0..(k - 1)
          BY <2>2, <4>1
        <5>2. f[i] = IF i = 0 THEN {} ELSE Step(f[i - 1], i)
          BY <3>2, <5>1, Zenon
        <5>3. i # 0 => g[i - 1] = f[i - 1]
          BY <2>2, <5>1
        <5>. QED
          BY <4>1, <5>2, <5>3
      <4>2. CASE ~ (i <= k - 1)
        <5>1. i = k /\ k - 1 \in 0..k /\ k - 1 <= k - 1
          BY <2>2, <2>4, <4>2
        <5>2. g[k] = Step(f[k - 1], k) /\ g[k - 1] = f[k - 1]
          BY <2>2, <5>1
        <5>. QED
          BY <2>4, <5>1, <5>2
      <4>. QED
        BY <4>1, <4>2
    <3>4. g = [i \in 0..k |-> g[i]]
      OBVIOUS
    <3>5. g = Body(g, k)
      <4> HIDE DEF g
      <4>. QED
        BY <3>3, <3>4
    <3>. QED
      BY <2>2, <3>5
  <2>. QED
    BY <2>3, <2>4
<1>3. matched = Body(matched, n)
  <2>1. n \in 0..n
    BY <1>1
  <2>2. \E f : f = Body(f, n)
    BY <1>2, <2>1
  <2>. QED
    BY <2>2
<1>4. MatchRenames(found, gone, added) = matched[n]
  BY DEF MatchRenames, n, Step
<1> HIDE DEF matched
<1>5. ASSUME NEW i \in 0..n
      PROVE  matched[i] = IF i = 0 THEN {} ELSE Step(matched[i - 1], i)
  BY <1>3, Zenon
<1>6. matched[0] = {}
  <2>1. 0 \in 0..n
    BY <1>1
  <2>. QED
    BY <1>5, <2>1, Zenon
<1>7. \A i \in 1..n : matched[i] = Step(matched[i - 1], i)
  BY <1>1, <1>5
<1>. QED
  BY <1>4, <1>6, <1>7 DEF n, Step, AreRenameStates

\* What is sure of the pairs when the first i symbols have been looked at: each
\* joins one that is gone, seen already, with the only one that was added with
\* its parameters, and no two have a side in common.
CertainPairs(found, gone, added, i, M) ==
    /\ M \subseteq gone \X added
    /\ \A p \in M : /\ p[1].params = p[2].params
                    /\ \A n \in added : n.params = p[2].params => n = p[2]
                    /\ \E j \in 1..i : TakesPlace(found, j) /\ p[1].name = found[j].name
    /\ \A p, q \in M : (p[1] = q[1] \/ p[2] = q[2]) => p = q

\* The next symbol keeps them so.
LEMMA PairKeepsCertain ==
    ASSUME NEW found, NEW gone, NEW added, IsFiniteSet(added), NEW i \in Nat \ {0}, NEW M,
           \A s, t \in gone : s.name = t.name => s = t,
           CertainPairs(found, gone, added, i - 1, M)
    PROVE  CertainPairs(found, gone, added, i, Pair(found, gone, added, M, i))
<1> DEFINE left == added \ {p[2] : p \in M}
           new  == {p \in gone \X left : /\ TakesPlace(found, i) /\ p[1].name = found[i].name
                                         /\ p[2] \in Partner(p[1], left)}
<1>1. Pair(found, gone, added, M, i) = M \cup new
  BY DEF Pair
<1>2. M \subseteq gone \X added
  BY DEF CertainPairs
<1>3. \A p \in M : /\ p[1].params = p[2].params
                   /\ \A n \in added : n.params = p[2].params => n = p[2]
                   /\ \E j \in 1..(i - 1) : TakesPlace(found, j) /\ p[1].name = found[j].name
  BY DEF CertainPairs
<1>4. \A p, q \in M : (p[1] = q[1] \/ p[2] = q[2]) => p = q
  BY DEF CertainPairs
<1>5. IsFiniteSet(left)
  BY FS_Subset
<1>6. \A n : n \in left <=> n \in added /\ \A p \in M : p[2] # n
  OBVIOUS
<1> HIDE DEF left
<1>7. ASSUME NEW p \in new
      PROVE  /\ p[1] \in gone /\ p[2] \in left /\ p = <<p[1], p[2]>>
             /\ TakesPlace(found, i) /\ p[1].name = found[i].name
             /\ p[2].params = p[1].params
             /\ \A n \in left : n.params = p[2].params => n = p[2]
  <2> DEFINE same == {n \in left : n.params = p[1].params}
  <2>1. p[2] \in same /\ Cardinality(same) = 1
    BY DEF Partner
  <2>2. IsFiniteSet(same)
    BY <1>5, FS_Subset
  <2> HIDE DEF same
  <2>3. \E x : same = {x}
    BY <2>1, <2>2, FS_Singleton
  <2>4. \A n \in same : n = p[2]
    BY <2>1, <2>3
  <2>5. \A n \in left : n.params = p[1].params => n \in same
    BY DEF same
  <2>6. p[2].params = p[1].params
    BY <2>1 DEF same
  <2>. QED
    BY <2>4, <2>5, <2>6
<1> HIDE DEF new
<1>8. ASSUME NEW p \in new, NEW n \in added, n.params = p[2].params
      PROVE  n = p[2]
  <2>1. CASE n \in left
    BY <1>7, <1>8, <2>1
  <2>2. CASE n \notin left
    <3>1. PICK q \in M : q[2] = n
      BY <1>6, <2>2
    <3>2. p[2] \in added /\ p[2] # q[2]
      BY <1>6, <1>7
    <3>3. p[2] = q[2]
      BY <1>3, <1>8, <3>1, <3>2
    <3>. QED
      BY <3>2, <3>3
  <2>. QED
    BY <2>1, <2>2
<1>9. ASSUME NEW p \in new, NEW q \in M PROVE p[1] # q[1] /\ p[2] # q[2]
  <2>1. p[2] # q[2]
    BY <1>6, <1>7
  <2>2. PICK j \in 1..(i - 1) : q[1].name = found[j].name
    BY <1>3
  <2>3. found[j].name # found[i].name
    BY <1>7, <2>2 DEF TakesPlace
  <2>. QED
    BY <1>7, <2>1, <2>2, <2>3
<1>10. ASSUME NEW p \in new, NEW q \in new PROVE p = q
  <2>1. p[1] = q[1]
    BY <1>7
  <2>2. p[2] = q[2]
    BY <1>7, <2>1
  <2>. QED
    BY <1>7, <2>1, <2>2
<1>11. M \cup new \subseteq gone \X added
  BY <1>2, <1>6, <1>7
<1>12. ASSUME NEW p \in M \cup new
       PROVE  /\ p[1].params = p[2].params
              /\ \A n \in added : n.params = p[2].params => n = p[2]
              /\ \E j \in 1..i : TakesPlace(found, j) /\ p[1].name = found[j].name
  <2>1. CASE p \in M
    <3>1. 1..(i - 1) \subseteq 1..i
      OBVIOUS
    <3>. QED
      BY <1>3, <2>1, <3>1
  <2>2. CASE p \in new
    <3>1. i \in 1..i
      OBVIOUS
    <3>. QED
      BY <1>7, <1>8, <2>2, <3>1
  <2>. QED
    BY <2>1, <2>2
<1>13. ASSUME NEW p \in M \cup new, NEW q \in M \cup new, p[1] = q[1] \/ p[2] = q[2]
       PROVE  p = q
  BY <1>4, <1>9, <1>10, <1>13
<1>. QED
  BY <1>1, <1>11, <1>12, <1>13 DEF CertainPairs

\* So they are at the end.
LEMMA RenamesAreCertainPairs ==
    ASSUME NEW S, NEW found \in Seq(S), NEW gone, NEW added, IsFiniteSet(added),
           \A s, t \in gone : s.name = t.name => s = t
    PROVE  CertainPairs(found, gone, added, Len(found), MatchRenames(found, gone, added))
<1>0. PICK m : AreRenameStates(found, gone, added, m)
  BY RenameStates
<1>1. /\ m[0] = {}
      /\ \A i \in 1..Len(found) : m[i] = Pair(found, gone, added, m[i - 1], i)
      /\ MatchRenames(found, gone, added) = m[Len(found)]
  BY <1>0 DEF AreRenameStates
<1> DEFINE bad == {i \in 0..Len(found) : ~ CertainPairs(found, gone, added, i, m[i])}
<1>2. Len(found) \in Nat
  OBVIOUS
<1>3. bad = {}
  <2> SUFFICES ASSUME bad # {} PROVE FALSE
    OBVIOUS
  <2>1. bad \in SUBSET Nat
    BY <1>2
  <2>2. PICK i \in bad : \A j \in bad : i <= j
    BY <2>1, LeastNumber
  <2>3. i \in 0..Len(found) /\ i \in Nat /\ ~ CertainPairs(found, gone, added, i, m[i])
    BY <2>1, <2>2
  <2>4. i # 0
    <3>1. CertainPairs(found, gone, added, 0, {})
      BY DEF CertainPairs
    <3>. QED
      BY <1>1, <2>3, <3>1
  <2>5. i - 1 \in 0..Len(found) /\ ~ (i <= i - 1) /\ i \in 1..Len(found)
    BY <1>2, <2>3, <2>4
  <2>6. CertainPairs(found, gone, added, i - 1, m[i - 1])
    BY <2>2, <2>5
  <2>7. CertainPairs(found, gone, added, i, Pair(found, gone, added, m[i - 1], i))
    BY <2>3, <2>4, <2>6, PairKeepsCertain
  <2>. QED
    BY <1>1, <2>3, <2>5, <2>7
<1>. QED
  BY <1>1, <1>2, <1>3

\* A file's symbols are finite in number, and have different names.
LEMMA NamesAreUnique ==
    ASSUME NEW S, NEW found \in Seq(S)
    PROVE  /\ IsFiniteSet(ParseSymbols(found))
           /\ \A s, t \in ParseSymbols(found) : s.name = t.name => s = t
<1> DEFINE last == {j \in 1..Len(found) :
                      \A k \in 1..Len(found) : found[k].name = found[j].name => k <= j}
<1>1. ParseSymbols(found) = {found[i] : i \in last}
  BY DEF ParseSymbols
<1>2. Len(found) \in Nat
  OBVIOUS
<1>3. IsFiniteSet(last)
  <2>1. IsFiniteSet(1..Len(found))
    BY <1>2, FS_Interval
  <2>2. last \subseteq 1..Len(found)
    OBVIOUS
  <2> HIDE DEF last
  <2>. QED
    BY <2>1, <2>2, FS_Subset
<1>4. ASSUME NEW i \in last, NEW j \in last, found[i].name = found[j].name PROVE i = j
  <2>1. i <= j /\ j <= i /\ i \in Int /\ j \in Int
    BY <1>4
  <2>. QED
    BY <2>1
<1> HIDE DEF last
<1>5. IsFiniteSet({found[i] : i \in last})
  <2> DEFINE T == {found[i] : i \in last}
             f == [i \in last |-> found[i]]
  <2>1. f \in Surjection(last, T)
    BY DEF Surjection
  <2> HIDE DEF T, f
  <2>2. IsFiniteSet(T)
    BY <1>3, <2>1, FS_Surjection
  <2>. QED
    BY <2>2 DEF T
<1>6. \A s, t \in {found[i] : i \in last} : s.name = t.name => s = t
  BY <1>4
<1>. QED
  BY <1>1, <1>5, <1>6

\* The functions of a base that are gone, those that a head adds, and the pairs.
Gone(base, head) == Missing(InForce(base, "function"), InForce(head, "function"))
Added(base, head) == Missing(InForce(head, "function"), InForce(base, "function"))
Renamed(base, head) == MatchRenames(base, Gone(base, head), Added(base, head))

\* A warning, by its kind.
IsSignature(base, head, w) ==
    \E o \in InForce(base, "function"), n \in InForce(head, "function") :
       o.name = n.name /\ o.params # n.params /\ w = Warn("signature_changed", o, n)
IsRename(base, head, w) ==
    \E p \in Renamed(base, head) : w = Warn("renamed", p[1], p[2])
IsDeletion(base, head, w) ==
    \E s \in Gone(base, head) : /\ \A p \in Renamed(base, head) : p[1] # s
                                /\ w = Warn("deleted", s, s)
IsConstant(base, head, w) ==
    \E o \in InForce(base, "constant"), n \in InForce(head, "constant") :
       o.name = n.name /\ o.value # n.value /\ w = Warn("constant_changed", o, n)

\* The four kinds of warnings, and no others.
LEMMA WarningKinds ==
    ASSUME NEW base, NEW head, NEW w
    PROVE  w \in DetectChanges(base, head) <=>
             \/ IsSignature(base, head, w) \/ IsRename(base, head, w)
             \/ IsDeletion(base, head, w) \/ IsConstant(base, head, w)
<1> DEFINE old   == ParseSymbols(base)
           new   == ParseSymbols(head)
           F     == OfKind(old, "function")
           H     == OfKind(new, "function")
           CB    == OfKind(old, "constant")
           CH    == OfKind(new, "constant")
           R     == Renamed(base, head)
           lost  == Gone(base, head)
<1>1. /\ F = InForce(base, "function") /\ H = InForce(head, "function")
      /\ CB = InForce(base, "constant") /\ CH = InForce(head, "constant")
  BY DEF InForce
<1>2. DetectChanges(base, head) =
        SignatureChanges(F, H) \cup {Warn("renamed", p[1], p[2]) : p \in R}
        \cup {Warn("deleted", s, s) : s \in Unpaired(lost, R)} \cup ConstantChanges(CB, CH)
  BY DEF DetectChanges, CompareFile, InForce, Gone, Added, Renamed
<1> HIDE DEF F, H, CB, CH, R, lost
<1>3. w \in SignatureChanges(F, H) <=> IsSignature(base, head, w)
  <2>1. \A p \in Both(F, H) : p[1] \in F /\ p[2] \in H /\ p[1].name = p[2].name
    BY DEF Both
  <2>2. \A o \in F, n \in H : o.name = n.name => <<o, n>> \in Both(F, H)
    BY DEF Both
  <2>3. w \in SignatureChanges(F, H) <=>
          \E p \in Both(F, H) : p[1].params # p[2].params
                                /\ w = Warn("signature_changed", p[1], p[2])
    BY DEF SignatureChanges
  <2>4. \A o, n : <<o, n>>[1] = o /\ <<o, n>>[2] = n
    OBVIOUS
  <2>. QED
    BY <1>1, <2>1, <2>2, <2>3, <2>4 DEF IsSignature
<1>4. w \in ConstantChanges(CB, CH) <=> IsConstant(base, head, w)
  <2>1. \A p \in Both(CB, CH) : p[1] \in CB /\ p[2] \in CH /\ p[1].name = p[2].name
    BY DEF Both
  <2>2. \A o \in CB, n \in CH : o.name = n.name => <<o, n>> \in Both(CB, CH)
    BY DEF Both
  <2>3. w \in ConstantChanges(CB, CH) <=>
          \E p \in Both(CB, CH) : p[1].value # p[2].value
                                  /\ w = Warn("constant_changed", p[1], p[2])
    BY DEF ConstantChanges
  <2>4. \A o, n : <<o, n>>[1] = o /\ <<o, n>>[2] = n
    OBVIOUS
  <2>. QED
    BY <1>1, <2>1, <2>2, <2>3, <2>4 DEF IsConstant
<1>5. w \in {Warn("renamed", p[1], p[2]) : p \in R} <=> IsRename(base, head, w)
  BY DEF IsRename, R
<1>6. w \in {Warn("deleted", s, s) : s \in Unpaired(lost, R)} <=> IsDeletion(base, head, w)
  BY DEF IsDeletion, Unpaired, R, lost
<1>. QED
  BY <1>2, <1>3, <1>4, <1>5, <1>6

\* What the verdict's proof needs of the two revisions and of the pairs.
LEMMA RevisionFacts ==
    ASSUME NEW S, NEW base \in Seq(S), NEW head \in Seq(S)
    PROVE  /\ \A f \in {base, head} :
                \A s, t \in InForce(f, "function") \cup InForce(f, "constant") :
                   s.name = t.name => s = t
           /\ \A f \in {base, head} : /\ \A s \in InForce(f, "function") : s.kind = "function"
                                      /\ \A s \in InForce(f, "constant") : s.kind = "constant"
           /\ \A s : s \in Gone(base, head) <=>
                s \in InForce(base, "function") /\ \A n \in InForce(head, "function") : n.name # s.name
           /\ \A n : n \in Added(base, head) <=>
                n \in InForce(head, "function") /\ \A s \in InForce(base, "function") : s.name # n.name
           /\ \A p \in Renamed(base, head) :
                /\ p[1] \in Gone(base, head) /\ p[2] \in Added(base, head)
                /\ p[1].params = p[2].params
                /\ \A n \in Added(base, head) : n.params = p[2].params => n = p[2]
           /\ \A p, q \in Renamed(base, head) : (p[1] = q[1] \/ p[2] = q[2]) => p = q
<1>1. \A f \in {base, head} : /\ IsFiniteSet(ParseSymbols(f))
                              /\ \A s, t \in ParseSymbols(f) : s.name = t.name => s = t
  BY NamesAreUnique
<1>2. \A f, k : InForce(f, k) = {s \in ParseSymbols(f) : s.kind = k}
  BY DEF InForce, OfKind
<1>3. \A f \in {base, head} :
        \A s, t \in InForce(f, "function") \cup InForce(f, "constant") : s.name = t.name => s = t
  BY <1>1, <1>2
<1>4. \A f \in {base, head} : /\ \A s \in InForce(f, "function") : s.kind = "function"
                              /\ \A s \in InForce(f, "constant") : s.kind = "constant"
  BY <1>2
<1>5. \A s : s \in Gone(base, head) <=>
        s \in InForce(base, "function") /\ \A n \in InForce(head, "function") : n.name # s.name
  BY DEF Gone, Missing, Named
<1>6. \A n : n \in Added(base, head) <=>
        n \in InForce(head, "function") /\ \A s \in InForce(base, "function") : s.name # n.name
  BY DEF Added, Missing, Named
<1>7. IsFiniteSet(Added(base, head))
  <2>1. Added(base, head) \subseteq ParseSymbols(head)
    BY <1>2, <1>6
  <2>. QED
    BY <1>1, <2>1, FS_Subset
<1>8. \A s, t \in Gone(base, head) : s.name = t.name => s = t
  BY <1>3, <1>5
<1>9. CertainPairs(base, Gone(base, head), Added(base, head), Len(base), Renamed(base, head))
  BY <1>7, <1>8, RenamesAreCertainPairs DEF Renamed
<1>10. /\ \A p \in Renamed(base, head) :
             /\ p[1] \in Gone(base, head) /\ p[2] \in Added(base, head)
             /\ p[1].params = p[2].params
             /\ \A n \in Added(base, head) : n.params = p[2].params => n = p[2]
       /\ \A p, q \in Renamed(base, head) : (p[1] = q[1] \/ p[2] = q[2]) => p = q
  BY <1>9 DEF CertainPairs
<1>. QED
  BY <1>3, <1>4, <1>5, <1>6, <1>10

\* For a function of the base, the warnings of its name are those that its loss or
\* its change calls for, and there is one of them or none.
LEMMA LossIsToldOnce ==
    ASSUME NEW S, NEW base \in Seq(S), NEW head \in Seq(S), NEW s \in InForce(base, "function")
    PROVE  LET told == {w \in DetectChanges(base, head) : w.symbol = s.name}
               kept == {n \in InForce(head, "function") : n.name = s.name}
           IN  /\ Cardinality(told) = IF kept = {} \/ (\E n \in kept : n.params # s.params)
                                      THEN 1 ELSE 0
               /\ \A w \in told : IF kept = {} THEN w.type \in {"renamed", "deleted"}
                                  ELSE w.type = "signature_changed"
<1> DEFINE told == {w \in DetectChanges(base, head) : w.symbol = s.name}
           kept == {n \in InForce(head, "function") : n.name = s.name}
           lost == kept = {}
<1>1. /\ \A t \in InForce(base, "function") : t.name = s.name => t = s
      /\ \A t \in InForce(base, "constant") : t.name # s.name
      /\ \A m, n \in InForce(head, "function") : m.name = n.name => m = n
  <2>1. \A t \in InForce(base, "constant") : t.name = s.name => t = s
    BY RevisionFacts
  <2>2. s.kind = "function" /\ \A t \in InForce(base, "constant") : t.kind = "constant"
    BY RevisionFacts
  <2>3. /\ \A t \in InForce(base, "function") : t.name = s.name => t = s
        /\ \A m, n \in InForce(head, "function") : m.name = n.name => m = n
    BY RevisionFacts
  <2>. QED
    BY <2>1, <2>2, <2>3
<1>2. \A t, n, type : Warn(type, t, n).symbol = t.name /\ Warn(type, t, n).type = type
  BY DEF Warn
<1>3. \A w : w \in told <=> w \in DetectChanges(base, head) /\ w.symbol = s.name
  OBVIOUS
<1>4. \A n : n \in kept <=> n \in InForce(head, "function") /\ n.name = s.name
  OBVIOUS
<1>5. s \in Gone(base, head) <=> kept = {}
  BY <1>4, RevisionFacts
<1> HIDE DEF told, kept
<1>6. ASSUME NEW w
      PROVE  w \in told <=>
               \/ \E n \in kept : n.params # s.params /\ w = Warn("signature_changed", s, n)
               \/ \E p \in Renamed(base, head) : p[1] = s /\ w = Warn("renamed", s, p[2])
               \/ /\ kept = {} /\ \A p \in Renamed(base, head) : p[1] # s
                  /\ w = Warn("deleted", s, s)
  <2>1. IsSignature(base, head, w) /\ w.symbol = s.name <=>
          \E n \in kept : n.params # s.params /\ w = Warn("signature_changed", s, n)
    BY <1>1, <1>2, <1>4 DEF IsSignature
  <2>2. IsRename(base, head, w) /\ w.symbol = s.name <=>
          \E p \in Renamed(base, head) : p[1] = s /\ w = Warn("renamed", s, p[2])
    <3>1. \A p \in Renamed(base, head) : p[1] \in InForce(base, "function")
      BY RevisionFacts
    <3>. QED
      BY <1>1, <1>2, <3>1 DEF IsRename
  <2>3. IsDeletion(base, head, w) /\ w.symbol = s.name <=>
          /\ kept = {} /\ \A p \in Renamed(base, head) : p[1] # s
          /\ w = Warn("deleted", s, s)
    <3>1. \A t \in Gone(base, head) : t \in InForce(base, "function")
      BY RevisionFacts
    <3>. QED
      BY <1>1, <1>2, <1>5, <3>1 DEF IsDeletion
  <2>4. ~ (IsConstant(base, head, w) /\ w.symbol = s.name)
    BY <1>1, <1>2 DEF IsConstant
  <2>. QED
    BY <1>3, <2>1, <2>2, <2>3, <2>4, WarningKinds
<1>7. \A p \in Renamed(base, head) : p[1] = s => kept = {}
  <2>1. \A p \in Renamed(base, head) : p[1] \in Gone(base, head)
    BY RevisionFacts
  <2>. QED
    BY <1>5, <2>1
<1>8. \A p, q \in Renamed(base, head) : p[1] = q[1] => p = q
  BY RevisionFacts
<1>9. \A w \in told : IF kept = {} THEN w.type \in {"renamed", "deleted"}
                      ELSE w.type = "signature_changed"
  BY <1>2, <1>6, <1>7
<1>10. Cardinality(told) = IF kept = {} \/ (\E n \in kept : n.params # s.params) THEN 1 ELSE 0
  <2>1. CASE kept = {} /\ \A p \in Renamed(base, head) : p[1] # s
    <3>1. told = {Warn("deleted", s, s)}
      BY <1>6, <2>1
    <3>. QED
      BY <2>1, <3>1, FS_Singleton
  <2>2. CASE kept = {} /\ \E p \in Renamed(base, head) : p[1] = s
    <3>1. PICK p \in Renamed(base, head) : p[1] = s
      BY <2>2
    <3>2. \A w : w \in told <=> w = Warn("renamed", s, p[2])
      BY <1>6, <1>8, <2>2, <3>1
    <3>3. told = {Warn("renamed", s, p[2])}
      BY <3>2
    <3>. QED
      BY <2>2, <3>3, FS_Singleton
  <2>3. CASE kept # {}
    <3>1. PICK n : n \in kept
      BY <2>3
    <3>2. \A m \in kept : m = n
      BY <1>1, <1>4, <3>1
    <3>3. CASE n.params # s.params
      <4>1. \A w : w \in told <=> w = Warn("signature_changed", s, n)
        BY <1>6, <1>7, <3>1, <3>2, <3>3
      <4>2. told = {Warn("signature_changed", s, n)}
        BY <4>1
      <4>. QED
        BY <3>1, <3>3, <4>2, FS_Singleton
    <3>4. CASE n.params = s.params
      <4>1. told = {}
        BY <1>6, <1>7, <3>1, <3>2, <3>4
      <4>. QED
        BY <3>1, <3>2, <3>4, <4>1, FS_EmptySet
    <3>. QED
      BY <3>3, <3>4
  <2>. QED
    BY <2>1, <2>2, <2>3
<1>. QED
  BY <1>9, <1>10 DEF told, kept

\* Whatever the symbols of a file before and after, each loss and each change of
\* parameters is told once, and nothing else is told (_compare_file).
LEMMA VerdictTellsAll ==
    ASSUME NEW S, NEW base \in Seq(S), NEW head \in Seq(S)
    PROVE  IsExactVerdict(base, head, DetectChanges(base, head))
<1> DEFINE W == DetectChanges(base, head)
<1>1. EachLossIsTold(base, head, W)
  <2> HIDE DEF W
  <2>1. ASSUME NEW s \in InForce(base, "function")
        PROVE  LET told == {w \in W : w.symbol = s.name}
                   kept == {n \in InForce(head, "function") : n.name = s.name}
               IN  /\ Cardinality(told) = IF kept = {} \/ (\E n \in kept : n.params # s.params)
                                          THEN 1 ELSE 0
                   /\ \A w \in told : IF kept = {} THEN w.type \in {"renamed", "deleted"}
                                      ELSE w.type = "signature_changed"
    BY LossIsToldOnce DEF W
  <2>. QED
    BY <2>1, Zenon DEF EachLossIsTold
<1>2. \A t, n, type : Warn(type, t, n).symbol = t.name /\ Warn(type, t, n).type = type
  BY DEF Warn
<1>3. \A w : w \in W <=> \/ IsSignature(base, head, w) \/ IsRename(base, head, w)
                         \/ IsDeletion(base, head, w) \/ IsConstant(base, head, w)
  BY WarningKinds
<1>4. /\ \A p \in Renamed(base, head) : p[1] \in Gone(base, head)
      /\ \A s \in Gone(base, head) : s \in InForce(base, "function")
                                     /\ \A n \in InForce(head, "function") : n.name # s.name
  BY RevisionFacts
<1> HIDE DEF W
<1>5. \A w \in W : \E s \in InForce(base, "function") \cup InForce(base, "constant") :
         s.name = w.symbol
  BY <1>2, <1>3, <1>4 DEF IsSignature, IsRename, IsDeletion, IsConstant
<1>6. ASSUME NEW w \in W, w.type = "constant_changed"
      PROVE  \E s \in InForce(base, "constant"), n \in InForce(head, "constant") :
                s.name = w.symbol /\ n.name = s.name /\ n.value # s.value
  <2>1. IsConstant(base, head, w)
    BY <1>2, <1>3, <1>6 DEF IsSignature, IsRename, IsDeletion
  <2>. QED
    BY <1>2, <2>1 DEF IsConstant
<1>7. ASSUME InForce(base, "function") \cup InForce(base, "constant")
               \subseteq InForce(head, "function") \cup InForce(head, "constant")
      PROVE  W = {}
  <2>1. /\ InForce(base, "function") \subseteq InForce(head, "function")
        /\ InForce(base, "constant") \subseteq InForce(head, "constant")
    <3>1. /\ \A s \in InForce(base, "function") : s.kind = "function"
          /\ \A s \in InForce(base, "constant") : s.kind = "constant"
          /\ \A s \in InForce(head, "function") : s.kind = "function"
          /\ \A s \in InForce(head, "constant") : s.kind = "constant"
      BY RevisionFacts
    <3>. QED
      BY <1>7, <3>1
  <2>2. \A s, t \in InForce(head, "function") \cup InForce(head, "constant") :
          s.name = t.name => s = t
    BY RevisionFacts
  <2>3. \A w : ~ IsSignature(base, head, w) /\ ~ IsConstant(base, head, w)
    BY <2>1, <2>2 DEF IsSignature, IsConstant
  <2>4. Gone(base, head) = {}
    BY <1>4, <2>1
  <2>. QED
    BY <1>3, <1>4, <2>3, <2>4 DEF IsRename, IsDeletion
<1>8. WarningsAreNotNoise(base, head, W)
  BY <1>5, <1>6, <1>7 DEF WarningsAreNotNoise
<1>. QED
  BY <1>1, <1>8 DEF IsExactVerdict, W

\* Whatever the symbols of a file before and after, and in whatever order, the new
\* name of a rename is the only candidate and is given once (_match_renames).
LEMMA RenamesAreNoGuess ==
    ASSUME NEW S, NEW base \in Seq(S), NEW head \in Seq(S)
    PROVE  HasCertainRenames(base, head, DetectChanges(base, head))
<1> DEFINE W        == DetectChanges(base, head)
           old      == InForce(base, "function")
           new      == InForce(head, "function")
           appeared == {n \in new : \A s \in old : s.name # n.name}
           renames  == {w \in W : w.type = "renamed"}
<1>1. appeared = Added(base, head)
  <2>1. \A n : n \in appeared <=> n \in Added(base, head)
    BY RevisionFacts
  <2>. QED
    BY <2>1
<1>2. \A t, n, type : /\ Warn(type, t, n).symbol = t.name /\ Warn(type, t, n).type = type
                      /\ Warn(type, t, n).new = n
  BY DEF Warn
<1>3. \A w : w \in W <=> \/ IsSignature(base, head, w) \/ IsRename(base, head, w)
                         \/ IsDeletion(base, head, w) \/ IsConstant(base, head, w)
  BY WarningKinds
<1>4. ASSUME NEW w \in renames
      PROVE  \E p \in Renamed(base, head) : w = Warn("renamed", p[1], p[2])
  <2>1. w \in W /\ w.type = "renamed"
    OBVIOUS
  <2> HIDE DEF W, renames
  <2>2. IsRename(base, head, w)
    BY <1>2, <1>3, <2>1 DEF IsSignature, IsDeletion, IsConstant
  <2>. QED
    BY <2>2 DEF IsRename
<1>5. /\ \A p \in Renamed(base, head) :
           /\ p[1] \in Gone(base, head) /\ p[2] \in Added(base, head)
           /\ p[1].params = p[2].params
           /\ \A n \in Added(base, head) : n.params = p[2].params => n = p[2]
      /\ \A p, q \in Renamed(base, head) : p[2] = q[2] => p = q
      /\ \A s \in Gone(base, head) : s \in old
  BY RevisionFacts
<1> HIDE DEF W, old, new, appeared, renames
<1>6. \A w \in renames :
        /\ w.new \in appeared
        /\ \A n \in appeared : n.params = w.new.params => n = w.new
        /\ \E s \in old : s.name = w.symbol /\ s.params = w.new.params
  BY <1>1, <1>2, <1>4, <1>5
<1>7. \A v, w \in renames : v.new = w.new => v = w
  BY <1>2, <1>4, <1>5
<1>. QED
  BY <1>6, <1>7 DEF HasCertainRenames, W, old, new, appeared, renames
-----------------------------------------------------------------------------
(* The links of references. *)

\* A set of natural numbers up to n has a greatest one.
LEMMA GreatestNumber ==
    ASSUME NEW n \in Nat, NEW S \in SUBSET (1..n), S # {}
    PROVE  Max(S) \in S /\ \A i \in S : i <= Max(S)
<1> DEFINE below == {n - i : i \in S}
<1>1. below \in SUBSET Nat /\ below # {}
  <2>1. \A i \in S : n - i \in Nat
    OBVIOUS
  <2>2. PICK i \in S : n - i \in below
    OBVIOUS
  <2>. QED
    BY <2>1, <2>2
<1>2. PICK b \in below : \A c \in below : b <= c
  BY <1>1, LeastNumber
<1>3. PICK m \in S : b = n - m
  BY <1>2
<1>4. ASSUME NEW i \in S PROVE m >= i
  <2>1. n - i \in below
    OBVIOUS
  <2>. QED
    BY <1>2, <1>3, <2>1
<1>5. Max(S) = CHOOSE x \in S : \A y \in S : x >= y
  BY DEF Max
<1>6. Max(S) \in S /\ \A y \in S : Max(S) >= y
  BY <1>4, <1>5
<1>. QED
  BY <1>6

\* The file that a module's name is registered with is one that answers to it.
LEMMA ModulesAreFiles ==
    ASSUME NEW X, NEW files \in Seq(X), NEW n
    PROVE  /\ n \in DOMAIN ModulePaths(files) <=> FilesNamed(files, n) # {}
           /\ n \in DOMAIN ModulePaths(files) => ModulePaths(files)[n] \in FilesNamed(files, n)
<1> DEFINE all    == {i \in 1..Len(files) : n \in NamesOf(files[i])}
           python == {i \in all : files[i].ext = "py"}
<1>1. Len(files) \in Nat /\ DOMAIN files = 1..Len(files)
  OBVIOUS
<1>2. n \in DOMAIN ModulePaths(files) <=> \E f \in Range(files) : n \in NamesOf(f)
  BY DEF ModulePaths
<1>3. \A f : f \in FilesNamed(files, n) <=> f \in Range(files) /\ n \in NamesOf(f)
  BY DEF FilesNamed
<1>4. \A f : f \in Range(files) <=> \E i \in 1..Len(files) : f = files[i]
  BY <1>1 DEF Range
<1>5. ASSUME n \in DOMAIN ModulePaths(files) PROVE ModulePaths(files)[n] \in FilesNamed(files, n)
  <2>1. ModulePaths(files)[n] = Registered(files, n)
    BY <1>5 DEF ModulePaths
  <2>2. all # {}
    BY <1>2, <1>4, <1>5
  <2>3. Min(all) \in all
    <3>1. all \in SUBSET Nat
      OBVIOUS
    <3>2. PICK m \in all : \A k \in all : m <= k
      BY <2>2, <3>1, LeastNumber
    <3>3. Min(all) = CHOOSE x \in all : \A y \in all : x <= y
      BY DEF Min
    <3>. QED
      BY <3>2, <3>3
  <2>4. python # {} => Max(python) \in python
    <3>1. python \in SUBSET (1..Len(files))
      OBVIOUS
    <3> HIDE DEF python
    <3>. QED
      BY <1>1, <3>1, GreatestNumber
  <2>5. PICK i \in all : Registered(files, n) = files[i]
    BY <2>3, <2>4 DEF Registered
  <2>. QED
    BY <1>3, <1>4, <2>1, <2>5
<1>. QED
  BY <1>2, <1>3, <1>5

\* What the index says of an import that is the last to bring its name in: the
\* module it stands for, the file it comes from.
LEMMA InForceIsIndexed ==
    ASSUME NEW mods, NEW Y, NEW items \in Seq(Y), NEW name, name # Nothing,
           Importing(items, name) # {}
    PROVE  LET item  == InForceImport(items, name)
               index == ImportIndex(mods, items)
           IN  /\ item.local = name
               /\ ModuleOf(item) \in DOMAIN mods =>
                    /\ name \in DOMAIN index.modules
                    /\ index.modules[name] = mods[ModuleOf(item)]
               /\ (item.origin # Nothing /\ item.module \in DOMAIN mods) =>
                    /\ name \in DOMAIN index.names
                    /\ index.names[name] = mods[item.module]
<1> DEFINE I        == Importing(items, name)
           m        == Max(I)
           item     == items[m]
           index    == ImportIndex(mods, items)
           bound    == {i \in 1..Len(items) : items[i].local # Nothing}
           ofModule == {i \in bound : ModuleOf(items[i]) \in DOMAIN mods}
           ofFile   == {i \in bound : items[i].origin # Nothing /\ items[i].module \in DOMAIN mods}
<1>1. Len(items) \in Nat
  OBVIOUS
<1>2. I \in SUBSET (1..Len(items)) /\ I # {} /\ \A i \in I : items[i].local = name
  BY DEF Importing
<1>3. m \in I /\ \A i \in I : i <= m
  <2> HIDE DEF I
  <2>. QED
    BY <1>1, <1>2, GreatestNumber
<1>4. m \in bound /\ item.local = name /\ m \in 1..Len(items)
  BY <1>2, <1>3
<1>5. ASSUME NEW places \in SUBSET bound, m \in places
      PROVE  Latest(items, places, name) = item /\ name \in {items[i].local : i \in places}
  <2> DEFINE these == {i \in places : items[i].local = name}
  <2>1. these \in SUBSET (1..Len(items)) /\ m \in these /\ these \subseteq I
    BY <1>4, <1>5 DEF Importing
  <2>2. Max(these) \in these /\ \A i \in these : i <= Max(these)
    <3> HIDE DEF these
    <3>. QED
      BY <1>1, <2>1, GreatestNumber
  <2>3. Max(these) = m
    <3>1. Max(these) \in 1..Len(items) /\ Max(these) <= m /\ m <= Max(these)
      BY <1>3, <2>1, <2>2
    <3> HIDE DEF these, m
    <3>. QED
      BY <1>1, <1>4, <3>1
  <2>. QED
    BY <1>4, <1>5, <2>3 DEF Latest
<1>6. /\ index.modules = [n \in {items[i].local : i \in ofModule} |->
                            mods[ModuleOf(Latest(items, ofModule, n))]]
      /\ index.names = [n \in {items[i].local : i \in ofFile} |->
                          mods[Latest(items, ofFile, n).module]]
  BY DEF ImportIndex
<1>7. item = InForceImport(items, name)
  BY DEF InForceImport
<1> HIDE DEF index, item, m, I
<1>8. ASSUME ModuleOf(item) \in DOMAIN mods
      PROVE  name \in DOMAIN index.modules /\ index.modules[name] = mods[ModuleOf(item)]
  <2>1. m \in ofModule /\ ofModule \in SUBSET bound
    BY <1>4, <1>8 DEF item
  <2> HIDE DEF ofModule, bound
  <2>. QED
    BY <1>5, <1>6, <2>1
<1>9. ASSUME item.origin # Nothing, item.module \in DOMAIN mods
      PROVE  name \in DOMAIN index.names /\ index.names[name] = mods[item.module]
  <2>1. m \in ofFile /\ ofFile \in SUBSET bound
    BY <1>4, <1>9 DEF item
  <2> HIDE DEF ofFile, bound
  <2>. QED
    BY <1>5, <1>6, <2>1
<1>. QED
  BY <1>4, <1>7, <1>8, <1>9 DEF index

\* The index says something of the names that imports bring in, and of no other.
LEMMA OnlyImportsAreIndexed ==
    ASSUME NEW mods, NEW items, NEW name
    PROVE  LET index == ImportIndex(mods, items)
           IN  /\ name \in DOMAIN index.modules => name # Nothing
               /\ name \in DOMAIN index.names => Importing(items, name) # {}
               /\ name \in index.external <=>
                    name # Nothing /\ \E i \in Importing(items, name) : ~InRepo(mods, items[i])
BY DEF ImportIndex, Importing

\* A link that is the only symbol of its name, when there is one in a file.
LEMMA OnlyCandidate ==
    ASSUME NEW symbols, IsFiniteSet(symbols), NEW index, NEW ref, NEW f,
           Defined(symbols, f, ref.name), NEW s \in Resolve(symbols, index, ref),
           ~(Cardinality(Candidates(symbols, ref)) > 1)
    PROVE  s.file = f
<1> DEFINE all == Candidates(symbols, ref)
           d   == [file |-> f, class |-> Nothing, name |-> ref.name]
<1>1. d \in all
  BY DEF Defined, Candidates
<1>2. IsFiniteSet(all)
  BY FS_Subset DEF Candidates
<1>3. s \in all /\ Cardinality(all) = 1
  BY DEF Resolve
<1> HIDE DEF all
<1>4. PICK x : all = {x}
  BY <1>2, <1>3, FS_Singleton
<1>5. s = d
  BY <1>1, <1>3, <1>4
<1>. QED
  BY <1>5

\* The symbols of a name in a file that defines it.
LEMMA WithinDefined ==
    ASSUME NEW symbols, NEW ref, NEW f, Defined(symbols, f, ref.name), NEW others
    PROVE  LET kept == OrAll(Within(Candidates(symbols, ref), f), others)
           IN  \A s \in kept : s.file = f
<1>1. [file |-> f, class |-> Nothing, name |-> ref.name] \in Within(Candidates(symbols, ref), f)
  BY DEF Defined, Candidates, Within
<1>2. OrAll(Within(Candidates(symbols, ref), f), others) = Within(Candidates(symbols, ref), f)
  BY <1>1 DEF OrAll
<1>. QED
  BY <1>2 DEF Within

\* For any tree, symbols, imports and reference: the link stays in the file that
\* the imports and the scope of the reference name.
LEMMA ResolveFollowsScope ==
    ASSUME NEW X, NEW files \in Seq(X), NEW Y, NEW items \in Seq(Y),
           NEW symbols, IsFiniteSet(symbols), NEW ref, ref.name # Nothing
    PROVE  FollowsScope(files, symbols, items, ref,
                        Resolve(symbols, ImportIndex(ModulePaths(files), items), ref))
<1> DEFINE mods  == ModulePaths(files)
           index == ImportIndex(mods, items)
           link  == Resolve(symbols, index, ref)
           all   == Candidates(symbols, ref)
<1>1. \A n, f : FilesNamed(files, n) = {f} => n \in DOMAIN mods /\ mods[n] = f
  <2> SUFFICES ASSUME NEW n, NEW f, FilesNamed(files, n) = {f}
               PROVE  n \in DOMAIN mods /\ mods[n] = f
    OBVIOUS
  <2> HIDE DEF mods
  <2>. QED
    BY ModulesAreFiles DEF mods
<1>2. \A n : n \in DOMAIN mods => FilesNamed(files, n) # {}
  BY ModulesAreFiles
<1> HIDE DEF mods
<1>3. \A s \in link : Cardinality(all) > 1 => s \in Narrow(all, ref, index)
  BY DEF Resolve
<1>4. \A n : /\ n \in DOMAIN index.modules => n # Nothing
             /\ n \in DOMAIN index.names => Importing(items, n) # {}
             /\ n \in index.external <=>
                  n # Nothing /\ \E i \in Importing(items, n) : ~InRepo(mods, items[i])
  BY OnlyImportsAreIndexed
<1>5. ASSUME NEW f, Defined(symbols, f, ref.name), NEW s \in link, ~(Cardinality(all) > 1)
      PROVE  s.file = f
  BY <1>5, OnlyCandidate
<1>6. ExternalsAreNotLinked(files, symbols, items, ref, link)
  <2> DEFINE name == IF ref.receiver # Nothing THEN ref.receiver ELSE ref.name
  <2>1. ASSUME NEW i \in Importing(items, name),
               FilesNamed(files, items[i].module)
                 \cup FilesNamed(files, Submodule(items[i])) = {}
        PROVE  link = {}
    <3>1. ~InRepo(mods, items[i])
      BY <1>2, <2>1 DEF InRepo
    <3>2. name # Nothing
      OBVIOUS
    <3>3. name \in index.external
      BY <1>4, <2>1, <3>1, <3>2
    <3>. QED
      BY <3>3 DEF Resolve, IsExternal
  <2>. QED
    BY <2>1 DEF ExternalsAreNotLinked
<1>7. ImportedNamesAreFollowed(files, symbols, items, ref, link)
  <2> DEFINE item == InForceImport(items, ref.name)
  <2>1. ASSUME ref.receiver = Nothing, Importing(items, ref.name) # {}, item.origin = ref.name,
               NEW f, FilesNamed(files, item.module) = {f}, Defined(symbols, f, ref.name),
               NEW s \in link
        PROVE  s.file = f
    <3>1. ref.name \in DOMAIN index.names /\ index.names[ref.name] = mods[item.module]
      <4>1. (item.origin # Nothing /\ item.module \in DOMAIN mods) =>
              /\ ref.name \in DOMAIN index.names /\ index.names[ref.name] = mods[item.module]
        BY <2>1, InForceIsIndexed
      <4>. QED
        BY <1>1, <2>1, <4>1
    <3>2. mods[item.module] = f
      BY <1>1, <2>1
    <3>3. Nothing \notin DOMAIN index.modules
      BY <1>4
    <3>4. Narrow(all, ref, index) =
            OrAll(Within(all, f), IF ref.receiver \in {Nothing, "self", "cls"}
                                  THEN OrAll(Within(all, ref.file), all) ELSE all)
      <4> HIDE DEF index, all, item
      <4>. QED
        BY <2>1, <3>1, <3>2, <3>3 DEF Narrow, Bound
    <3> HIDE DEF index, link, item
    <3>5. \A t \in Narrow(all, ref, index) : t.file = f
      BY <2>1, <3>4, WithinDefined
    <3>. QED
      BY <1>3, <1>5, <2>1, <3>5
  <2>. QED
    BY <2>1 DEF ImportedNamesAreFollowed
<1>8. ModulesAreFollowed(files, symbols, items, ref, link)
  <2> DEFINE item == InForceImport(items, ref.receiver)
  <2>1. ASSUME ref.receiver # Nothing, Importing(items, ref.receiver) # {},
               NEW f, FilesNamed(files, ModuleOf(item)) = {f}, Defined(symbols, f, ref.name),
               NEW s \in link
        PROVE  s.file = f
    <3>1. /\ ref.receiver \in DOMAIN index.modules
          /\ index.modules[ref.receiver] = mods[ModuleOf(item)]
      <4>1. ModuleOf(item) \in DOMAIN mods =>
              /\ ref.receiver \in DOMAIN index.modules /\ index.modules[ref.receiver] = mods[ModuleOf(item)]
        BY <2>1, InForceIsIndexed
      <4>. QED
        BY <1>1, <2>1, <4>1
    <3>2. mods[ModuleOf(item)] = f
      BY <1>1, <2>1
    <3> HIDE DEF index, link, all, item
    <3>3. Narrow(all, ref, index) = Within(all, f)
      BY <3>1, <3>2 DEF Narrow
    <3>4. \A t \in Narrow(all, ref, index) : t.file = f
      BY <3>3 DEF Within
    <3>. QED
      BY <1>3, <1>5, <2>1, <3>4
  <2>. QED
    BY <2>1 DEF ModulesAreFollowed
<1>9. OwnNamesAreFollowed(files, symbols, items, ref, link)
  <2>1. ASSUME ref.receiver = Nothing, Importing(items, ref.name) = {},
               Defined(symbols, ref.file, ref.name), NEW s \in link
        PROVE  s.file = ref.file
    <3>1. ref.receiver \notin DOMAIN index.modules /\ ref.name \notin DOMAIN index.names
      BY <1>4, <2>1
    <3>2. Narrow(all, ref, index) = OrAll(Within(all, ref.file), all)
      <4> HIDE DEF index, all
      <4>. QED
        BY <2>1, <3>1 DEF Narrow, Bound, OrAll
    <3> HIDE DEF index, link
    <3>3. \A t \in Narrow(all, ref, index) : t.file = ref.file
      BY <2>1, <3>2, WithinDefined
    <3>. QED
      BY <1>3, <1>5, <2>1, <3>3
  <2>. QED
    BY <2>1 DEF OwnNamesAreFollowed
<1>. QED
  BY <1>6, <1>7, <1>8, <1>9 DEF FollowsScope, mods

\* For any tree and imports: a row leads outside just when its name is never linked.
LEMMA RowsAgree ==
    ASSUME NEW X, NEW files \in Seq(X), NEW Y, NEW items \in Seq(Y),
           \A i \in 1..Len(items), f \in Range(files) :
              items[i].origin = Nothing => Submodule(items[i]) \notin NamesOf(f)
    PROVE  RowsAgreeWithIndex(files, items)
<1> DEFINE mods == ModulePaths(files)
<1>1. ASSUME NEW i \in 1..Len(items), items[i].local # Nothing
      PROVE  ImportTarget(mods, items[i]).file = {}
               <=> items[i].local \in ImportIndex(mods, <<items[i]>>).external
  <2> DEFINE item == items[i]
  <2>1. item.origin = Nothing => Submodule(item) \notin DOMAIN mods
    <3>1. item.origin = Nothing => FilesNamed(files, Submodule(item)) = {}
      BY DEF FilesNamed
    <3>. QED
      BY <3>1, ModulesAreFiles
  <2> HIDE DEF mods, item
  <2>2. Importing(<<item>>, item.local) = {1} /\ <<item>>[1] = item
    BY DEF Importing
  <2>3. item.local \in ImportIndex(mods, <<item>>).external <=> ~InRepo(mods, item)
    <3>1. item.local # Nothing
      BY <1>1 DEF item
    <3>. QED
      BY <2>2, <3>1, OnlyImportsAreIndexed
  <2>4. ImportTarget(mods, item).file = {} <=>
          ~(item.origin # Nothing /\ Submodule(item) \in DOMAIN mods) /\ item.module \notin DOMAIN mods
    BY DEF ImportTarget
  <2>5. InRepo(mods, item) <=> item.module \in DOMAIN mods \/ Submodule(item) \in DOMAIN mods
    BY DEF InRepo
  <2>. QED
    BY <2>1, <2>3, <2>4, <2>5 DEF item
<1>. QED
  BY <1>1 DEF RowsAgreeWithIndex
-----------------------------------------------------------------------------
(* The answers of Algorithms. *)

\* What has been answered, and to which question.
Answered ==
    /\ query.part = "resolution" =>
         /\ query.asked \in References
         /\ query.answer = Resolve(query.asked.symbols,
                                   ImportIndex(ModulePaths(query.asked.files), query.asked.items),
                                   query.asked.ref)
    /\ query.part = "graph" =>
         /\ query.asked \in GraphRequests
         /\ query.answer \in Graphs(query.asked.root, query.asked.symbols, query.asked.rows,
                                    query.asked.count, query.asked.max)
    /\ query.part = "change" =>
         /\ query.asked \in FileChanges
         /\ query.answer = DetectChanges(query.asked.base, query.asked.head)
    /\ query.part = "panel" =>
         /\ query.asked \in PanelRequests
         /\ query.answer \in Context(query.asked.symbols, query.asked.dir, query.asked.line,
                                     query.asked.items, query.asked.linked, query.asked.rows, query.asked.max)
    /\ query.part = "reply" =>
         /\ query.asked \in Replies
         /\ query.answer \in Validate(query.asked.reply, query.asked.used)

\* An answer is one of its question's algorithm.
LEMMA AlwaysAnswered == Spec => []Answered
<1>1. Init => Answered
  BY DEF Init, Answered
<1>2. Answered /\ [Next]_query => Answered'
  <2> SUFFICES ASSUME Answered, [Next]_query PROVE Answered'
    OBVIOUS
  <2>1. CASE ResolveReference
    <3>1. PICK q \in References :
            query' = [part |-> "resolution", asked |-> q,
                      answer |-> Resolve(q.symbols, ImportIndex(ModulePaths(q.files), q.items),
                                         q.ref)]
      BY <2>1 DEF ResolveReference
    <3>. QED
      BY <3>1 DEF Answered
  <2>2. CASE ShowGraph
    BY <2>2 DEF ShowGraph, Answered
  <2>3. CASE CheckFile
    BY <2>3 DEF CheckFile, Answered
  <2>4. CASE OpenPanel
    BY <2>4 DEF OpenPanel, Answered
  <2>5. CASE CheckReply
    BY <2>5 DEF CheckReply, Answered
  <2>6. CASE UNCHANGED query
    BY <2>6 DEF Answered
  <2>. QED
    BY <2>1, <2>2, <2>3, <2>4, <2>5, <2>6 DEF Next
<1>. QED
  BY <1>1, <1>2, PTL DEF Spec

\* Whatever the files, the symbols, the imports and the reference, a link stays in
\* the file that the imports and the scope name, and the rows of imports agree with
\* the links on what is outside the repository (_resolve_targets).
THEOREM LinksAlwaysFollowScope == Spec => []LinksFollowScope
<1>1. Answered => LinksFollowScope
  <2> SUFFICES ASSUME Answered, query.part = "resolution"
               PROVE  /\ FollowsScope(query.asked.files, query.asked.symbols,
                                      query.asked.items, query.asked.ref, query.answer)
                      /\ RowsAgreeWithIndex(query.asked.files, query.asked.items)
    BY DEF LinksFollowScope
  <2>1. /\ query.asked.files \in Seq(Range(query.asked.files))
        /\ query.asked.items \in Seq(Range(query.asked.items))
        /\ IsFiniteSet(query.asked.symbols) /\ query.asked.ref.name # Nothing
        /\ \A i \in 1..Len(query.asked.items), f \in Range(query.asked.files) :
             query.asked.items[i].origin = Nothing =>
               Submodule(query.asked.items[i]) \notin NamesOf(f)
    BY AlgorithmsAssumption DEF Answered, ReferencesAssumption, IsSequence
  <2>. QED
    BY <2>1, ResolveFollowsScope, RowsAgree DEF Answered
<1>. QED
  BY <1>1, AlwaysAnswered, PTL

\* Whatever graph is asked for, what is nearest and most referenced is shown, and
\* truncated says whether anything is missing (_build_graph).
THEOREM GraphsShowNearest == Spec => []GraphShowsNearest
<1>1. Answered => GraphShowsNearest
  <2> SUFFICES ASSUME Answered, query.part = "graph"
               PROVE  ShowsNearest(query.asked.root, query.asked.symbols, query.asked.rows,
                                   query.asked.count, query.asked.max, query.answer)
    BY DEF GraphShowsNearest
  <2>. QED
    BY AlgorithmsAssumption, GraphIsNearest DEF Answered, GraphRequestsAssumption
<1>. QED
  BY <1>1, AlwaysAnswered, PTL

\* Whatever graph is asked for, its edges are those between shown nodes and every
\* direction is that of a reference (_build_graph, _neighbours).
THEOREM GraphsAreFounded == Spec => []GraphIsFounded
<1>1. Answered => GraphIsFounded
  BY AlgorithmsAssumption, GraphHasItsEdges DEF Answered, GraphRequestsAssumption, GraphIsFounded
<1>. QED
  BY <1>1, AlwaysAnswered, PTL

\* The question of a verdict: two sequences of symbols.
LEMMA AnsweredVerdict ==
    ASSUME Answered, query.part = "change"
    PROVE  /\ \E S : query.asked.base \in Seq(S) /\ query.asked.head \in Seq(S)
           /\ query.answer = DetectChanges(query.asked.base, query.asked.head)
<1> DEFINE base == query.asked.base
           head == query.asked.head
           S == Range(base) \cup Range(head)
<1>1. base \in Seq(Range(base)) /\ head \in Seq(Range(head))
  BY AlgorithmsAssumption DEF Answered, FileChangesAssumption, IsSequence
<1>2. \A T : Range(base) \subseteq T => base \in Seq(T)
  BY <1>1
<1>3. \A T : Range(head) \subseteq T => head \in Seq(T)
  BY <1>1
<1>4. base \in Seq(S) /\ head \in Seq(S)
  BY <1>2, <1>3
<1>. QED
  BY <1>4 DEF Answered

\* Whatever the symbols of a file before and after, each loss and each change is
\* told once, and nothing else is told (_compare_file).
THEOREM VerdictsAreExact == Spec => []VerdictIsExact
<1>1. Answered => VerdictIsExact
  BY AnsweredVerdict, VerdictTellsAll DEF VerdictIsExact
<1>. QED
  BY <1>1, AlwaysAnswered, PTL

\* Whatever the symbols of a file before and after, and in whatever order, no new
\* name of a function is a guess (_match_renames).
THEOREM RenamesAreNeverGuessed == Spec => []RenamesAreCertain
<1>1. Answered => RenamesAreCertain
  BY AnsweredVerdict, RenamesAreNoGuess DEF RenamesAreCertain
<1>. QED
  BY <1>1, AlwaysAnswered, PTL

\* Whatever the reply, its row cites what the model was given (_validate).
THEOREM RepliesAreAlwaysGrounded == Spec => []RepliesAreGrounded
<1>1. Answered => RepliesAreGrounded
  BY AlgorithmsAssumption, StoredRepliesAreGrounded
     DEF Answered, RepliesAssumption, RepliesAreGrounded
<1>. QED
  BY <1>1, AlwaysAnswered, PTL

\* The panel's answer for a request.
LEMMA AnsweredPanel ==
    ASSUME Answered, query.part = "panel"
    PROVE  LET q == query.asked
               shown == query.answer.symbol
           IN  /\ IsAboutTheLine(q.symbols, q.line, shown)
               /\ CoversSummary(q.items, Evidence(q, shown), query.answer.panel, q.max)
               /\ shown = {} => IsGroundedPanel(q.dir, Evidence(q, {}), NoRow, query.answer.panel)
               /\ \A s \in shown :
                    IsGroundedPanel(q.dir, Evidence(q, {s}), q.rows[s], query.answer.panel)
<1> DEFINE q == query.asked
           a == query.answer
           n == Len(q.items)
<1>1. /\ q \in PanelRequests
      /\ a \in Context(q.symbols, q.dir, q.line, q.items, q.linked, q.rows, q.max)
  BY DEF Answered
<1>2. /\ q.line \in Int /\ \A s \in q.symbols : s.first \in Int /\ s.last \in Int
      /\ q.items \in Seq(Range(q.items)) /\ q.max \in Nat \ {0}
      /\ q.made \in [q.symbols -> SUBSET (1..n)]
      /\ \A s \in q.symbols : /\ q.linked[s] \in {q.made[s], {}}
                              /\ q.rows[s] \in Summaries(q.items, q.made[s], q.max)
  BY <1>1, AlgorithmsAssumption DEF PanelRequestsAssumption, IsSequence
<1>3. n \in Nat
  BY <1>2
<1> HIDE DEF q, a, n
<1>4. /\ IsAboutTheLine(q.symbols, q.line, a.symbol)
      /\ a.symbol = {} \/ \E s \in q.symbols : a.symbol = {s}
      /\ \A s \in a.symbol :
           /\ CoversSummary(q.items, q.linked[s], a.panel, q.max)
           /\ IsGroundedPanel(q.dir, q.linked[s], q.rows[s], a.panel)
      /\ a.symbol = {} =>
           /\ CoversSummary(q.items, LoadEvidence(q.linked, q.symbols), a.panel, q.max)
           /\ IsGroundedPanel(q.dir, LoadEvidence(q.linked, q.symbols), NoRow, a.panel)
  BY <1>1, <1>2, <1>3, ContextIsGrounded
<1>5. Evidence(q, {}) = LoadEvidence(q.linked, q.symbols)
  BY DEF Evidence
<1>6. ASSUME NEW s \in q.symbols PROVE Evidence(q, {s}) = q.linked[s]
  BY DEF Evidence, LoadEvidence
<1>7. CoversSummary(q.items, Evidence(q, a.symbol), a.panel, q.max)
  BY <1>4, <1>5, <1>6
<1>8. \A s \in a.symbol : IsGroundedPanel(q.dir, Evidence(q, {s}), q.rows[s], a.panel)
  BY <1>4, <1>6
<1>. QED
  BY <1>4, <1>5, <1>7, <1>8 DEF q, a

\* Whatever line the panel is opened for, the evidence of the summary is shown,
\* and the newest of the rest (select_for_display).
THEOREM PanelsCoverSummaries == Spec => []DisplayCoversSummary
<1>1. Answered => DisplayCoversSummary
  BY AnsweredPanel DEF DisplayCoversSummary
<1>. QED
  BY <1>1, AlwaysAnswered, PTL

\* Whatever line the panel is opened for, it is about the innermost symbol there;
\* it shows no summary without evidence, calls no evidence without a summary "no
\* history", and without evidence leads on from every file in a directory; a file
\* of the repository's root has no directory to lead to (get_context, _parent_module).
THEOREM PanelsAreGrounded == Spec => []PanelIsGrounded
<1>1. Answered => PanelIsGrounded
  BY AnsweredPanel DEF PanelIsGrounded
<1>. QED
  BY <1>1, AlwaysAnswered, PTL
=============================================================================
