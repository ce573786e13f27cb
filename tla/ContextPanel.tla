---------------------------- MODULE ContextPanel ----------------------------
(***************************************************************************)
(* What the context panel shows for a line (src/api/context.py), and the   *)
(* choice of evidence it shares with the summaries                         *)
(* (src/llm/summarizer.py, load_evidence to select_for_display).           *)
(*                                                                         *)
(* Evidence is numbered in the order of its dates; an item is              *)
(* [merge, body, chore, figures]: a merge commit, has it a body, does its  *)
(* title start with chore: or style:, does it have a figure or an arrow.   *)
(***************************************************************************)
EXTENDS Integers, Sequences, FiniteSets, FiniteSetsExt

\* A row of symbol_summaries, and no row.
Row(status, cites) == [status |-> status, cites |-> cites]
NoRow == Row("none", {})

IsNoise(item) == item.merge \/ (~item.body /\ item.chore /\ ~item.figures)

Newest(numbers, k) == {i \in numbers : Cardinality({j \in numbers : j > i}) < k}

\* load_evidence: a commit that is evidence for several symbols comes once.
LoadEvidence(linked, symbols) == UNION {linked[s] : s \in symbols}

SelectForSummary(items, numbers, max) ==
    Newest({i \in numbers : ~IsNoise(items[i])}, max)

\* Mutant of SelectForDisplay: the newest items, used by the summary or not.
SelectNewest(items, numbers, max) == Newest(numbers, max)

\* What the summary uses first, the newest noise in the places left.
SelectForDisplay(items, numbers, max) ==
    LET used == SelectForSummary(items, numbers, max)
    IN  used \cup Newest(numbers \ used, max - Cardinality(used))

WorthSummarizing(items, used) ==
    /\ used # {}
    /\ Cardinality(used) = 1 => \A i \in used : items[i].body

-----------------------------------------------------------------------------
(* The model's reply (_sentence_is_grounded, _validate): its sentences are  *)
(* [clean, cites], clean if nothing in the text is malformed, guessed or    *)
(* made up; 0 stands for an id that no item has.                            *)

\* Mutant of IsGrounded: a sentence may cite what the reply itself dropped.
IsGroundedOrDropped(sentence, used, dropped) ==
    sentence.clean /\ sentence.cites # {} /\ sentence.cites \subseteq used

IsGrounded(sentence, used, dropped) ==
    sentence.clean /\ sentence.cites # {} /\ sentence.cites \subseteq used \ dropped

IsConflict(reply, used) ==
    /\ reply.status = "conflicting"
    /\ Len(reply.sides) = 2
    /\ \A k \in 1..2 : reply.sides[k] # {} /\ reply.sides[k] \subseteq used
    /\ reply.sides[1] \cap reply.sides[2] = {}

\* The row a reply leaves, or none if it is of no use.  A long summary loses
\* its first sentences, so that what it cites is some of what was kept.
Validate(reply, used) ==
    LET kept == {s \in reply.sentences : IsGrounded(s, used, reply.dropped)}
        status == IF IsConflict(reply, used) THEN "conflicting" ELSE "ok"
    IN  IF kept # {}
        THEN {Row(status, UNION {s.cites : s \in said}) : said \in (SUBSET kept) \ {{}}}
        ELSE IF reply.sentences = {} /\ reply.status = "no_history"
             THEN {Row("no_history", {})}
             ELSE {NoRow}

\* The rows generate_summary can leave for a symbol with this evidence.
Summaries(items, numbers, max) ==
    LET used == SelectForSummary(items, numbers, max)
        replied == IF WorthSummarizing(items, used)
                   THEN {Row(s, c) : s \in {"ok", "conflicting"}, c \in (SUBSET used) \ {{}}}
                   ELSE {}
    IN  {NoRow, Row("no_history", {})} \cup replied
-----------------------------------------------------------------------------
\* Mutant of Innermost: the outermost symbol around the line.
Outermost(symbols, line) ==
    LET covering == {s \in symbols : line \in s.first..s.last}
    IN  {s \in covering : \A t \in covering : s.last - s.first >= t.last - t.first}

\* The narrowest symbols around the line; the database's order decides a tie.
Innermost(symbols, line) ==
    LET covering == {s \in symbols : line \in s.first..s.last}
    IN  {s \in covering : \A t \in covering : s.last - s.first <= t.last - t.first}

\* Mutant of StatusOf: a summary is shown though its evidence is gone.
StatusOfRow(row, shown) == IF row # NoRow THEN row.status
                           ELSE IF shown # {} THEN "ok" ELSE "no_history"

StatusOf(row, shown) == IF shown = {} THEN "no_history"
                        ELSE IF row # NoRow THEN row.status ELSE "ok"

\* _parent_module: the directory a file is in, none for a file of the root.
ParentModule(dir) == IF dir = <<>> THEN {} ELSE {dir}

\* The answer for one symbol, or outside of them for the whole file.
Panel(dir, items, numbers, row, max) ==
    LET shown == SelectForDisplay(items, numbers, max)
        status == StatusOf(row, shown)
    IN  [status    |-> status,
         cites     |-> IF row # NoRow /\ status = row.status THEN row.cites ELSE {},
         evidence  |-> shown,
         truncated |-> shown # numbers,
         parent    |-> IF status = "no_history" THEN ParentModule(dir) ELSE {}]

\* get_context, for a file of the directory dir: linked and rows give each symbol's
\* evidence and its summary's row.
Context(symbols, dir, line, items, linked, rows, max) ==
    IF Innermost(symbols, line) = {}
    THEN {[symbol |-> {}, panel |-> Panel(dir, items, LoadEvidence(linked, symbols), NoRow, max)]}
    ELSE {[symbol |-> {s},
           panel |-> Panel(dir, items, LoadEvidence(linked, {s}), rows[s], max)] :
             s \in Innermost(symbols, line)}
-----------------------------------------------------------------------------
\* "A failed check and no history are told apart" (_validate): no row says there
\* is no history because sentences were rejected; one that says something cites
\* evidence the model was given and did not drop, and a conflict has two sides.
IsGroundedRow(reply, used, row) ==
    row # NoRow =>
        /\ row.status = "no_history" <=> row.cites = {}
        /\ row.status = "no_history" => reply.sentences = {}
        /\ row.cites \subseteq used \ reply.dropped
        /\ row.status = "conflicting" => Cardinality(used) >= 2

\* "The display must include the evidence the summary cites" (select_for_display):
\* noise fills what is left, newest first, and truncated tells of the rest.
CoversSummary(items, numbers, panel, max) ==
    LET used == SelectForSummary(items, numbers, max)
        fill == panel.evidence \ used
    IN  /\ panel.cites \subseteq panel.evidence /\ used \subseteq panel.evidence
        /\ Cardinality(panel.evidence) = Min({max, Cardinality(numbers)})
        /\ \A i \in fill, j \in numbers \ panel.evidence : j < i \/ ~IsNoise(items[j])
        /\ panel.truncated <=> Cardinality(numbers) > max

\* A summary is never shown without evidence, evidence without a summary is not
\* called "no history", and without evidence the reader is led on to the directory
\* the file is in: from the repository's root there is nowhere to go.
IsGroundedPanel(dir, numbers, row, panel) ==
    /\ panel.cites # {} => panel.evidence # {} /\ row # NoRow
    /\ (row = NoRow /\ numbers # {}) => panel.status = "ok" /\ panel.parent = {}
    /\ numbers = {} => panel.status = "no_history" /\ (dir # <<>> => panel.parent # {})

\* The panel is about what the reader clicked: no symbol of the file that holds
\* the line lies inside the one that is shown.
IsAboutTheLine(symbols, line, shown) ==
    LET holds(t) == line \in t.first..t.last
    IN  /\ shown = {} => \A t \in symbols : ~holds(t)
        /\ \A s \in shown :
             /\ holds(s)
             /\ \A t \in symbols : (holds(t) /\ s.first <= t.first /\ t.last <= s.last)
                  => t.first = s.first /\ t.last = s.last
=============================================================================
