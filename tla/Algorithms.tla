----------------------------- MODULE Algorithms -----------------------------
(***************************************************************************)
(* The pure algorithms of the system, each asked one question: a reference *)
(* of a file to be resolved, the graph around a symbol, the verdict on a   *)
(* changed file, the panel of a line, the check of a reply.  The questions *)
(* are constants; where an algorithm leaves a choice to the order of the   *)
(* database's rows, any of its answers is given.                           *)
(***************************************************************************)
EXTENDS Integers, Sequences, FiniteSets,
        ReferenceResolution, ImpactGraph, ChangeDetection, ContextPanel

CONSTANTS
    References,     \* [files, symbols, items, ref]: items are the imports of ref's file
    GraphRequests,  \* [root, symbols, rows, count, max]
    FileChanges,    \* [base, head]: the symbols found in the two revisions
    PanelRequests,  \* [symbols, dir, line, items, made, linked, rows, max]: the directory
                    \*   of the file, the evidence a symbol had when its summary was made, and has now
    Replies         \* [reply, used]

IsSequence(s) == s \in Seq(Range(s))

\* A reference has a name, and no file is called None: it could not be imported,
\* but is what f"{module}.{origin_name}" looks for when a module is imported.
ReferencesAssumption ==
    \A q \in References :
        /\ IsSequence(q.files) /\ IsSequence(q.items) /\ IsFiniteSet(q.symbols)
        /\ q.ref.name # Nothing
        /\ \A i \in 1..Len(q.items), f \in Range(q.files) :
             q.items[i].origin = Nothing => Submodule(q.items[i]) \notin NamesOf(f)

GraphRequestsAssumption ==
    \A q \in GraphRequests : IsFiniteSet(q.symbols) /\ q.root \in q.symbols /\ q.max \in Nat

FileChangesAssumption == \A q \in FileChanges : IsSequence(q.base) /\ IsSequence(q.head)

\* Evidence is numbered; a summary is of the evidence a symbol has, or had before
\* a reindexing took it away.
PanelRequestsAssumption ==
    \A q \in PanelRequests :
        /\ q.line \in Int /\ \A s \in q.symbols : s.first \in Int /\ s.last \in Int
        /\ IsSequence(q.items) /\ q.max \in Nat \ {0}
        /\ q.made \in [q.symbols -> SUBSET (1..Len(q.items))]
        /\ \A s \in q.symbols : /\ q.linked[s] \in {q.made[s], {}}
                                /\ q.rows[s] \in Summaries(q.items, q.made[s], q.max)

RepliesAssumption == \A q \in Replies : IsFiniteSet(q.used)

ASSUME AlgorithmsAssumption ==
    /\ ReferencesAssumption /\ GraphRequestsAssumption /\ FileChangesAssumption
    /\ PanelRequestsAssumption /\ RepliesAssumption

VARIABLE query      \* what was asked and answered
-----------------------------------------------------------------------------
Init == query = [part |-> "none"]

ResolveReference ==
    \E q \in References :
      LET index == ImportIndex(ModulePaths(q.files), q.items)
      IN  query' = [part |-> "resolution", asked |-> q,
                    answer |-> Resolve(q.symbols, index, q.ref)]

ShowGraph ==
    \E q \in GraphRequests : \E g \in Graphs(q.root, q.symbols, q.rows, q.count, q.max) :
      query' = [part |-> "graph", asked |-> q, answer |-> g]

CheckFile ==
    \E q \in FileChanges :
      query' = [part |-> "change", asked |-> q, answer |-> DetectChanges(q.base, q.head)]

OpenPanel ==
    \E q \in PanelRequests :
      \E shown \in Context(q.symbols, q.dir, q.line, q.items, q.linked, q.rows, q.max) :
        query' = [part |-> "panel", asked |-> q, answer |-> shown]

CheckReply ==
    \E q \in Replies : \E row \in Validate(q.reply, q.used) :
      query' = [part |-> "reply", asked |-> q, answer |-> row]

Next ==
    /\ query.part = "none"
    /\ ResolveReference \/ ShowGraph \/ CheckFile \/ OpenPanel \/ CheckReply

Spec == Init /\ [][Next]_query
-----------------------------------------------------------------------------
\* A stored link never leaves the file that the imports and the scope of the
\* reference name, and import rows and links agree on what is outside
\* (_resolve_targets, _import_references).
LinksFollowScope ==
    query.part = "resolution" =>
        LET q == query.asked
        IN  /\ FollowsScope(q.files, q.symbols, q.items, q.ref, query.answer)
            /\ RowsAgreeWithIndex(q.files, q.items)

\* "If that file has no such name it is dropped, other candidates are not
\* considered" (_narrow, parsing.py:234): m.f() stays in the module m.
QualifiedCallsStay ==
    query.part = "resolution" =>
        StaysInModule(query.asked.files, query.asked.items, query.asked.ref, query.answer)

\* The graph shows what is nearest and most referenced, and is called truncated
\* just when something is missing (_build_graph).
GraphShowsNearest ==
    query.part = "graph" =>
        LET q == query.asked
        IN  ShowsNearest(q.root, q.symbols, q.rows, q.count, q.max, query.answer)

\* The edges of the root and its neighbours are all there, between nodes that are
\* shown, and every direction is that of a reference (_build_graph).
GraphIsFounded ==
    query.part = "graph" =>
        IsFounded(query.asked.root, query.asked.symbols, query.asked.rows, query.answer)

\* A file's warnings tell each loss and change once, and nothing else
\* (_compare_file).
VerdictIsExact ==
    query.part = "change" => IsExactVerdict(query.asked.base, query.asked.head, query.answer)

\* A rename's new name is never a guess, in whatever order the functions come
\* (_match_renames).
RenamesAreCertain ==
    query.part = "change" => HasCertainRenames(query.asked.base, query.asked.head, query.answer)

\* What the panel is about: the evidence of its symbol, or of the whole file.
Evidence(q, symbol) == LoadEvidence(q.linked, IF symbol = {} THEN q.symbols ELSE symbol)

\* The evidence a summary cites is on the panel (select_for_display).
DisplayCoversSummary ==
    query.part = "panel" =>
        LET q == query.asked
        IN  CoversSummary(q.items, Evidence(q, query.answer.symbol), query.answer.panel, q.max)

\* No summary without evidence, no "no history" for evidence without a summary, out
\* of a directory a way on when there is no evidence, and the panel is about the
\* innermost symbol of the line (get_context).
PanelIsGrounded ==
    query.part = "panel" =>
        LET q == query.asked
            shown == query.answer.symbol
        IN  /\ IsAboutTheLine(q.symbols, q.line, shown)
            /\ shown = {} => IsGroundedPanel(q.dir, Evidence(q, {}), NoRow, query.answer.panel)
            /\ \A s \in shown :
                 IsGroundedPanel(q.dir, Evidence(q, {s}), q.rows[s], query.answer.panel)

\* What is stored of a reply cites evidence the model was given, and a rejected
\* reply is not taken for "no history" (_validate).
RepliesAreGrounded ==
    query.part = "reply" =>
        IsGroundedRow(query.asked.reply, query.asked.used, query.answer)
=============================================================================
