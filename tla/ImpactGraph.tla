---------------------------- MODULE ImpactGraph ----------------------------
(***************************************************************************)
(* The graph of what a change to a symbol can reach                        *)
(* (src/api/explorer.py, _neighbours and _build_graph): two layers around  *)
(* the root, in both directions, cut at a number of nodes.                 *)
(*                                                                         *)
(* A reference is [source, target, type].  Nodes with as many references   *)
(* come in the order of the database's rows, which nothing fixes, so that  *)
(* a request has a set of possible answers.                                *)
(***************************************************************************)
EXTENDS Naturals, Sequences, FiniteSets, FiniteSetsExt

GraphDepth == 2     \* GRAPH_DEPTH

\* References with a symbol at both ends: an import starts at a module.
Neighbours(rows, symbols) == {r \in rows : {r.source, r.target} \subseteq symbols}

Ends(refs) == UNION {{e.source, e.target} : e \in refs}

Touching(refs, nodes) == {e \in refs : {e.source, e.target} \cap nodes # {}}

\* Mutant of Cut: the nodes found first are kept, not the most referenced.
CutAnywhere(new, room, count) ==
    {kept \in SUBSET new : Cardinality(kept) = Min({room, Cardinality(new)})}

\* The most referenced of the new nodes, as many as there is room for.
Cut(new, room, count) ==
    {kept \in SUBSET new :
        /\ Cardinality(kept) = Min({room, Cardinality(new)})
        /\ \A n \in kept, m \in new \ kept : count[n] >= count[m]}

\* Mutant of Drawn: an edge is kept whether or not its ends are.
DrawnAll(found, shown) == found

\* An edge of a node that has been cut is left out.
Drawn(found, shown) == {e \in found : {e.source, e.target} \subseteq shown}

\* Mutant of Way: callers and callees are swapped.
WaySwapped(found, n) == IF \E e \in found : e.target = n THEN "caller" ELSE "callee"

\* A neighbour of the root that both refers to it and is referred to is a caller.
Way(found, n) == IF \E e \in found : e.source = n THEN "caller" ELSE "callee"

\* A node beyond has the direction of the neighbour it was found from first.
Directions(graph, found, count, n) ==
    LET near == {f \in graph.frontier : \E e \in found : {e.source, e.target} = {f, n}}
    IN  {graph.direction[f] : f \in {g \in near : \A h \in near : count[g] >= count[h]}}

\* What is known of the shown nodes, with what is new.
With(known, new) ==
    [n \in DOMAIN known \cup DOMAIN new |-> IF n \in DOMAIN known THEN known[n] ELSE new[n]]

\* The graphs that the next layer makes of a graph.
AddLayer(graph, depth, refs, count, max) ==
    LET found == Touching(refs, graph.frontier)
        new   == Ends(found) \ DOMAIN graph.depth
        ways(n) == IF depth = 1 THEN {Way(found, n)} ELSE Directions(graph, found, count, n)
        grown(kept, way) ==
            [depth     |-> With(graph.depth, [n \in kept |-> depth]),
             direction |-> With(graph.direction, way),
             frontier  |-> kept,
             edges     |-> graph.edges \cup Drawn(found, kept \cup DOMAIN graph.depth),
             truncated |-> graph.truncated \/ kept # new]
    IN  UNION {{grown(kept, way) : way \in {w \in [kept -> {"caller", "callee"}] :
                                              \A n \in kept : w[n] \in ways(n)}} :
                 kept \in Cut(new, max + 1 - Cardinality(DOMAIN graph.depth), count)}

OnlyRoot(root) ==
    [depth |-> [n \in {root} |-> 0], direction |-> <<>>, frontier |-> {root}, edges |-> {},
     truncated |-> FALSE]

\* The graphs a request can be answered with; max is MAX_GRAPH_NODES.
Graphs(root, symbols, rows, count, max) ==
    LET refs == Neighbours(rows, symbols)
        layer[d \in 0..GraphDepth] ==
            IF d = 0 THEN {OnlyRoot(root)}
            ELSE UNION {AddLayer(g, d, refs, count, max) : g \in layer[d - 1]}
    IN  layer[GraphDepth]
-----------------------------------------------------------------------------
\* The symbols at most d references from the root, whatever their direction.
Within2(refs, root) ==
    LET one == Ends(Touching(refs, {root})) \cup {root}
    IN  [near |-> one, all |-> one \cup Ends(Touching(refs, one))]

\* What is shown is what is nearest, and of what is as near the most referenced;
\* truncated says just whether something within two references is missing.
ShowsNearest(root, symbols, rows, count, max, g) ==
    LET reach == Within2(Neighbours(rows, symbols), root)
        shown == DOMAIN g.depth \ {root}
        dist(n) == IF n \in reach.near THEN 1 ELSE 2
        missing == (reach.all \ {root}) \ shown
    IN  /\ shown \subseteq reach.all
        /\ Cardinality(shown) = Min({max, Cardinality(reach.all) - 1})
        /\ g.truncated <=> missing # {}
        /\ \A n \in shown :
             /\ g.depth[n] = dist(n)
             /\ \A m \in missing :
                  dist(n) < dist(m) \/ (dist(n) = dist(m) /\ count[n] >= count[m])

\* "An edge whose two ends are in the graph stays" (_build_graph), for every edge
\* of the root or a node next to it, and no edge leads to a node that was cut.
EdgesAreOfShown(root, symbols, rows, g) ==
    LET inner == {n \in DOMAIN g.depth : g.depth[n] < GraphDepth}
    IN  g.edges = {e \in Touching(Neighbours(rows, symbols), inner) :
                     {e.source, e.target} \subseteq DOMAIN g.depth}

\* A caller refers to the root or to something next to a caller, a callee is
\* referred to: no direction is made up (docs/api-spec.md, direction).
DirectionsAreFounded(root, symbols, rows, g) ==
    LET refs == Neighbours(rows, symbols)
    IN  \A n \in DOMAIN g.depth \ {root} :
          IF g.depth[n] = 1
          THEN \E e \in refs : IF g.direction[n] = "caller" THEN e.source = n /\ e.target = root
                               ELSE e.source = root /\ e.target = n
          ELSE \E m \in DOMAIN g.direction, e \in refs :
                  /\ g.depth[m] = 1 /\ g.direction[m] = g.direction[n]
                  /\ {e.source, e.target} = {m, n}

\* The edges of the root and its neighbours, and the directions, are as they
\* should be (_build_graph, _neighbours).
IsFounded(root, symbols, rows, g) ==
    EdgesAreOfShown(root, symbols, rows, g) /\ DirectionsAreFounded(root, symbols, rows, g)
=============================================================================
