-------------------------- MODULE ChangeDetection --------------------------
(***************************************************************************)
(* The verdict on a pull request's changed files                           *)
(* (src/analysis/pr_changes.py): the symbols of a file's two revisions     *)
(* compared by name.                                                       *)
(*                                                                         *)
(* A symbol is [name, kind, params, value]; the parameters' names are one  *)
(* value, and so is a constant's statement as its tokens.  A file's symbols *)
(* come as a sequence, a dictionary of them is the set of its values, and  *)
(* the place of a name in it is that where the name came first.            *)
(***************************************************************************)
EXTENDS Naturals, Sequences, FiniteSets

\* {symbol.name: symbol}: a later symbol of the same name takes the place.
ParseSymbols(found) ==
    {found[i] : i \in {j \in 1..Len(found) :
        \A k \in 1..Len(found) : found[k].name = found[j].name => k <= j}}

OfKind(symbols, kind) == {s \in symbols : s.kind = kind}

\* The symbol a dictionary has under a name, as a set.
Named(symbols, name) == {s \in symbols : s.name = name}

Missing(symbols, others) == {s \in symbols : Named(others, s.name) = {}}

Warn(type, old, new) == [type |-> type, symbol |-> old.name, new |-> new]
-----------------------------------------------------------------------------
(* _match_renames *)

\* Mutant of Partner: the first of several candidates will do.
PartnerFirst(old, added) ==
    LET same == {new \in added : new.params = old.params}
    IN  IF same = {} THEN {} ELSE {CHOOSE new \in same : TRUE}

\* The one function that appeared with the parameters of the one that is gone.
Partner(old, added) ==
    LET same == {new \in added : new.params = old.params}
    IN  IF Cardinality(same) = 1 THEN same ELSE {}

\* The name of found[i] gets its place in the dictionary there.
TakesPlace(found, i) == \A k \in 1..(i - 1) : found[k].name # found[i].name

\* The turn of the i-th symbol, if it is one of those that are gone.
Pair(found, gone, added, matched, i) ==
    LET left == added \ {p[2] : p \in matched}
    IN  matched \cup {p \in gone \X left : /\ TakesPlace(found, i) /\ p[1].name = found[i].name
                                           /\ p[2] \in Partner(p[1], left)}

MatchRenames(found, gone, added) ==
    LET matched[i \in 0..Len(found)] ==
            IF i = 0 THEN {} ELSE Pair(found, gone, added, matched[i - 1], i)
    IN  matched[Len(found)]
-----------------------------------------------------------------------------
(* _compare_file *)

\* The symbols, before and after, of the names in both revisions.
Both(base, head) == {p \in base \X head : p[1].name = p[2].name}

SignatureChanges(base, head) ==
    {Warn("signature_changed", p[1], p[2]) :
        p \in {q \in Both(base, head) : q[1].params # q[2].params}}

ConstantChanges(base, head) ==
    {Warn("constant_changed", p[1], p[2]) :
        p \in {q \in Both(base, head) : q[1].value # q[2].value}}

\* Mutant of Unpaired: what was renamed counts as deleted too.
UnpairedOrNot(gone, renamed) == gone

\* Gone and not renamed.
Unpaired(gone, renamed) == gone \ {p[1] : p \in renamed}

\* found: the base's symbols, for their places.
CompareFile(found, base, head) ==
    LET functions == OfKind(base, "function")
        present   == OfKind(head, "function")
        gone      == Missing(functions, present)
        renamed   == MatchRenames(found, gone, Missing(present, functions))
    IN  SignatureChanges(functions, present)
        \cup {Warn("renamed", p[1], p[2]) : p \in renamed}
        \cup {Warn("deleted", s, s) : s \in Unpaired(gone, renamed)}
        \cup ConstantChanges(OfKind(base, "constant"), OfKind(head, "constant"))

\* A file without a source, or that the parser rejects, has no symbols.
DetectChanges(base, head) == CompareFile(base, ParseSymbols(base), ParseSymbols(head))
-----------------------------------------------------------------------------
\* The symbols of a kind in force in a file: the last of each name.
InForce(found, kind) == OfKind(ParseSymbols(found), kind)

\* Every function that is gone is told once, as a rename or as a deletion, one
\* whose parameters changed once, and a function that stays the same never.
EachLossIsTold(base, head, warnings) ==
    LET old == InForce(base, "function")
        new == InForce(head, "function")
        told(s) == {w \in warnings : w.symbol = s.name}
        kept(s) == {n \in new : n.name = s.name}
    IN  \A s \in old :
          /\ Cardinality(told(s)) = IF kept(s) = {} \/ (\E n \in kept(s) : n.params # s.params)
                                    THEN 1 ELSE 0
          /\ \A w \in told(s) :
               IF kept(s) = {} THEN w.type \in {"renamed", "deleted"}
               ELSE w.type = "signature_changed"

\* "A warning that is noise is one nobody reads" (pr_changes.py:11-12): there is one
\* only for a name of the base revision, and for a constant only if the head has
\* it with another value.
WarningsAreNotNoise(base, head, warnings) ==
    /\ \A w \in warnings : \E s \in InForce(base, "function") \cup InForce(base, "constant") :
         s.name = w.symbol
    /\ \A w \in warnings : w.type = "constant_changed" =>
         \E s \in InForce(base, "constant"), n \in InForce(head, "constant") :
            s.name = w.symbol /\ n.name = s.name /\ n.value # s.value
    /\ InForce(base, "function") \cup InForce(base, "constant")
         \subseteq InForce(head, "function") \cup InForce(head, "constant") => warnings = {}

\* The verdict of a file: every loss once, and no noise.
IsExactVerdict(base, head, warnings) ==
    EachLossIsTold(base, head, warnings) /\ WarningsAreNotNoise(base, head, warnings)

\* The new name of a rename is never a guess, whatever the order of the functions:
\* it is the only one that appeared with those parameters, and is given to one old
\* name.  Which one is the order's choice when several of those are gone.
HasCertainRenames(base, head, warnings) ==
    LET old == InForce(base, "function")
        new == InForce(head, "function")
        appeared == {n \in new : \A s \in old : s.name # n.name}
        renames == {w \in warnings : w.type = "renamed"}
    IN  /\ \A w \in renames :
             /\ w.new \in appeared
             /\ \A n \in appeared : n.params = w.new.params => n = w.new
             /\ \E s \in old : s.name = w.symbol /\ s.params = w.new.params
        /\ \A v, w \in renames : v.new = w.new => v = w
=============================================================================
