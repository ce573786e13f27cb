---------------------------- MODULE MCAlgorithms ----------------------------
(***************************************************************************)
(* The questions that Algorithms is asked for TLC: bounded inputs of each  *)
(* of the pure algorithms.                                                 *)
(***************************************************************************)
EXTENDS Algorithms, SequencesExt, TLC
-----------------------------------------------------------------------------
(* Reference resolution: Python files a, b, pkg and pkg.b, or scripts page  *)
(* and client; everything defines foo or does not.                          *)

File(dir, stem, ext) == [dir |-> dir, stem |-> stem, ext |-> ext]
a       == File(<<>>, "a", "py")
b       == File(<<>>, "b", "py")
pkg     == File(<<"pkg">>, "__init__", "py")
pkgB    == File(<<"pkg">>, "b", "py")
client  == File(<<>>, "client", "ts")
folder  == File(<<"client">>, "index", "ts")
page    == File(<<>>, "page", "ts")

\* In the order of the walk.
PythonTrees == {<<a>>, <<a, b>>, <<a, b, pkgB>>, <<a, b, pkg, pkgB>>}
ScriptTrees == {<<client, page>>, <<folder, page>>, <<folder, client, page>>}

Foo(f, class) == [file |-> f, class |-> class, name |-> "foo"]
Foos(files) == {Foo(f, Nothing) : f \in Range(files)}
               \cup (IF b \in Range(files) THEN {Foo(b, "K")} ELSE {})

Top(name) == Name(".", <<name>>)
Import(local, module, origin) == [local |-> local, module |-> module, origin |-> origin]
PythonImports == {
    Import("foo", Top("b"), "foo"),   Import("foo", Top("pkg"), "foo"),
    Import("foo", Top("ext"), "foo"), Import("foo", Top("b"), "bar"),
    Import("foo", Name(".", <<"pkg", "b">>), "foo"),
    Import("b", Top("pkg"), "b"),     Import("b", Top("b"), Nothing),
    Import("m", Top("b"), Nothing),   Import("b", Top("ext"), Nothing)}
ScriptImports == {
    Import("foo", Top("client"), "foo"), Import("m", Top("client"), Nothing),
    Import("foo", Top("react"), "foo"),  Import(Nothing, Top("client"), Nothing)}

AtMostTwo(S) == UNION {[1..n -> S] : n \in 0..2}

Reference(f, receiver) == [file |-> f, name |-> "foo", receiver |-> receiver]

\* Every tree, symbols, imports and receiver.
ReferencesIn(trees, from, imports, receivers) ==
    {q \in [files : trees, symbols : SUBSET UNION {Foos(files) : files \in trees},
            items : AtMostTwo(imports), ref : {Reference(from, r) : r \in receivers}] :
       q.symbols \subseteq Foos(q.files)}

AllReferences ==
    ReferencesIn(PythonTrees, a, PythonImports, {Nothing, "b", "m", "self", "obj"})
    \cup ReferencesIn(ScriptTrees, page, ScriptImports, {Nothing, "m"})
-----------------------------------------------------------------------------
(* The impact graph: a root and three symbols, any references among them.   *)

Nodes == {"root", "n1", "n2", "n3"}
Call(s, t) == [source |-> s, target |-> t, type |-> "call"]
Calls == {Call(p[1], p[2]) : p \in {q \in Nodes \X Nodes : q[1] # q[2]}}
ImportOfRoot == [source |-> "module", target |-> "root", type |-> "import"]

AllGraphRequests ==
    {[root |-> "root", symbols |-> Nodes, rows |-> calls \cup {ImportOfRoot}, max |-> max,
      count |-> [n \in Nodes |-> ReferenceCount(calls \cup {ImportOfRoot}, n)]] :
        calls \in SUBSET Calls, max \in 1..3}
-----------------------------------------------------------------------------
(* Change detection: up to three symbols before, in any order and with      *)
(* repeated names; functions f, g, x, y and a constant k after.             *)

Symbol(kind, name, params, value) ==
    [kind |-> kind, name |-> name, params |-> params, value |-> value]
Function(name, params) == Symbol("function", name, params, Nothing)
Constant(name, value) == Symbol("constant", name, Nothing, value)

Before == {Function("f", "p"), Function("g", "p"), Function("g", "q"), Function("h", "p"),
           Constant("k", 1)}
After == UNION {{Function(n, "p"), Function(n, "q")} : n \in {"f", "g", "x", "y"}}
         \cup {Constant("k", 1), Constant("k", 2)}

Revisions(S) == {R \in SUBSET S : \A s, t \in R : s.name = t.name => s = t}

AllFileChanges ==
    UNION {[base : [1..n -> Before], head : {SetToSeq(R) : R \in Revisions(After)}] : n \in 0..3}
-----------------------------------------------------------------------------
(* The context panel: a class, a method in it and a function; three items   *)
(* of evidence, of which two are shown.                                     *)

MaxEvidence == 2

Lines(name, first, last) == [name |-> name, first |-> first, last |-> last]
Class == Lines("C", 1, 6)
Method == Lines("C.m", 2, 5)
FileSymbols == {Class, Method, Lines("C.m.inner", 3, 4)}

Item(merge, body, chore, figures) ==
    [merge |-> merge, body |-> body, chore |-> chore, figures |-> figures]
Items == [1..3 -> {Item(TRUE, TRUE, FALSE, FALSE), Item(FALSE, FALSE, TRUE, FALSE),
                   Item(FALSE, FALSE, TRUE, TRUE), Item(FALSE, TRUE, FALSE, FALSE)}]

Rows == {NoRow, Row("no_history", {})}
        \cup [status : {"ok", "conflicting"}, cites : (SUBSET (1..3)) \ {{}}]

\* A request about a line of a symbol or outside of all of them, in a file of the
\* root or of a directory.  The
\* evidence of the class has that of the method; a reindexing may have taken the
\* evidence of a summary away.
PanelOf(dir, line, items, method, class, row) ==
    LET linked == [s \in FileSymbols |-> IF s = Class THEN class ELSE method]
    IN  [symbols |-> FileSymbols, dir |-> dir, line |-> line, items |-> items, linked |-> linked,
         made |-> [s \in FileSymbols |-> IF linked[s] = {} THEN 1..3 ELSE linked[s]],
         rows |-> [s \in FileSymbols |-> IF s \in Innermost(FileSymbols, line) THEN row ELSE NoRow],
         max |-> MaxEvidence]

AllPanelRequests ==
    {q \in {PanelOf(dir, line, items, p[1], p[2], row) :
              dir \in {<<>>, <<"src">>}, line \in {1, 2, 7}, items \in Items, row \in Rows,
              p \in {r \in (SUBSET (1..3)) \X SUBSET (1..3) : r[1] \subseteq r[2]}} :
       \A s \in Innermost(FileSymbols, q.line) :
          q.rows[s] \in Summaries(q.items, q.made[s], q.max)}
-----------------------------------------------------------------------------
(* A reply of the model: up to two sentences about two items of evidence.   *)

Sentences == [clean : BOOLEAN, cites : {{}, {0}, {1}, {2}, {1, 2}}]
ReplyRecords == [sentences : {S \in SUBSET Sentences : Cardinality(S) <= 2},
            dropped : SUBSET (1..2),
            status : {"ok", "no_history", "conflicting"},
            sides : {<<>>, <<{1}, {2}>>, <<{1}, {1}>>, <<{1}, {0}>>}]

AllReplies == [used : {{1}, {1, 2}}, reply : ReplyRecords]
=============================================================================
