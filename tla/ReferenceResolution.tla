------------------------ MODULE ReferenceResolution ------------------------
(***************************************************************************)
(* The resolution of references in src/indexing/parsing.py: which file a   *)
(* module's name stands for, what an import binds in a file, and which     *)
(* symbol of the repository a call or a constant's use refers to.          *)
(*                                                                         *)
(* A file is [dir |-> <<"src", "api">>, stem |-> "repos", ext |-> "py"].   *)
(* A module's name is a sequence of parts and what joins them: "." in      *)
(* Python, "/" in TypeScript, nothing when there is one part.  A symbol is *)
(* [file, class, name]: its ident is unique (_drop_duplicate_idents).  An  *)
(* import is ParsedImport without its line, a reference ParsedReference    *)
(* without its source.                                                     *)
(***************************************************************************)
EXTENDS Naturals, Sequences, FiniteSets, FiniteSetsExt, Functions

Nothing == "nothing"    \* null, and the empty local name of import './setup'

Scripts == {"ts", "tsx", "js", "jsx"}       \* _TS_SUFFIXES
-----------------------------------------------------------------------------
(* _module_paths *)

Name(sep, parts) == [sep |-> IF Len(parts) = 1 THEN "" ELSE sep, parts |-> parts]

\* a/b.py is a.b and a/__init__.py is a; the root's __init__.py is nothing.
Dotted(f) == Name(".", IF f.stem = "__init__" THEN f.dir ELSE Append(f.dir, f.stem))

Slashed(f) == Name("/", Append(f.dir, f.stem))

\* The names a script file answers to: a folder's is its index file's too.
ScriptNames(f) ==
    {Slashed(f)} \cup (IF f.stem = "index" /\ f.dir # <<>> THEN {Name("/", f.dir)} ELSE {})

\* The names a file answers to: the root's __init__.py none.
NamesOf(f) ==
    IF f.ext = "py" THEN {n \in {Dotted(f)} : n.parts # <<>>}
    ELSE IF f.ext \in Scripts THEN ScriptNames(f)
    ELSE {}

\* A Python file takes its name over, a script keeps off one that is taken: the
\* last of the Python files that answer to a name, or else the first script.
Registered(files, n) ==
    LET all    == {i \in 1..Len(files) : n \in NamesOf(files[i])}
        python == {i \in all : files[i].ext = "py"}
    IN  files[IF python # {} THEN Max(python) ELSE Min(all)]

\* files: the sequence read, in the order of the walk.
ModulePaths(files) ==
    [n \in UNION {NamesOf(f) : f \in Range(files)} |-> Registered(files, n)]
-----------------------------------------------------------------------------
(* _build_import_index, for the imports of one file *)

\* f"{item.module}.{item.origin_name}"
Submodule(item) ==
    Name(IF item.module.sep = "/" THEN "/." ELSE ".", Append(item.module.parts, item.origin))

InRepo(mods, item) == {item.module, Submodule(item)} \cap DOMAIN mods # {}

\* What the name stands for if it is a module.
ModuleOf(item) == IF item.origin = Nothing THEN item.module ELSE Submodule(item)

\* The last of some imports that brings a name in.
Latest(items, places, name) == items[Max({i \in places : items[i].local = name})]

\* items: the file's imports in order; a later one takes a name over.  The names
\* that stand for a module, those that come from a file, and those from outside.
ImportIndex(mods, items) ==
    LET bound     == {i \in 1..Len(items) : items[i].local # Nothing}
        ofModule  == {i \in bound : ModuleOf(items[i]) \in DOMAIN mods}
        ofFile    == {i \in bound : items[i].origin # Nothing /\ items[i].module \in DOMAIN mods}
        locals(I) == {items[i].local : i \in I}
    IN  [modules  |-> [n \in locals(ofModule) |-> mods[ModuleOf(Latest(items, ofModule, n))]],
         names    |-> [n \in locals(ofFile) |-> mods[Latest(items, ofFile, n).module]],
         external |-> locals({i \in bound : ~InRepo(mods, items[i])})]
-----------------------------------------------------------------------------
(* _is_external, _narrow, _resolve_targets, for one reference *)

\* symbols_by_name: a method is found by its last part.
Candidates(symbols, ref) == {s \in symbols : s.name = ref.name}

IsExternal(index, ref) ==
    (IF ref.receiver # Nothing THEN ref.receiver ELSE ref.name) \in index.external

Within(candidates, f) == {c \in candidates : c.file = f}

OrAll(some, all) == IF some # {} THEN some ELSE all

\* A name bound by an import that no candidate of its file has is not bound.
Bound(candidates, ref, index) ==
    IF ref.name \in DOMAIN index.names THEN Within(candidates, index.names[ref.name]) ELSE {}

\* Mutant of Narrow: the file's own definition goes before the imported one.
NarrowOwnFirst(candidates, ref, index) ==
    IF ref.receiver \in DOMAIN index.modules
    THEN Within(candidates, index.modules[ref.receiver])
    ELSE OrAll(Within(candidates, ref.file), OrAll(Bound(candidates, ref, index), candidates))

Narrow(candidates, ref, index) ==
    IF ref.receiver \in DOMAIN index.modules
    THEN Within(candidates, index.modules[ref.receiver])
    ELSE OrAll(Bound(candidates, ref, index),
               IF ref.receiver \in {Nothing, "self", "cls"}
               THEN OrAll(Within(candidates, ref.file), candidates)
               ELSE candidates)

\* The symbol the reference is stored with, if any.
Resolve(symbols, index, ref) ==
    LET all  == Candidates(symbols, ref)
        kept == IF Cardinality(all) > 1 THEN Narrow(all, ref, index) ELSE all
    IN  IF ~IsExternal(index, ref) /\ Cardinality(kept) = 1 THEN kept ELSE {}
-----------------------------------------------------------------------------
(* _import_references: the target of an import's row *)

\* The file, and the name in it or Nothing for the module; no file if outside.
ImportTarget(mods, item) ==
    LET row(n, name) == [file |-> {mods[n]}, name |-> name]
    IN  IF item.origin # Nothing /\ Submodule(item) \in DOMAIN mods
        THEN row(Submodule(item), Nothing)
        ELSE IF item.module \in DOMAIN mods THEN row(item.module, item.origin)
        ELSE [file |-> {}, name |-> item.origin]

\* _update_reference_counts: imports are rows, and are not counted.
ReferenceCount(rows, symbol) ==
    Cardinality({r \in rows : r.target = symbol /\ r.type # "import"})
-----------------------------------------------------------------------------
(* What the names mean, whatever the tables say. *)

\* The files a module's name can stand for.
FilesNamed(files, n) == {f \in Range(files) : n \in NamesOf(f)}

\* The imports that bind a name, and the one in force.
Importing(items, name) == {i \in 1..Len(items) : items[i].local = name}
InForceImport(items, name) == items[Max(Importing(items, name))]

Defined(symbols, f, name) == [file |-> f, class |-> Nothing, name |-> name] \in symbols

\* A name imported only from outside the repository is nothing in it: useState()
\* and axios.get() are not linked to functions of those names (parsing.py:150-155).
ExternalsAreNotLinked(files, symbols, items, ref, link) ==
    LET name == IF ref.receiver # Nothing THEN ref.receiver ELSE ref.name
        outside(item) == FilesNamed(files, item.module) \cup FilesNamed(files, Submodule(item)) = {}
    IN  (Importing(items, name) # {} /\ \A i \in Importing(items, name) : outside(items[i]))
        => link = {}

\* A bare name imported from a file that defines it, under that name, refers to
\* that file, whatever else has the name: the caller's own file, or a third one.
ImportedNamesAreFollowed(files, symbols, items, ref, link) ==
    (ref.receiver = Nothing /\ Importing(items, ref.name) # {}) =>
        LET item == InForceImport(items, ref.name)
        IN  item.origin = ref.name =>
              \A f \in Range(files) :
                     /\ FilesNamed(files, item.module) = {f}
                     /\ Defined(symbols, f, ref.name)
                     => \A s \in link : s.file = f

\* m.f(), where m is an imported module of the repository that defines f, refers
\* to m's f.
ModulesAreFollowed(files, symbols, items, ref, link) ==
    (ref.receiver # Nothing /\ Importing(items, ref.receiver) # {}) =>
        \A f \in Range(files) :
               /\ FilesNamed(files, ModuleOf(InForceImport(items, ref.receiver))) = {f}
               /\ Defined(symbols, f, ref.name)
               => \A s \in link : s.file = f

\* f() with no import of f refers to the f of its own file if there is one.
OwnNamesAreFollowed(files, symbols, items, ref, link) ==
    (/\ ref.receiver = Nothing /\ Importing(items, ref.name) = {}
     /\ Defined(symbols, ref.file, ref.name))
    => \A s \in link : s.file = ref.file

\* "No relation is better than a wrong one" (parsing.py:7-8), in the cases the
\* language decides: a link never leaves the file that the scope names.
FollowsScope(files, symbols, items, ref, link) ==
    /\ ExternalsAreNotLinked(files, symbols, items, ref, link)
    /\ ImportedNamesAreFollowed(files, symbols, items, ref, link)
    /\ ModulesAreFollowed(files, symbols, items, ref, link)
    /\ OwnNamesAreFollowed(files, symbols, items, ref, link)

\* The import rows and the index are built apart and agree: a row leads outside
\* the repository just when the name it binds is one that is never linked.
RowsAgreeWithIndex(files, items) ==
    LET mods == ModulePaths(files)
    IN  \A i \in 1..Len(items) : items[i].local # Nothing =>
          (ImportTarget(mods, items[i]).file = {}
             <=> items[i].local \in ImportIndex(mods, <<items[i]>>).external)

\* "If that file has no such name, it is dropped, and other candidates are not
\* considered" (_narrow's docstring, item 1): m.f() does not leave the module m.
StaysInModule(files, items, ref, link) ==
    LET index == ImportIndex(ModulePaths(files), items)
    IN  ref.receiver \in DOMAIN index.modules =>
          \A s \in link : s.file = index.modules[ref.receiver]
=============================================================================
