---------------------------- MODULE ScriptModules ----------------------------
(***************************************************************************)
(* TfScriptModuleLoader: the Python modules of the libraries that are      *)
(* loaded.  Importing a module comes back to the loader, which imports the *)
(* modules of the library's direct predecessors first; a library opened    *)
(* later, or the start of Python, makes it import everything.              *)
(*                                                                         *)
(* Python's import is external: a module that is being imported is waited  *)
(* for by other threads, unless these wait for each other, and is handed   *)
(* out unfinished in that case and to its own thread.                      *)
(***************************************************************************)
EXTENDS Integers, Sequences, FiniteSets

CONSTANTS
  ModuleLibraries,   \* the libraries, each with a module of its own
  Predecessors,      \* Predecessors[l]: the direct predecessors of l
  LoadOrder,         \* all libraries, sorted by name
  PythonThreads,     \* the threads
  MayRaise,          \* the libraries whose import may raise
  LoadsAll           \* the libraries whose module may ask for all once its bindings are there

VARIABLES
  libInfo,      \* the keys of _libInfo
  isLoaded,     \* the libraries marked loaded
  module,       \* module[l]: "Absent", "Importing" or "Imported"
  importer,     \* importer[l]: the thread that is importing it
  bound,        \* the libraries whose bindings are registered
  loading,      \* loading[u]: the calls u is in, the innermost last
  asked,        \* history: a module has asked for all in the middle of its import
  raised,       \* history: the libraries whose import raised
  unfinished    \* history: those that were handed out while they were imported

moduleVars == <<libInfo, isLoaded, module, importer, bound, loading, asked, raised, unfinished>>
lapses == <<asked, raised, unfinished>>

NoThread == "none"

ModuleInit ==
  /\ libInfo = {}
  /\ isLoaded = {}
  /\ module = [l \in ModuleLibraries |-> "Absent"]
  /\ importer = [l \in ModuleLibraries |-> NoThread]
  /\ bound = {}
  /\ loading = [u \in PythonThreads |-> <<>>]
  /\ asked = FALSE /\ raised = {} /\ unfinished = {}

Call(u) == loading[u][Len(loading[u])]
Below(u) == SubSeq(loading[u], 1, Len(loading[u]) - 1)
In(u, place) == loading[u] # <<>> /\ Call(u).at = place
Becomes(u, call) == loading' = [loading EXCEPT ![u] = Append(Below(u), call)]
Deeper(u, call) == loading' = [loading EXCEPT ![u] = Append(@, call)]
Ends(u) == loading' = [loading EXCEPT ![u] = Below(u)]

InOrder(S) == SelectSeq(LoadOrder, LAMBDA l : l \in S)

\* A list of modules to import, and the import of one.
Loads(S) == [at |-> "Load", todo |-> InOrder(S), tried |-> FALSE]
Import(l, place) == [at |-> place, lib |-> l]

\* RegisterLibrary, by the registry function of a library being opened (TfDlopen), and
\* LoadModules after that: the modules not marked are collected under the lock.
OpenLibrary(u, l) ==
  /\ loading[u] = <<>> /\ l \notin libInfo
  /\ Predecessors[l] \subseteq libInfo
  /\ libInfo' = libInfo \cup {l}
  /\ Deeper(u, [at |-> "LoadModules"])
  /\ UNCHANGED <<isLoaded, module, importer, bound, lapses>>

LoadModules(u) ==
  /\ In(u, "LoadModules")
  /\ Becomes(u, Loads(libInfo \ isLoaded))
  /\ UNCHANGED <<libInfo, isLoaded, module, importer, bound, lapses>>

\* An import statement of a script.
ScriptImports(u, l) ==
  /\ loading[u] = <<>> /\ l \in libInfo /\ module[l] = "Absent"
  /\ module' = [module EXCEPT ![l] = "Importing"]
  /\ importer' = [importer EXCEPT ![l] = u]
  /\ Deeper(u, Import(l, "Start"))
  /\ UNCHANGED <<libInfo, isLoaded, bound, lapses>>

-----------------------------------------------------------------------------
(* _LoadLibModules: one module after the other; PyImport_ImportModule.     *)

First(u) == Head(Call(u).todo)
Rest(u) == [Call(u) EXCEPT !.todo = Tail(@), !.tried = FALSE]

LoadSkips(u) ==
  /\ In(u, "Load") /\ Call(u).todo # <<>> /\ First(u) \in isLoaded
  /\ Becomes(u, Rest(u))
  /\ UNCHANGED <<libInfo, isLoaded, module, importer, bound, lapses>>

\* The threads that u would wait for, directly or not, if it waited for the module.
RECURSIVE WaitsFor(_, _)
WaitsFor(l, seen) ==
  LET v == importer[l]
  IN IF v \in seen \cup {NoThread} THEN {v}
     ELSE IF In(v, "Wait") THEN {v} \cup WaitsFor(Call(v).lib, seen \cup {v}) ELSE {v}

MarkedBefore_Import(l) == isLoaded \cup {l}

\* Only who is back from an import marks.
MarkedBefore(l) == isLoaded

\* The import is begun, or somebody else's is waited for.
LoadImports(u) ==
  LET l == First(u)
  IN /\ In(u, "Load") /\ Call(u).todo # <<>> /\ l \notin isLoaded /\ ~Call(u).tried
     /\ \/ /\ module[l] = "Importing" /\ u \notin WaitsFor(l, {})
           /\ Deeper(u, Import(l, "Wait"))
           /\ UNCHANGED <<isLoaded, module, importer>>
        \/ /\ module[l] = "Absent"
           /\ module' = [module EXCEPT ![l] = "Importing"]
           /\ importer' = [importer EXCEPT ![l] = u]
           /\ loading' = [loading EXCEPT ![u] =
                Below(u) \o <<[Call(u) EXCEPT !.tried = TRUE], Import(l, "Start")>>]
           /\ isLoaded' = MarkedBefore(l)
     /\ UNCHANGED <<libInfo, bound, lapses>>

WaitEnds(u) ==
  /\ In(u, "Wait") /\ module[Call(u).lib] # "Importing"
  /\ Ends(u)
  /\ UNCHANGED <<libInfo, isLoaded, module, importer, bound, lapses>>

\* Back from the import, whatever came of it, the library is marked loaded.
HandedOut(u) == module[First(u)] = "Importing" /\ u \in WaitsFor(First(u), {})
IsBack(u) == Call(u).tried \/ module[First(u)] = "Imported" \/ HandedOut(u)

LoadMarks(u) ==
  /\ In(u, "Load") /\ Call(u).todo # <<>> /\ First(u) \notin isLoaded
  /\ IsBack(u)
  /\ isLoaded' = isLoaded \cup {First(u)}
  /\ Becomes(u, Rest(u))
  /\ unfinished' = IF HandedOut(u) /\ ~Call(u).tried THEN unfinished \cup {First(u)} ELSE unfinished
  /\ UNCHANGED <<libInfo, module, importer, bound, asked, raised>>

LoadEnds(u) ==
  /\ In(u, "Load") /\ Call(u).todo = <<>>
  /\ Ends(u)
  /\ UNCHANGED <<libInfo, isLoaded, module, importer, bound, lapses>>

-----------------------------------------------------------------------------
(* What an import runs: Tf_PyInitWrapModule asks for the predecessors      *)
(* (LoadModulesForLibrary), registers the bindings, and the module goes on. *)

ModuleStarts(u) ==
  LET l == Call(u).lib
  IN /\ In(u, "Start")
     /\ loading' = [loading EXCEPT ![u] =
          Below(u) \o <<Import(l, "Bind"), Loads(Predecessors[l] \cap (libInfo \ isLoaded))>>]
     /\ UNCHANGED <<libInfo, isLoaded, module, importer, bound, lapses>>

ModuleBinds(u) ==
  LET l == Call(u).lib
  IN /\ In(u, "Bind")
     /\ bound' = bound \cup {l}
     /\ \/ /\ Becomes(u, Import(l, "End"))
           /\ UNCHANGED asked
        \/ /\ l \in LoadsAll
           /\ loading' = [loading EXCEPT ![u] =
                Below(u) \o <<Import(l, "End"), [at |-> "LoadModules"]>>]
           /\ asked' = TRUE
     /\ UNCHANGED <<libInfo, isLoaded, module, importer, raised, unfinished>>

ModuleRaises(u) ==
  /\ In(u, "Bind") /\ Call(u).lib \in MayRaise
  /\ module' = [module EXCEPT ![Call(u).lib] = "Absent"]
  /\ importer' = [importer EXCEPT ![Call(u).lib] = NoThread]
  /\ Ends(u)
  /\ raised' = raised \cup {Call(u).lib}
  /\ UNCHANGED <<libInfo, isLoaded, bound, asked, unfinished>>

ModuleEnds(u) ==
  /\ In(u, "End")
  /\ module' = [module EXCEPT ![Call(u).lib] = "Imported"]
  /\ importer' = [importer EXCEPT ![Call(u).lib] = NoThread]
  /\ Ends(u)
  /\ UNCHANGED <<libInfo, isLoaded, bound, lapses>>

ModuleNext ==
  \E u \in PythonThreads :
    \/ \E l \in ModuleLibraries : OpenLibrary(u, l) \/ ScriptImports(u, l)
    \/ LoadModules(u) \/ LoadSkips(u) \/ LoadImports(u) \/ WaitEnds(u) \/ LoadMarks(u)
    \/ LoadEnds(u) \/ ModuleStarts(u) \/ ModuleBinds(u) \/ ModuleRaises(u) \/ ModuleEnds(u)

ModuleSpec == ModuleInit /\ [][ModuleNext]_moduleVars

-----------------------------------------------------------------------------
(* Properties. *)

\* Bindings may derive from the predecessors', so those come first, whichever thread
\* imports what at the same time: only a predecessor is done without whose import
\* raised, or that Python handed out unfinished because whoever asked for it would have
\* waited for itself; and no wait goes round in a circle unless some module asked for
\* everything in the middle of its import (scriptModuleLoader.cpp:320-336, :367-392).
ModulesInOrder ==
  /\ \A l \in bound : Predecessors[l] \subseteq bound \cup raised \cup unfinished
  /\ unfinished # {} => asked

\* "Loads the modules in dependency order as defined in RegisterLibrary."
\* (scriptModuleLoader.h:60-61)
BoundInOrder == \A l \in bound : Predecessors[l] \subseteq bound \cup raised
=============================================================================
