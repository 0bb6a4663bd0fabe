----------------------------- MODULE MCServices -----------------------------
(***************************************************************************)
(* The registries and services of Tf for TLC, one at a time: they share no *)
(* state, so part says which of them a behaviour is about, and the         *)
(* variables of the others stay Off.                                       *)
(***************************************************************************)
EXTENDS Token, MallocTag, CallTree, TypeRegistry, EnvSetting, LazyInit, DebugSymbols, EnumNames,
        AtomicFile, ScopeDescription, ScriptModules, FileTree, SpinMutex, PyLock

CONSTANT Services   \* the parts that are checked

VARIABLE part

serviceVars == <<part, tokenVars, mallocVars, typeVars, envVars, lazyVars, debugVars, enumVars,
                 fileVars, scopeVars, moduleVars, treeVars, spinVars, pyVars, callTreeVars>>

\* Parts of which nothing is said while they rest have no state at all then.
Off == 0
TypeOff == /\ infos = Off /\ byName = Off /\ misdeclared = Off /\ program = Off /\ typeCall = Off
ModuleOff == /\ libInfo = Off /\ isLoaded = Off /\ module = Off /\ importer = Off /\ bound = Off
             /\ loading = Off /\ asked = Off /\ raised = Off /\ unfinished = Off
CallTreeOff == pathNodes = Off
TreeOff == tree = Off /\ found = Off /\ task = Off

\* The others rest in an initial state, in one of them if there are several.
EnvRests == /\ EnvInit /\ env = (CHOOSE e \in Environments : TRUE)
            /\ unread = (CHOOSE f \in SettingFiles : TRUE)
DebugRests == DebugInit /\ envTokens = (CHOOSE tokens \in EnvTokens : TRUE)
MallocRests == MallocInit /\ heap = [b \in Blocks |-> 0]
FileRests == FileInit /\ (target # 0) = (CHOOSE there \in TargetExists : TRUE)

ServicesInit == \E s \in Services :
  /\ part = s
  /\ TokenInit /\ LazyInit /\ EnumInit /\ ScopeInit /\ SpinInit /\ PyInit
  /\ IF s = "env" THEN EnvInit ELSE EnvRests
  /\ IF s = "debug" THEN DebugInit ELSE DebugRests
  /\ IF s = "file" THEN FileInit ELSE FileRests
  /\ IF s = "malloc" THEN MallocInit ELSE MallocRests
  /\ IF s = "type" THEN TypeInit ELSE TypeOff
  /\ IF s = "module" THEN ModuleInit ELSE ModuleOff
  /\ IF s = "tree" THEN TreeInit ELSE TreeOff
  /\ IF s = "calls" THEN CallTreeInit ELSE CallTreeOff

OthersStay(s) ==
  /\ part = s /\ UNCHANGED part
  /\ IF s = "token" THEN TRUE ELSE UNCHANGED tokenVars
  /\ IF s = "malloc" THEN TRUE ELSE UNCHANGED mallocVars
  /\ IF s = "type" THEN TRUE ELSE UNCHANGED typeVars
  /\ IF s = "env" THEN TRUE ELSE UNCHANGED envVars
  /\ IF s = "lazy" THEN TRUE ELSE UNCHANGED lazyVars
  /\ IF s = "debug" THEN TRUE ELSE UNCHANGED debugVars
  /\ IF s = "enum" THEN TRUE ELSE UNCHANGED enumVars
  /\ IF s = "file" THEN TRUE ELSE UNCHANGED fileVars
  /\ IF s = "scope" THEN TRUE ELSE UNCHANGED scopeVars
  /\ IF s = "module" THEN TRUE ELSE UNCHANGED moduleVars
  /\ IF s = "tree" THEN TRUE ELSE UNCHANGED treeVars
  /\ IF s = "spin" THEN TRUE ELSE UNCHANGED spinVars
  /\ IF s = "python" THEN TRUE ELSE UNCHANGED pyVars
  /\ IF s = "calls" THEN TRUE ELSE UNCHANGED callTreeVars

TokenMoves == OthersStay("token") /\ TokenNext
MallocMoves == OthersStay("malloc") /\ MallocNext
TypeMoves == OthersStay("type") /\ TypeNext
EnvMoves == OthersStay("env") /\ EnvNext
LazyMoves == OthersStay("lazy") /\ LazyNext
DebugMoves == OthersStay("debug") /\ DebugNext
EnumMoves == OthersStay("enum") /\ EnumNext
FileMoves == OthersStay("file") /\ FileNext
ScopeMoves == OthersStay("scope") /\ ScopeNext
ModuleMoves == OthersStay("module") /\ ModuleNext
TreeMoves == OthersStay("tree") /\ TreeNext
SpinMoves == OthersStay("spin") /\ SpinNext
PyMoves == OthersStay("python") /\ PyNext
CallTreeMoves == OthersStay("calls") /\ CallTreeNext

ServicesNext ==
  \/ TokenMoves \/ MallocMoves \/ TypeMoves \/ EnvMoves \/ LazyMoves \/ DebugMoves
  \/ EnumMoves \/ FileMoves \/ ScopeMoves \/ ModuleMoves \/ TreeMoves
  \/ SpinMoves \/ PyMoves \/ CallTreeMoves

ServicesSpec == ServicesInit /\ [][ServicesNext]_serviceVars

-----------------------------------------------------------------------------
(* The instances. *)

MCUserOf == [k \in Tokens |-> CASE k \in {"a1", "a2"} -> "a" [] k = "b1" -> "b" [] OTHER -> Anyone]

MCTags == {<<"f", "o">>}
MCRootTag == <<"__root">>
MCMatchLists ==
  {<<[str |-> <<"f">>, allow |-> TRUE, wildcard |-> TRUE],
     [str |-> <<"g">>, allow |-> FALSE, wildcard |-> FALSE]>>}

\* A and its derived types in some order, then D under several of them, once or twice;
\* or two threads that declare the same types.
Decl(name, bases) == [name |-> name, bases |-> bases]
MCPrograms ==
  {[u |-> p] : p \in
     {start \o last :
        start \in {<<Decl("A", <<>>), Decl("B", <<"A">>), Decl("C", <<"A">>)>>,
                   <<Decl("C", <<"A">>), Decl("B", <<"A">>), Decl("A", <<>>)>>},
        last \in {<<Decl("D", <<"A", "B">>)>>, <<Decl("D", <<"B">>), Decl("D", <<"C", "A">>)>>}}
     \cup {<<Decl("B", <<>>), Decl("A", <<>>), Decl("D", <<"B">>), Decl("D", <<"B", "A">>)>>,
           <<Decl("A", <<>>), Decl("B", <<"A">>), Decl("A", <<"B">>)>>}}
  \cup {[u |-> <<Decl("A", <<>>), Decl("B", <<"A">>)>>, v |-> p] : p \in
           {<<Decl("B", <<"A">>)>>, <<Decl("A", <<>>), Decl("C", <<"A">>)>>,
            <<Decl("D", <<"B", "A">>)>>}}
MCQueries == {<<"A", "x">>, <<"A", "B">>}
MCAliasings == {<<"A", "B", "x">>, <<"A", "C", "x">>}

MCVariableOf == [x \in Settings |-> IF x = "size" THEN "SIZE" ELSE "FAST"]
MCKindOf == [x \in Settings |-> IF x = "size" THEN "int" ELSE "bool"]
MCDefaultOf == [x \in Settings |-> IF x = "size" THEN "7" ELSE "false"]
MCEnvironments == {[v \in {"SIZE", "FAST"} |-> IF v = set THEN "1" ELSE ""] : set \in {"none", "SIZE"}}
MCSettingFiles == {<<>>, <<[key |-> "SIZE", text |-> "3"], [key |-> "FAST", text |-> "1"]>>}

MCSymbolOf == [n \in DebugNodes |-> IF n = "n3" THEN "B" ELSE "A"]
MCEnvTokens ==
  {<<[names |-> {"A", "B"}, value |-> TRUE], [names |-> {"B"}, value |-> FALSE]>>}
MCSetPatterns == {[names |-> {"A", "B"}, value |-> FALSE]}

\* L1 gives one value two names, L2 another value's name and type, L3 two more to the type.
Named(t, v, n) == [type |-> t, value |-> v, name |-> n]
MCNamesOf == [l \in EnumLibraries |->
  CASE l = "L1" -> <<Named("T", "0", "a"), Named("T", "1", "b"), Named("T", "0", "z")>>
    [] l = "L2" -> <<Named("T", "2", "c"), Named("T", "0", "a")>>
    [] l = "L3" -> <<Named("U", "0", "a"), Named("T", "3", "b"), Named("T", "3", "d")>>]

\* d depends on b and c, and they on a.
MCPredecessors == [l \in ModuleLibraries |->
  CASE l = "a" -> {} [] l = "b" -> {"a"} [] l = "c" -> {"a"} [] l = "d" -> {"b", "c"}]
MCLoadOrder == <<"d", "c", "b", "a">>

MakeAll(p, ok) == [op |-> "make", path |-> p, existOk |-> ok]
RmTree(p, handler) == [op |-> "remove", path |-> p, handler |-> handler, follow |-> FALSE]
WalkFrom(p, follow) == [op |-> "walk", path |-> p, follow |-> follow]
TouchIt(p) == [op |-> "touch", path |-> p]
RealOf(p) == [op |-> "real", path |-> p]
dirA == <<"a">>
dirAB == <<"a", "b">>
pathABC == <<"a", "b", "c">>
fileAF == <<"a", "f">>
dirO == <<"o">>
MCRequests == [m \in Makers |->
  IF m = "p" THEN {MakeAll(pathABC, TRUE), MakeAll(dirAB, FALSE), RmTree(dirA, TRUE),
                   WalkFrom(dirA, TRUE)}
  ELSE {MakeAll(dirAB, TRUE), MakeAll(dirAB, FALSE), RmTree(dirA, FALSE), RmTree(dirAB, TRUE),
        WalkFrom(dirA, TRUE), WalkFrom(dirA, FALSE), TouchIt(Append(dirAB, "f")),
        RealOf(<<"a", "x", "y", "z">>), RealOf(<<"a", "b", "c", "d">>), RealOf(<<"a", "l", "d">>)}]

TreeOf(dirs, plain, links) ==
  [p \in dirs \cup plain \cup DOMAIN links |->
     IF p \in dirs THEN [kind |-> "dir"] ELSE IF p \in plain THEN [kind |-> "file"]
     ELSE [kind |-> "link", to |-> links[p]]]
NoLinks == [p \in {} |-> <<>>]
\* The last has links out of the tree, to a directory around them, twice to one, and to nothing.
MCTrees == {
  TreeOf({dirO}, {}, NoLinks),
  TreeOf({dirA, dirO}, {fileAF}, NoLinks),
  TreeOf({dirA, dirAB, dirO}, {fileAF, pathABC}, NoLinks),
  TreeOf({dirA, dirAB, dirO, <<"o", "d">>}, {<<"o", "d", "f">>},
     [p \in {<<"a", "l">>, <<"a", "b", "u">>, <<"a", "b", "v">>, <<"a", "x">>} |->
        CASE p = <<"a", "l">> -> dirO [] p = <<"a", "b", "u">> -> dirA
          [] p = <<"a", "b", "v">> -> dirO [] OTHER -> <<"nothing">>])}

\* One thread moves its lock to another, and one has only one lock.
MCScopedOf == [t \in Lockers |-> IF t = "p" THEN {"k", "l"} ELSE {"k"}]

-----------------------------------------------------------------------------
(* The properties of the parts that have no state while they rest.  Those   *)
(* of the others are checked as their modules state them.                  *)

\* TypeRegistry and ScriptModules: what comes after what it is based on, types after
\* their bases (type.cpp:421-475, :601-712, :923-1010) and modules after those they
\* depend on (scriptModuleLoader.cpp:248-392).
HierarchiesAgree ==
  /\ part = "type" => HierarchyAgrees /\ LookupsAgree
  /\ part = "module" => ModulesInOrder
\* FileTree: trees of files that several processes make, remove and walk
\* (fileUtils.cpp:320-646).
TreesAgree == part = "tree" => TreesEndAsAsked
\* CallTree: the trees of what is billed, and their reports (mallocTag.cpp:871-957).
CallTreesAgree == part = "calls" => CallTreeBillsAll
=============================================================================
