---------------------------- MODULE DebugSymbols ----------------------------
(***************************************************************************)
(* TfDebug.  The official state of a symbol is what was set explicitly or, *)
(* if nothing was, what the patterns of TF_DEBUG say.  Nodes are caches of *)
(* it: each library that uses a symbol has one, read without a lock.  The  *)
(* registry knows a node from its first use or its registration on, and    *)
(* writes every change to all nodes it knows, under _tableMutex.           *)
(***************************************************************************)
EXTENDS Integers, Sequences, FiniteSets

CONSTANTS
  Symbols,       \* the names of debug symbols
  DebugNodes,    \* the nodes, in whatever library
  SymbolOf,      \* SymbolOf[n]: the symbol of node n
  Debuggers,     \* the threads
  EnvTokens,     \* the values TF_DEBUG may have: sequences of [names, value]
  SetPatterns    \* what SetDebugSymbolsByName is called with: sets of [names, value]

\* A pattern is the set of symbols it matches, with FALSE for one that starts with '-'.

VARIABLES
  nodeState,     \* nodeState[n]: "Uninitialized", "Disabled" or "Enabled"
  registeredNames, \* _registeredNames: the symbols that have been described
  namesToNodes,  \* _namesToNodes: the nodes of symbols that are known
  envTokens,     \* _envTokens
  explicit,      \* _namesToExplicitEnabledState, or "Unset"
  tableMutex,    \* who holds _tableMutex
  debugCall      \* debugCall[d]: the call d is in

debugVars == <<nodeState, registeredNames, namesToNodes, envTokens, explicit, tableMutex, debugCall>>

Nobody == "nobody"

ASSUME DebugAssumption == SymbolOf \in [DebugNodes -> Symbols] /\ Nobody \notin Debuggers

Quiet == [op |-> "Quiet"]
StateOf(enabled) == IF enabled THEN "Enabled" ELSE "Disabled"

DebugInit ==
  /\ nodeState = [n \in DebugNodes |-> "Uninitialized"]
  /\ registeredNames = {}
  /\ namesToNodes = {}
  /\ envTokens \in EnvTokens
  /\ explicit = [s \in Symbols |-> "Unset"]
  /\ tableMutex = Nobody
  /\ debugCall = [d \in Debuggers |-> Quiet]

\* _CheckSymbolAgainstPatterns: the last pattern that matches decides.
CheckSymbolAgainstPatterns(s, patterns) ==
  LET matching == {i \in DOMAIN patterns : s \in patterns[i].names}
  IN [matched |-> matching # {},
      enabled |-> \E i \in matching : patterns[i].value /\ \A j \in matching : j <= i]

\* _GetEnabledStateNoLock.
OfficialState(s) ==
  IF explicit[s] # "Unset" THEN explicit[s]
  ELSE StateOf(CheckSymbolAgainstPatterns(s, envTokens).enabled)

DebugGoes(d, call) == debugCall' = [debugCall EXCEPT ![d] = call]
Calls(d, op) == debugCall[d].op = op
KnownNodes(S) == {n \in namesToNodes : SymbolOf[n] \in S}

\* Every IsEnabled that is under way may answer with a state set meanwhile; the
\* history "may" of the calls is not in the code.
NowMayBe(d, step, S, state) ==
  debugCall' = [e \in Debuggers |->
    CASE e = d -> step
      [] e # d /\ debugCall[e].op \in {"Read", "Initialize", "Reread"}
               /\ SymbolOf[debugCall[e].node] \in S -> [debugCall[e] EXCEPT !.may = @ \cup {state}]
      [] OTHER -> debugCall[e]]

\* The states the symbol has or is being given.
Current(s) == {OfficialState(s)} \cup
  UNION {{debugCall[d].state} : d \in {e \in Debuggers : Calls(e, "Store") /\ s \in debugCall[e].names}}

-----------------------------------------------------------------------------
(* IsEnabled: a node that is not initialised is made known, and gets the   *)
(* official state together with all other known nodes of its symbol.       *)

DebugIsEnabled(d, n) ==
  /\ Calls(d, "Quiet")
  /\ DebugGoes(d, [op |-> "Read", node |-> n, may |-> Current(SymbolOf[n])])
  /\ UNCHANGED <<nodeState, registeredNames, namesToNodes, envTokens, explicit, tableMutex>>

DebugRead(d) ==
  LET call == debugCall[d]
  IN /\ Calls(d, "Read")
     /\ DebugGoes(d, IF nodeState[call.node] = "Uninitialized"
                   THEN [call EXCEPT !.op = "Initialize"]
                   ELSE [op |-> "Answer", says |-> nodeState[call.node], may |-> call.may])
     /\ UNCHANGED <<nodeState, registeredNames, namesToNodes, envTokens, explicit, tableMutex>>

InitializeNode(d) ==
  LET n == debugCall[d].node
      s == SymbolOf[n]
  IN /\ Calls(d, "Initialize") /\ tableMutex = Nobody
     /\ namesToNodes' = namesToNodes \cup {n}
     /\ nodeState' = [m \in DebugNodes |->
          IF m \in KnownNodes({s}) \cup {n} THEN OfficialState(s) ELSE nodeState[m]]
     /\ DebugGoes(d, [debugCall[d] EXCEPT !.op = "Reread"])
     /\ UNCHANGED <<registeredNames, envTokens, explicit, tableMutex>>

DebugReread(d) ==
  LET call == debugCall[d]
  IN /\ Calls(d, "Reread")
     /\ DebugGoes(d, [op |-> "Answer", says |-> nodeState[call.node], may |-> call.may])
     /\ UNCHANGED <<nodeState, registeredNames, namesToNodes, envTokens, explicit, tableMutex>>

DebugAnswers(d) ==
  /\ Calls(d, "Answer")
  /\ DebugGoes(d, Quiet)
  /\ UNCHANGED <<nodeState, registeredNames, namesToNodes, envTokens, explicit, tableMutex>>

-----------------------------------------------------------------------------
(* Registering and setting. *)

\* _Register: the node is made known; its state is found when it is needed.  (To
\* describe a symbol again is a fatal error.)
RegisterSymbol(d, n) ==
  /\ Calls(d, "Quiet") /\ tableMutex = Nobody
  /\ SymbolOf[n] \notin registeredNames
  /\ registeredNames' = registeredNames \cup {SymbolOf[n]}
  /\ namesToNodes' = namesToNodes \cup {n}
  /\ UNCHANGED <<nodeState, envTokens, explicit, tableMutex, debugCall>>

\* The stores to the nodes, one by one, under the mutex.
BeginStores(d, nodes, names, state) ==
  NowMayBe(d, [op |-> "Store", todo |-> nodes, names |-> names, state |-> state], names, state)

StoredTo_OwnNode(n) == {n}

\* Every node of the symbol that is known, and the one that is asked for.
StoredTo(n) == KnownNodes({SymbolOf[n]}) \cup {n}

\* _SetByName, for Enable, Disable and their All forms.
SetByName(d, n, enabled) ==
  LET s == SymbolOf[n]
  IN /\ Calls(d, "Quiet") /\ tableMutex = Nobody
     /\ tableMutex' = d
     /\ namesToNodes' = namesToNodes \cup {n}
     /\ BeginStores(d, StoredTo(n), {s}, StateOf(enabled))
     /\ UNCHANGED <<nodeState, registeredNames, envTokens, explicit>>

\* _SetByPattern: of the symbols that have a known node, those that match.
SetByPattern(d, pattern) ==
  LET names == {SymbolOf[n] : n \in namesToNodes} \cap pattern.names
  IN /\ Calls(d, "Quiet") /\ tableMutex = Nobody
     /\ names # {}
     /\ tableMutex' = d
     /\ BeginStores(d, KnownNodes(names), names, StateOf(pattern.value))
     /\ UNCHANGED <<nodeState, registeredNames, namesToNodes, envTokens, explicit>>

StoreNode(d) ==
  \E n \in debugCall[d].todo :
    /\ Calls(d, "Store")
    /\ nodeState' = [nodeState EXCEPT ![n] = debugCall[d].state]
    /\ DebugGoes(d, [debugCall[d] EXCEPT !.todo = @ \ {n}])
    /\ UNCHANGED <<registeredNames, namesToNodes, envTokens, explicit, tableMutex>>

\* The explicit state is stored under the mutex too.  After its release a
\* TfDebugSymbolEnableChangedNotice is sent, whose listeners may call anything again.
ReleaseTable(d) ==
  LET call == debugCall[d]
  IN /\ Calls(d, "Store") /\ call.todo = {}
     /\ explicit' = [s \in Symbols |-> IF s \in call.names THEN call.state ELSE explicit[s]]
     /\ tableMutex' = Nobody
     /\ DebugGoes(d, Quiet)
     /\ UNCHANGED <<nodeState, registeredNames, namesToNodes, envTokens>>

DebugStep(d) ==
  \/ \E n \in DebugNodes : DebugIsEnabled(d, n) \/ RegisterSymbol(d, n)
  \/ DebugRead(d) \/ InitializeNode(d) \/ DebugReread(d) \/ DebugAnswers(d)
  \/ \E n \in DebugNodes, enabled \in BOOLEAN : SetByName(d, n, enabled)
  \/ \E pattern \in SetPatterns : SetByPattern(d, pattern)
  \/ (Calls(d, "Store") /\ StoreNode(d)) \/ ReleaseTable(d)

DebugNext == \E d \in Debuggers : DebugStep(d)

DebugSpec == DebugInit /\ [][DebugNext]_debugVars

-----------------------------------------------------------------------------
(* Properties. *)

\* While nobody is changing states, every node that will be believed without a lock
\* is known and has its symbol's official state, in all libraries alike; and what
\* IsEnabled answers is a state the symbol had, or was being given, during the call.
DebugCachesAgree ==
  /\ tableMutex = Nobody =>
       \A n \in DebugNodes : nodeState[n] # "Uninitialized" =>
         n \in namesToNodes /\ nodeState[n] = OfficialState(SymbolOf[n])
  /\ \A d \in Debuggers : Calls(d, "Answer") => debugCall[d].says \in debugCall[d].may
=============================================================================
