----------------------------- MODULE MallocTag -----------------------------
(***************************************************************************)
(* TfMallocTag.  Threads push tags onto stacks of their own, and the hooks *)
(* around malloc, realloc and free bill every block to the path of tags on *)
(* its thread's stack.  They hold the global mutex shared; changing what   *)
(* is traced and reporting hold it alone.                                  *)
(*                                                                         *)
(* A path node is the sequence of the tags on the way to it; the root is   *)
(* the empty one.  The mutex is the lock of RWLock: whoever holds it alone *)
(* does all it does in one step, taken while nobody holds it shared.       *)
(***************************************************************************)
EXTENDS Integers, FiniteSets, Sequences, SequencesExt

CONSTANTS
  Tags,         \* the names that are pushed, sequences of characters
  RootTag,      \* "__root"
  Mallocers,    \* the threads
  Blocks,       \* addresses
  BlockSizes,   \* sizes that are asked for
  MatchLists,   \* the lists that are set, sequences of [str, allow, wildcard]
  MaxPushed,    \* tags pushed at once, in all threads; a bound
  MaxAllocs     \* how often blocks are allocated or moved; a bound

ASSUME MallocAssumption ==
  /\ RootTag \notin Tags /\ <<>> \notin Tags
  /\ IsFiniteSet(Blocks) /\ BlockSizes \subseteq Nat \ {0}
  /\ MaxPushed \in Nat /\ MaxAllocs \in Nat

VARIABLES
  heap,         \* heap[b]: the size of the block the allocator has at b, 0 if free
  info,         \* _blockInfo: the size and node of a registered block, or NoBlock
  nodes,        \* _pathNodeTable: [bytes, allocs] of each path
  sites,        \* _callSiteTable: [bytes, trace] of each tag
  total,        \* _totalBytes
  maxTotal,     \* _maxTotalBytes
  traces,       \* _callStackTable: the size recorded with each traced address
  matchList,    \* _traceMatchTable
  tagStack,     \* _nodeStack of each thread
  mallocCall,   \* the call each thread is in
  early,        \* history: the blocks that were there before Initialize, and still are
  dropped,      \* history: those whose last reallocation failed
  allocs        \* how many blocks were allocated or moved; not in the code

mallocVars == <<heap, info, nodes, sites, total, maxTotal, traces, matchList,
                tagStack, mallocCall, early, dropped, allocs>>
past == <<early, dropped>>
books == <<info, nodes, sites, total, traces>>

NoBlock == [size |-> 0, node |-> <<>>]
Idle == [op |-> "None"]
SumOf(f, S) == FoldSet(LAMBDA x, sum : sum + f[x], 0, S)
Tag(path) == IF path = <<>> THEN RootTag ELSE Last(path)

-----------------------------------------------------------------------------
(* The table of match strings.  Items are tried from the last one; a       *)
(* wildcard one that does not match leaves the name where the comparison   *)
(* stopped, for the items before it.                                       *)

Common(str, name) ==
  Cardinality({n \in 1..Len(str) : IsPrefix(SubSeq(str, 1, n), name)})

Matches(list, name) ==
  LET left[i \in 1..Len(list)] ==   \* what is left of the name when item i is tried
        IF i = Len(list) THEN name
        ELSE IF list[i + 1].wildcard
             THEN SubSeq(left[i + 1], Common(list[i + 1].str, left[i + 1]) + 1, Len(name))
             ELSE left[i + 1]
      Hit(i) == IF list[i].wildcard THEN IsPrefix(list[i].str, left[i])
                                    ELSE list[i].str = left[i]
  IN  \E i \in DOMAIN list : Hit(i) /\ list[i].allow /\ \A j \in DOMAIN list : j > i => ~Hit(j)

-----------------------------------------------------------------------------
MallocInit ==
  /\ heap \in [Blocks -> {0} \cup BlockSizes]     \* allocated before Initialize
  /\ info = [b \in Blocks |-> NoBlock]
  /\ nodes = [p \in {<<>>} |-> [bytes |-> 0, allocs |-> 0]]
  /\ sites = [s \in {RootTag} |-> [bytes |-> 0, trace |-> FALSE]]
  /\ total = 0 /\ maxTotal = 0
  /\ traces = [b \in Blocks |-> 0]
  /\ matchList = <<>>
  /\ tagStack = [t \in Mallocers |-> <<>>]
  /\ mallocCall = [t \in Mallocers |-> Idle]
  /\ early = {b \in Blocks : heap[b] > 0} /\ dropped = {}
  /\ allocs = 0

Goes(t, call) == mallocCall' = [mallocCall EXCEPT ![t] = call]
Doing(t, op) == mallocCall[t].op = op
CurrentNode(t) == IF tagStack[t] = <<>> THEN <<>> ELSE Last(tagStack[t])

\* Calls that hold the mutex shared between two of their steps.
HoldsShared(t) == mallocCall[t].op \in {"Emplace", "Moved", "Move", "ReadMax", "StoreMax"}
Alone == \A t \in Mallocers : ~HoldsShared(t)

-----------------------------------------------------------------------------
(* Tags.                                                                   *)

AddIfNew(f, key, new) == [k \in DOMAIN f \cup {key} |-> IF k \in DOMAIN f THEN f[k] ELSE new]
AddNode(f, path) == AddIfNew(f, path, [bytes |-> 0, allocs |-> 0])
AddSite(f, tag, flag) == AddIfNew(f, tag, [bytes |-> 0, trace |-> flag])

MayPush ==
  SumOf([t \in Mallocers |-> Len(tagStack[t])], Mallocers)
    + Cardinality({t \in Mallocers : Doing(t, "Emplace")}) < MaxPushed

\* _Begin makes the call site and the child node; a site's flags are computed from
\* the list before it is in the table.
Begin(t, tag) ==
  /\ Doing(t, "None") /\ MayPush
  /\ Goes(t, [op |-> "Emplace", tag |-> tag, flag |-> Matches(matchList, tag)])
  /\ UNCHANGED <<heap, books, maxTotal, matchList, tagStack, allocs, past>>

Emplace(t) ==
  LET call == mallocCall[t]
      path == Append(CurrentNode(t), call.tag)
  IN  /\ Doing(t, "Emplace")
      /\ sites' = AddSite(sites, call.tag, call.flag)
      /\ nodes' = AddNode(nodes, path)
      /\ tagStack' = [tagStack EXCEPT ![t] = Append(@, path)]
      /\ Goes(t, Idle)
      /\ UNCHANGED <<heap, info, total, maxTotal, traces, matchList, allocs, past>>

\* _End, and the end of a StackOverride.
End(t) ==
  /\ Doing(t, "None") /\ tagStack[t] # <<>>
  /\ tagStack' = [tagStack EXCEPT ![t] = Front(@)]
  /\ UNCHANGED <<heap, books, maxTotal, matchList, mallocCall, allocs, past>>

\* A StackOverride with the state another thread has captured.
Override(t, u) ==
  /\ Doing(t, "None") /\ t # u /\ tagStack[u] # <<>> /\ MayPush
  /\ tagStack' = [tagStack EXCEPT ![t] = Append(@, Last(tagStack[u]))]
  /\ UNCHANGED <<heap, books, maxTotal, matchList, mallocCall, allocs, past>>

-----------------------------------------------------------------------------
(* Blocks.  Nobody frees or moves a block that another call still has.     *)

Uses(u, b) == ~Doing(u, "None") /\ ~Doing(u, "Emplace") /\ mallocCall[u].block = b
Mine(t, b) == Doing(t, "None") /\ heap[b] > 0 /\ ~\E u \in Mallocers : Uses(u, b)

Bill(node, size, n) ==
  /\ nodes' = [nodes EXCEPT ![node] = [bytes |-> @.bytes + size, allocs |-> @.allocs + n]]
  /\ sites' = [sites EXCEPT ![Tag(node)].bytes = @ + size]
  /\ total' = total + size

\* The allocator has returned the block b.
Malloc(t, b, size) ==
  /\ Doing(t, "None") /\ heap[b] = 0 /\ allocs < MaxAllocs
  /\ heap' = [heap EXCEPT ![b] = size]
  /\ allocs' = allocs + 1
  /\ Goes(t, [op |-> "Malloced", block |-> b])
  /\ UNCHANGED <<books, maxTotal, matchList, tagStack, past>>

\* _RegisterBlock up to the new total.  The counters are atomic and nobody reads
\* more than one of them before the mutex is released.
Register(t) ==
  LET b == mallocCall[t].block
      node == CurrentNode(t)
      size == heap[b]
  IN  /\ Doing(t, "Malloced") \/ Doing(t, "Moved")
      /\ traces' = IF sites[Tag(node)].trace THEN [traces EXCEPT ![b] = size] ELSE traces
      /\ info' = [info EXCEPT ![b] = [size |-> size, node |-> node]]
      /\ Bill(node, size, 1)
      /\ Goes(t, [op |-> "ReadMax", block |-> b, newTotal |-> total + size])
      /\ UNCHANGED <<heap, maxTotal, matchList, tagStack, allocs, past>>

ReadMax(t) ==
  LET newTotal == mallocCall[t].newTotal IN
  /\ Doing(t, "ReadMax")
  /\ Goes(t, [op |-> "StoreMax", block |-> mallocCall[t].block,
              max |-> IF newTotal > maxTotal THEN newTotal ELSE maxTotal])
  /\ UNCHANGED <<heap, books, maxTotal, matchList, tagStack, allocs, past>>

StoreMax(t) ==
  /\ Doing(t, "StoreMax")
  /\ maxTotal' = mallocCall[t].max
  /\ Goes(t, Idle)
  /\ UNCHANGED <<heap, books, matchList, tagStack, allocs, past>>

\* A block that is not registered, because it was there before, is none of its business.
Unregister(b) ==
  LET node == info[b].node
      size == info[b].size
  IN  IF info[b] = NoBlock THEN UNCHANGED books
      ELSE /\ info' = [info EXCEPT ![b] = NoBlock]
           /\ traces' = IF sites[Tag(node)].trace THEN [traces EXCEPT ![b] = 0] ELSE traces
           /\ Bill(node, -size, -1)

\* The mutex is released before the allocator gets the block back.
Free(t, b) ==
  /\ Mine(t, b)
  /\ Unregister(b)
  /\ Goes(t, [op |-> "Free", block |-> b])
  /\ UNCHANGED <<heap, maxTotal, matchList, tagStack, allocs, past>>

HookFree(t) ==
  /\ Doing(t, "Free")
  /\ heap' = [heap EXCEPT ![mallocCall[t].block] = 0]
  /\ Goes(t, Idle)
  /\ UNCHANGED <<books, maxTotal, matchList, tagStack, allocs>>
  /\ early' = early \ {mallocCall[t].block} /\ dropped' = dropped \ {mallocCall[t].block}

Realloc_Twice(t, b, size) ==
  /\ Mine(t, b) /\ allocs < MaxAllocs
  /\ allocs' = allocs + 1
  /\ Goes(t, [op |-> "Move", block |-> b, size |-> size])
  /\ UNCHANGED <<heap, books, maxTotal, matchList, tagStack, past>>

Realloc(t, b, size) ==
  /\ Mine(t, b) /\ allocs < MaxAllocs
  /\ Unregister(b)
  /\ allocs' = allocs + 1
  /\ Goes(t, [op |-> "Move", block |-> b, size |-> size])
  /\ UNCHANGED <<heap, maxTotal, matchList, tagStack, past>>

\* The allocator fails and leaves the block as it was, or moves or resizes it.
HookReallocFails(t) ==
  /\ Doing(t, "Move")
  /\ Goes(t, Idle)
  /\ UNCHANGED <<heap, books, maxTotal, matchList, tagStack, allocs>>
  /\ dropped' = dropped \cup {mallocCall[t].block} /\ UNCHANGED early

HookRealloc(t, c) ==
  LET b == mallocCall[t].block IN
  /\ Doing(t, "Move")
  /\ c = b \/ heap[c] = 0
  /\ heap' = [heap EXCEPT ![b] = 0, ![c] = mallocCall[t].size]
  /\ Goes(t, [op |-> "Moved", block |-> c])
  /\ UNCHANGED <<books, maxTotal, matchList, tagStack, allocs>>
  /\ early' = early \ {b} /\ dropped' = dropped \ {b}

-----------------------------------------------------------------------------
(* Calls that hold the mutex alone.                                        *)

\* SetCapturedMallocStacksMatchList; SetDebugMatchList is alike.
SetMatchList(t, list) ==
  /\ Doing(t, "None") /\ Alone
  /\ matchList' = list
  /\ sites' = [s \in DOMAIN sites |->
                 [sites[s] EXCEPT !.trace = IF s = RootTag THEN FALSE ELSE Matches(list, s)]]
  /\ UNCHANGED <<heap, info, nodes, total, maxTotal, traces, tagStack, mallocCall, allocs, past>>

\* The stacks are swapped for an empty table.  The tags that it pushes meanwhile, and
\* what it allocates under them, are left out.
GetCapturedMallocStacks(t) ==
  /\ Doing(t, "None") /\ Alone
  /\ traces' = [b \in Blocks |-> 0]
  /\ UNCHANGED <<heap, info, nodes, sites, total, maxTotal, matchList, tagStack, mallocCall, allocs, past>>

-----------------------------------------------------------------------------
MallocNext ==
  \E t \in Mallocers :
    \/ \E tag \in Tags : Begin(t, tag)
    \/ Emplace(t) \/ End(t)
    \/ \E u \in Mallocers : Override(t, u)
    \/ \E b \in Blocks, size \in BlockSizes : Malloc(t, b, size) \/ Realloc(t, b, size)
    \/ \E b \in Blocks : Free(t, b) \/ HookRealloc(t, b)
    \/ Register(t) \/ ReadMax(t) \/ StoreMax(t) \/ HookFree(t) \/ HookReallocFails(t)
    \/ \E list \in MatchLists : SetMatchList(t, list)
    \/ GetCapturedMallocStacks(t)

MallocSpec == MallocInit /\ [][MallocNext]_mallocVars

-----------------------------------------------------------------------------
(* Properties.                                                             *)

BilledTo(p) == {b \in Blocks : info[b] # NoBlock /\ info[b].node = p}
BlockBytes == [b \in Blocks |-> info[b].size]
NodeBytes == [p \in DOMAIN nodes |-> nodes[p].bytes]

NodesBalance == \A p \in DOMAIN nodes :
  /\ nodes[p].bytes = SumOf(BlockBytes, BilledTo(p))
  /\ nodes[p].allocs = Cardinality(BilledTo(p))
SitesBalance == \A s \in DOMAIN sites :
  sites[s].bytes = SumOf(NodeBytes, {p \in DOMAIN nodes : Tag(p) = s})
RegisteredAreHeld == \A b \in Blocks : info[b] # NoBlock => heap[b] = info[b].size

\* A block that no call has in hand, and that the total does not include.
OffTheBooks(b) == heap[b] > 0 /\ info[b] = NoBlock /\ ~\E t \in Mallocers : Uses(t, b)

SumsBalance ==
  NodesBalance /\ SitesBalance /\ total = SumOf(BlockBytes, Blocks) /\ RegisteredAreHeld
NoneForgotten == \A b \in Blocks : OffTheBooks(b) => b \in early \cup dropped

\* The books balance at every moment: a node's bytes and allocations are those of the
\* registered blocks billed to it, a site's bytes those of its nodes, the total that of
\* all; whatever is registered is a block the program still has, with its size; and no
\* other block is missing than one from before Initialize, or one that is still there
\* after its reallocation failed, which stays unregistered (mallocTag.cpp:1046-1058).
\* The hooks interleave with each other, and addresses come back.
BooksBalance == SumsBalance /\ NoneForgotten

\* "The current total memory that has been allocated and not freed is returned. Memory
\* allocated before calling Initialize() is not accounted for" (mallocTag.h:196-197).
AllMemoryIsBilled == \A b \in Blocks : OffTheBooks(b) => b \in early

\* Every site, made before or after a list was set, is traced exactly if the list says so:
\* "Each name is considered in order and later matches override earlier matches"
\* (mallocTag.h:418-419).
InMatchList(list, name) ==
  LET Hit(i) == IF list[i].wildcard THEN IsPrefix(list[i].str, name) ELSE list[i].str = name
  IN  \E i \in DOMAIN list : Hit(i) /\ list[i].allow /\ \A j \in DOMAIN list : j > i => ~Hit(j)

SitesFollowList ==
  \A s \in DOMAIN sites \ {RootTag} : sites[s].trace = InMatchList(matchList, s)
=============================================================================
