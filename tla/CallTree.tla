------------------------------ MODULE CallTree ------------------------------
(***************************************************************************)
(* The call tree of TfMallocTag: what GetCallTree makes of the path nodes  *)
(* that MallocTag bills while it holds the mutex alone, how Report prints  *)
(* it, and how LoadReport reads it.                                        *)
(*                                                                         *)
(* A path node is the sequence of the sites on the way to it; the root is  *)
(* the empty one.                                                          *)
(***************************************************************************)
EXTENDS Integers, FiniteSets, Sequences, SequencesExt, FiniteSetsExt

CONSTANTS
  Sites,        \* the names that are pushed
  RootSite,     \* "__root"
  MaxPath,      \* the longest path; a bound
  MaxPaths,     \* how many nodes there are but for the root; a bound
  MaxBilled     \* how many bytes are billed to all nodes; a bound

ASSUME CallTreeAssumption ==
  /\ RootSite \notin Sites /\ IsFiniteSet(Sites)
  /\ MaxPath \in Nat /\ MaxPaths \in Nat /\ MaxBilled \in Nat

VARIABLE pathNodes   \* Tf_MallocPathNode::_totalBytes of each path

callTreeVars == <<pathNodes>>

SumBytes(f, S) == FoldSet(LAMBDA x, sum : sum + f[x], 0, S)
Billed == SumBytes(pathNodes, DOMAIN pathNodes)
Site(path) == IF path = <<>> THEN RootSite ELSE Last(path)

CallTreeInit == pathNodes = [p \in {<<>>} |-> 0]

\* _Begin makes a child node, and a block is billed to a node.
AddChild(p, site) ==
  /\ Len(p) < MaxPath /\ Cardinality(DOMAIN pathNodes) <= MaxPaths
  /\ pathNodes' = [q \in DOMAIN pathNodes \cup {Append(p, site)} |->
                     IF q \in DOMAIN pathNodes THEN pathNodes[q] ELSE 0]

BillNode(p) ==
  /\ Billed < MaxBilled
  /\ pathNodes' = [pathNodes EXCEPT ![p] = @ + 1]

CallTreeNext == \E p \in DOMAIN pathNodes :
  BillNode(p) \/ \E site \in Sites : AddChild(p, site)

CallTreeSpec == CallTreeInit /\ [][CallTreeNext]_callTreeVars

-----------------------------------------------------------------------------

IsRepeated(path) == path # <<>> /\ \E i \in 1..(Len(path) - 1) : path[i] = Last(path)

Leaf(p, skipRepeated) ==
  [bytes |-> pathNodes[p], direct |-> pathNodes[p], keep |-> ~(skipRepeated /\ IsRepeated(p))]

Visit_LosesSkipped(p, tree) == [tree EXCEPT ![Front(p)].bytes = @ + tree[p].bytes]

\* A node adds its bytes to its parent's; a repeated one, if those are skipped, leaves
\* its own bytes there too and goes, and its children become the parent's.
Visit(p, tree) ==
  [tree EXCEPT ![Front(p)].bytes = @ + tree[p].bytes,
               ![Front(p)].direct = IF tree[p].keep THEN @ ELSE @ + tree[p].direct]

\* _BuildTree visits every node after its descendants.
BuildTree(skipRepeated) ==
  LET postOrder == SetToSortSeq(DOMAIN pathNodes \ {<<>>}, LAMBDA p, q : Len(p) > Len(q))
      built == FoldLeft(LAMBDA acc, p : Visit(p, acc),
                        [p \in DOMAIN pathNodes |-> Leaf(p, skipRepeated)], postOrder)
  IN  [p \in {q \in DOMAIN built : built[q].keep} |-> built[p]]

\* _GetCallSites
CallSites(tree) ==
  [s \in {Site(p) : p \in DOMAIN tree} |->
     SumBytes([p \in DOMAIN tree |-> tree[p].direct], {p \in DOMAIN tree : Site(p) = s})]

-----------------------------------------------------------------------------
(* Reports.  One line per node, parents before children, each at its depth *)
(* among the nodes of the tree; a branch without bytes is left out.        *)

\* Siblings are sorted by name; of those with one name, which a skipped parent leaves
\* behind, either may come first.
Rank(x, S) == CHOOSE i \in 1..Cardinality(S) : SetToSeq(S)[i] = x

Above(p, tree) == {q \in DOMAIN tree : IsStrictPrefix(q, p)}

\* The nodes of the tree on the way to p, and p.
Way(p, tree) == SetToSortSeq(Above(p, tree) \cup {p}, LAMBDA q, r : Len(q) < Len(r))

PrintedBefore(p, q, tree) ==
  LET up == Way(p, tree)
      uq == Way(q, tree)
  IN  \/ IsStrictPrefix(p, q)
      \/ \E i \in DOMAIN up \cap DOMAIN uq :
           /\ SubSeq(up, 1, i - 1) = SubSeq(uq, 1, i - 1) /\ up[i] # uq[i]
           /\ \/ Rank(Site(up[i]), Sites) < Rank(Site(uq[i]), Sites)
              \/ /\ Site(up[i]) = Site(uq[i])
                 /\ Rank(up[i], DOMAIN tree) < Rank(uq[i], DOMAIN tree)

\* _ReportMallocNode
Report(tree) ==
  LET printed == SetToSortSeq({p \in DOMAIN tree : \A q \in DOMAIN tree :
                                 IsPrefix(q, p) => tree[q].bytes > 0},
                              LAMBDA p, q : PrintedBefore(p, q, tree))
  IN  [i \in DOMAIN printed |-> [path |-> printed[i], depth |-> Cardinality(Above(printed[i], tree))]]

\* LoadReport: nodes are popped until as many are left as the line is deep, and the
\* one on top is its parent; 0 is the root made for several trees.
LoadReport(lines) ==
  LET Read(acc, i) ==
        LET open == SubSeq(acc.open, 1, Min({Len(acc.open), lines[i].depth + 1}))
        IN  [open |-> Append(open, i), parent |-> Append(acc.parent, Last(open))]
  IN  FoldLeft(Read, [open |-> <<0>>, parent |-> <<>>], [i \in DOMAIN lines |-> i]).parent

-----------------------------------------------------------------------------

\* The longest path at or above p that is not skipped.
Home(p, skipRepeated) ==
  CHOOSE q \in DOMAIN pathNodes :
    /\ IsPrefix(q, p) /\ ~(skipRepeated /\ IsRepeated(q))
    /\ \A r \in DOMAIN pathNodes : IsPrefix(r, p) /\ Len(r) > Len(q)
                                   => skipRepeated /\ IsRepeated(r)

\* Read back from its report, a node has the parent it had in the tree.
ReadsBack(tree) ==
  LET lines == Report(tree)
      parent == LoadReport(lines)
  IN  \A i \in DOMAIN lines :
        IF lines[i].path = <<>> THEN parent[i] = 0
        ELSE /\ parent[i] # 0
             /\ IsStrictPrefix(lines[parent[i]].path, lines[i].path)
             /\ ~\E q \in DOMAIN tree : IsStrictPrefix(lines[parent[i]].path, q)
                                      /\ IsStrictPrefix(q, lines[i].path)

\* What GetCallTree returns accounts for every byte, with repeated sites or without: a
\* node directly has what is billed to it and to the skipped nodes under it ("billed to
\* the longest path node", mallocTag.h:58-60), and with its descendants what is billed
\* anywhere below it.  Its report, read back, is that tree, but for branches without
\* bytes (mallocTag.cpp:871-957, :1490-1540, :1667-1746).
CallTreeBillsAll ==
  \A skipRepeated \in BOOLEAN :
    LET tree == BuildTree(skipRepeated)
        perSite == CallSites(tree)
    IN  /\ ReadsBack(tree)
        /\ tree[<<>>].bytes = Billed
        /\ SumBytes(perSite, DOMAIN perSite) = Billed
        /\ \A p \in DOMAIN tree :
             /\ tree[p].bytes = SumBytes(pathNodes, {q \in DOMAIN pathNodes : IsPrefix(p, q)})
             /\ tree[p].direct =
                  SumBytes(pathNodes, {q \in DOMAIN pathNodes : Home(q, skipRepeated) = p})
=============================================================================
