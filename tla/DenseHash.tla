------------------------------- MODULE DenseHash -------------------------------
(***************************************************************************)
(* TfDenseHashMap: a vector of entries and, once there are Threshold of    *)
(* them, an index from keys to positions in the vector.  Removing from the *)
(* middle moves the last entry or shifts the rest, and the index follows.  *)
(***************************************************************************)
EXTENDS Integers, FiniteSets, Sequences, SequencesExt

CONSTANTS Keys, Data, Threshold,
  Maps,        \* the objects
  MaxRange     \* the longest range inserted at once; a bound

ASSUME DenseAssumption == Threshold \in Nat /\ MaxRange \in Nat

VARIABLES
  vec,         \* the vector of each map
  index,       \* its index, or NoTable
  contents,    \* what its caller has put there: a set of entries
  refilled     \* history: maps that insert_unique filled when they were empty and still
               \* had a table, until the table is built again or dropped

denseVars == <<vec, index, contents, refilled>>

NoTable == [table |-> FALSE, at |-> <<>>]
Table(at) == [table |-> TRUE, at |-> at]
Entries == [key : Keys, data : Data]

FindInVec(v, k) == SelectInSeq(v, LAMBDA e : e.key = k)

\* find: the position of the entry, or 0.
FindKey(v, h, k) ==
  IF ~h.table THEN FindInVec(v, k)
  ELSE IF k \in DOMAIN h.at THEN h.at[k] ELSE 0

\* A table insert keeps the position it has: the first entry of a key.
CreateTable(v, h) ==
  IF h.table THEN h
  ELSE Table([k \in {v[i].key : i \in DOMAIN v} |-> FindInVec(v, k)])

CreateTableIfNeeded(v, h) == IF Len(v) >= Threshold THEN CreateTable(v, h) ELSE h

InsertEntry(m, e) ==
  IF FindKey(m.vec, m.index, e.key) # 0 THEN m
  ELSE LET v == Append(m.vec, e)
           h == IF m.index.table
                THEN Table([k \in DOMAIN m.index.at \cup {e.key} |->
                              IF k = e.key THEN Len(v) ELSE m.index.at[k]])
                ELSE m.index
       IN [vec |-> v, index |-> CreateTableIfNeeded(v, h)]

\* The table is made at once where the range may take the map to the threshold.
InsertRange(m, range) ==
  FoldLeft(InsertEntry,
    IF Len(m.vec) + Len(range) >= Threshold
    THEN [m EXCEPT !.index = CreateTable(m.vec, m.index)] ELSE m,
    range)

\* The range has no duplicates: an empty map takes it as its vector, but a table that is
\* there already does not learn of it.
InsertUnique(m, range) ==
  IF m.vec = <<>> THEN [vec |-> range, index |-> CreateTableIfNeeded(range, m.index)]
  ELSE InsertRange(m, range)

Without(h, keys) == IF h.table THEN Table([k \in DOMAIN h.at \ keys |-> h.at[k]]) ELSE h

\* (*_h)[key] = position, for the entries of v from position i on.
Reindexed(h, v, i) ==
  IF ~h.table THEN h
  ELSE Table([k \in DOMAIN h.at |->
                IF \E j \in i..Len(v) : v[j].key = k THEN FindInVec(v, k) ELSE h.at[k]])

\* Without the update of the moved entry's position.
MovedTo_Stays(h, key, i) == h

MovedTo(h, key, i) == IF h.table THEN Table([h.at EXCEPT ![key] = i]) ELSE h

\* erase of one entry: the last one takes its place.
EraseAt(m, i) ==
  LET last == Len(m.vec)
      h == Without(m.index, {m.vec[i].key})
  IN [vec |-> Front([m.vec EXCEPT ![i] = m.vec[last]]),
      index |-> IF i = last THEN h ELSE MovedTo(h, m.vec[last].key, i)]

\* erase of the entries from i up to j, not included: the rest is shifted.
EraseRange(m, i, j) ==
  LET v == SubSeq(m.vec, 1, i - 1) \o SubSeq(m.vec, j, Len(m.vec))
  IN [vec |-> v,
      index |-> Reindexed(Without(m.index, {m.vec[n].key : n \in i..(j - 1)}), v, i)]

ShrinkToFit(m) ==
  [m EXCEPT !.index = IF ~m.index.table \/ Len(m.vec) < Threshold THEN NoTable
                      ELSE CreateTable(m.vec, NoTable)]

Emptied == [vec |-> <<>>, index |-> NoTable]

\* operator==: as many entries, and each found in the other with the same data.
EqualMaps(m, n) ==
  /\ Len(m.vec) = Len(n.vec)
  /\ \A i \in DOMAIN m.vec :
       LET at == FindKey(n.vec, n.index, m.vec[i].key)
       IN at # 0 /\ m.vec[i].data = n.vec[at].data

-----------------------------------------------------------------------------

MapAt(x) == [vec |-> vec[x], index |-> index[x]]

MapBecomes(x, m) ==
  /\ vec' = [vec EXCEPT ![x] = m.vec]
  /\ index' = [index EXCEPT ![x] = m.index]

KeysIn(set) == {e.key : e \in set}
\* What a caller expects: the first entry of a key stays.
PutFirst(set, e) == IF e.key \in KeysIn(set) THEN set ELSE set \cup {e}

Ranges == UNION {[1..n -> Entries] : n \in 1..MaxRange}

DenseInit ==
  /\ vec = [x \in Maps |-> <<>>]
  /\ index = [x \in Maps |-> NoTable]
  /\ contents = [x \in Maps |-> {}]
  /\ refilled = {}

Insert(x) == \E range \in Ranges :
  /\ MapBecomes(x, IF Len(range) = 1 THEN InsertEntry(MapAt(x), range[1])
                ELSE InsertRange(MapAt(x), range))
  /\ contents' = [contents EXCEPT ![x] = FoldLeft(PutFirst, @, range)]

InsertAllUnique(x) == \E range \in Ranges :
  /\ \A i, j \in DOMAIN range : range[i].key = range[j].key => i = j
  /\ refilled' = IF vec[x] = <<>> /\ index[x].table THEN refilled \cup {x} ELSE refilled
  /\ MapBecomes(x, InsertUnique(MapAt(x), range))
  /\ contents' = [contents EXCEPT ![x] = FoldLeft(PutFirst, @, range)]

\* operator[], and an assignment to what it returns.
Assign(x) == \E e \in Entries, default \in Data :
  LET m == InsertEntry(MapAt(x), [key |-> e.key, data |-> default])
      at == FindKey(m.vec, m.index, e.key)
  IN /\ MapBecomes(x, [m EXCEPT !.vec[at].data = e.data])
     /\ contents' = [contents EXCEPT ![x] = {f \in @ : f.key # e.key} \cup {e}]

Erase(x) == \E k \in Keys :
  LET i == FindKey(vec[x], index[x], k) IN
  /\ i # 0
  /\ MapBecomes(x, EraseAt(MapAt(x), i))
  /\ contents' = [contents EXCEPT ![x] = {e \in @ : e.key # k}]

EraseSome(x) == \E i, j \in 1..(Len(vec[x]) + 1) :
  /\ i < j
  /\ MapBecomes(x, EraseRange(MapAt(x), i, j))
  /\ contents' = [contents EXCEPT ![x] = @ \ {vec[x][n] : n \in i..(j - 1)}]

Shrink(x) == MapBecomes(x, ShrinkToFit(MapAt(x))) /\ UNCHANGED contents

Clear(x) ==
  /\ MapBecomes(x, Emptied)
  /\ contents' = [contents EXCEPT ![x] = {}]

\* operator=(const &) goes through a copy and swap.
CopyTo(x, y) ==
  /\ MapBecomes(x, MapAt(y))
  /\ contents' = [contents EXCEPT ![x] = contents[y]]

Moved(f, x, y, nothing) == [f EXCEPT ![x] = f[y], ![y] = nothing]
Exchanged(f, x, y) == [f EXCEPT ![x] = f[y], ![y] = f[x]]

MoveTo(x, y) ==
  /\ x # y
  /\ vec' = Moved(vec, x, y, <<>>)
  /\ index' = Moved(index, x, y, NoTable)
  /\ contents' = Moved(contents, x, y, {})

Swap(x, y) ==
  /\ vec' = Exchanged(vec, x, y)
  /\ index' = Exchanged(index, x, y)
  /\ contents' = Exchanged(contents, x, y)

\* What is called on a refilled map is not followed until its table is right again: it
\* may put in a key twice, and erases nothing.
LooksUp(x) == x \notin refilled

DenseNext ==
  \/ \E x \in Maps :
       \/ LooksUp(x) /\ InsertAllUnique(x)
       \/ /\ LooksUp(x) /\ UNCHANGED refilled
          /\ Insert(x) \/ Assign(x) \/ Erase(x) \/ EraseSome(x)
       \/ refilled' = refilled \ {x} /\ (Shrink(x) \/ Clear(x))
  \/ \E x, y \in Maps :
       /\ LooksUp(y)
       /\ \/ refilled' = refilled \ {x} /\ (CopyTo(x, y) \/ MoveTo(x, y))
          \/ LooksUp(x) /\ Swap(x, y) /\ UNCHANGED refilled

DenseSpec == DenseInit /\ [][DenseNext]_denseVars

-----------------------------------------------------------------------------

\* A map holds what its caller left there, each key once, however entries were inserted,
\* erased and moved about; it finds every key it holds and no other, through the index or
\* without, and two maps are equal when they hold the same.  Only lookups in a map that
\* insert_unique has refilled fail, as HeldIsFound says, and shrink_to_fit repairs them
\* (denseHashMap.h:283-301, :449, :502-548).
DenseMapsAgree ==
  /\ \A x \in Maps :
       /\ Len(vec[x]) = Cardinality(contents[x])
       /\ Range(vec[x]) = contents[x]
       /\ x \notin refilled => \A k \in Keys :
            LET at == FindKey(vec[x], index[x], k)
            IN IF k \in KeysIn(contents[x])
               THEN at \in DOMAIN vec[x] /\ vec[x][at].key = k
               ELSE at = 0
  /\ \A x, y \in Maps \ refilled : EqualMaps(MapAt(x), MapAt(y)) <=> contents[x] = contents[y]

\* "Returns the number of elements with key k.  Which is either 0 or 1" (denseHashMap.h:394):
\* an element that the map holds is found.
HeldIsFound ==
  \A x \in Maps : \A i \in DOMAIN vec[x] : FindKey(vec[x], index[x], vec[x][i].key) # 0
=============================================================================
