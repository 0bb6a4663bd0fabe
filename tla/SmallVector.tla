------------------------------ MODULE SmallVector ------------------------------
(***************************************************************************)
(* TfSmallVector<T, N>: up to N elements in the object itself, more in a   *)
(* heap block it owns, and never back.  An element is constructed, moved,  *)
(* assigned and destroyed slot by slot.  A vector of this module is        *)
(* [size, cap, slots, block]: slots are those of the storage in use.       *)
(***************************************************************************)
EXTENDS Integers, FiniteSets, Sequences, SequencesExt, FiniteSetsExt

CONSTANTS
  N,            \* the local capacity
  Values, Vectors,
  MaxElements   \* how many elements a vector is given; a bound

ASSUME SmallVectorAssumption == N \in Nat /\ MaxElements \in Nat

VARIABLES
  object,       \* the vectors that are alive
  heap,         \* the blocks allocated and not freed
  expected,     \* the elements each vector was given, in order
  wrong         \* history: the last call inserted another element than it was given

smallVars == <<object, heap, expected, wrong>>

Raw == "raw"       \* no element here
MovedFrom == "moved"   \* an element that was moved from
Bad == "bad"       \* what no slot may come to: see the operators below
NoVector == [dead |-> TRUE]

\* Construction is into raw slots, from elements that are there.
Construct(slots, i, values) ==
  IF i + Len(values) - 1 > Len(slots) THEN [j \in DOMAIN slots |-> Bad]
  ELSE [j \in DOMAIN slots |->
          IF j < i \/ j >= i + Len(values) THEN slots[j]
          ELSE IF slots[j] = Raw /\ values[j - i + 1] # Raw THEN values[j - i + 1] ELSE Bad]

\* Assignment and destruction are of elements that are there.
AssignAt(slots, i, values) ==
  [j \in DOMAIN slots |->
     IF j < i \/ j >= i + Len(values) THEN slots[j]
     ELSE IF slots[j] # Raw /\ values[j - i + 1] # Raw THEN values[j - i + 1] ELSE Bad]

Destroy(slots, i, j) ==
  [n \in DOMAIN slots |->
     IF n \notin i..j THEN slots[n] ELSE IF slots[n] \in {Raw, Bad} THEN Bad ELSE Raw]

MoveFrom(slots, i, j) ==
  [n \in DOMAIN slots |-> IF n \in i..j /\ slots[n] # Raw THEN MovedFrom ELSE slots[n]]

RawSlots(n) == [i \in 1..n |-> Raw]
IsLocal(v) == v.cap <= N
Elements(v) == SubSeq(v.slots, 1, v.size)
Blocks == 1..(2 * Cardinality(Vectors) + 1)
Allocate(h) == Min(Blocks \ h)
OwnedBlock(v) == IF IsLocal(v) THEN {} ELSE {v.block}

Fresh == [size |-> 0, cap |-> N, slots |-> RawSlots(N), block |-> 0]

\* _NextCapacity: half as much again, and one.
NextCapacity(v) == v.cap + (v.cap \div 2) + 1

\* _GrowStorage: the elements move to a new block; theirs are destroyed, and
\* nothing may be left alive in the storage let go.
Grow(v, cap, h) ==
  LET old == Destroy(MoveFrom(v.slots, 1, v.size), 1, v.size)
  IN [v EXCEPT !.cap = cap, !.block = Allocate(h),
               !.slots = IF old = RawSlots(Len(old))
                         THEN Construct(RawSlots(cap), 1, Elements(v))
                         ELSE [i \in 1..cap |-> Bad]]

Reserve(v, cap, h) == IF cap > v.cap THEN Grow(v, cap, h) ELSE v

\* _InitStorage and the copies of every constructor.
Constructed(values, h) ==
  LET v == IF Len(values) > N
           THEN [Fresh EXCEPT !.cap = Len(values), !.block = Allocate(h),
                              !.slots = RawSlots(Len(values))]
           ELSE Fresh
  IN [v EXCEPT !.size = Len(values), !.slots = Construct(@, 1, values)]

Append1(v, source, h) ==
  LET grows == v.size = v.cap
      room == IF grows THEN Grow(v, NextCapacity(v), h) ELSE v
      \* an own element went with the storage it was in
      value == IF ~source.own THEN source.value
               ELSE IF grows THEN Raw ELSE v.slots[source.at]
  IN [room EXCEPT !.slots = Construct(@, v.size + 1, <<value>>), !.size = @ + 1]

\* _Insert of one element before the i-th.
Insert1(v, i, source, h) ==
  LET Given(slots) == IF source.own THEN slots[source.at] ELSE source.value IN
  IF i = v.size + 1 THEN Append1(v, source, h)
  ELSE IF v.size = v.cap
  THEN LET head == MoveFrom(v.slots, 1, i - 1)
           new == RawSlots(NextCapacity(v))
       IN [v EXCEPT !.cap = NextCapacity(v), !.block = Allocate(h), !.size = @ + 1,
             !.slots = Construct(Construct(Construct(new, 1, SubSeq(v.slots, 1, i - 1)),
                                           i, <<Given(head)>>),
                                 i + 1, SubSeq(v.slots, i, v.size))]
  ELSE LET last == Construct(v.slots, v.size + 1, <<v.slots[v.size]>>)
           up == AssignAt(MoveFrom(last, i, v.size), i + 1, SubSeq(v.slots, i, v.size - 1))
           gap == Destroy(up, i, i)
       IN [v EXCEPT !.size = @ + 1, !.slots = Construct(gap, i, <<Given(gap)>>)]

\* insert of a range before the i-th element.
InsertMany(v, i, values, h) ==
  LET n == Len(values)
      needed == v.size + n
      next == Max({NextCapacity(v), needed})
      moved == v.size - i + 1                          \* numMoveElems
      uninit == Min({n, moved})                        \* numUninitMoves
      from == i + moved - uninit                       \* umSrc
      to == v.size + 1 + (n - uninit)                  \* umDst
      out == Construct(v.slots, to, SubSeq(v.slots, from, v.size))
      back == AssignAt(out, to - (moved - uninit), SubSeq(v.slots, i, from - 1))
      filled == AssignAt(back, i, SubSeq(values, 1, uninit))
  IN CASE i = v.size + 1 ->
            LET room == IF needed > v.cap THEN Grow(v, next, h) ELSE v
            IN [room EXCEPT !.slots = Construct(@, v.size + 1, values), !.size = needed]
       [] i # v.size + 1 /\ needed > v.cap ->
            [v EXCEPT !.cap = next, !.block = Allocate(h), !.size = needed,
               !.slots = Construct(Construct(Construct(RawSlots(next),
                           1, SubSeq(v.slots, 1, i - 1)),
                           i, values),
                           i + n, SubSeq(v.slots, i, v.size))]
       [] OTHER ->
            [v EXCEPT !.size = needed,
               !.slots = Construct(filled, v.size + 1, SubSeq(values, uninit + 1, n))]

\* erase of the elements from p up to q, not included.
EraseFrom(v, p, q) ==
  LET down == AssignAt(MoveFrom(v.slots, q, v.size), p, SubSeq(v.slots, q, v.size))
  IN IF p = q THEN v
     ELSE [v EXCEPT !.slots = Destroy(down, v.size - (q - p) + 1, v.size), !.size = @ - (q - p)]

Cleared(v) == [v EXCEPT !.slots = Destroy(@, 1, v.size), !.size = 0]

Resized(v, n, value, h) ==
  IF n < v.size THEN EraseFrom(v, n + 1, v.size + 1)
  ELSE LET room == Reserve(v, n, h)
       IN [room EXCEPT !.size = n,
             !.slots = Construct(@, v.size + 1, [i \in 1..(n - v.size) |-> value])]

AssignedAll(v, values, h) ==
  LET room == Reserve(Cleared(v), Len(values), h)
  IN [room EXCEPT !.slots = Construct(@, 1, values), !.size = Len(values)]

\* The test is for the capacity, which a vector that shrank keeps.
MoveConstructed_ByCapacity(rhs) ==
  IF rhs.size > N
  THEN <<rhs, [rhs EXCEPT !.size = 0, !.cap = N, !.slots = RawSlots(N), !.block = 0]>>
  ELSE <<[Fresh EXCEPT !.slots = Construct(@, 1, Elements(rhs)), !.size = rhs.size, !.cap = rhs.cap],
         [rhs EXCEPT !.slots = Destroy(MoveFrom(@, 1, rhs.size), 1, rhs.size), !.size = 0]>>

\* The move constructor: <<the new vector, what is left of rhs>>.
MoveConstructed(rhs) ==
  IF rhs.size > N
  THEN <<rhs, [rhs EXCEPT !.size = 0, !.cap = N, !.slots = RawSlots(N), !.block = 0]>>
  ELSE <<[Fresh EXCEPT !.slots = Construct(@, 1, Elements(rhs)), !.size = rhs.size],
         [rhs EXCEPT !.slots = Destroy(MoveFrom(@, 1, rhs.size), 1, rhs.size), !.size = 0]>>

\* swap of two local vectors: the common length is swapped, the tail moved.
SwapLocal(small, large) ==
  LET n == small.size
      tail == SubSeq(large.slots, n + 1, large.size)
  IN <<[small EXCEPT !.size = large.size,
                     !.slots = Construct(AssignAt(@, 1, SubSeq(large.slots, 1, n)), n + 1, tail)],
       [large EXCEPT !.size = n,
                     !.slots = Destroy(AssignAt(@, 1, Elements(small)), n + 1, large.size)]>>

\* swap of a remote and a local one: the block changes hands, and the elements
\* of the local one move into the other object.
SwapMixed(remote, local) ==
  LET left == Destroy(MoveFrom(local.slots, 1, local.size), 1, local.size)
  IN <<[local EXCEPT !.slots = IF left = RawSlots(Len(left))
                               THEN Construct(RawSlots(N), 1, Elements(local))
                               ELSE [i \in 1..N |-> Bad]],
       remote>>

Swapped(v, w) ==
  CASE IsLocal(v) /\ IsLocal(w) ->
         IF v.size < w.size THEN SwapLocal(v, w)
         ELSE LET p == SwapLocal(w, v) IN <<p[2], p[1]>>
    [] ~IsLocal(v) /\ ~IsLocal(w) -> <<w, v>>
    [] ~IsLocal(v) /\ IsLocal(w) -> SwapMixed(v, w)
    [] OTHER -> LET p == SwapMixed(w, v) IN <<p[2], p[1]>>

-----------------------------------------------------------------------------

ValueLists(n) == UNION {[1..k -> Values] : k \in 0..n}
Room(x) == MaxElements - Len(expected[x])
Alive(x) == object[x] # NoVector

\* The vector x becomes v; a block it had and has no more is freed.
VectorBecomes(x, v, list) ==
  /\ object' = [object EXCEPT ![x] = v]
  /\ heap' = (heap \ OwnedBlock(object[x])) \cup OwnedBlock(v)
  /\ expected' = [expected EXCEPT ![x] = list]

Sets(x, v, list) == VectorBecomes(x, v, list) /\ wrong' = FALSE

\* The same, for a call that was given the element of the place a of the vector:
\* there says whether that is still where it is read.  If not, the new element at
\* the place i is what it may be, and the others are as they should be.
SetsGivenOwn(x, v, list, i, a, there) ==
  /\ VectorBecomes(x, v, IF there THEN list ELSE [list EXCEPT ![i] = v.slots[i]])
  /\ wrong' = (v.slots[i] # expected[x][a])

SetBoth(x, y, p, left, right) ==
  /\ object' = [object EXCEPT ![x] = p[1], ![y] = p[2]]
  /\ expected' = [expected EXCEPT ![x] = left, ![y] = right]
  /\ wrong' = FALSE

SmallInit ==
  /\ object = [x \in Vectors |-> NoVector]
  /\ heap = {}
  /\ expected = [x \in Vectors |-> <<>>]
  /\ wrong = FALSE

\* Construct from n elements, those of another vector too, or move another vector.
New(x) == ~Alive(x) /\
  \/ \E values \in ValueLists(MaxElements) : LET v == Constructed(values, heap) IN
       /\ object' = [object EXCEPT ![x] = v]
       /\ heap' = heap \cup OwnedBlock(v)
       /\ expected' = [expected EXCEPT ![x] = values]
       /\ wrong' = FALSE
  \/ \E y \in Vectors : Alive(y) /\ LET p == MoveConstructed(object[y]) IN
       SetBoth(x, y, p, expected[y], <<>>) /\ UNCHANGED heap

Delete(x) ==
  /\ Alive(x)
  /\ object' = [object EXCEPT ![x] = NoVector]
  /\ heap' = heap \ OwnedBlock(object[x])
  /\ expected' = [expected EXCEPT ![x] = <<>>]
  /\ wrong' = FALSE

Source(value) == [own |-> FALSE, value |-> value]
OwnElement(i) == [own |-> TRUE, at |-> i]

\* When the new element is constructed, the a-th is still where the caller found it:
\* the elements before the i-th have moved if the storage grows, those behind if not,
\* and all of them at the end of a full vector.
StillThere(v, i, a) == IF v.size = v.cap THEN i # v.size + 1 /\ a >= i ELSE a < i

\* push_back is the insertion at the end.
InsertOne(x) == Alive(x) /\ Room(x) > 0 /\ \E i \in 1..(object[x].size + 1) :
  \/ \E value \in Values :
       Sets(x, Insert1(object[x], i, Source(value), heap), InsertAt(expected[x], i, value))
  \/ \E a \in 1..object[x].size :
       SetsGivenOwn(x, Insert1(object[x], i, OwnElement(a), heap),
                    InsertAt(expected[x], i, expected[x][a]), i, a, StillThere(object[x], i, a))

InsertSome(x) == Alive(x) /\ \E i \in 1..(object[x].size + 1), values \in ValueLists(Room(x)) :
  Sets(x, InsertMany(object[x], i, values, heap),
       SubSeq(expected[x], 1, i - 1) \o values \o SubSeq(expected[x], i, Len(expected[x])))

\* pop_back is the erasure of the last.
EraseSlots(x) == Alive(x) /\ \E p, q \in 1..(object[x].size + 1) :
  /\ p <= q
  /\ Sets(x, EraseFrom(object[x], p, q),
          SubSeq(expected[x], 1, p - 1) \o SubSeq(expected[x], q, Len(expected[x])))

\* A larger capacity is reserved before the value is read; one new element stands
\* for all of them where they are wrong.
ResizeTo(x) == Alive(x) /\ \E n \in 0..MaxElements :
  LET list(value) == [i \in 1..n |-> IF i <= Len(expected[x]) THEN expected[x][i] ELSE value]
      there == n <= object[x].cap
  IN \/ \E value \in Values : Sets(x, Resized(object[x], n, value, heap), list(value))
     \/ \E a \in 1..object[x].size :
          /\ n = object[x].size + 1
          /\ SetsGivenOwn(x, Resized(object[x], n, IF there THEN object[x].slots[a] ELSE Raw, heap),
                          list(expected[x][a]), n, a, there)

ReserveFor(x) == Alive(x) /\ \E n \in 0..MaxElements :
  Sets(x, Reserve(object[x], n, heap), expected[x])

ClearVector(x) == Alive(x) /\ Sets(x, Cleared(object[x]), <<>>)

\* operator=(const &) of another vector, and assign.
AssignRange(x) == Alive(x) /\ \E values \in ValueLists(MaxElements) :
  Sets(x, AssignedAll(object[x], values, heap), values)

\* swap, and operator=(&&), which swaps.
SwapWith(x, y) ==
  /\ x # y /\ Alive(x) /\ Alive(y)
  /\ SetBoth(x, y, Swapped(object[x], object[y]), expected[y], expected[x])
  /\ UNCHANGED heap

\* An element that was read after its storage was freed, or was constructed twice:
\* nothing is said of what the program does from there on.
Undefined(x) == Alive(x) /\ Bad \in Range(object[x].slots)

SmallNext ==
  /\ ~\E x \in Vectors : Undefined(x)
  /\ \/ \E x \in Vectors :
          New(x) \/ Delete(x) \/ InsertOne(x) \/ InsertSome(x) \/ EraseSlots(x) \/ ResizeTo(x)
          \/ ReserveFor(x) \/ ClearVector(x) \/ AssignRange(x)
     \/ \E x, y \in Vectors : SwapWith(x, y)

SmallSpec == SmallInit /\ [][SmallNext]_smallVars

-----------------------------------------------------------------------------

Held(v) == /\ v.size <= v.cap
           /\ Len(v.slots) = v.cap
           /\ \A i \in 1..v.cap : (i > v.size) = (v.slots[i] = Raw)

\* A vector gives back what it was given, in order; only the element in the place of
\* one of its own that the call had moved or freed before it read it may be another.
\* Every element is constructed and destroyed once, and nothing is left constructed
\* past the end, unless such an element was read out of storage that was freed; every
\* block belongs to one vector (smallVector.h:299-371, :497-584, :829-921).
VectorsHoldTheirElements ==
  /\ \A x \in Vectors : Alive(x) =>
       /\ Elements(object[x]) = expected[x]
       /\ Held(object[x]) \/ (wrong /\ Undefined(x))
  /\ heap = UNION {OwnedBlock(object[x]) : x \in {y \in Vectors : Alive(y)}}
  /\ \A x, y \in Vectors :
       Alive(x) /\ Alive(y) /\ x # y => OwnedBlock(object[x]) \cap OwnedBlock(object[y]) = {}

\* "mimics the std::vector API, and can thus be easily used as a drop-in
\* replacement": an element of the vector may be inserted again, as it may with
\* std::vector (smallVector.h:147).
OwnElementIsInserted == ~wrong

=============================================================================
