-------------------------------- MODULE Bits --------------------------------
(***************************************************************************)
(* The two arrays of bits.                                                 *)
(*                                                                         *)
(* TfBits: an array of bits in words, with the number of set bits and the  *)
(* first and the last of them cached.  A cache is either Invalid or meant  *)
(* to be right.  Each operation touches only the words between the caches, *)
(* so a wrong cache is a wrong result.                                     *)
(*                                                                         *)
(* Objects are values here: an operation takes a record and returns one.   *)
(* A const method that fills caches is an operation too (the Ask...).      *)
(***************************************************************************)
EXTENDS Integers, SequencesExt

CONSTANT WordBits      \* bits in a word; 64 in the code

ASSUME WordBitsAssumption == WordBits \in Nat \ {0}

Invalid == 65535       \* size_t(-1): above every index

Word(i) == i \div WordBits
NumWords(num) == (num + WordBits - 1) \div WordBits
InWords(first, last, num) == {i \in 0..(NumWords(num) * WordBits - 1) :
                               Word(first) <= Word(i) /\ Word(i) <= Word(last)}
Uncached(b) == [b EXCEPT !.numSet = Invalid, !.firstSet = Invalid, !.lastSet = Invalid]

\* _ClearTrailingBits: bits of the last word that the array does not use.
ClearTrailingBits(b) == [b EXCEPT !.on = {i \in @ : i < b.num}]

ClearAll(b) ==
  [b EXCEPT !.on = {}, !.numSet = 0, !.firstSet = b.num, !.lastSet = b.num]

SetAll(b) ==
  ClearTrailingBits([b EXCEPT
    !.on = 0..(NumWords(b.num) * WordBits - 1), !.numSet = b.num,
    !.firstSet = 0, !.lastSet = IF b.num > 0 THEN b.num - 1 ELSE 0])

\* The new words keep whatever is in their memory, the last word excepted.
Resize(b, num, memory) ==
  IF NumWords(b.num) > 0 /\ b.num = num THEN b
  ELSE Uncached([b EXCEPT !.num = num,
                          !.on = {i \in memory : Word(i) < NumWords(num) - 1}])

NewBits(num) ==
  ClearAll([num |-> num, on |-> {}, numSet |-> Invalid, firstSet |-> Invalid, lastSet |-> Invalid])

-----------------------------------------------------------------------------
(* Searching, and the three cached numbers. *)

FindNextSet(b, index) ==
  LET found == {i \in b.on : i >= index /\ i < b.num}
  IN IF found = {} THEN b.num ELSE Min(found)

FindPrevSet(b, index) ==
  LET found == {i \in b.on : i <= index}
  IN IF index >= b.num \/ found = {} THEN b.num ELSE Max(found)

FindNextUnset(b, index) ==
  LET found == {i \in index..(b.num - 1) : i \notin b.on}
  IN IF found = {} THEN b.num ELSE Min(found)

GetFirstSet(b) == IF b.firstSet = Invalid THEN FindNextSet(b, 0) ELSE b.firstSet

\* For an empty array the index _num - 1 is size_t(-1).
GetLastSet(b) ==
  IF b.lastSet = Invalid THEN FindPrevSet(b, IF b.num = 0 THEN Invalid ELSE b.num - 1)
  ELSE b.lastSet

AskFirst(b) == [b EXCEPT !.firstSet = GetFirstSet(b)]
AskLast(b) == [b EXCEPT !.lastSet = GetLastSet(b)]
AskEnds(b) == AskLast(AskFirst(b))

CountNumSet(b) ==
  IF GetFirstSet(b) < b.num
  THEN Cardinality(b.on \cap InWords(GetFirstSet(b), GetLastSet(b), b.num))
  ELSE 0

GetNumSet(b) == IF b.numSet = Invalid THEN CountNumSet(b) ELSE b.numSet

AskNumSet(b) ==
  IF b.numSet = Invalid THEN [AskEnds(b) EXCEPT !.numSet = CountNumSet(b)] ELSE b

AreAllSet(b) == GetNumSet(b) = b.num
IsAnySet(b) == GetFirstSet(b) < b.num
AreContiguouslySet(b) == GetNumSet(b) = GetLastSet(b) - GetFirstSet(b) + 1

-----------------------------------------------------------------------------
(* Single bits. *)

\* Set: an Invalid _firstSet is above every index and gets stored over as well.
SetBit(b, index) ==
  IF index \in b.on THEN b
  ELSE [b EXCEPT
    !.on = @ \cup {index},
    !.numSet = IF @ = Invalid THEN @ ELSE @ + 1,
    !.firstSet = IF index < @ THEN index ELSE @,
    !.lastSet = IF @ # Invalid /\ (index > @ \/ @ = b.num) THEN index ELSE @]

ClearBit(b, index) ==
  IF index \notin b.on THEN b
  ELSE [b EXCEPT
    !.on = @ \ {index},
    !.numSet = IF @ = Invalid THEN @ ELSE @ - 1,
    !.firstSet = IF @ = index THEN Invalid ELSE @,
    !.lastSet = IF @ = index THEN Invalid ELSE @]

RECURSIVE SetRun(_, _, _)
SetRun(b, first, last) == IF first > last THEN b ELSE SetRun(SetBit(b, first), first + 1, last)

\* The constructor that sets a range.
NewRange(num, first, last) ==
  CASE num = 0 -> NewBits(num)
    [] num > 0 /\ first = 0 /\ last >= num - 1 -> SetAll(NewBits(num))
    [] OTHER -> SetRun(NewBits(num), first, last)

\* An end marker (the old size) becomes the new end marker; Invalid does as well.
ResizeKeepContent(b, num) ==
  LET kept == {i \in b.on : Word(i) < NumWords(num)}
      End(cache) == IF cache < b.num THEN cache ELSE num
  IN CASE num = b.num -> b
       [] num < b.num -> Uncached(ClearTrailingBits([b EXCEPT !.num = num, !.on = kept]))
       [] num > b.num -> [num |-> num, on |-> kept, numSet |-> b.numSet,
                          firstSet |-> End(b.firstSet), lastSet |-> End(b.lastSet)]

Complement(b) ==
  [ClearTrailingBits([b EXCEPT !.on = (0..(NumWords(b.num) * WordBits - 1)) \ @]) EXCEPT
    !.numSet = IF @ = Invalid THEN @ ELSE b.num - @,
    !.firstSet = Invalid, !.lastSet = Invalid]

-----------------------------------------------------------------------------
(* Two arrays.  The result is the pair of both, because the right one's    *)
(* caches are filled.                                                      *)

\* After words were written: new ends are looked for from the old ones.
Narrowed(b, on, first, last) ==
  LET c == [b EXCEPT !.on = on, !.numSet = Invalid]
  IN [c EXCEPT !.firstSet = FindNextSet(c, first), !.lastSet = FindPrevSet(c, last)]

AndBits(l, r) ==
  LET a == AskEnds(l)
      touched == InWords(a.firstSet, a.lastSet, a.num)
  IN IF a.firstSet < a.num
     THEN <<Narrowed(a, (a.on \ touched) \cup (a.on \cap r.on), a.firstSet, a.lastSet), r>>
     ELSE <<a, r>>

\* _Or, with right arrays that may be smaller; a left array of one run of bits
\* that contains the right ones' range is left alone.
OrBits(l, r) ==
  LET a == AskEnds(l)
      b == AskEnds(r)
      first == Min({a.firstSet, b.firstSet})
      last == IF a.lastSet < a.num THEN Max({a.lastSet, b.lastSet}) ELSE b.lastSet
      contained == /\ l.numSet = last - first + 1
                   /\ first = a.firstSet
                   /\ last = a.lastSet
  IN CASE GetFirstSet(r) >= r.num -> <<l, AskFirst(r)>>
       [] GetFirstSet(r) < r.num /\ contained -> <<a, b>>
       [] OTHER -> <<[a EXCEPT !.on = @ \cup (r.on \cap InWords(b.firstSet, b.lastSet, r.num)),
                               !.numSet = Invalid, !.firstSet = first, !.lastSet = last], b>>

\* The difference of sets, both ways.
Differing(x, y) == (x \ y) \cup (y \ x)

XorBits(l, r) ==
  LET a == AskFirst(l)
      b == AskEnds(r)
      first == Min({a.firstSet, b.firstSet})
      last == IF a.firstSet < a.num THEN Max({GetLastSet(l), b.lastSet}) ELSE b.lastSet
      touched == InWords(first, last, a.num)
  IN IF GetFirstSet(r) < l.num
     THEN <<Narrowed(a, (a.on \ touched) \cup (Differing(a.on, r.on) \cap touched), first, last), b>>
     ELSE <<a, AskFirst(r)>>

SubtractBits(l, r) ==
  LET a == AskEnds(l)
      b == AskEnds(r)
      first == Max({a.firstSet, b.firstSet})
      last == Min({a.lastSet, b.lastSet})
  IN IF a.firstSet < a.num /\ b.firstSet < a.num /\ first <= last
     THEN <<Narrowed(a, a.on \ (r.on \cap InWords(first, last, a.num)), a.firstSet, a.lastSet), b>>
     ELSE <<a, b>>

EqualBits(l, r) ==
  LET bothCounted == l.numSet # Invalid /\ r.numSet # Invalid
      touched == InWords(GetFirstSet(l), GetLastSet(l), l.num)
  IN /\ l.num = r.num
     /\ ~(bothCounted /\ l.numSet # r.numSet)
     /\ \/ bothCounted /\ l.numSet \in {0, l.num}
        \/ /\ GetFirstSet(l) = GetFirstSet(r)
           /\ GetLastSet(l) = GetLastSet(r)
           /\ GetFirstSet(l) = l.num \/ l.on \cap touched = r.on \cap touched

HasNonEmptyIntersection(l, r) ==
  LET first == Max({GetFirstSet(l), GetFirstSet(r)})
      last == Min({GetLastSet(l), GetLastSet(r)})
  IN /\ IsAnySet(l) /\ IsAnySet(r)
     /\ first <= last
     /\ l.on \cap r.on \cap InWords(first, last, l.num) # {}

HasNonEmptyDifference(l, r) ==
  /\ IsAnySet(l)
  /\ \/ GetFirstSet(l) < GetFirstSet(r)
     \/ GetLastSet(l) > GetLastSet(r)
     \/ GetFirstSet(l) > GetLastSet(r)
     \/ GetLastSet(l) < GetFirstSet(r)
     \/ GetNumSet(l) > GetNumSet(r)
     \/ (l.on \ r.on) \cap InWords(GetFirstSet(l), GetLastSet(l), l.num) # {}

ContainsBits(l, r) == ~HasNonEmptyDifference(r, l)

\* The indices that the iterator of a view stops at: it starts at the first one
\* and asks for the next above each.
ViewOf(b, set, start) ==
  LET Next(from) == IF set THEN FindNextSet(b, from) ELSE FindNextUnset(b, from)
  IN {i \in 0..(b.num - 1) :
        \/ i = start
        \/ \E j \in start..(i - 1) : Next(j) = j /\ Next(j + 1) = i}

AllSetView(b) == ViewOf(b, TRUE, GetFirstSet(b))
AllUnsetView(b) == ViewOf(b, FALSE, FindNextUnset(b, 0))

-----------------------------------------------------------------------------
(***************************************************************************)
(* TfCompressedBits: an array of bits as the lengths of its runs           *)
(* ("platforms"), whose values alternate from the running bit on.  As      *)
(* above an object is a value and an operation returns the new one; bits   *)
(* are 0 and 1.  The words have 32 bits in the code; lengths that need     *)
(* more are left out.                                                      *)
(***************************************************************************)
Compressed(num, running, platforms) ==
  [num |-> num, running |-> running, platforms |-> platforms]

Flip(bit) == 1 - bit
And == [x, y \in 0..1 |-> IF x = 1 /\ y = 1 THEN 1 ELSE 0]
Or == [x, y \in 0..1 |-> IF x = 1 \/ y = 1 THEN 1 ELSE 0]
Xor == [x, y \in 0..1 |-> IF x # y THEN 1 ELSE 0]

Plus(platforms, i, n) == [platforms EXCEPT ![i] = @ + n]

RECURSIVE Sum(_)
Sum(platforms) == IF platforms = <<>> THEN 0 ELSE Head(platforms) + Sum(Tail(platforms))

BitOf(c, platform) == IF platform % 2 = 1 THEN c.running ELSE Flip(c.running)

NewCompressed(num) == Compressed(num, 0, <<num>>)

\* The constructor for a range, which verifies it.
NewCompressedRange(num, first, last) ==
  LET trailing == IF last < num - 1 THEN <<num - last - 1>> ELSE <<>>
  IN IF num = 0 \/ ~(first < num /\ last < num /\ first <= last) THEN NewCompressed(num)
     ELSE IF first = 0 THEN Compressed(num, 1, <<last + 1>> \o trailing)
     ELSE Compressed(num, 0, <<first, last - first + 1>> \o trailing)

-----------------------------------------------------------------------------
(* Whole arrays, sizes and shifts. *)

ClearAllCompressed(c) == IF c.num = 0 THEN c ELSE NewCompressed(c.num)
SetAllCompressed(c) == IF c.num = 0 THEN c ELSE Compressed(c.num, 1, <<c.num>>)
ComplementCompressed(c) == IF c.num = 0 THEN c ELSE [c EXCEPT !.running = Flip(@)]

EndsInZeros(running, platforms) == Flip(running) = Len(platforms) % 2

RECURSIVE TrimRight(_, _)
TrimRight(platforms, bits) ==
  IF Last(platforms) <= bits THEN TrimRight(Front(platforms), bits - Last(platforms))
  ELSE Plus(platforms, Len(platforms), -bits)

\* How many platforms from the left are shifted out as a whole.
ShiftedOut(platforms, bits) ==
  Max({n \in 0..Len(platforms) : Sum(SubSeq(platforms, 1, n)) <= bits})

ResizeKeepContents(c, num) ==
  CASE num = c.num -> c
    [] num # c.num /\ num = 0 -> NewCompressed(0)
    [] c.num < num ->
         Compressed(num, c.running,
           IF EndsInZeros(c.running, c.platforms)
           THEN Plus(c.platforms, Len(c.platforms), num - c.num)
           ELSE Append(c.platforms, num - c.num))
    [] c.num > num /\ num > 0 ->
         Compressed(num, c.running, TrimRight(c.platforms, c.num - num))

AppendBits_SameValue(c, n, value) ==
  IF n = 0 THEN c
  ELSE IF c.num = 0 THEN Compressed(n, value, <<n>>)
  ELSE Compressed(c.num + n, c.running,
         IF value = c.running THEN Plus(c.platforms, Len(c.platforms), n)
         ELSE Append(c.platforms, n))

\* Append
AppendBits(c, n, value) ==
  IF n = 0 THEN c
  ELSE IF c.num = 0 THEN Compressed(n, value, <<n>>)
  ELSE Compressed(c.num + n, c.running,
         IF (value = 1) = (c.running = Len(c.platforms) % 2)
         THEN Plus(c.platforms, Len(c.platforms), n)
         ELSE Append(c.platforms, n))

ShiftRight(c, bits) ==
  IF c.num = 0 \/ bits = 0 THEN c
  ELSE Compressed(c.num, 0, TrimRight(
         IF c.running = 0 THEN Plus(c.platforms, 1, bits) ELSE <<bits>> \o c.platforms, bits))

ShiftLeft(c, bits) ==
  LET out == ShiftedOut(c.platforms, bits)
      rest == SubSeq(c.platforms, out + 1, Len(c.platforms))
      cut == IF rest = <<>> THEN <<>>
             ELSE Plus(rest, 1, Sum(SubSeq(c.platforms, 1, out)) - bits)
      running == IF rest = <<>> THEN 0 ELSE IF out % 2 = 1 THEN Flip(c.running) ELSE c.running
  IN IF c.num = 0 \/ bits = 0 THEN c
     ELSE Compressed(c.num, running,
            IF EndsInZeros(running, cut) THEN Plus(cut, Len(cut), bits)
            ELSE Append(cut, Min({c.num, bits})))

-----------------------------------------------------------------------------
(* Questions. *)

\* _LinearSearch: the platform an index is in, the end of it, and its bit.
LinearSearch(c, index) ==
  LET p == Min({n \in 1..Len(c.platforms) : Sum(SubSeq(c.platforms, 1, n)) > index})
  IN [platform |-> p, end |-> Sum(SubSeq(c.platforms, 1, p)), bit |-> BitOf(c, p)]

IsSetCompressed(c, index) == index < c.num /\ LinearSearch(c, index).bit = 1

NextWith(c, bit, index) ==
  LET found == LinearSearch(c, index)
  IN IF index >= c.num THEN c.num ELSE IF found.bit = bit THEN index ELSE found.end

PrevSetCompressed(c, index) ==
  LET found == LinearSearch(c, index)
      first == found.end - c.platforms[found.platform]
  IN CASE index >= c.num -> c.num
       [] index < c.num /\ found.bit = 1 -> index
       [] index < c.num /\ found.bit = 0 -> IF first > 0 THEN first - 1 ELSE c.num

\* FindNthSet: the first platform that brings the count of set bits above nth.
FindNthSet(c, nth) ==
  LET before(p) == FoldLeftDomain(LAMBDA n, i :
                     IF i < p /\ BitOf(c, i) = 1 THEN n + c.platforms[i] ELSE n, 0, c.platforms)
      reach == {p \in 1..Len(c.platforms) :
                  BitOf(c, p) = 1 /\ before(p) + c.platforms[p] > nth}
  IN IF reach = {} THEN c.num
     ELSE Sum(SubSeq(c.platforms, 1, Min(reach) - 1)) + nth - before(Min(reach))

LengthsOf(c, bit, from, to) ==
  {c.platforms[p] : p \in {q \in from..to : BitOf(c, q) = bit}}

NumSetCompressed(c) ==
  FoldLeftDomain(LAMBDA n, i : IF BitOf(c, i) = 1 THEN n + c.platforms[i] ELSE n, 0, c.platforms)

MaxGap(c) == Max({0} \cup LengthsOf(c, 0, 2, Len(c.platforms) - 1))

FirstSetCompressed(c) == IF c.num = 0 \/ c.running = 1 THEN 0 ELSE Head(c.platforms)

LastSetCompressed(c) ==
  CASE c.num = 0 \/ (c.running = 0 /\ Len(c.platforms) = 1) -> c.num
    [] ~(c.num = 0 \/ (c.running = 0 /\ Len(c.platforms) = 1)) ->
         IF c.running = Len(c.platforms) % 2 THEN c.num - 1 ELSE c.num - 1 - Last(c.platforms)

NumPlatforms(c) == IF c.num = 0 THEN 0 ELSE Len(c.platforms)
NumSetPlatforms(c) ==
  IF c.num = 0 THEN 0 ELSE Len(c.platforms) \div 2 + And[Len(c.platforms) % 2, c.running]
NumUnsetPlatforms(c) ==
  IF c.num = 0 THEN 0 ELSE Len(c.platforms) \div 2 + And[Len(c.platforms) % 2, Flip(c.running)]

AllSetCompressed(c) == c.num = 0 \/ (c.running = 1 /\ Len(c.platforms) = 1)
AnySetCompressed(c) == c.num > 0 /\ (c.running = 1 \/ Len(c.platforms) > 1)
AnyUnsetCompressed(c) == c.num > 0 /\ (c.running = 0 \/ Len(c.platforms) > 1)
ContiguousCompressed(c) ==
  /\ c.num > 0
  /\ \/ Len(c.platforms) = 2
     \/ Len(c.platforms) = 1 /\ c.running = 1
     \/ Len(c.platforms) = 3 /\ c.running = 0

\* An iterator of a view counts within a platform and then skips the next one.
RECURSIVE Stops(_, _, _)
Stops(c, platform, index) ==
  IF platform > Len(c.platforms) \/ index >= c.num THEN {}
  ELSE LET here == c.platforms[platform]
           skipped == IF platform < Len(c.platforms) THEN c.platforms[platform + 1] ELSE 0
       IN (index..(index + here - 1)) \cup Stops(c, platform + 2, index + here + skipped)

\* AllSetView and AllUnsetView.
ViewCompressed(c, bit) ==
  IF c.running = bit THEN Stops(c, 1, 0) ELSE Stops(c, 2, Head(c.platforms))

-----------------------------------------------------------------------------
(* Two arrays of one size. *)

\* _Logical: both are walked from one change of a bit to the next; a platform of
\* the result ends where the combined bit changes, and at the end.
RECURSIVE Merge(_, _, _, _)
Merge(op, l, r, s) ==
  LET step == Min({s.left, s.right})
      lEnds == s.left = step
      rEnds == s.right = step
      total == s.total + step
      bitL == IF lEnds THEN Flip(s.bitL) ELSE s.bitL
      bitR == IF rEnds THEN Flip(s.bitR) ELSE s.bitR
      i == IF lEnds THEN s.i + 1 ELSE s.i
      j == IF rEnds THEN s.j + 1 ELSE s.j
      commit == op[bitL, bitR] # s.bit \/ total >= l.num
      Follow(c, k, ends, left) ==
        CASE ~ends -> left - step
          [] ends /\ k <= Len(c.platforms) -> c.platforms[k]
          [] ends /\ k > Len(c.platforms) -> l.num - total
      result == IF commit THEN Append(s.result, s.open + step) ELSE s.result
  IN IF total >= l.num THEN result
     ELSE Merge(op, l, r,
            [bitL |-> bitL, bitR |-> bitR, i |-> i, j |-> j, total |-> total,
             left |-> Follow(l, i, lEnds, s.left), right |-> Follow(r, j, rEnds, s.right),
             bit |-> op[bitL, bitR], result |-> result,
             open |-> IF commit THEN 0 ELSE s.open + step])

Logical(op, l, r) ==
  LET bit == op[l.running, r.running]
  IN Compressed(l.num, bit, Merge(op, l, r,
       [bitL |-> l.running, bitR |-> r.running, i |-> 1, j |-> 1, total |-> 0,
        left |-> Head(l.platforms), right |-> Head(r.platforms),
        bit |-> bit, result |-> <<>>, open |-> 0]))

\* _HasLogical with And: the ends of the platforms are compared as sums.
RECURSIVE OverlapFrom(_, _, _, _)
OverlapFrom(l, r, i, j) ==
  LET endL == Sum(SubSeq(l.platforms, 1, i))
      endR == Sum(SubSeq(r.platforms, 1, j))
  IN /\ i <= Len(l.platforms) /\ j <= Len(r.platforms)
     /\ \/ BitOf(l, i) = 1 /\ BitOf(r, j) = 1
        \/ OverlapFrom(l, r, IF endL <= endR THEN i + 1 ELSE i,
                             IF endR <= endL THEN j + 1 ELSE j)

AreBoundsDisjoint(l, r) ==
  \/ LastSetCompressed(l) < FirstSetCompressed(r)
  \/ FirstSetCompressed(l) > LastSetCompressed(r)

Uniform(c) == Len(c.platforms) = 1

\* HasNonEmptyIntersection
Intersect(l, r) ==
  /\ l.num > 0
  /\ \/ l.running = 1 /\ r.running = 1
     \/ IF Uniform(l) THEN l.running = 1 /\ AnySetCompressed(r)
        ELSE IF Uniform(r) THEN r.running = 1 /\ AnySetCompressed(l)
        ELSE ~AreBoundsDisjoint(l, r) /\ OverlapFrom(l, r, 1, 1)

\* HasNonEmptyDifference
Differ(l, r) ==
  /\ l.num > 0
  /\ \/ l.running = 1 /\ r.running = 0
     \/ IF Uniform(l) THEN l.running = 1 /\ AnyUnsetCompressed(r)
        ELSE IF Uniform(r) THEN r.running = 0 /\ AnySetCompressed(l)
        ELSE \/ FirstSetCompressed(l) < FirstSetCompressed(r)
             \/ LastSetCompressed(l) > LastSetCompressed(r)
             \/ FirstSetCompressed(l) > LastSetCompressed(r)
             \/ LastSetCompressed(l) < FirstSetCompressed(r)
             \/ OverlapFrom(l, ComplementCompressed(r), 1, 1)

ContainsCompressed(l, r) == ~Differ(r, l)

AndCompressed(l, r) ==
  CASE l.num = 0 -> l
    [] l.num > 0 /\ Uniform(l) -> IF l.running = 0 THEN l ELSE r
    [] ~Uniform(l) /\ Uniform(r) -> IF r.running = 1 THEN l ELSE ClearAllCompressed(l)
    [] ~Uniform(l) /\ ~Uniform(r) ->
         IF AreBoundsDisjoint(l, r) THEN ClearAllCompressed(l) ELSE Logical(And, l, r)

OrCompressed(l, r) ==
  CASE l.num = 0 -> l
    [] l.num > 0 /\ Uniform(l) -> IF l.running = 1 THEN l ELSE r
    [] ~Uniform(l) /\ Uniform(r) -> IF r.running = 0 THEN l ELSE SetAllCompressed(l)
    [] ~Uniform(l) /\ ~Uniform(r) ->
         IF ContainsCompressed(l, r) THEN l ELSE Logical(Or, l, r)

XorCompressed(l, r) ==
  CASE l.num = 0 \/ ~AnySetCompressed(r) -> l
    [] l.num > 0 /\ AnySetCompressed(r) /\ ~AnySetCompressed(l) -> r
    [] AnySetCompressed(r) /\ AnySetCompressed(l) -> Logical(Xor, l, r)

SubtractCompressed(l, r) ==
  CASE l.num = 0 -> l
    [] l.num > 0 /\ Uniform(l) -> IF l.running = 0 THEN l ELSE ComplementCompressed(r)
    [] ~Uniform(l) /\ Uniform(r) -> IF r.running = 0 THEN l ELSE ClearAllCompressed(l)
    [] ~Uniform(l) /\ ~Uniform(r) ->
         IF AreBoundsDisjoint(l, r) \/ ~Intersect(l, r) THEN l
         ELSE Logical(And, l, ComplementCompressed(r))

\* Set, Clear and SetRange go by an array that has the range.
SetCompressed(c, index) == OrCompressed(c, NewCompressedRange(c.num, index, index))
ClearCompressed(c, index) ==
  AndCompressed(c, ComplementCompressed(NewCompressedRange(c.num, index, index)))
SetRange(c, first, last) == OrCompressed(c, NewCompressedRange(c.num, first, last))

-----------------------------------------------------------------------------
(* Conversions. *)

RECURSIVE RunsFrom(_, _, _)
RunsFrom(b, index, set) ==
  IF index >= b.num THEN <<>>
  ELSE LET next == IF set THEN FindNextUnset(b, index + 1) ELSE FindNextSet(b, index + 1)
       IN <<next - index>> \o RunsFrom(b, next, ~set)

\* The constructor from TfBits.
FromBits(b) ==
  IF b.num = 0 THEN NewCompressed(0)
  ELSE Compressed(b.num, IF 0 \in b.on THEN 1 ELSE 0, RunsFrom(b, 0, 0 \in b.on))

\* Decompress resizes and clears the target, and assigns bit after bit.
RECURSIVE AssignFrom(_, _, _, _)
AssignFrom(c, platform, index, b) ==
  IF platform > Len(c.platforms) THEN b
  ELSE AssignFrom(c, platform + 1, index + c.platforms[platform],
         IF BitOf(c, platform) = 0 THEN b
         ELSE SetRun(b, index, index + c.platforms[platform] - 1))

Decompress(c) == AssignFrom(c, 1, 0, NewBits(c.num))

\* GetAsRLEString: up to four bits are written as digits, longer arrays as pairs
\* of bit and length with delimiters, which make them tokens.
AsText(c) ==
  IF c.num <= 4
  THEN [delimited |-> FALSE,
        values |-> [i \in 1..c.num |-> IF IsSetCompressed(c, i - 1) THEN 1 ELSE 0]]
  ELSE [delimited |-> TRUE,
        values |-> FlattenSeq([p \in DOMAIN c.platforms |-> <<BitOf(c, p), c.platforms[p]>>])]

\* FromString: digits without delimiters are one token, which is an odd number of
\* them, so they are read as bits.  What is not a list of runs gives an empty array.
FromText(text) ==
  LET runs == [k \in 1..(Len(text.values) \div 2) |->
                 [bit |-> text.values[2 * k - 1], length |-> text.values[2 * k]]]
      valid == /\ Len(text.values) % 2 = 0
               /\ \A run \in Range(runs) : run.bit \in {0, 1} /\ run.length > 0
  IN IF ~text.delimited
     THEN FoldLeft(LAMBDA c, bit : AppendBits(c, 1, bit), NewCompressed(0), text.values)
     ELSE IF ~valid THEN NewCompressed(0)
     ELSE FoldLeft(LAMBDA c, run : AppendBits(c, run.length, run.bit), NewCompressed(0), runs)
=============================================================================
