------------------------------- MODULE BitSets -------------------------------
(***************************************************************************)
(* Two arrays of bits, each as a TfBits and as a TfCompressedBits, under   *)
(* sequences of calls on the first one, against the sets they stand for.   *)
(* Once a cached end is wrong nothing more is called: all later results    *)
(* would be wrong with it.                                                 *)
(***************************************************************************)
EXTENDS Bits

CONSTANT Sizes  \* the sizes arrays are given

ASSUME BitSetsAssumption == Sizes \subseteq Nat

VARIABLES
  bits,         \* the two TfBits
  cbits,        \* the two TfCompressedBits
  ref,          \* what they stand for: the size and the set bits
  overwritten   \* history: the ends of the first TfBits that were unknown when the last
                \* call was made, and that this call, Set or growth, stored over

bitSetsVars == <<bits, cbits, ref, overwritten>>

Array(num, set) == [num |-> num, set |-> set]
EndOr(set, num, End(_)) == IF set = {} THEN num ELSE End(set)

\* The first array is a cleared one or made with a range of set bits.
Made == {[bits |-> NewBits(n), cbits |-> NewCompressed(n), ref |-> Array(n, {})] : n \in Sizes}
        \cup
        UNION {{[bits |-> NewRange(n, first, last), cbits |-> NewCompressedRange(n, first, last),
                 ref |-> Array(n, first..last)] :
                  <<first, last>> \in {p \in (0..(n - 1)) \X (0..(n - 1)) : p[1] <= p[2]}} :
               n \in Sizes}

\* The second one has had single bits set, and possibly a Complement after that.
SetOneByOne(n, set) == FoldSet(LAMBDA i, b : SetBit(b, i), NewBits(n), set)

Other == UNION {{[bits |-> b, cbits |-> FromBits(b), ref |-> Array(n, b.on)] :
                  b \in UNION {{SetOneByOne(n, set), Complement(SetOneByOne(n, set))} :
                               set \in SUBSET (0..(n - 1))}} : n \in Sizes}

BitSetsInit ==
  \E one \in Made, two \in Other :
    /\ bits = <<one.bits, two.bits>>
    /\ cbits = <<one.cbits, two.cbits>>
    /\ ref = <<one.ref, two.ref>>
    /\ overwritten = {}

\* The results of one call on the first array in its three forms.
Becomes(b, c, num, set) ==
  /\ bits' = [bits EXCEPT ![1] = b]
  /\ cbits' = [cbits EXCEPT ![1] = c]
  /\ ref' = [ref EXCEPT ![1] = Array(num, set)]

\* For calls that only TfCompressedBits has: the other form is decompressed from it.
CompressedBecomes(c, num, set) == Becomes(Decompress(c), c, num, set)

num1 == ref[1].num
set1 == ref[1].set
All1 == 0..(num1 - 1)

FirstIsRight(b, set) == b.firstSet \in {Invalid, EndOr(set, b.num, Min)}
LastIsRight(b, set) == b.lastSet \in {Invalid, EndOr(set, b.num, Max)}
EndsAreRight == \A k \in 1..2 : FirstIsRight(bits[k], ref[k].set) /\ LastIsRight(bits[k], ref[k].set)

Unknown == {end \in {"first", "last"} :
              Invalid = IF end = "first" THEN bits[1].firstSet ELSE bits[1].lastSet}

\* Set stores its index over an unknown first end (bits.h:390).
SetOne(i) ==
  /\ overwritten' = Unknown \cap {"first"}
  /\ Becomes(SetBit(bits[1], i), SetCompressed(cbits[1], i), num1, set1 \cup {i})

ClearOne(i) == Becomes(ClearBit(bits[1], i), ClearCompressed(cbits[1], i), num1, set1 \ {i})

FillAll ==
  \/ Becomes(ClearAll(bits[1]), ClearAllCompressed(cbits[1]), num1, {})
  \/ Becomes(SetAll(bits[1]), SetAllCompressed(cbits[1]), num1, All1)
  \/ Becomes(Complement(bits[1]), ComplementCompressed(cbits[1]), num1, All1 \ set1)

\* Resize leaves the words to chance, and one of the two that fill the array follows.
Reinitialize(num, memory) ==
  LET b == Resize(bits[1], num, memory)
      c == NewCompressed(num)
  IN \/ Becomes(ClearAll(b), c, num, {})
     \/ Becomes(SetAll(b), SetAllCompressed(c), num, 0..(num - 1))

\* Growth turns unknown ends into the new end marker (bits.h:241-243).
ResizeKeeping(num) ==
  /\ overwritten' = IF num > num1 THEN Unknown ELSE {}
  /\ Becomes(ResizeKeepContent(bits[1], num), ResizeKeepContents(cbits[1], num),
             num, {i \in set1 : i < num})

Both(pair, c, num, set) ==
  /\ bits' = pair
  /\ cbits' = [cbits EXCEPT ![1] = c]
  /\ ref' = [ref EXCEPT ![1] = Array(num, set)]

Combine ==
  LET set2 == ref[2].set
  IN /\ ref[2].num = num1
     /\ \/ Both(AndBits(bits[1], bits[2]), AndCompressed(cbits[1], cbits[2]), num1, set1 \cap set2)
        \/ Both(OrBits(bits[1], bits[2]), OrCompressed(cbits[1], cbits[2]), num1, set1 \cup set2)
        \/ Both(XorBits(bits[1], bits[2]), XorCompressed(cbits[1], cbits[2]),
                num1, Differing(set1, set2))
        \/ Both(SubtractBits(bits[1], bits[2]), SubtractCompressed(cbits[1], cbits[2]),
                num1, set1 \ set2)

\* TfCompressedBits has no counterpart; it is resized and combined.
OrSubset ==
  /\ ref[2].num <= num1
  /\ Both(OrBits(bits[1], bits[2]), OrCompressed(cbits[1], ResizeKeepContents(cbits[2], num1)),
          num1, set1 \cup ref[2].set)

AppendRun(n, bit) ==
  /\ num1 + n \in Sizes
  /\ CompressedBecomes(AppendBits(cbits[1], n, bit), num1 + n,
                       set1 \cup IF bit = 1 THEN num1..(num1 + n - 1) ELSE {})

Shift(n) ==
  \/ CompressedBecomes(ShiftRight(cbits[1], n), num1, {i + n : i \in set1} \cap All1)
  \/ CompressedBecomes(ShiftLeft(cbits[1], n), num1, {i - n : i \in set1} \cap All1)

SetInRange(first, last) ==
  CompressedBecomes(SetRange(cbits[1], first, last), num1, set1 \cup first..last)

\* A const method that fills caches.
FillCaches ==
  /\ \/ bits' = [bits EXCEPT ![1] = AskFirst(@)]
     \/ bits' = [bits EXCEPT ![1] = AskLast(@)]
     \/ bits' = [bits EXCEPT ![1] = AskNumSet(@)]
  /\ UNCHANGED <<cbits, ref>>

\* The calls that store no end over an unknown one.
OtherCall ==
  \/ \E i \in All1 : ClearOne(i)
  \/ FillAll
  \/ \E num \in Sizes : \E memory \in {{}, 0..num} : Reinitialize(num, memory)
  \/ Combine
  \/ OrSubset
  \/ \E n \in 0..Max(Sizes), bit \in {0, 1} : AppendRun(n, bit)
  \/ \E n \in 0..(Max(Sizes) + 1) : Shift(n)
  \/ \E last \in All1 : \E first \in 0..last : SetInRange(first, last)
  \/ FillCaches

BitSetsNext ==
  /\ EndsAreRight
  /\ \/ \E i \in All1 : SetOne(i)
     \/ \E num \in Sizes : ResizeKeeping(num)
     \/ OtherCall /\ overwritten' = {}

BitSetsSpec == BitSetsInit /\ [][BitSetsNext]_bitSetsVars

-----------------------------------------------------------------------------
(* Properties. *)

\* The words of a TfBits hold exactly the set, unused bits are zero, and each cache is
\* either marked as unknown or right.  Only an end goes wrong that was unknown when Set
\* or growth stored over it: FirstSetIsFirst says what that does.
BitsHoldTheSet ==
  \A k \in 1..2 :
    LET b == bits[k]
        set == ref[k].set
    IN /\ b.num = ref[k].num
       /\ b.on = set
       /\ b.numSet \in {Invalid, Cardinality(set)}
       /\ FirstIsRight(b, set) \/ (k = 1 /\ "first" \in overwritten)
       /\ LastIsRight(b, set) \/ (k = 1 /\ "last" \in overwritten)

\* The platforms of a TfCompressedBits are the one canonical form of the set (which
\* equality and hashes rely on): none is empty, they cover the array, and going to
\* TfBits or to text and back gives the same ones.
CompressedHoldTheSet ==
  \A k \in 1..2 :
    LET c == cbits[k]
    IN /\ c.num = ref[k].num
       /\ Sum(c.platforms) = c.num
       /\ IF c.num = 0 THEN c = NewCompressed(0) ELSE 0 \notin Range(c.platforms)
       /\ FromBits(bits[k]) = c
       /\ Decompress(c).on = ref[k].set
       /\ FromText(AsText(c)) = c

\* The two kinds of array answer every question about one array as the set does:
\* the first, last, next, previous and n-th set bit, counts, gaps and runs, views.
AnswersAboutOne(b, c, set) ==
  LET num == b.num
      Above(i) == {j \in set : j >= i}
      Below(i) == {j \in set : j <= i}
      UnsetAbove(i) == {j \in i..(num - 1) : j \notin set}
      runs == {i \in set : i - 1 \notin set}
  IN /\ GetNumSet(b) = Cardinality(set) /\ NumSetCompressed(c) = Cardinality(set)
     /\ GetFirstSet(b) = EndOr(set, num, Min) /\ FirstSetCompressed(c) = EndOr(set, num, Min)
     /\ GetLastSet(b) = EndOr(set, num, Max) /\ LastSetCompressed(c) = EndOr(set, num, Max)
     /\ AreAllSet(b) = AllSetCompressed(c) /\ IsAnySet(b) = AnySetCompressed(c)
     /\ AnyUnsetCompressed(c) = (UnsetAbove(0) # {})
     /\ AreContiguouslySet(b) = (Cardinality(runs) = 1)
     /\ ContiguousCompressed(c) = (Cardinality(runs) = 1)
     /\ NumSetPlatforms(c) = Cardinality(runs)
     /\ NumPlatforms(c) = NumSetPlatforms(c) + NumUnsetPlatforms(c)
     /\ \A i \in 0..num :
          /\ FindNextSet(b, i) = EndOr(Above(i), num, Min)
          /\ NextWith(c, 1, i) = EndOr(Above(i), num, Min)
          /\ FindNextUnset(b, i) = EndOr(UnsetAbove(i), num, Min)
          /\ NextWith(c, 0, i) = EndOr(UnsetAbove(i), num, Min)
          /\ i < num => /\ FindPrevSet(b, i) = EndOr(Below(i), num, Max)
                        /\ PrevSetCompressed(c, i) = EndOr(Below(i), num, Max)
          /\ \/ i >= Cardinality(set) /\ FindNthSet(c, i) = num
             \/ FindNthSet(c, i) \in set /\ Cardinality(Below(FindNthSet(c, i))) = i + 1
     /\ MaxGap(c) = Max({0} \cup {j - i - 1 : <<i, j>> \in
                        {p \in set \X set : p[1] < p[2] /\ \A k \in set : ~(p[1] < k /\ k < p[2])}})
     /\ AllSetView(b) = set /\ ViewCompressed(c, 1) = set
     /\ AllUnsetView(b) = UnsetAbove(0) /\ ViewCompressed(c, 0) = UnsetAbove(0)

\* The same for questions about two arrays of one size.
AnswersAboutTwo(b1, b2, c1, c2, x, y) ==
  /\ HasNonEmptyIntersection(b1, b2) = (x \cap y # {}) /\ Intersect(c1, c2) = (x \cap y # {})
  /\ HasNonEmptyDifference(b1, b2) = (x \ y # {}) /\ Differ(c1, c2) = (x \ y # {})
  /\ ContainsBits(b1, b2) = (y \subseteq x) /\ ContainsCompressed(c1, c2) = (y \subseteq x)
  /\ EqualBits(b1, b2) = (x = y) /\ (c1 = c2) = (x = y)

\* Every question that either kind of array answers from its caches or platforms gets
\* the answer that the set gives, as long as the cached ends are right.
AnswersAgree ==
  EndsAreRight =>
  /\ \A k \in 1..2 : AnswersAboutOne(bits[k], cbits[k], ref[k].set)
  /\ ref[1].num = ref[2].num =>
       AnswersAboutTwo(bits[1], bits[2], cbits[1], cbits[2], ref[1].set, ref[2].set)

\* "Returns the index of the first bit set in the bit array.  If no bits are set, the
\* return value is 'GetSize()'" (bits.h:487), whatever calls came before.
FirstSetIsFirst == GetFirstSet(bits[1]) = EndOr(set1, num1, Min)
=============================================================================
