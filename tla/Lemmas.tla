------------------------------- MODULE Lemmas -------------------------------
(***************************************************************************)
(* Facts that the proofs share: how a step of one thread changes a number  *)
(* of threads, what the value of a lock word says of the threads that put  *)
(* it together, for every finite set of them, and what lists are made of.  *)
(***************************************************************************)
EXTENDS RWLockWord, Lists, FiniteSetTheorems, TLAPS

Ones(b) == IF b THEN 1 ELSE 0

\* The flag bit of a word that counts n readers is the flag that was put in.
LEMMA FlagBit ==
  ASSUME NEW n \in Nat, NEW b \in {0, 1}
  PROVE  HasWriter(OneReader * n + WriterFlag * b) <=> b = 1
  BY DEF HasWriter, OneReader, WriterFlag

\* A step of one thread adds it to a finite set, removes it or neither.
LEMMA CardinalityStep ==
  ASSUME NEW S, IsFiniteSet(S), NEW T, NEW x, S \ {x} = T \ {x}
  PROVE  /\ IsFiniteSet(T)
         /\ Cardinality(S) \in Nat
         /\ Cardinality(T) = Cardinality(S) + Ones(x \in T) - Ones(x \in S)
<1> USE DEF Ones
<1>1. IsFiniteSet(S \ {x}) /\ Cardinality(S \ {x}) = IF x \in S THEN Cardinality(S) - 1 ELSE Cardinality(S)
  BY FS_RemoveElement
<1>2. Cardinality(S) \in Nat /\ Cardinality(S \ {x}) \in Nat
  BY <1>1, FS_CardinalityType
<1>3. CASE x \in T
  <2>1. T = (S \ {x}) \cup {x} /\ x \notin S \ {x}
    BY <1>3
  <2>2. IsFiniteSet(T) /\ Cardinality(T) = Cardinality(S \ {x}) + 1
    BY <2>1, <1>1, FS_AddElement
  <2> QED
    BY <2>2, <1>1, <1>2, <1>3
<1>4. CASE x \notin T
  <2>1. T = S \ {x}
    BY <1>4
  <2> QED
    BY <2>1, <1>1, <1>2, <1>4
<1> QED
  BY <1>3, <1>4

\* A set in which any two members are equal has one member or none.
LEMMA AtMostOne ==
  ASSUME NEW F, \A x, y \in F : x = y
  PROVE  IsFiniteSet(F) /\ Cardinality(F) = Ones(F # {})
<1>1. CASE F = {}
  BY <1>1, FS_EmptySet DEF Ones
<1>2. CASE F # {}
  <2>1. PICK t : F = {t}
    BY <1>2
  <2> QED
    BY <2>1, FS_Singleton DEF Ones
<1> QED
  BY <1>1, <1>2

\* Among some members of D there is one for which f is highest, if f is bounded.
LEMMA Highest ==
  ASSUME NEW D, NEW f \in [D -> Nat], NEW S \in SUBSET D, S # {},
         NEW n \in Nat, \A d \in S : f[d] <= n
  PROVE  \E d \in S : \A e \in S : f[e] <= f[d]
<1> DEFINE gaps == {n - f[d] : d \in S}
<1>1. gaps \subseteq Nat /\ gaps # {}
  OBVIOUS
<1>2. \E g \in gaps : \A h \in gaps : g <= h
  <2> HIDE DEF gaps
  <2>1. PICK g \in gaps : \A h \in gaps : ~(<<h, g>> \in OpToRel(<, Nat))
    BY <1>1, NatLessThanWellFounded, WFMin
  <2>2. \A h \in gaps : ~(h < g)
    BY <1>1, <2>1 DEF OpToRel
  <2> QED
    BY <1>1, <2>2
<1>3. PICK g \in gaps : \A h \in gaps : g <= h
  BY <1>2
<1>4. PICK d \in S : g = n - f[d]
  OBVIOUS
<1>5. ASSUME NEW e \in S PROVE f[e] <= f[d]
  <2>1. n - f[e] \in gaps
    OBVIOUS
  <2>2. n - f[d] <= n - f[e] /\ f[d] \in Nat /\ f[e] \in Nat
    BY <1>3, <1>4, <2>1
  <2> QED
    BY <2>2
<1> QED
  BY <1>5

\* What a thread learns from a word to which the threads in C have added a
\* reader and the one in F, if any, the flag.
LEMMA WordOfSets ==
  ASSUME NEW C, IsFiniteSet(C), NEW F, \A x, y \in F : x = y,
         NEW w, w = OneReader * Cardinality(C) + WriterFlag * Cardinality(F)
  PROVE  /\ w \in Nat
         /\ HasWriter(w) <=> F # {}
         /\ OnlyWriter(w) => C = {}
         /\ w = 0 => C = {} /\ F = {}
         /\ w = OneReader + WriterFlag => \A x, y \in C : x = y
<1> DEFINE c == Cardinality(C)
           f == Cardinality(F)
<1>1. c \in Nat /\ f \in {0, 1} /\ (f = 1 <=> F # {}) /\ (c = 0 <=> C = {})
  BY AtMostOne, FS_CardinalityType, FS_EmptySet DEF Ones
<1>2. HasWriter(w) <=> F # {}
  BY <1>1, FlagBit
<1>3. w = 1 => c = 0
  <2>1. SUFFICES ASSUME w = 1, c >= 1 PROVE FALSE
    BY <1>1
  <2> QED
    BY <1>1, <2>1 DEF OneReader, WriterFlag
<1>4. w = 0 => c = 0 /\ f = 0
  BY <1>1 DEF OneReader, WriterFlag
<1>5. w = 3 => c = 1
  BY <1>1 DEF OneReader, WriterFlag
<1>6. c = 1 => \A x, y \in C : x = y
  <2>1. SUFFICES ASSUME c = 1, NEW x \in C, NEW y \in C, x # y PROVE FALSE
    OBVIOUS
  <2>2. IsFiniteSet(C \ {x}) /\ Cardinality(C \ {x}) = 0
    BY <2>1, FS_RemoveElement
  <2>3. C \ {x} = {}
    BY <2>2, FS_EmptySet
  <2> QED
    BY <2>1, <2>3
<1>7. w \in Nat
  BY <1>1 DEF OneReader, WriterFlag
<1> QED
  BY <1>1, <1>2, <1>3, <1>4, <1>5, <1>6, <1>7 DEF OnlyWriter, OneReader, WriterFlag

-----------------------------------------------------------------------------
(* Lists. *)

\* A list of anything: calls of several shapes, errors whose ids are of no matter.
IsList(list) == \E S : list \in Seq(S)

\* A function on the first numbers is a list.
LEMMA FunctionIsList ==
  ASSUME NEW n \in Nat, NEW f, f = [i \in 1 .. n |-> f[i]]
  PROVE  IsList(f) /\ Len(f) = n /\ DOMAIN f = 1 .. n
<1> DEFINE S == {f[i] : i \in 1 .. n}
<1>1. f \in [1 .. n -> S]
  OBVIOUS
<1> HIDE DEF S
<1>2. f \in Seq(S) /\ Len(f) = n
  BY <1>1
<1> QED
  BY <1>1, <1>2 DEF IsList

\* Two lists in a row.
LEMMA Appended ==
  ASSUME NEW r, IsList(r), NEW s, IsList(s)
  PROVE  /\ IsList(r \o s)
         /\ Len(r) \in Nat /\ Len(s) \in Nat /\ Len(r \o s) = Len(r) + Len(s)
         /\ DOMAIN r = 1 .. Len(r) /\ DOMAIN s = 1 .. Len(s)
         /\ DOMAIN (r \o s) = 1 .. Len(r) + Len(s)
         /\ \A i \in 1 .. Len(r) + Len(s) :
              (r \o s)[i] = IF i <= Len(r) THEN r[i] ELSE s[i - Len(r)]
<1>1. PICK R : r \in Seq(R)
  BY DEF IsList
<1>2. PICK S : s \in Seq(S)
  BY DEF IsList
<1>3. r \in Seq(R \cup S) /\ s \in Seq(R \cup S)
  BY <1>1, <1>2
<1>4. r \o s \in Seq(R \cup S)
  BY <1>3
<1> QED
  BY <1>3, <1>4 DEF IsList

\* The beginning of a list.
LEMMA Shortened ==
  ASSUME NEW s, IsList(s), NEW n \in 0 .. Len(s)
  PROVE  /\ IsList(SubSeq(s, 1, n)) /\ Len(SubSeq(s, 1, n)) = n
         /\ Len(s) \in Nat /\ DOMAIN s = 1 .. Len(s)
         /\ DOMAIN SubSeq(s, 1, n) = 1 .. n
         /\ \A i \in 1 .. n : SubSeq(s, 1, n)[i] = s[i]
<1>1. PICK S : s \in Seq(S)
  BY DEF IsList
<1>2. SubSeq(s, 1, n) \in Seq(S) /\ n \in Nat
  BY <1>1
<1>3. Len(s) \in Nat /\ DOMAIN s = 1 .. Len(s)
  BY <1>1
<1>4. Len(SubSeq(s, 1, n)) = n /\ \A i \in 1 .. n : SubSeq(s, 1, n)[i] = s[i]
  BY <1>1, <1>3
<1> QED
  BY <1>2, <1>3, <1>4 DEF IsList

\* What is taken from the end of a list.
LEMMA Taken ==
  ASSUME NEW s, IsList(s), NEW n \in 0 .. Len(s)
  PROVE  IsList(SubSeq(s, n + 1, Len(s)))
<1>1. PICK S : s \in Seq(S)
  BY DEF IsList
<1>2. SubSeq(s, n + 1, Len(s)) \in Seq(S)
  BY <1>1
<1> QED
  BY <1>2 DEF IsList

\* The list of nothing,
LEMMA EmptyList == IsList(<<>>)
<1>1. <<>> \in Seq({})
  OBVIOUS
<1> QED
  BY <1>1 DEF IsList

\* of one element,
LEMMA SingleList ==
  ASSUME NEW d
  PROVE  IsList(<<d>>)
<1>1. <<d>> \in Seq({d})
  OBVIOUS
<1> QED
  BY <1>1 DEF IsList

\* with one more,
LEMMA LengthenedList ==
  ASSUME NEW s, IsList(s), NEW d
  PROVE  /\ IsList(Append(s, d))
         /\ \A j \in DOMAIN Append(s, d) : (\E k \in DOMAIN s : Append(s, d)[j] = s[k]) \/ Append(s, d)[j] = d
<1>1. PICK S : s \in Seq(S)
  BY DEF IsList
<1>2. s \in Seq(S \cup {d}) /\ Append(s, d) \in Seq(S \cup {d})
  BY <1>1
<1> QED
  BY <1>2 DEF IsList

\* with another one at some place.
LEMMA ChangedList ==
  ASSUME NEW s, IsList(s), NEW i \in DOMAIN s, NEW d
  PROVE  /\ IsList([s EXCEPT ![i] = d])
         /\ \A j \in DOMAIN [s EXCEPT ![i] = d] :
              (\E k \in DOMAIN s : [s EXCEPT ![i] = d][j] = s[k]) \/ [s EXCEPT ![i] = d][j] = d
<1>1. Len(s) \in Nat /\ DOMAIN s = 1 .. Len(s)
  BY DEF IsList
<1> DEFINE r == [s EXCEPT ![i] = d]
<1>2. DOMAIN r = 1 .. Len(s) /\ r = [j \in 1 .. Len(s) |-> r[j]]
  BY <1>1
<1>3. IsList(r)
  <2> HIDE DEF r
  <2> QED
    BY <1>1, <1>2, FunctionIsList
<1> QED
  BY <1>1, <1>3

-----------------------------------------------------------------------------
(* What Only keeps of a list: induction over it, as a set of numbers that   *)
(* has the next one of each of its members.                                *)

\* Induction, for a set of numbers.
LEMMA AllNumbers ==
  ASSUME NEW G \in SUBSET Nat, 0 \in G, \A n \in G : n + 1 \in G
  PROVE  G = Nat
<1>1. SUFFICES ASSUME Nat \ G # {} PROVE FALSE
  OBVIOUS
<1>2. PICK g \in Nat \ G : \A h \in Nat \ G : ~(<<h, g>> \in OpToRel(<, Nat))
  BY <1>1, NatLessThanWellFounded, WFMin
<1>3. g # 0 /\ g \in Nat /\ g \notin G
  BY <1>2
<1>4. g - 1 \in Nat /\ g = (g - 1) + 1
  BY <1>3
<1>5. g - 1 \notin G
  BY <1>3, <1>4
<1>6. <<g - 1, g>> \in OpToRel(<, Nat)
  BY <1>4 DEF OpToRel
<1> QED
  BY <1>2, <1>4, <1>5, <1>6

\* The members of S among the first i of s, given those among fewer.
OnlyStep(s, S, kept, i) ==
  IF i = 0 THEN <<>>
  ELSE IF s[i] \in S THEN Append(kept[i - 1], s[i]) ELSE kept[i - 1]

\* The recursion in Only defines a function.
LEMMA KeptExists ==
  ASSUME NEW s, NEW S, NEW n \in Nat
  PROVE  \E kept : kept = [i \in 0 .. n |-> OnlyStep(s, S, kept, i)]
<1> DEFINE Good(m) == \E kept : kept = [i \in 0 .. m |-> OnlyStep(s, S, kept, i)]
           G == {m \in Nat : Good(m)}
<1>1. 0 \in G
  <2> DEFINE kept == [i \in 0 .. 0 |-> <<>>]
  <2>1. kept = [i \in 0 .. 0 |-> OnlyStep(s, S, kept, i)]
    BY DEF OnlyStep
  <2> QED
    BY <2>1
<1>2. ASSUME NEW m \in G PROVE m + 1 \in G
  <2>1. PICK kept : kept = [i \in 0 .. m |-> OnlyStep(s, S, kept, i)]
    OBVIOUS
  <2> DEFINE more == [i \in 0 .. m + 1 |->
                        IF i = m + 1 THEN OnlyStep(s, S, kept, m + 1) ELSE kept[i]]
  <2>2. \A i \in 0 .. m + 1 : more[i] = OnlyStep(s, S, more, i)
    <3>1. \A i \in 0 .. m : more[i] = kept[i]
      OBVIOUS
    <3>2. \A i \in 0 .. m : kept[i] = OnlyStep(s, S, kept, i)
      BY <2>1
    <3>3. more[m + 1] = OnlyStep(s, S, kept, m + 1)
      OBVIOUS
    <3> HIDE DEF more
    <3>4. ASSUME NEW i \in 0 .. m + 1 PROVE OnlyStep(s, S, more, i) = OnlyStep(s, S, kept, i)
      <4>1. i # 0 => i - 1 \in 0 .. m
        OBVIOUS
      <4> QED
        BY <3>1, <4>1 DEF OnlyStep
    <3> QED
      BY <3>1, <3>2, <3>3, <3>4
  <2>3. more = [i \in 0 .. m + 1 |-> more[i]]
    OBVIOUS
  <2> HIDE DEF more
  <2>4. Good(m + 1)
    BY <2>2, <2>3
  <2> QED
    BY <2>4
<1>3. G = Nat
  <2> HIDE DEF G
  <2> QED
    BY <1>1, <1>2, AllNumbers DEF G
<1> QED
  BY <1>3

\* r is made of the members of s at the places h[1], h[2], and so on, which are
\* those of s's first n places where there is a member of S.
Picks(s, S, n, r, h) ==
  /\ IsList(r) /\ h \in [1 .. Len(r) -> 1 .. n]
  /\ \A k, l \in 1 .. Len(r) : k < l => h[k] < h[l]
  /\ \A k \in 1 .. Len(r) : r[k] = s[h[k]] /\ r[k] \in S
  /\ \A i \in 1 .. n : s[i] \in S => \E k \in 1 .. Len(r) : h[k] = i

\* One more element of the list is looked at.
LEMMA PicksNext ==
  ASSUME NEW s, NEW S, NEW n \in Nat, NEW r, NEW h, Picks(s, S, n, r, h)
  PROVE  \E h2 : Picks(s, S, n + 1, IF s[n + 1] \in S THEN Append(r, s[n + 1]) ELSE r, h2)
<1>1. Len(r) \in Nat
  BY DEF Picks, IsList
<1>2. CASE s[n + 1] \notin S
  <2>1. h \in [1 .. Len(r) -> 1 .. n + 1]
    BY <1>1 DEF Picks
  <2>2. ASSUME NEW i \in 1 .. n + 1, s[i] \in S PROVE \E k \in 1 .. Len(r) : h[k] = i
    <3>1. i \in 1 .. n
      BY <1>2, <2>2
    <3> QED
      BY <2>2, <3>1 DEF Picks
  <2>3. Picks(s, S, n + 1, r, h)
    BY <2>1, <2>2 DEF Picks
  <2> QED
    BY <1>2, <2>3
<1>3. CASE s[n + 1] \in S
  <2> DEFINE r2 == Append(r, s[n + 1])
             m == Len(r)
             h2 == [k \in 1 .. m + 1 |-> IF k = m + 1 THEN n + 1 ELSE h[k]]
  <2>1. PICK X : r \in Seq(X)
    BY DEF Picks, IsList
  <2>2. r \in Seq(X \cup {s[n + 1]}) /\ r2 \in Seq(X \cup {s[n + 1]})
    BY <2>1
  <2>3. /\ IsList(r2) /\ Len(r2) = m + 1 /\ r2[m + 1] = s[n + 1]
        /\ \A k \in 1 .. m : r2[k] = r[k]
    BY <2>2 DEF IsList
  <2>4. /\ h2 \in [1 .. m + 1 -> 1 .. n + 1] /\ h2[m + 1] = n + 1
        /\ \A k \in 1 .. m : h2[k] = h[k] /\ h[k] \in 1 .. n
    BY <1>1 DEF Picks
  <2> HIDE DEF r2, h2
  <2>5. \A k \in 1 .. m + 1 : k \in 1 .. m \/ k = m + 1
    BY <1>1
  <2>6. ASSUME NEW k \in 1 .. m + 1, NEW l \in 1 .. m + 1, k < l PROVE h2[k] < h2[l]
    <3>1. k \in 1 .. m
      BY <1>1, <2>6
    <3>2. CASE l = m + 1
      BY <2>4, <3>1, <3>2
    <3>3. CASE l \in 1 .. m
      BY <2>4, <2>6, <3>1, <3>3 DEF Picks
    <3> QED
      BY <2>5, <3>2, <3>3
  <2>7. \A k \in 1 .. m + 1 : r2[k] = s[h2[k]] /\ r2[k] \in S
    BY <1>3, <2>3, <2>4, <2>5 DEF Picks
  <2>8. ASSUME NEW i \in 1 .. n + 1, s[i] \in S PROVE \E k \in 1 .. m + 1 : h2[k] = i
    <3>1. CASE i = n + 1
      BY <1>1, <2>4, <3>1
    <3>2. CASE i \in 1 .. n
      <4>1. PICK k \in 1 .. m : h[k] = i
        BY <2>8, <3>2 DEF Picks
      <4> QED
        BY <1>1, <2>4, <4>1
    <3> QED
      BY <3>1, <3>2
  <2>9. Picks(s, S, n + 1, r2, h2)
    BY <2>3, <2>4, <2>6, <2>7, <2>8 DEF Picks
  <2> QED
    BY <1>3, <2>9 DEF r2
<1> QED
  BY <1>2, <1>3

\* Only keeps the members of S, in their order and however often they occur.
LEMMA OnlyPicks ==
  ASSUME NEW s, IsList(s), NEW S
  PROVE  \E h : Picks(s, S, Len(s), Only(s, S), h)
<1> DEFINE n == Len(s)
           kept == CHOOSE kept : kept = [i \in 0 .. n |-> OnlyStep(s, S, kept, i)]
<1>1. n \in Nat
  BY DEF IsList
<1>2. kept = [i \in 0 .. n |-> OnlyStep(s, S, kept, i)]
  BY <1>1, KeptExists
<1>3. Only(s, S) = kept[n]
  BY DEF Only, OnlyStep
<1> HIDE DEF kept
<1> DEFINE Good(m) == m <= n => \E h : Picks(s, S, m, kept[m], h)
           G == {m \in Nat : Good(m)}
<1>4. 0 \in G
  <2>1. kept[0] = <<>>
    BY <1>1, <1>2 DEF OnlyStep
  <2>2. Picks(s, S, 0, <<>>, <<>>)
    BY EmptyList DEF Picks
  <2> QED
    BY <2>1, <2>2
<1>5. ASSUME NEW m \in G PROVE m + 1 \in G
  <2>1. SUFFICES ASSUME m + 1 <= n PROVE \E h : Picks(s, S, m + 1, kept[m + 1], h)
    OBVIOUS
  <2>2. PICK h : Picks(s, S, m, kept[m], h)
    BY <1>1, <2>1
  <2>3. kept[m + 1] = IF s[m + 1] \in S THEN Append(kept[m], s[m + 1]) ELSE kept[m]
    <3>1. m + 1 \in 0 .. n /\ m + 1 # 0 /\ (m + 1) - 1 = m
      BY <1>1, <2>1
    <3>2. kept[m + 1] = OnlyStep(s, S, kept, m + 1)
      BY <1>2, <3>1
    <3> QED
      BY <3>1, <3>2 DEF OnlyStep
  <2> QED
    BY <2>2, <2>3, PicksNext
<1>6. G = Nat
  <2> HIDE DEF G
  <2> QED
    BY <1>4, <1>5, AllNumbers DEF G
<1>7. Good(n)
  BY <1>1, <1>6
<1> QED
  BY <1>1, <1>3, <1>7

\* The same, without the places.
LEMMA OnlyMembers ==
  ASSUME NEW X, NEW s \in Seq(X), NEW S
  PROVE  /\ Only(s, S) \in Seq(X \cap S)
         /\ \A k \in DOMAIN Only(s, S) : \E i \in DOMAIN s : Only(s, S)[k] = s[i]
         /\ \A i \in DOMAIN s : s[i] \in S => \E k \in DOMAIN Only(s, S) : Only(s, S)[k] = s[i]
         /\ (\A i, j \in DOMAIN s : s[i] = s[j] => i = j) =>
              \A k, l \in DOMAIN Only(s, S) : Only(s, S)[k] = Only(s, S)[l] => k = l
<1> DEFINE r == Only(s, S)
           n == Len(s)
<1>1. IsList(s) /\ n \in Nat /\ DOMAIN s = 1 .. n /\ \A i \in 1 .. n : s[i] \in X
  BY DEF IsList
<1>2. PICK h : Picks(s, S, n, r, h)
  BY <1>1, OnlyPicks
<1> HIDE DEF r
<1>3. Len(r) \in Nat /\ DOMAIN r = 1 .. Len(r) /\ r = [k \in 1 .. Len(r) |-> r[k]]
  BY <1>2 DEF Picks, IsList
<1>4. \A k \in 1 .. Len(r) : h[k] \in 1 .. n /\ r[k] = s[h[k]] /\ r[k] \in X \cap S
  BY <1>1, <1>2 DEF Picks
<1>5. r \in Seq(X \cap S)
  BY <1>3, <1>4
<1>6. \A k \in DOMAIN r : \E i \in DOMAIN s : r[k] = s[i]
  BY <1>1, <1>3, <1>4
<1>7. \A i \in DOMAIN s : s[i] \in S => \E k \in DOMAIN r : r[k] = s[i]
  BY <1>1, <1>2, <1>3 DEF Picks
<1>8. ASSUME \A i, j \in DOMAIN s : s[i] = s[j] => i = j,
             NEW k \in DOMAIN r, NEW l \in DOMAIN r, r[k] = r[l]
      PROVE  k = l
  <2>1. h[k] = h[l]
    BY <1>1, <1>3, <1>4, <1>8
  <2>2. ~(k < l) /\ ~(l < k)
    BY <1>2, <1>3, <1>4, <2>1 DEF Picks
  <2> QED
    BY <1>3, <2>2
<1> QED
  BY <1>5, <1>6, <1>7, <1>8 DEF r
=============================================================================
