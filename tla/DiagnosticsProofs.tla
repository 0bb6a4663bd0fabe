-------------------------- MODULE DiagnosticsProofs --------------------------
(***************************************************************************)
(* Proofs about TfDiagnosticMgr, for any threads, delegates and bounds:    *)
(* what an error mark finds is what has joined its thread's list since it  *)
(* was set; a diagnostic is in one place until it is reported, handled or  *)
(* dropped; and until then a crash log would have it.                      *)
(*                                                                         *)
(* Serial numbers carry the proof about marks.  A thread's list ascends,   *)
(* its numbers are below _nextSerial, and a mark divides the list: the     *)
(* errors in front of it have smaller numbers, the others do not.  Whoever *)
(* appends, appends numbers from _nextSerial on, which no mark exceeds;    *)
(* whoever removes, removes the end of a list.                             *)
(*                                                                         *)
(* Places are shelves: one for each list, report, trap and transport.  The *)
(* ids that are open are sorted on them, each on one and there once, and a *)
(* step moves some from one shelf to another, takes some away or puts one  *)
(* down.  The traps' text is rebuilt from the trap on that has changed,    *)
(* whose logStart is the length of what the traps below it contain.  What  *)
(* a call has yet to report is still under the text of where it came from, *)
(* which only that call clears.                                            *)
(***************************************************************************)
EXTENDS Diagnostics, Lemmas, SequenceTheorems

\* What is left of a list when one element goes.
LEMMA Removed ==
  ASSUME NEW s, IsList(s), NEW i \in DOMAIN s
  PROVE  /\ IsList(RemoveAt(s, i))
         /\ \A j \in DOMAIN RemoveAt(s, i) : \E k \in DOMAIN s : RemoveAt(s, i)[j] = s[k]
<1>1. PICK S : s \in Seq(S)
  BY DEF IsList
<1> DEFINE head == SubSeq(s, 1, i - 1)
           tail == SubSeq(s, i + 1, Len(s))
           R == {s[k] : k \in DOMAIN s}
<1>2. s \in Seq(R) /\ DOMAIN s = 1 .. Len(s) /\ Len(s) \in Nat
  BY <1>1
<1>3. head \in Seq(R) /\ tail \in Seq(R)
  <2> HIDE DEF R
  <2> QED
    BY <1>2
<1>4. RemoveAt(s, i) \in Seq(R)
  <2> HIDE DEF R
  <2> QED
    BY <1>3 DEF RemoveAt
<1>5. \A j \in DOMAIN RemoveAt(s, i) : RemoveAt(s, i)[j] \in R
  <2> HIDE DEF R
  <2> QED
    BY <1>4
<1> QED
  BY <1>4, <1>5 DEF IsList

-----------------------------------------------------------------------------
(* Serial numbers. *)

Ascending(list, next) ==
  /\ IsList(list)
  /\ \A i \in DOMAIN list : list[i].serial \in Nat /\ list[i].serial < next
  /\ \A i, j \in DOMAIN list : i < j => list[i].serial < list[j].serial

\* The mark m divides the list where it says.
Divides(m, list, next) ==
  /\ m = [mark |-> m.mark, before |-> m.before]
  /\ m.mark \in Nat /\ m.mark <= next
  /\ m.before \in 0 .. Len(list)
  /\ \A j \in DOMAIN list : j <= m.before <=> list[j].serial < m.mark

\* A mark that divides an ascending list is found where the errors before it end.
LEMMA DividesWhereFound ==
  ASSUME nextSerial \in Nat, NEW list, Ascending(list, nextSerial),
         NEW m, Divides(m, list, nextSerial)
  PROVE  /\ Preceding(list, m.mark) = m.before
         /\ m.before \in 0 .. Len(list)
         /\ (m.mark >= nextSerial \/ list = <<>> \/ Last(list).serial < m.mark)
              <=> m.before = Len(list)
<1>1. Len(list) \in Nat /\ DOMAIN list = 1 .. Len(list) /\ (list = <<>> <=> Len(list) = 0)
  BY DEF Ascending, IsList
<1>2. m.mark >= nextSerial => m.before = Len(list)
  <2>1. \A i \in DOMAIN list : list[i].serial \in Nat /\ list[i].serial < nextSerial
    BY DEF Ascending
  <2>2. /\ m.mark \in Nat /\ m.before \in 0 .. Len(list)
        /\ \A j \in DOMAIN list : j <= m.before <=> list[j].serial < m.mark
    BY DEF Divides
  <2>3. ASSUME m.mark >= nextSerial, Len(list) # 0 PROVE m.before = Len(list)
    <3>1. Len(list) \in DOMAIN list
      BY <1>1, <2>3
    <3>2. list[Len(list)].serial < m.mark
      BY <2>1, <2>2, <2>3, <3>1
    <3>3. Len(list) <= m.before
      BY <2>2, <3>1, <3>2
    <3> QED
      BY <1>1, <2>2, <3>3
  <2> QED
    BY <1>1, <2>2, <2>3
<1> DEFINE I == {i \in 1 .. Len(list) : list[i].serial < m.mark}
<1>3. I = 1 .. m.before
  BY <1>1 DEF Divides
<1>4. m.before # 0 => Max(I) = m.before
  <2>1. m.before # 0 => m.before \in I /\ \A i \in I : m.before >= i
    BY <1>3 DEF Divides
  <2>2. \A x, y \in I : x >= y /\ y >= x => x = y
    BY <1>1
  <2> HIDE DEF I
  <2> QED
    BY <2>1, <2>2 DEF Max
<1>5. SelectLastInSeq(list, LAMBDA e : e.serial < m.mark) = m.before
  <2>1. SelectLastInSeq(list, LAMBDA e : e.serial < m.mark) = IF I # {} THEN Max(I) ELSE 0
    BY DEF SelectLastInSeq
  <2>2. I = {} <=> m.before = 0
    BY <1>3 DEF Divides
  <2> HIDE DEF I
  <2> QED
    BY <1>4, <2>1, <2>2
<1>6. Last(list).serial < m.mark /\ list # <<>> <=> m.before = Len(list) /\ list # <<>>
  BY <1>1 DEF Divides, Last
<1> QED
  BY <1>1, <1>2, <1>5, <1>6 DEF Preceding, Divides

\* New errors are numbered from _nextSerial on.
LEMMA AddedAscend ==
  ASSUME nextSerial \in Nat, NEW list, Ascending(list, nextSerial), NEW new, IsList(new)
  PROVE  /\ nextSerial + Len(new) \in Nat /\ nextSerial <= nextSerial + Len(new)
         /\ Ascending(list \o Reserialized(new), nextSerial + Len(new))
         /\ Len(list) \in Nat /\ Len(list) <= Len(list \o Reserialized(new))
         /\ \A j \in DOMAIN (list \o Reserialized(new)) :
              (list \o Reserialized(new))[j].serial >= nextSerial
                \/ \E i \in DOMAIN list : list[i] = (list \o Reserialized(new))[j]
         /\ \A m : Divides(m, list, nextSerial) =>
              Divides(m, list \o Reserialized(new), nextSerial + Len(new))
<1> DEFINE more == Reserialized(new)
           k == Len(new)
<1>1. k \in Nat /\ DOMAIN new = 1 .. k
  BY DEF IsList
<1>2. /\ IsList(more) /\ Len(more) = k
      /\ \A i \in 1 .. k : more[i].serial = nextSerial + i - 1
  <2>1. more = [i \in 1 .. k |-> [id |-> new[i].id, serial |-> nextSerial + i - 1]]
    BY <1>1 DEF Reserialized
  <2> HIDE DEF more, k
  <2> QED
    BY <1>1, <2>1, FunctionIsList
<1> DEFINE all == list \o more
<1>3. /\ IsList(all) /\ Len(list) \in Nat /\ DOMAIN list = 1 .. Len(list)
      /\ Len(all) = Len(list) + k /\ DOMAIN all = 1 .. Len(list) + k
      /\ \A i \in 1 .. Len(list) + k : all[i] = IF i <= Len(list) THEN list[i] ELSE more[i - Len(list)]
  <2>1. IsList(list)
    BY DEF Ascending
  <2>2. IsList(more) /\ Len(more) = k
    BY <1>2
  <2> HIDE DEF more, k
  <2> QED
    BY <2>1, <2>2, Appended
<1> HIDE DEF more, all, k
<1>4. \A i \in DOMAIN all :
        \/ i \in DOMAIN list /\ all[i] = list[i]
        \/ i > Len(list) /\ all[i].serial = nextSerial + (i - Len(list)) - 1
  <2> TAKE i \in DOMAIN all
  <2>1. i \in 1 .. Len(list) + k
    BY <1>3
  <2>2. CASE i <= Len(list)
    BY <1>1, <1>3, <2>1, <2>2
  <2>3. CASE i > Len(list)
    <3>1. i - Len(list) \in 1 .. k
      BY <1>1, <1>3, <2>1, <2>3
    <3>2. all[i] = more[i - Len(list)]
      BY <1>1, <1>3, <2>1, <2>3
    <3> QED
      BY <1>2, <2>3, <3>1, <3>2
  <2> QED
    BY <1>1, <1>3, <2>1, <2>2, <2>3
<1>5. Ascending(all, nextSerial + k)
  <2>1. \A i \in DOMAIN all : all[i].serial \in Nat /\ all[i].serial < nextSerial + k
    BY <1>1, <1>3, <1>4 DEF Ascending
  <2>2. ASSUME NEW i \in DOMAIN all, NEW j \in DOMAIN all, i < j
        PROVE  all[i].serial < all[j].serial
    BY <1>1, <1>3, <1>4, <2>2 DEF Ascending
  <2> QED
    BY <1>3, <2>1, <2>2 DEF Ascending
<1>6. ASSUME NEW m, Divides(m, list, nextSerial) PROVE Divides(m, all, nextSerial + k)
  BY <1>1, <1>3, <1>4, <1>6 DEF Divides
<1>7. \A j \in DOMAIN all : all[j].serial >= nextSerial \/ \E i \in DOMAIN list : list[i] = all[j]
  BY <1>1, <1>3, <1>4
<1> QED
  BY <1>1, <1>3, <1>5, <1>6, <1>7 DEF all, more, k

\* A list that loses its end, and what becomes of its marks.
LEMMA KeptAscend ==
  ASSUME nextSerial \in Nat, NEW list, Ascending(list, nextSerial), NEW n \in 0 .. Len(list)
  PROVE  /\ Ascending(SubSeq(list, 1, n), nextSerial)
         /\ \A j \in DOMAIN SubSeq(list, 1, n) : \E i \in DOMAIN list : list[i] = SubSeq(list, 1, n)[j]
         /\ \A m : Divides(m, list, nextSerial) =>
              Divides([m EXCEPT !.before = Min({@, n})], SubSeq(list, 1, n), nextSerial)
<1> DEFINE kept == SubSeq(list, 1, n)
<1>1. /\ IsList(kept) /\ Len(kept) = n /\ DOMAIN kept = 1 .. n
      /\ Len(list) \in Nat /\ DOMAIN list = 1 .. Len(list)
      /\ \A i \in 1 .. n : kept[i] = list[i]
  BY Shortened DEF Ascending
<1> HIDE DEF kept
<1>2. Ascending(kept, nextSerial)
  BY <1>1 DEF Ascending
<1>3. ASSUME NEW m, Divides(m, list, nextSerial)
      PROVE  Divides([m EXCEPT !.before = Min({@, n})], kept, nextSerial)
  <2>1. m.before \in Nat /\ n \in Nat
    BY <1>1, <1>3 DEF Divides
  <2>2. Min({m.before, n}) = IF m.before <= n THEN m.before ELSE n
    BY <2>1 DEF Min
  <2>3. [m EXCEPT !.before = Min({@, n})] = [mark |-> m.mark, before |-> Min({m.before, n})]
    BY <1>3 DEF Divides
  <2> DEFINE b == Min({m.before, n})
  <2>4. b = IF m.before <= n THEN m.before ELSE n
    BY <2>2
  <2> HIDE DEF b
  <2>5. b \in 0 .. n /\ \A j \in 1 .. n : j <= b <=> j <= m.before
    BY <2>1, <2>4
  <2>6. \A j \in 1 .. n : j \in DOMAIN list /\ kept[j] = list[j]
    BY <1>1
  <2>7. \A j \in DOMAIN kept : j <= b <=> kept[j].serial < m.mark
    BY <1>1, <1>3, <2>5, <2>6 DEF Divides
  <2>8. Divides([mark |-> m.mark, before |-> b], kept, nextSerial)
    BY <1>1, <1>3, <2>5, <2>7 DEF Divides
  <2> QED
    BY <2>3, <2>8 DEF b
<1>4. \A j \in DOMAIN kept : \E i \in DOMAIN list : list[i] = kept[j]
  BY <1>1
<1> QED
  BY <1>2, <1>3, <1>4 DEF kept

-----------------------------------------------------------------------------
(* The text for the crash log. *)

\* The identities of a list of errors, one for one.
LEMMA IdsAreAList ==
  ASSUME NEW list, IsList(list)
  PROVE  /\ IsList(IdsOf(list)) /\ Len(IdsOf(list)) = Len(list)
         /\ DOMAIN IdsOf(list) = 1 .. Len(list)
         /\ \A i \in 1 .. Len(list) : IdsOf(list)[i] = list[i].id
<1>1. Len(list) \in Nat /\ DOMAIN list = 1 .. Len(list)
  BY DEF IsList
<1>2. IdsOf(list) = [i \in 1 .. Len(list) |-> list[i].id]
  BY <1>1 DEF IdsOf
<1> QED
  BY <1>1, <1>2, FunctionIsList

LEMMA ReissuedIsAList ==
  ASSUME NEW list, IsList(list)
  PROVE  /\ IsList(Reissued(list)) /\ Len(Reissued(list)) = Len(list)
         /\ DOMAIN Reissued(list) = 1 .. Len(list)
         /\ \A i \in 1 .. Len(list) :
              Reissued(list)[i] = [id |-> issued + i, serial |-> list[i].serial]
<1>1. Len(list) \in Nat /\ DOMAIN list = 1 .. Len(list)
  BY DEF IsList
<1>2. Reissued(list) = [i \in 1 .. Len(list) |-> [id |-> issued + i, serial |-> list[i].serial]]
  BY <1>1 DEF Reissued
<1> QED
  BY <1>1, <1>2, FunctionIsList

\* Lists with the same elements are the same.
LEMMA SameList ==
  ASSUME NEW r, IsList(r), NEW s, IsList(s), Len(r) = Len(s), \A i \in 1 .. Len(r) : r[i] = s[i]
  PROVE  r = s
<1>1. PICK R : r \in Seq(R)
  BY DEF IsList
<1>2. PICK S : s \in Seq(S)
  BY DEF IsList
<1>3. r \in Seq(R \cup S) /\ s \in Seq(R \cup S)
  BY <1>1, <1>2
<1> QED
  BY <1>3

\* The text of two lists is the text of one and then of the other.
LEMMA IdsAdded ==
  ASSUME NEW r, IsList(r), NEW s, IsList(s)
  PROVE  IdsOf(r \o s) = IdsOf(r) \o IdsOf(s)
<1>1. /\ IsList(r \o s) /\ Len(r) \in Nat /\ Len(s) \in Nat /\ Len(r \o s) = Len(r) + Len(s)
      /\ \A i \in 1 .. Len(r) + Len(s) :
           (r \o s)[i] = IF i <= Len(r) THEN r[i] ELSE s[i - Len(r)]
  BY Appended
<1>2. /\ IsList(IdsOf(r \o s)) /\ Len(IdsOf(r \o s)) = Len(r \o s)
      /\ \A i \in 1 .. Len(r \o s) : IdsOf(r \o s)[i] = (r \o s)[i].id
  BY <1>1, IdsAreAList
<1> DEFINE a == IdsOf(r)
           b == IdsOf(s)
<1>3. /\ IsList(a) /\ Len(a) = Len(r) /\ \A i \in 1 .. Len(r) : a[i] = r[i].id
      /\ IsList(b) /\ Len(b) = Len(s) /\ \A i \in 1 .. Len(s) : b[i] = s[i].id
  BY IdsAreAList
<1> HIDE DEF a, b
<1>4. /\ IsList(a \o b) /\ Len(a \o b) = Len(r) + Len(s)
      /\ \A i \in 1 .. Len(r) + Len(s) :
           (a \o b)[i] = IF i <= Len(r) THEN a[i] ELSE b[i - Len(r)]
  <2>1. /\ IsList(a \o b) /\ Len(a \o b) = Len(a) + Len(b)
        /\ \A i \in 1 .. Len(a) + Len(b) :
             (a \o b)[i] = IF i <= Len(a) THEN a[i] ELSE b[i - Len(a)]
    BY <1>3, Appended
  <2> QED
    BY <1>3, <2>1
<1>5. ASSUME NEW i \in 1 .. Len(r) + Len(s) PROVE IdsOf(r \o s)[i] = (a \o b)[i]
  <2>1. CASE i <= Len(r)
    BY <1>1, <1>2, <1>3, <1>4, <2>1
  <2>2. CASE i > Len(r)
    <3>1. i - Len(r) \in 1 .. Len(s)
      BY <1>1, <2>2
    <3>2. (r \o s)[i] = s[i - Len(r)] /\ (a \o b)[i] = b[i - Len(r)]
      BY <1>1, <1>4, <2>2
    <3> QED
      BY <1>1, <1>2, <1>3, <3>1, <3>2
  <2>3. i <= Len(r) \/ i > Len(r)
    BY <1>1
  <2> QED
    BY <2>1, <2>2, <2>3
<1>6. IdsOf(r \o s) = a \o b
  <2>1. Len(IdsOf(r \o s)) = Len(a \o b)
    BY <1>1, <1>2, <1>4
  <2>2. \A i \in 1 .. Len(IdsOf(r \o s)) : IdsOf(r \o s)[i] = (a \o b)[i]
    BY <1>1, <1>2, <1>5
  <2> QED
    BY <1>2, <1>4, <2>1, <2>2, SameList
<1> QED
  BY <1>6 DEF a, b

\* The search from the end stays in the list.
LEMMA PrecedingBound ==
  ASSUME NEW list, IsList(list), NEW serial
  PROVE  Preceding(list, serial) \in 0 .. Len(list)
<1>1. Len(list) \in Nat
  BY DEF IsList
<1> DEFINE I == {i \in 1 .. Len(list) : list[i].serial < serial}
<1>2. SelectLastInSeq(list, LAMBDA e : e.serial < serial) = IF I # {} THEN Max(I) ELSE 0
  BY DEF SelectLastInSeq
<1>3. I # {} => Max(I) \in I
  <2> SUFFICES ASSUME I # {} PROVE \E x \in I : \A y \in I : x >= y
    BY DEF Max
  <2> DEFINE id == [i \in Nat |-> i]
  <2>1. id \in [Nat -> Nat] /\ I \in SUBSET Nat /\ \A i \in I : id[i] <= Len(list)
    BY <1>1
  <2> HIDE DEF I
  <2>2. \E x \in I : \A y \in I : id[y] <= id[x]
    <3> HIDE DEF id
    <3> QED
      BY <1>1, <2>1, Highest
  <2> QED
    BY <2>1, <2>2
<1>4. I # {} => Max(I) \in 1 .. Len(list)
  BY <1>3
<1> HIDE DEF I
<1> QED
  BY <1>1, <1>2, <1>4 DEF Preceding

\* The partial rebuild of the text is right, wherever it begins.
LEMMA RebuiltIsRight ==
  ASSUME NEW list, IsList(list), NEW n \in 0 .. Len(list), NEW serial
  PROVE  RebuiltPending(IdsOf(list), SubSeq(list, 1, n), serial) = IdsOf(SubSeq(list, 1, n))
<1> DEFINE kept == SubSeq(list, 1, n)
           log == IdsOf(list)
           v == Preceding(kept, serial)
           a == SubSeq(log, 1, Min({v, Len(log)}))
           b == IdsOf(SubSeq(kept, v + 1, Len(kept)))
<1>1. /\ IsList(kept) /\ Len(kept) = n /\ Len(list) \in Nat /\ n \in Nat
      /\ \A i \in 1 .. n : kept[i] = list[i]
  BY Shortened
<1>2. IsList(log) /\ Len(log) = Len(list) /\ \A i \in 1 .. Len(list) : log[i] = list[i].id
  BY IdsAreAList
<1>3. v \in 0 .. n
  <2> HIDE DEF kept
  <2> QED
    BY <1>1, PrecedingBound
<1>4. Min({v, Len(log)}) = v
  <2>1. v \in Nat /\ Len(log) \in Nat /\ v <= Len(log)
    BY <1>1, <1>2, <1>3
  <2> HIDE DEF v, log
  <2> QED
    BY <2>1 DEF Min
<1>5. IsList(a) /\ Len(a) = v /\ \A i \in 1 .. v : a[i] = log[i]
  <2>1. a = SubSeq(log, 1, v)
    BY <1>4
  <2>2. v \in 0 .. Len(log)
    <3> HIDE DEF v, log
    <3> QED
      BY <1>1, <1>2, <1>3
  <2> HIDE DEF v, log, a
  <2> QED
    BY <1>2, <2>1, <2>2, Shortened
<1>6. IsList(b) /\ Len(b) = n - v /\ \A i \in 1 .. n - v : b[i] = kept[v + i].id
  <2> HIDE DEF v, kept
  <2> DEFINE rest == SubSeq(kept, v + 1, Len(kept))
  <2>1. IsList(rest) /\ Len(rest) = n - v /\ \A i \in 1 .. n - v : rest[i] = kept[v + i]
    <3>1. PICK S : kept \in Seq(S)
      BY <1>1 DEF IsList
    <3>2. rest \in Seq(S) /\ Len(rest) = n - v /\ \A i \in 1 .. n - v : rest[i] = kept[v + i]
      BY <1>1, <1>3, <3>1
    <3> QED
      BY <3>2 DEF IsList
  <2> HIDE DEF rest
  <2>2. IsList(IdsOf(rest)) /\ Len(IdsOf(rest)) = Len(rest) /\ \A i \in 1 .. Len(rest) : IdsOf(rest)[i] = rest[i].id
    BY <2>1, IdsAreAList
  <2> QED
    BY <2>1, <2>2 DEF rest
<1> HIDE DEF kept, log, v, a, b
<1>7. /\ IsList(a \o b) /\ Len(a \o b) = n
      /\ \A i \in 1 .. n : (a \o b)[i] = IF i <= v THEN a[i] ELSE b[i - v]
  <2>1. /\ IsList(a \o b) /\ Len(a \o b) = Len(a) + Len(b)
        /\ \A i \in 1 .. Len(a) + Len(b) :
             (a \o b)[i] = IF i <= Len(a) THEN a[i] ELSE b[i - Len(a)]
    BY <1>5, <1>6, Appended
  <2>2. Len(a) + Len(b) = n
    BY <1>1, <1>3, <1>5, <1>6
  <2> QED
    BY <1>5, <2>1, <2>2
<1>8. IsList(IdsOf(kept)) /\ Len(IdsOf(kept)) = n /\ \A i \in 1 .. n : IdsOf(kept)[i] = kept[i].id
  BY <1>1, IdsAreAList
<1>9. ASSUME NEW i \in 1 .. n PROVE (a \o b)[i] = IdsOf(kept)[i]
  <2>1. CASE i <= v
    BY <1>1, <1>2, <1>3, <1>5, <1>7, <1>8, <2>1
  <2>2. CASE i > v
    <3>1. i - v \in 1 .. n - v /\ v + (i - v) = i
      BY <1>1, <1>3, <2>2
    <3>2. (a \o b)[i] = b[i - v]
      BY <1>1, <1>3, <1>7, <2>2
    <3>3. b[i - v] = kept[i].id
      BY <1>6, <3>1
    <3> QED
      BY <1>8, <3>2, <3>3
  <2>3. i <= v \/ i > v
    BY <1>1, <1>3
  <2> QED
    BY <2>1, <2>2, <2>3
<1>10. a \o b = IdsOf(kept)
  BY <1>7, <1>8, <1>9, SameList
<1> QED
  BY <1>10 DEF RebuiltPending, a, b, v, log, kept

-----------------------------------------------------------------------------
(* The inductive invariant. *)

\* The errors of t, the marks that divide them and their text.
ThreadOK(t) ==
  /\ Ascending(errors[t], nextSerial)
  /\ IsList(marks[t]) /\ \A i \in DOMAIN marks[t] : Divides(marks[t][i], errors[t], nextSerial)
  /\ pendingLog[t] = IdsOf(errors[t])

Apart(t, u) ==
  \A i \in DOMAIN errors[t], j \in DOMAIN errors[u] : errors[t][i].serial # errors[u][j].serial

ListsOK ==
  /\ nextSerial \in Nat
  /\ DOMAIN errors = Threads /\ DOMAIN marks = Threads /\ DOMAIN pendingLog = Threads
  /\ \A t \in Threads : ThreadOK(t)
  /\ \A t, u \in Threads : t # u => Apart(t, u)

\* The destructor of the last mark will erase errors that are there.
WorkOK ==
  /\ DOMAIN work = Threads
  /\ \A t \in Threads :
       /\ work[t] = [of |-> work[t].of, todo |-> work[t].todo, locked |-> work[t].locked,
                     rest |-> work[t].rest, before |-> work[t].before]
       /\ work[t].of = "Mark" => work[t].before \in Nat /\ work[t].before < Len(errors[t])

TransportOK ==
  /\ errorTransport = [list |-> errorTransport.list, pin |-> errorTransport.pin]
  /\ IsList(errorTransport.list)

IInv == ListsOK /\ WorkOK /\ TransportOK

-----------------------------------------------------------------------------
(* Its steps. *)

\* Appending errors with new numbers keeps the lists in order and every mark right.
LEMMA AddStep ==
  ASSUME ListsOK, NEW t \in Threads, NEW new, IsList(new), AddErrors(t, new), UNCHANGED marks
  PROVE  /\ ListsOK'
         /\ \A u \in Threads : Len(errors[u]) \in Nat /\ Len(errors'[u]) \in Nat
                                /\ Len(errors[u]) <= Len(errors'[u])
<1> DEFINE all == errors[t] \o Reserialized(new)
           next == nextSerial + Len(new)
<1>1. /\ nextSerial' = next /\ DOMAIN errors' = Threads /\ DOMAIN pendingLog' = Threads
      /\ errors'[t] = all /\ \A u \in Threads \ {t} : errors'[u] = errors[u]
      /\ pendingLog'[t] = pendingLog[t] \o IdsOf(new)
      /\ \A u \in Threads \ {t} : pendingLog'[u] = pendingLog[u]
  BY DEF AddErrors, ListsOK
<1>2. /\ next \in Nat /\ nextSerial \in Nat /\ nextSerial <= next
      /\ Ascending(all, next)
      /\ Len(errors[t]) \in Nat /\ Len(errors[t]) <= Len(all)
      /\ \A j \in DOMAIN all : all[j].serial >= nextSerial \/ \E i \in DOMAIN errors[t] : errors[t][i] = all[j]
      /\ \A m : Divides(m, errors[t], nextSerial) => Divides(m, all, next)
  BY AddedAscend DEF ListsOK, ThreadOK
<1>3. IdsOf(all) = pendingLog[t] \o IdsOf(new)
  <2>1. IsList(errors[t]) /\ pendingLog[t] = IdsOf(errors[t])
    BY DEF ListsOK, ThreadOK, Ascending
  <2>2. IsList(Reserialized(new)) /\ IdsOf(Reserialized(new)) = IdsOf(new)
    <3>1. Len(new) \in Nat /\ DOMAIN new = 1 .. Len(new)
      BY DEF IsList
    <3>2. Reserialized(new) = [i \in 1 .. Len(new) |-> [id |-> new[i].id, serial |-> nextSerial + i - 1]]
      BY <3>1 DEF Reserialized
    <3>3. IsList(Reserialized(new)) /\ DOMAIN Reserialized(new) = 1 .. Len(new)
      BY <3>1, <3>2, FunctionIsList
    <3>4. \A i \in 1 .. Len(new) : Reserialized(new)[i].id = new[i].id
      BY <3>2
    <3> QED
      BY <3>1, <3>3, <3>4 DEF IdsOf
  <2>3. IdsOf(errors[t] \o Reserialized(new)) = IdsOf(errors[t]) \o IdsOf(Reserialized(new))
    BY <2>1, <2>2, IdsAdded
  <2> QED
    BY <2>1, <2>2, <2>3
<1> HIDE DEF all, next
<1>4. ASSUME NEW u \in Threads PROVE ThreadOK(u)'
  <2>1. CASE u = t
    BY <1>1, <1>2, <1>3, <2>1 DEF ListsOK, ThreadOK
  <2>2. CASE u # t
    <3>1. ThreadOK(u) /\ errors'[u] = errors[u] /\ pendingLog'[u] = pendingLog[u]
      BY <1>1, <2>2 DEF ListsOK
    <3>2. Ascending(errors[u], next)
      BY <1>2, <3>1 DEF ThreadOK, Ascending
    <3>3. \A i \in DOMAIN marks[u] : Divides(marks[u][i], errors[u], next)
      BY <1>2, <3>1 DEF ThreadOK, Divides
    <3> QED
      BY <1>1, <3>1, <3>2, <3>3 DEF ThreadOK
  <2> QED
    BY <2>1, <2>2
<1>5. ASSUME NEW u \in Threads, NEW v \in Threads, u # v PROVE Apart(u, v)'
  <2>1. Apart(u, v) /\ Apart(v, u)
    BY <1>5 DEF ListsOK, Apart
  <2>2. \A w \in Threads : \A i \in DOMAIN errors[w] : errors[w][i].serial < nextSerial /\ errors[w][i].serial \in Nat
    BY DEF ListsOK, ThreadOK, Ascending
  <2>3. CASE u # t /\ v # t
    BY <1>1, <2>1, <2>3 DEF Apart
  <2>4. ASSUME NEW w \in Threads, w # t, Apart(t, w),
               NEW i \in DOMAIN all, NEW j \in DOMAIN errors[w]
        PROVE  all[i].serial # errors[w][j].serial
    BY <1>2, <2>2, <2>4 DEF Apart
  <2>5. CASE u = t
    BY <1>1, <1>5, <2>1, <2>4, <2>5 DEF Apart
  <2>6. CASE v = t
    BY <1>1, <1>5, <2>1, <2>4, <2>6 DEF Apart
  <2> QED
    BY <2>3, <2>5, <2>6
<1>6. ASSUME NEW u \in Threads
      PROVE  Len(errors[u]) \in Nat /\ Len(errors'[u]) \in Nat /\ Len(errors[u]) <= Len(errors'[u])
  <2>1. Len(errors[u]) \in Nat /\ Len(errors'[u]) \in Nat
    BY <1>4 DEF ListsOK, ThreadOK, Ascending, IsList
  <2> QED
    BY <1>1, <1>2, <2>1
<1> QED
  BY <1>1, <1>2, <1>4, <1>5, <1>6 DEF ListsOK

\* Errors leave a list: those that a mark finds, or that the last mark reported.
LEMMA RemoveStep ==
  ASSUME ListsOK, NEW t \in Threads, NEW n \in 0 .. Len(errors[t]), NEW serial,
         UNCHANGED nextSerial,
         errors' = [errors EXCEPT ![t] = SubSeq(errors[t], 1, n)],
         pendingLog' = [pendingLog EXCEPT
           ![t] = RebuiltPending(pendingLog[t], SubSeq(errors[t], 1, n), serial)],
         marks' = [marks EXCEPT ![t] = CutTo(n, marks[t])]
  PROVE  ListsOK' /\ \A u \in Threads \ {t} : errors'[u] = errors[u]
<1> DEFINE kept == SubSeq(errors[t], 1, n)
           ms == CutTo(n, marks[t])
<1>1. /\ DOMAIN errors' = Threads /\ DOMAIN pendingLog' = Threads /\ DOMAIN marks' = Threads
      /\ errors'[t] = kept /\ \A u \in Threads \ {t} : errors'[u] = errors[u]
      /\ pendingLog'[t] = RebuiltPending(pendingLog[t], kept, serial)
      /\ \A u \in Threads \ {t} : pendingLog'[u] = pendingLog[u]
      /\ marks'[t] = ms /\ \A u \in Threads \ {t} : marks'[u] = marks[u]
  BY DEF ListsOK
<1>2. /\ nextSerial \in Nat /\ Ascending(kept, nextSerial)
      /\ \A j \in DOMAIN kept : \E i \in DOMAIN errors[t] : errors[t][i] = kept[j]
      /\ \A m : Divides(m, errors[t], nextSerial) =>
           Divides([m EXCEPT !.before = Min({@, n})], kept, nextSerial)
  BY KeptAscend DEF ListsOK, ThreadOK
<1>3. RebuiltPending(pendingLog[t], kept, serial) = IdsOf(kept)
  BY RebuiltIsRight DEF ListsOK, ThreadOK, Ascending
<1>4. IsList(ms) /\ \A i \in DOMAIN ms : Divides(ms[i], kept, nextSerial)
  <2>1. IsList(marks[t]) /\ \A i \in DOMAIN marks[t] : Divides(marks[t][i], errors[t], nextSerial)
    BY DEF ListsOK, ThreadOK
  <2>2. Len(marks[t]) \in Nat /\ DOMAIN marks[t] = 1 .. Len(marks[t])
    BY <2>1 DEF IsList
  <2>3. ms = [i \in 1 .. Len(marks[t]) |-> ms[i]] /\ DOMAIN ms = DOMAIN marks[t]
    BY <2>2 DEF CutTo
  <2>4. IsList(ms)
    <3> HIDE DEF ms
    <3> QED
      BY <2>2, <2>3, FunctionIsList
  <2>5. \A i \in DOMAIN ms : Divides(ms[i], kept, nextSerial)
    <3> HIDE DEF kept
    <3> QED
      BY <1>2, <2>1 DEF CutTo
  <2> HIDE DEF ms
  <2> QED
    BY <2>4, <2>5
<1> HIDE DEF kept, ms
<1>5. ASSUME NEW u \in Threads PROVE ThreadOK(u)'
  <2>1. CASE u = t
    BY <1>1, <1>2, <1>3, <1>4, <2>1 DEF ThreadOK
  <2>2. CASE u # t
    BY <1>1, <2>2 DEF ListsOK, ThreadOK
  <2> QED
    BY <2>1, <2>2
<1>6. ASSUME NEW u \in Threads, NEW v \in Threads, u # v PROVE Apart(u, v)'
  <2>1. \A w \in Threads : \A j \in DOMAIN errors'[w] : \E i \in DOMAIN errors[w] : errors[w][i] = errors'[w][j]
    BY <1>1, <1>2
  <2>2. Apart(u, v)
    BY <1>6 DEF ListsOK
  <2> QED
    BY <2>1, <2>2 DEF Apart
<1> QED
  BY <1>1, <1>2, <1>5, <1>6 DEF ListsOK

\* No thread begins to destroy its last mark.
NoNewMark ==
  /\ DOMAIN work' = Threads
  /\ \A t \in Threads :
       /\ work'[t] = [of |-> work'[t].of, todo |-> work'[t].todo, locked |-> work'[t].locked,
                      rest |-> work'[t].rest, before |-> work'[t].before]
       /\ work'[t].of = "Mark" => work[t].of = "Mark" /\ work'[t].before = work[t].before

\* The loop of a call goes on.
LEMMA LoopStep ==
  ASSUME WorkOK, NEW t \in Threads, NEW todo, NEW locked, NEW rest,
         DOMAIN work' = Threads, \A u \in Threads \ {t} : work'[u] = work[u],
         work'[t] = [of |-> work[t].of, todo |-> todo, locked |-> locked, rest |-> rest,
                     before |-> work[t].before]
  PROVE  NoNewMark
  BY DEF WorkOK, NoNewMark

\* Without a change of lists and marks nothing is to show.
LEMMA ListsUnchanged ==
  ASSUME ListsOK, UNCHANGED <<nextSerial, errors, marks, pendingLog>>
  PROVE  ListsOK'
  BY DEF ListsOK, ThreadOK, Ascending, Divides, Apart

\* Lists that grow still have the errors that a destructor of a mark will erase.
LEMMA WorkStep ==
  ASSUME WorkOK, NoNewMark,
         \A t \in Threads : Len(errors[t]) \in Nat /\ Len(errors'[t]) \in Nat
                            /\ Len(errors[t]) <= Len(errors'[t])
  PROVE  WorkOK'
  BY DEF WorkOK, NoNewMark

\* A step that neither adds nor removes errors or marks.
LEMMA OtherStep ==
  ASSUME IInv, UNCHANGED <<nextSerial, errors, marks, pendingLog>>, NoNewMark, TransportOK'
  PROVE  IInv'
<1>1. \A t \in Threads : Len(errors[t]) \in Nat /\ Len(errors'[t]) \in Nat
                         /\ Len(errors[t]) <= Len(errors'[t])
  BY DEF IInv, ListsOK, ThreadOK, Ascending, IsList
<1> QED
  BY <1>1, ListsUnchanged, WorkStep DEF IInv

\* Whoever appends errors preserves the invariant.
LEMMA AddsHold ==
  ASSUME IInv, NEW t \in Threads, NEW new, IsList(new), AddErrors(t, new), UNCHANGED marks,
         NoNewMark, TransportOK'
  PROVE  IInv'
  BY AddStep, WorkStep DEF IInv

\* In every state a mark finds the number of errors that it has seen.
LEMMA FoundByMark ==
  ASSUME ListsOK, NEW t \in Threads, NEW i \in DOMAIN marks[t]
  PROVE  /\ Preceding(errors[t], marks[t][i].mark) = marks[t][i].before
         /\ marks[t][i].before \in 0 .. Len(errors[t])
         /\ IsClean(t, marks[t][i].mark) <=> marks[t][i].before = Len(errors[t])
<1>1. nextSerial \in Nat /\ Ascending(errors[t], nextSerial) /\ Divides(marks[t][i], errors[t], nextSerial)
  BY DEF ListsOK, ThreadOK
<1> QED
  BY <1>1, DividesWhereFound DEF IsClean

\* Marks may be copied, removed and set to the next serial number.
LEMMA MarkStep ==
  ASSUME ListsOK, NEW t \in Threads, UNCHANGED <<nextSerial, errors, pendingLog>>,
         NEW ms, marks' = [marks EXCEPT ![t] = ms], IsList(ms),
         \A j \in DOMAIN ms :
           \/ \E i \in DOMAIN marks[t] : ms[j] = marks[t][i]
           \/ ms[j] = [mark |-> nextSerial, before |-> Len(errors[t])]
  PROVE  ListsOK'
<1>1. DOMAIN marks' = Threads /\ marks'[t] = ms /\ \A u \in Threads \ {t} : marks'[u] = marks[u]
  BY DEF ListsOK
<1>2. Divides([mark |-> nextSerial, before |-> Len(errors[t])], errors[t], nextSerial)
  BY DEF ListsOK, ThreadOK, Ascending, IsList, Divides
<1>3. \A j \in DOMAIN ms : Divides(ms[j], errors[t], nextSerial)
  BY <1>2 DEF ListsOK, ThreadOK
<1>4. ASSUME NEW u \in Threads PROVE ThreadOK(u)'
  BY <1>1, <1>3 DEF ListsOK, ThreadOK
<1> QED
  BY <1>1, <1>4 DEF ListsOK, Apart

-----------------------------------------------------------------------------

\* The empty manager satisfies the invariant.
LEMMA InitHolds == Init => IInv
<1> SUFFICES ASSUME Init PROVE IInv
  OBVIOUS
<1>1. IsList(<<>>) /\ Len(<<>>) = 0 /\ DOMAIN <<>> = {}
  <2>1. <<>> \in Seq({})
    OBVIOUS
  <2> QED
    BY <2>1 DEF IsList
<1>2. /\ nextSerial = 0 /\ DOMAIN errors = Threads /\ DOMAIN marks = Threads
      /\ DOMAIN pendingLog = Threads /\ DOMAIN work = Threads
      /\ \A t \in Threads : errors[t] = <<>> /\ marks[t] = <<>> /\ pendingLog[t] = <<>>
  BY DEF Init
<1>3. \A t \in Threads : work[t] = Idle
  BY DEF Init
<1>4. IdsOf(<<>>) = <<>>
  BY <1>1 DEF IdsOf
<1>5. ListsOK
  BY <1>1, <1>2, <1>4 DEF ListsOK, ThreadOK, Ascending, Apart
<1>6. WorkOK
  BY <1>2, <1>3 DEF WorkOK, Idle
<1>7. TransportOK
  BY <1>1 DEF Init, TransportOK, Empty
<1> QED
  BY <1>5, <1>6, <1>7 DEF IInv

\* Every step of every thread preserves the invariant.
LEMMA NextHolds == IInv /\ [Next]_vars => IInv'
<1> SUFFICES ASSUME IInv, [Next]_vars PROVE IInv'
  OBVIOUS
<1> USE DEF IInv
<1>1. ASSUME NEW t \in Threads, NEW kind \in Kinds, Post(t, kind) PROVE IInv'
  <2> DEFINE d == Diagnostic(issued + 1, kind)
  <2>1. TransportOK'
    BY <1>1 DEF Post, TransportOK, transportVars
  <2>2. CASE kind = "Error" /\ HasActiveErrorMark(t)
    <3>1. AddErrors(t, <<d>>) /\ UNCHANGED <<work, marks>>
      BY <1>1, <2>2 DEF Post
    <3>2. NoNewMark
      BY <3>1 DEF NoNewMark, WorkOK
    <3> HIDE DEF d
    <3> QED
      BY <2>1, <3>1, <3>2, SingleList, AddsHold
  <2>3. CASE ~(kind = "Error" /\ HasActiveErrorMark(t))
    <3>1. NoNewMark
      <4>1. work' = [work EXCEPT ![t] = Reporting("Post", <<d>>, 0)]
        BY <1>1, <2>3 DEF Post
      <4> HIDE DEF d
      <4> QED
        BY <4>1 DEF Reporting, Idle, NoNewMark, WorkOK
    <3> QED
      BY <1>1, <2>1, <2>3, <3>1, OtherStep DEF Post
  <2> QED
    BY <2>2, <2>3
<1>2. ASSUME NEW t \in Threads, NEW kind \in Kinds, DelegatePosts(t, kind) PROVE IInv'
  <2> DEFINE d == Diagnostic(issued + 1, kind)
  <2>1. TransportOK' /\ NoNewMark
    BY <1>2 DEF DelegatePosts, TransportOK, transportVars, NoNewMark, WorkOK
  <2>2. CASE kind = "Error" /\ HasActiveErrorMark(t)
    <3>1. AddErrors(t, <<d>>) /\ UNCHANGED marks
      BY <1>2, <2>2 DEF DelegatePosts
    <3> HIDE DEF d
    <3> QED
      BY <2>1, <3>1, SingleList, AddsHold
  <2>3. CASE ~(kind = "Error" /\ HasActiveErrorMark(t))
    BY <1>2, <2>1, <2>3, OtherStep DEF DelegatePosts
  <2> QED
    BY <2>2, <2>3
<1>3. ASSUME NEW t \in Threads, Repost(t) PROVE IInv'
  <2> DEFINE d == Current(t)
  <2> DEFINE call == [of |-> work[t].of, todo |-> Tail(work[t].todo), locked |-> FALSE,
                      rest |-> <<>>, before |-> work[t].before]
  <2>3. work[t] = [of |-> work[t].of, todo |-> work[t].todo, locked |-> work[t].locked,
                   rest |-> work[t].rest, before |-> work[t].before]
    BY DEF WorkOK
  <2>4. /\ DOMAIN work' = Threads /\ \A u \in Threads \ {t} : work'[u] = work[u]
        /\ work'[t] = call
    <3>1. DOMAIN work' = Threads /\ \A u \in Threads \ {t} : work'[u] = work[u]
      BY <1>3 DEF Repost, NextDiagnostic, WorkOK
    <3>2. work'[t] = [work[t] EXCEPT !.todo = Tail(work[t].todo), !.locked = FALSE, !.rest = <<>>]
      BY <1>3 DEF Repost, NextDiagnostic, WorkOK
    <3> QED
      BY <2>3, <3>1, <3>2
  <2>5. NoNewMark
    BY <2>4, LoopStep
  <2>1. TransportOK' /\ NoNewMark
    BY <1>3, <2>5 DEF Repost, TransportOK, transportVars
  <2>2. AddErrors(t, <<d>>) /\ UNCHANGED marks
    BY <1>3 DEF Repost
  <2> HIDE DEF d
  <2> QED
    BY <2>1, <2>2, SingleList, AddsHold
<1>4. ASSUME NEW t \in Threads, Trap(t) PROVE IInv'
  <2> DEFINE call == [of |-> work[t].of, todo |-> Tail(work[t].todo), locked |-> FALSE,
                      rest |-> <<>>, before |-> work[t].before]
  <2>3. work[t] = [of |-> work[t].of, todo |-> work[t].todo, locked |-> work[t].locked,
                   rest |-> work[t].rest, before |-> work[t].before]
    BY DEF WorkOK
  <2>4. /\ DOMAIN work' = Threads /\ \A u \in Threads \ {t} : work'[u] = work[u]
        /\ work'[t] = call
    <3>1. DOMAIN work' = Threads /\ \A u \in Threads \ {t} : work'[u] = work[u]
      BY <1>4 DEF Trap, NextDiagnostic, WorkOK
    <3>2. work'[t] = [work[t] EXCEPT !.todo = Tail(work[t].todo), !.locked = FALSE, !.rest = <<>>]
      BY <1>4 DEF Trap, NextDiagnostic, WorkOK
    <3> QED
      BY <2>3, <3>1, <3>2
  <2>5. NoNewMark
    BY <2>4, LoopStep
  <2>1. TransportOK' /\ NoNewMark
    BY <1>4, <2>5 DEF Trap, TransportOK, transportVars
  <2> QED
    BY <1>4, <2>1, OtherStep DEF Trap, threadVars
<1>5. ASSUME NEW t \in Threads, LockDelegates(t) PROVE IInv'
  <2> DEFINE call == [of |-> work[t].of, todo |-> work[t].todo, locked |-> TRUE,
                      rest |-> delegates, before |-> work[t].before]
  <2>3. work[t] = [of |-> work[t].of, todo |-> work[t].todo, locked |-> work[t].locked,
                   rest |-> work[t].rest, before |-> work[t].before]
    BY DEF WorkOK
  <2>4. /\ DOMAIN work' = Threads /\ \A u \in Threads \ {t} : work'[u] = work[u]
        /\ work'[t] = call
    <3>1. DOMAIN work' = Threads /\ \A u \in Threads \ {t} : work'[u] = work[u]
      BY <1>5 DEF LockDelegates, WorkOK
    <3>2. work'[t] = [work[t] EXCEPT !.locked = TRUE, !.rest = delegates]
      BY <1>5 DEF LockDelegates, WorkOK
    <3> QED
      BY <2>3, <3>1, <3>2
  <2>5. NoNewMark
    BY <2>4, LoopStep
  <2>1. TransportOK' /\ NoNewMark
    BY <1>5, <2>5 DEF LockDelegates, TransportOK, transportVars
  <2> QED
    BY <1>5, <2>1, OtherStep DEF LockDelegates, threadVars
<1>6. ASSUME NEW t \in Threads, DelegateReturns(t) PROVE IInv'
  <2> DEFINE call == [of |-> work[t].of, todo |-> work[t].todo, locked |-> work[t].locked,
                      rest |-> Tail(work[t].rest), before |-> work[t].before]
  <2>3. work[t] = [of |-> work[t].of, todo |-> work[t].todo, locked |-> work[t].locked,
                   rest |-> work[t].rest, before |-> work[t].before]
    BY DEF WorkOK
  <2>4. /\ DOMAIN work' = Threads /\ \A u \in Threads \ {t} : work'[u] = work[u]
        /\ work'[t] = call
    <3>1. DOMAIN work' = Threads /\ \A u \in Threads \ {t} : work'[u] = work[u]
      BY <1>6 DEF DelegateReturns, WorkOK
    <3>2. work'[t] = [work[t] EXCEPT !.rest = Tail(work[t].rest)]
      BY <1>6 DEF DelegateReturns, WorkOK
    <3> QED
      BY <2>3, <3>1, <3>2
  <2>5. NoNewMark
    BY <2>4, LoopStep
  <2>1. TransportOK' /\ NoNewMark
    BY <1>6, <2>5 DEF DelegateReturns, TransportOK, transportVars
  <2> QED
    BY <1>6, <2>1, OtherStep DEF DelegateReturns, threadVars
<1>7. ASSUME NEW t \in Threads, Reported(t) PROVE IInv'
  <2> DEFINE call == [of |-> work[t].of, todo |-> Tail(work[t].todo), locked |-> FALSE,
                      rest |-> <<>>, before |-> work[t].before]
  <2>3. work[t] = [of |-> work[t].of, todo |-> work[t].todo, locked |-> work[t].locked,
                   rest |-> work[t].rest, before |-> work[t].before]
    BY DEF WorkOK
  <2>4. /\ DOMAIN work' = Threads /\ \A u \in Threads \ {t} : work'[u] = work[u]
        /\ work'[t] = call
    <3>1. DOMAIN work' = Threads /\ \A u \in Threads \ {t} : work'[u] = work[u]
      BY <1>7 DEF Reported, NextDiagnostic, WorkOK
    <3>2. work'[t] = [work[t] EXCEPT !.todo = Tail(work[t].todo), !.locked = FALSE, !.rest = <<>>]
      BY <1>7 DEF Reported, NextDiagnostic, WorkOK
    <3> QED
      BY <2>3, <3>1, <3>2
  <2>5. NoNewMark
    BY <2>4, LoopStep
  <2>1. TransportOK' /\ NoNewMark
    BY <1>7, <2>5 DEF Reported, TransportOK, transportVars
  <2> QED
    BY <1>7, <2>1, OtherStep DEF Reported, threadVars
<1>8. ASSUME NEW t \in Threads, Finish(t) PROVE IInv'
  <2>1. TransportOK'
    BY <1>8 DEF Finish, TransportOK
  <2>2. NoNewMark /\ work'[t].of = "None"
    BY <1>8 DEF Finish, NoNewMark, WorkOK, Idle
  <2>3. CASE work[t].of = "Mark"
    <3> DEFINE n == work[t].before
               s == errors[t][n + 1].serial
    <3>1. n \in 0 .. Len(errors[t])
      BY <2>3 DEF WorkOK, ListsOK, ThreadOK, Ascending, IsList
    <3>2. /\ UNCHANGED nextSerial
          /\ errors' = [errors EXCEPT ![t] = SubSeq(errors[t], 1, n)]
          /\ pendingLog' = [pendingLog EXCEPT
               ![t] = RebuiltPending(pendingLog[t], SubSeq(errors[t], 1, n), s)]
          /\ marks' = [marks EXCEPT ![t] = CutTo(n, marks[t])]
      BY <1>8, <2>3 DEF Finish, EraseFrom, RemoveErrors
    <3> HIDE DEF n, s
    <3>3. ListsOK' /\ \A u \in Threads \ {t} : errors'[u] = errors[u]
      BY <3>1, <3>2, RemoveStep
    <3>4. WorkOK'
      BY <2>2, <3>3 DEF WorkOK, NoNewMark
    <3> QED
      BY <2>1, <3>3, <3>4
  <2>4. CASE work[t].of # "Mark"
    BY <1>8, <2>1, <2>2, <2>4, OtherStep DEF Finish
  <2> QED
    BY <2>3, <2>4
<1>9. ASSUME NEW t \in Threads, CreateMark(t) PROVE IInv'
  <2>1. TransportOK' /\ NoNewMark
    BY <1>9 DEF CreateMark, TransportOK, transportVars, NoNewMark, WorkOK
  <2> DEFINE new == [mark |-> nextSerial, before |-> Len(errors[t])]
             ms == Append(marks[t], new)
  <2>2. /\ marks' = [marks EXCEPT ![t] = ms]
        /\ UNCHANGED <<nextSerial, errors, pendingLog>>
    BY <1>9 DEF CreateMark
  <2>3. /\ IsList(ms)
        /\ \A j \in DOMAIN ms : (\E k \in DOMAIN marks[t] : ms[j] = marks[t][k]) \/ ms[j] = new
    <3>1. IsList(marks[t])
      BY DEF ListsOK, ThreadOK
    <3> HIDE DEF new
    <3> QED
      BY <1>9, <3>1, LengthenedList
  <2> HIDE DEF ms
  <2>4. ListsOK'
    BY <2>2, <2>3, MarkStep
  <2>5. \A u \in Threads : Len(errors[u]) \in Nat
    BY DEF ListsOK, ThreadOK, Ascending, IsList
  <2> QED
    BY <2>1, <2>2, <2>4, <2>5, WorkStep
<1>10. ASSUME NEW t \in Threads, NEW i \in DOMAIN marks[t], SetMark(t, i) PROVE IInv'
  <2>1. TransportOK' /\ NoNewMark
    BY <1>10 DEF SetMark, TransportOK, transportVars, NoNewMark, WorkOK
  <2> DEFINE new == [mark |-> nextSerial, before |-> Len(errors[t])]
             ms == [marks[t] EXCEPT ![i] = new]
  <2>2. /\ marks' = [marks EXCEPT ![t] = ms]
        /\ UNCHANGED <<nextSerial, errors, pendingLog>>
    BY <1>10 DEF SetMark
  <2>3. /\ IsList(ms)
        /\ \A j \in DOMAIN ms : (\E k \in DOMAIN marks[t] : ms[j] = marks[t][k]) \/ ms[j] = new
    <3>1. IsList(marks[t])
      BY DEF ListsOK, ThreadOK
    <3> HIDE DEF new
    <3> QED
      BY <1>10, <3>1, ChangedList
  <2> HIDE DEF ms
  <2>4. ListsOK'
    BY <2>2, <2>3, MarkStep
  <2>5. \A u \in Threads : Len(errors[u]) \in Nat
    BY DEF ListsOK, ThreadOK, Ascending, IsList
  <2> QED
    BY <2>1, <2>2, <2>4, <2>5, WorkStep
<1>11. ASSUME NEW t \in Threads, NEW i \in DOMAIN marks[t], ClearMark(t, i) PROVE IInv'
  <2> DEFINE n == Preceding(errors[t], marks[t][i].mark)
             s == errors[t][n + 1].serial
  <2>1. n \in 0 .. Len(errors[t])
    BY <1>11, FoundByMark
  <2>2. /\ UNCHANGED nextSerial
        /\ errors' = [errors EXCEPT ![t] = SubSeq(errors[t], 1, n)]
        /\ pendingLog' = [pendingLog EXCEPT
             ![t] = RebuiltPending(pendingLog[t], SubSeq(errors[t], 1, n), s)]
        /\ marks' = [marks EXCEPT ![t] = CutTo(n, marks[t])]
    BY <1>11 DEF ClearMark, EraseFrom, RemoveErrors
  <2>3. TransportOK'
    BY <1>11 DEF ClearMark, TransportOK, transportVars
  <2> HIDE DEF n, s
  <2>4. ListsOK' /\ \A u \in Threads \ {t} : errors'[u] = errors[u]
    BY <2>1, <2>2, RemoveStep
  <2>5. WorkOK'
    <3>1. UNCHANGED work /\ work[t].of = "None"
      BY <1>11 DEF ClearMark, IsIdle, Idle
    <3> QED
      BY <2>4, <3>1 DEF WorkOK
  <2> QED
    BY <2>3, <2>4, <2>5
<1>12. ASSUME NEW t \in Threads, NEW i \in DOMAIN marks[t], TransportMark(t, i) PROVE IInv'
  <2> DEFINE n == Preceding(errors[t], marks[t][i].mark)
             s == marks[t][i].mark
  <2>1. n \in 0 .. Len(errors[t])
    BY <1>12, FoundByMark
  <2>2. /\ UNCHANGED nextSerial
        /\ errors' = [errors EXCEPT ![t] = SubSeq(errors[t], 1, n)]
        /\ pendingLog' = [pendingLog EXCEPT
             ![t] = RebuiltPending(pendingLog[t], SubSeq(errors[t], 1, n), s)]
        /\ marks' = [marks EXCEPT ![t] = CutTo(n, marks[t])]
    BY <1>12 DEF TransportMark, RemoveErrors
  <2>3. TransportOK'
    <3>1. IsList(SubSeq(errors[t], n + 1, Len(errors[t])))
      BY <2>1, Taken DEF ListsOK, ThreadOK, Ascending
    <3> QED
      BY <1>12, <3>1 DEF TransportMark, ErrorsFrom, TransportOK
  <2> HIDE DEF n, s
  <2>4. ListsOK' /\ \A u \in Threads \ {t} : errors'[u] = errors[u]
    BY <2>1, <2>2, RemoveStep
  <2>5. WorkOK'
    <3>1. UNCHANGED work /\ work[t].of = "None"
      BY <1>12 DEF TransportMark, IsIdle, Idle
    <3> QED
      BY <2>4, <3>1 DEF WorkOK
  <2> QED
    BY <2>3, <2>4, <2>5
<1>13. ASSUME NEW t \in Threads, NEW i \in DOMAIN marks[t], DestroyMark(t, i) PROVE IInv'
  <2>1. TransportOK'
    BY <1>13 DEF DestroyMark, TransportOK, transportVars
  <2> DEFINE ms == RemoveAt(marks[t], i)
             n == Preceding(errors[t], marks[t][i].mark)
  <2>2. marks' = [marks EXCEPT ![t] = ms] /\ UNCHANGED <<nextSerial, errors, pendingLog>>
    BY <1>13 DEF DestroyMark
  <2>3. IsList(ms) /\ \A j \in DOMAIN ms : \E k \in DOMAIN marks[t] : ms[j] = marks[t][k]
    BY <1>13, Removed DEF ListsOK, ThreadOK
  <2>4. ListsOK'
    <3> HIDE DEF ms
    <3> QED
      BY <2>2, <2>3, MarkStep
  <2>5. Len(errors[t]) \in Nat
    BY DEF ListsOK, ThreadOK, Ascending, IsList
  <2>6. /\ n \in 0 .. Len(errors[t])
        /\ IsClean(t, marks[t][i].mark) <=> n = Len(errors[t])
    BY <1>13, FoundByMark
  <2>7. CASE IsClean(t, marks[t][i].mark) \/ Len(marks[t]) # 1
    BY <1>13, <2>1, <2>2, <2>4, <2>7 DEF DestroyMark, WorkOK
  <2>8. CASE ~IsClean(t, marks[t][i].mark) /\ Len(marks[t]) = 1
    <3> DEFINE todo == AsDiagnostics(ErrorsFrom(t, n))
    <3>1. work' = [work EXCEPT ![t] = Reporting("Mark", todo, n)]
      BY <1>13, <2>8 DEF DestroyMark
    <3>2. n \in Nat /\ n < Len(errors[t])
      BY <2>5, <2>6, <2>8
    <3> HIDE DEF n, todo
    <3>3. WorkOK'
      BY <2>2, <3>1, <3>2 DEF WorkOK, Reporting, Idle
    <3> QED
      BY <2>1, <2>4, <3>3
  <2> QED
    BY <2>7, <2>8
<1>14. ASSUME NEW t \in Threads, PushTrap(t) PROVE IInv'
  <2>1. TransportOK' /\ NoNewMark
    BY <1>14 DEF PushTrap, TransportOK, transportVars, NoNewMark, WorkOK
  <2> QED
    BY <1>14, <2>1, OtherStep DEF PushTrap, threadVars
<1>15. ASSUME NEW t \in Threads, Dismiss(t) PROVE IInv'
  <2>1. TransportOK'
    BY <1>15 DEF Dismiss, TransportOK, transportVars
  <2>2. NoNewMark
    <3>1. CASE UNCHANGED work
      BY <3>1 DEF NoNewMark, WorkOK
    <3>2. CASE work' = [work EXCEPT ![t] = Reporting("Dismiss", Last(traps[t]).container, 0)]
      BY <3>2 DEF Reporting, Idle, NoNewMark, WorkOK
    <3> QED
      BY <1>15, <3>1, <3>2 DEF Dismiss
  <2> QED
    BY <1>15, <2>1, <2>2, OtherStep DEF Dismiss, threadVars
<1>16. ASSUME NEW t \in Threads, NEW i \in DOMAIN traps[t], TransportTrap(t, i) PROVE IInv'
  <2>1. TransportOK' /\ NoNewMark
    BY <1>16 DEF TransportTrap, TransportOK, transportVars, NoNewMark, WorkOK
  <2> QED
    BY <1>16, <2>1, OtherStep DEF TransportTrap, threadVars
<1>17. ASSUME NEW t \in Threads, NEW i \in DOMAIN traps[t],
            NEW kinds \in SUBSET Kinds, EraseMatching(t, i, kinds) PROVE IInv'
  <2>1. TransportOK' /\ NoNewMark
    BY <1>17 DEF EraseMatching, TransportOK, transportVars, NoNewMark, WorkOK
  <2> QED
    BY <1>17, <2>1, OtherStep DEF EraseMatching, threadVars
<1>18. ASSUME NEW t \in Threads, PostErrorTransport(t) PROVE IInv'
  <2> DEFINE list == IF errorTransport.pin = <<>> THEN Reissued(errorTransport.list)
                     ELSE errorTransport.list
  <2>1. CASE HasActiveErrorMark(t)
    <3>1. AddErrors(t, list) /\ UNCHANGED <<marks, work>> /\ errorTransport' = Empty
      BY <1>18, <2>1 DEF PostErrorTransport
    <3>2. IsList(list)
      BY ReissuedIsAList DEF TransportOK
    <3>3. TransportOK' /\ NoNewMark
      BY <3>1, EmptyList DEF TransportOK, Empty, NoNewMark, WorkOK
    <3> HIDE DEF list
    <3> QED
      BY <3>1, <3>2, <3>3, AddsHold
  <2>2. CASE ~HasActiveErrorMark(t)
    <3>1. TransportOK' /\ NoNewMark
      BY <1>18, <2>2 DEF PostErrorTransport, TransportOK, NoNewMark, WorkOK, Reporting, Idle
    <3> QED
      BY <1>18, <2>2, <3>1, OtherStep DEF PostErrorTransport
  <2> QED
    BY <2>1, <2>2
<1>19. ASSUME NEW t \in Threads, PostDiagnosticTransport(t) PROVE IInv'
  <2>1. TransportOK' /\ NoNewMark
    BY <1>19 DEF PostDiagnosticTransport, Reporting, Idle, TransportOK, transportVars, NoNewMark, WorkOK
  <2> QED
    BY <1>19, <2>1, OtherStep DEF PostDiagnosticTransport, threadVars
<1>20. ASSUME NEW t \in Threads, NEW d \in Delegates, AddDelegate(t, d) PROVE IInv'
  <2>1. TransportOK' /\ NoNewMark
    BY <1>20 DEF AddDelegate, TransportOK, transportVars, NoNewMark, WorkOK
  <2> QED
    BY <1>20, <2>1, OtherStep DEF AddDelegate, threadVars
<1>21. ASSUME NEW t \in Threads, NEW d \in Delegates, RemoveDelegate(t, d) PROVE IInv'
  <2>1. TransportOK' /\ NoNewMark
    BY <1>21 DEF RemoveDelegate, TransportOK, transportVars, NoNewMark, WorkOK
  <2> QED
    BY <1>21, <2>1, OtherStep DEF RemoveDelegate, threadVars
<1>22. CASE DropErrorTransport
  <2>1. TransportOK' /\ NoNewMark
    BY <1>22, EmptyList DEF DropErrorTransport, TransportOK, Empty, NoNewMark, WorkOK
  <2> QED
    BY <1>22, <2>1, OtherStep DEF DropErrorTransport, threadVars
<1>23. CASE DropDiagnosticTransport
  <2>1. TransportOK' /\ NoNewMark
    BY <1>23 DEF DropDiagnosticTransport, TransportOK, NoNewMark, WorkOK
  <2> QED
    BY <1>23, <2>1, OtherStep DEF DropDiagnosticTransport, threadVars
<1>24. CASE UNCHANGED vars
  <2>1. TransportOK' /\ NoNewMark
    BY <1>24 DEF vars, TransportOK, transportVars, NoNewMark, WorkOK
  <2> QED
    BY <1>24, <2>1, OtherStep DEF vars, threadVars
<1> QED
  BY <1>1, <1>2, <1>3, <1>4, <1>5, <1>6, <1>7, <1>8, <1>9, <1>10, <1>11, <1>12, <1>13, <1>14, <1>15, <1>16, <1>17, <1>18, <1>19, <1>20, <1>21, <1>22, <1>23, <1>24
     DEF Next, ReportStep, MarkCall, TrapCall

-----------------------------------------------------------------------------
(* The delegates a report has yet to call. *)

\* Only a report that holds the lock has delegates yet to call, and a writer has
\* waited until there is none; so what a report copied is what is still there.
CallsOK ==
  /\ IsList(delegates)
  /\ DOMAIN work = Threads
  /\ \A t \in Threads :
       /\ IsList(work[t].rest)
       /\ work[t].rest # <<>> => work[t].locked
       /\ Range(work[t].rest) \subseteq Range(delegates)

\* The rest of a list has no other elements.
LEMMA ShorterList ==
  ASSUME NEW list, IsList(list), list # <<>>
  PROVE  IsList(Tail(list)) /\ Range(Tail(list)) \subseteq Range(list)
<1>1. PICK S : list \in Seq(S)
  BY DEF IsList
<1>2. /\ Tail(list) \in Seq(S) /\ Len(list) \in Nat /\ Len(list) > 0
      /\ DOMAIN list = 1 .. Len(list) /\ DOMAIN Tail(list) = 1 .. Len(list) - 1
      /\ \A i \in 1 .. Len(list) - 1 : Tail(list)[i] = list[i + 1]
  BY <1>1
<1> QED
  BY <1>2 DEF IsList, Range

\* Removal of a delegate leaves a list.
LEMMA WithoutIsAList ==
  ASSUME NEW list, IsList(list), NEW d
  PROVE  IsList(Without(list, d))
  BY OnlyPicks DEF Without, Picks

\* A call that reports begins, or ends, with no delegate to call.
LEMMA CallsStep ==
  ASSUME CallsOK, UNCHANGED delegates, DOMAIN work' = Threads,
         \A t \in Threads :
           \/ work'[t] = work[t]
           \/ work'[t].rest = <<>>
  PROVE  CallsOK'
<1>1. IsList(<<>>) /\ Range(<<>>) = {}
  BY EmptyList DEF Range
<1> QED
  BY <1>1 DEF CallsOK

\* Delegates that a report has yet to call are registered, after every step.
LEMMA CallsHold == WorkOK /\ CallsOK /\ [Next]_vars => CallsOK'
<1> SUFFICES ASSUME WorkOK, CallsOK, [Next]_vars PROVE CallsOK'
  OBVIOUS
<1>0. DOMAIN work = Threads
  BY DEF CallsOK
<1>1. ASSUME NEW t \in Threads, NEW kind \in Kinds, Post(t, kind) PROVE CallsOK'
  BY <1>0, <1>1, CallsStep DEF Post, Reporting, Idle
<1>2. ASSUME NEW t \in Threads, NEW kind \in Kinds, DelegatePosts(t, kind) PROVE CallsOK'
  BY <1>0, <1>2, CallsStep DEF DelegatePosts
<1>3. ASSUME NEW t \in Threads, Repost(t) PROVE CallsOK'
  BY <1>0, <1>3, CallsStep DEF Repost, NextDiagnostic, WorkOK
<1>4. ASSUME NEW t \in Threads, Trap(t) PROVE CallsOK'
  BY <1>0, <1>4, CallsStep DEF Trap, NextDiagnostic, WorkOK
<1>5. ASSUME NEW t \in Threads, LockDelegates(t) PROVE CallsOK'
  <2>1. /\ UNCHANGED delegates /\ DOMAIN work' = Threads
        /\ \A u \in Threads \ {t} : work'[u] = work[u]
        /\ work'[t].rest = delegates /\ work'[t].locked = TRUE
    BY <1>0, <1>5 DEF LockDelegates, WorkOK
  <2> QED
    BY <2>1 DEF CallsOK
<1>6. ASSUME NEW t \in Threads, DelegateReturns(t) PROVE CallsOK'
  <2>1. /\ UNCHANGED delegates /\ DOMAIN work' = Threads
        /\ \A u \in Threads \ {t} : work'[u] = work[u]
        /\ work'[t].rest = Tail(work[t].rest) /\ work'[t].locked = work[t].locked
    BY <1>0, <1>6 DEF DelegateReturns, WorkOK
  <2>2. /\ IsList(Tail(work[t].rest)) /\ work[t].locked
        /\ Range(Tail(work[t].rest)) \subseteq Range(work[t].rest)
    BY <1>6, ShorterList DEF DelegateReturns, CallsOK
  <2> QED
    BY <2>1, <2>2 DEF CallsOK
<1>7. ASSUME NEW t \in Threads, Reported(t) PROVE CallsOK'
  BY <1>0, <1>7, CallsStep DEF Reported, NextDiagnostic, WorkOK
<1>8. ASSUME NEW t \in Threads, Finish(t) PROVE CallsOK'
  BY <1>0, <1>8, CallsStep DEF Finish, Idle
<1>9. ASSUME NEW t \in Threads, CreateMark(t) PROVE CallsOK'
  BY <1>0, <1>9, CallsStep DEF CreateMark
<1>10. ASSUME NEW t \in Threads, NEW i \in DOMAIN marks[t], SetMark(t, i) PROVE CallsOK'
  BY <1>0, <1>10, CallsStep DEF SetMark
<1>11. ASSUME NEW t \in Threads, NEW i \in DOMAIN marks[t], ClearMark(t, i) PROVE CallsOK'
  BY <1>0, <1>11, CallsStep DEF ClearMark
<1>12. ASSUME NEW t \in Threads, NEW i \in DOMAIN marks[t], TransportMark(t, i) PROVE CallsOK'
  BY <1>0, <1>12, CallsStep DEF TransportMark
<1>13. ASSUME NEW t \in Threads, NEW i \in DOMAIN marks[t], DestroyMark(t, i) PROVE CallsOK'
  BY <1>0, <1>13, CallsStep DEF DestroyMark, Reporting, Idle
<1>14. ASSUME NEW t \in Threads, PushTrap(t) PROVE CallsOK'
  BY <1>0, <1>14, CallsStep DEF PushTrap
<1>15. ASSUME NEW t \in Threads, Dismiss(t) PROVE CallsOK'
  BY <1>0, <1>15, CallsStep DEF Dismiss, Reporting, Idle
<1>16. ASSUME NEW t \in Threads, NEW i \in DOMAIN traps[t], TransportTrap(t, i) PROVE CallsOK'
  BY <1>0, <1>16, CallsStep DEF TransportTrap
<1>17. ASSUME NEW t \in Threads, NEW i \in DOMAIN traps[t], NEW kinds \in SUBSET Kinds, EraseMatching(t, i, kinds) PROVE CallsOK'
  BY <1>0, <1>17, CallsStep DEF EraseMatching
<1>18. ASSUME NEW t \in Threads, PostErrorTransport(t) PROVE CallsOK'
  BY <1>0, <1>18, CallsStep DEF PostErrorTransport, Reporting, Idle
<1>19. ASSUME NEW t \in Threads, PostDiagnosticTransport(t) PROVE CallsOK'
  BY <1>0, <1>19, CallsStep DEF PostDiagnosticTransport, Reporting, Idle
<1>20. ASSUME NEW t \in Threads, NEW d \in Delegates, AddDelegate(t, d) PROVE CallsOK'
  <2>1. \A u \in Threads : work[u].rest = <<>>
    BY <1>20 DEF AddDelegate, NobodyCalls, CallsOK
  <2>2. UNCHANGED work /\ IsList(delegates')
    BY <1>20, LengthenedList DEF AddDelegate, CallsOK
  <2> QED
    BY <1>0, <2>1, <2>2, EmptyList DEF CallsOK, Range
<1>21. ASSUME NEW t \in Threads, NEW d \in Delegates, RemoveDelegate(t, d) PROVE CallsOK'
  <2>1. \A u \in Threads : work[u].rest = <<>>
    BY <1>21 DEF RemoveDelegate, NobodyCalls, CallsOK
  <2>2. UNCHANGED work /\ IsList(delegates')
    BY <1>21, WithoutIsAList DEF RemoveDelegate, CallsOK
  <2> QED
    BY <1>0, <2>1, <2>2, EmptyList DEF CallsOK, Range
<1>22. CASE DropErrorTransport
  BY <1>0, <1>22, CallsStep DEF DropErrorTransport
<1>23. CASE DropDiagnosticTransport
  BY <1>0, <1>23, CallsStep DEF DropDiagnosticTransport
<1>24. CASE UNCHANGED vars
  BY <1>0, <1>24, CallsStep DEF vars
<1> QED
  BY <1>1, <1>2, <1>3, <1>4, <1>5, <1>6, <1>7, <1>8, <1>9, <1>10, <1>11, <1>12, <1>13, <1>14, <1>15, <1>16, <1>17, <1>18, <1>19, <1>20, <1>21, <1>22, <1>23, <1>24
     DEF Next, ReportStep, MarkCall, TrapCall

-----------------------------------------------------------------------------
(* The ids in a list of diagnostics. *)

IdSet(list) == {list[i].id : i \in DOMAIN list}
Once(list) == \A i, j \in DOMAIN list : list[i].id = list[j].id => i = j

\* Lists in a row,
LEMMA JoinedIds ==
  ASSUME NEW r, IsList(r), NEW s, IsList(s)
  PROVE  /\ IdSet(r \o s) = IdSet(r) \cup IdSet(s)
         /\ Once(r) /\ Once(s) /\ IdSet(r) \cap IdSet(s) = {} => Once(r \o s)
<1> DEFINE m == Len(r)
           n == Len(s)
<1>1. /\ m \in Nat /\ n \in Nat /\ DOMAIN r = 1 .. m /\ DOMAIN s = 1 .. n
      /\ DOMAIN (r \o s) = 1 .. m + n
      /\ \A i \in 1 .. m + n : (r \o s)[i] = IF i <= m THEN r[i] ELSE s[i - m]
  BY Appended
<1> HIDE DEF m, n
<1>2. \A i \in 1 .. m : i \in 1 .. m + n /\ (r \o s)[i] = r[i]
  BY <1>1
<1>3. \A i \in 1 .. n : m + i \in 1 .. m + n /\ (r \o s)[m + i] = s[i]
  BY <1>1
<1>4. \A i \in 1 .. m + n : i \in 1 .. m \/ (i - m \in 1 .. n /\ i = m + (i - m))
  BY <1>1
<1>5. IdSet(r \o s) = IdSet(r) \cup IdSet(s)
  <2>1. IdSet(r) \cup IdSet(s) \subseteq IdSet(r \o s)
    <3>1. ASSUME NEW i \in 1 .. m PROVE r[i].id \in IdSet(r \o s)
      BY <1>1, <1>2 DEF IdSet
    <3>2. ASSUME NEW i \in 1 .. n PROVE s[i].id \in IdSet(r \o s)
      BY <1>1, <1>3 DEF IdSet
    <3> QED
      BY <1>1, <3>1, <3>2 DEF IdSet
  <2>2. ASSUME NEW i \in 1 .. m + n PROVE (r \o s)[i].id \in IdSet(r) \cup IdSet(s)
    BY <1>1, <1>2, <1>3, <1>4 DEF IdSet
  <2> QED
    BY <1>1, <2>1, <2>2 DEF IdSet
<1>6. ASSUME Once(r), Once(s), IdSet(r) \cap IdSet(s) = {},
             NEW i \in 1 .. m + n, NEW j \in 1 .. m + n, (r \o s)[i].id = (r \o s)[j].id
      PROVE  i = j
  <2>1. CASE i \in 1 .. m /\ j \in 1 .. m
    BY <1>1, <1>2, <1>6, <2>1 DEF Once
  <2>2. CASE i - m \in 1 .. n /\ j - m \in 1 .. n
    <3>1. (r \o s)[i] = s[i - m] /\ (r \o s)[j] = s[j - m]
      BY <1>1, <2>2
    <3>2. i - m = j - m
      BY <1>1, <1>6, <2>2, <3>1 DEF Once
    <3> QED
      BY <1>1, <3>2
  <2>3. \A k \in 1 .. m, l \in 1 .. n : r[k].id # s[l].id
    BY <1>1, <1>6 DEF IdSet
  <2>6. \A k \in 1 .. m + n : k - m \in 1 .. n => (r \o s)[k] = s[k - m]
    BY <1>1
  <2>4. ~(i \in 1 .. m /\ j - m \in 1 .. n)
    BY <1>2, <1>6, <2>3, <2>6
  <2>5. ~(j \in 1 .. m /\ i - m \in 1 .. n)
    BY <1>2, <1>6, <2>3, <2>6
  <2> QED
    BY <1>4, <2>1, <2>2, <2>4, <2>5
<1> QED
  BY <1>1, <1>5, <1>6 DEF Once

\* a list of one,
LEMMA SingleId ==
  ASSUME NEW d
  PROVE  IsList(<<d>>) /\ IdSet(<<d>>) = {d.id} /\ Once(<<d>>)
  BY SingleList DEF IdSet, Once

\* and of none.
LEMMA NoIds == IsList(<<>>) /\ IdSet(<<>>) = {} /\ Once(<<>>)
  BY EmptyList DEF IdSet, Once

\* A list and one more,
LEMMA AppendedId ==
  ASSUME NEW s, IsList(s), NEW d
  PROVE  /\ Append(s, d) = s \o <<d>> /\ IdSet(Append(s, d)) = IdSet(s) \cup {d.id}
         /\ Once(s) /\ d.id \notin IdSet(s) => Once(Append(s, d))
<1>1. PICK S : s \in Seq(S)
  BY DEF IsList
<1>2. s \in Seq(S \cup {d}) /\ <<d>> \in Seq(S \cup {d})
  BY <1>1
<1>3. Append(s, d) = s \o <<d>>
  BY <1>2
<1> QED
  BY <1>3, SingleId, JoinedIds

\* three lists in a row,
LEMMA ThreeInARow ==
  ASSUME NEW a, IsList(a), NEW b, IsList(b), NEW c, IsList(c)
  PROVE  (a \o b) \o c = a \o (b \o c)
<1> DEFINE l == Len(a)
           m == Len(b)
           n == Len(c)
           r == (a \o b) \o c
           s == a \o (b \o c)
<1>1. /\ IsList(a \o b) /\ l \in Nat /\ m \in Nat /\ Len(a \o b) = l + m
      /\ \A i \in 1 .. l + m : (a \o b)[i] = IF i <= l THEN a[i] ELSE b[i - l]
  BY Appended
<1>2. /\ IsList(b \o c) /\ n \in Nat /\ Len(b \o c) = m + n
      /\ \A i \in 1 .. m + n : (b \o c)[i] = IF i <= m THEN b[i] ELSE c[i - m]
  BY Appended
<1>3. /\ IsList(r) /\ Len(r) = l + m + n
      /\ \A i \in 1 .. l + m + n : r[i] = IF i <= l + m THEN (a \o b)[i] ELSE c[i - (l + m)]
  <2> DEFINE p == a \o b
             q == p \o c
  <2>1. IsList(p) /\ Len(p) = l + m
    BY <1>1
  <2> HIDE DEF p
  <2>2. /\ IsList(q) /\ Len(q) = Len(p) + n
        /\ \A i \in 1 .. Len(p) + n : q[i] = IF i <= Len(p) THEN p[i] ELSE c[i - Len(p)]
    BY <2>1, Appended
  <2> HIDE DEF l, m, n, q
  <2>3. /\ IsList(q) /\ Len(q) = l + m + n
        /\ \A i \in 1 .. l + m + n : q[i] = IF i <= l + m THEN p[i] ELSE c[i - (l + m)]
    BY <2>1, <2>2
  <2> QED
    BY <2>3 DEF p, q
<1>4. /\ IsList(s) /\ Len(s) = l + (m + n)
      /\ \A i \in 1 .. l + (m + n) : s[i] = IF i <= l THEN a[i] ELSE (b \o c)[i - l]
  <2> DEFINE p == b \o c
             q == a \o p
  <2>1. IsList(p) /\ Len(p) = m + n
    BY <1>2
  <2> HIDE DEF p
  <2>2. /\ IsList(q) /\ Len(q) = l + Len(p)
        /\ \A i \in 1 .. l + Len(p) : q[i] = IF i <= l THEN a[i] ELSE p[i - l]
    BY <2>1, Appended
  <2> HIDE DEF l, m, n, q
  <2>3. /\ IsList(q) /\ Len(q) = l + (m + n)
        /\ \A i \in 1 .. l + (m + n) : q[i] = IF i <= l THEN a[i] ELSE p[i - l]
    BY <2>1, <2>2
  <2> QED
    BY <2>3 DEF p, q
<1> HIDE DEF l, m, n, r, s
<1>5. ASSUME NEW i \in 1 .. l + m + n PROVE r[i] = s[i]
  <2>1. CASE i <= l
    <3>1. i \in 1 .. l + m /\ i \in 1 .. l + (m + n) /\ i <= l + m
      BY <1>1, <1>2, <2>1
    <3> QED
      BY <1>1, <1>3, <1>4, <2>1, <3>1
  <2>2. CASE i > l /\ i <= l + m
    <3>1. /\ i \in 1 .. l + m /\ i \in 1 .. l + (m + n) /\ ~(i <= l)
          /\ i - l \in 1 .. m + n /\ i - l <= m
      BY <1>1, <1>2, <2>2
    <3>2. r[i] = b[i - l]
      BY <1>1, <1>3, <2>2, <3>1
    <3>3. s[i] = b[i - l]
      BY <1>2, <1>4, <3>1
    <3> QED
      BY <3>2, <3>3
  <2>3. CASE i > l + m
    <3>1. /\ i \in 1 .. l + (m + n) /\ ~(i <= l) /\ ~(i <= l + m)
          /\ i - l \in 1 .. m + n /\ ~(i - l <= m) /\ (i - l) - m = i - (l + m)
      BY <1>1, <1>2, <2>3
    <3>2. r[i] = c[i - (l + m)]
      BY <1>3, <3>1
    <3>3. s[i] = c[(i - l) - m]
      BY <1>2, <1>4, <3>1
    <3> QED
      BY <3>1, <3>2, <3>3
  <2>4. i <= l \/ (i > l /\ i <= l + m) \/ i > l + m
    BY <1>1, <1>2
  <2> QED
    BY <2>1, <2>2, <2>3, <2>4
<1>6. Len(r) = Len(s)
  BY <1>1, <1>2, <1>3, <1>4
<1>7. r = s
  BY <1>3, <1>4, <1>5, <1>6, SameList
<1> QED
  BY <1>7 DEF r, s

\* in two parts,
LEMMA SplitIds ==
  ASSUME NEW s, IsList(s), NEW n \in 0 .. Len(s)
  PROVE  /\ IsList(SubSeq(s, 1, n)) /\ IsList(SubSeq(s, n + 1, Len(s)))
         /\ IdSet(s) = IdSet(SubSeq(s, 1, n)) \cup IdSet(SubSeq(s, n + 1, Len(s)))
         /\ Once(s) => /\ Once(SubSeq(s, 1, n)) /\ Once(SubSeq(s, n + 1, Len(s)))
                       /\ IdSet(SubSeq(s, 1, n)) \cap IdSet(SubSeq(s, n + 1, Len(s))) = {}
<1> DEFINE a == SubSeq(s, 1, n)
           b == SubSeq(s, n + 1, Len(s))
           m == Len(s)
<1>1. IsList(a) /\ IsList(b) /\ m \in Nat /\ n \in Nat /\ n <= m /\ DOMAIN s = 1 .. m
  BY Shortened, Taken
<1>2. DOMAIN a = 1 .. n /\ \A i \in 1 .. n : a[i] = s[i]
  BY Shortened
<1>3. DOMAIN b = 1 .. m - n /\ \A i \in 1 .. m - n : b[i] = s[n + i]
  <2>1. PICK S : s \in Seq(S)
    BY DEF IsList
  <2> QED
    BY <1>1, <2>1
<1> HIDE DEF a, b, m
<1>4. \A i \in 1 .. m : i \in 1 .. n \/ (i - n \in 1 .. m - n /\ i = n + (i - n))
  BY <1>1
<1>5. \A i \in 1 .. n : i \in 1 .. m
  BY <1>1
<1>6. \A i \in 1 .. m - n : n + i \in 1 .. m
  BY <1>1
<1>7. IdSet(s) = IdSet(a) \cup IdSet(b)
  <2>1. IdSet(a) \cup IdSet(b) \subseteq IdSet(s)
    BY <1>1, <1>2, <1>3, <1>5, <1>6 DEF IdSet
  <2>2. ASSUME NEW i \in 1 .. m PROVE s[i].id \in IdSet(a) \cup IdSet(b)
    BY <1>2, <1>3, <1>4 DEF IdSet
  <2> QED
    BY <1>1, <2>1, <2>2 DEF IdSet
<1>8. ASSUME Once(s) PROVE Once(a) /\ Once(b) /\ IdSet(a) \cap IdSet(b) = {}
  <2>1. Once(a)
    BY <1>1, <1>2, <1>5, <1>8 DEF Once
  <2>2. ASSUME NEW i \in 1 .. m - n, NEW j \in 1 .. m - n, b[i].id = b[j].id
        PROVE  n + i = n + j
    <3>1. n + i \in 1 .. m /\ n + j \in 1 .. m /\ s[n + i].id = s[n + j].id
      BY <1>3, <1>6, <2>2
    <3> QED
      BY <1>1, <1>8, <3>1 DEF Once
  <2>3. Once(b)
    <3>1. \A i, j \in 1 .. m - n : n + i = n + j => i = j
      BY <1>1
    <3> QED
      BY <1>3, <2>2, <3>1 DEF Once
  <2>4. \A i \in 1 .. n, j \in 1 .. m - n : a[i].id = b[j].id => i = n + j
    BY <1>1, <1>2, <1>3, <1>5, <1>6, <1>8 DEF Once
  <2>5. \A i \in 1 .. n, j \in 1 .. m - n : i # n + j
    BY <1>1
  <2> QED
    BY <1>2, <1>3, <2>1, <2>3, <2>4, <2>5 DEF IdSet
<1> QED
  BY <1>1, <1>7, <1>8 DEF a, b, m

\* without its first,
LEMMA TailIds ==
  ASSUME NEW s, IsList(s), s # <<>>
  PROVE  /\ IsList(Tail(s)) /\ IdSet(s) = {Head(s).id} \cup IdSet(Tail(s))
         /\ Once(s) => Once(Tail(s)) /\ Head(s).id \notin IdSet(Tail(s))
<1>1. PICK S : s \in Seq(S)
  BY DEF IsList
<1>2. Tail(s) \in Seq(S) /\ Head(s) \in S /\ <<Head(s)>> \in Seq(S)
  BY <1>1
<1>3. /\ Len(s) \in Nat /\ Len(s) > 0 /\ DOMAIN s = 1 .. Len(s) /\ Head(s) = s[1]
      /\ DOMAIN Tail(s) = 1 .. Len(s) - 1 /\ \A i \in 1 .. Len(s) - 1 : Tail(s)[i] = s[i + 1]
  BY <1>1
<1> DEFINE m == Len(s)
<1>4. \A i \in 1 .. m : i = 1 \/ (i - 1 \in 1 .. m - 1 /\ i = (i - 1) + 1)
  BY <1>3
<1>5. 1 \in 1 .. m /\ \A i \in 1 .. m - 1 : i + 1 \in 1 .. m /\ i + 1 # 1
  BY <1>3
<1>6. IdSet(s) = {Head(s).id} \cup IdSet(Tail(s))
  <2>1. {Head(s).id} \cup IdSet(Tail(s)) \subseteq IdSet(s)
    BY <1>3, <1>5 DEF IdSet
  <2>2. ASSUME NEW i \in 1 .. m PROVE s[i].id \in {Head(s).id} \cup IdSet(Tail(s))
    BY <1>3, <1>4 DEF IdSet
  <2> QED
    BY <1>3, <2>1, <2>2 DEF IdSet
<1>7. ASSUME Once(s) PROVE Once(Tail(s)) /\ Head(s).id \notin IdSet(Tail(s))
  <2>1. \A i, j \in 1 .. m - 1 : Tail(s)[i].id = Tail(s)[j].id => i + 1 = j + 1
    BY <1>3, <1>5, <1>7 DEF Once
  <2>2. \A i, j \in 1 .. m - 1 : i + 1 = j + 1 => i = j
    BY <1>3
  <2>3. \A i \in 1 .. m - 1 : Head(s).id = Tail(s)[i].id => 1 = i + 1
    BY <1>3, <1>5, <1>7 DEF Once
  <2> QED
    BY <1>3, <1>5, <2>1, <2>2, <2>3 DEF Once, IdSet
<1>8. IsList(Tail(s))
  BY <1>2 DEF IsList
<1> QED
  BY <1>6, <1>7, <1>8

\* and renumbered, or looked at otherwise.
LEMMA SameIds ==
  ASSUME NEW s, IsList(s), NEW r, DOMAIN r = DOMAIN s, \A i \in DOMAIN s : r[i].id = s[i].id
  PROVE  IdSet(r) = IdSet(s) /\ (Once(s) => Once(r))
  BY DEF IdSet, Once

\* The ids of a list as a text.
LEMMA RangeOfIds ==
  ASSUME NEW s, IsList(s)
  PROVE  Range(IdsOf(s)) = IdSet(s) /\ IsList(IdsOf(s)) /\ Len(IdsOf(s)) = Len(s)
  BY IdsAreAList DEF Range, IdsOf, IdSet

\* What is left when some members go.
LEMMA LeftIds ==
  ASSUME NEW X, NEW s \in Seq(X), Once(s), NEW gone \in SUBSET Range(s)
  PROVE  /\ Only(s, Range(s) \ gone) \in Seq(X) /\ Once(Only(s, Range(s) \ gone))
         /\ IdSet(Only(s, Range(s) \ gone)) = IdSet(s) \ {d.id : d \in gone}
<1> DEFINE S == Range(s) \ gone
           r == Only(s, S)
<1>1. /\ r \in Seq(X \cap S)
      /\ \A k \in DOMAIN r : \E i \in DOMAIN s : r[k] = s[i]
      /\ \A i \in DOMAIN s : s[i] \in S => \E k \in DOMAIN r : r[k] = s[i]
  BY OnlyMembers
<1>2. \A i, j \in DOMAIN s : s[i] = s[j] => i = j
  BY DEF Once
<1>3. \A k, l \in DOMAIN r : r[k] = r[l] => k = l
  BY <1>2, OnlyMembers
<1>4. \A k \in DOMAIN r : r[k] \in S
  BY <1>1
<1>5. r \in Seq(X)
  BY <1>1
<1> HIDE DEF r
<1>6. Once(r)
  BY <1>1, <1>3 DEF Once
<1>7. IdSet(r) \subseteq IdSet(s) \ {d.id : d \in gone}
  BY <1>1, <1>4 DEF Once, IdSet, Range
<1>8. IdSet(s) \ {d.id : d \in gone} \subseteq IdSet(r)
  BY <1>1 DEF IdSet, Range
<1> QED
  BY <1>5, <1>6, <1>7, <1>8 DEF r

-----------------------------------------------------------------------------
(* The contents of a stack of traps, and the text that is rebuilt of them. *)

ContentsStep(stack, upTo, i) == IF i = 0 THEN <<>> ELSE upTo[i - 1] \o stack[i].container

\* The recursion in ContentsOf defines a function.
LEMMA ContentsExist ==
  ASSUME NEW stack, NEW n \in Nat
  PROVE  \E upTo : upTo = [i \in 0 .. n |-> ContentsStep(stack, upTo, i)]
<1> DEFINE Good(m) == \E upTo : upTo = [i \in 0 .. m |-> ContentsStep(stack, upTo, i)]
           G == {m \in Nat : Good(m)}
<1>1. 0 \in G
  <2> DEFINE upTo == [i \in 0 .. 0 |-> <<>>]
  <2>1. upTo = [i \in 0 .. 0 |-> ContentsStep(stack, upTo, i)]
    BY DEF ContentsStep
  <2> QED
    BY <2>1
<1>2. ASSUME NEW m \in G PROVE m + 1 \in G
  <2>1. PICK upTo : upTo = [i \in 0 .. m |-> ContentsStep(stack, upTo, i)]
    OBVIOUS
  <2> DEFINE more == [i \in 0 .. m + 1 |->
                        IF i = m + 1 THEN ContentsStep(stack, upTo, m + 1) ELSE upTo[i]]
  <2>2. \A i \in 0 .. m + 1 : more[i] = ContentsStep(stack, more, i)
    <3>1. \A i \in 0 .. m : more[i] = upTo[i]
      OBVIOUS
    <3>2. \A i \in 0 .. m : upTo[i] = ContentsStep(stack, upTo, i)
      BY <2>1
    <3>3. more[m + 1] = ContentsStep(stack, upTo, m + 1)
      OBVIOUS
    <3> HIDE DEF more
    <3>4. ASSUME NEW i \in 0 .. m + 1 PROVE ContentsStep(stack, more, i) = ContentsStep(stack, upTo, i)
      <4>1. i # 0 => i - 1 \in 0 .. m
        OBVIOUS
      <4> QED
        BY <3>1, <4>1 DEF ContentsStep
    <3> QED
      BY <3>1, <3>2, <3>3, <3>4
  <2>3. more = [i \in 0 .. m + 1 |-> more[i]]
    OBVIOUS
  <2> HIDE DEF more
  <2>4. Good(m + 1)
    BY <2>2, <2>3
  <2> QED
    BY <2>4
<1>3. G = Nat
  <2>1. G \in SUBSET Nat
    OBVIOUS
  <2> HIDE DEF G
  <2> QED
    BY <1>1, <1>2, <2>1, AllNumbers
<1> QED
  BY <1>3

\* One trap more.
LEMMA ContentsNext ==
  ASSUME NEW stack, Len(stack) \in Nat
  PROVE  /\ ContentsOf(stack, 0) = <<>>
         /\ \A n \in 0 .. Len(stack) - 1 :
              ContentsOf(stack, n + 1) = ContentsOf(stack, n) \o stack[n + 1].container
<1> DEFINE m == Len(stack)
           upTo == CHOOSE upTo : upTo = [i \in 0 .. m |-> ContentsStep(stack, upTo, i)]
<1>1. upTo = [i \in 0 .. m |-> ContentsStep(stack, upTo, i)]
  BY ContentsExist
<1>2. \A n : ContentsOf(stack, n) = upTo[n]
  BY DEF ContentsOf, ContentsStep
<1> HIDE DEF upTo
<1>3. \A i \in 0 .. m : upTo[i] = ContentsStep(stack, upTo, i)
  BY <1>1
<1>4. upTo[0] = <<>>
  BY <1>3 DEF ContentsStep
<1>5. ASSUME NEW n \in 0 .. m - 1 PROVE upTo[n + 1] = upTo[n] \o stack[n + 1].container
  <2>1. n + 1 \in 0 .. m /\ n + 1 # 0 /\ (n + 1) - 1 = n
    OBVIOUS
  <2> QED
    BY <1>3, <2>1 DEF ContentsStep
<1> QED
  BY <1>2, <1>4, <1>5

Stacks(X) == Seq([container : Seq(X), logStart : Nat \cup {Unset}])

\* What a stack of traps is made of.
LEMMA StackFacts ==
  ASSUME NEW X, NEW stack \in Stacks(X)
  PROVE  /\ Len(stack) \in Nat /\ DOMAIN stack = 1 .. Len(stack) /\ IsList(stack)
         /\ \A i \in 1 .. Len(stack) :
              /\ stack[i] = [container |-> stack[i].container, logStart |-> stack[i].logStart]
              /\ stack[i].container \in Seq(X) /\ stack[i].logStart \in Nat \cup {Unset}
<1> DEFINE T == [container : Seq(X), logStart : Nat \cup {Unset}]
<1>1. \A x \in T : /\ x = [container |-> x.container, logStart |-> x.logStart]
                   /\ x.container \in Seq(X) /\ x.logStart \in Nat \cup {Unset}
  OBVIOUS
<1>2. stack \in Seq(T)
  BY DEF Stacks
<1> HIDE DEF T
<1>3. Len(stack) \in Nat /\ DOMAIN stack = 1 .. Len(stack) /\ \A i \in 1 .. Len(stack) : stack[i] \in T
  BY <1>2
<1> QED
  BY <1>1, <1>2, <1>3 DEF IsList

\* Induction over a stack's traps, from the n-th to the last.
LEMMA TrapByTrap ==
  ASSUME NEW m \in Nat, NEW k \in 0 .. m, NEW G \in SUBSET (k .. m), k \in G,
         \A n \in k .. m - 1 : n \in G => n + 1 \in G
  PROVE  \A n \in k .. m : n \in G
<1> DEFINE H == {n \in Nat : k + n <= m => k + n \in G}
<1>1. 0 \in H
  OBVIOUS
<1>2. ASSUME NEW n \in H PROVE n + 1 \in H
  <2>1. SUFFICES ASSUME k + (n + 1) <= m PROVE k + (n + 1) \in G
    OBVIOUS
  <2>2. k + n \in k .. m - 1 /\ k + n \in G /\ (k + n) + 1 = k + (n + 1)
    BY <2>1
  <2> QED
    BY <2>2
<1>3. H = Nat
  <2>1. H \in SUBSET Nat
    OBVIOUS
  <2> HIDE DEF H
  <2> QED
    BY <1>1, <1>2, <2>1, AllNumbers
<1>4. ASSUME NEW n \in k .. m PROVE n \in G
  <2>1. n - k \in Nat /\ k + (n - k) = n /\ n <= m
    OBVIOUS
  <2>2. n - k \in H
    BY <1>3, <2>1
  <2> QED
    BY <2>1, <2>2
<1> QED
  BY <1>4

\* The contents are lists,
LEMMA ContentsAreLists ==
  ASSUME NEW X, NEW stack \in Stacks(X)
  PROVE  \A n \in 0 .. Len(stack) : ContentsOf(stack, n) \in Seq(X)
<1> DEFINE m == Len(stack)
           G == {n \in 0 .. m : ContentsOf(stack, n) \in Seq(X)}
<1>1. m \in Nat /\ \A i \in 1 .. m : stack[i].container \in Seq(X)
  BY StackFacts
<1>2. 0 \in G
  <2>1. ContentsOf(stack, 0) = <<>> /\ 0 \in 0 .. m
    BY <1>1, ContentsNext
  <2>2. <<>> \in Seq(X)
    OBVIOUS
  <2> QED
    BY <2>1, <2>2
<1>3. ASSUME NEW n \in 0 .. m - 1, n \in G PROVE n + 1 \in G
  <2>1. n + 1 \in 0 .. m /\ n + 1 \in 1 .. m
    BY <1>1
  <2>2. ContentsOf(stack, n + 1) = ContentsOf(stack, n) \o stack[n + 1].container
    BY <1>1, ContentsNext
  <2>3. ContentsOf(stack, n) \in Seq(X) /\ stack[n + 1].container \in Seq(X)
    BY <1>1, <1>3, <2>1
  <2>4. ContentsOf(stack, n + 1) \in Seq(X)
    BY <2>2, <2>3, ConcatProperties
  <2> QED
    BY <2>1, <2>4
<1>4. \A n \in 0 .. m : n \in G
  <2> HIDE DEF G
  <2>1. G \in SUBSET (0 .. m)
    BY DEF G
  <2> QED
    BY <1>1, <1>2, <1>3, <2>1, TrapByTrap
<1> QED
  BY <1>4

\* the same as long as the traps contain the same,
LEMMA SameContents ==
  ASSUME NEW r, Len(r) \in Nat, NEW s, Len(s) \in Nat, NEW k \in Nat, k <= Len(r), k <= Len(s),
         \A i \in 1 .. k : r[i].container = s[i].container
  PROVE  \A n \in 0 .. k : ContentsOf(r, n) = ContentsOf(s, n)
<1> DEFINE G == {n \in 0 .. k : ContentsOf(r, n) = ContentsOf(s, n)}
<1>1. 0 \in G
  BY ContentsNext
<1>2. ASSUME NEW n \in 0 .. k - 1, n \in G PROVE n + 1 \in G
  <2>1. n + 1 \in 0 .. k /\ n + 1 \in 1 .. k /\ n \in 0 .. Len(r) - 1 /\ n \in 0 .. Len(s) - 1
    OBVIOUS
  <2>2. /\ ContentsOf(r, n + 1) = ContentsOf(r, n) \o r[n + 1].container
        /\ ContentsOf(s, n + 1) = ContentsOf(s, n) \o s[n + 1].container
    BY <2>1, ContentsNext
  <2> QED
    BY <1>2, <2>1, <2>2
<1>3. \A n \in 0 .. k : n \in G
  <2> HIDE DEF G
  <2>1. G \in SUBSET (0 .. k)
    BY DEF G
  <2> QED
    BY <1>1, <1>2, <2>1, TrapByTrap
<1> QED
  BY <1>3

\* longer with every trap,
LEMMA LongerContents ==
  ASSUME NEW X, NEW stack \in Stacks(X), NEW k \in 0 .. Len(stack)
  PROVE  \A n \in k .. Len(stack) :
           \E rest \in Seq(X) : ContentsOf(stack, n) = ContentsOf(stack, k) \o rest
<1> DEFINE m == Len(stack)
           Good(n) == \E rest \in Seq(X) : ContentsOf(stack, n) = ContentsOf(stack, k) \o rest
           G == {n \in k .. m : Good(n)}
<1>0. m \in Nat /\ \A i \in 1 .. m : stack[i].container \in Seq(X)
  BY StackFacts
<1>1. m \in Nat /\ (\A i \in 1 .. m : stack[i].container \in Seq(X)) /\ k \in Nat /\ k <= m
  BY <1>0
<1>2. \A n \in 0 .. m : ContentsOf(stack, n) \in Seq(X)
  BY ContentsAreLists
<1>3. Good(k)
  <2>1. ContentsOf(stack, k) \in Seq(X) /\ <<>> \in Seq(X)
    BY <1>2
  <2>2. ContentsOf(stack, k) = ContentsOf(stack, k) \o <<>>
    BY <2>1
  <2> QED
    BY <2>1, <2>2
<1>4. ASSUME NEW n \in k .. m - 1, Good(n) PROVE Good(n + 1)
  <2>1. PICK rest \in Seq(X) : ContentsOf(stack, n) = ContentsOf(stack, k) \o rest
    BY <1>4
  <2>2. n \in 0 .. m - 1 /\ n + 1 \in 1 .. m
    BY <1>1
  <2>3. /\ ContentsOf(stack, n + 1) = ContentsOf(stack, n) \o stack[n + 1].container
        /\ stack[n + 1].container \in Seq(X) /\ ContentsOf(stack, k) \in Seq(X)
    BY <1>1, <1>2, <2>2, ContentsNext
  <2>4. rest \o stack[n + 1].container \in Seq(X)
    BY <2>3
  <2>5. (ContentsOf(stack, k) \o rest) \o stack[n + 1].container
          = ContentsOf(stack, k) \o (rest \o stack[n + 1].container)
    <3>1. ContentsOf(stack, k) \in Seq(X)
      BY <2>3
    <3>2. stack[n + 1].container \in Seq(X)
      BY <2>3
    <3>3. rest \in Seq(X)
      BY <2>1
    <3>4. IsList(ContentsOf(stack, k)) /\ IsList(stack[n + 1].container) /\ IsList(rest)
      BY <3>1, <3>2, <3>3 DEF IsList
    <3> DEFINE a == ContentsOf(stack, k)
               c == stack[n + 1].container
    <3>5. IsList(a) /\ IsList(rest) /\ IsList(c)
      BY <3>4
    <3> HIDE DEF a, c, m, Good, G
    <3>6. (a \o rest) \o c = a \o (rest \o c)
      BY <3>5, ThreeInARow
    <3> QED
      BY <3>6 DEF a, c
  <2> QED
    BY <2>1, <2>3, <2>4, <2>5
<1>5. k \in G /\ \A n \in k .. m - 1 : n \in G => n + 1 \in G
  <2>1. k \in k .. m /\ \A n \in k .. m - 1 : n + 1 \in k .. m
    BY <1>1
  <2> HIDE DEF Good
  <2> QED
    BY <1>3, <1>4, <2>1
<1>6. \A n \in k .. m : n \in G
  <2>1. G \in SUBSET (k .. m)
    OBVIOUS
  <2> HIDE DEF G
  <2> QED
    BY <1>1, <1>5, <2>1, TrapByTrap
<1> QED
  BY <1>6

\* and of the ids that the traps contain.
LEMMA IdsOfContents ==
  ASSUME NEW X, NEW stack \in Stacks(X), NEW i \in 1 .. Len(stack)
  PROVE  IdSet(stack[i].container) \subseteq IdSet(ContentsOf(stack, Len(stack)))
<1> DEFINE m == Len(stack)
<1>0. m \in Nat /\ stack[i].container \in Seq(X)
  BY StackFacts
<1>1. /\ m \in Nat /\ stack[i].container \in Seq(X) /\ m \in i .. m
      /\ i - 1 \in 0 .. m - 1 /\ (i - 1) + 1 = i /\ i \in 0 .. m /\ i - 1 \in 0 .. m
  BY <1>0
<1>2. ContentsOf(stack, i) = ContentsOf(stack, i - 1) \o stack[i].container
  BY <1>1, ContentsNext
<1>3. PICK rest \in Seq(X) : ContentsOf(stack, m) = ContentsOf(stack, i) \o rest
  <2>1. i \in 0 .. Len(stack) /\ Len(stack) \in i .. Len(stack)
    BY <1>1
  <2>2. \A n \in i .. Len(stack) :
          \E rest \in Seq(X) : ContentsOf(stack, n) = ContentsOf(stack, i) \o rest
    BY <2>1, LongerContents, Zenon
  <2> QED
    BY <2>1, <2>2, Zenon
<1>4. ContentsOf(stack, i) \in Seq(X) /\ ContentsOf(stack, i - 1) \in Seq(X)
  BY <1>1, ContentsAreLists
<1>5. IdSet(stack[i].container) \subseteq IdSet(ContentsOf(stack, i))
  BY <1>1, <1>2, <1>4, JoinedIds DEF IsList
<1>6. IdSet(ContentsOf(stack, i)) \subseteq IdSet(ContentsOf(stack, m))
  BY <1>3, <1>4, JoinedIds DEF IsList
<1> QED
  BY <1>5, <1>6

-----------------------------------------------------------------------------
(* The loop of _RebuildTrappedDiagnosticsLogText. *)

ScanStep(kept, stack, scanned, i) ==
  IF i = 0 THEN [pos |-> 0, log |-> kept] ELSE AppendTrap(scanned[i - 1], stack[i])

\* The loop of _RebuildTrappedDiagnosticsLogText, as a function.
LEMMA ScanExists ==
  ASSUME NEW kept, NEW stack, NEW n \in Nat
  PROVE  \E scanned : scanned = [i \in 0 .. n |-> ScanStep(kept, stack, scanned, i)]
<1> DEFINE Good(m) == \E scanned : scanned = [i \in 0 .. m |-> ScanStep(kept, stack, scanned, i)]
           G == {m \in Nat : Good(m)}
<1>1. 0 \in G
  <2> DEFINE scanned == [i \in 0 .. 0 |-> [pos |-> 0, log |-> kept]]
  <2>1. scanned = [i \in 0 .. 0 |-> ScanStep(kept, stack, scanned, i)]
    BY DEF ScanStep
  <2> QED
    BY <2>1
<1>2. ASSUME NEW m \in G PROVE m + 1 \in G
  <2>1. PICK scanned : scanned = [i \in 0 .. m |-> ScanStep(kept, stack, scanned, i)]
    OBVIOUS
  <2> DEFINE more == [i \in 0 .. m + 1 |->
                        IF i = m + 1 THEN ScanStep(kept, stack, scanned, m + 1) ELSE scanned[i]]
  <2>2. \A i \in 0 .. m + 1 : more[i] = ScanStep(kept, stack, more, i)
    <3>1. \A i \in 0 .. m : more[i] = scanned[i]
      OBVIOUS
    <3>2. \A i \in 0 .. m : scanned[i] = ScanStep(kept, stack, scanned, i)
      BY <2>1
    <3>3. more[m + 1] = ScanStep(kept, stack, scanned, m + 1)
      OBVIOUS
    <3> HIDE DEF more
    <3>4. ASSUME NEW i \in 0 .. m + 1
          PROVE  ScanStep(kept, stack, more, i) = ScanStep(kept, stack, scanned, i)
      <4>1. i # 0 => i - 1 \in 0 .. m
        OBVIOUS
      <4> QED
        BY <3>1, <4>1 DEF ScanStep
    <3> QED
      BY <3>1, <3>2, <3>3, <3>4
  <2>3. more = [i \in 0 .. m + 1 |-> more[i]]
    OBVIOUS
  <2> HIDE DEF more
  <2>4. Good(m + 1)
    BY <2>2, <2>3
  <2> QED
    BY <2>4
<1>3. G = Nat
  <2>1. G \in SUBSET Nat
    OBVIOUS
  <2> HIDE DEF G
  <2> QED
    BY <1>1, <1>2, <2>1, AllNumbers
<1> QED
  BY <1>3

\* A round behind the part that was kept appends the trap's ids,
LEMMA RoundBehind ==
  ASSUME NEW c, IsList(c), NEW trap, IsList(trap.container)
  PROVE  AppendTrap([pos |-> Len(c), log |-> IdsOf(c)], trap)
           = [pos |-> Len(c \o trap.container), log |-> IdsOf(c \o trap.container)]
<1> DEFINE m == trap.container
           log == IdsOf(c)
           end == Len(c) + Len(m)
           skip == Max({0, Len(log) - Len(c)})
<1>1. Len(c) \in Nat /\ Len(m) \in Nat /\ Len(c \o m) = Len(c) + Len(m)
  BY Appended
<1>2. Len(log) = Len(c)
  BY IdsAreAList
<1>3. skip = 0
  <2>1. Len(log) - Len(c) = 0
    BY <1>1, <1>2
  <2>2. Max({0, 0}) = 0
    BY DEF Max
  <2> QED
    BY <2>1, <2>2
<1>4. SubSeq(m, 1, Len(m)) = m
  <2>1. PICK S : m \in Seq(S)
    BY DEF IsList
  <2> QED
    BY <2>1
<1>5. IdsOf(c \o m) = log \o IdsOf(m)
  BY IdsAdded
<1>6. end <= Len(log) => c \o m = c
  <2>1. SUFFICES ASSUME end <= Len(log) PROVE c \o m = c
    OBVIOUS
  <2>2. Len(m) = 0
    BY <1>1, <1>2, <2>1
  <2>3. PICK S : m \in Seq(S)
    BY DEF IsList
  <2>4. PICK R : c \in Seq(R)
    BY DEF IsList
  <2>5. m = <<>>
    BY <2>2, <2>3
  <2> QED
    BY <2>4, <2>5
<1>7. AppendTrap([pos |-> Len(c), log |-> log], trap)
        = [pos |-> end,
           log |-> IF end <= Len(log) THEN log
                   ELSE log \o IdsOf(SubSeq(m, skip + 1, Len(m)))]
  BY DEF AppendTrap
<1> HIDE DEF skip, m, log
<1>8. skip + 1 = 1
  BY <1>3
<1> QED
  BY <1>1, <1>4, <1>5, <1>6, <1>7, <1>8 DEF m, log

\* and one within it leaves the text alone.
LEMMA RoundWithin ==
  ASSUME NEW c, IsList(c), NEW log, NEW trap, IsList(trap.container),
         Len(c \o trap.container) <= Len(log)
  PROVE  AppendTrap([pos |-> Len(c), log |-> log], trap)
           = [pos |-> Len(c \o trap.container), log |-> log]
<1>1. Len(c \o trap.container) = Len(c) + Len(trap.container)
  BY Appended
<1> QED
  BY <1>1 DEF AppendTrap

\* The text is rebuilt from the trap on that has changed: the traps below it
\* contain what they did, and its part of the text began where theirs ended.
LEMMA RebuiltTrappedIsRight ==
  ASSUME NEW X, NEW old \in Stacks(X), NEW stack \in Stacks(X),
         NEW k \in 0 .. Len(old), k <= Len(stack),
         \A i \in 1 .. k : stack[i].container = old[i].container
  PROVE  RebuiltTrapped(IdsOf(ContentsOf(old, Len(old))), stack, Len(ContentsOf(old, k)))
           = IdsOf(ContentsOf(stack, Len(stack)))
<1> DEFINE n == Len(stack)
           all == ContentsOf(old, Len(old))
           base == ContentsOf(stack, k)
           kept == IdsOf(base)
           scanned == CHOOSE scanned : scanned = [i \in 0 .. n |-> ScanStep(kept, stack, scanned, i)]
<1>1. Len(old) \in Nat /\ n \in Nat /\ \A i \in 1 .. n : stack[i].container \in Seq(X)
  BY StackFacts
<1>2. k \in Nat /\ k \in 0 .. n /\ k <= Len(old)
  BY <1>1
<1>3. ContentsOf(old, k) = base
  BY <1>1, <1>2, SameContents
<1>4. \A i \in 0 .. n : ContentsOf(stack, i) \in Seq(X)
  BY ContentsAreLists
<1>5. base \in Seq(X) /\ IsList(base)
  BY <1>2, <1>4 DEF IsList
<1>6. PICK rest \in Seq(X) : all = base \o rest
  <2>1. Len(old) \in k .. Len(old)
    BY <1>1, <1>2
  <2>2. \A j \in k .. Len(old) : \E r \in Seq(X) : ContentsOf(old, j) = ContentsOf(old, k) \o r
    BY LongerContents
  <2> QED
    BY <1>3, <2>1, <2>2
<1>7. Len(base) \in Nat /\ Len(kept) = Len(base) /\ IsList(kept)
  <2> HIDE DEF base
  <2> QED
    BY <1>5, IdsAreAList DEF IsList
<1>8. SubSeq(IdsOf(all), 1, Min({Len(base), Len(IdsOf(all))})) = kept
  <2> HIDE DEF base, all
  <2>1. IsList(rest) /\ IsList(IdsOf(rest)) /\ IdsOf(all) = kept \o IdsOf(rest)
    BY <1>5, <1>6, IdsAdded, IdsAreAList DEF IsList
  <2> DEFINE r == IdsOf(rest)
             v == Len(base)
             log == IdsOf(all)
  <2> HIDE DEF r, v, kept, log
  <2>2. log = kept \o r /\ IsList(r) /\ IsList(kept) /\ Len(kept) = v /\ v \in Nat
    BY <1>7, <2>1 DEF r, v, log
  <2>3. /\ IsList(log) /\ Len(log) = v + Len(r) /\ Len(r) \in Nat
        /\ \A i \in 1 .. v + Len(r) : log[i] = IF i <= v THEN kept[i] ELSE r[i - v]
    BY <2>2, Appended
  <2>4. Min({v, Len(log)}) = v
    <3>1. Len(log) \in Nat /\ v <= Len(log)
      BY <2>2, <2>3
    <3> QED
      BY <2>2, <3>1 DEF Min
  <2>5. v \in 0 .. Len(log)
    BY <2>2, <2>3
  <2>6. /\ IsList(SubSeq(log, 1, v)) /\ Len(SubSeq(log, 1, v)) = v
        /\ \A i \in 1 .. v : SubSeq(log, 1, v)[i] = log[i]
    BY <2>3, <2>5, Shortened
  <2>7. \A i \in 1 .. v : log[i] = kept[i]
    BY <2>2, <2>3
  <2>8. SubSeq(log, 1, v) = kept
    <3> DEFINE q == SubSeq(log, 1, v)
    <3>1. IsList(q) /\ Len(q) = v /\ \A i \in 1 .. v : q[i] = kept[i]
      BY <2>6, <2>7
    <3> HIDE DEF q
    <3>2. q = kept
      BY <2>2, <3>1, SameList
    <3> QED
      BY <3>2 DEF q
  <2> QED
    BY <2>4, <2>8 DEF v, log
<1>9. scanned = [i \in 0 .. n |-> ScanStep(kept, stack, scanned, i)]
  <2> HIDE DEF kept
  <2> QED
    BY <1>1, ScanExists
<1>10. RebuiltTrapped(IdsOf(all), stack, Len(ContentsOf(old, k))) = scanned[n].log
  <2>1. Len(base) # Unset
    BY <1>7 DEF Unset
  <2> HIDE DEF base, all
  <2> QED
    BY <1>3, <1>8, <2>1 DEF RebuiltTrapped, ScanStep
<1> HIDE DEF scanned, kept, base, all
<1>11. \A i \in 0 .. n : scanned[i] = ScanStep(kept, stack, scanned, i)
  BY <1>9
<1>12. ASSUME NEW i \in 0 .. n - 1 PROVE scanned[i + 1] = AppendTrap(scanned[i], stack[i + 1])
  <2>1. i + 1 \in 0 .. n /\ i + 1 # 0 /\ (i + 1) - 1 = i
    BY <1>1
  <2> QED
    BY <1>11, <2>1 DEF ScanStep
<1>13. ASSUME NEW i \in 0 .. n - 1
       PROVE  /\ ContentsOf(stack, i + 1) = ContentsOf(stack, i) \o stack[i + 1].container
              /\ IsList(ContentsOf(stack, i)) /\ IsList(stack[i + 1].container)
  <2>1. i \in 0 .. n /\ i + 1 \in 1 .. n
    BY <1>1
  <2> QED
    BY <1>1, <1>4, <2>1, ContentsNext DEF IsList
<1> DEFINE Within(i) == scanned[i] = [pos |-> Len(ContentsOf(stack, i)), log |-> kept]
           Behind(i) == scanned[i] = [pos |-> Len(ContentsOf(stack, i)), log |-> IdsOf(ContentsOf(stack, i))]
           G == {i \in 0 .. k : Within(i)}
           H == {i \in k .. n : Behind(i)}
<1>14. 0 \in G
  <2>1. ContentsOf(stack, 0) = <<>> /\ Len(<<>>) = 0
    BY <1>1, ContentsNext
  <2>2. scanned[0] = [pos |-> 0, log |-> kept] /\ 0 \in 0 .. k
    BY <1>1, <1>2, <1>11 DEF ScanStep
  <2> QED
    BY <2>1, <2>2
<1>15. ASSUME NEW i \in 0 .. k - 1, i \in G PROVE i + 1 \in G
  <2>1. i \in 0 .. n - 1 /\ i + 1 \in 0 .. n /\ k \in i + 1 .. n /\ i + 1 \in 0 .. k
    BY <1>1, <1>2
  <2>2. scanned[i] = [pos |-> Len(ContentsOf(stack, i)), log |-> kept]
    BY <1>15
  <2>3. Len(ContentsOf(stack, i + 1)) <= Len(kept)
    <3> DEFINE a == ContentsOf(stack, i + 1)
    <3>1. PICK more \in Seq(X) : base = a \o more
      <4>1. \A j \in i + 1 .. n : \E r \in Seq(X) : ContentsOf(stack, j) = a \o r
        BY <2>1, LongerContents
      <4> QED
        BY <2>1, <4>1 DEF base
    <3>2. a \in Seq(X)
      BY <1>4, <2>1
    <3> HIDE DEF a
    <3>3. IsList(a) /\ IsList(more)
      BY <3>1, <3>2 DEF IsList
    <3>4. Len(a) \in Nat /\ Len(more) \in Nat /\ Len(a \o more) = Len(a) + Len(more)
      BY <3>3, Appended
    <3>5. Len(a) <= Len(kept)
      BY <1>7, <3>1, <3>4
    <3> QED
      BY <3>5 DEF a
  <2>4. scanned[i + 1] = [pos |-> Len(ContentsOf(stack, i + 1)), log |-> kept]
    <3> DEFINE c == ContentsOf(stack, i)
               trap == stack[i + 1]
    <3>1. IsList(c) /\ IsList(trap.container) /\ Len(c \o trap.container) <= Len(kept)
      BY <1>13, <2>1, <2>3
    <3>2. scanned[i + 1] = AppendTrap([pos |-> Len(c), log |-> kept], trap)
      BY <1>12, <2>1, <2>2
    <3> HIDE DEF c, trap
    <3>3. scanned[i + 1] = [pos |-> Len(c \o trap.container), log |-> kept]
      BY <3>1, <3>2, RoundWithin
    <3> QED
      BY <1>13, <2>1, <3>3 DEF c, trap
  <2> QED
    BY <2>1, <2>4
<1>16. k \in G
  <2>1. G \in SUBSET (0 .. k) /\ 0 \in 0 .. k /\ k \in 0 .. k
    BY <1>2
  <2>2. \A i \in 0 .. k - 1 : i \in G => i + 1 \in G
    BY <1>15
  <2> HIDE DEF G
  <2> QED
    BY <1>2, <1>14, <2>1, <2>2, TrapByTrap
<1>17. k \in H
  <2>1. k \in k .. n
    BY <1>1, <1>2
  <2> QED
    BY <1>16, <2>1 DEF kept, base
<1>18. ASSUME NEW i \in k .. n - 1, i \in H PROVE i + 1 \in H
  <2>1. i \in 0 .. n - 1 /\ i + 1 \in k .. n
    BY <1>1, <1>2
  <2>2. scanned[i] = [pos |-> Len(ContentsOf(stack, i)), log |-> IdsOf(ContentsOf(stack, i))]
    BY <1>18
  <2>3. Behind(i + 1)
    <3> DEFINE c == ContentsOf(stack, i)
               trap == stack[i + 1]
    <3>1. IsList(c) /\ IsList(trap.container)
      BY <1>13, <2>1
    <3>2. scanned[i + 1] = AppendTrap([pos |-> Len(c), log |-> IdsOf(c)], trap)
      BY <1>12, <2>1, <2>2
    <3> HIDE DEF c, trap
    <3>3. scanned[i + 1] = [pos |-> Len(c \o trap.container), log |-> IdsOf(c \o trap.container)]
      BY <3>1, <3>2, RoundBehind
    <3> QED
      BY <1>13, <2>1, <3>3 DEF c, trap
  <2> QED
    BY <2>1, <2>3
<1>19. n \in H
  <2>1. H \in SUBSET (k .. n) /\ n \in k .. n
    BY <1>1, <1>2
  <2>2. \A i \in k .. n - 1 : i \in H => i + 1 \in H
    BY <1>18
  <2> HIDE DEF H
  <2> QED
    BY <1>1, <1>2, <1>17, <2>1, <2>2, TrapByTrap
<1>20. scanned[n].log = IdsOf(ContentsOf(stack, n))
  BY <1>19
<1> QED
  BY <1>10, <1>20 DEF all

-----------------------------------------------------------------------------
(* The places of a diagnostic: shelves, each with a list of diagnostics.   *)

Shelves ==
  {ErrorList(t) : t \in Threads} \cup {Report(t) : t \in Threads}
    \cup {TrapAt(t, i) : t \in Threads, i \in Nat}
    \cup {Transport("ErrorTransport"), Transport("DiagnosticTransport")}

\* What is on each, which is nothing where there is no trap.
Shelved == [h \in Shelves |-> IF h \in Holders THEN Held(h) ELSE <<>>]

\* The ids of O are each on one shelf, once, and nothing else is.
Sorted(F, O) ==
  /\ \A h \in Shelves : IsList(F[h]) /\ Once(F[h]) /\ IdSet(F[h]) \subseteq O
  /\ \A h, k \in Shelves : h # k => IdSet(F[h]) \cap IdSet(F[k]) = {}
  /\ \A id \in O : \E h \in Shelves : id \in IdSet(F[h])

\* A step that changes two shelves, or one: some ids are gone, some are new.
LEMMA Rearranged ==
  ASSUME NEW F, NEW O, Sorted(F, O), NEW G, NEW a \in Shelves, NEW b \in Shelves,
         \A h \in Shelves : h # a /\ h # b => G[h] = F[h],
         IsList(G[a]), Once(G[a]), IsList(G[b]), Once(G[b]),
         a # b => IdSet(G[a]) \cap IdSet(G[b]) = {},
         NEW gone, gone \subseteq IdSet(F[a]) \cup IdSet(F[b]),
         NEW new, new \cap O = {},
         IdSet(G[a]) \cup IdSet(G[b]) = ((IdSet(F[a]) \cup IdSet(F[b])) \ gone) \cup new
  PROVE  Sorted(G, (O \ gone) \cup new)
<1> DEFINE P == (O \ gone) \cup new
<1>1. ASSUME NEW h \in Shelves PROVE IsList(G[h]) /\ Once(G[h])
  BY DEF Sorted
<1>2. ASSUME NEW h \in Shelves, h # a, h # b
      PROVE  IdSet(G[h]) \cap (IdSet(F[a]) \cup IdSet(F[b]) \cup new) = {}
  BY <1>2 DEF Sorted
<1>3. ASSUME NEW h \in Shelves PROVE IdSet(G[h]) \subseteq P
  <2>1. CASE h # a /\ h # b
    BY <1>2, <2>1 DEF Sorted
  <2>2. CASE h = a \/ h = b
    <3>1. IdSet(F[a]) \subseteq O /\ IdSet(F[b]) \subseteq O
      BY DEF Sorted
    <3> QED
      BY <2>2, <3>1
  <2> QED
    BY <2>1, <2>2
<1>4. ASSUME NEW h \in Shelves, NEW k \in Shelves, h # k
      PROVE  IdSet(G[h]) \cap IdSet(G[k]) = {}
  <2>1. CASE h # a /\ h # b /\ k # a /\ k # b
    BY <1>4, <2>1 DEF Sorted
  <2>2. IdSet(G[a]) \cup IdSet(G[b]) \subseteq IdSet(F[a]) \cup IdSet(F[b]) \cup new
    OBVIOUS
  <2>3. CASE h # a /\ h # b /\ (k = a \/ k = b)
    BY <1>2, <2>2, <2>3
  <2>4. CASE k # a /\ k # b /\ (h = a \/ h = b)
    BY <1>2, <2>2, <2>4
  <2>5. CASE (h = a \/ h = b) /\ (k = a \/ k = b)
    BY <1>4, <2>5
  <2> QED
    BY <2>1, <2>3, <2>4, <2>5
<1>5. ASSUME NEW id \in P PROVE \E h \in Shelves : id \in IdSet(G[h])
  <2>1. CASE id \in IdSet(G[a]) \cup IdSet(G[b])
    BY <2>1
  <2>2. CASE id \notin IdSet(G[a]) \cup IdSet(G[b])
    <3>1. id \in O /\ id \notin IdSet(F[a]) \cup IdSet(F[b])
      BY <2>2
    <3>2. PICK h \in Shelves : id \in IdSet(F[h])
      BY <3>1 DEF Sorted
    <3> QED
      BY <3>1, <3>2
  <2> QED
    BY <2>1, <2>2
<1> QED
  BY <1>1, <1>3, <1>4, <1>5 DEF Sorted

\* Some go from one shelf to another,
LEMMA Moved ==
  ASSUME NEW F, NEW O, Sorted(F, O), NEW G, NEW a \in Shelves, NEW b \in Shelves, a # b,
         \A h \in Shelves : h # a /\ h # b => G[h] = F[h],
         IsList(G[a]), Once(G[a]), IsList(G[b]), Once(G[b]),
         NEW some, some \subseteq IdSet(F[a]),
         IdSet(G[a]) = IdSet(F[a]) \ some, IdSet(G[b]) = IdSet(F[b]) \cup some
  PROVE  Sorted(G, O)
<1>1. IdSet(F[a]) \cap IdSet(F[b]) = {}
  BY DEF Sorted
<1>2. IdSet(G[a]) \cap IdSet(G[b]) = {}
  BY <1>1
<1>3. IdSet(G[a]) \cup IdSet(G[b]) = ((IdSet(F[a]) \cup IdSet(F[b])) \ {}) \cup {}
  OBVIOUS
<1>4. (O \ {}) \cup {} = O
  OBVIOUS
<1>5. {} \subseteq IdSet(F[a]) \cup IdSet(F[b]) /\ {} \cap O = {}
  OBVIOUS
<1>6. Sorted(G, (O \ {}) \cup {})
  BY <1>2, <1>3, <1>5, Rearranged
<1> QED
  BY <1>4, <1>6

\* leave a shelf for good,
LEMMA TakenAway ==
  ASSUME NEW F, NEW O, Sorted(F, O), NEW G, NEW a \in Shelves,
         \A h \in Shelves : h # a => G[h] = F[h],
         IsList(G[a]), Once(G[a]),
         NEW gone, gone \subseteq IdSet(F[a]), IdSet(G[a]) = IdSet(F[a]) \ gone
  PROVE  Sorted(G, O \ gone)
<1>1. IdSet(G[a]) \cup IdSet(G[a]) = ((IdSet(F[a]) \cup IdSet(F[a])) \ gone) \cup {}
  OBVIOUS
<1>2. (O \ gone) \cup {} = O \ gone
  OBVIOUS
<1>3. Sorted(G, (O \ gone) \cup {})
  BY <1>1, Rearranged
<1> QED
  BY <1>2, <1>3

\* or some come.
LEMMA PutDown ==
  ASSUME NEW F, NEW O, Sorted(F, O), NEW G, NEW a \in Shelves,
         \A h \in Shelves : h # a => G[h] = F[h],
         IsList(G[a]), Once(G[a]),
         NEW new, new \cap O = {}, IdSet(G[a]) = IdSet(F[a]) \cup new
  PROVE  Sorted(G, O \cup new)
<1>1. IdSet(G[a]) \cup IdSet(G[a]) = ((IdSet(F[a]) \cup IdSet(F[a])) \ {}) \cup new
  OBVIOUS
<1>2. (O \ {}) \cup new = O \cup new
  OBVIOUS
<1>3. {} \subseteq IdSet(F[a]) \cup IdSet(F[a]) /\ new \cap O = {}
  OBVIOUS
<1>4. Sorted(G, (O \ {}) \cup new)
  BY <1>1, <1>3, Rearranged
<1> QED
  BY <1>2, <1>4

-----------------------------------------------------------------------------

ContentAt(t, i) == IF i \in DOMAIN traps[t] THEN traps[t][i].container ELSE <<>>
InErrorTransport ==
  IF Free("ErrorTransport") /\ errorTransport.pin # <<>> THEN errorTransport.list ELSE <<>>
InDiagnosticTransport ==
  IF Free("DiagnosticTransport") THEN diagnosticTransport.list ELSE <<>>

\* The shelves differ,
LEMMA ShelvesDiffer ==
  ASSUME NEW t, NEW u, NEW i, NEW j
  PROVE  /\ ErrorList(t) = ErrorList(u) => t = u
         /\ Report(t) = Report(u) => t = u
         /\ TrapAt(t, i) = TrapAt(u, j) => t = u /\ i = j
         /\ ErrorList(t) # Report(u) /\ ErrorList(t) # TrapAt(u, j) /\ Report(t) # TrapAt(u, j)
         /\ \A what \in {"ErrorTransport", "DiagnosticTransport"} :
              Transport(what) \notin {ErrorList(t), Report(t), TrapAt(t, i)}
         /\ Transport("ErrorTransport") # Transport("DiagnosticTransport")
<1> DEFINE k(r) == r.kind
<1>1. /\ ErrorList(t).kind = "List" /\ ErrorList(t).of = t /\ ErrorList(u).of = u
      /\ Report(t).kind = "Report" /\ Report(u).kind = "Report" /\ Report(t).of = t /\ Report(u).of = u
      /\ TrapAt(t, i).kind = "Trap" /\ TrapAt(t, i).of = t /\ TrapAt(t, i).at = i
      /\ TrapAt(u, j).kind = "Trap" /\ TrapAt(u, j).of = u /\ TrapAt(u, j).at = j
      /\ Transport("ErrorTransport").kind = "ErrorTransport"
      /\ Transport("DiagnosticTransport").kind = "DiagnosticTransport"
  BY DEF ErrorList, Report, TrapAt, Transport
<1> QED
  BY <1>1

\* are where a trap is, or an error list, a report or a transport,
LEMMA HoldersAre ==
  ASSUME NEW h
  PROVE  h \in Holders <=>
           \/ \E t \in Threads : h = ErrorList(t) \/ h = Report(t)
           \/ \E t \in Threads : \E i \in DOMAIN traps[t] : h = TrapAt(t, i)
           \/ h = Transport("ErrorTransport") \/ h = Transport("DiagnosticTransport")
<1> DEFINE In(t) == {TrapAt(t, i) : i \in DOMAIN traps[t]}
           S == UNION {{TrapAt(t, i) : i \in DOMAIN traps[t]} : t \in Threads}
           L == {ErrorList(t) : t \in Threads}
           R == {Report(t) : t \in Threads}
           T == {Transport("ErrorTransport"), Transport("DiagnosticTransport")}
<1>1. h \in L <=> \E t \in Threads : h = ErrorList(t)
  OBVIOUS
<1>2. h \in R <=> \E t \in Threads : h = Report(t)
  OBVIOUS
<1>3. h \in S <=> \E t \in Threads : h \in In(t)
  <2>1. S = UNION {In(t) : t \in Threads}
    OBVIOUS
  <2> HIDE DEF In, S
  <2> QED
    BY <2>1
<1>4. \A t : h \in In(t) <=> \E i \in DOMAIN traps[t] : h = TrapAt(t, i)
  OBVIOUS
<1>5. h \in T <=> h = Transport("ErrorTransport") \/ h = Transport("DiagnosticTransport")
  OBVIOUS
<1>6. Holders = L \cup R \cup S \cup T
  BY DEF Holders
<1> HIDE DEF In, S, L, R, T
<1>7. h \in Holders <=> h \in L \/ h \in R \/ h \in S \/ h \in T
  BY <1>6
<1>8. h \in S <=> \E t \in Threads : \E i \in DOMAIN traps[t] : h = TrapAt(t, i)
  BY <1>3, <1>4
<1> QED
  BY <1>1, <1>2, <1>5, <1>7, <1>8

\* and hold what the state says.
LEMMA OnShelves ==
  /\ \A t \in Threads : ErrorList(t) \in Shelves /\ Shelved[ErrorList(t)] = Pending(t)
  /\ \A t \in Threads : Report(t) \in Shelves /\ Shelved[Report(t)] = work[t].todo
  /\ \A t \in Threads : \A i \in Nat :
       TrapAt(t, i) \in Shelves /\ Shelved[TrapAt(t, i)] = ContentAt(t, i)
  /\ Transport("ErrorTransport") \in Shelves
  /\ Shelved[Transport("ErrorTransport")] = InErrorTransport
  /\ Transport("DiagnosticTransport") \in Shelves
  /\ Shelved[Transport("DiagnosticTransport")] = InDiagnosticTransport
<1>1. ASSUME NEW t \in Threads
      PROVE  ErrorList(t) \in Shelves /\ Shelved[ErrorList(t)] = Pending(t)
  <2>1. ErrorList(t) \in Shelves /\ ErrorList(t) \in Holders
    BY HoldersAre DEF Shelves
  <2>2. Held(ErrorList(t)) = Pending(t)
    BY DEF Held, ErrorList
  <2> QED
    BY <2>1, <2>2 DEF Shelved
<1>2. ASSUME NEW t \in Threads
      PROVE  Report(t) \in Shelves /\ Shelved[Report(t)] = work[t].todo
  <2>1. Report(t) \in Shelves /\ Report(t) \in Holders
    BY HoldersAre DEF Shelves
  <2>2. Held(Report(t)) = work[t].todo
    BY DEF Held, Report
  <2> QED
    BY <2>1, <2>2 DEF Shelved
<1>3. ASSUME NEW t \in Threads, NEW i \in Nat
      PROVE  TrapAt(t, i) \in Shelves /\ Shelved[TrapAt(t, i)] = ContentAt(t, i)
  <2>1. TrapAt(t, i) \in Shelves
    BY DEF Shelves
  <2>2. Held(TrapAt(t, i)) = traps[t][i].container
    BY DEF Held, TrapAt
  <2>3. TrapAt(t, i) \in Holders <=> i \in DOMAIN traps[t]
    <3>1. i \in DOMAIN traps[t] => TrapAt(t, i) \in Holders
      BY HoldersAre
    <3>2. ASSUME TrapAt(t, i) \in Holders PROVE i \in DOMAIN traps[t]
      <4>1. \E u \in Threads : \E j \in DOMAIN traps[u] : TrapAt(t, i) = TrapAt(u, j)
        BY <3>2, ShelvesDiffer, HoldersAre
      <4> QED
        BY <4>1, ShelvesDiffer
    <3> QED
      BY <3>1, <3>2
  <2> QED
    BY <2>1, <2>2, <2>3 DEF Shelved, ContentAt
<1>4. /\ Transport("ErrorTransport") \in Shelves
      /\ Shelved[Transport("ErrorTransport")] = InErrorTransport
  <2>1. Transport("ErrorTransport") \in Shelves /\ Transport("ErrorTransport") \in Holders
    BY HoldersAre DEF Shelves
  <2>2. Held(Transport("ErrorTransport")) = InErrorTransport
    BY DEF Held, Transport, InErrorTransport
  <2> QED
    BY <2>1, <2>2 DEF Shelved
<1>5. /\ Transport("DiagnosticTransport") \in Shelves
      /\ Shelved[Transport("DiagnosticTransport")] = InDiagnosticTransport
  <2>1. Transport("DiagnosticTransport") \in Shelves /\ Transport("DiagnosticTransport") \in Holders
    BY HoldersAre DEF Shelves
  <2>2. Held(Transport("DiagnosticTransport")) = InDiagnosticTransport
    BY DEF Held, Transport, InDiagnosticTransport
  <2> QED
    BY <2>1, <2>2 DEF Shelved
<1> QED
  BY <1>1, <1>2, <1>3, <1>4, <1>5

\* They do so after a step as well.
LEMMA OnShelvesNext ==
  (/\ \A t \in Threads : ErrorList(t) \in Shelves /\ Shelved[ErrorList(t)] = Pending(t)
   /\ \A t \in Threads : Report(t) \in Shelves /\ Shelved[Report(t)] = work[t].todo
   /\ \A t \in Threads : \A i \in Nat :
        TrapAt(t, i) \in Shelves /\ Shelved[TrapAt(t, i)] = ContentAt(t, i)
   /\ Transport("ErrorTransport") \in Shelves
   /\ Shelved[Transport("ErrorTransport")] = InErrorTransport
   /\ Transport("DiagnosticTransport") \in Shelves
   /\ Shelved[Transport("DiagnosticTransport")] = InDiagnosticTransport)'
  BY OnShelves, PTL

\* A step of t leaves the shelves of the others as they are.
LEMMA ShelvesKept ==
  ASSUME NEW t, \A u \in Threads : u # t => /\ errors'[u] = errors[u] /\ work'[u] = work[u]
                                            /\ traps'[u] = traps[u],
         NEW A,
         t \in Threads => Pending(t)' = Pending(t) \/ ErrorList(t) \in A,
         t \in Threads => work'[t].todo = work[t].todo \/ Report(t) \in A,
         t \in Threads => \A i \in Nat : ContentAt(t, i)' = ContentAt(t, i) \/ TrapAt(t, i) \in A,
         InErrorTransport' = InErrorTransport \/ Transport("ErrorTransport") \in A,
         InDiagnosticTransport' = InDiagnosticTransport \/ Transport("DiagnosticTransport") \in A
  PROVE  \A h \in Shelves : h \notin A => Shelved'[h] = Shelved[h]
<1>1. ASSUME NEW u \in Threads, ErrorList(u) \notin A
      PROVE  Shelved'[ErrorList(u)] = Shelved[ErrorList(u)]
  <2>1. Pending(u)' = Pending(u)
    BY <1>1 DEF Pending, Uses
  <2> QED
    BY <2>1, OnShelves, OnShelvesNext
<1>2. ASSUME NEW u \in Threads, Report(u) \notin A
      PROVE  Shelved'[Report(u)] = Shelved[Report(u)]
  BY <1>2, OnShelves, OnShelvesNext
<1>3. ASSUME NEW u \in Threads, NEW i \in Nat, TrapAt(u, i) \notin A
      PROVE  Shelved'[TrapAt(u, i)] = Shelved[TrapAt(u, i)]
  <2>1. ContentAt(u, i)' = ContentAt(u, i)
    BY <1>3 DEF ContentAt
  <2> QED
    BY <2>1, OnShelves, OnShelvesNext
<1>4. Transport("ErrorTransport") \notin A =>
        Shelved'[Transport("ErrorTransport")] = Shelved[Transport("ErrorTransport")]
  BY OnShelves, OnShelvesNext
<1>5. Transport("DiagnosticTransport") \notin A =>
        Shelved'[Transport("DiagnosticTransport")] = Shelved[Transport("DiagnosticTransport")]
  BY OnShelves, OnShelvesNext
<1> QED
  BY <1>1, <1>2, <1>3, <1>4, <1>5 DEF Shelves

-----------------------------------------------------------------------------
(* What the calls do to a stack of traps.                                  *)

\* The text of a stack, and where each trap's part of it starts.
TextIsRight(stack, log) ==
  /\ log = IdsOf(ContentsOf(stack, Len(stack)))
  /\ \A i \in DOMAIN stack :
       \/ stack[i].logStart = SizeBelow(stack, i)
       \/ stack[i].logStart = Unset /\ stack[i].container = <<>>

\* A stack with another trap in some place.
LEMMA ChangedStack ==
  ASSUME NEW X, NEW stack \in Stacks(X), NEW i \in 1 .. Len(stack), NEW c \in Seq(X),
         NEW l \in Nat \cup {Unset}
  PROVE  /\ [stack EXCEPT ![i] = [container |-> c, logStart |-> l]] \in Stacks(X)
         /\ Len([stack EXCEPT ![i] = [container |-> c, logStart |-> l]]) = Len(stack)
         /\ \A j \in 1 .. Len(stack) :
              [stack EXCEPT ![i] = [container |-> c, logStart |-> l]][j]
                = IF j = i THEN [container |-> c, logStart |-> l] ELSE stack[j]
<1> DEFINE T == [container : Seq(X), logStart : Nat \cup {Unset}]
           x == [container |-> c, logStart |-> l]
           m == Len(stack)
<1>1. x \in T /\ stack \in Seq(T)
  BY DEF Stacks
<1> HIDE DEF T, x
<1>2. m \in Nat /\ stack \in [1 .. m -> T] /\ DOMAIN stack = 1 .. m
  BY <1>1
<1>3. /\ [stack EXCEPT ![i] = x] \in Seq(T) /\ Len([stack EXCEPT ![i] = x]) = m
      /\ \A j \in 1 .. m : [stack EXCEPT ![i] = x][j] = IF j = i THEN x ELSE stack[j]
  BY <1>1, <1>2
<1> QED
  BY <1>3 DEF T, x, Stacks

\* One trap more, with nothing in it,
LEMMA PushedTrap ==
  ASSUME NEW X, NEW stack \in Stacks(X), NEW log, TextIsRight(stack, log), NEW more,
         more = Append(stack, [container |-> <<>>, logStart |-> Unset])
  PROVE  /\ more \in Stacks(X) /\ Len(more) = Len(stack) + 1
         /\ more[Len(stack) + 1].container = <<>>
         /\ \A i \in 1 .. Len(stack) : more[i] = stack[i]
         /\ TextIsRight(more, log)
<1> DEFINE T == [container : Seq(X), logStart : Nat \cup {Unset}]
           x == [container |-> <<>>, logStart |-> Unset]
           n == Len(stack)
<1>1. x \in T /\ stack \in Seq(T) /\ x.container = <<>> /\ x.logStart = Unset
  BY DEF Stacks
<1> HIDE DEF T
<1>2. more = Append(stack, x)
  OBVIOUS
<1> HIDE DEF x
<1>3. /\ more \in Seq(T) /\ n \in Nat /\ Len(more) = n + 1 /\ more[n + 1] = x
      /\ DOMAIN more = 1 .. n + 1 /\ DOMAIN stack = 1 .. n
      /\ \A i \in 1 .. n : more[i] = stack[i]
  BY <1>1, <1>2
<1>4. more \in Stacks(X)
  BY <1>3 DEF T, Stacks
<1> HIDE DEF n
<1>5. \A i \in 0 .. n : ContentsOf(more, i) = ContentsOf(stack, i)
  <2>1. Len(more) \in Nat /\ Len(stack) \in Nat /\ n \in Nat /\ n <= Len(more) /\ n <= Len(stack)
    BY <1>3 DEF n
  <2>2. \A i \in 1 .. n : more[i].container = stack[i].container
    BY <1>3
  <2> QED
    BY <2>1, <2>2, SameContents
<1>6. ContentsOf(more, n + 1) = ContentsOf(stack, n)
  <2>1. ContentsOf(stack, n) \in Seq(X)
    BY <1>3, ContentsAreLists DEF n
  <2>2. ContentsOf(more, n + 1) = ContentsOf(more, n) \o more[n + 1].container
    <3>1. Len(more) \in Nat /\ n \in 0 .. Len(more) - 1
      BY <1>3
    <3> QED
      BY <3>1, ContentsNext
  <2>3. ContentsOf(more, n + 1) = ContentsOf(stack, n) \o <<>>
    <3>1. n \in 0 .. n
      BY <1>3
    <3>2. more[n + 1].container = <<>> /\ ContentsOf(more, n) = ContentsOf(stack, n)
      BY <1>1, <1>3, <1>5, <3>1
    <3> QED
      BY <2>2, <3>2
  <2> QED
    BY <2>1, <2>3
<1>7. ASSUME NEW i \in 1 .. n + 1
      PROVE  \/ more[i].logStart = SizeBelow(more, i)
             \/ more[i].logStart = Unset /\ more[i].container = <<>>
  <2>1. CASE i = n + 1
    BY <1>1, <1>3, <2>1
  <2>2. CASE i \in 1 .. n
    <3>1. i - 1 \in 0 .. n
      BY <1>3, <2>2
    <3>2. SizeBelow(more, i) = SizeBelow(stack, i)
      BY <1>5, <3>1 DEF SizeBelow
    <3> QED
      BY <1>3, <2>2, <3>2 DEF TextIsRight
  <2> QED
    BY <1>3, <2>1, <2>2
<1>8. TextIsRight(more, log)
  BY <1>3, <1>6, <1>7 DEF TextIsRight, n
<1> QED
  BY <1>1, <1>3, <1>4, <1>8 DEF n

\* or without the last.
LEMMA PoppedTrap ==
  ASSUME NEW X, NEW stack \in Stacks(X), stack # <<>>
  PROVE  /\ Front(stack) \in Stacks(X) /\ Len(stack) \in 1 .. Len(stack)
         /\ Last(stack) = stack[Len(stack)]
         /\ Len(Front(stack)) = Len(stack) - 1
         /\ \A i \in 1 .. Len(stack) - 1 : Front(stack)[i] = stack[i]
<1> DEFINE T == [container : Seq(X), logStart : Nat \cup {Unset}]
           n == Len(stack)
<1>1. stack \in Seq(T)
  BY DEF Stacks
<1> HIDE DEF T
<1>2. n \in Nat /\ n > 0
  BY <1>1
<1>3. n - 1 \in 0 .. n /\ n \in 1 .. n
  BY <1>2
<1>4. SubSeq(stack, 1, n - 1) \in Seq(T)
  BY <1>1, <1>2
<1>5. /\ Len(SubSeq(stack, 1, n - 1)) = n - 1
      /\ \A i \in 1 .. n - 1 : SubSeq(stack, 1, n - 1)[i] = stack[i]
  <2>1. IsList(stack)
    BY <1>1 DEF IsList
  <2> QED
    BY <1>3, <2>1, Shortened
<1> QED
  BY <1>3, <1>4, <1>5 DEF Front, Last, T, Stacks

\* Without a last trap that is empty, the text stays right.
LEMMA PoppedText ==
  ASSUME NEW X, NEW stack \in Stacks(X), stack # <<>>, Last(stack).container = <<>>,
         NEW log, TextIsRight(stack, log)
  PROVE  TextIsRight(Front(stack), log)
<1> DEFINE n == Len(stack) - 1
           less == Front(stack)
<1>1. /\ less \in Stacks(X) /\ Len(stack) \in 1 .. Len(stack) /\ Last(stack) = stack[Len(stack)]
      /\ Len(less) = n /\ \A i \in 1 .. n : less[i] = stack[i]
  BY PoppedTrap
<1> HIDE DEF less
<1>2. /\ Len(stack) \in Nat /\ n \in Nat /\ n <= Len(stack) /\ Len(stack) = n + 1
      /\ DOMAIN stack = 1 .. n + 1 /\ DOMAIN less = 1 .. n
  BY <1>1, StackFacts
<1> HIDE DEF n
<1>3. \A i \in 0 .. n : ContentsOf(less, i) = ContentsOf(stack, i)
  <2>1. Len(less) \in Nat /\ n <= Len(less) /\ \A i \in 1 .. n : less[i].container = stack[i].container
    BY <1>1, <1>2
  <2> QED
    BY <1>2, <2>1, SameContents
<1>4. ContentsOf(stack, n + 1) = ContentsOf(stack, n)
  <2>1. n \in 0 .. Len(stack) - 1 /\ n \in 0 .. Len(stack)
    BY <1>2
  <2>2. ContentsOf(stack, n + 1) = ContentsOf(stack, n) \o stack[n + 1].container
    BY <1>2, <2>1, ContentsNext
  <2>3. ContentsOf(stack, n) \in Seq(X)
    BY <2>1, ContentsAreLists
  <2>4. ContentsOf(stack, n + 1) = ContentsOf(stack, n) \o <<>>
    BY <1>1, <1>2, <2>2
  <2> QED
    BY <2>3, <2>4
<1>5. log = IdsOf(ContentsOf(less, n))
  BY <1>2, <1>3, <1>4 DEF TextIsRight
<1>6. ASSUME NEW i \in 1 .. n
      PROVE  \/ less[i].logStart = SizeBelow(less, i)
             \/ less[i].logStart = Unset /\ less[i].container = <<>>
  <2>1. i - 1 \in 0 .. n /\ i \in 1 .. n + 1
    BY <1>2
  <2>2. SizeBelow(less, i) = SizeBelow(stack, i)
    BY <1>3, <2>1 DEF SizeBelow
  <2> QED
    BY <1>1, <1>2, <2>1, <2>2 DEF TextIsRight
<1>7. TextIsRight(less, log)
  BY <1>1, <1>2, <1>5, <1>6 DEF TextIsRight
<1> QED
  BY <1>7 DEF less

\* Where each trap's part of the text starts, once it is counted anew.
LEMMA ResyncedStack ==
  ASSUME NEW X, NEW stack \in Stacks(X)
  PROVE  /\ Resynced(stack) \in Stacks(X) /\ Len(Resynced(stack)) = Len(stack)
         /\ \A i \in 1 .. Len(stack) :
              /\ Resynced(stack)[i].container = stack[i].container
              /\ Resynced(stack)[i].logStart = SizeBelow(stack, i)
<1> DEFINE n == Len(stack)
           new == Resynced(stack)
           T == [container : Seq(X), logStart : Nat \cup {Unset}]
<1>1. /\ n \in Nat /\ DOMAIN stack = 1 .. n
      /\ \A i \in 1 .. n :
           /\ stack[i] = [container |-> stack[i].container, logStart |-> stack[i].logStart]
           /\ stack[i].container \in Seq(X)
  BY StackFacts
<1>2. \A i \in 1 .. n : SizeBelow(stack, i) \in Nat
  <2>1. \A i \in 0 .. n : ContentsOf(stack, i) \in Seq(X)
    BY ContentsAreLists
  <2>2. \A i \in 1 .. n : i - 1 \in 0 .. n
    BY <1>1
  <2>3. \A s \in Seq(X) : Len(s) \in Nat
    OBVIOUS
  <2> QED
    BY <2>1, <2>2, <2>3 DEF SizeBelow
<1>3. /\ DOMAIN new = 1 .. n
      /\ \A i \in 1 .. n : new[i] = [container |-> stack[i].container, logStart |-> SizeBelow(stack, i)]
  <2>1. new = [i \in 1 .. n |-> [stack[i] EXCEPT !.logStart = SizeBelow(stack, i)]]
    BY <1>1 DEF Resynced
  <2>2. ASSUME NEW i \in 1 .. n
        PROVE  [stack[i] EXCEPT !.logStart = SizeBelow(stack, i)]
                 = [container |-> stack[i].container, logStart |-> SizeBelow(stack, i)]
    BY <1>1
  <2> QED
    BY <2>1, <2>2
<1>4. ASSUME NEW i \in 1 .. n PROVE new[i] \in T
  <2>1. new[i] = [container |-> stack[i].container, logStart |-> SizeBelow(stack, i)]
    BY <1>3
  <2>2. stack[i].container \in Seq(X) /\ SizeBelow(stack, i) \in Nat
    BY <1>1, <1>2
  <2> HIDE DEF new
  <2> QED
    BY <2>1, <2>2
<1>5. new \in Seq(T) /\ Len(new) = n
  <2>1. new = [i \in 1 .. n |-> new[i]]
    BY <1>1 DEF Resynced
  <2> HIDE DEF new, T
  <2>2. new \in [1 .. n -> T]
    BY <1>4, <2>1
  <2> QED
    BY <1>1, <2>2
<1>6. \A i \in 1 .. n : new[i].container = stack[i].container /\ new[i].logStart = SizeBelow(stack, i)
  BY <1>3
<1>7. new \in Stacks(X)
  BY <1>5 DEF Stacks
<1> QED
  BY <1>5, <1>6, <1>7

\* A rebuild after the traps from the one behind the first k on have changed.
LEMMA RebuiltStack ==
  ASSUME NEW X, NEW old \in Stacks(X), NEW log, TextIsRight(old, log),
         NEW stack \in Stacks(X), NEW k \in 0 .. Len(old), k <= Len(stack),
         \A i \in 1 .. k : stack[i].container = old[i].container
  PROVE  TextIsRight(Resynced(stack), RebuiltTrapped(log, stack, Len(ContentsOf(old, k))))
<1> DEFINE n == Len(stack)
           new == Resynced(stack)
           text == RebuiltTrapped(log, stack, Len(ContentsOf(old, k)))
<1>1. n \in Nat /\ new \in Stacks(X) /\ Len(new) = n
  BY ResyncedStack, StackFacts
<1>2. \A i \in 1 .. n : new[i].container = stack[i].container /\ new[i].logStart = SizeBelow(stack, i)
  BY ResyncedStack
<1>3. DOMAIN new = 1 .. n
  BY <1>1, StackFacts
<1> HIDE DEF new
<1>4. \A i \in 0 .. n : ContentsOf(new, i) = ContentsOf(stack, i)
  BY <1>1, <1>2, SameContents
<1>5. text = IdsOf(ContentsOf(stack, n))
  BY RebuiltTrappedIsRight DEF TextIsRight
<1>6. \A i \in 1 .. n : new[i].logStart = SizeBelow(new, i)
  <2>1. \A i \in 1 .. n : i - 1 \in 0 .. n
    BY <1>1
  <2> QED
    BY <1>2, <1>4, <2>1 DEF SizeBelow
<1>7. TextIsRight(new, text)
  <2>1. n \in 0 .. n
    BY <1>1
  <2> HIDE DEF text
  <2> QED
    BY <1>1, <1>3, <1>4, <1>5, <1>6, <2>1 DEF TextIsRight
<1> QED
  BY <1>7 DEF new

\* A diagnostic more in the last trap, which may be its first.
LEMMA TrappedText ==
  ASSUME NEW X, NEW stack \in Stacks(X), NEW log, TextIsRight(stack, log), NEW d \in X,
         NEW top \in 1 .. Len(stack), Len(stack) = top,
         NEW more \in Stacks(X), Len(more) = top,
         more[top].container = Append(stack[top].container, d),
         more[top].logStart = IF stack[top].logStart = Unset THEN Len(log) ELSE stack[top].logStart,
         \A i \in 1 .. top : i # top => more[i] = stack[i]
  PROVE  TextIsRight(more, Append(log, d.id))
<1>1. /\ top \in Nat /\ DOMAIN stack = 1 .. top /\ stack[top].container \in Seq(X)
      /\ stack[top].logStart \in Nat \cup {Unset} /\ top \in 1 .. top /\ top # 0
  <2>1. top \in Nat /\ top \in 1 .. top /\ top # 0
    OBVIOUS
  <2>2. /\ DOMAIN stack = 1 .. Len(stack)
        /\ stack[top].container \in Seq(X) /\ stack[top].logStart \in Nat \cup {Unset}
    BY StackFacts
  <2> QED
    BY <2>1, <2>2
<1> DEFINE c == stack[top].container
           n == top - 1
<1>2. n \in Nat /\ n + 1 = top /\ n \in 0 .. top - 1 /\ n \in 0 .. top /\ top \in 0 .. top
  BY <1>1
<1>3. /\ ContentsOf(stack, n) \in Seq(X) /\ ContentsOf(stack, top) \in Seq(X)
      /\ ContentsOf(stack, top) = ContentsOf(stack, n) \o c
  <2>1. ContentsOf(stack, n + 1) = ContentsOf(stack, n) \o stack[n + 1].container
    BY <1>1, <1>2, ContentsNext
  <2>2. \A i \in 0 .. top : ContentsOf(stack, i) \in Seq(X)
    BY ContentsAreLists
  <2> QED
    BY <1>2, <2>1, <2>2
<1>4. IsList(log) /\ Len(log) = Len(ContentsOf(stack, top)) /\ Len(log) \in Nat
  <2>1. IsList(ContentsOf(stack, top))
    BY <1>3 DEF IsList
  <2>2. log = IdsOf(ContentsOf(stack, top))
    BY DEF TextIsRight
  <2>3. Len(ContentsOf(stack, top)) \in Nat
    <3>1. \A s : IsList(s) => Len(s) \in Nat
      BY DEF IsList
    <3> QED
      BY <2>1, <3>1
  <2> QED
    BY <2>1, <2>2, <2>3, IdsAreAList
<1>5. more[top].logStart = Len(ContentsOf(stack, n))
  <2>1. CASE stack[top].logStart = Unset /\ c = <<>>
    <3>1. ContentsOf(stack, top) = ContentsOf(stack, n)
      BY <1>3, <2>1
    <3> QED
      BY <1>4, <2>1, <3>1
  <2>2. CASE stack[top].logStart = SizeBelow(stack, top)
    <3>1. SizeBelow(stack, top) = Len(ContentsOf(stack, n))
      BY DEF SizeBelow
    <3>2. Len(ContentsOf(stack, n)) \in Nat
      <4> DEFINE b == ContentsOf(stack, n)
      <4>1. b \in Seq(X)
        BY <1>3
      <4> HIDE DEF b
      <4>2. Len(b) \in Nat
        BY <4>1
      <4> QED
        BY <4>2 DEF b
    <3> QED
      BY <2>2, <3>1, <3>2 DEF Unset
  <2> QED
    BY <1>1, <2>1, <2>2 DEF TextIsRight
<1> HIDE DEF c
<1>10. \A i \in 0 .. n : ContentsOf(more, i) = ContentsOf(stack, i)
  <2>1. \A i \in 1 .. n : i \in 1 .. top /\ i # top
    BY <1>2
  <2>2. /\ Len(more) \in Nat /\ Len(stack) \in Nat /\ n <= Len(more) /\ n <= Len(stack)
        /\ n \in Nat
    BY <1>1, <1>2
  <2>3. \A i \in 1 .. n : more[i].container = stack[i].container
    BY <2>1
  <2> HIDE DEF n
  <2> QED
    BY <2>2, <2>3, SameContents
<1>11. ContentsOf(more, top) = Append(ContentsOf(stack, top), d)
  <2>1. ContentsOf(more, n + 1) = ContentsOf(more, n) \o more[n + 1].container
    BY <1>1, <1>2, ContentsNext
  <2>2. ContentsOf(more, top) = ContentsOf(stack, n) \o Append(c, d)
    <3>1. n \in 0 .. n
      BY <1>2
    <3>2. ContentsOf(more, n) = ContentsOf(stack, n)
      BY <1>10, <3>1
    <3>3. more[n + 1].container = Append(c, d)
      BY <1>2 DEF c
    <3>4. ContentsOf(more, n + 1) = ContentsOf(stack, n) \o Append(c, d)
      BY <2>1, <3>2, <3>3
    <3> QED
      BY <1>2, <3>4
  <2>3. c \in Seq(X)
    BY <1>1 DEF c
  <2>4. ContentsOf(stack, top) = ContentsOf(stack, n) \o c
    BY <1>3 DEF c
  <2> DEFINE a == ContentsOf(stack, n)
  <2>5. a \in Seq(X) /\ <<d>> \in Seq(X)
    BY <1>3
  <2> HIDE DEF a
  <2>6. IsList(a) /\ IsList(c) /\ IsList(<<d>>) /\ IsList(a \o c)
    BY <2>3, <2>5, Appended DEF IsList
  <2>7. Append(c, d) = c \o <<d>> /\ Append(a \o c, d) = (a \o c) \o <<d>>
    BY <2>6, AppendedId
  <2>8. (a \o c) \o <<d>> = a \o (c \o <<d>>)
    BY <2>6, ThreeInARow
  <2>9. a \o Append(c, d) = Append(a \o c, d)
    BY <2>7, <2>8
  <2> QED
    BY <2>2, <2>4, <2>9 DEF a
<1>12. Append(log, d.id) = IdsOf(ContentsOf(more, top))
  <2> DEFINE b == ContentsOf(stack, top)
             r == Append(b, d)
  <2>1. b \in Seq(X) /\ r \in Seq(X) /\ Len(r) = Len(b) + 1 /\ r[Len(b) + 1] = d
        /\ Len(b) \in Nat /\ \A i \in 1 .. Len(b) : r[i] = b[i]
    BY <1>3
  <2>2. log = IdsOf(b) /\ IsList(b)
    BY <1>3 DEF TextIsRight, IsList
  <2> HIDE DEF b, r
  <2>3. IsList(r)
    BY <2>1 DEF IsList
  <2>4. IsList(IdsOf(r)) /\ Len(IdsOf(r)) = Len(r) /\ \A i \in 1 .. Len(r) : IdsOf(r)[i] = r[i].id
    BY <2>3, IdsAreAList
  <2>5. IsList(log) /\ Len(log) = Len(b) /\ \A i \in 1 .. Len(b) : log[i] = b[i].id
    BY <2>2, IdsAreAList
  <2>6. PICK S : log \in Seq(S)
    BY <2>5 DEF IsList
  <2> DEFINE e == d.id
             q == Append(log, e)
  <2>7. q \in Seq(S \cup {e}) /\ Len(q) = Len(b) + 1 /\ q[Len(b) + 1] = e
        /\ \A i \in 1 .. Len(b) : q[i] = log[i]
    <3> HIDE DEF e
    <3>1. log \in Seq(S \cup {e})
      BY <2>6
    <3> QED
      BY <2>1, <2>5, <3>1
  <2>8. IsList(q)
    BY <2>7 DEF IsList
  <2> HIDE DEF q
  <2>9. ASSUME NEW i \in 1 .. Len(b) + 1 PROVE q[i] = IdsOf(r)[i]
    <3>1. i \in 1 .. Len(r) /\ IdsOf(r)[i] = r[i].id
      BY <2>1, <2>4
    <3>2. CASE i = Len(b) + 1
      <4>1. r[i] = d /\ q[i] = e
        BY <2>1, <2>7, <3>2
      <4> QED
        BY <3>1, <4>1
    <3>3. CASE i \in 1 .. Len(b)
      <4>1. r[i] = b[i] /\ q[i] = log[i] /\ log[i] = b[i].id
        BY <2>1, <2>5, <2>7, <3>3
      <4> QED
        BY <3>1, <4>1
    <3> QED
      BY <2>1, <3>2, <3>3
  <2>10. q = IdsOf(r)
    BY <2>1, <2>4, <2>7, <2>8, <2>9, SameList
  <2> QED
    BY <1>11, <2>10 DEF q, r, b
<1>13. ASSUME NEW i \in 1 .. top
       PROVE  \/ more[i].logStart = SizeBelow(more, i)
              \/ more[i].logStart = Unset /\ more[i].container = <<>>
  <2>1. i - 1 \in 0 .. n
    BY <1>2
  <2>2. SizeBelow(more, i) = SizeBelow(stack, i)
    BY <1>10, <2>1 DEF SizeBelow
  <2>3. CASE i = top
    <3>1. SizeBelow(stack, top) = Len(ContentsOf(stack, n))
      BY DEF SizeBelow
    <3> QED
      BY <1>5, <2>2, <2>3, <3>1
  <2>4. CASE i # top
    BY <1>1, <2>2, <2>4 DEF TextIsRight
  <2> QED
    BY <2>3, <2>4
<1>14. DOMAIN more = 1 .. top
  BY StackFacts
<1> QED
  BY <1>12, <1>13, <1>14 DEF TextIsRight

-----------------------------------------------------------------------------
(* The invariant of places and texts.                                      *)

Listed == [id : Ids, serial : Nat]
Diagnosed == [id : Ids, kind : Kinds]
Causes == {"None", "Post", "Mark", "Dismiss", "ErrorTransport", "DiagnosticTransport"}
Calls == [of : Causes, todo : Seq(Diagnosed), locked : BOOLEAN, rest : Seq(Delegates), before : Nat]

ErrorsTyped == errors \in [Threads -> Seq(Listed)]
TrapsTyped == traps \in [Threads -> Stacks(Diagnosed)] /\ DOMAIN trappedLog = Threads
WorkTyped == work \in [Threads -> Calls]
TransportsTyped ==
  /\ errorTransport = [list |-> errorTransport.list, pin |-> errorTransport.pin]
  /\ errorTransport.list \in Seq(Listed) /\ errorTransport.pin \in Seq(Ids)
  /\ diagnosticTransport = [list |-> diagnosticTransport.list, pin |-> diagnosticTransport.pin]
  /\ diagnosticTransport.list \in Seq(Diagnosed) /\ diagnosticTransport.pin \in Seq(Ids)

\* What is not yet issued has not met its fate.
FatesOK ==
  /\ issued \in 0 .. MaxPosts
  /\ fate \in [Ids -> {"Open", "Reported", "Handled", "Dropped"}]
  /\ \A id \in Ids : id > issued => fate[id] = "Open"

\* What a call has yet to report, its source still has in the log: the destructor
\* of the last mark in the thread's list, a posting transport under its pin, unless
\* it has posted before.
CallAgrees(t) ==
  /\ work[t].of = "None" => work[t].todo = <<>>
  /\ work[t].locked => work[t].todo # <<>>
  /\ Uses(t, "Mark") =>
       marks[t] = <<>> /\ IdSet(work[t].todo) \subseteq IdSet(ErrorsFrom(t, work[t].before))
  /\ Uses(t, "ErrorTransport") =>
       errorTransport.pin = <<>> \/ IdSet(work[t].todo) \subseteq IdSet(errorTransport.list)
  /\ Uses(t, "DiagnosticTransport") =>
       diagnosticTransport.list # <<>> /\ IdSet(work[t].todo) \subseteq IdSet(diagnosticTransport.list)

\* At most one thread posts a transport.
OneUser(what) == \A t, u \in Threads : Uses(t, what) /\ Uses(u, what) => t = u

CallsAgree ==
  /\ \A t \in Threads : CallAgrees(t)
  /\ OneUser("ErrorTransport") /\ OneUser("DiagnosticTransport")

\* A TfErrorTransport that was posted without a mark has lost its pin.
PinsAgree ==
  /\ errorTransport.pin = <<>> \/ errorTransport.pin = IdsOf(errorTransport.list)
  /\ diagnosticTransport.pin = IdsOf(diagnosticTransport.list)

TrapsAgree == \A t \in Threads : TextIsRight(traps[t], trappedLog[t])

OpenIds == {id \in Ids : IsOpen(id)}
PlacesOK == Sorted(Shelved, OpenIds)

Typed == ErrorsTyped /\ TrapsTyped /\ WorkTyped /\ TransportsTyped /\ delegates \in Seq(Delegates)
PInv == Typed /\ FatesOK /\ CallsAgree /\ PinsAgree /\ TrapsAgree /\ PlacesOK
AllOK == IInv /\ CallsOK /\ PInv

-----------------------------------------------------------------------------
(* Calls. *)

\* What a call is made of.
LEMMA CallParts ==
  ASSUME NEW c \in Calls
  PROVE  /\ c = [of |-> c.of, todo |-> c.todo, locked |-> c.locked, rest |-> c.rest, before |-> c.before]
         /\ c.of \in Causes /\ c.todo \in Seq(Diagnosed) /\ c.locked \in BOOLEAN
         /\ c.rest \in Seq(Delegates) /\ c.before \in Nat
  BY DEF Calls

\* A call with some of it changed.
LEMMA CallChanged ==
  ASSUME NEW c,
         c = [of |-> c.of, todo |-> c.todo, locked |-> c.locked, rest |-> c.rest, before |-> c.before],
         NEW of, NEW todo, NEW locked, NEW rest, NEW before, NEW x
  PROVE  /\ x = [c EXCEPT !.of = of, !.todo = todo, !.before = before] =>
              x = [of |-> of, todo |-> todo, locked |-> c.locked, rest |-> c.rest, before |-> before]
         /\ x = [c EXCEPT !.todo = todo, !.locked = locked, !.rest = rest] =>
              x = [of |-> c.of, todo |-> todo, locked |-> locked, rest |-> rest, before |-> c.before]
         /\ x = [c EXCEPT !.locked = locked, !.rest = rest] =>
              x = [of |-> c.of, todo |-> c.todo, locked |-> locked, rest |-> rest, before |-> c.before]
         /\ x = [c EXCEPT !.rest = rest] =>
              x = [of |-> c.of, todo |-> c.todo, locked |-> c.locked, rest |-> rest, before |-> c.before]
<1>1. ASSUME x = [c EXCEPT !.of = of, !.todo = todo, !.before = before]
      PROVE  x = [of |-> of, todo |-> todo, locked |-> c.locked, rest |-> c.rest, before |-> before]
  BY <1>1
<1>2. ASSUME x = [c EXCEPT !.todo = todo, !.locked = locked, !.rest = rest]
      PROVE  x = [of |-> c.of, todo |-> todo, locked |-> locked, rest |-> rest, before |-> c.before]
  BY <1>2
<1>3. ASSUME x = [c EXCEPT !.locked = locked, !.rest = rest]
      PROVE  x = [of |-> c.of, todo |-> c.todo, locked |-> locked, rest |-> rest, before |-> c.before]
  BY <1>3
<1>4. ASSUME x = [c EXCEPT !.rest = rest]
      PROVE  x = [of |-> c.of, todo |-> c.todo, locked |-> c.locked, rest |-> rest, before |-> c.before]
  BY <1>4
<1> QED
  BY <1>1, <1>2, <1>3, <1>4

\* A thread that reports nothing,
LEMMA IdleCall ==
  /\ Idle \in Calls /\ Idle.of = "None" /\ Idle.todo = <<>> /\ ~Idle.locked
  /\ Idle.rest = <<>> /\ Idle.before = 0
<1>1. <<>> \in Seq(Diagnosed) /\ <<>> \in Seq(Delegates)
  OBVIOUS
<1> QED
  BY <1>1 DEF Idle, Calls, Causes

\* and one that begins to.
LEMMA ReportingCall ==
  ASSUME NEW of \in Causes, NEW todo \in Seq(Diagnosed), NEW before \in Nat
  PROVE  /\ Reporting(of, todo, before) \in Calls /\ Reporting(of, todo, before).of = of
         /\ Reporting(of, todo, before).todo = todo /\ ~Reporting(of, todo, before).locked
         /\ Reporting(of, todo, before).rest = <<>> /\ Reporting(of, todo, before).before = before
<1>1. <<>> \in Seq(Delegates)
  OBVIOUS
<1>2. Reporting(of, todo, before)
        = [of |-> of, todo |-> todo, locked |-> FALSE, rest |-> <<>>, before |-> before]
  <2>1. Idle = [of |-> Idle.of, todo |-> Idle.todo, locked |-> Idle.locked, rest |-> Idle.rest,
                before |-> Idle.before]
    BY DEF Idle
  <2>2. Reporting(of, todo, before) = [Idle EXCEPT !.of = of, !.todo = todo, !.before = before]
    BY DEF Reporting
  <2> QED
    <3>1. Reporting(of, todo, before)
            = [of |-> of, todo |-> todo, locked |-> Idle.locked, rest |-> Idle.rest, before |-> before]
      BY <2>1, <2>2, CallChanged
    <3> QED
      BY <3>1 DEF Idle
<1> QED
  BY <1>1, <1>2 DEF Calls

\* A call of t begins, goes on or ends.
LEMMA CallStep ==
  ASSUME WorkTyped, NEW t \in Threads, NEW c \in Calls, work' = [work EXCEPT ![t] = c]
  PROVE  WorkTyped' /\ work'[t] = c /\ \A u \in Threads : u # t => work'[u] = work[u]
  BY DEF WorkTyped

\* The loop of a call comes to its next diagnostic.
LEMMA NextStep ==
  ASSUME WorkTyped, NEW t \in Threads, work[t].todo # <<>>, NextDiagnostic(t)
  PROVE  /\ WorkTyped' /\ \A u \in Threads : u # t => work'[u] = work[u]
         /\ work'[t].of = work[t].of /\ work'[t].before = work[t].before
         /\ work'[t].todo = Tail(work[t].todo) /\ ~work'[t].locked
         /\ Current(t) \in Diagnosed
         /\ IdSet(work[t].todo) = {Current(t).id} \cup IdSet(work'[t].todo)
         /\ IsList(work[t].todo) /\ IsList(work'[t].todo)
         /\ Once(work[t].todo) => Once(work'[t].todo) /\ Current(t).id \notin IdSet(work'[t].todo)
<1> DEFINE todo == work[t].todo
           c == [of |-> work[t].of, todo |-> Tail(todo), locked |-> FALSE, rest |-> <<>>,
                 before |-> work[t].before]
<1>1. /\ work[t] = [of |-> work[t].of, todo |-> todo, locked |-> work[t].locked, rest |-> work[t].rest,
                    before |-> work[t].before]
      /\ work[t].of \in Causes /\ todo \in Seq(Diagnosed) /\ work[t].before \in Nat
  BY CallParts DEF WorkTyped
<1>2. Tail(todo) \in Seq(Diagnosed) /\ Head(todo) \in Diagnosed /\ <<>> \in Seq(Delegates)
  <2> HIDE DEF todo
  <2> QED
    BY <1>1 DEF todo
<1>3. c \in Calls
  BY <1>1, <1>2 DEF Calls
<1>4. work' = [work EXCEPT ![t] = c]
  <2>1. work' = [work EXCEPT ![t] = [work[t] EXCEPT !.todo = Tail(todo), !.locked = FALSE, !.rest = <<>>]]
    BY DEF NextDiagnostic, WorkTyped
  <2>2. work'[t] = [work[t] EXCEPT !.todo = Tail(todo), !.locked = FALSE, !.rest = <<>>]
    BY <2>1 DEF WorkTyped
  <2> HIDE DEF todo
  <2>3. work'[t] = c
    BY <1>1, <2>2, CallChanged DEF todo
  <2> QED
    BY <2>1, <2>2, <2>3
<1>5. /\ c.of = work[t].of /\ c.before = work[t].before /\ c.todo = Tail(todo) /\ ~c.locked
  OBVIOUS
<1> HIDE DEF c
<1>6. WorkTyped' /\ work'[t] = c /\ \A u \in Threads : u # t => work'[u] = work[u]
  BY <1>3, <1>4, CallStep
<1>7. IsList(todo)
  BY <1>1 DEF IsList
<1>8. /\ IsList(Tail(todo)) /\ IdSet(todo) = {Head(todo).id} \cup IdSet(Tail(todo))
      /\ Once(todo) => Once(Tail(todo)) /\ Head(todo).id \notin IdSet(Tail(todo))
  BY <1>7, TailIds
<1> QED
  BY <1>2, <1>5, <1>6, <1>7, <1>8 DEF Current

\* A thread in no call.
LEMMA IdleThread ==
  ASSUME NEW t \in Threads, IsIdle(t)
  PROVE  /\ work[t] = Idle /\ work[t].of = "None" /\ work[t].todo = <<>> /\ ~work[t].locked
         /\ Pending(t) = errors[t]
         /\ \A what \in {"Mark", "ErrorTransport", "DiagnosticTransport"} : ~Uses(t, what)
  BY IdleCall DEF IsIdle, Pending, Uses

\* What the calls of the others agree with, they still do after a step of t.
LEMMA OthersAgree ==
  ASSUME CallsAgree, NEW t \in Threads,
         \A u \in Threads : u # t => /\ work'[u] = work[u] /\ marks'[u] = marks[u]
                                     /\ errors'[u] = errors[u],
         CallAgrees(t)',
         \/ errorTransport' = errorTransport
         \/ Free("ErrorTransport") \/ Uses(t, "ErrorTransport"),
         \/ diagnosticTransport' = diagnosticTransport
         \/ Free("DiagnosticTransport") \/ Uses(t, "DiagnosticTransport"),
         \A what \in {"ErrorTransport", "DiagnosticTransport"} :
           Uses(t, what)' => Uses(t, what) \/ Free(what)
  PROVE  CallsAgree'
<1>1. ASSUME NEW u \in Threads, u # t PROVE CallAgrees(u)'
  <2>1. CallAgrees(u) /\ work'[u] = work[u] /\ marks'[u] = marks[u] /\ errors'[u] = errors[u]
    BY <1>1 DEF CallsAgree
  <2>2. Uses(u, "ErrorTransport") => errorTransport' = errorTransport
    BY <1>1 DEF CallsAgree, OneUser, Free
  <2>3. Uses(u, "DiagnosticTransport") => diagnosticTransport' = diagnosticTransport
    BY <1>1 DEF CallsAgree, OneUser, Free
  <2>4. ErrorsFrom(u, work[u].before)' = ErrorsFrom(u, work[u].before)
    BY <2>1 DEF ErrorsFrom
  <2> QED
    BY <2>1, <2>2, <2>3, <2>4 DEF CallAgrees, Uses
<1>2. ASSUME NEW what \in {"ErrorTransport", "DiagnosticTransport"} PROVE OneUser(what)'
  <2>1. OneUser(what)
    BY DEF CallsAgree
  <2>2. \A u \in Threads : u # t => (Uses(u, what)' <=> Uses(u, what))
    BY DEF Uses
  <2>3. Uses(t, what)' => Uses(t, what) \/ Free(what)
    OBVIOUS
  <2> QED
    BY <2>1, <2>2, <2>3 DEF OneUser, Free
<1> QED
  BY <1>1, <1>2 DEF CallsAgree

\* A thread in no call, or in one that took what it reports from nowhere else.
LEMMA QuietAgrees ==
  ASSUME NEW t, work'[t].of \in {"None", "Post", "Dismiss"}, ~work'[t].locked,
         work'[t].of = "None" => work'[t].todo = <<>>
  PROVE  CallAgrees(t)'
  BY DEF CallAgrees, Uses

\* A call that goes on.
LEMMA LoopAgrees ==
  ASSUME NEW t \in Threads, CallAgrees(t), work[t].todo # <<>>,
         work'[t].of = work[t].of, work'[t].before = work[t].before,
         IdSet(work'[t].todo) \subseteq IdSet(work[t].todo),
         work'[t].locked => work'[t].todo # <<>>,
         UNCHANGED <<marks, transportVars>>,
         errors'[t] = errors[t] \/ ~Uses(t, "Mark")
  PROVE  CallAgrees(t)'
<1>1. UNCHANGED <<errorTransport, diagnosticTransport>> /\ marks'[t] = marks[t]
  BY DEF transportVars
<1>2. errors'[t] = errors[t] => ErrorsFrom(t, work[t].before)' = ErrorsFrom(t, work[t].before)
  BY DEF ErrorsFrom
<1>3. work'[t].of # "None"
  BY DEF CallAgrees
<1> QED
  BY <1>1, <1>2, <1>3 DEF CallAgrees, Uses

-----------------------------------------------------------------------------
(* Transports, and what is open. *)

\* The transports hold what they held, for no call that posts one begins or ends.
LEMMA TransportsKept ==
  ASSUME UNCHANGED transportVars,
         \A u \in Threads : \/ work'[u].of = work[u].of
                            \/ /\ work'[u].of \notin {"ErrorTransport", "DiagnosticTransport"}
                               /\ work[u].of \notin {"ErrorTransport", "DiagnosticTransport"}
  PROVE  InErrorTransport' = InErrorTransport /\ InDiagnosticTransport' = InDiagnosticTransport
<1>1. /\ Free("ErrorTransport")' <=> Free("ErrorTransport")
      /\ Free("DiagnosticTransport")' <=> Free("DiagnosticTransport")
  BY DEF Free, Uses
<1> QED
  BY <1>1 DEF InErrorTransport, InDiagnosticTransport, transportVars

\* A step that issues nothing and settles nothing.
LEMMA OpenKept ==
  ASSUME UNCHANGED <<issued, fate>>
  PROVE  OpenIds' = OpenIds
  BY DEF OpenIds, IsOpen

\* A diagnostic is issued,
LEMMA OpenIssued ==
  ASSUME FatesOK, issued < MaxPosts, issued' = issued + 1
  PROVE  /\ issued + 1 \in Ids /\ issued + 1 \notin OpenIds
         /\ fate' = fate => FatesOK' /\ OpenIds' = OpenIds \cup {issued + 1}
         /\ Becomes({issued + 1}, "Dropped") => FatesOK' /\ OpenIds' = OpenIds
<1>1. MaxPosts \in Nat
  BY BoundsAssumption
<1>2. issued \in Nat /\ issued + 1 \in Ids /\ issued + 1 \in 0 .. MaxPosts
  BY <1>1 DEF FatesOK, Ids
<1>3. \A id \in Ids : id \in Nat /\ (id <= issued + 1 <=> id <= issued \/ id = issued + 1)
  BY <1>1, <1>2 DEF Ids
<1>4. issued + 1 \notin OpenIds
  BY <1>2 DEF OpenIds, IsOpen
<1>5. ASSUME fate' = fate PROVE FatesOK' /\ OpenIds' = OpenIds \cup {issued + 1}
  <2>1. FatesOK'
    BY <1>2, <1>3, <1>5 DEF FatesOK
  <2>2. fate[issued + 1] = "Open"
    BY <1>2 DEF FatesOK
  <2>3. OpenIds' = OpenIds \cup {issued + 1}
    BY <1>2, <1>3, <1>5, <2>2 DEF OpenIds, IsOpen
  <2> QED
    BY <2>1, <2>3
<1>6. ASSUME Becomes({issued + 1}, "Dropped") PROVE FatesOK' /\ OpenIds' = OpenIds
  <2>1. fate' = [id \in Ids |-> IF id = issued + 1 THEN "Dropped" ELSE fate[id]]
    BY <1>6 DEF Becomes
  <2>2. FatesOK'
    BY <1>2, <1>3, <2>1 DEF FatesOK
  <2>3. OpenIds' = OpenIds
    BY <1>2, <1>3, <2>1 DEF OpenIds, IsOpen
  <2> QED
    BY <2>2, <2>3
<1> QED
  BY <1>2, <1>4, <1>5, <1>6

\* or some errors that are posted once more,
LEMMA OpenReissued ==
  ASSUME FatesOK, NEW list \in Seq(Listed), issued' = issued + Len(list), issued' <= MaxPosts,
         fate' = fate
  PROVE  /\ Reissued(list) \in Seq(Listed) /\ IsList(Reissued(list)) /\ Once(Reissued(list))
         /\ IdSet(Reissued(list)) \subseteq Ids /\ IdSet(Reissued(list)) \cap OpenIds = {}
         /\ FatesOK' /\ OpenIds' = OpenIds \cup IdSet(Reissued(list))
<1> DEFINE k == Len(list)
           e(i) == [id |-> issued + i, serial |-> list[i].serial]
           more == Reissued(list)
<1>1. k \in Nat /\ DOMAIN list = 1 .. k /\ IsList(list) /\ \A i \in 1 .. k : list[i] \in Listed
  BY DEF IsList
<1>2. MaxPosts \in Nat /\ issued \in Nat /\ issued <= MaxPosts
  BY BoundsAssumption DEF FatesOK
<1>3. /\ IsList(more) /\ Len(more) = k /\ DOMAIN more = 1 .. k /\ \A i \in 1 .. k : more[i] = e(i)
      /\ issued' = issued + k
  BY <1>1, ReissuedIsAList
<1>4. \A i \in 1 .. k : issued + i \in Ids /\ list[i].serial \in Nat
  BY <1>1, <1>2, <1>3 DEF Ids, Listed
<1>5. \A i \in 1 .. k : e(i) \in Listed /\ e(i).id = issued + i
  BY <1>4 DEF Listed
<1> HIDE DEF more, e, k
<1>6. more \in Seq(Listed)
  BY <1>1, <1>3, <1>5 DEF IsList
<1>7. IdSet(more) = {issued + i : i \in 1 .. k} /\ \A i \in 1 .. k : more[i].id = issued + i
  BY <1>3, <1>5 DEF IdSet
<1>8. Once(more)
  BY <1>1, <1>2, <1>3, <1>7 DEF Once
<1>9. \A id \in IdSet(more) : id \in Ids /\ id > issued /\ id <= issued' /\ fate[id] = "Open"
  BY <1>1, <1>2, <1>3, <1>4, <1>7 DEF FatesOK, Ids
<1>10. \A id \in Ids : id \in Nat /\ (id <= issued' <=> id <= issued \/ id \in IdSet(more))
  <2>1. ASSUME NEW id \in Ids, id <= issued', ~(id <= issued) PROVE id \in IdSet(more)
    <3>1. id \in Nat /\ id - issued \in 1 .. k /\ id = issued + (id - issued)
      BY <1>1, <1>2, <1>3, <2>1 DEF Ids
    <3> QED
      BY <1>7, <3>1
  <2>2. \A id \in Ids : id \in Nat /\ (id <= issued => id <= issued')
    BY <1>1, <1>2, <1>3 DEF Ids
  <2> QED
    BY <1>9, <2>1, <2>2
<1>11. FatesOK'
  <2>1. issued' \in 0 .. MaxPosts
    BY <1>1, <1>2, <1>3
  <2>2. \A id \in Ids : id > issued' => id > issued
    BY <1>1, <1>2, <1>3 DEF Ids
  <2> QED
    BY <2>1, <2>2 DEF FatesOK
<1>12. IdSet(more) \cap OpenIds = {}
  BY <1>2, <1>9 DEF OpenIds, IsOpen, Ids
<1>13. OpenIds' = OpenIds \cup IdSet(more)
  BY <1>9, <1>10 DEF OpenIds, IsOpen
<1>14. IdSet(more) \subseteq Ids
  BY <1>9
<1> QED
  BY <1>3, <1>6, <1>8, <1>11, <1>12, <1>13, <1>14 DEF more

\* or meets its fate.
LEMMA OpenGone ==
  ASSUME FatesOK, UNCHANGED issued, NEW gone \in SUBSET OpenIds,
         NEW what \in {"Reported", "Handled"}, Becomes(gone, what)
  PROVE  FatesOK' /\ OpenIds' = OpenIds \ gone
<1>1. fate' = [id \in Ids |-> IF id \in gone THEN what ELSE fate[id]]
  BY DEF Becomes
<1>2. \A id \in gone : id \in Ids /\ id <= issued
  BY DEF OpenIds, IsOpen
<1>3. \A id \in Ids : id > issued => ~(id <= issued)
  BY BoundsAssumption DEF Ids, FatesOK
<1>4. FatesOK'
  BY <1>1, <1>2, <1>3 DEF FatesOK
<1>5. OpenIds' = OpenIds \ gone
  BY <1>1, <1>2 DEF OpenIds, IsOpen
<1> QED
  BY <1>4, <1>5

-----------------------------------------------------------------------------
(* Errors. *)

\* New errors of a list.
LEMMA AddedErrors ==
  ASSUME ErrorsTyped, nextSerial \in Nat, NEW t \in Threads,
         NEW new, IsList(new), IdSet(new) \subseteq Ids, AddErrors(t, new)
  PROVE  /\ ErrorsTyped' /\ \A u \in Threads : u # t => errors'[u] = errors[u]
         /\ IdSet(errors'[t]) = IdSet(errors[t]) \cup IdSet(new)
         /\ IsList(errors[t]) /\ IsList(errors'[t])
         /\ Once(errors[t]) /\ Once(new) /\ IdSet(errors[t]) \cap IdSet(new) = {} =>
              Once(errors'[t])
<1> DEFINE more == Reserialized(new)
           k == Len(new)
<1>1. k \in Nat /\ DOMAIN new = 1 .. k
  BY DEF IsList
<1>2. more = [i \in 1 .. k |-> [id |-> new[i].id, serial |-> nextSerial + i - 1]]
  BY <1>1 DEF Reserialized
<1>3. \A i \in 1 .. k : new[i].id \in Ids
  BY <1>1 DEF IdSet
<1>4. \A i \in 1 .. k : [id |-> new[i].id, serial |-> nextSerial + i - 1] \in Listed
  BY <1>1, <1>3 DEF Listed
<1>5. more \in Seq(Listed) /\ DOMAIN more = 1 .. k /\ \A i \in 1 .. k : more[i].id = new[i].id
  <2> DEFINE e(i) == [id |-> new[i].id, serial |-> nextSerial + i - 1]
  <2>1. /\ more = [i \in 1 .. k |-> e(i)] /\ \A i \in 1 .. k : e(i) \in Listed
        /\ \A i \in 1 .. k : e(i).id = new[i].id
    BY <1>2, <1>4
  <2> HIDE DEF e, more, k
  <2> QED
    BY <1>1, <2>1
<1> HIDE DEF more
<1>6. IsList(more) /\ IdSet(more) = IdSet(new) /\ (Once(new) => Once(more))
  <2>1. IsList(more)
    BY <1>5 DEF IsList
  <2>2. DOMAIN more = DOMAIN new /\ \A i \in DOMAIN new : more[i].id = new[i].id
    BY <1>1, <1>5
  <2> QED
    BY <2>1, <2>2, SameIds
<1>7. errors[t] \in Seq(Listed) /\ IsList(errors[t])
  BY DEF ErrorsTyped, IsList
<1>8. errors' = [errors EXCEPT ![t] = errors[t] \o more]
  BY DEF AddErrors, more
<1>9. errors[t] \o more \in Seq(Listed)
  BY <1>5, <1>7
<1>10. ErrorsTyped' /\ errors'[t] = errors[t] \o more /\ \A u \in Threads : u # t => errors'[u] = errors[u]
  BY <1>8, <1>9 DEF ErrorsTyped
<1>11. IsList(errors[t] \o more)
  BY <1>9 DEF IsList
<1> QED
  BY <1>6, <1>7, <1>10, <1>11, JoinedIds

\* Errors that leave a list for some call or transport.
LEMMA RemovedErrors ==
  ASSUME ErrorsTyped, NEW t \in Threads, NEW n \in 0 .. Len(errors[t]),
         errors' = [errors EXCEPT ![t] = SubSeq(errors[t], 1, n)]
  PROVE  /\ ErrorsTyped' /\ errors'[t] = SubSeq(errors[t], 1, n)
         /\ \A u \in Threads : u # t => errors'[u] = errors[u]
         /\ ErrorsFrom(t, n) \in Seq(Listed) /\ IsList(ErrorsFrom(t, n))
         /\ IsList(errors'[t])
         /\ IdSet(errors[t]) = IdSet(errors'[t]) \cup IdSet(ErrorsFrom(t, n))
         /\ Once(errors[t]) => /\ Once(errors'[t]) /\ Once(ErrorsFrom(t, n))
                               /\ IdSet(errors'[t]) \cap IdSet(ErrorsFrom(t, n)) = {}
<1>1. errors[t] \in Seq(Listed) /\ IsList(errors[t]) /\ Len(errors[t]) \in Nat
  BY DEF ErrorsTyped, IsList
<1>2. SubSeq(errors[t], 1, n) \in Seq(Listed) /\ SubSeq(errors[t], n + 1, Len(errors[t])) \in Seq(Listed)
  <2> DEFINE s == errors[t]
  <2>1. s \in Seq(Listed) /\ n \in 0 .. Len(s)
    BY <1>1
  <2> HIDE DEF s
  <2>2. SubSeq(s, 1, n) \in Seq(Listed) /\ SubSeq(s, n + 1, Len(s)) \in Seq(Listed)
    BY <2>1
  <2> QED
    BY <2>2 DEF s
<1> DEFINE kept == SubSeq(errors[t], 1, n)
<1>3. kept \in Seq(Listed) /\ errors' = [errors EXCEPT ![t] = kept]
  BY <1>2
<1> HIDE DEF kept
<1>4. ErrorsTyped' /\ errors'[t] = kept /\ \A u \in Threads : u # t => errors'[u] = errors[u]
  BY <1>3 DEF ErrorsTyped
<1>5. /\ IsList(SubSeq(errors[t], 1, n))
      /\ IdSet(errors[t]) = IdSet(SubSeq(errors[t], 1, n)) \cup IdSet(ErrorsFrom(t, n))
      /\ IsList(ErrorsFrom(t, n)) /\ ErrorsFrom(t, n) \in Seq(Listed)
      /\ Once(errors[t]) => /\ Once(SubSeq(errors[t], 1, n)) /\ Once(ErrorsFrom(t, n))
                            /\ IdSet(SubSeq(errors[t], 1, n)) \cap IdSet(ErrorsFrom(t, n)) = {}
  <2> DEFINE s == errors[t]
             b == ErrorsFrom(t, n)
  <2>1. b = SubSeq(s, n + 1, Len(s)) /\ IsList(s) /\ n \in 0 .. Len(s)
    BY <1>1 DEF ErrorsFrom
  <2>2. b \in Seq(Listed)
    BY <1>2, <2>1
  <2> HIDE DEF s, b
  <2>3. /\ IsList(SubSeq(s, 1, n)) /\ IsList(b)
        /\ IdSet(s) = IdSet(SubSeq(s, 1, n)) \cup IdSet(b)
        /\ Once(s) => /\ Once(SubSeq(s, 1, n)) /\ Once(b)
                      /\ IdSet(SubSeq(s, 1, n)) \cap IdSet(b) = {}
    BY <2>1, SplitIds
  <2> QED
    BY <2>2, <2>3 DEF s, b
<1> QED
  BY <1>4, <1>5 DEF kept

\* Errors as they are reported.
LEMMA ReportedErrors ==
  ASSUME NEW list \in Seq(Listed)
  PROVE  /\ AsDiagnostics(list) \in Seq(Diagnosed) /\ IsList(list) /\ IsList(AsDiagnostics(list))
         /\ IdSet(AsDiagnostics(list)) = IdSet(list)
         /\ Once(list) => Once(AsDiagnostics(list))
<1> DEFINE r == AsDiagnostics(list)
           k == Len(list)
<1>1. k \in Nat /\ DOMAIN list = 1 .. k /\ IsList(list) /\ \A i \in 1 .. k : list[i] \in Listed
  BY DEF IsList
<1>2. r = [i \in 1 .. k |-> [id |-> list[i].id, kind |-> "Error"]]
  BY <1>1 DEF AsDiagnostics, Diagnostic
<1>3. \A i \in 1 .. k : [id |-> list[i].id, kind |-> "Error"] \in Diagnosed
  BY <1>1 DEF Listed, Diagnosed, Kinds
<1>4. r \in Seq(Diagnosed) /\ DOMAIN r = 1 .. k /\ \A i \in 1 .. k : r[i].id = list[i].id
  <2> DEFINE e(i) == [id |-> list[i].id, kind |-> "Error"]
  <2>1. /\ r = [i \in 1 .. k |-> e(i)] /\ \A i \in 1 .. k : e(i) \in Diagnosed
        /\ \A i \in 1 .. k : e(i).id = list[i].id
    BY <1>2, <1>3
  <2> HIDE DEF e, r, k
  <2> QED
    BY <1>1, <2>1
<1> HIDE DEF r
<1>5. IdSet(r) = IdSet(list) /\ (Once(list) => Once(r))
  BY <1>1, <1>4, SameIds
<1> QED
  BY <1>1, <1>4, <1>5 DEF r, IsList

-----------------------------------------------------------------------------
(* Steps on the shelves. *)

\* A step of t that changes no shelf but those of A.
ElsewhereKept(t, A) ==
  /\ \A u \in Threads : u # t => /\ errors'[u] = errors[u] /\ work'[u] = work[u]
                                 /\ traps'[u] = traps[u]
  /\ t \in Threads => Pending(t)' = Pending(t) \/ ErrorList(t) \in A
  /\ t \in Threads => work'[t].todo = work[t].todo \/ Report(t) \in A
  /\ t \in Threads => \A i \in Nat : ContentAt(t, i)' = ContentAt(t, i) \/ TrapAt(t, i) \in A
  /\ InErrorTransport' = InErrorTransport \/ Transport("ErrorTransport") \in A
  /\ InDiagnosticTransport' = InDiagnosticTransport \/ Transport("DiagnosticTransport") \in A

\* The shelves out of A are as they were.
LEMMA ShelvesElsewhere ==
  ASSUME NEW t, NEW A, ElsewhereKept(t, A)
  PROVE  \A h \in Shelves : h \notin A => Shelved'[h] = Shelved[h]
  BY ShelvesKept DEF ElsewhereKept

\* No diagnostic changes its place,
LEMMA NothingMoves ==
  ASSUME PlacesOK, NEW t, ElsewhereKept(t, {}), OpenIds' = OpenIds
  PROVE  PlacesOK'
<1>1. \A h \in Shelves : Shelved'[h] = Shelved[h]
  BY ShelvesElsewhere
<1> QED
  BY <1>1 DEF PlacesOK, Sorted

\* some move from one shelf to another,
LEMMA SomeMove ==
  ASSUME PlacesOK, NEW t, NEW a \in Shelves, NEW b \in Shelves, a # b,
         ElsewhereKept(t, {a, b}), OpenIds' = OpenIds,
         IsList(Shelved'[a]), IsList(Shelved'[b]),
         NEW some, some \subseteq IdSet(Shelved[a]),
         IdSet(Shelved'[a]) = IdSet(Shelved[a]) \ some,
         IdSet(Shelved'[b]) = IdSet(Shelved[b]) \cup some,
         Once(Shelved[a]) => Once(Shelved'[a]),
         Once(Shelved[a]) /\ Once(Shelved[b]) /\ IdSet(Shelved[b]) \cap some = {} => Once(Shelved'[b])
  PROVE  PlacesOK'
<1>1. \A h \in Shelves : h # a /\ h # b => Shelved'[h] = Shelved[h]
  BY ShelvesElsewhere
<1>2. Once(Shelved[a]) /\ Once(Shelved[b]) /\ IdSet(Shelved[a]) \cap IdSet(Shelved[b]) = {}
  BY DEF PlacesOK, Sorted
<1>3. IdSet(Shelved[b]) \cap some = {}
  BY <1>2
<1>4. Once(Shelved'[a]) /\ Once(Shelved'[b])
  BY <1>2, <1>3
<1> DEFINE F == Shelved
           G == Shelved'
<1>5. Sorted(F, OpenIds)
  BY DEF PlacesOK
<1>6. /\ \A h \in Shelves : h # a /\ h # b => G[h] = F[h]
      /\ IsList(G[a]) /\ Once(G[a]) /\ IsList(G[b]) /\ Once(G[b])
      /\ some \subseteq IdSet(F[a]) /\ IdSet(G[a]) = IdSet(F[a]) \ some
      /\ IdSet(G[b]) = IdSet(F[b]) \cup some
  BY <1>1, <1>4
<1>7. Sorted(G, OpenIds)
  <2> DEFINE O == OpenIds
  <2> HIDE DEF F, G, O
  <2> QED
    BY <1>5, <1>6, Moved DEF O
<1>8. Shelves' = Shelves
  BY DEF Shelves, ErrorList, Report, TrapAt, Transport
<1> QED
  BY <1>7, <1>8 DEF PlacesOK, Sorted

\* some go for good,
LEMMA SomeGo ==
  ASSUME PlacesOK, NEW t, NEW a \in Shelves, ElsewhereKept(t, {a}),
         IsList(Shelved'[a]),
         NEW gone, gone \subseteq IdSet(Shelved[a]), OpenIds' = OpenIds \ gone,
         IdSet(Shelved'[a]) = IdSet(Shelved[a]) \ gone,
         Once(Shelved[a]) => Once(Shelved'[a])
  PROVE  PlacesOK'
<1>1. \A h \in Shelves : h # a => Shelved'[h] = Shelved[h]
  BY ShelvesElsewhere
<1>2. Once(Shelved'[a])
  BY DEF PlacesOK, Sorted
<1> DEFINE F == Shelved
           G == Shelved'
<1>5. Sorted(F, OpenIds)
  BY DEF PlacesOK
<1>6. /\ \A h \in Shelves : h # a => G[h] = F[h]
      /\ IsList(G[a]) /\ Once(G[a])
      /\ gone \subseteq IdSet(F[a]) /\ IdSet(G[a]) = IdSet(F[a]) \ gone
  BY <1>1, <1>2
<1>7. Sorted(G, OpenIds \ gone)
  <2> DEFINE O == OpenIds
  <2> HIDE DEF F, G, O
  <2> QED
    BY <1>5, <1>6, TakenAway DEF O
<1> QED
  BY <1>7 DEF PlacesOK, Sorted

\* or some come.
LEMMA SomeCome ==
  ASSUME PlacesOK, NEW t, NEW a \in Shelves, ElsewhereKept(t, {a}),
         IsList(Shelved'[a]),
         NEW new, new \cap OpenIds = {}, OpenIds' = OpenIds \cup new,
         IdSet(Shelved'[a]) = IdSet(Shelved[a]) \cup new,
         Once(Shelved[a]) /\ IdSet(Shelved[a]) \cap new = {} => Once(Shelved'[a])
  PROVE  PlacesOK'
<1>1. \A h \in Shelves : h # a => Shelved'[h] = Shelved[h]
  BY ShelvesElsewhere
<1>2. Once(Shelved'[a])
  BY DEF PlacesOK, Sorted
<1> DEFINE F == Shelved
           G == Shelved'
<1>5. Sorted(F, OpenIds)
  BY DEF PlacesOK
<1>6. /\ \A h \in Shelves : h # a => G[h] = F[h]
      /\ IsList(G[a]) /\ Once(G[a]) /\ IdSet(G[a]) = IdSet(F[a]) \cup new
  BY <1>1, <1>2
<1>7. Sorted(G, OpenIds \cup new)
  <2> DEFINE O == OpenIds
  <2>1. new \cap O = {}
    OBVIOUS
  <2> HIDE DEF F, G, O
  <2> QED
    BY <1>5, <1>6, <2>1, PutDown DEF O
<1> QED
  BY <1>7 DEF PlacesOK, Sorted

-----------------------------------------------------------------------------

\* What the invariant says, part by part.
LEMMA Parts ==
  ASSUME AllOK
  PROVE  /\ nextSerial \in Nat /\ ErrorsTyped /\ TrapsTyped /\ WorkTyped /\ TransportsTyped
         /\ delegates \in Seq(Delegates) /\ FatesOK /\ CallsAgree /\ PinsAgree /\ TrapsAgree
         /\ PlacesOK /\ \A t \in Threads : CallAgrees(t) /\ TextIsRight(traps[t], trappedLog[t])
         /\ \A t \in Threads : work[t] \in Calls /\ (work[t].rest # <<>> => work[t].locked)
         /\ DOMAIN errors = Threads /\ DOMAIN marks = Threads /\ DOMAIN traps = Threads
         /\ DOMAIN work = Threads /\ DOMAIN trappedLog = Threads
  BY DEF AllOK, PInv, Typed, IInv, ListsOK, CallsOK, CallsAgree, TrapsAgree, ErrorsTyped,
         TrapsTyped, WorkTyped

\* A step that leaves the traps alone, and one that leaves the transports alone.
LEMMA TrapsKept ==
  ASSUME TrapsTyped, TrapsAgree, UNCHANGED <<traps, trappedLog>>
  PROVE  TrapsTyped' /\ TrapsAgree' /\ \A t, i : ContentAt(t, i)' = ContentAt(t, i)
  BY DEF TrapsTyped, TrapsAgree, TextIsRight, ContentAt, SizeBelow

\* One that leaves the transports alone.
LEMMA PinsKept ==
  ASSUME TransportsTyped, PinsAgree, UNCHANGED transportVars
  PROVE  TransportsTyped' /\ PinsAgree'
  BY DEF TransportsTyped, PinsAgree, transportVars

\* Errors that join the list of a thread as they are issued,
LEMMA JoinedPlaces ==
  ASSUME AllOK, NEW t \in Threads, IsIdle(t),
         NEW new, IsList(new), Once(new), IdSet(new) \subseteq Ids, IdSet(new) \cap OpenIds = {},
         FatesOK', OpenIds' = OpenIds \cup IdSet(new),
         AddErrors(t, new), UNCHANGED <<work, marks, traps, trappedLog, diagnosticTransport, delegates>>,
         TransportsTyped', PinsAgree', InErrorTransport' = InErrorTransport,
         errorTransport' = errorTransport \/ Free("ErrorTransport")
  PROVE  PInv'
<1>0. AllOK
  OBVIOUS
<1>1. /\ Pending(t) = errors[t] /\ work[t].todo = <<>> /\ work[t].of = "None" /\ ~work[t].locked
  BY IdleThread
<1>2. /\ ErrorsTyped' /\ \A u \in Threads : u # t => errors'[u] = errors[u]
      /\ IdSet(errors'[t]) = IdSet(errors[t]) \cup IdSet(new) /\ IsList(errors'[t])
      /\ Once(errors[t]) /\ IdSet(errors[t]) \cap IdSet(new) = {} => Once(errors'[t])
  BY <1>0, Parts, AddedErrors
<1>3. WorkTyped' /\ delegates' \in Seq(Delegates)
  BY <1>0, Parts DEF WorkTyped
<1>4. /\ TrapsTyped' /\ TrapsAgree' /\ \A i \in Nat : ContentAt(t, i)' = ContentAt(t, i)
  BY <1>0, Parts, TrapsKept
<1>5. CallsAgree'
  <2>1. CallAgrees(t)'
    BY <1>1, QuietAgrees
  <2> QED
    BY <1>0, <1>2, <2>1, Parts, OthersAgree DEF Uses
<1>6. PlacesOK'
  <2> DEFINE a == ErrorList(t)
             some == IdSet(new)
  <2>1. a \in Shelves /\ Shelved[a] = errors[t] /\ Shelved'[a] = errors'[t]
    <3>1. Pending(t)' = errors'[t]
      BY <1>1 DEF Pending, Uses
    <3> QED
      BY <1>1, <3>1, OnShelves, OnShelvesNext
  <2>2. ElsewhereKept(t, {a})
    <3>1. InDiagnosticTransport' = InDiagnosticTransport
      BY DEF InDiagnosticTransport, Free, Uses
    <3> QED
      BY <1>2, <1>4, <3>1 DEF ElsewhereKept
  <2> HIDE DEF a
  <2>3. /\ IdSet(Shelved'[a]) = IdSet(Shelved[a]) \cup some /\ IsList(Shelved'[a])
        /\ Once(Shelved[a]) /\ IdSet(Shelved[a]) \cap some = {} => Once(Shelved'[a])
        /\ some \cap OpenIds = {} /\ OpenIds' = OpenIds \cup some
    BY <1>2, <2>1
  <2> HIDE DEF some
  <2> QED
    BY <1>0, <2>1, <2>2, <2>3, Parts, SomeCome
<1> QED
  BY <1>2, <1>3, <1>4, <1>5, <1>6 DEF PInv, Typed

\* and diagnostics that a call begins to report as they are issued.
LEMMA BegunPlaces ==
  ASSUME AllOK, NEW t \in Threads, IsIdle(t), NEW of \in {"Post", "ErrorTransport"},
         NEW todo \in Seq(Diagnosed), Once(todo), IdSet(todo) \cap OpenIds = {},
         FatesOK', OpenIds' = OpenIds \cup IdSet(todo),
         of = "ErrorTransport" => Free("ErrorTransport") /\ errorTransport.pin = <<>>,
         work' = [work EXCEPT ![t] = Reporting(of, todo, 0)],
         UNCHANGED <<nextSerial, errors, pendingLog, marks, traps, trappedLog, transportVars, delegates>>
  PROVE  PInv'
<1>0. AllOK
  OBVIOUS
<1> DEFINE c == Reporting(of, todo, 0)
<1>1. work' = [work EXCEPT ![t] = c]
  OBVIOUS
<1>2. c \in Calls /\ c.of = of /\ c.todo = todo /\ ~c.locked
  <2>1. of \in Causes /\ 0 \in Nat
    BY DEF Causes
  <2> QED
    BY <2>1, ReportingCall
<1> HIDE DEF c
<1>3. WorkTyped' /\ work'[t] = c /\ \A u \in Threads : u # t => work'[u] = work[u]
  BY <1>0, <1>1, <1>2, Parts, CallStep
<1>4. /\ Pending(t) = errors[t] /\ work[t].todo = <<>> /\ work[t].of = "None" /\ ~work[t].locked
  BY IdleThread
<1>5. /\ TrapsTyped' /\ TrapsAgree' /\ \A i \in Nat : ContentAt(t, i)' = ContentAt(t, i)
  BY <1>0, Parts, TrapsKept
<1>6. TransportsTyped' /\ PinsAgree' /\ UNCHANGED <<errorTransport, diagnosticTransport>>
  BY <1>0, Parts, PinsKept DEF transportVars
<1>7. ErrorsTyped' /\ delegates' \in Seq(Delegates)
  BY <1>0, Parts DEF ErrorsTyped
<1>8. CallsAgree'
  <2>1. CallAgrees(t)'
    BY <1>2, <1>3, <1>6 DEF CallAgrees, Uses
  <2>2. \A w \in {"ErrorTransport", "DiagnosticTransport"} : Uses(t, w)' => Uses(t, w) \/ Free(w)
    BY <1>2, <1>3 DEF Uses
  <2> QED
    BY <1>0, <1>3, <1>6, <2>1, <2>2, Parts, OthersAgree
<1>9. InErrorTransport' = InErrorTransport /\ InDiagnosticTransport' = InDiagnosticTransport
  <2>1. CASE of = "Post"
    BY <1>2, <1>3, <1>4, <2>1, TransportsKept
  <2>2. CASE of = "ErrorTransport"
    <3>1. Free("DiagnosticTransport")' <=> Free("DiagnosticTransport")
      BY <1>2, <1>3, <1>4, <2>2 DEF Free, Uses
    <3> QED
      BY <1>6, <2>2, <3>1 DEF InErrorTransport, InDiagnosticTransport
  <2> QED
    BY <2>1, <2>2
<1>10. PlacesOK'
  <2> DEFINE a == Report(t)
             some == IdSet(todo)
  <2>1. a \in Shelves /\ Shelved[a] = <<>> /\ Shelved'[a] = todo
    BY <1>2, <1>3, <1>4, OnShelves, OnShelvesNext
  <2>2. ElsewhereKept(t, {a})
    <3>1. Pending(t)' = Pending(t)
      BY <1>2, <1>3, <1>4 DEF Pending, Uses
    <3> QED
      BY <1>3, <1>5, <1>9, <3>1 DEF ElsewhereKept
  <2>3. /\ IdSet(Shelved'[a]) = IdSet(Shelved[a]) \cup some /\ IsList(Shelved'[a]) /\ Once(Shelved'[a])
        /\ some \cap OpenIds = {} /\ OpenIds' = OpenIds \cup some
    BY <2>1, NoIds DEF IsList
  <2> HIDE DEF a, some
  <2> QED
    BY <1>0, <2>1, <2>2, <2>3, Parts, SomeCome
<1> QED
  BY <1>3, <1>5, <1>6, <1>7, <1>8, <1>10 DEF PInv, Typed

\* PostError and PostWarning.
LEMMA PostPlaces ==
  ASSUME AllOK, NEW t \in Threads, NEW kind \in Kinds, Post(t, kind)
  PROVE  PInv'
<1>0. AllOK
  OBVIOUS
<1> DEFINE d == Diagnostic(issued + 1, kind)
           id == issued + 1
<1>1. /\ IsIdle(t) /\ issued < MaxPosts /\ issued' = id
      /\ UNCHANGED <<marks, traps, trappedLog, transportVars, delegates, fate>>
  BY DEF Post
<1>2. work[t].of = "None"
  BY <1>1, IdleThread
<1>3. id \in Ids /\ id \notin OpenIds /\ FatesOK' /\ OpenIds' = OpenIds \cup {id}
  BY <1>0, <1>1, Parts, OpenIssued
<1>4. d \in Diagnosed /\ d.id = id
  BY <1>3 DEF Diagnostic, Diagnosed
<1>5. IsList(<<d>>) /\ IdSet(<<d>>) = {id} /\ Once(<<d>>) /\ <<d>> \in Seq(Diagnosed)
  BY <1>4, SingleId
<1> HIDE DEF d, id
<1>6. IdSet(<<d>>) \subseteq Ids /\ IdSet(<<d>>) \cap OpenIds = {} /\ OpenIds' = OpenIds \cup IdSet(<<d>>)
  BY <1>3, <1>5
<1>7. CASE kind = "Error" /\ HasActiveErrorMark(t)
  <2>1. AddErrors(t, <<d>>) /\ UNCHANGED work
    BY <1>7 DEF Post, d
  <2>2. TransportsTyped' /\ PinsAgree' /\ UNCHANGED <<errorTransport, diagnosticTransport>>
    BY <1>0, <1>1, Parts, PinsKept DEF transportVars
  <2>3. InErrorTransport' = InErrorTransport
    BY <1>1, <2>1, TransportsKept
  <2> DEFINE new == <<d>>
  <2>4. /\ IsList(new) /\ Once(new) /\ IdSet(new) \subseteq Ids /\ IdSet(new) \cap OpenIds = {}
        /\ OpenIds' = OpenIds \cup IdSet(new) /\ AddErrors(t, new)
    BY <1>5, <1>6, <2>1
  <2> HIDE DEF new
  <2> QED
    BY <1>0, <1>1, <1>3, <2>1, <2>2, <2>3, <2>4, JoinedPlaces
<1>8. CASE ~(kind = "Error" /\ HasActiveErrorMark(t))
  <2> DEFINE of == "Post"
             todo == <<d>>
  <2>1. /\ work' = [work EXCEPT ![t] = Reporting(of, todo, 0)] /\ UNCHANGED <<nextSerial, errors, pendingLog>>
        /\ of \in {"Post", "ErrorTransport"} /\ of # "ErrorTransport"
    BY <1>8 DEF Post, d
  <2>2. /\ todo \in Seq(Diagnosed) /\ Once(todo) /\ IdSet(todo) \cap OpenIds = {}
        /\ OpenIds' = OpenIds \cup IdSet(todo)
    BY <1>5, <1>6
  <2> HIDE DEF of, todo
  <2> QED
    BY <1>0, <1>1, <1>3, <2>1, <2>2, BegunPlaces
<1> QED
  BY <1>7, <1>8

\* A delegate that posts while it is called.
LEMMA DelegatePostsPlaces ==
  ASSUME AllOK, NEW t \in Threads, NEW kind \in Kinds, DelegatePosts(t, kind)
  PROVE  PInv'
<1>0. AllOK
  OBVIOUS
<1> DEFINE d == Diagnostic(issued + 1, kind)
           id == issued + 1
<1>1. /\ work[t].rest # <<>> /\ issued < MaxPosts /\ issued' = id
      /\ UNCHANGED <<marks, traps, trappedLog, transportVars, delegates, work>>
  BY DEF DelegatePosts
<1>2. work[t].todo # <<>> /\ CallAgrees(t)
  BY <1>0, <1>1, Parts DEF CallAgrees
<1>3. id \in Ids /\ id \notin OpenIds
  BY <1>0, <1>1, Parts, OpenIssued
<1>4. /\ TrapsTyped' /\ TrapsAgree' /\ \A i \in Nat : ContentAt(t, i)' = ContentAt(t, i)
  BY <1>0, <1>1, Parts, TrapsKept
<1>5. TransportsTyped' /\ PinsAgree'
  BY <1>0, <1>1, Parts, PinsKept
<1>6. d.id = id
  BY DEF Diagnostic
<1>7. IsList(<<d>>) /\ IdSet(<<d>>) = {id} /\ Once(<<d>>)
  BY <1>6, SingleId
<1>8. delegates' \in Seq(Delegates) /\ WorkTyped'
  BY <1>0, <1>1, Parts DEF WorkTyped
<1>9. InErrorTransport' = InErrorTransport /\ InDiagnosticTransport' = InDiagnosticTransport
  BY <1>1, TransportsKept
<1>10. CASE kind = "Error" /\ HasActiveErrorMark(t)
  <2>1. AddErrors(t, <<d>>) /\ UNCHANGED fate
    BY <1>10 DEF DelegatePosts
  <2> HIDE DEF d, id
  <2>2. FatesOK' /\ OpenIds' = OpenIds \cup {id}
    BY <1>0, <1>1, <2>1, Parts, OpenIssued DEF id
  <2>3. ~Uses(t, "Mark")
    BY <1>2, <1>10 DEF CallAgrees, HasActiveErrorMark
  <2>4. /\ ErrorsTyped' /\ \A u \in Threads : u # t => errors'[u] = errors[u]
        /\ IdSet(errors'[t]) = IdSet(errors[t]) \cup {id} /\ IsList(errors'[t])
        /\ Once(errors[t]) /\ IdSet(errors[t]) \cap {id} = {} => Once(errors'[t])
    <3>1. IdSet(<<d>>) \subseteq Ids
      BY <1>3, <1>7
    <3> QED
      BY <1>0, <1>7, <2>1, <3>1, Parts, AddedErrors
  <2>5. CallsAgree'
    <3>1. CallAgrees(t)'
      BY <1>1, <1>2, <2>3, LoopAgrees, Parts, <1>0 DEF CallAgrees
    <3> QED
      BY <1>0, <1>1, <2>4, <3>1, Parts, OthersAgree DEF Uses, transportVars
  <2>6. PlacesOK'
    <3> DEFINE a == ErrorList(t)
    <3>1. a \in Shelves /\ Shelved[a] = errors[t] /\ Shelved'[a] = errors'[t]
      <4>1. Pending(t)' = errors'[t] /\ Pending(t) = errors[t]
        BY <1>1, <2>3 DEF Pending, Uses
      <4> QED
        BY <4>1, OnShelves, OnShelvesNext
    <3>2. ElsewhereKept(t, {a})
      BY <1>1, <1>4, <1>9, <2>4 DEF ElsewhereKept
    <3> DEFINE new == {id}
    <3>3. /\ new \cap OpenIds = {} /\ OpenIds' = OpenIds \cup new
          /\ IdSet(Shelved'[a]) = IdSet(Shelved[a]) \cup new /\ IsList(Shelved'[a])
          /\ Once(Shelved[a]) /\ IdSet(Shelved[a]) \cap new = {} => Once(Shelved'[a])
      BY <1>3, <2>2, <2>4, <3>1
    <3> HIDE DEF a, new
    <3> QED
      BY <1>0, <3>1, <3>2, <3>3, Parts, SomeCome
  <2> QED
    BY <1>4, <1>5, <1>8, <2>2, <2>4, <2>5, <2>6 DEF PInv, Typed
<1>11. CASE ~(kind = "Error" /\ HasActiveErrorMark(t))
  <2>1. Becomes({id}, "Dropped") /\ UNCHANGED errors
    BY <1>6, <1>11 DEF DelegatePosts
  <2> HIDE DEF d, id
  <2>2. FatesOK' /\ OpenIds' = OpenIds
    BY <1>0, <1>1, <2>1, Parts, OpenIssued DEF id
  <2>3. ErrorsTyped'
    BY <1>0, <2>1, Parts DEF ErrorsTyped
  <2>4. CallsAgree'
    <3>1. CallAgrees(t)'
      BY <1>1, <1>2, <2>1, LoopAgrees, Parts, <1>0 DEF CallAgrees
    <3> QED
      BY <1>0, <1>1, <2>1, <3>1, Parts, OthersAgree DEF Uses, transportVars
  <2>5. PlacesOK'
    <3>1. Pending(t)' = Pending(t)
      BY <1>1, <2>1 DEF Pending, Uses
    <3>2. ElsewhereKept(t, {})
      BY <1>1, <1>4, <1>9, <2>1, <3>1 DEF ElsewhereKept
    <3> QED
      BY <1>0, <2>2, <3>2, Parts, NothingMoves
  <2> QED
    BY <1>4, <1>5, <1>8, <2>2, <2>3, <2>4, <2>5 DEF PInv, Typed
<1> QED
  BY <1>10, <1>11

\* A diagnostic that a container posts anew goes from the report to the list.
LEMMA RepostPlaces ==
  ASSUME AllOK, NEW t \in Threads, Repost(t)
  PROVE  PInv'
<1>0. AllOK
  OBVIOUS
<1> DEFINE d == Current(t)
<1>1. /\ work[t].todo # <<>> /\ JoinsList(t) /\ AddErrors(t, <<d>>) /\ NextDiagnostic(t)
      /\ UNCHANGED <<marks, traps, trappedLog, transportVars, delegates, ghosts>>
  BY DEF Repost
<1>2. /\ WorkTyped' /\ \A u \in Threads : u # t => work'[u] = work[u]
      /\ work'[t].of = work[t].of /\ work'[t].before = work[t].before
      /\ ~work'[t].locked /\ d \in Diagnosed
      /\ IdSet(work[t].todo) = {d.id} \cup IdSet(work'[t].todo)
      /\ IsList(work[t].todo) /\ IsList(work'[t].todo)
      /\ Once(work[t].todo) => Once(work'[t].todo) /\ d.id \notin IdSet(work'[t].todo)
  BY <1>0, <1>1, Parts, NextStep
<1>3. ~Uses(t, "Mark")
  BY <1>1 DEF JoinsList, Reposts, Uses
<1>4. /\ TrapsTyped' /\ TrapsAgree' /\ \A i \in Nat : ContentAt(t, i)' = ContentAt(t, i)
  BY <1>0, <1>1, Parts, TrapsKept
<1>5. TransportsTyped' /\ PinsAgree'
  BY <1>0, <1>1, Parts, PinsKept
<1>6. FatesOK' /\ OpenIds' = OpenIds
  BY <1>0, <1>1, Parts, OpenKept DEF FatesOK, ghosts
<1> HIDE DEF d
<1>7. IsList(<<d>>) /\ IdSet(<<d>>) = {d.id} /\ Once(<<d>>)
  BY SingleId
<1>8. delegates' \in Seq(Delegates)
  BY <1>0, <1>1, Parts
<1>9. InErrorTransport' = InErrorTransport /\ InDiagnosticTransport' = InDiagnosticTransport
  BY <1>1, <1>2, TransportsKept
<1>10. /\ ErrorsTyped' /\ \A u \in Threads : u # t => errors'[u] = errors[u]
       /\ IdSet(errors'[t]) = IdSet(errors[t]) \cup {d.id} /\ IsList(errors'[t])
       /\ Once(errors[t]) /\ IdSet(errors[t]) \cap {d.id} = {} => Once(errors'[t])
  <2>1. IdSet(<<d>>) \subseteq Ids
    BY <1>2, <1>7 DEF Diagnosed
  <2> QED
    BY <1>0, <1>1, <1>7, <2>1, Parts, AddedErrors
<1>11. CallsAgree'
  <2>1. CallAgrees(t)'
    BY <1>0, <1>1, <1>2, <1>3, Parts, LoopAgrees
  <2> QED
    BY <1>0, <1>1, <1>2, <1>10, <2>1, Parts, OthersAgree DEF Uses, transportVars
<1>12. PlacesOK'
  <2> DEFINE a == Report(t)
             b == ErrorList(t)
  <2>1. /\ a \in Shelves /\ Shelved[a] = work[t].todo /\ Shelved'[a] = work'[t].todo
        /\ b \in Shelves /\ Shelved[b] = errors[t] /\ Shelved'[b] = errors'[t]
    <3>1. Pending(t)' = errors'[t] /\ Pending(t) = errors[t]
      BY <1>2, <1>3 DEF Pending, Uses
    <3> QED
      BY <3>1, OnShelves, OnShelvesNext
  <2>2. ElsewhereKept(t, {a, b}) /\ a # b
    <3>1. a # b
      BY ShelvesDiffer
    <3> QED
      BY <1>1, <1>2, <1>4, <1>9, <1>10, <3>1 DEF ElsewhereKept
  <2> HIDE DEF a, b
  <2> DEFINE some == {d.id}
  <2>3. some \subseteq IdSet(Shelved[a]) /\ IsList(Shelved'[a]) /\ IsList(Shelved'[b])
    BY <1>2, <1>10, <2>1
  <2>4. Once(Shelved[a])
    BY <1>0, <2>1, Parts DEF PlacesOK, Sorted
  <2>5. IdSet(Shelved'[a]) = IdSet(Shelved[a]) \ some /\ Once(Shelved'[a])
    BY <1>2, <2>1, <2>4
  <2>6. /\ IdSet(Shelved'[b]) = IdSet(Shelved[b]) \cup some
        /\ Once(Shelved[b]) /\ IdSet(Shelved[b]) \cap some = {} => Once(Shelved'[b])
    BY <1>10, <2>1
  <2> HIDE DEF some
  <2> QED
    BY <1>0, <1>6, <2>1, <2>2, <2>3, <2>5, <2>6, Parts, SomeMove
<1> QED
  BY <1>2, <1>4, <1>5, <1>6, <1>8, <1>10, <1>11, <1>12 DEF PInv, Typed

\* A delegate returns, or the next report takes the lock.
LEMMA LoopPlaces ==
  ASSUME AllOK, NEW t \in Threads, work[t].todo # <<>>, NEW locked \in BOOLEAN,
         NEW rest \in Seq(Delegates),
         work' = [work EXCEPT ![t] = [of |-> work[t].of, todo |-> work[t].todo, locked |-> locked,
                                      rest |-> rest, before |-> work[t].before]],
         UNCHANGED <<nextSerial, threadVars, transportVars, delegates, ghosts>>
  PROVE  PInv'
<1>0. AllOK
  OBVIOUS
<1> DEFINE c == [of |-> work[t].of, todo |-> work[t].todo, locked |-> locked,
                 rest |-> rest, before |-> work[t].before]
<1>1. c \in Calls /\ c.of = work[t].of /\ c.todo = work[t].todo /\ c.before = work[t].before
  <2>1. work[t].of \in Causes /\ work[t].todo \in Seq(Diagnosed) /\ work[t].before \in Nat
    BY <1>0, Parts, CallParts
  <2> QED
    BY <2>1 DEF Calls
<1>2. work' = [work EXCEPT ![t] = c]
  OBVIOUS
<1> HIDE DEF c
<1>3. WorkTyped' /\ work'[t] = c /\ \A u \in Threads : u # t => work'[u] = work[u]
  BY <1>0, <1>1, <1>2, Parts, CallStep
<1>4. /\ TrapsTyped' /\ TrapsAgree' /\ \A i \in Nat : ContentAt(t, i)' = ContentAt(t, i)
  BY <1>0, Parts, TrapsKept DEF threadVars
<1>5. TransportsTyped' /\ PinsAgree'
  BY <1>0, Parts, PinsKept
<1>6. FatesOK' /\ OpenIds' = OpenIds
  BY <1>0, Parts, OpenKept DEF FatesOK, ghosts
<1>7. ErrorsTyped' /\ delegates' \in Seq(Delegates)
  BY <1>0, Parts DEF ErrorsTyped, threadVars
<1>8. CallsAgree'
  <2>1. CallAgrees(t)'
    BY <1>0, <1>1, <1>3, Parts, LoopAgrees DEF threadVars
  <2> QED
    BY <1>0, <1>1, <1>3, <2>1, Parts, OthersAgree DEF Uses, transportVars, threadVars
<1>9. PlacesOK'
  <2>1. Pending(t)' = Pending(t)
    BY <1>1, <1>3 DEF Pending, Uses, threadVars
  <2>2. InErrorTransport' = InErrorTransport /\ InDiagnosticTransport' = InDiagnosticTransport
    BY <1>1, <1>3, TransportsKept
  <2>3. ElsewhereKept(t, {})
    BY <1>1, <1>3, <1>4, <2>1, <2>2 DEF ElsewhereKept, threadVars
  <2> QED
    BY <1>0, <1>6, <2>3, Parts, NothingMoves
<1> QED
  BY <1>3, <1>4, <1>5, <1>6, <1>7, <1>8, <1>9 DEF PInv, Typed

\* What the call of a thread is made of.
LEMMA CallOf ==
  ASSUME AllOK, NEW t \in Threads
  PROVE  /\ work[t] = [of |-> work[t].of, todo |-> work[t].todo, locked |-> work[t].locked,
                       rest |-> work[t].rest, before |-> work[t].before]
         /\ work[t].of \in Causes /\ work[t].todo \in Seq(Diagnosed) /\ work[t].locked \in BOOLEAN
         /\ work[t].rest \in Seq(Delegates) /\ work[t].before \in Nat
<1>1. work[t] \in Calls
  BY Parts
<1> QED
  BY <1>1, CallParts

\* _ForEachDelegate takes the lock.
LEMMA LockPlaces ==
  ASSUME AllOK, NEW t \in Threads, LockDelegates(t)
  PROVE  PInv'
<1>0. AllOK
  OBVIOUS
<1>1. work[t].todo # <<>> /\ UNCHANGED <<nextSerial, threadVars, transportVars, delegates, ghosts>>
  BY DEF LockDelegates
<1>2. delegates \in Seq(Delegates) /\ DOMAIN work = Threads
  BY Parts
<1>3. work' = [work EXCEPT ![t] = [work[t] EXCEPT !.locked = TRUE, !.rest = delegates]]
  BY <1>2 DEF LockDelegates
<1>4. work'[t] = [work[t] EXCEPT !.locked = TRUE, !.rest = delegates]
  BY <1>2, <1>3
<1>5. work'[t] = [of |-> work[t].of, todo |-> work[t].todo, locked |-> TRUE, rest |-> delegates,
                  before |-> work[t].before]
  BY <1>0, <1>4, CallOf, CallChanged
<1> QED
  BY <1>1, <1>2, <1>3, <1>4, <1>5, LoopPlaces

\* A delegate returns.
LEMMA ReturnPlaces ==
  ASSUME AllOK, NEW t \in Threads, DelegateReturns(t)
  PROVE  PInv'
<1>0. AllOK
  OBVIOUS
<1>1. work[t].rest # <<>> /\ UNCHANGED <<nextSerial, threadVars, transportVars, delegates, ghosts>>
  BY DEF DelegateReturns
<1> DEFINE rest == Tail(work[t].rest)
<1>2. DOMAIN work = Threads /\ rest \in Seq(Delegates) /\ work[t].todo # <<>> /\ work[t].locked \in BOOLEAN
  <2>1. work[t].rest \in Seq(Delegates) /\ work[t].locked \in BOOLEAN /\ DOMAIN work = Threads
    BY Parts, CallParts
  <2>2. work[t].locked /\ CallAgrees(t)
    BY <1>1, Parts
  <2>3. work[t].todo # <<>>
    BY <2>2 DEF CallAgrees
  <2> QED
    BY <1>1, <2>1, <2>3
<1>3. work' = [work EXCEPT ![t] = [work[t] EXCEPT !.rest = rest]]
  BY <1>2 DEF DelegateReturns
<1> HIDE DEF rest
<1>4. work'[t] = [work[t] EXCEPT !.rest = rest]
  BY <1>2, <1>3
<1>5. work'[t] = [of |-> work[t].of, todo |-> work[t].todo, locked |-> work[t].locked, rest |-> rest,
                  before |-> work[t].before]
  BY <1>0, <1>4, CallOf, CallChanged
<1> QED
  BY <1>1, <1>2, <1>3, <1>4, <1>5, LoopPlaces

-----------------------------------------------------------------------------
(* Steps of reports and traps. *)

\* The stack of t and its text become others.
LEMMA TrapsStep ==
  ASSUME TrapsTyped, TrapsAgree, NEW t \in Threads, NEW stack \in Stacks(Diagnosed), NEW log,
         traps' = [traps EXCEPT ![t] = stack], DOMAIN trappedLog' = Threads,
         trappedLog'[t] = log, \A u \in Threads : u # t => trappedLog'[u] = trappedLog[u],
         TextIsRight(stack, log)
  PROVE  /\ TrapsTyped' /\ TrapsAgree' /\ traps'[t] = stack
         /\ \A u \in Threads : u # t => traps'[u] = traps[u]
<1>1. /\ traps'[t] = stack /\ trappedLog'[t] = log /\ DOMAIN trappedLog' = Threads
      /\ \A u \in Threads : u # t => traps'[u] = traps[u] /\ trappedLog'[u] = trappedLog[u]
  BY DEF TrapsTyped
<1>2. traps' \in [Threads -> Stacks(Diagnosed)]
  <2> DEFINE S == Stacks(Diagnosed)
  <2>1. traps \in [Threads -> S] /\ stack \in S
    BY DEF TrapsTyped
  <2> HIDE DEF S
  <2>2. traps' \in [Threads -> S]
    BY <2>1
  <2> QED
    BY <2>2 DEF S
<1>3. ASSUME NEW u \in Threads PROVE TextIsRight(traps'[u], trappedLog'[u])
  <2>1. CASE u = t
    BY <1>1, <2>1
  <2>2. CASE u # t
    BY <1>1, <2>2 DEF TrapsAgree
  <2> QED
    BY <2>1, <2>2
<1>4. TrapsAgree'
  BY <1>3 DEF TrapsAgree
<1>5. TrapsTyped'
  BY <1>1, <1>2 DEF TrapsTyped
<1> QED
  BY <1>1, <1>4, <1>5

\* A diagnostic joins the innermost trap.
LEMMA Trapped ==
  ASSUME TrapsTyped, TrapsAgree, NEW t \in Threads, traps[t] # <<>>, NEW d \in Diagnosed,
         AppendToTrap(t, d)
  PROVE  /\ TrapsTyped' /\ TrapsAgree' /\ \A u \in Threads : u # t => traps'[u] = traps[u]
         /\ \E top \in Nat :
              /\ ContentAt(t, top) \in Seq(Diagnosed)
              /\ ContentAt(t, top)' = Append(ContentAt(t, top), d)
              /\ \A i \in Nat : i # top => ContentAt(t, i)' = ContentAt(t, i)
<1> DEFINE stack == traps[t]
           log == trappedLog[t]
           n == Len(stack)
           c == Append(stack[n].container, d)
           l == IF stack[n].logStart = Unset THEN Len(log) ELSE stack[n].logStart
           more == [stack EXCEPT ![n] = [container |-> c, logStart |-> l]]
<1>1. stack \in Stacks(Diagnosed) /\ TextIsRight(stack, log) /\ DOMAIN traps = Threads /\ DOMAIN trappedLog = Threads
  BY DEF TrapsTyped, TrapsAgree
<1>2. /\ traps' = [traps EXCEPT ![t] = more] /\ trappedLog' = [trappedLog EXCEPT ![t] = Append(log, d.id)]
  BY <1>1 DEF AppendToTrap
<1>3. stack # <<>>
  OBVIOUS
<1> HIDE DEF stack, log
<1>4. /\ n \in Nat /\ n \in 1 .. n /\ stack[n].container \in Seq(Diagnosed)
      /\ stack[n].logStart \in Nat \cup {Unset} /\ DOMAIN stack = 1 .. n
  <2>1. n \in 1 .. n
    BY <1>1, <1>3, PoppedTrap
  <2> QED
    BY <1>1, <2>1, StackFacts
<1>5. Len(log) \in Nat
  <2>1. ContentsOf(stack, n) \in Seq(Diagnosed)
    <3>1. n \in 0 .. n
      BY <1>4
    <3> QED
      BY <1>1, <3>1, ContentsAreLists
  <2>2. IsList(log)
    <3>1. IsList(ContentsOf(stack, n))
      BY <2>1 DEF IsList
    <3> QED
      BY <1>1, <3>1, IdsAreAList DEF TextIsRight
  <2> QED
    BY <2>2 DEF IsList
<1>6. c \in Seq(Diagnosed) /\ l \in Nat \cup {Unset}
  BY <1>4, <1>5
<1>7. c = Append(stack[n].container, d) /\ l = IF stack[n].logStart = Unset THEN Len(log) ELSE stack[n].logStart
  OBVIOUS
<1> HIDE DEF c, l
<1>8. /\ more \in Stacks(Diagnosed) /\ Len(more) = n
      /\ \A j \in 1 .. n : more[j] = IF j = n THEN [container |-> c, logStart |-> l] ELSE stack[j]
  <2> HIDE DEF n
  <2>1. n \in 1 .. Len(stack)
    BY <1>4 DEF n
  <2> QED
    BY <1>1, <1>6, <2>1, ChangedStack DEF n
<1> HIDE DEF more
<1>9. more[n].container = c /\ more[n].logStart = l /\ \A j \in 1 .. n : j # n => more[j] = stack[j]
  <2> DEFINE x == [container |-> c, logStart |-> l]
  <2>1. x.container = c /\ x.logStart = l
    OBVIOUS
  <2>2. n \in 1 .. n /\ \A j \in 1 .. n : more[j] = IF j = n THEN x ELSE stack[j]
    BY <1>4, <1>8
  <2> HIDE DEF n, x
  <2> QED
    BY <2>1, <2>2
<1>10. TextIsRight(more, Append(log, d.id))
  <2> DEFINE top == n
  <2>1. /\ top \in 1 .. Len(stack) /\ Len(stack) = top /\ Len(more) = top
        /\ more[top].container = Append(stack[top].container, d)
        /\ more[top].logStart = IF stack[top].logStart = Unset THEN Len(log) ELSE stack[top].logStart
        /\ \A i \in 1 .. top : i # top => more[i] = stack[i]
    BY <1>4, <1>7, <1>8, <1>9
  <2> HIDE DEF top
  <2> QED
    BY <1>1, <1>8, <2>1, TrappedText
<1>11. /\ TrapsTyped' /\ TrapsAgree' /\ traps'[t] = more /\ \A u \in Threads : u # t => traps'[u] = traps[u]
  <2> DEFINE text == Append(log, d.id)
  <2>1. /\ TextIsRight(more, text) /\ DOMAIN trappedLog' = Threads /\ trappedLog'[t] = text
        /\ \A u \in Threads : u # t => trappedLog'[u] = trappedLog[u]
    BY <1>1, <1>2, <1>10
  <2> HIDE DEF text
  <2> QED
    BY <1>2, <1>8, <2>1, TrapsStep
<1>12. DOMAIN more = 1 .. n
  BY <1>8, StackFacts
<1>13. traps[t] = stack
  BY DEF stack
<1>14. PICK top \in Nat : top = n
  BY <1>4
<1>15. /\ stack[top].container \in Seq(Diagnosed) /\ top \in 1 .. top /\ DOMAIN stack = 1 .. top
       /\ DOMAIN more = 1 .. top /\ more[top].container = Append(stack[top].container, d)
       /\ \A i \in 1 .. top : i # top => more[i] = stack[i]
  BY <1>4, <1>7, <1>9, <1>12, <1>14
<1>16. traps'[t] = more
  BY <1>11
<1> HIDE DEF n
<1>17. ContentAt(t, top) = stack[top].container /\ ContentAt(t, top)' = more[top].container
  BY <1>13, <1>15, <1>16 DEF ContentAt
<1>18. ASSUME NEW i \in Nat, i # top PROVE ContentAt(t, i)' = ContentAt(t, i)
  <2>1. CASE i \in 1 .. top
    BY <1>13, <1>15, <1>16, <1>18, <2>1 DEF ContentAt
  <2>2. CASE i \notin 1 .. top
    BY <1>13, <1>15, <1>16, <2>2 DEF ContentAt
  <2> QED
    BY <2>1, <2>2
<1> QED
  BY <1>11, <1>15, <1>17, <1>18

\* The innermost trap takes what is to report.
LEMMA TrapPlaces ==
  ASSUME AllOK, NEW t \in Threads, Trap(t)
  PROVE  PInv'
<1>0. AllOK
  OBVIOUS
<1> DEFINE d == Current(t)
<1>1. /\ work[t].todo # <<>> /\ traps[t] # <<>> /\ AppendToTrap(t, d) /\ NextDiagnostic(t)
      /\ UNCHANGED <<nextSerial, errors, marks, pendingLog, transportVars, delegates, ghosts>>
  BY DEF Trap
<1>2. /\ WorkTyped' /\ \A u \in Threads : u # t => work'[u] = work[u]
      /\ work'[t].of = work[t].of /\ work'[t].before = work[t].before
      /\ ~work'[t].locked /\ d \in Diagnosed
      /\ IdSet(work[t].todo) = {d.id} \cup IdSet(work'[t].todo)
      /\ IsList(work[t].todo) /\ IsList(work'[t].todo)
      /\ Once(work[t].todo) => Once(work'[t].todo) /\ d.id \notin IdSet(work'[t].todo)
  BY <1>0, <1>1, Parts, NextStep
<1> HIDE DEF d
<1>3. /\ TrapsTyped' /\ TrapsAgree' /\ \A u \in Threads : u # t => traps'[u] = traps[u]
      /\ \E top \in Nat :
           /\ ContentAt(t, top) \in Seq(Diagnosed)
           /\ ContentAt(t, top)' = Append(ContentAt(t, top), d)
           /\ \A i \in Nat : i # top => ContentAt(t, i)' = ContentAt(t, i)
  BY <1>0, <1>1, <1>2, Parts, Trapped
<1>4. PICK top \in Nat :
        /\ ContentAt(t, top) \in Seq(Diagnosed)
        /\ ContentAt(t, top)' = Append(ContentAt(t, top), d)
        /\ \A i \in Nat : i # top => ContentAt(t, i)' = ContentAt(t, i)
  BY <1>3
<1>5. TransportsTyped' /\ PinsAgree'
  BY <1>0, <1>1, Parts, PinsKept
<1>6. FatesOK' /\ OpenIds' = OpenIds
  BY <1>0, <1>1, Parts, OpenKept DEF FatesOK, ghosts
<1>8. delegates' \in Seq(Delegates) /\ ErrorsTyped'
  BY <1>0, <1>1, Parts DEF ErrorsTyped
<1>9. InErrorTransport' = InErrorTransport /\ InDiagnosticTransport' = InDiagnosticTransport
  BY <1>1, <1>2, TransportsKept
<1>11. CallsAgree'
  <2>1. CallAgrees(t)'
    BY <1>0, <1>1, <1>2, Parts, LoopAgrees
  <2> QED
    BY <1>0, <1>1, <1>2, <2>1, Parts, OthersAgree DEF Uses, transportVars
<1>12. PlacesOK'
  <2> DEFINE a == Report(t)
             b == TrapAt(t, top)
  <2>1. /\ a \in Shelves /\ Shelved[a] = work[t].todo /\ Shelved'[a] = work'[t].todo
        /\ b \in Shelves /\ Shelved[b] = ContentAt(t, top) /\ Shelved'[b] = ContentAt(t, top)'
    BY <1>4, OnShelves, OnShelvesNext
  <2>2. ElsewhereKept(t, {a, b}) /\ a # b
    <3>1. a # b
      BY ShelvesDiffer
    <3>2. Pending(t)' = Pending(t)
      BY <1>1, <1>2 DEF Pending, Uses
    <3> QED
      BY <1>1, <1>2, <1>3, <1>4, <1>9, <3>1, <3>2 DEF ElsewhereKept
  <2> HIDE DEF a, b
  <2> DEFINE some == {d.id}
             c == ContentAt(t, top)
  <2>3. /\ c \in Seq(Diagnosed) /\ IsList(c) /\ IsList(<<d>>) /\ IdSet(<<d>>) = some /\ Once(<<d>>)
        /\ Shelved[b] = c /\ Shelved'[b] = Append(c, d)
    BY <1>4, <2>1, SingleId DEF IsList
  <2> HIDE DEF c
  <2>4. some \subseteq IdSet(Shelved[a]) /\ IsList(Shelved'[a]) /\ Once(Shelved[a])
    <3>1. Once(Shelved[a])
      BY <1>0, <2>1, Parts DEF PlacesOK, Sorted
    <3> QED
      BY <1>2, <2>1, <3>1
  <2>5. IdSet(Shelved'[a]) = IdSet(Shelved[a]) \ some /\ Once(Shelved'[a])
    BY <1>2, <2>1, <2>4
  <2>6. /\ IdSet(Shelved'[b]) = IdSet(Shelved[b]) \cup some /\ IsList(Shelved'[b])
        /\ Once(Shelved[b]) /\ IdSet(Shelved[b]) \cap some = {} => Once(Shelved'[b])
    <3>1. Append(c, d) \in Seq(Diagnosed)
      BY <1>2, <2>3
    <3> QED
      BY <2>3, <3>1, AppendedId DEF IsList
  <2> HIDE DEF some
  <2> QED
    BY <1>0, <1>6, <2>1, <2>2, <2>4, <2>5, <2>6, Parts, SomeMove
<1> QED
  BY <1>2, <1>3, <1>5, <1>6, <1>8, <1>11, <1>12 DEF PInv, Typed

\* Every delegate has it.
LEMMA ReportedPlaces ==
  ASSUME AllOK, NEW t \in Threads, Reported(t)
  PROVE  PInv'
<1>0. AllOK
  OBVIOUS
<1> DEFINE d == Current(t)
<1>1. /\ work[t].locked /\ Becomes({d.id}, "Reported") /\ NextDiagnostic(t)
      /\ UNCHANGED <<nextSerial, threadVars, transportVars, delegates, issued>>
  BY DEF Reported
<1>a. work[t].todo # <<>>
  BY <1>0, <1>1, Parts DEF CallAgrees
<1>2. /\ WorkTyped' /\ \A u \in Threads : u # t => work'[u] = work[u]
      /\ work'[t].of = work[t].of /\ work'[t].before = work[t].before
      /\ ~work'[t].locked /\ d \in Diagnosed
      /\ IdSet(work[t].todo) = {d.id} \cup IdSet(work'[t].todo)
      /\ IsList(work[t].todo) /\ IsList(work'[t].todo)
      /\ Once(work[t].todo) => Once(work'[t].todo) /\ d.id \notin IdSet(work'[t].todo)
  BY <1>0, <1>1, <1>a, Parts, NextStep
<1> HIDE DEF d
<1>b. UNCHANGED <<errors, marks, pendingLog, traps, trappedLog>>
  BY <1>1 DEF threadVars
<1>4. /\ TrapsTyped' /\ TrapsAgree' /\ \A i \in Nat : ContentAt(t, i)' = ContentAt(t, i)
  BY <1>0, <1>b, Parts, TrapsKept
<1>5. TransportsTyped' /\ PinsAgree'
  BY <1>0, <1>1, Parts, PinsKept
<1>8. delegates' \in Seq(Delegates) /\ ErrorsTyped'
  BY <1>0, <1>1, <1>b, Parts DEF ErrorsTyped
<1>9. InErrorTransport' = InErrorTransport /\ InDiagnosticTransport' = InDiagnosticTransport
  BY <1>1, <1>2, TransportsKept
<1>10. Report(t) \in Shelves /\ Shelved[Report(t)] = work[t].todo /\ Shelved'[Report(t)] = work'[t].todo
  BY OnShelves, OnShelvesNext
<1>6. FatesOK' /\ OpenIds' = OpenIds \ {d.id}
  <2>1. {d.id} \in SUBSET OpenIds
    BY <1>0, <1>2, <1>10, Parts DEF PlacesOK, Sorted
  <2> QED
    BY <1>0, <1>1, <2>1, Parts, OpenGone
<1>11. CallsAgree'
  <2>1. CallAgrees(t)'
    BY <1>0, <1>1, <1>a, <1>2, <1>b, Parts, LoopAgrees
  <2> QED
    BY <1>0, <1>1, <1>2, <1>b, <2>1, Parts, OthersAgree DEF Uses, transportVars
<1>12. PlacesOK'
  <2> DEFINE a == Report(t)
  <2>1. a \in Shelves /\ Shelved[a] = work[t].todo /\ Shelved'[a] = work'[t].todo
    BY <1>10
  <2>2. ElsewhereKept(t, {a})
    <3>2. Pending(t)' = Pending(t)
      BY <1>b, <1>2 DEF Pending, Uses
    <3> QED
      BY <1>b, <1>2, <1>4, <1>9, <3>2 DEF ElsewhereKept
  <2> HIDE DEF a
  <2> DEFINE some == {d.id}
  <2>4. some \subseteq IdSet(Shelved[a]) /\ IsList(Shelved'[a]) /\ Once(Shelved[a])
    <3>1. Once(Shelved[a])
      BY <1>0, <2>1, Parts DEF PlacesOK, Sorted
    <3> QED
      BY <1>2, <2>1, <3>1
  <2>5. IdSet(Shelved'[a]) = IdSet(Shelved[a]) \ some /\ Once(Shelved'[a]) /\ OpenIds' = OpenIds \ some
    BY <1>2, <1>6, <2>1, <2>4
  <2> HIDE DEF some
  <2> QED
    BY <1>0, <2>1, <2>2, <2>4, <2>5, Parts, SomeGo
<1> QED
  BY <1>2, <1>4, <1>5, <1>6, <1>8, <1>11, <1>12 DEF PInv, Typed

\* What follows the loop: no diagnostic moves; the errors that the destructor of
\* a mark has reported leave the list they were no more answered for in.
LEMMA FinishPlaces ==
  ASSUME AllOK, NEW t \in Threads, Finish(t)
  PROVE  PInv'
<1>0. AllOK
  OBVIOUS
<1>1. /\ work[t].todo = <<>> /\ work' = [work EXCEPT ![t] = Idle]
      /\ UNCHANGED <<nextSerial, traps, trappedLog, delegates, issued, fate>>
  BY DEF Finish
<1>2. /\ WorkTyped' /\ work'[t] = Idle /\ \A u \in Threads : u # t => work'[u] = work[u]
      /\ work'[t].of = "None" /\ work'[t].todo = <<>> /\ ~work'[t].locked
  BY <1>0, <1>1, Parts, CallStep, IdleCall
<1>3. \A what \in {"Mark", "ErrorTransport", "DiagnosticTransport"} : ~Uses(t, what)'
  BY <1>2 DEF Uses
<1>4. /\ TrapsTyped' /\ TrapsAgree' /\ \A i \in Nat : ContentAt(t, i)' = ContentAt(t, i)
  BY <1>0, <1>1, Parts, TrapsKept
<1>5. /\ ErrorsTyped' /\ \A u \in Threads : u # t => errors'[u] = errors[u] /\ marks'[u] = marks[u]
      /\ Pending(t)' = Pending(t)
  <2>1. CASE work[t].of = "Mark"
    <3> DEFINE n == work[t].before
    <3>1. n \in 0 .. Len(errors[t])
      BY <1>0, <2>1 DEF AllOK, IInv, WorkOK, ListsOK, ThreadOK, Ascending, IsList
    <3>2. /\ errors' = [errors EXCEPT ![t] = SubSeq(errors[t], 1, n)]
          /\ marks' = [marks EXCEPT ![t] = CutTo(n, marks[t])]
      BY <2>1 DEF Finish, EraseFrom, RemoveErrors
    <3>3. Pending(t) = SubSeq(errors[t], 1, n) /\ Pending(t)' = errors'[t]
      BY <1>3, <2>1 DEF Pending, Uses
    <3> HIDE DEF n
    <3>4. ErrorsTyped' /\ errors'[t] = SubSeq(errors[t], 1, n)
          /\ \A u \in Threads : u # t => errors'[u] = errors[u]
      BY <1>0, <3>1, <3>2, Parts, RemovedErrors
    <3>5. \A u \in Threads : u # t => marks'[u] = marks[u]
      BY <1>0, <3>2, Parts
    <3> QED
      BY <3>3, <3>4, <3>5
  <2>2. CASE work[t].of # "Mark"
    <3>1. UNCHANGED <<errors, marks>>
      BY <2>2 DEF Finish
    <3>2. Pending(t) = errors[t] /\ Pending(t)' = errors'[t]
      BY <1>3, <2>2 DEF Pending, Uses
    <3> QED
      BY <1>0, <3>1, <3>2, Parts DEF ErrorsTyped
  <2> QED
    BY <2>1, <2>2
<1>6. FatesOK' /\ OpenIds' = OpenIds
  BY <1>0, <1>1, Parts, OpenKept DEF FatesOK
<1>7. delegates' \in Seq(Delegates)
  BY <1>0, <1>1, Parts
<1>8. /\ errorTransport' = [list |-> errorTransport'.list, pin |-> errorTransport'.pin]
      /\ errorTransport'.list \in Seq(Listed) /\ errorTransport'.pin \in Seq(Ids)
      /\ errorTransport'.pin = <<>> \/ errorTransport'.pin = IdsOf(errorTransport'.list)
      /\ InErrorTransport' = InErrorTransport
      /\ errorTransport' = errorTransport \/ Uses(t, "ErrorTransport")
  <2>1. TransportsTyped /\ PinsAgree
    BY <1>0, Parts
  <2>2. CASE work[t].of = "ErrorTransport"
    <3>1. errorTransport' = [errorTransport EXCEPT !.pin = <<>>]
      BY <2>2 DEF Finish
    <3>2. errorTransport' = [list |-> errorTransport.list, pin |-> <<>>]
      BY <2>1, <3>1 DEF TransportsTyped
    <3>3. <<>> \in Seq(Ids)
      OBVIOUS
    <3>4. ~Free("ErrorTransport")
      BY <2>2 DEF Free, Uses
    <3> QED
      BY <2>1, <2>2, <3>2, <3>3, <3>4 DEF TransportsTyped, InErrorTransport, Uses
  <2>3. CASE work[t].of # "ErrorTransport"
    <3>1. errorTransport' = errorTransport
      BY <2>3 DEF Finish
    <3>2. Free("ErrorTransport")' <=> Free("ErrorTransport")
      BY <1>2, <1>3, <2>3 DEF Free, Uses
    <3> QED
      BY <2>1, <3>1, <3>2 DEF TransportsTyped, PinsAgree, InErrorTransport
  <2> QED
    BY <2>2, <2>3
<1>9. /\ diagnosticTransport' = [list |-> diagnosticTransport'.list, pin |-> diagnosticTransport'.pin]
      /\ diagnosticTransport'.list \in Seq(Diagnosed) /\ diagnosticTransport'.pin \in Seq(Ids)
      /\ diagnosticTransport'.pin = IdsOf(diagnosticTransport'.list)
      /\ InDiagnosticTransport' = InDiagnosticTransport
      /\ diagnosticTransport' = diagnosticTransport \/ Uses(t, "DiagnosticTransport")
  <2>1. TransportsTyped /\ PinsAgree
    BY <1>0, Parts
  <2>2. CASE work[t].of = "DiagnosticTransport"
    <3>1. diagnosticTransport' = [list |-> <<>>, pin |-> <<>>]
      BY <2>2 DEF Finish, PostedContainer, Empty
    <3>2. <<>> \in Seq(Diagnosed) /\ <<>> \in Seq(Ids) /\ IdsOf(<<>>) = <<>>
      BY DEF IdsOf
    <3>3. ~Free("DiagnosticTransport")
      BY <2>2 DEF Free, Uses
    <3> QED
      BY <2>2, <3>1, <3>2, <3>3 DEF InDiagnosticTransport, Uses
  <2>3. CASE work[t].of # "DiagnosticTransport"
    <3>1. diagnosticTransport' = diagnosticTransport
      BY <2>3 DEF Finish
    <3>2. Free("DiagnosticTransport")' <=> Free("DiagnosticTransport")
      BY <1>2, <1>3, <2>3 DEF Free, Uses
    <3> QED
      BY <2>1, <3>1, <3>2 DEF TransportsTyped, PinsAgree, InDiagnosticTransport
  <2> QED
    BY <2>2, <2>3
<1>10. TransportsTyped' /\ PinsAgree'
  BY <1>8, <1>9 DEF TransportsTyped, PinsAgree
<1>11. CallsAgree'
  <2>1. CallAgrees(t)'
    BY <1>2, QuietAgrees
  <2> QED
    BY <1>0, <1>2, <1>3, <1>5, <1>8, <1>9, <2>1, Parts, OthersAgree
<1>12. PlacesOK'
  <2>1. ElsewhereKept(t, {})
    BY <1>1, <1>2, <1>4, <1>5, <1>8, <1>9 DEF ElsewhereKept
  <2> QED
    BY <1>0, <1>6, <2>1, Parts, NothingMoves
<1> QED
  BY <1>2, <1>4, <1>5, <1>6, <1>7, <1>10, <1>11, <1>12 DEF PInv, Typed

\* A thread in no call sets a mark.
LEMMA MarksPlaces ==
  ASSUME AllOK, NEW t \in Threads, IsIdle(t), \A u \in Threads : u # t => marks'[u] = marks[u],
         UNCHANGED <<nextSerial, errors, pendingLog, traps, trappedLog, transportVars, delegates, work,
                     ghosts>>
  PROVE  PInv'
<1>0. AllOK
  OBVIOUS
<1>1. UNCHANGED <<issued, fate>>
  BY DEF ghosts
<1>2. /\ work[t] = Idle /\ work[t].of = "None" /\ work[t].todo = <<>> /\ ~work[t].locked
  BY IdleThread
<1>3. /\ TrapsTyped' /\ TrapsAgree' /\ \A i \in Nat : ContentAt(t, i)' = ContentAt(t, i)
  BY <1>0, Parts, TrapsKept
<1>4. TransportsTyped' /\ PinsAgree'
  BY <1>0, Parts, PinsKept
<1>5. FatesOK' /\ OpenIds' = OpenIds
  BY <1>0, <1>1, Parts, OpenKept DEF FatesOK
<1>6. ErrorsTyped' /\ WorkTyped' /\ delegates' \in Seq(Delegates)
  BY <1>0, Parts DEF ErrorsTyped, WorkTyped
<1>7. CallsAgree'
  <2>1. CallAgrees(t)'
    BY <1>2, QuietAgrees
  <2> QED
    BY <1>0, <2>1, Parts, OthersAgree DEF Uses, transportVars
<1>8. PlacesOK'
  <2>1. Pending(t)' = Pending(t)
    BY DEF Pending, Uses
  <2>2. InErrorTransport' = InErrorTransport /\ InDiagnosticTransport' = InDiagnosticTransport
    BY TransportsKept
  <2>3. ElsewhereKept(t, {})
    BY <1>3, <2>1, <2>2 DEF ElsewhereKept
  <2> QED
    BY <1>0, <1>5, <2>3, Parts, NothingMoves
<1> QED
  BY <1>3, <1>4, <1>5, <1>6, <1>7, <1>8 DEF PInv, Typed

\* A mark is created or set anew.
LEMMA SetMarkPlaces ==
  ASSUME AllOK, NEW t \in Threads, CreateMark(t) \/ \E i \in DOMAIN marks[t] : SetMark(t, i)
  PROVE  PInv'
<1>0. AllOK
  OBVIOUS
<1>1. DOMAIN marks = Threads
  BY <1>0, Parts
<1>2. /\ IsIdle(t) /\ \A u \in Threads : u # t => marks'[u] = marks[u]
      /\ UNCHANGED <<nextSerial, errors, pendingLog, traps, trappedLog, transportVars, delegates, work,
                     ghosts>>
  BY <1>1 DEF CreateMark, SetMark
<1> QED
  BY <1>0, <1>2, MarksPlaces

\* A new trap has nothing in it.
LEMMA PushPlaces ==
  ASSUME AllOK, NEW t \in Threads, PushTrap(t)
  PROVE  PInv'
<1>0. AllOK
  OBVIOUS
<1>1. /\ IsIdle(t)
      /\ traps' = [traps EXCEPT ![t] = Append(traps[t], [container |-> <<>>, logStart |-> Unset])]
      /\ UNCHANGED <<nextSerial, errors, marks, pendingLog, trappedLog, transportVars, delegates, work,
                     issued, fate>>
  BY <1>0, Parts DEF PushTrap, ghosts
<1>2. /\ work[t] = Idle /\ work[t].of = "None" /\ work[t].todo = <<>> /\ ~work[t].locked
  BY <1>1, IdleThread
<1> DEFINE stack == traps[t]
           more == Append(stack, [container |-> <<>>, logStart |-> Unset])
           log == trappedLog[t]
<1>3. /\ stack \in Stacks(Diagnosed) /\ TextIsRight(stack, log)
      /\ traps' = [traps EXCEPT ![t] = more] /\ UNCHANGED trappedLog /\ DOMAIN trappedLog = Threads
      /\ log = trappedLog[t]
  <2>1. TrapsTyped /\ TrapsAgree /\ DOMAIN trappedLog = Threads
    BY <1>0, Parts
  <2>2. UNCHANGED trappedLog
    BY <1>1
  <2>3. traps' = [traps EXCEPT ![t] = more]
    BY <1>1
  <2> QED
    BY <2>1, <2>2, <2>3 DEF TrapsTyped, TrapsAgree
<1> HIDE DEF stack, log
<1>4. /\ more \in Stacks(Diagnosed) /\ Len(more) = Len(stack) + 1
      /\ more[Len(stack) + 1].container = <<>>
      /\ \A i \in 1 .. Len(stack) : more[i] = stack[i]
      /\ TextIsRight(more, log)
  BY <1>3, PushedTrap
<1> HIDE DEF more
<1>5. /\ TrapsTyped' /\ TrapsAgree' /\ traps'[t] = more /\ \A u \in Threads : u # t => traps'[u] = traps[u]
  BY <1>0, <1>3, <1>4, Parts, TrapsStep
<1>6. ASSUME NEW i \in Nat PROVE ContentAt(t, i)' = ContentAt(t, i)
  <2>1. traps[t] = stack
    BY DEF stack
  <2>2. PICK n \in Nat : n = Len(stack) /\ DOMAIN stack = 1 .. n
    BY <1>3, StackFacts
  <2>3. DOMAIN more = 1 .. n + 1 /\ more[n + 1].container = <<>> /\ \A j \in 1 .. n : more[j] = stack[j]
    BY <1>4, <2>2, StackFacts
  <2>4. i \in 1 .. n + 1 <=> i \in 1 .. n \/ i = n + 1
    BY <2>2
  <2>5. CASE i \in 1 .. n
    BY <1>5, <2>1, <2>2, <2>3, <2>4, <2>5 DEF ContentAt
  <2>6. CASE i = n + 1
    <3>1. i \notin 1 .. n /\ i \in 1 .. n + 1
      BY <2>2, <2>6
    <3> QED
      BY <1>5, <2>1, <2>2, <2>3, <2>6, <3>1 DEF ContentAt
  <2>7. CASE i \notin 1 .. n /\ i # n + 1
    BY <1>5, <2>1, <2>2, <2>3, <2>4, <2>7 DEF ContentAt
  <2> QED
    BY <2>5, <2>6, <2>7
<1>7. TransportsTyped' /\ PinsAgree'
  BY <1>0, <1>1, Parts, PinsKept
<1>8. FatesOK' /\ OpenIds' = OpenIds
  BY <1>0, <1>1, Parts, OpenKept DEF FatesOK
<1>9. ErrorsTyped' /\ WorkTyped' /\ delegates' \in Seq(Delegates)
  BY <1>0, <1>1, Parts DEF ErrorsTyped, WorkTyped
<1>10. CallsAgree'
  <2>1. CallAgrees(t)'
    BY <1>1, <1>2, QuietAgrees
  <2> QED
    BY <1>0, <1>1, <2>1, Parts, OthersAgree DEF Uses, transportVars
<1>11. PlacesOK'
  <2>1. Pending(t)' = Pending(t)
    BY <1>1 DEF Pending, Uses
  <2>2. InErrorTransport' = InErrorTransport /\ InDiagnosticTransport' = InDiagnosticTransport
    BY <1>1, TransportsKept
  <2>3. ElsewhereKept(t, {})
    BY <1>1, <1>5, <1>6, <2>1, <2>2 DEF ElsewhereKept
  <2> QED
    BY <1>0, <1>8, <2>3, Parts, NothingMoves
<1> QED
  BY <1>5, <1>7, <1>8, <1>9, <1>10, <1>11 DEF PInv, Typed

\* A step that changes nothing but the list of delegates.
LEMMA NothingElse ==
  ASSUME AllOK, delegates' \in Seq(Delegates),
         UNCHANGED <<nextSerial, threadVars, transportVars, work, ghosts>>
  PROVE  PInv'
<1>0. AllOK
  OBVIOUS
<1>1. UNCHANGED <<nextSerial, errors, marks, pendingLog, traps, trappedLog, transportVars, work, issued, fate>>
  BY DEF threadVars, ghosts
<1>4. /\ TrapsTyped' /\ TrapsAgree' /\ \A t, i : ContentAt(t, i)' = ContentAt(t, i)
  BY <1>0, <1>1, Parts, TrapsKept
<1>5. TransportsTyped' /\ PinsAgree'
  BY <1>0, <1>1, Parts, PinsKept
<1>6. FatesOK' /\ OpenIds' = OpenIds
  BY <1>0, <1>1, Parts, OpenKept DEF FatesOK
<1>7. ErrorsTyped' /\ WorkTyped'
  BY <1>0, <1>1, Parts DEF ErrorsTyped, WorkTyped
<1>8. CallsAgree'
  BY <1>0, <1>1, Parts DEF CallsAgree, CallAgrees, OneUser, Uses, ErrorsFrom, transportVars
<1>9. PlacesOK'
  <2>1. \A t : Pending(t)' = Pending(t)
    BY <1>1 DEF Pending, Uses
  <2>2. InErrorTransport' = InErrorTransport /\ InDiagnosticTransport' = InDiagnosticTransport
    BY <1>1, TransportsKept
  <2>3. \A t : ElsewhereKept(t, {})
    BY <1>1, <1>4, <2>1, <2>2 DEF ElsewhereKept
  <2> QED
    BY <1>0, <1>6, <2>3, Parts, NothingMoves
<1> QED
  BY <1>4, <1>5, <1>6, <1>7, <1>8, <1>9 DEF PInv, Typed

\* A delegate comes or goes.
LEMMA DelegatesPlaces ==
  ASSUME AllOK, NEW t \in Threads, NEW d \in Delegates, AddDelegate(t, d) \/ RemoveDelegate(t, d)
  PROVE  PInv'
<1>0. AllOK
  OBVIOUS
<1>1. UNCHANGED <<nextSerial, threadVars, transportVars, work, ghosts>>
  BY DEF AddDelegate, RemoveDelegate
<1>2. delegates \in Seq(Delegates)
  BY <1>0, Parts
<1>3. delegates' \in Seq(Delegates)
  <2>1. CASE AddDelegate(t, d)
    BY <1>2, <2>1 DEF AddDelegate
  <2>2. CASE RemoveDelegate(t, d)
    <3> DEFINE S == Range(delegates) \ {d}
    <3>1. delegates' = Only(delegates, S)
      BY <2>2 DEF RemoveDelegate, Without
    <3>2. Only(delegates, S) \in Seq(Delegates \cap S)
      BY <1>2, OnlyMembers
    <3> HIDE DEF S
    <3>3. Only(delegates, S) \in Seq(Delegates)
      BY <3>2
    <3> QED
      BY <3>1, <3>3
  <2> QED
    BY <2>1, <2>2
<1> QED
  BY <1>0, <1>1, <1>3, NothingElse

\* A step of the rest of the program.
LEMMA StutterPlaces ==
  ASSUME AllOK, UNCHANGED vars
  PROVE  PInv'
  BY Parts, NothingElse DEF vars

\* The texts of transports.
LEMMA IdsTyped ==
  ASSUME NEW list, list \in Seq(Listed) \/ list \in Seq(Diagnosed)
  PROVE  /\ IsList(list) /\ IdsOf(list) \in Seq(Ids) /\ Range(IdsOf(list)) = IdSet(list)
         /\ list # <<>> => IdsOf(list) # <<>>
<1> DEFINE k == Len(list)
<1>1. k \in Nat /\ DOMAIN list = 1 .. k /\ IsList(list) /\ \A i \in 1 .. k : list[i].id \in Ids
  <2>1. (\A x \in Listed : x.id \in Ids) /\ (\A x \in Diagnosed : x.id \in Ids)
    BY DEF Listed, Diagnosed
  <2>2. CASE list \in Seq(Listed)
    BY <2>1, <2>2 DEF IsList
  <2>3. CASE list \in Seq(Diagnosed)
    BY <2>1, <2>3 DEF IsList
  <2> QED
    BY <2>2, <2>3
<1>2. IdsOf(list) = [i \in 1 .. k |-> list[i].id]
  BY <1>1 DEF IdsOf
<1>3. IdsOf(list) \in Seq(Ids) /\ Len(IdsOf(list)) = k
  <2> DEFINE e(i) == list[i].id
  <2>1. IdsOf(list) = [i \in 1 .. k |-> e(i)] /\ \A i \in 1 .. k : e(i) \in Ids
    BY <1>1, <1>2
  <2> HIDE DEF e, k
  <2> QED
    BY <1>1, <2>1
<1>4. list # <<>> => k # 0
  BY <1>1 DEF IsList
<1>5. list # <<>> => IdsOf(list) # <<>>
  <2> HIDE DEF k
  <2> QED
    BY <1>3, <1>4
<1> QED
  BY <1>1, <1>3, <1>5, RangeOfIds

\* Errors that leave the list of a thread in no call.
LEMMA IdleRemoves ==
  ASSUME AllOK, NEW t \in Threads, IsIdle(t), NEW n \in 0 .. Len(errors[t]), NEW serial,
         RemoveErrors(t, n, serial), UNCHANGED work
  PROVE  /\ ErrorsTyped' /\ \A u \in Threads : u # t => errors'[u] = errors[u] /\ marks'[u] = marks[u]
         /\ ErrorList(t) \in Shelves
         /\ ErrorsFrom(t, n) \in Seq(Listed) /\ Once(ErrorsFrom(t, n))
         /\ IsList(Shelved'[ErrorList(t)])
         /\ IdSet(ErrorsFrom(t, n)) \subseteq IdSet(Shelved[ErrorList(t)])
         /\ IdSet(Shelved'[ErrorList(t)]) = IdSet(Shelved[ErrorList(t)]) \ IdSet(ErrorsFrom(t, n))
         /\ Once(Shelved'[ErrorList(t)])
<1>0. AllOK
  OBVIOUS
<1>1. /\ errors' = [errors EXCEPT ![t] = SubSeq(errors[t], 1, n)]
      /\ \A u \in Threads : u # t => marks'[u] = marks[u]
  BY <1>0, Parts DEF RemoveErrors
<1>2. /\ ErrorsTyped' /\ errors'[t] = SubSeq(errors[t], 1, n)
      /\ \A u \in Threads : u # t => errors'[u] = errors[u]
      /\ ErrorsFrom(t, n) \in Seq(Listed) /\ IsList(ErrorsFrom(t, n))
      /\ IsList(errors'[t])
      /\ IdSet(errors[t]) = IdSet(errors'[t]) \cup IdSet(ErrorsFrom(t, n))
      /\ Once(errors[t]) => /\ Once(errors'[t]) /\ Once(ErrorsFrom(t, n))
                            /\ IdSet(errors'[t]) \cap IdSet(ErrorsFrom(t, n)) = {}
  BY <1>0, <1>1, Parts, RemovedErrors
<1>3. /\ ErrorList(t) \in Shelves /\ Shelved[ErrorList(t)] = errors[t]
      /\ Shelved'[ErrorList(t)] = errors'[t]
  <2>1. work[t].of = "None" /\ Pending(t) = errors[t]
    BY IdleThread
  <2>2. Pending(t)' = errors'[t]
    BY <2>1 DEF Pending, Uses
  <2> QED
    BY <2>1, <2>2, OnShelves, OnShelvesNext
<1>4. Once(errors[t])
  BY <1>0, <1>3, Parts DEF PlacesOK, Sorted
<1> DEFINE taken == ErrorsFrom(t, n)
<1> HIDE DEF taken
<1> QED
  BY <1>1, <1>2, <1>3, <1>4 DEF taken

\* The errors that a mark finds are handled.
LEMMA ClearMarkPlaces ==
  ASSUME AllOK, NEW t \in Threads, NEW i \in DOMAIN marks[t], ClearMark(t, i)
  PROVE  PInv'
<1>0. AllOK
  OBVIOUS
<1>1. PICK n \in 0 .. Len(errors[t]) : n = Preceding(errors[t], marks[t][i].mark)
  BY <1>0, FoundByMark DEF AllOK, IInv
<1> DEFINE taken == ErrorsFrom(t, n)
<1>2. /\ IsIdle(t) /\ RemoveErrors(t, n, errors[t][n + 1].serial)
      /\ Becomes(Range(IdsOf(taken)), "Handled")
      /\ UNCHANGED <<nextSerial, traps, trappedLog, transportVars, delegates, work, issued>>
  BY <1>1 DEF ClearMark, EraseFrom
<1> DEFINE a == ErrorList(t)
<1>3. /\ ErrorsTyped' /\ \A u \in Threads : u # t => errors'[u] = errors[u] /\ marks'[u] = marks[u]
      /\ a \in Shelves /\ taken \in Seq(Listed) /\ Once(taken)
      /\ IsList(Shelved'[a])
      /\ IdSet(taken) \subseteq IdSet(Shelved[a])
      /\ IdSet(Shelved'[a]) = IdSet(Shelved[a]) \ IdSet(taken) /\ Once(Shelved'[a])
  BY <1>0, <1>2, IdleRemoves
<1>4. /\ work[t].of = "None" /\ work[t].todo = <<>> /\ ~work[t].locked
  BY <1>2, IdleThread
<1> HIDE DEF taken
<1> DEFINE gone == IdSet(taken)
<1>5. gone = Range(IdsOf(taken))
  BY <1>3, IdsTyped
<1>6. FatesOK' /\ OpenIds' = OpenIds \ gone
  <2>1. gone \in SUBSET OpenIds
    BY <1>0, <1>3, Parts DEF PlacesOK, Sorted
  <2>2. Becomes(gone, "Handled")
    BY <1>2, <1>5
  <2> HIDE DEF gone
  <2> QED
    BY <1>0, <1>2, <2>1, <2>2, Parts, OpenGone
<1>7. /\ TrapsTyped' /\ TrapsAgree' /\ \A j \in Nat : ContentAt(t, j)' = ContentAt(t, j)
  BY <1>0, <1>2, Parts, TrapsKept
<1>8. TransportsTyped' /\ PinsAgree'
  BY <1>0, <1>2, Parts, PinsKept
<1>9. WorkTyped' /\ delegates' \in Seq(Delegates)
  BY <1>0, <1>2, Parts DEF WorkTyped
<1>10. CallsAgree'
  <2>1. CallAgrees(t)'
    BY <1>2, <1>4, QuietAgrees
  <2> QED
    BY <1>0, <1>2, <1>3, <2>1, Parts, OthersAgree DEF Uses, transportVars
<1>11. PlacesOK'
  <2>1. InErrorTransport' = InErrorTransport /\ InDiagnosticTransport' = InDiagnosticTransport
    BY <1>2, TransportsKept
  <2>2. ElsewhereKept(t, {a})
    BY <1>2, <1>3, <1>7, <2>1 DEF ElsewhereKept
  <2> HIDE DEF a, gone
  <2> QED
    BY <1>0, <1>3, <1>6, <2>2, Parts, SomeGo DEF gone
<1> QED
  BY <1>3, <1>6, <1>7, <1>8, <1>9, <1>10, <1>11 DEF PInv, Typed

\* The errors that a mark finds go into a transport.
LEMMA TransportMarkPlaces ==
  ASSUME AllOK, NEW t \in Threads, NEW i \in DOMAIN marks[t], TransportMark(t, i)
  PROVE  PInv'
<1>0. AllOK
  OBVIOUS
<1>1. PICK n \in 0 .. Len(errors[t]) : n = Preceding(errors[t], marks[t][i].mark)
  BY <1>0, FoundByMark DEF AllOK, IInv
<1> DEFINE taken == ErrorsFrom(t, n)
<1>2. /\ IsIdle(t) /\ RemoveErrors(t, n, marks[t][i].mark)
      /\ Free("ErrorTransport") /\ errorTransport.pin = <<>> /\ taken # <<>>
      /\ errorTransport' = [list |-> taken, pin |-> IdsOf(taken)]
      /\ UNCHANGED <<nextSerial, traps, trappedLog, diagnosticTransport, delegates, work, issued, fate>>
  BY <1>1 DEF TransportMark, PinLogText, ghosts
<1> DEFINE a == ErrorList(t)
           b == Transport("ErrorTransport")
<1>3. /\ ErrorsTyped' /\ \A u \in Threads : u # t => errors'[u] = errors[u] /\ marks'[u] = marks[u]
      /\ a \in Shelves /\ taken \in Seq(Listed) /\ Once(taken)
      /\ IsList(Shelved'[a])
      /\ IdSet(taken) \subseteq IdSet(Shelved[a])
      /\ IdSet(Shelved'[a]) = IdSet(Shelved[a]) \ IdSet(taken) /\ Once(Shelved'[a])
  BY <1>0, <1>2, IdleRemoves
<1>4. /\ work[t].of = "None" /\ work[t].todo = <<>> /\ ~work[t].locked
  BY <1>2, IdleThread
<1> HIDE DEF taken
<1>5. IsList(taken) /\ IdsOf(taken) \in Seq(Ids) /\ IdsOf(taken) # <<>>
  BY <1>2, <1>3, IdsTyped
<1>6. FatesOK' /\ OpenIds' = OpenIds
  BY <1>0, <1>2, Parts, OpenKept DEF FatesOK
<1>7. /\ TrapsTyped' /\ TrapsAgree' /\ \A j \in Nat : ContentAt(t, j)' = ContentAt(t, j)
  BY <1>0, <1>2, Parts, TrapsKept
<1>8. TransportsTyped' /\ PinsAgree'
  BY <1>0, <1>2, <1>3, <1>5, Parts DEF TransportsTyped, PinsAgree
<1>9. WorkTyped' /\ delegates' \in Seq(Delegates)
  BY <1>0, <1>2, Parts DEF WorkTyped
<1>10. CallsAgree'
  <2>1. CallAgrees(t)'
    BY <1>2, <1>4, QuietAgrees
  <2> QED
    BY <1>0, <1>2, <1>3, <2>1, Parts, OthersAgree DEF Uses
<1>11. PlacesOK'
  <2>1. InErrorTransport = <<>> /\ InErrorTransport' = taken /\ InDiagnosticTransport' = InDiagnosticTransport
    BY <1>2, <1>5 DEF InErrorTransport, InDiagnosticTransport, Free, Uses
  <2>2. b \in Shelves /\ Shelved[b] = <<>> /\ Shelved'[b] = taken /\ a # b
    BY <2>1, OnShelves, OnShelvesNext, ShelvesDiffer
  <2>3. ElsewhereKept(t, {a, b})
    BY <1>2, <1>3, <1>7, <2>1 DEF ElsewhereKept
  <2> HIDE DEF a, b
  <2> DEFINE some == IdSet(taken)
  <2>4. IdSet(Shelved'[b]) = IdSet(Shelved[b]) \cup some
    BY <2>2, NoIds
  <2>5. /\ some \subseteq IdSet(Shelved[a]) /\ IdSet(Shelved'[a]) = IdSet(Shelved[a]) \ some
        /\ Once(Shelved'[b]) /\ IsList(Shelved'[b])
    BY <1>3, <1>5, <2>2
  <2> HIDE DEF some
  <2> QED
    BY <1>0, <1>3, <1>6, <2>2, <2>3, <2>4, <2>5, Parts, SomeMove
<1> QED
  BY <1>3, <1>6, <1>7, <1>8, <1>9, <1>10, <1>11 DEF PInv, Typed

\* The last mark of a thread reports the errors behind it.
LEMMA LastMarkPlaces ==
  ASSUME AllOK, NEW t \in Threads, IsIdle(t), NEW n \in 0 .. Len(errors[t]),
         marks'[t] = <<>>, \A u \in Threads : u # t => marks'[u] = marks[u],
         work' = [work EXCEPT ![t] = Reporting("Mark", AsDiagnostics(ErrorsFrom(t, n)), n)],
         UNCHANGED <<nextSerial, errors, pendingLog, traps, trappedLog, transportVars, delegates,
                     issued, fate>>
  PROVE  PInv'
<1>0. AllOK
  OBVIOUS
<1> DEFINE taken == ErrorsFrom(t, n)
           todo == AsDiagnostics(taken)
           c == Reporting("Mark", todo, n)
           list == errors[t]
           kept == SubSeq(list, 1, n)
<1>1. list \in Seq(Listed) /\ IsList(list) /\ Len(list) \in Nat /\ n \in 0 .. Len(list) /\ n \in Nat
  <2>1. list \in Seq(Listed)
    BY <1>0, Parts DEF ErrorsTyped
  <2> HIDE DEF list
  <2>2. IsList(list) /\ Len(list) \in Nat
    BY <2>1 DEF IsList
  <2> QED
    BY <2>1, <2>2 DEF list
<1>2. taken = SubSeq(list, n + 1, Len(list)) /\ taken \in Seq(Listed)
  <2>1. taken = SubSeq(list, n + 1, Len(list))
    BY DEF ErrorsFrom
  <2> HIDE DEF list, taken
  <2> QED
    BY <1>1, <2>1
<1>3. /\ work[t] = Idle /\ work[t].of = "None" /\ work[t].todo = <<>> /\ ~work[t].locked
      /\ Pending(t) = list
  BY IdleThread
<1> HIDE DEF taken, list
<1>4. /\ todo \in Seq(Diagnosed) /\ IsList(taken) /\ IsList(todo) /\ IdSet(todo) = IdSet(taken)
      /\ Once(taken) => Once(todo)
  BY <1>2, ReportedErrors
<1>5. /\ IsList(kept) /\ IdSet(list) = IdSet(kept) \cup IdSet(taken)
      /\ Once(list) => Once(kept) /\ Once(taken) /\ IdSet(kept) \cap IdSet(taken) = {}
  BY <1>1, <1>2, SplitIds
<1> HIDE DEF todo
<1>6. /\ c \in Calls /\ c.of = "Mark" /\ c.todo = todo /\ ~c.locked /\ c.before = n
  BY <1>1, <1>4, ReportingCall DEF Causes
<1>7. work' = [work EXCEPT ![t] = c]
  BY DEF todo, taken
<1> HIDE DEF c
<1>8. WorkTyped' /\ work'[t] = c /\ \A u \in Threads : u # t => work'[u] = work[u]
  BY <1>0, <1>6, <1>7, Parts, CallStep
<1>9. /\ TrapsTyped' /\ TrapsAgree' /\ \A j \in Nat : ContentAt(t, j)' = ContentAt(t, j)
  BY <1>0, Parts, TrapsKept
<1>10. TransportsTyped' /\ PinsAgree'
  BY <1>0, Parts, PinsKept
<1>11. FatesOK' /\ OpenIds' = OpenIds
  BY <1>0, Parts, OpenKept DEF FatesOK
<1>12. ErrorsTyped' /\ delegates' \in Seq(Delegates)
  BY <1>0, Parts DEF ErrorsTyped
<1>13. CallsAgree'
  <2>1. ErrorsFrom(t, n)' = taken
    BY DEF ErrorsFrom, taken
  <2>2. CallAgrees(t)'
    BY <1>4, <1>6, <1>8, <2>1 DEF CallAgrees, Uses
  <2>3. \A what \in {"ErrorTransport", "DiagnosticTransport"} : ~Uses(t, what)'
    BY <1>6, <1>8 DEF Uses
  <2> QED
    BY <1>0, <1>8, <2>2, <2>3, Parts, OthersAgree DEF transportVars
<1>14. PlacesOK'
  <2> DEFINE a == ErrorList(t)
             b == Report(t)
  <2>1. Pending(t)' = kept
    BY <1>6, <1>8 DEF Pending, Uses, list
  <2>2. /\ a \in Shelves /\ Shelved[a] = list /\ Shelved'[a] = kept
        /\ b \in Shelves /\ Shelved[b] = <<>> /\ Shelved'[b] = todo /\ a # b
    BY <1>3, <1>6, <1>8, <2>1, OnShelves, OnShelvesNext, ShelvesDiffer
  <2>3. InErrorTransport' = InErrorTransport /\ InDiagnosticTransport' = InDiagnosticTransport
    BY <1>3, <1>6, <1>8, TransportsKept
  <2>4. ElsewhereKept(t, {a, b})
    BY <1>8, <1>9, <2>3 DEF ElsewhereKept
  <2> HIDE DEF a, b, kept
  <2>5. Once(list)
    BY <1>0, <2>2, Parts DEF PlacesOK, Sorted
  <2> DEFINE some == IdSet(taken)
  <2>6. /\ some \subseteq IdSet(Shelved[a]) /\ IdSet(Shelved'[a]) = IdSet(Shelved[a]) \ some
        /\ Once(Shelved'[a]) /\ IsList(Shelved'[a])
    BY <1>5, <2>2, <2>5
  <2>7. /\ IdSet(Shelved'[b]) = IdSet(Shelved[b]) \cup some /\ Once(Shelved'[b]) /\ IsList(Shelved'[b])
    BY <1>4, <1>5, <2>2, <2>5, NoIds
  <2> HIDE DEF some
  <2> QED
    BY <1>0, <1>11, <2>2, <2>4, <2>6, <2>7, Parts, SomeMove
<1> QED
  BY <1>8, <1>9, <1>10, <1>11, <1>12, <1>13, <1>14 DEF PInv, Typed

\* ~TfErrorMark.
LEMMA DestroyPlaces ==
  ASSUME AllOK, NEW t \in Threads, NEW i \in DOMAIN marks[t], DestroyMark(t, i)
  PROVE  PInv'
<1>0. AllOK
  OBVIOUS
<1>1. DOMAIN marks = Threads /\ IsList(marks[t])
  BY <1>0, Parts DEF AllOK, IInv, ListsOK, ThreadOK
<1>2. /\ IsIdle(t) /\ marks'[t] = RemoveAt(marks[t], i)
      /\ \A u \in Threads : u # t => marks'[u] = marks[u]
      /\ UNCHANGED <<nextSerial, errors, pendingLog, traps, trappedLog, transportVars, delegates,
                     issued, fate>>
  BY <1>1 DEF DestroyMark, ghosts
<1>3. CASE Len(marks[t]) = 1 /\ ~IsClean(t, marks[t][i].mark)
  <2>1. PICK n \in 0 .. Len(errors[t]) : n = Preceding(errors[t], marks[t][i].mark)
    BY <1>0, FoundByMark DEF AllOK, IInv
  <2>2. work' = [work EXCEPT ![t] = Reporting("Mark", AsDiagnostics(ErrorsFrom(t, n)), n)]
    BY <1>3, <2>1 DEF DestroyMark
  <2>3. marks'[t] = <<>>
    <3> DEFINE ms == marks[t]
    <3>1. PICK S : ms \in Seq(S)
      BY <1>1 DEF IsList
    <3>2. Len(ms) = 1 /\ i \in DOMAIN ms
      BY <1>3
    <3> HIDE DEF ms
    <3>3. i = 1
      BY <3>1, <3>2
    <3>4. SubSeq(ms, 1, 0) = <<>> /\ SubSeq(ms, 2, 1) = <<>>
      BY <3>1
    <3>5. RemoveAt(ms, i) = <<>>
      BY <3>2, <3>3, <3>4 DEF RemoveAt
    <3> QED
      BY <1>2, <3>5 DEF ms
  <2> QED
    BY <1>0, <1>2, <2>2, <2>3, LastMarkPlaces
<1>4. CASE ~(Len(marks[t]) = 1 /\ ~IsClean(t, marks[t][i].mark))
  <2>1. UNCHANGED work
    BY <1>4 DEF DestroyMark
  <2> QED
    BY <1>0, <1>2, <2>1, MarksPlaces DEF ghosts
<1> QED
  BY <1>3, <1>4

\* The errors of a transport join the list of a thread with a mark.
LEMMA SplicePlaces ==
  ASSUME AllOK, NEW t \in Threads, IsIdle(t), Free("ErrorTransport"), errorTransport.pin # <<>>,
         AddErrors(t, errorTransport.list), errorTransport' = Empty,
         UNCHANGED <<work, marks, traps, trappedLog, diagnosticTransport, delegates, issued, fate>>
  PROVE  PInv'
<1>0. AllOK
  OBVIOUS
<1> DEFINE list == errorTransport.list
           a == Transport("ErrorTransport")
           b == ErrorList(t)
<1>1. list \in Seq(Listed) /\ IsList(list) /\ IdSet(list) \subseteq Ids
  <2>1. list \in Seq(Listed)
    BY <1>0, Parts DEF TransportsTyped
  <2> HIDE DEF list
  <2>2. IsList(list) /\ \A i \in DOMAIN list : list[i] \in Listed
    BY <2>1 DEF IsList
  <2> QED
    BY <2>1, <2>2 DEF list, IdSet, Listed
<1>2. /\ work[t].of = "None" /\ work[t].todo = <<>> /\ ~work[t].locked /\ Pending(t) = errors[t]
  BY IdleThread
<1> HIDE DEF list
<1>3. /\ ErrorsTyped' /\ \A u \in Threads : u # t => errors'[u] = errors[u]
      /\ IdSet(errors'[t]) = IdSet(errors[t]) \cup IdSet(list)
      /\ IsList(errors'[t])
      /\ Once(errors[t]) /\ Once(list) /\ IdSet(errors[t]) \cap IdSet(list) = {} => Once(errors'[t])
  <2>1. AddErrors(t, list)
    BY DEF list
  <2> QED
    BY <1>0, <1>1, <2>1, Parts, AddedErrors
<1>4. /\ TrapsTyped' /\ TrapsAgree' /\ \A j \in Nat : ContentAt(t, j)' = ContentAt(t, j)
  BY <1>0, Parts, TrapsKept
<1>5. TransportsTyped' /\ PinsAgree'
  <2>1. <<>> \in Seq(Listed) /\ <<>> \in Seq(Ids)
    OBVIOUS
  <2>2. TransportsTyped /\ PinsAgree
    BY <1>0, Parts
  <2> QED
    BY <2>1, <2>2 DEF TransportsTyped, PinsAgree, Empty
<1>6. FatesOK' /\ OpenIds' = OpenIds
  BY <1>0, Parts, OpenKept DEF FatesOK
<1>7. WorkTyped' /\ delegates' \in Seq(Delegates)
  BY <1>0, Parts DEF WorkTyped
<1>8. CallsAgree'
  <2>1. CallAgrees(t)'
    BY <1>2, QuietAgrees
  <2> QED
    BY <1>0, <1>3, <2>1, Parts, OthersAgree DEF Uses
<1>9. PlacesOK'
  <2>1. InErrorTransport = list /\ InErrorTransport' = <<>> /\ InDiagnosticTransport' = InDiagnosticTransport
    BY DEF InErrorTransport, InDiagnosticTransport, Free, Uses, Empty, list
  <2>2. /\ a \in Shelves /\ Shelved[a] = list /\ Shelved'[a] = <<>>
        /\ b \in Shelves /\ Shelved[b] = errors[t] /\ Shelved'[b] = errors'[t] /\ a # b
    <3>1. Pending(t)' = errors'[t]
      BY <1>2 DEF Pending, Uses
    <3> QED
      BY <1>2, <2>1, <3>1, OnShelves, OnShelvesNext, ShelvesDiffer
  <2>3. ElsewhereKept(t, {a, b})
    BY <1>3, <1>4, <2>1 DEF ElsewhereKept
  <2> HIDE DEF a, b
  <2>4. Once(list)
    BY <1>0, <2>2, Parts DEF PlacesOK, Sorted
  <2> DEFINE some == IdSet(list)
  <2>5. /\ some \subseteq IdSet(Shelved[a]) /\ IdSet(Shelved'[a]) = IdSet(Shelved[a]) \ some
        /\ Once(Shelved'[a]) /\ IsList(Shelved'[a])
    BY <2>2, NoIds
  <2>6. /\ IdSet(Shelved'[b]) = IdSet(Shelved[b]) \cup some /\ IsList(Shelved'[b])
        /\ Once(Shelved[b]) /\ IdSet(Shelved[b]) \cap some = {} => Once(Shelved'[b])
    BY <1>3, <2>2, <2>4
  <2> HIDE DEF some
  <2> QED
    BY <1>0, <1>6, <2>2, <2>3, <2>5, <2>6, Parts, SomeMove
<1> QED
  BY <1>3, <1>4, <1>5, <1>6, <1>7, <1>8, <1>9 DEF PInv, Typed

\* A call takes what a transport holds, to report it.
LEMMA TakenPlaces ==
  ASSUME AllOK, NEW t \in Threads, IsIdle(t), NEW what \in {"ErrorTransport", "DiagnosticTransport"},
         Free(what), NEW todo \in Seq(Diagnosed), Once(Shelved[Transport(what)]) => Once(todo),
         IdSet(todo) = IdSet(Shelved[Transport(what)]),
         what = "ErrorTransport" =>
           errorTransport.pin = <<>> \/ IdSet(todo) \subseteq IdSet(errorTransport.list),
         what = "DiagnosticTransport" =>
           diagnosticTransport.list # <<>> /\ IdSet(todo) \subseteq IdSet(diagnosticTransport.list),
         work' = [work EXCEPT ![t] = Reporting(what, todo, 0)],
         UNCHANGED <<nextSerial, errors, marks, pendingLog, traps, trappedLog, transportVars,
                     delegates, issued, fate>>
  PROVE  PInv'
<1>0. AllOK
  OBVIOUS
<1> DEFINE c == Reporting(what, todo, 0)
           a == Transport(what)
           b == Report(t)
<1>1. /\ c \in Calls /\ c.of = what /\ c.todo = todo /\ ~c.locked
  BY ReportingCall DEF Causes
<1>2. work' = [work EXCEPT ![t] = c]
  OBVIOUS
<1> HIDE DEF c
<1>3. WorkTyped' /\ work'[t] = c /\ \A u \in Threads : u # t => work'[u] = work[u]
  BY <1>0, <1>1, <1>2, Parts, CallStep
<1>4. /\ work[t].of = "None" /\ work[t].todo = <<>> /\ ~work[t].locked /\ Pending(t) = errors[t]
  BY IdleThread
<1>5. /\ TrapsTyped' /\ TrapsAgree' /\ \A j \in Nat : ContentAt(t, j)' = ContentAt(t, j)
  BY <1>0, Parts, TrapsKept
<1>6. TransportsTyped' /\ PinsAgree'
  BY <1>0, Parts, PinsKept
<1>7. FatesOK' /\ OpenIds' = OpenIds
  BY <1>0, Parts, OpenKept DEF FatesOK
<1>8. ErrorsTyped' /\ delegates' \in Seq(Delegates)
  BY <1>0, Parts DEF ErrorsTyped
<1>9. UNCHANGED <<errorTransport, diagnosticTransport>>
  BY DEF transportVars
<1>10. CallsAgree'
  <2>1. IsList(todo)
    BY DEF IsList
  <2>2. CallAgrees(t)'
    BY <1>1, <1>3, <1>9 DEF CallAgrees, Uses
  <2>3. \A w \in {"ErrorTransport", "DiagnosticTransport"} : Uses(t, w)' => Uses(t, w) \/ Free(w)
    BY <1>1, <1>3 DEF Uses
  <2> QED
    BY <1>0, <1>3, <1>9, <2>2, <2>3, Parts, OthersAgree
<1>11. PlacesOK'
  <2>1. \A w \in {"ErrorTransport", "DiagnosticTransport"} : w # what => (Free(w)' <=> Free(w))
    BY <1>1, <1>3, <1>4 DEF Free, Uses
  <2>2. ~Free(what)'
    BY <1>1, <1>3 DEF Free, Uses
  <2>3. /\ InErrorTransport' = IF what = "ErrorTransport" THEN <<>> ELSE InErrorTransport
        /\ InDiagnosticTransport' = IF what = "DiagnosticTransport" THEN <<>> ELSE InDiagnosticTransport
    BY <1>9, <2>1, <2>2 DEF InErrorTransport, InDiagnosticTransport
  <2>4. /\ a \in Shelves /\ Shelved'[a] = <<>> /\ a # b
        /\ b \in Shelves /\ Shelved[b] = <<>> /\ Shelved'[b] = todo
    BY <1>1, <1>3, <1>4, <2>3, OnShelves, OnShelvesNext, ShelvesDiffer
  <2>5. Pending(t)' = Pending(t)
    BY <1>1, <1>3, <1>4 DEF Pending, Uses
  <2>6. ElsewhereKept(t, {a, b})
    BY <1>3, <1>5, <2>3, <2>5 DEF ElsewhereKept
  <2>7. Once(Shelved[a]) /\ Once(todo) /\ IsList(todo)
    BY <1>0, <2>4, Parts DEF PlacesOK, Sorted, IsList
  <2>8. IdSet(todo) = IdSet(Shelved[a])
    OBVIOUS
  <2> HIDE DEF a, b
  <2> DEFINE some == IdSet(todo)
  <2>9. /\ some \subseteq IdSet(Shelved[a]) /\ IdSet(Shelved'[a]) = IdSet(Shelved[a]) \ some
        /\ Once(Shelved'[a]) /\ IsList(Shelved'[a])
    BY <2>4, <2>8, NoIds
  <2>10. IdSet(Shelved'[b]) = IdSet(Shelved[b]) \cup some /\ Once(Shelved'[b]) /\ IsList(Shelved'[b])
    BY <2>4, <2>7, NoIds
  <2> HIDE DEF some
  <2> QED
    BY <1>0, <1>7, <2>4, <2>6, <2>9, <2>10, Parts, SomeMove
<1> QED
  BY <1>3, <1>5, <1>6, <1>7, <1>8, <1>10, <1>11 DEF PInv, Typed

\* TfErrorTransport::Post for the first time, with and without a mark,
LEMMA PostOncePlaces ==
  ASSUME AllOK, NEW t \in Threads, PostErrorTransport(t), errorTransport.pin # <<>>
  PROVE  PInv'
<1>0. AllOK
  OBVIOUS
<1>1. /\ IsIdle(t) /\ Free("ErrorTransport") /\ errorTransport.pin # <<>>
      /\ UNCHANGED <<marks, traps, trappedLog, diagnosticTransport, delegates, issued, fate>>
  BY DEF PostErrorTransport
<1> DEFINE list == errorTransport.list
<1>2. CASE HasActiveErrorMark(t)
  <2>1. AddErrors(t, list) /\ errorTransport' = Empty /\ UNCHANGED work
    BY <1>2 DEF PostErrorTransport
  <2> QED
    BY <1>0, <1>1, <2>1, SplicePlaces
<1>3. CASE ~HasActiveErrorMark(t)
  <2> DEFINE todo == AsDiagnostics(list)
  <2>1. work' = [work EXCEPT ![t] = Reporting("ErrorTransport", todo, 0)]
        /\ UNCHANGED <<nextSerial, errors, pendingLog, errorTransport>>
    BY <1>3 DEF PostErrorTransport
  <2>2. list \in Seq(Listed)
    BY <1>0, Parts DEF TransportsTyped
  <2>3. Shelved[Transport("ErrorTransport")] = list
    BY <1>1, OnShelves DEF InErrorTransport
  <2> HIDE DEF list
  <2>4. todo \in Seq(Diagnosed) /\ IdSet(todo) = IdSet(list) /\ (Once(list) => Once(todo))
    BY <2>2, ReportedErrors
  <2> HIDE DEF todo
  <2>5. IdSet(todo) \subseteq IdSet(errorTransport.list)
    BY <2>4 DEF list
  <2> DEFINE what == "ErrorTransport"
  <2>6. /\ what \in {"ErrorTransport", "DiagnosticTransport"} /\ Free(what)
        /\ IdSet(todo) = IdSet(Shelved[Transport(what)])
        /\ Once(Shelved[Transport(what)]) => Once(todo)
        /\ what # "DiagnosticTransport"
        /\ what = "ErrorTransport" =>
             errorTransport.pin = <<>> \/ IdSet(todo) \subseteq IdSet(errorTransport.list)
        /\ work' = [work EXCEPT ![t] = Reporting(what, todo, 0)]
    BY <1>1, <2>1, <2>3, <2>4, <2>5
  <2>7. UNCHANGED <<nextSerial, errors, marks, pendingLog, traps, trappedLog, transportVars, delegates,
                    issued, fate>>
    BY <1>1, <2>1 DEF transportVars
  <2> HIDE DEF what
  <2> QED
    BY <1>0, <1>1, <2>4, <2>6, <2>7, TakenPlaces
<1> QED
  BY <1>2, <1>3

\* and once more, after it was posted without a mark.
LEMMA PostAgainPlaces ==
  ASSUME AllOK, NEW t \in Threads, PostErrorTransport(t), errorTransport.pin = <<>>
  PROVE  PInv'
<1>0. AllOK
  OBVIOUS
<1> DEFINE old == errorTransport.list
           list == Reissued(old)
<1>1. /\ IsIdle(t) /\ Free("ErrorTransport") /\ errorTransport.pin = <<>>
      /\ UNCHANGED <<marks, traps, trappedLog, diagnosticTransport, delegates, fate>>
  BY DEF PostErrorTransport
<1>2. old \in Seq(Listed) /\ FatesOK
  BY <1>0, Parts DEF TransportsTyped
<1>3. issued' = issued + Len(list) /\ issued' <= MaxPosts
  BY DEF PostErrorTransport
<1>4. Len(list) = Len(old)
  <2> HIDE DEF old
  <2> QED
    BY <1>2, ReissuedIsAList DEF IsList
<1>5. /\ list \in Seq(Listed) /\ IsList(list) /\ Once(list) /\ IdSet(list) \subseteq Ids
      /\ IdSet(list) \cap OpenIds = {} /\ FatesOK' /\ OpenIds' = OpenIds \cup IdSet(list)
  <2> HIDE DEF old
  <2> QED
    BY <1>1, <1>2, <1>3, <1>4, OpenReissued
<1>6. CASE HasActiveErrorMark(t)
  <2>1. AddErrors(t, list) /\ errorTransport' = Empty /\ UNCHANGED work
    BY <1>1, <1>6 DEF PostErrorTransport
  <2>2. TransportsTyped' /\ PinsAgree'
    <3>1. <<>> \in Seq(Listed) /\ <<>> \in Seq(Ids)
      OBVIOUS
    <3>2. TransportsTyped /\ PinsAgree
      BY <1>0, Parts
    <3> QED
      BY <1>1, <2>1, <3>1, <3>2 DEF TransportsTyped, PinsAgree, Empty
  <2>3. InErrorTransport' = InErrorTransport
    BY <1>1, <2>1 DEF InErrorTransport, Empty
  <2> HIDE DEF list
  <2> QED
    BY <1>0, <1>1, <1>5, <2>1, <2>2, <2>3, JoinedPlaces
<1>7. CASE ~HasActiveErrorMark(t)
  <2> DEFINE todo == AsDiagnostics(list)
             of == "ErrorTransport"
  <2>1. /\ work' = [work EXCEPT ![t] = Reporting(of, todo, 0)]
        /\ UNCHANGED <<nextSerial, errors, pendingLog, transportVars>>
    BY <1>1, <1>7 DEF PostErrorTransport, transportVars
  <2> HIDE DEF list
  <2>2. todo \in Seq(Diagnosed) /\ IdSet(todo) = IdSet(list) /\ Once(todo)
    BY <1>5, ReportedErrors
  <2>3. of \in {"Post", "ErrorTransport"}
    OBVIOUS
  <2> HIDE DEF todo, of
  <2>4. IdSet(todo) \cap OpenIds = {} /\ OpenIds' = OpenIds \cup IdSet(todo)
    BY <1>5, <2>2
  <2> QED
    BY <1>0, <1>1, <1>5, <2>1, <2>2, <2>3, <2>4, BegunPlaces
<1> QED
  BY <1>6, <1>7

\* TfErrorTransport::Post.
LEMMA PostErrorsPlaces ==
  ASSUME AllOK, NEW t \in Threads, PostErrorTransport(t)
  PROVE  PInv'
  BY PostOncePlaces, PostAgainPlaces

\* TfDiagnosticTransport::Post.
LEMMA PostDiagnosticsPlaces ==
  ASSUME AllOK, NEW t \in Threads, PostDiagnosticTransport(t)
  PROVE  PInv'
<1>0. AllOK
  OBVIOUS
<1> DEFINE todo == diagnosticTransport.list
           what == "DiagnosticTransport"
<1>1. /\ IsIdle(t) /\ Free(what)
      /\ work' = [work EXCEPT ![t] = Reporting(what, todo, 0)]
      /\ UNCHANGED <<nextSerial, errors, marks, pendingLog, traps, trappedLog, transportVars, delegates,
                     issued, fate>>
  BY DEF PostDiagnosticTransport, threadVars, ghosts
<1>2. todo \in Seq(Diagnosed)
  BY <1>0, Parts DEF TransportsTyped
<1>3. Shelved[Transport(what)] = todo
  BY <1>1, OnShelves DEF InDiagnosticTransport
<1>4. /\ what \in {"ErrorTransport", "DiagnosticTransport"} /\ what # "ErrorTransport"
      /\ diagnosticTransport.list # <<>> /\ IdSet(todo) \subseteq IdSet(diagnosticTransport.list)
  BY DEF PostDiagnosticTransport
<1> HIDE DEF todo, what
<1> QED
  BY <1>0, <1>1, <1>2, <1>3, <1>4, TakenPlaces

\* A transport is destroyed with what it holds.
LEMMA DroppedPlaces ==
  ASSUME AllOK, NEW what \in {"ErrorTransport", "DiagnosticTransport"},
         NEW gone, gone = IdSet(Shelved[Transport(what)]), Becomes(gone, "Handled"), UNCHANGED issued,
         Shelved'[Transport(what)] = <<>>,
         InErrorTransport' = InErrorTransport \/ what = "ErrorTransport",
         InDiagnosticTransport' = InDiagnosticTransport \/ what = "DiagnosticTransport",
         TransportsTyped', PinsAgree', CallsAgree',
         UNCHANGED <<nextSerial, errors, marks, pendingLog, traps, trappedLog, delegates, work>>
  PROVE  PInv'
<1>0. AllOK
  OBVIOUS
<1> DEFINE a == Transport(what)
<1>1. a \in Shelves
  BY OnShelves
<1>2. FatesOK' /\ OpenIds' = OpenIds \ gone
  <2>1. gone \in SUBSET OpenIds
    BY <1>0, <1>1, Parts DEF PlacesOK, Sorted
  <2> QED
    BY <1>0, <2>1, Parts, OpenGone
<1>3. /\ TrapsTyped' /\ TrapsAgree' /\ \A t, j : ContentAt(t, j)' = ContentAt(t, j)
  BY <1>0, Parts, TrapsKept
<1>4. ErrorsTyped' /\ WorkTyped' /\ delegates' \in Seq(Delegates)
  BY <1>0, Parts DEF ErrorsTyped, WorkTyped
<1>5. PlacesOK'
  <2>1. \A t : Pending(t)' = Pending(t)
    BY DEF Pending, Uses
  <2>2. \A t : ElsewhereKept(t, {a})
    BY <1>3, <2>1 DEF ElsewhereKept
  <2>3. IdSet(Shelved'[a]) = {} /\ IsList(Shelved'[a]) /\ Once(Shelved'[a])
    BY NoIds
  <2>4. gone \subseteq IdSet(Shelved[a]) /\ IdSet(Shelved'[a]) = IdSet(Shelved[a]) \ gone
    BY <2>3
  <2> HIDE DEF a
  <2> QED
    BY <1>0, <1>1, <1>2, <2>2, <2>3, <2>4, Parts, SomeGo
<1> QED
  BY <1>2, <1>3, <1>4, <1>5 DEF PInv, Typed

\* A TfErrorTransport is destroyed,
LEMMA DropErrorsPlaces ==
  ASSUME AllOK, DropErrorTransport
  PROVE  PInv'
<1>0. AllOK
  OBVIOUS
<1> DEFINE what == "ErrorTransport"
           gone == Range(errorTransport.pin)
<1>1. /\ Free(what) /\ errorTransport' = Empty /\ Becomes(gone, "Handled")
      /\ UNCHANGED <<nextSerial, errors, marks, pendingLog, traps, trappedLog, diagnosticTransport,
                     delegates, work, issued>>
  BY DEF DropErrorTransport, threadVars
<1>2. TransportsTyped /\ PinsAgree
  BY <1>0, Parts
<1>3. TransportsTyped' /\ PinsAgree'
  <2>1. <<>> \in Seq(Listed) /\ <<>> \in Seq(Ids)
    OBVIOUS
  <2> QED
    BY <1>1, <1>2, <2>1 DEF TransportsTyped, PinsAgree, Empty
<1>4. CallsAgree'
  BY <1>0, <1>1, Parts DEF CallsAgree, CallAgrees, OneUser, Uses, ErrorsFrom, Free
<1>5. /\ InErrorTransport' = <<>> /\ InDiagnosticTransport' = InDiagnosticTransport
  BY <1>1 DEF InErrorTransport, InDiagnosticTransport, Free, Uses, Empty
<1>6. Shelved[Transport(what)] = InErrorTransport /\ Shelved'[Transport(what)] = <<>>
  BY <1>5, OnShelves, OnShelvesNext
<1>7. gone = IdSet(InErrorTransport)
  <2>1. CASE errorTransport.pin = <<>>
    BY <2>1, NoIds DEF InErrorTransport, Range
  <2>2. CASE errorTransport.pin # <<>>
    <3> DEFINE list == errorTransport.list
    <3>1. list \in Seq(Listed) /\ errorTransport.pin = IdsOf(list) /\ InErrorTransport = list
      BY <1>1, <1>2, <2>2 DEF TransportsTyped, PinsAgree, InErrorTransport
    <3> HIDE DEF list
    <3> QED
      BY <3>1, IdsTyped
  <2> QED
    BY <2>1, <2>2
<1>8. what \in {"ErrorTransport", "DiagnosticTransport"} /\ what = "ErrorTransport"
  OBVIOUS
<1> HIDE DEF what, gone
<1> QED
  BY <1>0, <1>1, <1>3, <1>4, <1>5, <1>6, <1>7, <1>8, DroppedPlaces

\* or a TfDiagnosticTransport.
LEMMA DropDiagnosticsPlaces ==
  ASSUME AllOK, DropDiagnosticTransport
  PROVE  PInv'
<1>0. AllOK
  OBVIOUS
<1> DEFINE what == "DiagnosticTransport"
           gone == Range(diagnosticTransport.pin)
<1>1. /\ Free(what) /\ diagnosticTransport' = Empty /\ Becomes(gone, "Handled")
      /\ UNCHANGED <<nextSerial, errors, marks, pendingLog, traps, trappedLog, errorTransport,
                     delegates, work, issued>>
  BY DEF DropDiagnosticTransport, threadVars
<1>2. TransportsTyped /\ PinsAgree
  BY <1>0, Parts
<1>3. TransportsTyped' /\ PinsAgree'
  <2>1. <<>> \in Seq(Diagnosed) /\ <<>> \in Seq(Ids) /\ IdsOf(<<>>) = <<>>
    BY DEF IdsOf
  <2> QED
    BY <1>1, <1>2, <2>1 DEF TransportsTyped, PinsAgree, Empty
<1>4. CallsAgree'
  BY <1>0, <1>1, Parts DEF CallsAgree, CallAgrees, OneUser, Uses, ErrorsFrom, Free
<1>5. /\ InDiagnosticTransport' = <<>> /\ InErrorTransport' = InErrorTransport
  BY <1>1 DEF InErrorTransport, InDiagnosticTransport, Free, Uses, Empty
<1>6. Shelved[Transport(what)] = InDiagnosticTransport /\ Shelved'[Transport(what)] = <<>>
  BY <1>5, OnShelves, OnShelvesNext
<1>7. gone = IdSet(InDiagnosticTransport)
  <2> DEFINE list == diagnosticTransport.list
  <2>1. list \in Seq(Diagnosed) /\ diagnosticTransport.pin = IdsOf(list) /\ InDiagnosticTransport = list
    BY <1>1, <1>2 DEF TransportsTyped, PinsAgree, InDiagnosticTransport
  <2> HIDE DEF list
  <2> QED
    BY <2>1, IdsTyped
<1>8. what \in {"ErrorTransport", "DiagnosticTransport"} /\ what = "DiagnosticTransport"
  OBVIOUS
<1> HIDE DEF what, gone
<1> QED
  BY <1>0, <1>1, <1>3, <1>4, <1>5, <1>6, <1>7, <1>8, DroppedPlaces

\* A trap that is not empty gets another container, and the text is rebuilt.
LEMMA ChangedTrap ==
  ASSUME TrapsTyped, TrapsAgree, NEW t \in Threads, NEW i \in DOMAIN traps[t],
         traps[t][i].container # <<>>, NEW c \in Seq(Diagnosed), ChangeTrap(t, i, c)
  PROVE  /\ TrapsTyped' /\ TrapsAgree' /\ \A u \in Threads : u # t => traps'[u] = traps[u]
         /\ i \in Nat /\ traps[t][i].container \in Seq(Diagnosed)
         /\ ContentAt(t, i) = traps[t][i].container /\ ContentAt(t, i)' = c
         /\ \A j \in Nat : j # i => ContentAt(t, j)' = ContentAt(t, j)
<1> DEFINE stack == traps[t]
           log == trappedLog[t]
           n == Len(stack)
           l == stack[i].logStart
           changed == [stack EXCEPT ![i] = [container |-> c, logStart |-> l]]
           new == Resynced(changed)
           text == RebuiltTrapped(log, changed, l)
<1>1. /\ stack \in Stacks(Diagnosed) /\ TextIsRight(stack, log) /\ DOMAIN traps = Threads
      /\ DOMAIN trappedLog = Threads /\ stack[i].container # <<>> /\ i \in DOMAIN stack
  BY DEF TrapsTyped, TrapsAgree
<1>2. /\ traps' = [traps EXCEPT ![t] = Resynced([stack EXCEPT ![i].container = c])]
      /\ trappedLog' = [trappedLog EXCEPT ![t] = RebuiltTrapped(log, [stack EXCEPT ![i].container = c], l)]
  BY <1>1 DEF ChangeTrap, RebuildTraps
<1>3. traps[t] = stack /\ trappedLog[t] = log
  OBVIOUS
<1> HIDE DEF stack, log
<1>4. /\ n \in Nat /\ DOMAIN stack = 1 .. n /\ i \in 1 .. n /\ stack[i].container \in Seq(Diagnosed)
      /\ stack[i] = [container |-> stack[i].container, logStart |-> l] /\ l \in Nat \cup {Unset}
  BY <1>1, StackFacts
<1>5. [stack EXCEPT ![i].container = c] = changed
  <2> HIDE DEF l
  <2>1. \A x : x = stack[i] => [x EXCEPT !.container = c] = [container |-> c, logStart |-> l]
    BY <1>4
  <2> QED
    BY <2>1
<1>6. /\ changed \in Stacks(Diagnosed) /\ Len(changed) = n
      /\ \A j \in 1 .. n : changed[j] = IF j = i THEN [container |-> c, logStart |-> l] ELSE stack[j]
  <2> HIDE DEF l
  <2>1. i \in 1 .. Len(stack) /\ l \in Nat \cup {Unset}
    BY <1>4
  <2> QED
    BY <1>1, <2>1, ChangedStack
<1> HIDE DEF changed
<1>7. changed[i].container = c /\ \A j \in 1 .. n : j # i => changed[j].container = stack[j].container
  BY <1>4, <1>6
<1>8. l = Len(ContentsOf(stack, i - 1))
  BY <1>1, <1>4 DEF TextIsRight, SizeBelow
<1>9. /\ new \in Stacks(Diagnosed) /\ Len(new) = n
      /\ \A j \in 1 .. n : new[j].container = changed[j].container
      /\ TextIsRight(new, text)
  <2> DEFINE k == i - 1
  <2>1. k \in 0 .. Len(stack) /\ k <= Len(changed)
    BY <1>4, <1>6
  <2>2. \A j \in 1 .. k : changed[j].container = stack[j].container
    <3>1. \A j \in 1 .. k : j \in 1 .. n /\ j # i
      BY <1>4
    <3> QED
      BY <1>7, <3>1
  <2>3. l = Len(ContentsOf(stack, k))
    BY <1>8
  <2> HIDE DEF k, l
  <2>4. TextIsRight(new, RebuiltTrapped(log, changed, Len(ContentsOf(stack, k))))
    BY <1>1, <1>6, <2>1, <2>2, RebuiltStack
  <2>5. /\ new \in Stacks(Diagnosed) /\ Len(new) = Len(changed)
        /\ \A j \in 1 .. Len(changed) : new[j].container = changed[j].container
    BY <1>6, ResyncedStack
  <2> QED
    BY <1>6, <2>3, <2>4, <2>5
<1>10. /\ traps' = [traps EXCEPT ![t] = new] /\ DOMAIN trappedLog' = Threads /\ trappedLog'[t] = text
       /\ \A u \in Threads : u # t => trappedLog'[u] = trappedLog[u]
  BY <1>1, <1>2, <1>5
<1> HIDE DEF new, text
<1>11. /\ TrapsTyped' /\ TrapsAgree' /\ traps'[t] = new /\ \A u \in Threads : u # t => traps'[u] = traps[u]
  BY <1>9, <1>10, TrapsStep
<1>12. DOMAIN new = 1 .. n
  BY <1>9, StackFacts
<1>13. ContentAt(t, i) = traps[t][i].container /\ ContentAt(t, i)' = c
  BY <1>3, <1>4, <1>7, <1>9, <1>11, <1>12 DEF ContentAt
<1>14. ASSUME NEW j \in Nat, j # i PROVE ContentAt(t, j)' = ContentAt(t, j)
  BY <1>3, <1>4, <1>7, <1>9, <1>11, <1>12, <1>14 DEF ContentAt
<1>15. i \in Nat /\ traps[t][i].container \in Seq(Diagnosed)
  BY <1>3, <1>4
<1> QED
  BY <1>11, <1>13, <1>14, <1>15

\* A thread in no call changes its traps, and a transport perhaps.
LEMMA IdleTraps ==
  ASSUME AllOK, NEW t \in Threads, IsIdle(t),
         UNCHANGED <<nextSerial, errors, marks, errorTransport, delegates, work>>,
         diagnosticTransport' = diagnosticTransport \/ Free("DiagnosticTransport")
  PROVE  /\ ErrorsTyped' /\ WorkTyped' /\ delegates' \in Seq(Delegates) /\ CallsAgree'
         /\ Pending(t)' = Pending(t) /\ InErrorTransport' = InErrorTransport
<1>0. AllOK
  OBVIOUS
<1>1. /\ work[t].of = "None" /\ work[t].todo = <<>> /\ ~work[t].locked /\ Pending(t) = errors[t]
  BY IdleThread
<1>2. CallAgrees(t)'
  BY <1>1, QuietAgrees
<1>3. CallsAgree'
  BY <1>0, <1>2, Parts, OthersAgree DEF Uses
<1>4. Pending(t)' = Pending(t) /\ InErrorTransport' = InErrorTransport
  BY DEF Pending, Uses, InErrorTransport, Free
<1>5. ErrorsTyped' /\ WorkTyped' /\ delegates' \in Seq(Delegates)
  BY <1>0, Parts DEF ErrorsTyped, WorkTyped
<1> QED
  BY <1>3, <1>4, <1>5

\* What matches is erased.
LEMMA ErasePlaces ==
  ASSUME AllOK, NEW t \in Threads, NEW i \in DOMAIN traps[t], NEW kinds, EraseMatching(t, i, kinds)
  PROVE  PInv'
<1>0. AllOK
  OBVIOUS
<1> DEFINE container == traps[t][i].container
           matching == {d \in Range(container) : d.kind \in kinds}
           left == Only(container, Range(container) \ matching)
           gone == {d.id : d \in matching}
           a == TrapAt(t, i)
<1>1. /\ IsIdle(t) /\ matching # {} /\ ChangeTrap(t, i, left) /\ Becomes(gone, "Handled")
      /\ UNCHANGED <<nextSerial, errors, marks, pendingLog, transportVars, delegates, work, issued>>
  BY DEF EraseMatching
<1>2. /\ i \in Nat /\ container \in Seq(Diagnosed) /\ ContentAt(t, i) = container
  <2>1. traps[t] \in Stacks(Diagnosed)
    BY <1>0, Parts DEF TrapsTyped
  <2>2. PICK n \in Nat : n = Len(traps[t]) /\ DOMAIN traps[t] = 1 .. n
    BY <2>1, StackFacts
  <2>3. i \in Nat /\ i \in 1 .. Len(traps[t])
    BY <2>2
  <2>4. traps[t][i].container \in Seq(Diagnosed)
    BY <2>1, <2>3, StackFacts
  <2> QED
    BY <2>3, <2>4 DEF ContentAt
<1>3. a \in Shelves /\ Shelved[a] = container /\ Once(container) /\ IdSet(container) \subseteq OpenIds
  <2>1. a \in Shelves /\ Shelved[a] = container
    BY <1>2, OnShelves
  <2> HIDE DEF a
  <2> QED
    BY <1>0, <2>1, Parts DEF PlacesOK, Sorted
<1>4. container # <<>>
  BY <1>1 DEF Range
<1>5. matching \in SUBSET Range(container) /\ gone \subseteq IdSet(container)
  BY DEF Range, IdSet
<1> HIDE DEF container, matching
<1>6. left \in Seq(Diagnosed) /\ Once(left) /\ IdSet(left) = IdSet(container) \ gone
  BY <1>2, <1>3, <1>5, LeftIds
<1> HIDE DEF left, gone
<1>7. /\ TrapsTyped' /\ TrapsAgree' /\ \A u \in Threads : u # t => traps'[u] = traps[u]
      /\ ContentAt(t, i)' = left /\ \A j \in Nat : j # i => ContentAt(t, j)' = ContentAt(t, j)
  BY <1>0, <1>1, <1>4, <1>6, Parts, ChangedTrap DEF container
<1>8. TransportsTyped' /\ PinsAgree'
  BY <1>0, <1>1, Parts, PinsKept
<1>9. FatesOK' /\ OpenIds' = OpenIds \ gone
  <2>1. gone \in SUBSET OpenIds
    BY <1>3, <1>5
  <2> QED
    BY <1>0, <1>1, <2>1, Parts, OpenGone
<1>10. /\ ErrorsTyped' /\ WorkTyped' /\ delegates' \in Seq(Delegates) /\ CallsAgree'
       /\ Pending(t)' = Pending(t) /\ InErrorTransport' = InErrorTransport
  BY <1>0, <1>1, IdleTraps DEF transportVars
<1>11. PlacesOK'
  <2>1. InErrorTransport' = InErrorTransport /\ InDiagnosticTransport' = InDiagnosticTransport
    BY <1>1, TransportsKept
  <2>2. Shelved'[a] = left
    BY <1>2, <1>7, OnShelvesNext
  <2>3. ElsewhereKept(t, {a})
    BY <1>1, <1>7, <1>10, <2>1 DEF ElsewhereKept
  <2>4. IsList(left)
    BY <1>6 DEF IsList
  <2> HIDE DEF a
  <2> QED
    BY <1>0, <1>3, <1>5, <1>6, <1>9, <2>2, <2>3, <2>4, Parts, SomeGo
<1> QED
  BY <1>7, <1>8, <1>9, <1>10, <1>11 DEF PInv, Typed

\* What a trap contains goes into a transport.
LEMMA TransportTrapPlaces ==
  ASSUME AllOK, NEW t \in Threads, NEW i \in DOMAIN traps[t], TransportTrap(t, i)
  PROVE  PInv'
<1>0. AllOK
  OBVIOUS
<1> DEFINE container == traps[t][i].container
           a == TrapAt(t, i)
           b == Transport("DiagnosticTransport")
<1>1. /\ IsIdle(t) /\ diagnosticTransport = Empty /\ container # <<>> /\ ChangeTrap(t, i, <<>>)
      /\ diagnosticTransport' = [list |-> container, pin |-> IdsOf(container)]
      /\ UNCHANGED <<nextSerial, errors, marks, pendingLog, errorTransport, delegates, work, issued, fate>>
  BY DEF TransportTrap, PinLogText, ghosts
<1>2. <<>> \in Seq(Diagnosed)
  OBVIOUS
<1>3. /\ TrapsTyped' /\ TrapsAgree' /\ \A u \in Threads : u # t => traps'[u] = traps[u]
      /\ i \in Nat /\ container \in Seq(Diagnosed)
      /\ ContentAt(t, i) = container /\ ContentAt(t, i)' = <<>>
      /\ \A j \in Nat : j # i => ContentAt(t, j)' = ContentAt(t, j)
  BY <1>0, <1>1, <1>2, Parts, ChangedTrap
<1>4. Free("DiagnosticTransport")
  <2>1. diagnosticTransport.list = <<>>
    BY <1>1 DEF Empty
  <2> QED
    BY <1>0, <2>1, Parts DEF CallAgrees, Free
<1> HIDE DEF container
<1>5. IsList(container) /\ IdsOf(container) \in Seq(Ids)
  BY <1>3, IdsTyped
<1>6. TransportsTyped' /\ PinsAgree'
  <2>1. TransportsTyped /\ PinsAgree
    BY <1>0, Parts
  <2> QED
    BY <1>1, <1>3, <1>5, <2>1 DEF TransportsTyped, PinsAgree
<1>7. FatesOK' /\ OpenIds' = OpenIds
  BY <1>0, <1>1, Parts, OpenKept DEF FatesOK
<1>8. /\ ErrorsTyped' /\ WorkTyped' /\ delegates' \in Seq(Delegates) /\ CallsAgree'
      /\ Pending(t)' = Pending(t) /\ InErrorTransport' = InErrorTransport
  BY <1>0, <1>1, <1>4, IdleTraps
<1>9. PlacesOK'
  <2>1. InDiagnosticTransport = <<>> /\ InDiagnosticTransport' = container
    BY <1>1, <1>4 DEF InDiagnosticTransport, Empty, Free, Uses
  <2>2. /\ a \in Shelves /\ Shelved[a] = container /\ Shelved'[a] = <<>>
        /\ b \in Shelves /\ Shelved[b] = <<>> /\ Shelved'[b] = container /\ a # b
    BY <1>3, <2>1, OnShelves, OnShelvesNext, ShelvesDiffer
  <2>3. ElsewhereKept(t, {a, b})
    BY <1>1, <1>3, <1>8 DEF ElsewhereKept
  <2> HIDE DEF a, b
  <2>4. Once(container)
    BY <1>0, <2>2, Parts DEF PlacesOK, Sorted
  <2> DEFINE some == IdSet(container)
  <2>5. /\ some \subseteq IdSet(Shelved[a]) /\ IdSet(Shelved'[a]) = IdSet(Shelved[a]) \ some
        /\ Once(Shelved'[a]) /\ IsList(Shelved'[a])
    BY <2>2, NoIds
  <2>6. IdSet(Shelved'[b]) = IdSet(Shelved[b]) \cup some /\ Once(Shelved'[b]) /\ IsList(Shelved'[b])
    BY <1>5, <2>2, <2>4, NoIds
  <2> HIDE DEF some
  <2> QED
    BY <1>0, <1>7, <2>2, <2>3, <2>5, <2>6, Parts, SomeMove
<1> QED
  BY <1>3, <1>6, <1>7, <1>8, <1>9 DEF PInv, Typed

\* The innermost trap goes.
LEMMA EmptyPop ==
  ASSUME AllOK, NEW t \in Threads, IsIdle(t), traps[t] # <<>>, Last(traps[t]).container = <<>>,
         traps' = [traps EXCEPT ![t] = Front(traps[t])],
         UNCHANGED <<nextSerial, errors, marks, pendingLog, trappedLog, transportVars, delegates, work,
                     issued, fate>>
  PROVE  PInv'
<1>0. AllOK
  OBVIOUS
<1> DEFINE stack == traps[t]
           less == Front(stack)
           log == trappedLog[t]
<1>1. /\ stack \in Stacks(Diagnosed) /\ TextIsRight(stack, log) /\ DOMAIN trappedLog = Threads
  BY <1>0, Parts DEF TrapsTyped, TrapsAgree
<1>2. traps' = [traps EXCEPT ![t] = less] /\ traps[t] = stack /\ trappedLog[t] = log
      /\ stack # <<>> /\ Last(stack).container = <<>>
  OBVIOUS
<1> HIDE DEF stack, log
<1>3. /\ less \in Stacks(Diagnosed) /\ TextIsRight(less, log)
      /\ Len(stack) \in 1 .. Len(stack) /\ Last(stack) = stack[Len(stack)]
      /\ Len(less) = Len(stack) - 1 /\ \A i \in 1 .. Len(stack) - 1 : less[i] = stack[i]
  BY <1>1, <1>2, PoppedTrap, PoppedText
<1> HIDE DEF less
<1>4. /\ TrapsTyped' /\ TrapsAgree' /\ traps'[t] = less /\ \A u \in Threads : u # t => traps'[u] = traps[u]
  <2>1. TrapsTyped /\ TrapsAgree
    BY <1>0, Parts
  <2>2. DOMAIN trappedLog' = Threads /\ trappedLog'[t] = log
        /\ \A u \in Threads : u # t => trappedLog'[u] = trappedLog[u]
    BY <1>1, <1>2
  <2> QED
    BY <1>2, <1>3, <2>1, <2>2, TrapsStep
<1>5. ASSUME NEW i \in Nat PROVE ContentAt(t, i)' = ContentAt(t, i)
  <2>1. PICK n \in Nat : n = Len(stack) /\ DOMAIN stack = 1 .. n
    BY <1>1, StackFacts
  <2>2. /\ DOMAIN less = 1 .. n - 1 /\ n \in 1 .. n /\ stack[n].container = <<>>
        /\ \A j \in 1 .. n - 1 : less[j] = stack[j]
    BY <1>2, <1>3, <2>1, StackFacts
  <2>3. i \in 1 .. n <=> i \in 1 .. n - 1 \/ i = n
    BY <2>1, <2>2
  <2>4. n \notin 1 .. n - 1
    BY <2>1
  <2>5. CASE i \in 1 .. n - 1
    BY <1>2, <1>4, <2>1, <2>2, <2>3, <2>5 DEF ContentAt
  <2>6. CASE i = n
    BY <1>2, <1>4, <2>1, <2>2, <2>4, <2>6 DEF ContentAt
  <2>7. CASE i \notin 1 .. n - 1 /\ i # n
    BY <1>2, <1>4, <2>1, <2>2, <2>3, <2>7 DEF ContentAt
  <2> QED
    BY <2>5, <2>6, <2>7
<1>6. TransportsTyped' /\ PinsAgree'
  BY <1>0, Parts, PinsKept
<1>7. FatesOK' /\ OpenIds' = OpenIds
  BY <1>0, Parts, OpenKept DEF FatesOK
<1>8. /\ ErrorsTyped' /\ WorkTyped' /\ delegates' \in Seq(Delegates) /\ CallsAgree'
      /\ Pending(t)' = Pending(t) /\ InErrorTransport' = InErrorTransport
  BY <1>0, IdleTraps DEF transportVars
<1>9. PlacesOK'
  <2>1. InErrorTransport' = InErrorTransport /\ InDiagnosticTransport' = InDiagnosticTransport
    BY TransportsKept
  <2>2. ElsewhereKept(t, {})
    BY <1>4, <1>5, <1>8, <2>1 DEF ElsewhereKept
  <2> QED
    BY <1>0, <1>7, <2>2, Parts, NothingMoves
<1> QED
  BY <1>4, <1>6, <1>7, <1>8, <1>9 DEF PInv, Typed

\* The stack of a trap that is not empty when it is popped, and its text.
LEMMA PoppedFull ==
  ASSUME TrapsTyped, TrapsAgree, NEW t \in Threads, traps[t] # <<>>, Last(traps[t]).container # <<>>,
         RebuildTraps(t, Front(traps[t]), Last(traps[t]).logStart)
  PROVE  /\ TrapsTyped' /\ TrapsAgree' /\ \A u \in Threads : u # t => traps'[u] = traps[u]
         /\ Last(traps[t]).container \in Seq(Diagnosed)
         /\ \E n \in Nat :
              /\ ContentAt(t, n) = Last(traps[t]).container /\ ContentAt(t, n)' = <<>>
              /\ \A i \in Nat : i # n => ContentAt(t, i)' = ContentAt(t, i)
<1> DEFINE stack == traps[t]
           less == Front(stack)
           log == trappedLog[t]
           l == Last(stack).logStart
           new == Resynced(less)
           text == RebuiltTrapped(log, less, l)
<1>1. /\ stack \in Stacks(Diagnosed) /\ TextIsRight(stack, log) /\ DOMAIN trappedLog = Threads
      /\ stack # <<>> /\ Last(stack).container # <<>> /\ DOMAIN traps = Threads
  BY DEF TrapsTyped, TrapsAgree
<1>2. /\ traps' = [traps EXCEPT ![t] = new] /\ DOMAIN trappedLog' = Threads /\ trappedLog'[t] = text
      /\ \A u \in Threads : u # t => trappedLog'[u] = trappedLog[u]
  BY <1>1 DEF RebuildTraps
<1>3. traps[t] = stack
  OBVIOUS
<1> HIDE DEF stack, log
<1>4. /\ less \in Stacks(Diagnosed)
      /\ Len(stack) \in 1 .. Len(stack) /\ Last(stack) = stack[Len(stack)]
      /\ Len(less) = Len(stack) - 1 /\ \A i \in 1 .. Len(stack) - 1 : less[i] = stack[i]
  BY <1>1, PoppedTrap
<1> HIDE DEF less
<1>5. PICK n \in Nat : n = Len(stack) /\ DOMAIN stack = 1 .. n
  BY <1>1, StackFacts
<1>6. /\ n \in 1 .. n /\ Last(stack) = stack[n] /\ stack[n].container \in Seq(Diagnosed)
      /\ l = SizeBelow(stack, n)
  <2>1. n \in 1 .. n /\ Last(stack) = stack[n] /\ n \in DOMAIN stack
    BY <1>4, <1>5
  <2>2. stack[n].container \in Seq(Diagnosed)
    BY <1>1, <1>5, <2>1, StackFacts
  <2>3. l = SizeBelow(stack, n)
    BY <1>1, <2>1 DEF TextIsRight
  <2> QED
    BY <2>1, <2>2, <2>3
<1> HIDE DEF l
<1>7. /\ new \in Stacks(Diagnosed) /\ Len(new) = n - 1
      /\ \A j \in 1 .. n - 1 : new[j].container = stack[j].container
      /\ TextIsRight(new, text)
  <2> DEFINE k == n - 1
  <2>1. k \in 0 .. Len(stack) /\ k <= Len(less) /\ Len(less) = k
    BY <1>4, <1>5, <1>6
  <2>2. \A j \in 1 .. k : less[j].container = stack[j].container
    BY <1>4, <1>5
  <2>3. l = Len(ContentsOf(stack, k))
    BY <1>6 DEF SizeBelow
  <2> HIDE DEF k
  <2>4. TextIsRight(new, RebuiltTrapped(log, less, Len(ContentsOf(stack, k))))
    BY <1>1, <1>4, <2>1, <2>2, RebuiltStack
  <2>6. /\ new \in Stacks(Diagnosed) /\ Len(new) = Len(less)
        /\ \A j \in 1 .. Len(less) : new[j].container = less[j].container
    BY <1>4, ResyncedStack
  <2>5. /\ new \in Stacks(Diagnosed) /\ Len(new) = k
        /\ \A j \in 1 .. k : new[j].container = stack[j].container
        /\ TextIsRight(new, text)
    BY <2>1, <2>2, <2>3, <2>4, <2>6
  <2> QED
    BY <2>5 DEF k
<1> HIDE DEF new, text
<1>8. /\ TrapsTyped' /\ TrapsAgree' /\ traps'[t] = new /\ \A u \in Threads : u # t => traps'[u] = traps[u]
  BY <1>2, <1>7, TrapsStep
<1>9. DOMAIN new = 1 .. n - 1 /\ n \notin 1 .. n - 1
  BY <1>5, <1>7, StackFacts
<1>10. ContentAt(t, n) = Last(stack).container /\ ContentAt(t, n)' = <<>>
  BY <1>3, <1>5, <1>6, <1>8, <1>9 DEF ContentAt
<1>11. ASSUME NEW i \in Nat, i # n PROVE ContentAt(t, i)' = ContentAt(t, i)
  <2>1. i \in 1 .. n <=> i \in 1 .. n - 1
    BY <1>11
  <2>2. CASE i \in 1 .. n - 1
    BY <1>3, <1>5, <1>7, <1>8, <1>9, <2>1, <2>2 DEF ContentAt
  <2>3. CASE i \notin 1 .. n - 1
    BY <1>3, <1>5, <1>8, <1>9, <2>1, <2>3 DEF ContentAt
  <2> QED
    BY <2>2, <2>3
<1> QED
  BY <1>3, <1>6, <1>8, <1>10, <1>11

\* The innermost trap is popped, and a call begins to post what it contained.
LEMMA FullPop ==
  ASSUME AllOK, NEW t \in Threads, IsIdle(t), traps[t] # <<>>, Last(traps[t]).container # <<>>,
         RebuildTraps(t, Front(traps[t]), Last(traps[t]).logStart),
         work' = [work EXCEPT ![t] = Reporting("Dismiss", Last(traps[t]).container, 0)],
         UNCHANGED <<nextSerial, errors, marks, pendingLog, transportVars, delegates, issued, fate>>
  PROVE  PInv'
<1>0. AllOK
  OBVIOUS
<1>1. /\ TrapsTyped' /\ TrapsAgree' /\ \A u \in Threads : u # t => traps'[u] = traps[u]
      /\ Last(traps[t]).container \in Seq(Diagnosed)
      /\ \E n \in Nat :
           /\ ContentAt(t, n) = Last(traps[t]).container /\ ContentAt(t, n)' = <<>>
           /\ \A i \in Nat : i # n => ContentAt(t, i)' = ContentAt(t, i)
  BY <1>0, Parts, PoppedFull
<1>2. PICK todo \in Seq(Diagnosed) : todo = Last(traps[t]).container
  BY <1>1
<1>3. PICK n \in Nat :
        /\ ContentAt(t, n) = todo /\ ContentAt(t, n)' = <<>>
        /\ \A i \in Nat : i # n => ContentAt(t, i)' = ContentAt(t, i)
  BY <1>1, <1>2
<1> DEFINE c == Reporting("Dismiss", todo, 0)
           a == TrapAt(t, n)
           b == Report(t)
<1>4. /\ c \in Calls /\ c.of = "Dismiss" /\ c.todo = todo /\ ~c.locked
  BY ReportingCall DEF Causes
<1>5. work' = [work EXCEPT ![t] = c]
  BY <1>2
<1> HIDE DEF c
<1>6. WorkTyped' /\ work'[t] = c /\ \A u \in Threads : u # t => work'[u] = work[u]
  BY <1>0, <1>4, <1>5, Parts, CallStep
<1>7. /\ work[t].of = "None" /\ work[t].todo = <<>> /\ ~work[t].locked /\ Pending(t) = errors[t]
  BY IdleThread
<1>8. TransportsTyped' /\ PinsAgree'
  BY <1>0, Parts, PinsKept
<1>9. FatesOK' /\ OpenIds' = OpenIds
  BY <1>0, Parts, OpenKept DEF FatesOK
<1>10. ErrorsTyped' /\ delegates' \in Seq(Delegates)
  BY <1>0, Parts DEF ErrorsTyped
<1>11. CallsAgree'
  <2>1. CallAgrees(t)'
    BY <1>4, <1>6, QuietAgrees
  <2>2. \A what \in {"ErrorTransport", "DiagnosticTransport"} : ~Uses(t, what)'
    BY <1>4, <1>6 DEF Uses
  <2> QED
    BY <1>0, <1>6, <2>1, <2>2, Parts, OthersAgree DEF transportVars
<1>12. PlacesOK'
  <2>1. InErrorTransport' = InErrorTransport /\ InDiagnosticTransport' = InDiagnosticTransport
    BY <1>4, <1>6, <1>7, TransportsKept
  <2>2. /\ a \in Shelves /\ Shelved[a] = todo /\ Shelved'[a] = <<>>
        /\ b \in Shelves /\ Shelved[b] = <<>> /\ Shelved'[b] = todo /\ a # b
    BY <1>3, <1>4, <1>6, <1>7, OnShelves, OnShelvesNext, ShelvesDiffer
  <2>3. Pending(t)' = Pending(t)
    BY <1>4, <1>6, <1>7 DEF Pending, Uses
  <2>4. ElsewhereKept(t, {a, b})
    BY <1>1, <1>3, <1>6, <2>1, <2>3 DEF ElsewhereKept
  <2> HIDE DEF a, b
  <2>5. Once(todo) /\ IsList(todo)
    BY <1>0, <2>2, Parts DEF PlacesOK, Sorted, IsList
  <2> DEFINE some == IdSet(todo)
  <2>6. /\ some \subseteq IdSet(Shelved[a]) /\ IdSet(Shelved'[a]) = IdSet(Shelved[a]) \ some
        /\ Once(Shelved'[a]) /\ IsList(Shelved'[a])
    BY <2>2, NoIds
  <2>7. IdSet(Shelved'[b]) = IdSet(Shelved[b]) \cup some /\ Once(Shelved'[b]) /\ IsList(Shelved'[b])
    BY <2>2, <2>5, NoIds
  <2> HIDE DEF some
  <2> QED
    BY <1>0, <1>9, <2>2, <2>4, <2>6, <2>7, Parts, SomeMove
<1> QED
  BY <1>1, <1>6, <1>8, <1>9, <1>10, <1>11, <1>12 DEF PInv, Typed

\* Dismiss.
LEMMA DismissPlaces ==
  ASSUME AllOK, NEW t \in Threads, Dismiss(t)
  PROVE  PInv'
<1>0. AllOK
  OBVIOUS
<1>1. /\ IsIdle(t) /\ traps[t] # <<>>
      /\ UNCHANGED <<nextSerial, errors, marks, pendingLog, transportVars, delegates, issued, fate>>
  BY DEF Dismiss, ghosts
<1>2. CASE Last(traps[t]).container = <<>>
  BY <1>0, <1>1, <1>2, EmptyPop DEF Dismiss
<1>3. CASE Last(traps[t]).container # <<>>
  BY <1>0, <1>1, <1>3, FullPop DEF Dismiss
<1> QED
  BY <1>2, <1>3

-----------------------------------------------------------------------------
(* The invariant. *)

\* The empty manager: nothing is issued, and nothing is anywhere.
LEMMA InitPlaces == Init => PInv
<1> SUFFICES ASSUME Init PROVE PInv
  OBVIOUS
<1>1. /\ errors = [t \in Threads |-> <<>>] /\ traps = [t \in Threads |-> <<>>]
      /\ trappedLog = [t \in Threads |-> <<>>] /\ work = [t \in Threads |-> Idle]
      /\ errorTransport = Empty /\ diagnosticTransport = Empty /\ delegates = <<>>
      /\ issued = 0 /\ fate = [id \in Ids |-> "Open"]
  BY DEF Init
<1>2. /\ <<>> \in Seq(Listed) /\ <<>> \in Seq(Diagnosed) /\ <<>> \in Seq(Delegates) /\ <<>> \in Seq(Ids)
      /\ <<>> \in Stacks(Diagnosed) /\ Len(<<>>) = 0 /\ DOMAIN <<>> = {}
  BY DEF Stacks
<1>3. IdsOf(<<>>) = <<>>
  BY <1>2 DEF IdsOf
<1>4. TransportsTyped /\ PinsAgree
  BY <1>1, <1>2, <1>3 DEF TransportsTyped, PinsAgree, Empty
<1>5. ErrorsTyped /\ TrapsTyped /\ delegates \in Seq(Delegates)
  BY <1>1, <1>2 DEF ErrorsTyped, TrapsTyped
<1>6. WorkTyped /\ \A t \in Threads : work[t] = Idle /\ work[t].of = "None" /\ work[t].todo = <<>>
                                      /\ ~work[t].locked
  BY <1>1, IdleCall DEF WorkTyped
<1>7. TrapsAgree
  <2>1. ContentsOf(<<>>, 0) = <<>>
    BY <1>2, ContentsNext
  <2>2. TextIsRight(<<>>, <<>>)
    BY <1>2, <1>3, <2>1 DEF TextIsRight
  <2> QED
    BY <1>1, <2>2 DEF TrapsAgree
<1>8. FatesOK /\ OpenIds = {}
  <2>1. MaxPosts \in Nat
    BY BoundsAssumption
  <2>2. \A id \in Ids : ~(id <= 0)
    BY <2>1 DEF Ids
  <2>3. 0 \in 0 .. MaxPosts
    BY <2>1
  <2>4. fate \in [Ids -> {"Open", "Reported", "Handled", "Dropped"}]
    BY <1>1
  <2>5. \A id \in Ids : fate[id] = "Open"
    BY <1>1
  <2> QED
    BY <1>1, <2>2, <2>3, <2>4, <2>5 DEF FatesOK, OpenIds, IsOpen
<1>9. CallsAgree
  BY <1>6 DEF CallsAgree, CallAgrees, OneUser, Uses
<1>10. PlacesOK
  <2>1. \A t \in Threads : Pending(t) = <<>> /\ \A i \in Nat : ContentAt(t, i) = <<>>
    BY <1>1, <1>2, <1>6 DEF Pending, Uses, ContentAt
  <2>2. InErrorTransport = <<>> /\ InDiagnosticTransport = <<>>
    BY <1>1 DEF Empty, InErrorTransport, InDiagnosticTransport
  <2>3. ASSUME NEW h \in Shelves PROVE Shelved[h] = <<>>
    <3>1. \/ \E t \in Threads : h = ErrorList(t)
          \/ \E t \in Threads : h = Report(t)
          \/ \E t \in Threads, i \in Nat : h = TrapAt(t, i)
          \/ h = Transport("ErrorTransport") \/ h = Transport("DiagnosticTransport")
      BY DEF Shelves
    <3> QED
      BY <1>6, <2>1, <2>2, <3>1, OnShelves
  <2> QED
    BY <1>8, <2>3, NoIds DEF PlacesOK, Sorted
<1> QED
  BY <1>4, <1>5, <1>6, <1>7, <1>8, <1>9, <1>10 DEF PInv, Typed

\* Every step of every thread keeps it.
LEMMA NextPlaces == AllOK /\ [Next]_vars => PInv'
<1> SUFFICES ASSUME AllOK, [Next]_vars PROVE PInv'
  OBVIOUS
<1>0. AllOK
  OBVIOUS
<1>1. ASSUME NEW t \in Threads, NEW kind \in Kinds, Post(t, kind) \/ DelegatePosts(t, kind) PROVE PInv'
  BY <1>0, <1>1, PostPlaces, DelegatePostsPlaces
<1>2. ASSUME NEW t \in Threads, ReportStep(t) PROVE PInv'
  BY <1>0, <1>2, RepostPlaces, TrapPlaces, LockPlaces, ReturnPlaces, ReportedPlaces, FinishPlaces DEF ReportStep
<1>3. ASSUME NEW t \in Threads, MarkCall(t) PROVE PInv'
  BY <1>0, <1>3, SetMarkPlaces, ClearMarkPlaces, TransportMarkPlaces, DestroyPlaces DEF MarkCall
<1>4. ASSUME NEW t \in Threads, TrapCall(t) PROVE PInv'
  BY <1>0, <1>4, PushPlaces, DismissPlaces, TransportTrapPlaces, ErasePlaces DEF TrapCall
<1>5. ASSUME NEW t \in Threads, PostErrorTransport(t) \/ PostDiagnosticTransport(t) PROVE PInv'
  BY <1>0, <1>5, PostErrorsPlaces, PostDiagnosticsPlaces
<1>6. ASSUME NEW t \in Threads, NEW d \in Delegates, AddDelegate(t, d) \/ RemoveDelegate(t, d) PROVE PInv'
  BY <1>0, <1>6, DelegatesPlaces
<1>7. CASE DropErrorTransport \/ DropDiagnosticTransport
  BY <1>0, <1>7, DropErrorsPlaces, DropDiagnosticsPlaces
<1>8. CASE UNCHANGED vars
  BY <1>0, <1>8, StutterPlaces
<1> QED
  BY <1>1, <1>2, <1>3, <1>4, <1>5, <1>6, <1>7, <1>8 DEF Next

\* The delegates a call has yet to call, at the start.
LEMMA InitCalls == Init => CallsOK
  BY EmptyList DEF Init, Idle, CallsOK, Range

-----------------------------------------------------------------------------
(* What the invariant implies. *)

\* A list of members of X.
LEMMA ListOf ==
  ASSUME NEW X, NEW s, IsList(s), \A i \in DOMAIN s : s[i] \in X
  PROVE  s \in Seq(X)
<1>1. PICK S : s \in Seq(S)
  BY DEF IsList
<1>2. Len(s) \in Nat /\ DOMAIN s = 1 .. Len(s) /\ s = [i \in 1 .. Len(s) |-> s[i]]
  BY <1>1
<1>3. s \in [1 .. Len(s) -> X]
  BY <1>2
<1> QED
  BY <1>2, <1>3

\* Everything has its type.
LEMMA HaveTypes == AllOK => TypeOK
<1> SUFFICES ASSUME AllOK PROVE TypeOK
  OBVIOUS
<1>0. AllOK
  OBVIOUS
<1>1. nextSerial \in Nat
  BY <1>0, Parts
<1>2. ASSUME NEW t \in Threads PROVE errors[t] \in Seq([id : Ids, serial : 0 .. nextSerial])
  <2>1. errors[t] \in Seq(Listed) /\ Ascending(errors[t], nextSerial)
    BY <1>0, Parts DEF ErrorsTyped, AllOK, IInv, ListsOK, ThreadOK
  <2>2. ASSUME NEW i \in DOMAIN errors[t] PROVE errors[t][i] \in [id : Ids, serial : 0 .. nextSerial]
    <3>1. errors[t][i] \in Listed
      BY <2>1
    <3>2. errors[t][i].serial \in Nat /\ errors[t][i].serial < nextSerial
      BY <2>1 DEF Ascending
    <3>3. errors[t][i].serial \in 0 .. nextSerial
      BY <1>1, <3>2
    <3> QED
      BY <3>1, <3>3 DEF Listed
  <2> QED
    BY <2>1, <2>2, ListOf DEF Ascending
<1>3. ASSUME NEW t \in Threads
      PROVE  marks[t] \in Seq([mark : 0 .. nextSerial, before : 0 .. Len(errors[t])])
  <2>1. IsList(marks[t]) /\ \A i \in DOMAIN marks[t] : Divides(marks[t][i], errors[t], nextSerial)
    BY <1>0 DEF AllOK, IInv, ListsOK, ThreadOK
  <2>2. ASSUME NEW i \in DOMAIN marks[t]
        PROVE  marks[t][i] \in [mark : 0 .. nextSerial, before : 0 .. Len(errors[t])]
    <3> DEFINE m == marks[t][i]
    <3>1. Divides(m, errors[t], nextSerial)
      BY <2>1
    <3> HIDE DEF m
    <3>2. m = [mark |-> m.mark, before |-> m.before] /\ m.before \in 0 .. Len(errors[t])
          /\ m.mark \in Nat /\ m.mark <= nextSerial
      BY <3>1 DEF Divides
    <3>3. m.mark \in 0 .. nextSerial
      BY <1>1, <3>2
    <3>4. m \in [mark : 0 .. nextSerial, before : 0 .. Len(errors[t])]
      BY <3>2, <3>3
    <3> QED
      BY <3>4 DEF m
  <2> QED
    BY <2>1, <2>2, ListOf
<1>4. \A t \in Threads : traps[t] \in Stacks(Diagnosed)
  BY <1>0, Parts DEF TrapsTyped
<1>5. ASSUME NEW t \in Threads PROVE pendingLog[t] \in Seq(Ids)
  <2>1. pendingLog[t] = IdsOf(errors[t]) /\ errors[t] \in Seq(Listed)
    BY <1>0, Parts DEF ErrorsTyped, AllOK, IInv, ListsOK, ThreadOK
  <2> QED
    BY <2>1, IdsTyped
<1>6. ASSUME NEW t \in Threads PROVE trappedLog[t] \in Seq(Ids)
  <2>1. trappedLog[t] = IdsOf(ContentsOf(traps[t], Len(traps[t])))
    BY <1>0, Parts DEF TextIsRight
  <2>2. ContentsOf(traps[t], Len(traps[t])) \in Seq(Diagnosed)
    <3>1. Len(traps[t]) \in 0 .. Len(traps[t])
      <4>1. Len(traps[t]) \in Nat
        BY <1>4, StackFacts
      <4> QED
        BY <4>1
    <3> QED
      BY <1>4, <3>1, ContentsAreLists
  <2> QED
    BY <2>1, <2>2, IdsTyped
<1>7. \A t \in Threads : /\ work[t].todo \in Seq(Diagnosed) /\ work[t].rest \in Seq(Delegates)
                         /\ work[t].rest # <<>> => work[t].locked
  BY <1>0, Parts, CallOf
<1>8. delegates \in Seq(Delegates) /\ FatesOK
  BY <1>0, Parts
<1> QED
  BY <1>1, <1>2, <1>3, <1>4, <1>5, <1>6, <1>7, <1>8 DEF TypeOK, Stacks, Diagnosed, FatesOK

\* The texts for the crash log are those of the lists.
LEMMA TextsMatch == AllOK => LogTextsMatch
<1> SUFFICES ASSUME AllOK PROVE LogTextsMatch
  OBVIOUS
<1>0. AllOK
  OBVIOUS
<1>1. \A t \in Threads : pendingLog[t] = IdsOf(errors[t])
  BY <1>0 DEF AllOK, IInv, ListsOK, ThreadOK
<1> QED
  BY <1>0, <1>1, Parts DEF LogTextsMatch, TextIsRight

\* The holders are the shelves that there are.
LEMMA HoldersOnShelves ==
  ASSUME AllOK
  PROVE  /\ \A h \in Holders : h \in Shelves /\ Shelved[h] = Held(h)
         /\ \A h \in Shelves \ Holders : Shelved[h] = <<>>
<1>0. AllOK
  OBVIOUS
<1>1. ASSUME NEW t \in Threads PROVE DOMAIN traps[t] \subseteq Nat
  <2>1. PICK n \in Nat : DOMAIN traps[t] = 1 .. n
    BY <1>0, Parts, StackFacts DEF TrapsTyped
  <2> QED
    BY <2>1
<1>2. Holders \subseteq Shelves
  BY <1>1, HoldersAre, OnShelves
<1> QED
  BY <1>2 DEF Shelved

\* Each diagnostic is in one place while it is open, and in none afterwards.
LEMMA OnePlace == AllOK => InOnePlace
<1> SUFFICES ASSUME AllOK, NEW id \in Ids PROVE Cardinality(Places(id)) = IF IsOpen(id) THEN 1 ELSE 0
  BY DEF InOnePlace
<1>0. Sorted(Shelved, OpenIds) /\ (id \in OpenIds <=> IsOpen(id))
  BY Parts DEF PlacesOK, OpenIds
<1>1. /\ \A h \in Holders : h \in Shelves /\ Shelved[h] = Held(h)
      /\ \A h \in Shelves \ Holders : Shelved[h] = <<>>
  BY HoldersOnShelves
<1>2. \A p : p \in Places(id) <=>
        \E h \in Holders : \E i \in DOMAIN Held(h) : Held(h)[i].id = id /\ p = <<h, i>>
  <2> DEFINE At(h) == {<<h, i>> : i \in {j \in DOMAIN Held(h) : Held(h)[j].id = id}}
  <2>1. \A p : p \in Places(id) <=> \E h \in Holders : p \in At(h)
    BY DEF Places
  <2>2. \A h, p : p \in At(h) <=> \E i \in DOMAIN Held(h) : Held(h)[i].id = id /\ p = <<h, i>>
    OBVIOUS
  <2> HIDE DEF At
  <2> QED
    BY <2>1, <2>2
<1>3. ASSUME NEW p \in Places(id), NEW q \in Places(id) PROVE p = q
  <2>1. PICK h \in Holders : \E i \in DOMAIN Held(h) : Held(h)[i].id = id /\ p = <<h, i>>
    BY <1>2
  <2>2. PICK i \in DOMAIN Held(h) : Held(h)[i].id = id /\ p = <<h, i>>
    BY <2>1
  <2>3. PICK k \in Holders : \E j \in DOMAIN Held(k) : Held(k)[j].id = id /\ q = <<k, j>>
    BY <1>2
  <2>4. PICK j \in DOMAIN Held(k) : Held(k)[j].id = id /\ q = <<k, j>>
    BY <2>3
  <2>5. id \in IdSet(Shelved[h]) /\ id \in IdSet(Shelved[k]) /\ h \in Shelves /\ k \in Shelves
    BY <1>1, <2>2, <2>4 DEF IdSet
  <2>6. h = k
    BY <1>0, <2>5 DEF Sorted
  <2>7. Once(Held(h))
    BY <1>0, <1>1 DEF Sorted
  <2>8. i = j
    BY <2>2, <2>4, <2>6, <2>7 DEF Once
  <2> QED
    BY <2>2, <2>4, <2>6, <2>8
<1>4. IsOpen(id) <=> Places(id) # {}
  <2>1. ASSUME IsOpen(id) PROVE Places(id) # {}
    <3>1. PICK h \in Shelves : id \in IdSet(Shelved[h])
      BY <1>0, <2>1 DEF Sorted
    <3>2. h \in Holders /\ id \in IdSet(Held(h))
      BY <1>1, <3>1, NoIds
    <3>3. PICK i \in DOMAIN Held(h) : Held(h)[i].id = id
      BY <3>2 DEF IdSet
    <3> QED
      BY <1>2, <3>2, <3>3
  <2>2. ASSUME Places(id) # {} PROVE IsOpen(id)
    <3>1. PICK p : p \in Places(id)
      BY <2>2
    <3>2. PICK h \in Holders : \E i \in DOMAIN Held(h) : Held(h)[i].id = id /\ p = <<h, i>>
      BY <1>2, <3>1
    <3>3. id \in IdSet(Shelved[h]) /\ h \in Shelves
      BY <1>1, <3>2 DEF IdSet
    <3> QED
      BY <1>0, <3>3 DEF Sorted
  <2> QED
    BY <2>1, <2>2
<1>5. Cardinality(Places(id)) = Ones(Places(id) # {})
  BY <1>3, AtMostOne
<1> QED
  BY <1>4, <1>5 DEF Ones

\* What is open is in the log, but for what its call has yet to report.
LEMMA OpenIsLogged ==
  ASSUME AllOK, NEW id \in OpenIds
  PROVE  \/ id \in Logged
         \/ \E t \in Threads : Unlogged(t) /\ id \in Range(IdsOf(work[t].todo))
<1>0. AllOK
  OBVIOUS
<1>1. PICK h \in Shelves : id \in IdSet(Shelved[h])
  BY <1>0, Parts DEF PlacesOK, Sorted
<1>2. ASSUME NEW t \in Threads
      PROVE  /\ IsList(errors[t]) /\ LoggedBy(t) \subseteq Logged
             /\ IdSet(errors[t]) \subseteq Logged
             /\ IdSet(ContentsOf(traps[t], Len(traps[t]))) \subseteq Logged
  <2>1. errors[t] \in Seq(Listed) /\ pendingLog[t] = IdsOf(errors[t])
    BY <1>0, Parts DEF ErrorsTyped, AllOK, IInv, ListsOK, ThreadOK
  <2>2. Range(pendingLog[t]) = IdSet(errors[t]) /\ IsList(errors[t])
    BY <2>1, IdsTyped
  <2>3. traps[t] \in Stacks(Diagnosed) /\ trappedLog[t] = IdsOf(ContentsOf(traps[t], Len(traps[t])))
    BY <1>0, Parts DEF TrapsTyped, TextIsRight
  <2>4. ContentsOf(traps[t], Len(traps[t])) \in Seq(Diagnosed)
    <3>1. Len(traps[t]) \in 0 .. Len(traps[t])
      <4>1. Len(traps[t]) \in Nat
        BY <2>3, StackFacts
      <4> QED
        BY <4>1
    <3> QED
      BY <2>3, <3>1, ContentsAreLists
  <2>5. Range(trappedLog[t]) = IdSet(ContentsOf(traps[t], Len(traps[t])))
    BY <2>3, <2>4, IdsTyped
  <2>6. LoggedBy(t) = Range(pendingLog[t]) \cup Range(trappedLog[t]) /\ LoggedBy(t) \subseteq Logged
    BY DEF LoggedBy, Logged
  <2> QED
    BY <2>2, <2>5, <2>6
<1>3. /\ errorTransport.pin # <<>> => IdSet(errorTransport.list) \subseteq Logged
      /\ IdSet(diagnosticTransport.list) \subseteq Logged
  <2>1. TransportsTyped /\ PinsAgree
    BY <1>0, Parts
  <2>2. /\ errorTransport.pin # <<>> => Range(errorTransport.pin) = IdSet(errorTransport.list)
        /\ Range(diagnosticTransport.pin) = IdSet(diagnosticTransport.list)
    <3>1. /\ Range(IdsOf(errorTransport.list)) = IdSet(errorTransport.list)
          /\ Range(IdsOf(diagnosticTransport.list)) = IdSet(diagnosticTransport.list)
      BY <2>1, IdsTyped DEF TransportsTyped
    <3> QED
      BY <2>1, <3>1 DEF PinsAgree
  <2> QED
    BY <2>2 DEF Logged
<1>4. ASSUME NEW t \in Threads, NEW n \in 0 .. Len(errors[t])
      PROVE  IdSet(SubSeq(errors[t], 1, n)) \subseteq Logged /\ IdSet(ErrorsFrom(t, n)) \subseteq Logged
  <2> DEFINE s == errors[t]
  <2>1. IsList(s) /\ IdSet(s) \subseteq Logged
    BY <1>2
  <2>2. n \in 0 .. Len(s)
    OBVIOUS
  <2>3. ErrorsFrom(t, n) = SubSeq(s, n + 1, Len(s))
    BY DEF ErrorsFrom
  <2> HIDE DEF s
  <2>4. IdSet(s) = IdSet(SubSeq(s, 1, n)) \cup IdSet(SubSeq(s, n + 1, Len(s)))
    BY <2>1, <2>2, SplitIds
  <2>5. IdSet(SubSeq(s, 1, n)) \subseteq Logged /\ IdSet(ErrorsFrom(t, n)) \subseteq Logged
    BY <2>1, <2>3, <2>4
  <2> QED
    BY <2>5 DEF s
<1>5. ASSUME NEW t \in Threads, Uses(t, "Mark") PROVE work[t].before \in 0 .. Len(errors[t])
  <2>1. work[t].before \in Nat /\ work[t].before < Len(errors[t])
    BY <1>0, <1>5 DEF AllOK, IInv, WorkOK, Uses
  <2>2. Len(errors[t]) \in Nat
    BY <1>2 DEF IsList
  <2> QED
    BY <2>1, <2>2
<1>6. ASSUME NEW t \in Threads, h = ErrorList(t) PROVE id \in Logged
  <2>1. id \in IdSet(Pending(t))
    BY <1>1, <1>6, OnShelves
  <2>2. CASE Uses(t, "Mark")
    <3>1. Pending(t) = SubSeq(errors[t], 1, work[t].before)
      BY <2>2 DEF Pending
    <3> QED
      BY <1>4, <1>5, <2>1, <2>2, <3>1
  <2>3. CASE ~Uses(t, "Mark")
    BY <1>2, <2>1, <2>3 DEF Pending
  <2> QED
    BY <2>2, <2>3
<1>7. ASSUME NEW t \in Threads, h = Report(t)
      PROVE  id \in Logged \/ (Unlogged(t) /\ id \in Range(IdsOf(work[t].todo)))
  <2>1. id \in IdSet(work[t].todo)
    BY <1>1, <1>7, OnShelves
  <2>2. CallAgrees(t) /\ work[t].of \in Causes /\ work[t].todo \in Seq(Diagnosed)
    BY <1>0, Parts, CallOf
  <2>3. CASE work[t].of = "None"
    BY <2>1, <2>2, <2>3, NoIds DEF CallAgrees
  <2>4. CASE Unlogged(t)
    BY <2>1, <2>2, <2>4, IdsTyped
  <2>5. CASE Uses(t, "Mark")
    <3>1. IdSet(work[t].todo) \subseteq IdSet(ErrorsFrom(t, work[t].before))
      BY <2>2, <2>5 DEF CallAgrees
    <3> QED
      BY <1>4, <1>5, <2>1, <2>5, <3>1
  <2>6. CASE Uses(t, "ErrorTransport") /\ errorTransport.pin # <<>>
    BY <1>3, <2>1, <2>2, <2>6 DEF CallAgrees
  <2>7. CASE Uses(t, "DiagnosticTransport")
    BY <1>3, <2>1, <2>2, <2>7 DEF CallAgrees
  <2> QED
    BY <2>2, <2>3, <2>4, <2>5, <2>6, <2>7 DEF Causes, Uses, Unlogged
<1>8. ASSUME NEW t \in Threads, NEW i \in Nat, h = TrapAt(t, i) PROVE id \in Logged
  <2>1. id \in IdSet(ContentAt(t, i))
    BY <1>1, <1>8, OnShelves
  <2>2. i \in DOMAIN traps[t] /\ id \in IdSet(traps[t][i].container)
    BY <2>1, NoIds DEF ContentAt
  <2>3. traps[t] \in Stacks(Diagnosed)
    BY <1>0, Parts DEF TrapsTyped
  <2>4. i \in 1 .. Len(traps[t])
    BY <2>2, <2>3, StackFacts
  <2>5. IdSet(traps[t][i].container) \subseteq IdSet(ContentsOf(traps[t], Len(traps[t])))
    BY <2>3, <2>4, IdsOfContents
  <2> QED
    BY <1>2, <2>2, <2>5
<1>9. ASSUME h = Transport("ErrorTransport") PROVE id \in Logged
  <2>1. id \in IdSet(InErrorTransport)
    BY <1>1, <1>9, OnShelves
  <2>2. errorTransport.pin # <<>> /\ id \in IdSet(errorTransport.list)
    BY <2>1, NoIds DEF InErrorTransport
  <2> QED
    BY <1>3, <2>2
<1>10. ASSUME h = Transport("DiagnosticTransport") PROVE id \in Logged
  <2>1. id \in IdSet(InDiagnosticTransport)
    BY <1>1, <1>10, OnShelves
  <2>2. id \in IdSet(diagnosticTransport.list)
    BY <2>1, NoIds DEF InDiagnosticTransport
  <2> QED
    BY <1>3, <2>2
<1>11. \/ \E t \in Threads : h = ErrorList(t)
       \/ \E t \in Threads : h = Report(t)
       \/ \E t \in Threads, i \in Nat : h = TrapAt(t, i)
       \/ h = Transport("ErrorTransport") \/ h = Transport("DiagnosticTransport")
  BY DEF Shelves
<1> QED
  BY <1>6, <1>7, <1>8, <1>9, <1>10, <1>11

\* A diagnostic that is issued and open is in the log.
LEMMA UnreportedIsLogged == AllOK => CrashLogHasUnreported
<1> SUFFICES ASSUME AllOK, NEW id \in 1 .. issued, fate[id] = "Open"
             PROVE  \/ id \in Logged
                    \/ \E t \in Threads : Unlogged(t) /\ id \in Range(IdsOf(work[t].todo))
  BY DEF CrashLogHasUnreported
<1>1. issued \in 0 .. MaxPosts
  BY Parts DEF FatesOK
<1>2. id \in Ids /\ id <= issued
  BY <1>1, BoundsAssumption DEF Ids
<1>3. id \in OpenIds
  BY <1>2 DEF OpenIds, IsOpen
<1> QED
  BY <1>3, OpenIsLogged

-----------------------------------------------------------------------------

\* The error lists, marks, texts, calls and transports of any number of threads
\* fit each other at every step of TfDiagnosticMgr.
THEOREM ListsInvariant == Spec => []IInv
  BY InitHolds, NextHolds, PTL DEF Spec

\* TfErrorMark's backward search and IsClean find what has joined the thread's
\* list since SetMark, no more and no less, whatever other threads, transports
\* and nested marks do.
THEOREM MarksAreRight == Spec => []MarksFindTheirErrors
<1>1. IInv => MarksFindTheirErrors
  BY FoundByMark DEF IInv, MarksFindTheirErrors
<1> QED
  BY <1>1, ListsInvariant, PTL

\* _nextSerial gives no number twice: the errors pending anywhere differ in their
\* numbers, and a thread's are in the order of theirs.
THEOREM SerialsDiffer == Spec => []SerialsAreUnique
<1>1. IInv => SerialsAreUnique
  BY DEF IInv, ListsOK, ThreadOK, Ascending, Apart, SerialsAreUnique
<1> QED
  BY <1>1, ListsInvariant, PTL

\* The text a crash would log lists what is pending in the thread's error list,
\* in order: the partial rebuilds of _RebuildPendingErrorsLogText lose nothing.
THEOREM PendingTextsMatch ==
  Spec => [](\A t \in Threads : pendingLog[t] = IdsOf(errors[t]))
<1>1. IInv => \A t \in Threads : pendingLog[t] = IdsOf(errors[t])
  BY DEF IInv, ListsOK, ThreadOK
<1> QED
  BY <1>1, ListsInvariant, PTL

\* No report has a delegate yet to call that RemoveDelegate has removed: the
\* writer waits for every report that holds _delegatesMutex.
THEOREM DelegatesStay == Spec => []NoDeadDelegate
<1>1. Init => CallsOK
  BY EmptyList DEF Init, Idle, CallsOK, Range
<1>2. CallsOK => NoDeadDelegate
  BY DEF CallsOK, NoDeadDelegate
<1>3. IInv => WorkOK
  BY DEF IInv
<1> QED
  BY <1>1, <1>2, <1>3, CallsHold, ListsInvariant, PTL DEF Spec

\* Every diagnostic that is issued and not yet reported, handled or dropped is in
\* one list, report, trap or transport, once; each text for the crash log is that
\* of what is there; and what a call has yet to report is still under the text of
\* where it comes from, unless a TfErrorTransport was posted again.
THEOREM PlacesInvariant == Spec => []AllOK
<1>1. Init => AllOK
  BY InitHolds, InitCalls, InitPlaces DEF AllOK
<1>2. AllOK /\ [Next]_vars => AllOK'
  <2>1. AllOK => IInv /\ CallsOK
    BY DEF AllOK
  <2>2. IInv => WorkOK
    BY DEF IInv
  <2>3. (IInv' /\ CallsOK' /\ PInv') => AllOK'
    BY DEF AllOK
  <2> QED
    BY <2>1, <2>2, <2>3, NextHolds, CallsHold, NextPlaces
<1> QED
  BY <1>1, <1>2, PTL DEF Spec

\* "Diagnostic messages for unhandled errors are always reported, either via
\* delegates/stderr, or to the crash log in case of a crash" (errorOverview.dox):
\* whenever the program crashes, what nobody has handled has been reported or is
\* in the log, in which every text is that of what is pending or trapped; but for
\* the call that issues it, Dismiss, and a TfErrorTransport that is posted again.
THEOREM CrashLogRight == Spec => []CrashLogIsRight
<1>1. AllOK => CrashLogIsRight
  BY TextsMatch, UnreportedIsLogged DEF CrashLogIsRight
<1> QED
  BY <1>1, PlacesInvariant, PTL

\* Through posts, traps, marks, transports and delegates of any number of
\* threads, each post of a diagnostic is in exactly one place until it is reported,
\* handled or dropped, and then in none; the errors a TfErrorTransport has reported
\* and kept count as posted once more each time it is posted again
\* (diagnosticMgr.cpp:265-269).  The pending errors have numbers of their own, in
\* order, and no report has a delegate to call that was removed.
THEOREM EachInOnePlace == Spec => []DiagnosticsAccount
<1>1. AllOK => TypeOK /\ InOnePlace
  BY HaveTypes, OnePlace
<1>2. (TypeOK /\ InOnePlace /\ SerialsAreUnique /\ NoDeadDelegate) => DiagnosticsAccount
  BY DEF DiagnosticsAccount
<1> QED
  BY <1>1, <1>2, PlacesInvariant, SerialsDiffer, DelegatesStay, PTL
=============================================================================
