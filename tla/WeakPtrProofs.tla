---------------------------- MODULE WeakPtrProofs ----------------------------
(***************************************************************************)
(* Proofs about the reference count of an object, its ownership by Python, *)
(* and the remnant that its weak pointers share, for every finite set of   *)
(* threads, under the assumption Quiet: nobody else uses the object while  *)
(* a conversion changes the sign of its count.                             *)
(*                                                                         *)
(* RefCount: a thread decides from the value it has read how it will       *)
(* change the count: blindly if the value was positive, by compare-and-    *)
(* swap if it was negative, under the Python lock if C++ has to take or to *)
(* give back the Python object.  The invariant says that the sign it       *)
(* relies on does not change before it has acted, because the thread, or   *)
(* the capsule that it empties, still has the reference it is about to     *)
(* copy or drop.                                                           *)
(*                                                                         *)
(* WeakPtr: everything shown of the object's count holds here too, as a    *)
(* step of WeakPtr is one of RefCount or leaves it alone.  What it adds to *)
(* the invariant: a thread that makes a weak pointer has a TfRefPtr, so    *)
(* the object's destructor has not begun, and a published remnant has the  *)
(* object's own reference until the thread has counted in.                 *)
(***************************************************************************)
EXTENDS WeakPtr, Lemmas

Magnitude == IF count < 0 THEN -count ELSE count

\* What a thread in each call has: the references it is about to copy or to
\* drop, room for the one it will get, and the Python lock.
Shape(t) ==
  \/ purpose[t] = "None" /\ refAt[t] = "Idle"
  \/ /\ purpose[t] = "Copy"
     /\ refs[t] > 0
     /\ \/ refAt[t] \in AddPlaces /\ refs[t] < MaxRefs
        \/ refAt[t] = "Acquire"
  \/ /\ purpose[t] = "Drop"
     /\ \/ refAt[t] \in RemovePlaces /\ refs[t] > 0
        \/ refAt[t] = "Release"
  \/ /\ purpose[t] = "Upgrade"
     /\ \/ refAt[t] \in UpgradePlaces /\ refs[t] < MaxRefs
        \/ refAt[t] = "Acquire" /\ refs[t] > 0
  \/ /\ purpose[t] = "Wrap"
     /\ refs[t] > 0 /\ gil = t /\ acquired
     /\ \/ refAt[t] \in {"LoadAdd", "FetchAdd"} /\ ~owner
        \/ refAt[t] = "Negate" /\ owner
  \/ /\ purpose[t] = "Unwrap"
     /\ gil = t /\ owner
     /\ \/ refAt[t] \in {"LoadAdd", "CasAdd", "LockAdd"} /\ refs[t] < MaxRefs
        \/ refAt[t] \in {"Acquire", "Unnegate"} /\ refs[t] > 0
  \/ /\ purpose[t] = "DropOwner"
     /\ refAt[t] \in {"LoadRemove", "FetchSub", "CasRemove"}
     /\ gil = t /\ owner

\* What a thread at each place knows of the sign of the count.
Sign(t) ==
  /\ refAt[t] \in {"FetchAdd", "FetchSub", "Negate"} => count > 0
  /\ purpose[t] = "Wrap" => count > 0
  /\ purpose[t] = "Unwrap" => count < 0
  /\ refAt[t] \in {"CasAdd", "LockAdd", "CasRemove", "LockRemove"} => count < 0
  /\ refAt[t] \in {"Acquire", "Unnegate"} => count < -1
  /\ refAt[t] = "Release" => count = -1
  /\ purpose[t] = "DropOwner" => count >= -1
  /\ refAt[t] = "CasUpgradeUp" => count >= 0
  /\ refAt[t] \in {"CasUpgradeDown", "LockUpgrade"} => count <= 0

\* A compare-and-swap succeeds only on a value for which it is the right way.
Prev(t) ==
  /\ refAt[t] \in {"CasAdd", "CasUpgradeDown"} => prev[t] < -1
  /\ refAt[t] = "CasRemove" => prev[t] < 0 /\ ~NeedsLock(prev[t])
  /\ refAt[t] = "CasUpgradeUp" => prev[t] > 0
  /\ refAt[t] = "LockUpgrade" => prev[t] < 0

\* The listener runs under the Python lock, a conversion without others.
Alone(t) ==
  /\ refAt[t] \in ListenerPlaces => gil = t
  /\ Converting(t) => \A u \in RefThreads \ {t} : refAt[u] = "Idle"

ThreadsOK == \A t \in RefThreads : Shape(t) /\ Sign(t) /\ Prev(t) /\ Alone(t)

Accounting ==
  /\ References = Magnitude
  /\ deletes = IF count = 0 THEN 1 ELSE 0

\* Python's ownership and the sign go together; a listener that is about to run
\* will set right what C++ holds.
Ownership ==
  /\ count < 0 => owner
  /\ count >= 0 /\ owner => \E t \in RefThreads : refAt[t] = "Negate" \/ purpose[t] = "DropOwner"
  /\ count > 0 /\ pyRefs # {} => acquired
  /\ count < 0 => \/ acquired <=> count < -1
                  \/ \E t \in RefThreads : refAt[t] \in ListenerPlaces

IInv == RefTypeOK /\ ThreadsOK /\ Accounting /\ Ownership

-----------------------------------------------------------------------------
(* Counting TfRefPtrs. *)

Holdings == [RefThreads -> 0 .. MaxRefs]

PointersOf(r) == {p \in RefThreads \X (1 .. MaxRefs) : p[2] <= r[p[1]]}

Count(r) == Cardinality(PointersOf(r))

\* The references can be counted.
LEMMA FinitePointers ==
  ASSUME NEW r
  PROVE  IsFiniteSet(PointersOf(r)) /\ Count(r) \in Nat
<1>1. IsFiniteSet(1 .. MaxRefs)
  BY FS_Interval, MaxRefsAssumption
<1>2. IsFiniteSet(RefThreads \X (1 .. MaxRefs))
  BY <1>1, FS_Product, RefThreadsAssumption
<1>3. IsFiniteSet(PointersOf(r))
  BY <1>2, FS_Subset DEF PointersOf
<1> QED
  BY <1>3, FS_CardinalityType DEF Count

\* One thread has one more.
LEMMA CountGain ==
  ASSUME NEW r \in Holdings, NEW t \in RefThreads, r[t] < MaxRefs
  PROVE  /\ [r EXCEPT ![t] = r[t] + 1] \in Holdings
         /\ Count([r EXCEPT ![t] = r[t] + 1]) = Count(r) + 1
<1> DEFINE q == [r EXCEPT ![t] = r[t] + 1]
           new == <<t, r[t] + 1>>
<1>1. r[t] \in Nat /\ MaxRefs \in Nat /\ r[t] + 1 \in 1 .. MaxRefs
  BY MaxRefsAssumption DEF Holdings
<1>2. q \in Holdings
  BY <1>1 DEF Holdings
<1>3. new \notin PointersOf(r)
  BY <1>1 DEF PointersOf
<1>4. PointersOf(q) = PointersOf(r) \cup {new}
  <2>1. ASSUME NEW u \in RefThreads, NEW n \in 1 .. MaxRefs
        PROVE  <<u, n>> \in PointersOf(q) <=> <<u, n>> \in PointersOf(r) \cup {new}
    <3>1. <<u, n>> \in PointersOf(q) <=> n <= q[u]
      BY <2>1 DEF PointersOf
    <3>2. <<u, n>> \in PointersOf(r) <=> n <= r[u]
      BY <2>1 DEF PointersOf
    <3>3. CASE u = t
      <4>1. q[u] = r[t] + 1
        BY <3>3 DEF Holdings
      <4>2. <<u, n>> = new <=> n = r[t] + 1
        BY <3>3
      <4>3. n <= r[t] + 1 <=> n <= r[t] \/ n = r[t] + 1
        BY <1>1
      <4> QED
        BY <3>1, <3>2, <3>3, <4>1, <4>2, <4>3
    <3>4. CASE u # t
      BY <3>1, <3>2, <3>4 DEF Holdings
    <3> QED
      BY <3>3, <3>4
  <2>2. /\ PointersOf(q) \subseteq RefThreads \X (1 .. MaxRefs)
        /\ PointersOf(r) \cup {new} \subseteq RefThreads \X (1 .. MaxRefs)
    BY <1>1 DEF PointersOf
  <2>3. \A p \in RefThreads \X (1 .. MaxRefs) :
          p \in PointersOf(q) <=> p \in PointersOf(r) \cup {new}
    <3> HIDE DEF q, new
    <3> QED
      BY <2>1
  <2> QED
    BY <2>2, <2>3
<1> QED
  BY <1>2, <1>3, <1>4, FinitePointers, FS_AddElement DEF Count

\* One thread has one less.
LEMMA CountLose ==
  ASSUME NEW r \in Holdings, NEW t \in RefThreads, r[t] > 0
  PROVE  /\ [r EXCEPT ![t] = r[t] - 1] \in Holdings
         /\ Count([r EXCEPT ![t] = r[t] - 1]) = Count(r) - 1
         /\ Count(r) > 0
<1> DEFINE q == [r EXCEPT ![t] = r[t] - 1]
<1>1. r[t] \in Nat /\ MaxRefs \in Nat /\ r[t] - 1 \in 0 .. MaxRefs /\ r[t] - 1 < MaxRefs
  BY MaxRefsAssumption DEF Holdings
<1>2. q \in Holdings /\ q[t] = r[t] - 1
  BY <1>1 DEF Holdings
<1>3. r = [q EXCEPT ![t] = q[t] + 1]
  <2>1. r[t] - 1 + 1 = r[t]
    BY <1>1
  <2>2. r = [u \in RefThreads |-> r[u]] /\ r[t] = q[t] + 1
    BY <1>2, <2>1 DEF Holdings
  <2>3. \A u \in RefThreads \ {t} : q[u] = r[u]
    BY DEF Holdings
  <2>4. q = [u \in RefThreads |-> q[u]]
    BY DEF Holdings
  <2> HIDE DEF q
  <2> QED
    BY <2>2, <2>3, <2>4
<1>4. Count(r) = Count(q) + 1
  <2>1. q[t] < MaxRefs
    BY <1>1, <1>2
  <2>2. Count([q EXCEPT ![t] = q[t] + 1]) = Count(q) + 1
    BY <1>2, <2>1, CountGain
  <2> QED
    BY <1>3, <2>2
<1> QED
  BY <1>2, <1>4, FinitePointers

\* Every thread has one.
LEMMA CountOnes == Count([t \in RefThreads |-> 1]) = Cardinality(RefThreads)
<1>1. PointersOf([t \in RefThreads |-> 1]) = RefThreads \X {1}
  BY MaxRefsAssumption DEF PointersOf
<1>2. IsFiniteSet({1}) /\ Cardinality({1}) = 1
  BY FS_Singleton
<1>3. Cardinality(RefThreads \X {1}) = Cardinality(RefThreads) * 1
  BY <1>2, FS_Product, RefThreadsAssumption
<1>4. Cardinality(RefThreads) \in Nat
  BY FS_CardinalityType, RefThreadsAssumption
<1>5. Count([t \in RefThreads |-> 1]) = Cardinality(RefThreads \X {1})
  BY <1>1 DEF Count
<1> QED
  BY <1>3, <1>4, <1>5

-----------------------------------------------------------------------------
(* What a step of t does. *)

Move(t) == RefCall(t) \/ CountStep(t)

\* t gets a reference, or the capsule does; t loses one, or the capsule does.
Gains(t) ==
  \/ refs[t] < MaxRefs /\ refs' = [refs EXCEPT ![t] = @ + 1] /\ UNCHANGED owner
  \/ ~owner /\ owner' = TRUE /\ UNCHANGED refs

Loses(t) ==
  \/ refs[t] > 0 /\ refs' = [refs EXCEPT ![t] = @ - 1] /\ UNCHANGED owner
  \/ purpose[t] = "DropOwner" /\ owner /\ owner' = FALSE /\ UNCHANGED refs

\* The count follows the references, away from zero and towards it on its side;
\* or it changes its sign while nobody else uses the object.
KeepsCount == UNCHANGED <<count, deletes, refs, owner>>

CountsUp(t) ==
  /\ Gains(t) /\ UNCHANGED deletes
  /\ \/ count > 0 /\ count' = count + 1
     \/ count < 0 /\ count' = count - 1 /\ (count = -1 => gil \in {t, NoThread})

CountsDown(t) ==
  /\ Loses(t) /\ deletes' = deletes + IF count \in {1, -1} THEN 1 ELSE 0
  /\ \/ count > 0 /\ count' = count - 1
     \/ count < 0 /\ count' = count + 1

ChangesSign(t) ==
  /\ count' = -count /\ owner
  /\ UNCHANGED <<deletes, refs, owner>>
  /\ \A u \in RefThreads \ {t} : refAt[u] = "Idle"

Effect(t) == KeepsCount \/ CountsUp(t) \/ CountsDown(t) \/ ChangesSign(t)

\* The step leaves the other threads, and a lock they have, alone.
Control(t) ==
  /\ acquired' \in BOOLEAN /\ pyRefs' \subseteq RefThreads
  /\ gil' \in RefThreads \cup {NoThread}
  /\ refAt' \in [RefThreads -> RefPlaces] /\ purpose' \in [RefThreads -> Purposes]
  /\ prev' \in [RefThreads -> Int]
  /\ \A u \in RefThreads \ {t} :
       /\ refAt'[u] = refAt[u] /\ purpose'[u] = purpose[u] /\ prev'[u] = prev[u]
       /\ gil = u => gil' = u

\* t itself is where the invariant allows it.
Local(t) == Shape(t) /\ Sign(t) /\ Prev(t) /\ Alone(t)

\* Whoever holds the capsule's reference of an object with a positive count.
Hands(t) == refAt[t] = "Negate" \/ purpose[t] = "DropOwner"

\* A step that disturbs what the two owners know of each other leaves t itself
\* to set it right.
OwnershipStep(t) ==
  /\ owner' /\ count' >= 0 => \/ Hands(t)'
                              \/ ~Hands(t) /\ owner /\ count >= 0
  /\ count' > 0 /\ pyRefs' # {} => acquired'
  /\ count' < 0 => \/ acquired' <=> count' < -1
                   \/ refAt'[t] \in ListenerPlaces
                   \/ count < 0 /\ refAt[t] \notin ListenerPlaces /\ ~(acquired <=> count < -1)

Facts(t) == Effect(t) /\ Control(t) /\ Local(t)' /\ OwnershipStep(t)

\* A reference makes the count other than zero; two make it more.
LEMMA Referenced ==
  ASSUME IInv, NEW t \in RefThreads
  PROVE  /\ refs[t] > 0 \/ owner => count # 0
         /\ refs[t] > 0 /\ owner => count > 1 \/ count < -1
         /\ refs[t] > 0 /\ ~owner => count > 0
<1>1. refs \in Holdings /\ owner \in BOOLEAN /\ count \in Int
  BY DEF IInv, RefTypeOK, Holdings
<1>2. refs[t] > 0 => Count(refs) > 0
  BY <1>1, CountLose
<1>3. Count(refs) \in Nat
  BY FinitePointers
<1>4. Count(refs) + (IF owner THEN 1 ELSE 0) = IF count < 0 THEN -count ELSE count
  BY DEF IInv, Accounting, References, Magnitude, Count, Pointers, PointersOf
<1>5. count < 0 => owner
  BY DEF IInv, Ownership
<1> QED
  BY <1>1, <1>2, <1>3, <1>4, <1>5

\* What the invariant says of the types.
LEMMA Typed ==
  ASSUME IInv
  PROVE  /\ count \in Int /\ deletes \in 0 .. 1 /\ refs \in [RefThreads -> 0 .. MaxRefs]
         /\ owner \in BOOLEAN /\ acquired \in BOOLEAN /\ pyRefs \subseteq RefThreads
         /\ gil \in RefThreads \cup {NoThread} /\ NoThread \notin RefThreads
         /\ refAt \in [RefThreads -> RefPlaces] /\ purpose \in [RefThreads -> Purposes]
         /\ prev \in [RefThreads -> Int] /\ MaxRefs \in Nat
  BY RefThreadsAssumption, MaxRefsAssumption DEF IInv, RefTypeOK

\* Outside of listeners and conversions the owners agree.
LEMMA Owned ==
  ASSUME IInv
  PROVE  /\ count < 0 => owner
         /\ count > 0 /\ pyRefs # {} => acquired
         /\ gil = NoThread /\ count < 0 => (acquired <=> count < -1)
         /\ gil = NoThread /\ (\A t \in RefThreads : refAt[t] = "Idle") /\ owner => count < 0
<1>1. gil = NoThread => \A t \in RefThreads : refAt[t] \notin ListenerPlaces
  BY Typed DEF IInv, ThreadsOK, Alone
<1>2. \A t \in RefThreads : refAt[t] = "Idle" => purpose[t] = "None"
  BY DEF IInv, ThreadsOK, Shape, AddPlaces, RemovePlaces, UpgradePlaces
<1> QED
  BY <1>1, <1>2, Typed DEF IInv, Ownership

\* Calls that begin.
LEMMA CallFacts ==
  ASSUME IInv, Quiet, NEW t \in RefThreads, RefCall(t)
  PROVE  Facts(t)
<1> USE Typed, Referenced, Owned
    DEF Facts, Effect, KeepsCount, Control, Local, Shape, Sign, Prev, Alone,
            OwnershipStep, Hands, Converting, RefGoto, Saw, CasPlaces, ListenerPlaces,
            AddPlaces, RemovePlaces, UpgradePlaces, RefPlaces, Purposes, Start, python, control
<1>1. Local(t)
  BY DEF IInv, ThreadsOK
<1>2. CASE Copy(t)
  BY <1>1, <1>2 DEF Copy
<1>3. CASE Drop(t)
  BY <1>1, <1>3 DEF Drop
<1>4. CASE Upgrade(t)
  BY <1>1, <1>4 DEF Upgrade
<1>5. CASE Wrap(t)
  <2>1. /\ refAt[t] = "Idle" /\ refs[t] > 0 /\ ~owner /\ gil = NoThread /\ gil' = t
        /\ \A u \in RefThreads \ {t} : refAt[u] = "Idle"
        /\ purpose' = [purpose EXCEPT ![t] = "Wrap"]
        /\ refAt' = [refAt EXCEPT ![t] = "LoadAdd"] /\ prev' = [prev EXCEPT ![t] = 0]
        /\ pyRefs' = pyRefs \cup {t} /\ UNCHANGED <<count, deletes, refs, owner>>
    BY <1>5 DEF Wrap
  <2>2. count > 0
    BY <2>1
  <2>3. acquired' = TRUE
    BY <1>5, <2>2 DEF Wrap, PythonAlive
  <2> QED
    BY <1>1, <2>1, <2>2, <2>3
<1>6. CASE Unwrap(t)
  BY <1>1, <1>6 DEF Unwrap
<1>7. CASE PythonTakes(t)
  BY <1>1, <1>7 DEF PythonTakes, PythonAlive
<1>8. CASE PythonDrops(t)
  <2>1. /\ gil = NoThread /\ refAt[t] = "Idle" /\ purpose[t] = "None"
        /\ pyRefs' = pyRefs \ {t} /\ UNCHANGED <<count, deletes, refs, owner, acquired>>
    BY <1>1, <1>8 DEF PythonDrops
  <2>2. CASE pyRefs = {t} /\ ~acquired /\ owner
    <3>1. /\ gil' = t /\ purpose' = [purpose EXCEPT ![t] = "DropOwner"]
          /\ refAt' = [refAt EXCEPT ![t] = "LoadRemove"] /\ prev' = [prev EXCEPT ![t] = 0]
      BY <1>8, <2>2 DEF PythonDrops
    <3>2. count >= -1
      BY <2>1, <2>2
    <3> QED
      BY <1>1, <2>1, <2>2, <3>1, <3>2
  <2>3. CASE ~(pyRefs = {t} /\ ~acquired /\ owner)
    BY <1>1, <1>8, <2>1, <2>3 DEF PythonDrops
  <2> QED
    BY <2>2, <2>3
<1> QED
  BY <1>2, <1>3, <1>4, <1>5, <1>6, <1>7, <1>8 DEF RefCall

\* Loads, and listeners, which run under the Python lock.
LEMMA LoadFacts ==
  ASSUME IInv, NEW t \in RefThreads,
         LoadAdd(t) \/ LoadRemove(t) \/ LoadUpgrade(t) \/ Acquire(t) \/ Release(t)
  PROVE  Facts(t)
<1> USE Typed, Referenced, Owned
    DEF Facts, Effect, KeepsCount, Control, Local, Shape, Sign, Prev, Alone,
            OwnershipStep, Hands, Converting, RefGoto, Saw, CasPlaces, ListenerPlaces,
            AddPlaces, RemovePlaces, UpgradePlaces, ConversionPlaces, RefPlaces, Purposes,
            python, control
<1>1. Local(t)
  BY DEF IInv, ThreadsOK
<1>2. CASE LoadAdd(t)
  <2>1. /\ refAt[t] = "LoadAdd" /\ UNCHANGED <<count, deletes, refs, python, gil, purpose>>
        /\ refAt' = [refAt EXCEPT ![t] = refAt'[t]] /\ prev' = [prev EXCEPT ![t] = prev'[t]]
    BY <1>2 DEF LoadAdd
  <2>2. CASE count = -1
    <3>1. refAt'[t] = "LockAdd" /\ prev'[t] = 0
      BY <1>2, <2>2 DEF LoadAdd
    <3> QED
      BY <1>1, <2>1, <2>2, <3>1
  <2>3. CASE count < -1
    <3>1. refAt'[t] = "CasAdd" /\ prev'[t] = count
      BY <1>2, <2>3 DEF LoadAdd
    <3> QED
      BY <1>1, <2>1, <2>3, <3>1
  <2>4. CASE count > -1
    <3>1. refAt'[t] = "FetchAdd" /\ prev'[t] = 0
      BY <1>2, <2>4 DEF LoadAdd
    <3> QED
      BY <1>1, <2>1, <2>4, <3>1
  <2> QED
    BY <2>2, <2>3, <2>4
<1>3. CASE LoadRemove(t)
  <2>1. /\ refAt[t] = "LoadRemove" /\ UNCHANGED <<count, deletes, refs, python, gil, purpose>>
        /\ refAt' = [refAt EXCEPT ![t] = refAt'[t]] /\ prev' = [prev EXCEPT ![t] = prev'[t]]
    BY <1>3 DEF LoadRemove
  <2>2. CASE count = -2
    <3>1. refAt'[t] = "LockRemove" /\ prev'[t] = 0
      BY <1>3, <2>2 DEF LoadRemove, NeedsLock
    <3> QED
      BY <1>1, <2>1, <2>2, <3>1
  <2>3. CASE count < 0 /\ count # -2
    <3>1. refAt'[t] = "CasRemove" /\ prev'[t] = count
      BY <1>3, <2>3 DEF LoadRemove, NeedsLock
    <3> QED
      BY <1>1, <2>1, <2>3, <3>1 DEF NeedsLock
  <2>4. CASE count >= 0
    <3>1. refAt'[t] = "FetchSub" /\ prev'[t] = 0
      BY <1>3, <2>4 DEF LoadRemove, NeedsLock
    <3> QED
      BY <1>1, <2>1, <2>4, <3>1
  <2> QED
    BY <2>2, <2>3, <2>4
<1>4. CASE LoadUpgrade(t)
  <2>1. /\ refAt[t] = "LoadUpgrade" /\ UNCHANGED <<count, deletes, refs, python>>
        /\ refAt' = [refAt EXCEPT ![t] = refAt'[t]] /\ prev' = [prev EXCEPT ![t] = prev'[t]]
    BY <1>4 DEF LoadUpgrade, SawUpgrade
  <2>2. CASE count = 0
    <3>1. refAt'[t] = "Idle" /\ prev'[t] = 0 /\ purpose' = [purpose EXCEPT ![t] = "None"]
      BY <1>4, <2>2 DEF LoadUpgrade, SawUpgrade, UpgradeAt
    <3>2. gil' = IF gil = t THEN NoThread ELSE gil
      BY <1>4, <2>2 DEF LoadUpgrade, SawUpgrade, UpgradeAt, FreeGil
    <3> QED
      BY <1>1, <2>1, <2>2, <3>1, <3>2
  <2>3. CASE count # 0
    <3>1. UNCHANGED <<purpose, gil>>
      BY <1>4, <2>3 DEF LoadUpgrade, SawUpgrade, UpgradeAt
    <3>2. \/ count > 0 /\ refAt'[t] = "CasUpgradeUp" /\ prev'[t] = count
          \/ count = -1 /\ refAt'[t] = "LockUpgrade" /\ prev'[t] = count
          \/ count < -1 /\ refAt'[t] = "CasUpgradeDown" /\ prev'[t] = count
      BY <1>4, <2>3 DEF LoadUpgrade, SawUpgrade, UpgradeAt
    <3> QED
      BY <1>1, <2>1, <3>1, <3>2
  <2> QED
    BY <2>2, <2>3
<1>5. CASE Acquire(t)
  <2>1. /\ refAt[t] = "Acquire" /\ count < -1 /\ gil = t /\ acquired' = TRUE
        /\ UNCHANGED <<count, deletes, refs, owner, pyRefs>>
    BY <1>1, <1>5 DEF Acquire
  <2>2. CASE purpose[t] = "Unwrap"
    <3>1. /\ refAt' = [refAt EXCEPT ![t] = "Unnegate"] /\ prev' = [prev EXCEPT ![t] = 0]
          /\ UNCHANGED <<purpose, gil>>
      BY <1>5, <2>2 DEF Acquire, AfterAdd
    <3> QED
      BY <1>1, <2>1, <2>2, <3>1
  <2>3. CASE purpose[t] # "Unwrap"
    <3>1. purpose[t] \in {"Copy", "Upgrade"}
      BY <1>1, <2>1, <2>3
    <3>2. /\ refAt' = [refAt EXCEPT ![t] = "Idle"] /\ prev' = [prev EXCEPT ![t] = 0]
          /\ purpose' = [purpose EXCEPT ![t] = "None"] /\ gil' = NoThread
      BY <1>5, <2>1, <3>1 DEF Acquire, AfterAdd, RefReturn, FreeGil
    <3> QED
      BY <1>1, <2>1, <3>1, <3>2
  <2> QED
    BY <2>2, <2>3
<1>6. CASE Release(t)
  <2>1. /\ refAt[t] = "Release" /\ purpose[t] = "Drop" /\ count = -1 /\ gil = t
        /\ acquired' = FALSE /\ acquired' \in BOOLEAN
        /\ UNCHANGED <<count, deletes, refs, owner, pyRefs>>
    BY <1>1, <1>6 DEF Release
  <2>2. CASE pyRefs = {} /\ owner
    <3>1. /\ purpose' = [purpose EXCEPT ![t] = "DropOwner"] /\ UNCHANGED gil
          /\ refAt' = [refAt EXCEPT ![t] = "LoadRemove"] /\ prev' = [prev EXCEPT ![t] = 0]
      BY <1>6, <2>2 DEF Release
    <3> QED
      BY <1>1, <2>1, <2>2, <3>1
  <2>3. CASE ~(pyRefs = {} /\ owner)
    <3>1. /\ refAt' = [refAt EXCEPT ![t] = "Idle"] /\ prev' = [prev EXCEPT ![t] = 0]
          /\ purpose' = [purpose EXCEPT ![t] = "None"] /\ gil' = NoThread
      BY <1>6, <2>1, <2>3 DEF Release, RefReturn, FreeGil
    <3> QED
      BY <1>1, <2>1, <3>1
  <2> QED
    BY <2>2, <2>3
<1> QED
  BY <1>2, <1>3, <1>4, <1>5, <1>6

\* A reference is added: blindly, by compare-and-swap, or under the Python lock.
LEMMA AddFacts ==
  ASSUME IInv, NEW t \in RefThreads, FetchAdd(t) \/ CasAdd(t) \/ LockAdd(t)
  PROVE  Facts(t)
<1> USE Typed, Referenced, Owned
    DEF Facts, Effect, KeepsCount, CountsUp, Gains, Control, Local, Shape, Sign, Prev, Alone,
            OwnershipStep, Hands, Converting, RefGoto, Saw, CasPlaces, ListenerPlaces,
            AddPlaces, RemovePlaces, UpgradePlaces, ConversionPlaces, RefPlaces, Purposes,
            python, control
<1>1. Local(t)
  BY DEF IInv, ThreadsOK
<1>2. CASE FetchAdd(t)
  <2>1. /\ refAt[t] = "FetchAdd" /\ count > 0 /\ count' = count + 1
        /\ UNCHANGED <<deletes, acquired, pyRefs>>
    BY <1>1, <1>2 DEF FetchAdd
  <2>2. CASE purpose[t] = "Copy"
    <3>1. refs' = [refs EXCEPT ![t] = @ + 1] /\ UNCHANGED owner
      BY <1>2, <2>2 DEF FetchAdd, Gain
    <3>2. /\ refAt' = [refAt EXCEPT ![t] = "Idle"] /\ prev' = [prev EXCEPT ![t] = 0]
          /\ purpose' = [purpose EXCEPT ![t] = "None"]
          /\ gil' = IF gil = t THEN NoThread ELSE gil
      BY <1>2, <2>2 DEF FetchAdd, AfterAdd, RefReturn, FreeGil
    <3> QED
      BY <1>1, <2>1, <2>2, <3>1, <3>2
  <2>3. CASE purpose[t] = "Wrap"
    <3>1. owner' = TRUE /\ UNCHANGED refs
      BY <1>2, <2>3 DEF FetchAdd, Gain
    <3>2. /\ refAt' = [refAt EXCEPT ![t] = "Negate"] /\ prev' = [prev EXCEPT ![t] = 0]
          /\ UNCHANGED <<purpose, gil>>
      BY <1>2, <2>3 DEF FetchAdd, AfterAdd
    <3>3. ~owner /\ acquired /\ acquired' /\ owner' /\ refs[t] > 0 /\ gil = t
      BY <1>1, <2>1, <2>3, <3>1
    <3>4. Effect(t)
      BY <2>1, <3>1, <3>3
    <3>5. Shape(t)' /\ Sign(t)' /\ Prev(t)' /\ Alone(t)'
      BY <1>1, <2>1, <2>3, <3>1, <3>2, <3>3
    <3>6. Control(t)
      BY <2>1, <3>2, <3>3
    <3>7. OwnershipStep(t)
      BY <2>1, <3>2, <3>3
    <3> QED
      BY <3>4, <3>5, <3>6, <3>7
  <2> QED
    BY <1>1, <2>1, <2>2, <2>3
<1>3. CASE CasAdd(t)
  <2>1. refAt[t] = "CasAdd" /\ prev[t] < -1 /\ UNCHANGED <<deletes, acquired, pyRefs>>
    BY <1>1, <1>3 DEF CasAdd
  <2>2. purpose[t] \in {"Copy", "Unwrap"} /\ refs[t] < MaxRefs /\ count < 0
    BY <1>1, <2>1
  <2>3. CASE count = prev[t]
    <3>1. count' = count - 1 /\ refs' = [refs EXCEPT ![t] = @ + 1] /\ UNCHANGED owner
      BY <1>3, <2>2, <2>3 DEF CasAdd, Gain, OneMore
    <3>2. CASE purpose[t] = "Copy"
      <4>1. /\ refAt' = [refAt EXCEPT ![t] = "Idle"] /\ prev' = [prev EXCEPT ![t] = 0]
            /\ purpose' = [purpose EXCEPT ![t] = "None"]
            /\ gil' = IF gil = t THEN NoThread ELSE gil
        BY <1>3, <2>3, <3>2 DEF CasAdd, AfterAdd, RefReturn, FreeGil
      <4> QED
        BY <1>1, <2>1, <2>2, <2>3, <3>1, <3>2, <4>1
    <3>3. CASE purpose[t] = "Unwrap"
      <4>1. /\ refAt' = [refAt EXCEPT ![t] = "Unnegate"] /\ prev' = [prev EXCEPT ![t] = 0]
            /\ UNCHANGED <<purpose, gil>>
        BY <1>3, <2>3, <3>3 DEF CasAdd, AfterAdd
      <4> QED
        BY <1>1, <2>1, <2>2, <2>3, <3>1, <3>3, <4>1
    <3> QED
      BY <2>2, <3>2, <3>3
  <2>4. CASE count # prev[t]
    <3>1. UNCHANGED <<count, refs, owner, gil, purpose>>
      BY <1>3, <2>4 DEF CasAdd
    <3>2. \/ /\ count = -1 /\ refAt' = [refAt EXCEPT ![t] = "LockAdd"]
             /\ prev' = [prev EXCEPT ![t] = 0]
          \/ /\ count < -1 /\ refAt' = [refAt EXCEPT ![t] = "CasAdd"]
             /\ prev' = [prev EXCEPT ![t] = count]
      BY <1>3, <2>2, <2>4 DEF CasAdd
    <3> QED
      BY <1>1, <2>1, <2>2, <3>1, <3>2
  <2> QED
    BY <2>3, <2>4
<1>4. CASE LockAdd(t)
  <2>1. /\ refAt[t] = "LockAdd" /\ gil \in {t, NoThread} /\ count < 0 /\ count' = count - 1
        /\ UNCHANGED <<deletes, acquired, pyRefs>>
    BY <1>1, <1>4 DEF LockAdd, CanLock
  <2>2. purpose[t] \in {"Copy", "Unwrap"} /\ refs[t] < MaxRefs
    BY <1>1, <2>1
  <2>3. refs' = [refs EXCEPT ![t] = @ + 1] /\ UNCHANGED owner
    BY <1>4, <2>2 DEF LockAdd, Gain
  <2>4. CASE count = -1
    <3>1. /\ refAt' = [refAt EXCEPT ![t] = "Acquire"] /\ prev' = [prev EXCEPT ![t] = 0]
          /\ gil' = t /\ UNCHANGED purpose
      BY <1>4, <2>4 DEF LockAdd, BecomesShared
    <3> QED
      BY <1>1, <2>1, <2>2, <2>3, <2>4, <3>1
  <2>5. CASE count # -1 /\ purpose[t] = "Copy"
    <3>1. /\ refAt' = [refAt EXCEPT ![t] = "Idle"] /\ prev' = [prev EXCEPT ![t] = 0]
          /\ purpose' = [purpose EXCEPT ![t] = "None"]
          /\ gil' = IF gil = t THEN NoThread ELSE gil
      BY <1>4, <2>5 DEF LockAdd, BecomesShared, AfterAdd, RefReturn, FreeGil
    <3> QED
      BY <1>1, <2>1, <2>2, <2>3, <2>5, <3>1
  <2>6. CASE count # -1 /\ purpose[t] = "Unwrap"
    <3>1. /\ refAt' = [refAt EXCEPT ![t] = "Unnegate"] /\ prev' = [prev EXCEPT ![t] = 0]
          /\ UNCHANGED <<purpose, gil>>
      BY <1>4, <2>6 DEF LockAdd, BecomesShared, AfterAdd
    <3> QED
      BY <1>1, <2>1, <2>2, <2>3, <2>6, <3>1
  <2> QED
    BY <2>2, <2>4, <2>5, <2>6
<1> QED
  BY <1>2, <1>3, <1>4

\* A weak pointer is upgraded; the loop may find that the object is dead.
LEMMA UpgradeFacts ==
  ASSUME IInv, NEW t \in RefThreads, CasUpgradeUp(t) \/ CasUpgradeDown(t) \/ LockUpgrade(t)
  PROVE  Facts(t)
<1> USE Typed, Referenced, Owned
    DEF Facts, Effect, KeepsCount, CountsUp, Gains, Control, Local, Shape, Sign, Prev, Alone,
            OwnershipStep, Hands, Converting, RefGoto, Saw, CasPlaces, ListenerPlaces,
            AddPlaces, RemovePlaces, UpgradePlaces, ConversionPlaces, RefPlaces, Purposes,
            python, control
<1>1. Local(t)
  BY DEF IInv, ThreadsOK
<1>2. purpose[t] = "Upgrade" /\ refs[t] < MaxRefs
  BY <1>1 DEF CasUpgradeUp, CasUpgradeDown, LockUpgrade
<1>3. UNCHANGED <<deletes, acquired, pyRefs>>
  BY DEF CasUpgradeUp, CasUpgradeDown, LockUpgrade
<1>4. ASSUME count > 0 \/ count < 0, count' = IF count > 0 THEN count + 1 ELSE count - 1,
             count = -1 => FALSE,
             refAt[t] \in {"CasUpgradeUp", "CasUpgradeDown", "LockUpgrade"},
             Gain(t), RefReturn(t)
      PROVE  Facts(t)
  <2>1. refs' = [refs EXCEPT ![t] = @ + 1] /\ UNCHANGED owner
    BY <1>2, <1>4 DEF Gain
  <2>2. /\ refAt' = [refAt EXCEPT ![t] = "Idle"] /\ prev' = [prev EXCEPT ![t] = 0]
        /\ purpose' = [purpose EXCEPT ![t] = "None"]
        /\ gil' = IF gil = t THEN NoThread ELSE gil
    BY <1>4 DEF RefReturn, FreeGil
  <2> QED
    BY <1>1, <1>2, <1>3, <1>4, <2>1, <2>2
<1>5. CASE CasUpgradeUp(t) \/ CasUpgradeDown(t)
  <2>1. \/ refAt[t] = "CasUpgradeUp" /\ count >= 0
        \/ refAt[t] = "CasUpgradeDown" /\ count <= 0
    <3>1. refAt[t] \in {"CasUpgradeUp", "CasUpgradeDown"}
      BY <1>5 DEF CasUpgradeUp, CasUpgradeDown
    <3>2. refAt[t] = "CasUpgradeUp" => count >= 0
      BY <1>1
    <3>3. refAt[t] = "CasUpgradeDown" => count <= 0
      BY <1>1
    <3> QED
      BY <3>1, <3>2, <3>3
  <2>2. CASE count = prev[t]
    <3>1. \/ refAt[t] = "CasUpgradeUp" /\ count > 0 /\ count' = count + 1
          \/ refAt[t] = "CasUpgradeDown" /\ count < -1 /\ count' = count - 1
      BY <1>1, <1>5, <2>2 DEF CasUpgradeUp, CasUpgradeDown, OneMore
    <3>2. Gain(t) /\ RefReturn(t)
      BY <1>5, <2>2 DEF CasUpgradeUp, CasUpgradeDown
    <3> HIDE DEF Facts
    <3> QED
      BY <1>4, <3>1, <3>2
  <2>3. CASE count # prev[t]
    <3>1. /\ UNCHANGED <<count, refs, owner>>
          /\ refAt' = [refAt EXCEPT ![t] = refAt'[t]] /\ prev' = [prev EXCEPT ![t] = prev'[t]]
      BY <1>5, <2>3 DEF CasUpgradeUp, CasUpgradeDown, SawUpgrade
    <3>2. CASE count = 0
      <4>1. refAt'[t] = "Idle" /\ prev'[t] = 0 /\ purpose' = [purpose EXCEPT ![t] = "None"]
        BY <1>5, <2>3, <3>2
        DEF CasUpgradeUp, CasUpgradeDown, SawUpgrade, UpgradeAt, SecondLoopAt
      <4>2. gil' = IF gil = t THEN NoThread ELSE gil
        BY <1>5, <2>3, <3>2
        DEF CasUpgradeUp, CasUpgradeDown, SawUpgrade, UpgradeAt, SecondLoopAt, FreeGil
      <4> QED
        BY <1>1, <1>2, <1>3, <2>1, <3>1, <3>2, <4>1, <4>2
    <3>3. CASE count # 0
      <4>1. UNCHANGED <<purpose, gil>> /\ prev'[t] = count
        BY <1>5, <2>3, <3>3
        DEF CasUpgradeUp, CasUpgradeDown, SawUpgrade, UpgradeAt, SecondLoopAt
      <4>2. \/ count > 0 /\ refAt'[t] = "CasUpgradeUp"
            \/ count = -1 /\ refAt'[t] = "LockUpgrade"
            \/ count < -1 /\ refAt'[t] = "CasUpgradeDown"
        BY <1>5, <2>1, <2>3, <3>3
        DEF CasUpgradeUp, CasUpgradeDown, SawUpgrade, UpgradeAt, SecondLoopAt
      <4> QED
        BY <1>1, <1>2, <1>3, <2>1, <3>1, <4>1, <4>2
    <3> QED
      BY <3>2, <3>3
  <2> QED
    BY <2>2, <2>3
<1>6. CASE LockUpgrade(t)
  <2>1. refAt[t] = "LockUpgrade" /\ gil \in {t, NoThread} /\ count <= 0 /\ prev[t] < 0
    BY <1>1, <1>6 DEF LockUpgrade, CanLock
  <2>2. CASE count = prev[t] /\ count = -1
    <3>1. /\ count' = count - 1 /\ refs' = [refs EXCEPT ![t] = @ + 1] /\ UNCHANGED owner
          /\ refAt' = [refAt EXCEPT ![t] = "Acquire"] /\ prev' = [prev EXCEPT ![t] = 0]
          /\ gil' = t /\ UNCHANGED purpose
      BY <1>2, <1>6, <2>2 DEF LockUpgrade, OneMore, BecomesShared, Gain
    <3> QED
      BY <1>1, <1>2, <1>3, <2>1, <2>2, <3>1
  <2>3. CASE count = prev[t] /\ count # -1
    <3>1. count < 0 /\ count' = count - 1 /\ Gain(t) /\ RefReturn(t)
      BY <1>6, <2>1, <2>3 DEF LockUpgrade, OneMore, BecomesShared
    <3> HIDE DEF Facts
    <3> QED
      BY <1>4, <2>1, <2>3, <3>1
  <2>4. CASE count # prev[t] /\ count = 0
    <3>1. UNCHANGED <<count, refs, owner>>
      BY <1>6, <2>4 DEF LockUpgrade
    <3>2. /\ refAt' = [refAt EXCEPT ![t] = "Idle"] /\ prev' = [prev EXCEPT ![t] = 0]
          /\ purpose' = [purpose EXCEPT ![t] = "None"]
          /\ gil' = IF gil = t THEN NoThread ELSE gil
      BY <1>6, <2>4 DEF LockUpgrade, IsDead, RefReturn, FreeGil
    <3> QED
      BY <1>1, <1>2, <1>3, <2>1, <2>4, <3>1, <3>2
  <2>5. CASE count # prev[t] /\ count # 0
    <3>1. /\ UNCHANGED <<count, refs, owner, purpose>> /\ gil' = t
          /\ refAt' = [refAt EXCEPT ![t] = "LockUpgrade"] /\ prev' = [prev EXCEPT ![t] = count]
      BY <1>6, <2>5 DEF LockUpgrade, IsDead
    <3> QED
      BY <1>1, <1>2, <1>3, <2>1, <2>5, <3>1
  <2> QED
    BY <2>2, <2>3, <2>4, <2>5
<1> QED
  BY <1>5, <1>6

\* A reference is dropped, and the object deleted with the last one.
LEMMA RemoveFacts ==
  ASSUME IInv, NEW t \in RefThreads, FetchSub(t) \/ CasRemove(t) \/ LockRemove(t)
  PROVE  Facts(t)
<1> USE Typed, Referenced, Owned
    DEF Facts, Effect, KeepsCount, CountsDown, Loses, Control, Local, Shape, Sign, Prev, Alone,
            OwnershipStep, Hands, Converting, RefGoto, Saw, CasPlaces, ListenerPlaces,
            AddPlaces, RemovePlaces, UpgradePlaces, ConversionPlaces, RefPlaces, Purposes,
            python, control
<1>1. Local(t)
  BY DEF IInv, ThreadsOK
<1>2. UNCHANGED <<acquired, pyRefs>>
  BY DEF FetchSub, CasRemove, LockRemove
<1>3. refAt[t] \in {"FetchSub", "CasRemove", "LockRemove"}
  BY DEF FetchSub, CasRemove, LockRemove
<1>4. \/ purpose[t] = "Drop" /\ refs[t] > 0
      \/ purpose[t] = "DropOwner" /\ owner /\ gil = t /\ count >= -1
  BY <1>1, <1>3
<1>5. ASSUME count # 0, count' = IF count > 0 THEN count - 1 ELSE count + 1, count # -2,
             deletes' = deletes + (IF count \in {1, -1} THEN 1 ELSE 0),
             Lose(t), RefReturn(t)
      PROVE  Facts(t)
  <2>1. /\ refAt' = [refAt EXCEPT ![t] = "Idle"] /\ prev' = [prev EXCEPT ![t] = 0]
        /\ purpose' = [purpose EXCEPT ![t] = "None"]
        /\ gil' = IF gil = t THEN NoThread ELSE gil
    BY <1>5 DEF RefReturn, FreeGil
  <2>2. Local(t)'
    BY <2>1
  <2>3. Control(t)
    BY <1>2, <2>1
  <2>4. CASE purpose[t] = "Drop"
    <3>1. refs[t] > 0 /\ refs' = [refs EXCEPT ![t] = @ - 1] /\ UNCHANGED owner
      BY <1>4, <1>5, <2>4 DEF Lose
    <3>2. Effect(t)
      BY <1>5, <3>1
    <3>3. ~Hands(t)
      BY <1>3, <2>4
    <3>4. owner => count > 1 \/ count < -1
      BY <3>1
    <3>5. owner' /\ count' >= 0 => owner /\ count >= 0
      BY <1>5, <3>1, <3>4
    <3>6. (count' > 0 => count > 0) /\ (count' < 0 => (count < -1 /\ count' < -1))
      BY <1>5
    <3>7. OwnershipStep(t)
      BY <1>2, <1>3, <3>3, <3>5, <3>6
    <3> QED
      BY <2>2, <2>3, <3>2, <3>7
  <2>5. CASE purpose[t] = "DropOwner"
    <3>1. owner /\ owner' = FALSE /\ UNCHANGED refs
      BY <1>4, <1>5, <2>5 DEF Lose
    <3>2. Effect(t)
      <4>1. Loses(t)
        BY <2>5, <3>1
      <4>2. \/ count > 0 /\ count' = count - 1
            \/ count < 0 /\ count' = count + 1
        BY <1>5
      <4> HIDE DEF Loses
      <4> QED
        BY <1>5, <4>1, <4>2
    <3>3. (count' > 0 => count > 0) /\ ~(count' < 0)
      BY <1>4, <1>5, <2>5
    <3>4. OwnershipStep(t)
      BY <1>2, <3>1, <3>3
    <3> QED
      BY <2>2, <2>3, <3>2, <3>4
  <2> QED
    BY <1>4, <2>4, <2>5
<1>6. CASE FetchSub(t)
  <2>1. count > 0 /\ count' = count - 1 /\ Lose(t) /\ RefReturn(t)
    BY <1>1, <1>6 DEF FetchSub
  <2>2. deletes' = deletes + (IF count \in {1, -1} THEN 1 ELSE 0)
    BY <1>6, <2>1 DEF FetchSub, DeleteIf
  <2> HIDE DEF Facts
  <2> QED
    BY <1>5, <2>1, <2>2
<1>7. CASE CasRemove(t)
  <2>1. /\ refAt[t] = "CasRemove" /\ count < 0 /\ prev[t] < 0 /\ prev[t] # -2
    BY <1>1, <1>7 DEF CasRemove, NeedsLock
  <2>2. CASE count = prev[t]
    <3>1. count' = count + 1 /\ Lose(t) /\ RefReturn(t)
      BY <1>7, <2>2 DEF CasRemove
    <3>2. deletes' = deletes + (IF count \in {1, -1} THEN 1 ELSE 0)
      BY <1>7, <2>1, <2>2 DEF CasRemove, DeleteIf, WasLast
    <3> HIDE DEF Facts
    <3> QED
      BY <1>5, <2>1, <2>2, <3>1, <3>2
  <2>3. CASE count # prev[t]
    <3>1. UNCHANGED <<count, deletes, refs, owner, gil, purpose>>
      BY <1>7, <2>3 DEF CasRemove
    <3>2. \/ /\ count = -2 /\ refAt' = [refAt EXCEPT ![t] = "LockRemove"]
             /\ prev' = [prev EXCEPT ![t] = 0]
          \/ /\ count # -2 /\ refAt' = [refAt EXCEPT ![t] = "CasRemove"]
             /\ prev' = [prev EXCEPT ![t] = count]
      BY <1>7, <2>3 DEF CasRemove, NeedsLock
    <3> QED
      BY <1>1, <1>2, <1>4, <2>1, <3>1, <3>2 DEF NeedsLock
  <2> QED
    BY <2>2, <2>3
<1>8. CASE LockRemove(t)
  <2>1. /\ refAt[t] = "LockRemove" /\ count < 0 /\ count' = count + 1 /\ Lose(t)
        /\ gil \in {t, NoThread} /\ purpose[t] = "Drop" /\ refs[t] > 0
    BY <1>1, <1>8 DEF LockRemove, CanLock
  <2>2. deletes' = deletes + (IF count \in {1, -1} THEN 1 ELSE 0)
    BY <1>8, <2>1 DEF LockRemove, DeleteIf, WasLast
  <2>3. CASE count = -2
    <3>1. /\ refAt' = [refAt EXCEPT ![t] = "Release"] /\ prev' = [prev EXCEPT ![t] = 0]
          /\ gil' = t /\ UNCHANGED purpose
      BY <1>8, <2>3 DEF LockRemove, NeedsLock
    <3>2. refs' = [refs EXCEPT ![t] = @ - 1] /\ UNCHANGED owner
      BY <2>1 DEF Lose
    <3>3. Effect(t)
      BY <2>1, <2>2, <2>3, <3>2
    <3>4. Local(t)'
      BY <1>1, <2>1, <2>3, <3>1
    <3>5. Control(t)
      BY <1>2, <2>1, <3>1
    <3>6. OwnershipStep(t)
      BY <1>2, <2>1, <2>3, <3>1
    <3> QED
      BY <3>3, <3>4, <3>5, <3>6
  <2>4. CASE count # -2
    <3>1. RefReturn(t)
      BY <1>8, <2>4 DEF LockRemove, NeedsLock
    <3> HIDE DEF Facts
    <3> QED
      BY <1>5, <2>1, <2>2, <2>4, <3>1
  <2> QED
    BY <2>3, <2>4
<1> QED
  BY <1>6, <1>7, <1>8

\* A conversion changes the sign of the count.
LEMMA SignFacts ==
  ASSUME IInv, NEW t \in RefThreads, Negate(t) \/ Unnegate(t)
  PROVE  Facts(t)
<1> USE Typed, Referenced, Owned
    DEF Facts, Effect, KeepsCount, ChangesSign, Control, Local, Shape, Sign, Prev, Alone,
            OwnershipStep, Hands, Converting, RefGoto, Saw, CasPlaces, ListenerPlaces,
            AddPlaces, RemovePlaces, UpgradePlaces, ConversionPlaces, RefPlaces, Purposes,
            python, control
<1>1. Local(t)
  BY DEF IInv, ThreadsOK
<1>2. CASE Negate(t)
  <2>1. /\ refAt[t] = "Negate" /\ count > 1 /\ owner /\ acquired
        /\ \A u \in RefThreads \ {t} : refAt[u] = "Idle"
    BY <1>1, <1>2 DEF Negate
  <2>2. count' = -count /\ UNCHANGED <<deletes, refs, owner, acquired, pyRefs>>
    BY <1>2, <2>1 DEF Negate
  <2>3. /\ refAt' = [refAt EXCEPT ![t] = "Idle"] /\ prev' = [prev EXCEPT ![t] = 0]
        /\ purpose' = [purpose EXCEPT ![t] = "None"]
        /\ gil' = IF gil = t THEN NoThread ELSE gil
    BY <1>2 DEF Negate, RefReturn, FreeGil
  <2>4. count' < -1
    BY <2>1, <2>2
  <2> QED
    BY <2>1, <2>2, <2>3, <2>4
<1>3. CASE Unnegate(t)
  <2>1. /\ refAt[t] = "Unnegate" /\ purpose[t] = "Unwrap" /\ count < -1 /\ owner /\ gil = t
        /\ \A u \in RefThreads \ {t} : refAt[u] = "Idle"
    BY <1>1, <1>3 DEF Unnegate
  <2>2. acquired
    BY <2>1 DEF IInv, Ownership
  <2>3. /\ count' = -count /\ UNCHANGED <<deletes, refs, owner, acquired, pyRefs, gil>>
        /\ purpose' = [purpose EXCEPT ![t] = "DropOwner"]
        /\ refAt' = [refAt EXCEPT ![t] = "LoadRemove"] /\ prev' = [prev EXCEPT ![t] = 0]
    BY <1>3, <2>1 DEF Unnegate
  <2>4. count' > 1
    BY <2>1, <2>3
  <2> QED
    BY <2>1, <2>2, <2>3, <2>4
<1> QED
  BY <1>2, <1>3

\* Every step, by one lemma for each group of actions.
LEMMA MoveFacts ==
  ASSUME IInv, Quiet, NEW t \in RefThreads, Move(t)
  PROVE  Facts(t)
  BY CallFacts, LoadFacts, AddFacts, UpgradeFacts, RemoveFacts, SignFacts DEF Move, CountStep

-----------------------------------------------------------------------------
(* The invariant. *)

\* The count goes on to be the number of references, and the object is deleted
\* with the last.
LEMMA AccountingStep ==
  ASSUME IInv, NEW t \in RefThreads, Effect(t)
  PROVE  /\ Accounting' /\ refs' \in Holdings /\ owner' \in BOOLEAN
         /\ count' \in Int /\ deletes' \in 0 .. 1
<1>1. /\ refs \in Holdings /\ Count(refs) \in Nat
  BY Typed, FinitePointers DEF Holdings
<1>2. /\ Count(refs) + (IF owner THEN 1 ELSE 0) = IF count < 0 THEN -count ELSE count
      /\ deletes = IF count = 0 THEN 1 ELSE 0
  BY DEF IInv, Accounting, References, Magnitude, Count, Pointers, PointersOf
<1>3. /\ count' \in Int /\ refs' \in Holdings /\ owner' \in BOOLEAN
      /\ Count(refs') + (IF owner' THEN 1 ELSE 0) = IF count' < 0 THEN -count' ELSE count'
      /\ deletes' = IF count' = 0 THEN 1 ELSE 0
  <2>1. CASE KeepsCount
    BY <1>1, <1>2, <2>1, Typed DEF KeepsCount
  <2>2. CASE CountsUp(t)
    <3>1. /\ refs' \in Holdings /\ owner' \in BOOLEAN
          /\ Count(refs') + (IF owner' THEN 1 ELSE 0) = Count(refs) + (IF owner THEN 1 ELSE 0) + 1
      <4>1. CASE refs[t] < MaxRefs /\ refs' = [refs EXCEPT ![t] = refs[t] + 1] /\ owner' = owner
        <5>1. refs' \in Holdings /\ Count(refs') = Count(refs) + 1
          BY <1>1, <4>1, CountGain
        <5> QED
          BY <1>1, <4>1, <5>1, Typed
      <4>2. CASE ~owner /\ owner' = TRUE /\ refs' = refs
        BY <1>1, <4>2
      <4> QED
        BY <2>2, <4>1, <4>2 DEF CountsUp, Gains
    <3>2. \/ count > 0 /\ count' = count + 1
          \/ count < 0 /\ count' = count - 1
      BY <2>2 DEF CountsUp
    <3>3. count' \in Int /\ count' # 0 /\ count # 0
      BY <3>2, Typed
    <3>4. deletes' = deletes
      BY <2>2 DEF CountsUp
    <3> QED
      BY <1>1, <1>2, <3>1, <3>2, <3>3, <3>4, Typed
  <2>3. CASE CountsDown(t)
    <3>1. /\ refs' \in Holdings /\ owner' \in BOOLEAN
          /\ Count(refs') + (IF owner' THEN 1 ELSE 0) = Count(refs) + (IF owner THEN 1 ELSE 0) - 1
      <4>1. CASE refs[t] > 0 /\ refs' = [refs EXCEPT ![t] = refs[t] - 1] /\ owner' = owner
        <5>1. refs' \in Holdings /\ Count(refs') = Count(refs) - 1
          BY <1>1, <4>1, CountLose
        <5> QED
          BY <1>1, <4>1, <5>1, Typed
      <4>2. CASE owner /\ owner' = FALSE /\ refs' = refs
        <5>1. (IF owner THEN 1 ELSE 0) = 1 /\ (IF owner' THEN 1 ELSE 0) = 0
          BY <4>2
        <5>2. refs' \in Holdings /\ Count(refs') = Count(refs) /\ owner' \in BOOLEAN
          BY <1>1, <4>2
        <5> QED
          BY <1>1, <5>1, <5>2
      <4> QED
        BY <2>3, <4>1, <4>2 DEF CountsDown, Loses
    <3>2. \/ count > 0 /\ count' = count - 1
          \/ count < 0 /\ count' = count + 1
      BY <2>3 DEF CountsDown
    <3>3. deletes' = deletes + IF count \in {1, -1} THEN 1 ELSE 0
      BY <2>3 DEF CountsDown
    <3> QED
      BY <1>1, <1>2, <3>1, <3>2, <3>3, Typed
  <2>4. CASE ChangesSign(t)
    BY <1>1, <1>2, <2>4, Typed DEF ChangesSign
  <2> QED
    BY <2>1, <2>2, <2>3, <2>4 DEF Effect
<1>4. Accounting'
  BY <1>3 DEF Accounting, References, Magnitude, Count, Pointers, PointersOf
<1> QED
  BY <1>3, <1>4

\* A reference that is left keeps the count from zero, two from one and -1.
LEMMA ReferencedAfter ==
  ASSUME IInv, NEW t \in RefThreads, Effect(t), NEW u \in RefThreads
  PROVE  /\ refs'[u] > 0 \/ owner' => count' # 0
         /\ refs'[u] > 0 /\ owner' => count' > 1 \/ count' < -1
<1>1. refs' \in Holdings /\ owner' \in BOOLEAN /\ count' \in Int
  BY AccountingStep
<1>2. refs'[u] > 0 => Count(refs') > 0
  BY <1>1, CountLose
<1>3. Count(refs') \in Nat
  BY FinitePointers
<1>4. Accounting'
  BY AccountingStep
<1>5. Count(refs') + (IF owner' THEN 1 ELSE 0) = IF count' < 0 THEN -count' ELSE count'
  BY <1>4 DEF Accounting, References, Magnitude, Count, Pointers, PointersOf
<1> QED
  BY <1>1, <1>2, <1>3, <1>5

\* While a conversion runs, nobody else does anything.
LEMMA ConversionIsAlone ==
  ASSUME IInv, Quiet, NEW t \in RefThreads, Move(t), NEW u \in RefThreads \ {t}
  PROVE  ~Converting(u)
<1> SUFFICES ASSUME Converting(u) PROVE FALSE
  OBVIOUS
<1>1. refAt[t] = "Idle" /\ refAt[u] # "Idle" /\ gil = u
  BY DEF IInv, ThreadsOK, Alone, Shape, Converting
<1>2. ~CountStep(t)
  BY <1>1 DEF CountStep, LoadAdd, FetchAdd, CasAdd, LockAdd, Acquire, LoadRemove, FetchSub,
              CasRemove, LockRemove, Release, LoadUpgrade, CasUpgradeUp, CasUpgradeDown,
              LockUpgrade, Negate, Unnegate
<1>3. RefCall(t)
  BY <1>2 DEF Move
<1>4. gil # NoThread
  BY <1>1, Typed
<1> QED
  BY <1>1, <1>3, <1>4 DEF RefCall, Copy, Drop, Upgrade, Wrap, Unwrap, PythonTakes, PythonDrops,
                          Start

\* What another thread u relies on in the middle of a call: the count stays on
\* its side; who holds the Python lock keeps the capsule and an unshared object.
LEMMA SideKept ==
  ASSUME IInv, NEW t \in RefThreads, Effect(t), NEW u \in RefThreads \ {t}, refAt[u] # "Idle"
  PROVE  /\ refs'[u] = refs[u]
         /\ count >= 0 => count' >= 0
         /\ count <= 0 => count' <= 0
         /\ gil = u /\ owner => owner'
         /\ gil = u /\ count = -1 => count' = -1
<1>1. purpose[t] = "DropOwner" => gil = t
  BY DEF IInv, ThreadsOK, Shape
<1>2. ~ChangesSign(t)
  BY DEF ChangesSign
<1>3. refs'[u] = refs[u]
  BY <1>2, Typed DEF Effect, KeepsCount, CountsUp, CountsDown, Gains, Loses
<1>4. gil = u /\ owner => owner'
  BY <1>1, <1>2, Typed DEF Effect, KeepsCount, CountsUp, CountsDown, Gains, Loses
<1>5. \/ count' = count
      \/ count > 0 /\ count' = count + 1
      \/ count > 0 /\ count' = count - 1
      \/ count < 0 /\ count' = count - 1
      \/ count < 0 /\ count' = count + 1
  BY <1>2 DEF Effect, KeepsCount, CountsUp, CountsDown
<1>6. (count >= 0 => count' >= 0) /\ (count <= 0 => count' <= 0)
  BY <1>5, Typed
<1>7. ASSUME gil = u, count = -1 PROVE count' = -1
  <2>1. gil \notin {t, NoThread}
    BY <1>7, Typed
  <2>2. ~CountsUp(t)
    BY <1>7, <2>1 DEF CountsUp
  <2>3. refs[t] > 0 => FALSE
    BY <1>7, Referenced, Typed DEF IInv, Ownership
  <2>4. ~CountsDown(t)
    BY <1>1, <1>7, <2>3 DEF CountsDown, Loses
  <2> QED
    BY <1>2, <1>7, <2>2, <2>4 DEF Effect, KeepsCount
<1> QED
  BY <1>3, <1>4, <1>6, <1>7

\* A step does not disturb a thread between its load and its change of the count.
LEMMA OthersStep ==
  ASSUME IInv, NEW t \in RefThreads, Effect(t), Control(t),
         NEW u \in RefThreads \ {t}, ~Converting(u)
  PROVE  Local(u)'
<1>1. /\ refAt'[u] = refAt[u] /\ purpose'[u] = purpose[u] /\ prev'[u] = prev[u]
      /\ gil = u => gil' = u
  BY DEF Control
<1>2. Shape(u) /\ Sign(u) /\ Prev(u) /\ Alone(u)
  BY DEF IInv, ThreadsOK
<1>3. purpose[u] \notin {"Wrap", "Unwrap"}
  BY <1>2 DEF Converting, Shape
<1>4. CASE refAt[u] = "Idle"
  <2>1. purpose[u] = "None"
    BY <1>2, <1>4 DEF Shape, AddPlaces, RemovePlaces, UpgradePlaces
  <2> QED
    BY <1>1, <1>4, <2>1 DEF Local, Shape, Sign, Prev, Alone, Converting, ListenerPlaces
<1>5. CASE refAt[u] # "Idle"
  <2>1. /\ refs'[u] = refs[u]
        /\ count >= 0 => count' >= 0
        /\ count <= 0 => count' <= 0
        /\ gil = u /\ owner => owner'
        /\ gil = u /\ count = -1 => count' = -1
    BY <1>5, SideKept
  <2>2. Shape(u)'
    BY <1>1, <1>2, <1>3, <2>1 DEF Shape
  <2>3. Prev(u)'
    BY <1>1, <1>2 DEF Prev
  <2>4. Alone(u)'
    BY <1>1, <1>2, <1>3 DEF Alone, Converting
  <2>5. Sign(u)'
    <3>1. count \in Int /\ count' \in Int
      BY AccountingStep, Typed
    <3>2. refAt[u] \in {"FetchAdd", "FetchSub", "CasAdd", "LockAdd", "CasRemove", "LockRemove"}
            => count' # 0
      <4>1. refAt[u] \in {"FetchAdd", "FetchSub", "CasAdd", "LockAdd", "CasRemove", "LockRemove"}
              => refs'[u] > 0 \/ owner'
        BY <1>2, <1>3, <2>1 DEF Shape, AddPlaces, RemovePlaces, UpgradePlaces
      <4> QED
        BY <4>1, ReferencedAfter
    <3>3. refAt[u] \in {"FetchAdd", "FetchSub"} => count' > 0
      BY <1>2, <2>1, <3>1, <3>2 DEF Sign
    <3>4. refAt[u] \in {"CasAdd", "LockAdd", "CasRemove", "LockRemove"} => count' < 0
      BY <1>2, <2>1, <3>1, <3>2 DEF Sign
    <3>5. refAt[u] \notin {"Negate", "Unnegate"}
      BY <1>2, <1>3 DEF Shape, AddPlaces, RemovePlaces, UpgradePlaces
    <3>6. refAt[u] = "Acquire" => count' < -1
      <4> SUFFICES ASSUME refAt[u] = "Acquire" PROVE count' < -1
        OBVIOUS
      <4>1. gil = u /\ count < -1
        BY <1>2 DEF Alone, ListenerPlaces, Sign
      <4>2. refs'[u] > 0
        BY <1>2, <1>3, <2>1 DEF Shape, RemovePlaces, UpgradePlaces
      <4>3. owner'
        BY <2>1, <3>1, <4>1, Owned
      <4>4. count' <= 0
        BY <2>1, <3>1, <4>1
      <4> QED
        BY <3>1, <4>2, <4>3, <4>4, ReferencedAfter
    <3>7. refAt[u] = "Release" => count' = -1
      BY <1>2, <2>1 DEF Alone, ListenerPlaces, Sign
    <3>8. purpose[u] = "DropOwner" => count' >= -1
      BY <1>2, <2>1, <3>1 DEF Shape, Sign
    <3>9. /\ refAt[u] = "CasUpgradeUp" => count' >= 0
          /\ refAt[u] \in {"CasUpgradeDown", "LockUpgrade"} => count' <= 0
      BY <1>2, <2>1, <3>1 DEF Sign
    <3> QED
      BY <1>1, <1>3, <3>3, <3>4, <3>5, <3>6, <3>7, <3>8, <3>9 DEF Sign
  <2> QED
    BY <2>2, <2>3, <2>4, <2>5 DEF Local
<1> QED
  BY <1>4, <1>5

\* Nor does it part the owner from what it owns.
LEMMA OwnershipInvariant ==
  ASSUME IInv, NEW t \in RefThreads, Facts(t)
  PROVE  Ownership'
<1>1. Effect(t) /\ Control(t) /\ OwnershipStep(t)
  BY DEF Facts
<1>2. Ownership /\ Local(t)
  BY DEF IInv, ThreadsOK, Local
<1>3. count' < 0 => owner'
  <2>1. KeepsCount => (count' < 0 => owner')
    BY <1>2 DEF KeepsCount, Ownership
  <2>2. CountsUp(t) => (count' < 0 => owner')
    <3>1. CountsUp(t) => (count' < 0 => count < 0)
      BY Typed DEF CountsUp
    <3> QED
      BY <3>1, Owned DEF CountsUp, Gains
  <2>3. CountsDown(t) => (count' < 0 => owner')
    <3>1. CountsDown(t) => (count' < 0 => count < -1)
      BY Typed DEF CountsDown
    <3>2. purpose[t] = "DropOwner" => ~(count < -1)
      BY <1>2, Typed DEF Local, Sign
    <3>3. count < -1 => owner
      BY Owned, Typed
    <3> QED
      BY <3>1, <3>2, <3>3 DEF CountsDown, Loses
  <2>4. ChangesSign(t) => owner'
    BY DEF ChangesSign
  <2> QED
    BY <1>1, <2>1, <2>2, <2>3, <2>4 DEF Effect
<1>4. ASSUME count' >= 0, owner'
      PROVE  \E u \in RefThreads : refAt'[u] = "Negate" \/ purpose'[u] = "DropOwner"
  <2>1. CASE Hands(t)'
    BY <2>1 DEF Hands
  <2>2. CASE ~Hands(t) /\ owner /\ count >= 0
    <3>1. PICK u \in RefThreads : refAt[u] = "Negate" \/ purpose[u] = "DropOwner"
      BY <1>2, <2>2 DEF Ownership
    <3>2. u # t
      BY <2>2, <3>1 DEF Hands
    <3> QED
      BY <1>1, <3>1, <3>2 DEF Control
  <2> QED
    BY <1>1, <1>4, <2>1, <2>2 DEF OwnershipStep
<1>5. count' > 0 /\ pyRefs' # {} => acquired'
  BY <1>1 DEF OwnershipStep
<1>6. ASSUME count' < 0
      PROVE  \/ acquired' <=> count' < -1
             \/ \E u \in RefThreads : refAt'[u] \in ListenerPlaces
  <2>1. CASE acquired' <=> count' < -1
    BY <2>1
  <2>2. CASE refAt'[t] \in ListenerPlaces
    BY <2>2
  <2>3. CASE count < 0 /\ refAt[t] \notin ListenerPlaces /\ ~(acquired <=> count < -1)
    <3>1. PICK u \in RefThreads : refAt[u] \in ListenerPlaces
      BY <1>2, <2>3 DEF Ownership
    <3>2. u # t
      BY <2>3, <3>1
    <3> QED
      BY <1>1, <3>1, <3>2 DEF Control
  <2> QED
    BY <1>1, <1>6, <2>1, <2>2, <2>3 DEF OwnershipStep
<1> QED
  BY <1>3, <1>4, <1>5, <1>6 DEF Ownership

\* A fresh object satisfies the invariant.
LEMMA InitInvariant == RefInit => IInv
<1> SUFFICES ASSUME RefInit PROVE IInv
  OBVIOUS
<1>1. /\ Cardinality(RefThreads) \in Nat /\ Cardinality(RefThreads) # 0
      /\ MaxRefs \in Nat \ {0} /\ NoThread \notin RefThreads
  BY FS_CardinalityType, FS_EmptySet, RefThreadsAssumption, MaxRefsAssumption
<1>2. RefTypeOK
  <2>1. count \in Int /\ deletes \in 0 .. 1 /\ refs \in [RefThreads -> 0 .. MaxRefs]
    BY <1>1 DEF RefInit
  <2>2. owner \in BOOLEAN /\ acquired \in BOOLEAN /\ pyRefs \subseteq RefThreads
    BY DEF RefInit
  <2>3. /\ gil \in RefThreads \cup {NoThread} /\ refAt \in [RefThreads -> RefPlaces]
        /\ purpose \in [RefThreads -> Purposes] /\ prev \in [RefThreads -> Int]
    BY DEF RefInit, RefPlaces, Purposes
  <2> QED
    BY <2>1, <2>2, <2>3 DEF RefTypeOK
<1>3. ThreadsOK
  BY <1>1 DEF RefInit, ThreadsOK, Shape, Sign, Prev, Alone, Converting, ListenerPlaces
<1>4. Accounting
  <2>1. Cardinality(Pointers) = Count(refs)
    BY DEF Pointers, Count, PointersOf
  <2>2. Count(refs) = count /\ count > 0
    BY <1>1, CountOnes DEF RefInit
  <2> QED
    BY <1>1, <2>1, <2>2 DEF RefInit, Accounting, References, Magnitude
<1>5. Ownership
  BY <1>1 DEF RefInit, Ownership
<1> QED
  BY <1>2, <1>3, <1>4, <1>5 DEF IInv

\* With Quiet every step preserves the invariant.
LEMMA NextInvariant == Quiet /\ IInv /\ [RefNext]_refVars => IInv'
<1> SUFFICES ASSUME Quiet, IInv, [RefNext]_refVars PROVE IInv'
  OBVIOUS
<1>1. ASSUME NEW t \in RefThreads, Move(t) PROVE IInv'
  <2>1. Facts(t)
    BY <1>1, MoveFacts
  <2>2. Effect(t) /\ Control(t) /\ Local(t)'
    BY <2>1 DEF Facts
  <2>3. /\ Accounting' /\ refs' \in Holdings /\ owner' \in BOOLEAN
        /\ count' \in Int /\ deletes' \in 0 .. 1
    BY <2>2, AccountingStep
  <2>4. RefTypeOK'
    BY <2>2, <2>3 DEF RefTypeOK, Control, Holdings
  <2>5. ASSUME NEW u \in RefThreads \ {t} PROVE Local(u)'
    BY <1>1, <2>2, <2>5, ConversionIsAlone, OthersStep
  <2>6. ThreadsOK'
    BY <2>2, <2>5 DEF ThreadsOK, Local
  <2>7. Ownership'
    BY <2>1, OwnershipInvariant
  <2> QED
    BY <2>3, <2>4, <2>6, <2>7 DEF IInv
<1>2. CASE UNCHANGED refVars
  BY <1>2 DEF refVars, python, control, IInv, RefTypeOK, ThreadsOK, Shape, Sign, Prev, Alone,
              Converting, Accounting, References, Pointers, Magnitude, Ownership
<1> QED
  BY <1>1, <1>2 DEF RefNext, Move

-----------------------------------------------------------------------------
(* What follows for RefCount. *)

\* The invariant holds in every state that the threads reach.
THEOREM InvariantHolds == ASSUME Quiet PROVE RefSpec => []IInv
  BY InitInvariant, NextInvariant, PTL DEF RefSpec

\* The absolute value of the count is the number of TfRefPtrs and of the
\* capsule, whatever the threads copy, drop, upgrade and convert.
THEOREM CountAccounts == ASSUME Quiet PROVE RefSpec => []CountsReferences
<1>1. IInv => CountsReferences
  BY DEF IInv, Accounting, Magnitude, CountsReferences
<1> QED
  BY <1>1, InvariantHolds, PTL

\* The object is deleted with its last reference, once, and nobody is then in
\* the middle of a call on its count.
THEOREM LifeEndsWithReferences == ASSUME Quiet PROVE RefSpec => []LivesWhileReferenced
<1>1. IInv => LivesWhileReferenced
  <2> SUFFICES ASSUME IInv PROVE LivesWhileReferenced
    OBVIOUS
  <2>1. DeletedWithLastReference
    BY Typed DEF IInv, Accounting, Magnitude, DeletedWithLastReference
  <2>2. ASSUME NEW t \in RefThreads, refAt[t] \notin {"Idle"} \cup UpgradePlaces PROVE count # 0
    <3>1. Shape(t) /\ Sign(t)
      BY DEF IInv, ThreadsOK
    <3>2. refs[t] > 0 \/ owner \/ refAt[t] = "Release"
      BY <2>2, <3>1 DEF Shape
    <3> QED
      BY <3>1, <3>2, Referenced DEF Sign
  <2>3. UsedOnlyAlive
    BY <2>2 DEF IInv, Accounting, UsedOnlyAlive
  <2> QED
    BY <2>1, <2>3 DEF LivesWhileReferenced
<1> QED
  BY <1>1, InvariantHolds, PTL

\* Python and C++ agree on who holds whom whenever the Python lock is free, and
\* an object whose ownership returns to C++ is shared.
THEOREM OwnersAlwaysAgree == ASSUME Quiet PROVE RefSpec => []OwnersAgree
<1>1. IInv => OwnersAgree
  <2> SUFFICES ASSUME IInv PROVE OwnersAgree
    OBVIOUS
  <2>1. PythonHeldWhileShared
    BY Owned DEF PythonHeldWhileShared
  <2>2. ASSUME NEW t \in RefThreads, refAt[t] = "Unnegate" PROVE count < -1 /\ acquired
    <3>1. Shape(t) /\ Sign(t) /\ Alone(t)
      BY DEF IInv, ThreadsOK
    <3>2. count < -1 /\ purpose[t] = "Unwrap"
      BY <2>2, <3>1 DEF Sign, Shape, AddPlaces, RemovePlaces, UpgradePlaces
    <3>3. \A u \in RefThreads : refAt[u] \notin ListenerPlaces
      BY <2>2, <3>1, <3>2 DEF Alone, Converting, ListenerPlaces
    <3> QED
      BY <3>2, <3>3, Typed DEF IInv, Ownership
  <2> QED
    BY <2>1, <2>2 DEF OwnersAgree, UnwrappedIsShared
<1> QED
  BY <1>1, InvariantHolds, PTL

-----------------------------------------------------------------------------
(* Weak pointers: what the invariant says of the remnants. *)

\* What a thread that makes a weak pointer, or has one, may rely on.
MakerOK(t) ==
  /\ making[t] # "Nothing" => refs[t] > 0 /\ refAt[t] = "Idle" /\ weak[t] = Null
  /\ making[t] = "Publish" => mine[t] \in Remnants /\ mine[t] # remnantPtr
  /\ making[t] = "AddRef" => remnantPtr # Null /\ mine[t] = remnantPtr
  /\ weak[t] \in {Null, remnantPtr}

\* Candidates are told apart.
ApartMakers ==
  \A t, u \in RefThreads :
    t # u /\ making[t] = "Publish" /\ making[u] = "Publish" => mine[t] # mine[u]

MakersOK == ApartMakers /\ \A t \in RefThreads : MakerOK(t)

\* A remnant in memory has as many holders as its count says.
RemnantOK(r) ==
  /\ memory[r] = "Allocated" <=> Holders(r) > 0
  /\ memory[r] = "Allocated" => remnantCount[r] = Holders(r)

\* The destructor runs once there is no reference any more, and tells the remnant.
DestructorOK ==
  /\ destructor # "NotRun" => deletes = 1
  /\ destructor = "Forgot" => remnantPtr # Null
  /\ \A r \in Remnants : alive[r] <=> ~(r = remnantPtr /\ destructor # "NotRun")

\* The notifier hears of a death when nothing can use the identity any more.
NotifierOK ==
  /\ told \subseteq notify /\ notify \subseteq {remnantPtr} \ {Null}
  /\ \A r \in notify :
       r \in told <=> (destructor = "Done" /\ \A t \in RefThreads : weak[t] = Null)

WeakTyped ==
  /\ remnantPtr \in Remnants \cup {Null}
  /\ memory \in [Remnants -> {"Unused", "Allocated", "Freed"}]
  /\ remnantCount \in [Remnants -> Nat]
  /\ alive \in [Remnants -> BOOLEAN]
  /\ weak \in [RefThreads -> Remnants \cup {Null}]
  /\ making \in [RefThreads -> {"Nothing", "Publish", "AddRef"}]
  /\ mine \in [RefThreads -> Remnants \cup {Null}]
  /\ destructor \in {"NotRun", "Forgot", "Done"}

WeakInv ==
  /\ WeakTyped /\ MakersOK /\ DestructorOK /\ NotifierOK
  /\ \A r \in Remnants : RemnantOK(r)

-----------------------------------------------------------------------------
(* The object's count. *)

\* Every step of WeakPtr is a step of RefCount, or none.
LEMMA WeakRefines == WeakSpec => RefSpec
<1>1. WeakInit => RefInit
  BY DEF WeakInit
<1>2. [WeakNext]_<<refVars, weakVars>> => [RefNext]_refVars
  BY DEF WeakNext, RefStep, WeakStep, RefNext, LoadRemnant, Publish, AddRemnantRef,
         EnableNotification, DropWeak, CopyWeak, ForgetRemnant, DropImplied
<1> QED
  BY <1>1, <1>2, PTL DEF WeakSpec, RefSpec

\* A thread with a TfRefPtr keeps the object alive.
LEMMA RefsKeepAlive ==
  ASSUME IInv, NEW t \in RefThreads, refs[t] > 0
  PROVE  deletes = 0
  BY Referenced, Typed DEF IInv, Accounting, Magnitude

-----------------------------------------------------------------------------
(* Counting holders. *)

PointsTo(r) == {t \in RefThreads : weak[t] = r}
Publishers(r) == {t \in RefThreads : making[t] = "Publish" /\ mine[t] = r}
ObjectHolds(r) == remnantPtr = r /\ destructor # "Done"

\* A remnant has holders if and only if something holds it.
LEMMA HoldersType ==
  ASSUME NEW r
  PROVE  /\ Holders(r) \in Nat
         /\ Holders(r) > 0 <=> \/ ObjectHolds(r)
                               \/ \E t \in RefThreads : weak[t] = r
                               \/ \E t \in RefThreads : making[t] = "Publish" /\ mine[t] = r
<1>1. IsFiniteSet(PointsTo(r)) /\ IsFiniteSet(Publishers(r))
  BY FS_Subset, RefThreadsAssumption DEF PointsTo, Publishers
<1>2. /\ Cardinality(PointsTo(r)) \in Nat /\ Cardinality(Publishers(r)) \in Nat
      /\ Cardinality(PointsTo(r)) = 0 <=> PointsTo(r) = {}
      /\ Cardinality(Publishers(r)) = 0 <=> Publishers(r) = {}
  BY <1>1, FS_CardinalityType, FS_EmptySet
<1>3. Holders(r) = Cardinality(PointsTo(r)) + Cardinality(Publishers(r)) + Ones(ObjectHolds(r))
  BY DEF Holders, PointsTo, Publishers, ObjectHolds, Ones
<1>4. Holders(r) \in Nat /\ (Holders(r) > 0 <=> ObjectHolds(r) \/ PointsTo(r) # {} \/ Publishers(r) # {})
  BY <1>2, <1>3 DEF Ones
<1> QED
  BY <1>4 DEF PointsTo, Publishers

\* A step of t changes the holders as t and the object become holders or stop.
LEMMA HoldersStep ==
  ASSUME NEW r, NEW t \in RefThreads,
         \A u \in RefThreads \ {t} :
           weak'[u] = weak[u] /\ making'[u] = making[u] /\ mine'[u] = mine[u]
  PROVE  Holders(r)' = Holders(r)
           + Ones(weak'[t] = r) - Ones(weak[t] = r)
           + Ones(making'[t] = "Publish" /\ mine'[t] = r)
           - Ones(making[t] = "Publish" /\ mine[t] = r)
           + Ones(ObjectHolds(r)') - Ones(ObjectHolds(r))
<1> DEFINE S == PointsTo(r)
           P == Publishers(r)
<1>1. IsFiniteSet(S) /\ IsFiniteSet(P)
  BY FS_Subset, RefThreadsAssumption DEF PointsTo, Publishers
<1>2. /\ S \ {t} = S' \ {t} /\ (t \in S <=> weak[t] = r) /\ (t \in S' <=> weak'[t] = r)
  BY DEF PointsTo
<1>3. /\ P \ {t} = P' \ {t}
      /\ t \in P <=> making[t] = "Publish" /\ mine[t] = r
      /\ t \in P' <=> making'[t] = "Publish" /\ mine'[t] = r
  BY DEF Publishers
<1>4. /\ Holders(r) = Cardinality(S) + Cardinality(P) + Ones(ObjectHolds(r))
      /\ Holders(r)' = Cardinality(S') + Cardinality(P') + Ones(ObjectHolds(r)')
  BY DEF Holders, PointsTo, Publishers, ObjectHolds, Ones
<1> HIDE DEF S, P
<1>5. /\ Cardinality(S) \in Nat
      /\ Cardinality(S') = Cardinality(S) + Ones(t \in S') - Ones(t \in S)
  BY <1>1, <1>2, CardinalityStep
<1>6. /\ Cardinality(P) \in Nat
      /\ Cardinality(P') = Cardinality(P) + Ones(t \in P') - Ones(t \in P)
  BY <1>1, <1>3, CardinalityStep
<1> QED
  BY <1>2, <1>3, <1>4, <1>5, <1>6 DEF Ones

\* The same after a step.
LEMMA HoldersTypeNext ==
  ASSUME NEW r
  PROVE  /\ Holders(r)' \in Nat
         /\ Holders(r)' > 0 <=> \/ ObjectHolds(r)'
                                \/ \E t \in RefThreads : weak'[t] = r
                                \/ \E t \in RefThreads : making'[t] = "Publish" /\ mine'[t] = r
<1> DEFINE S == {t \in RefThreads : weak'[t] = r}
           P == {t \in RefThreads : making'[t] = "Publish" /\ mine'[t] = r}
<1>1. IsFiniteSet(S) /\ IsFiniteSet(P)
  BY FS_Subset, RefThreadsAssumption
<1>2. Holders(r)' = Cardinality(S) + Cardinality(P) + Ones(ObjectHolds(r)')
  BY DEF Holders, ObjectHolds, Ones
<1> HIDE DEF S, P
<1>3. /\ Cardinality(S) \in Nat /\ Cardinality(P) \in Nat
      /\ Cardinality(S) = 0 <=> S = {}
      /\ Cardinality(P) = 0 <=> P = {}
  BY <1>1, FS_CardinalityType, FS_EmptySet
<1>4. Holders(r)' \in Nat /\ (Holders(r)' > 0 <=> ObjectHolds(r)' \/ S # {} \/ P # {})
  BY <1>2, <1>3 DEF Ones
<1> QED
  BY <1>4 DEF S, P

\* A remnant keeps what the step does not touch.
LEMMA RemnantKept ==
  ASSUME NEW r, RemnantOK(r), Holders(r)' = Holders(r),
         memory'[r] = memory[r], remnantCount'[r] = remnantCount[r]
  PROVE  RemnantOK(r)'
  BY DEF RemnantOK

-----------------------------------------------------------------------------
(* The steps. *)

\* While a thread has a TfRefPtr, the destructor has not begun.
LEMMA NotDestroyed ==
  ASSUME IInv, DestructorOK, NEW t \in RefThreads, refs[t] > 0
  PROVE  deletes = 0 /\ destructor = "NotRun"
  BY RefsKeepAlive DEF DestructorOK

\* A thread other than the one that moves keeps its TfRefPtrs, and a deleted
\* object stays deleted.
LEMMA RefStepHolds ==
  ASSUME Quiet, IInv, IInv', WeakInv, NEW t \in RefThreads, RefStep(t)
  PROVE  WeakInv'
<1>1. Facts(t)
  BY MoveFacts DEF RefStep, Move
<1>2. making[t] = "Nothing" /\ UNCHANGED weakVars
  BY DEF RefStep
<1>3. \A u \in RefThreads \ {t} : refs'[u] = refs[u] /\ refAt'[u] = refAt[u]
  BY <1>1, Typed DEF Facts, Effect, Control, KeepsCount, CountsUp, CountsDown, ChangesSign,
                     Gains, Loses
<1>4. deletes = 1 => deletes' = 1
  <2>1. deletes \in 0 .. 1 /\ deletes' \in 0 .. 1
    BY DEF IInv, RefTypeOK
  <2>2. deletes' = deletes \/ deletes' = deletes + 1 \/ deletes' = deletes + 0
    BY <1>1 DEF Facts, Effect, KeepsCount, CountsUp, CountsDown, ChangesSign
  <2> QED
    BY <2>1, <2>2
<1>5. WeakTyped'
  BY <1>2 DEF WeakInv, WeakTyped, weakVars, remnants
<1>6. MakersOK'
  BY <1>2, <1>3 DEF WeakInv, MakersOK, ApartMakers, MakerOK, weakVars, remnants
<1>7. DestructorOK'
  BY <1>2, <1>4 DEF WeakInv, DestructorOK, weakVars, remnants
<1>8. NotifierOK'
  BY <1>2 DEF WeakInv, NotifierOK, weakVars, remnants
<1>9. \A r \in Remnants : RemnantOK(r)'
  BY <1>2 DEF WeakInv, RemnantOK, Holders, weakVars, remnants
<1> QED
  BY <1>5, <1>6, <1>7, <1>8, <1>9 DEF WeakInv

\* Weak pointers are made in three accesses: a load of the remnant,
LEMMA LoadRemnantHolds ==
  ASSUME IInv, WeakInv, NEW t \in RefThreads, LoadRemnant(t)
  PROVE  WeakInv'
<1> USE DEF WeakInv
<1>1. /\ making[t] = "Nothing" /\ refAt[t] = "Idle" /\ weak[t] = Null /\ refs[t] > 0
      /\ UNCHANGED <<refVars, remnantPtr, alive, notify, told, weak, destructor>>
  BY DEF LoadRemnant, Idle
<1>2. destructor = "NotRun"
  BY <1>1, NotDestroyed
<1>3. DestructorOK' /\ NotifierOK'
  BY <1>1 DEF refVars, DestructorOK, NotifierOK
<1>4. UNCHANGED <<refs, refAt>>
  BY <1>1 DEF refVars, control
<1>5. ASSUME remnantPtr # Null, Make(t, "AddRef", remnantPtr), UNCHANGED <<memory, remnantCount>>
      PROVE  WeakInv'
  <2>1. /\ WeakTyped'
        /\ \A u \in RefThreads \ {t} : making'[u] = making[u] /\ mine'[u] = mine[u]
        /\ making'[t] = "AddRef" /\ mine'[t] = remnantPtr
    BY <1>1, <1>5 DEF WeakTyped, Make
  <2>2. MakersOK'
    BY <1>1, <1>4, <1>5, <2>1 DEF MakersOK, ApartMakers, MakerOK
  <2>3. ASSUME NEW r \in Remnants PROVE RemnantOK(r)'
    <3>1. Holders(r)' = Holders(r)
      BY <1>1, <2>1, HoldersStep, HoldersType DEF Ones, ObjectHolds
    <3> QED
      BY <1>5, <3>1, RemnantKept
  <2> QED
    BY <1>3, <2>1, <2>2, <2>3
<1>6. ASSUME remnantPtr = Null, NEW r \in Remnants, memory[r] = "Unused",
             memory' = [memory EXCEPT ![r] = "Allocated"],
             remnantCount' = [remnantCount EXCEPT ![r] = InitialCount], Make(t, "Publish", r)
      PROVE  WeakInv'
  <2>1. /\ WeakTyped'
        /\ \A u \in RefThreads \ {t} : making'[u] = making[u] /\ mine'[u] = mine[u]
        /\ making'[t] = "Publish" /\ mine'[t] = r
    BY <1>1, <1>6 DEF WeakTyped, Make, InitialCount
  <2>2. /\ Holders(r) = 0
        /\ ~ObjectHolds(r)
        /\ \A u \in RefThreads : weak[u] # r /\ ~(making[u] = "Publish" /\ mine[u] = r)
    BY <1>6, HoldersType DEF RemnantOK
  <2>3. MakersOK'
    BY <1>1, <1>4, <1>6, <2>1, <2>2, NullAssumption DEF MakersOK, ApartMakers, MakerOK
  <2>4. RemnantOK(r)'
    <3>1. Holders(r)' = 1
      BY <1>1, <2>1, <2>2, HoldersStep DEF Ones, ObjectHolds
    <3> QED
      BY <1>6, <3>1 DEF RemnantOK, InitialCount, WeakTyped
  <2>5. ASSUME NEW s \in Remnants \ {r} PROVE RemnantOK(s)'
    <3>1. Holders(s)' = Holders(s)
      BY <1>1, <2>1, HoldersStep, HoldersType DEF Ones, ObjectHolds
    <3> QED
      BY <1>6, <3>1, RemnantKept DEF WeakTyped
  <2> QED
    BY <1>3, <2>1, <2>3, <2>4, <2>5
<1> QED
  BY <1>5, <1>6 DEF LoadRemnant

\* a compare-and-exchange of a new one, which may lose,
LEMMA PublishHolds ==
  ASSUME IInv, WeakInv, NEW t \in RefThreads, Publish(t)
  PROVE  WeakInv'
<1> USE DEF WeakInv
<1> DEFINE m == mine[t]
<1>1. /\ making[t] = "Publish" /\ refs[t] > 0 /\ refAt[t] = "Idle" /\ weak[t] = Null
      /\ m \in Remnants /\ m # remnantPtr
      /\ UNCHANGED <<refs, refAt, deletes, remnantCount, alive, notify, told, weak, destructor>>
  BY DEF Publish, MakersOK, MakerOK, refVars, control
<1>2. destructor = "NotRun"
  BY <1>1, NotDestroyed
<1>3. ASSUME remnantPtr = Null, remnantPtr' = m, Make(t, "AddRef", m), UNCHANGED memory
      PROVE  WeakInv'
  <2>1. /\ WeakTyped'
        /\ \A u \in RefThreads \ {t} : making'[u] = making[u] /\ mine'[u] = mine[u]
        /\ making'[t] = "AddRef" /\ mine'[t] = m
    BY <1>1, <1>3 DEF WeakTyped, Make
  <2>2. MakersOK'
    <3>1. \A u \in RefThreads : weak[u] = Null /\ making[u] # "AddRef"
      BY <1>3 DEF MakersOK, MakerOK
    <3>2. \A u \in RefThreads \ {t} : making[u] = "Publish" => mine[u] # m
      BY <1>1 DEF MakersOK, ApartMakers
    <3> QED
      BY <1>1, <1>3, <2>1, <3>1, <3>2, NullAssumption DEF MakersOK, ApartMakers, MakerOK
  <2>3. DestructorOK' /\ NotifierOK'
    BY <1>1, <1>2, <1>3 DEF DestructorOK, NotifierOK
  <2>4. ASSUME NEW r \in Remnants PROVE RemnantOK(r)'
    <3>1. Holders(r)' = Holders(r)
      BY <1>1, <1>2, <1>3, <2>1, HoldersStep, HoldersType, NullAssumption DEF Ones, ObjectHolds
    <3> QED
      BY <1>1, <1>3, <3>1, RemnantKept
  <2> QED
    BY <2>1, <2>2, <2>3, <2>4
<1>4. ASSUME remnantPtr # Null, memory' = [memory EXCEPT ![m] = "Freed"],
             Make(t, "AddRef", remnantPtr), UNCHANGED remnantPtr
      PROVE  WeakInv'
  <2>1. /\ WeakTyped'
        /\ \A u \in RefThreads \ {t} : making'[u] = making[u] /\ mine'[u] = mine[u]
        /\ making'[t] = "AddRef" /\ mine'[t] = remnantPtr
    BY <1>1, <1>4 DEF WeakTyped, Make
  <2>2. MakersOK'
    BY <1>1, <1>4, <2>1 DEF MakersOK, ApartMakers, MakerOK
  <2>3. DestructorOK' /\ NotifierOK'
    BY <1>1, <1>4 DEF DestructorOK, NotifierOK
  <2>4. ASSUME NEW r \in Remnants, r = m PROVE RemnantOK(r)'
    <3>1. \A u \in RefThreads : weak'[u] # r /\ ~(making'[u] = "Publish" /\ mine'[u] = r)
      BY <1>1, <2>1, <2>4, NullAssumption DEF MakersOK, ApartMakers, MakerOK
    <3>2. ~ObjectHolds(r)'
      BY <1>1, <1>4, <2>4 DEF ObjectHolds
    <3>3. Holders(r)' = 0
      BY <3>1, <3>2, HoldersTypeNext
    <3> QED
      BY <1>1, <1>4, <2>4, <3>3 DEF RemnantOK, WeakTyped
  <2>5. ASSUME NEW s \in Remnants, s # m PROVE RemnantOK(s)'
    <3>1. Holders(s)' = Holders(s)
      BY <1>1, <1>4, <2>1, <2>5, HoldersStep, HoldersType DEF Ones, ObjectHolds
    <3> QED
      BY <1>1, <1>4, <2>5, <3>1, RemnantKept DEF WeakTyped
  <2> QED
    BY <2>1, <2>2, <2>3, <2>4, <2>5
<1> QED
  BY <1>3, <1>4 DEF Publish

\* and a reference to the one that was found.
LEMMA AddRemnantRefHolds ==
  ASSUME IInv, WeakInv, NEW t \in RefThreads, AddRemnantRef(t)
  PROVE  WeakInv'
<1> USE DEF WeakInv
<1> DEFINE p == remnantPtr
<1>1. /\ making[t] = "AddRef" /\ refs[t] > 0 /\ refAt[t] = "Idle" /\ weak[t] = Null
      /\ remnantPtr # Null /\ remnantPtr \in Remnants /\ mine[t] = remnantPtr
      /\ remnantCount' = [remnantCount EXCEPT ![remnantPtr] = @ + 1]
      /\ weak' = [weak EXCEPT ![t] = remnantPtr]
      /\ UNCHANGED <<refs, refAt, deletes, remnantPtr, memory, alive, notify, told, destructor>>
  BY DEF AddRemnantRef, MakersOK, MakerOK, refVars, control, WeakTyped
<1>2. destructor = "NotRun"
  BY <1>1, NotDestroyed
<1>3. /\ WeakTyped'
      /\ \A u \in RefThreads \ {t} :
           making'[u] = making[u] /\ mine'[u] = mine[u] /\ weak'[u] = weak[u]
      /\ making'[t] = "Nothing" /\ mine'[t] = Null /\ weak'[t] = remnantPtr
  BY <1>1 DEF AddRemnantRef, WeakTyped, Make
<1>4. MakersOK'
  BY <1>1, <1>3 DEF MakersOK, ApartMakers, MakerOK
<1>5. DestructorOK' /\ NotifierOK'
  BY <1>1, <1>2 DEF DestructorOK, NotifierOK
<1>6. ASSUME NEW r \in Remnants, r = remnantPtr PROVE RemnantOK(r)'
  <2>1. Holders(r) \in Nat /\ Holders(r) > 0
    BY <1>2, <1>6, HoldersType DEF ObjectHolds
  <2>2. Holders(r)' = Holders(r) + 1
    BY <1>1, <1>3, <1>6, <2>1, HoldersStep, NullAssumption DEF Ones, ObjectHolds
  <2> QED
    BY <1>1, <1>6, <2>1, <2>2 DEF RemnantOK, WeakTyped
<1>7. ASSUME NEW r \in Remnants, r # remnantPtr PROVE RemnantOK(r)'
  <2>1. Holders(r)' = Holders(r)
    BY <1>1, <1>3, <1>7, HoldersStep, HoldersType, NullAssumption DEF Ones, ObjectHolds
  <2> QED
    BY <1>1, <1>7, <2>1, RemnantKept DEF WeakTyped
<1> QED
  BY <1>3, <1>4, <1>5, <1>6, <1>7

\* A copy has the remnant of its original.
LEMMA CopyWeakHolds ==
  ASSUME IInv, WeakInv, NEW t \in RefThreads, NEW u \in RefThreads, CopyWeak(t, u)
  PROVE  WeakInv'
<1> USE DEF WeakInv
<1>1. /\ making[t] = "Nothing" /\ weak[t] = Null
      /\ weak[u] = remnantPtr /\ remnantPtr # Null /\ remnantPtr \in Remnants
      /\ remnantCount' = [remnantCount EXCEPT ![remnantPtr] = @ + 1]
      /\ weak' = [weak EXCEPT ![t] = remnantPtr]
      /\ UNCHANGED <<refs, refAt, deletes, remnantPtr, memory, alive, notify, told, making, mine,
                     destructor>>
  BY DEF CopyWeak, Idle, MakersOK, MakerOK, refVars, control, WeakTyped
<1>2. /\ WeakTyped'
      /\ \A v \in RefThreads \ {t} : weak'[v] = weak[v]
      /\ weak'[t] = remnantPtr
  BY <1>1 DEF WeakTyped
<1>3. MakersOK'
  BY <1>1, <1>2 DEF MakersOK, ApartMakers, MakerOK
<1>4. DestructorOK'
  BY <1>1 DEF DestructorOK
<1>5. NotifierOK'
  <2>1. ~(\A v \in RefThreads : weak[v] = Null) /\ ~(\A v \in RefThreads : weak'[v] = Null)
    BY <1>1, <1>2
  <2> QED
    BY <1>1, <2>1 DEF NotifierOK
<1>6. ASSUME NEW r \in Remnants, r = remnantPtr PROVE RemnantOK(r)'
  <2>1. Holders(r) \in Nat /\ Holders(r) > 0
    BY <1>1, <1>6, HoldersType
  <2>2. Holders(r)' = Holders(r) + 1
    BY <1>1, <1>2, <1>6, <2>1, HoldersStep, NullAssumption DEF Ones, ObjectHolds
  <2> QED
    BY <1>1, <1>6, <2>1, <2>2 DEF RemnantOK, WeakTyped
<1>7. ASSUME NEW r \in Remnants, r # remnantPtr PROVE RemnantOK(r)'
  <2>1. Holders(r)' = Holders(r)
    BY <1>1, <1>2, <1>7, HoldersStep, HoldersType, NullAssumption DEF Ones, ObjectHolds
  <2> QED
    BY <1>1, <1>7, <2>1, RemnantKept DEF WeakTyped
<1> QED
  BY <1>2, <1>3, <1>4, <1>5, <1>6, <1>7

\* The notifier is asked for once and for all.
LEMMA EnableHolds ==
  ASSUME WeakInv, NEW t \in RefThreads, EnableNotification(t)
  PROVE  WeakInv'
<1> USE DEF WeakInv
<1>1. /\ weak[t] = remnantPtr /\ remnantPtr # Null /\ remnantPtr \notin notify
      /\ notify' = notify \cup {remnantPtr}
      /\ UNCHANGED <<refs, refAt, deletes, remnantPtr, memory, remnantCount, alive, told, weak,
                     making, mine, destructor>>
  BY DEF EnableNotification, MakersOK, MakerOK, refVars, control
<1>2. WeakTyped' /\ MakersOK' /\ DestructorOK'
  BY <1>1 DEF WeakTyped, MakersOK, ApartMakers, MakerOK, DestructorOK
<1>3. NotifierOK'
  BY <1>1 DEF NotifierOK
<1>4. \A r \in Remnants : RemnantOK(r)'
  BY <1>1 DEF RemnantOK, Holders
<1> QED
  BY <1>2, <1>3, <1>4

\* A reference to remnant r is dropped: by the thread t, whose weak pointer it
\* was, or by the object.
LEMMA DropHolds ==
  ASSUME WeakInv, NEW r \in Remnants, r = remnantPtr, Holders(r) > 0, DropRemnantRef(r),
         UNCHANGED <<remnantPtr, alive, notify, making, mine>>,
         weak' \in [RefThreads -> Remnants \cup {Null}],
         \A u \in RefThreads : weak'[u] \in {weak[u], Null},
         destructor' \in {"NotRun", "Forgot", "Done"},
         \A s \in Remnants : Holders(s)' = Holders(s) - Ones(s = r),
         Holders(r) > 1 <=> ~(destructor' = "Done" /\ \A u \in RefThreads : weak'[u] = Null),
         ~(destructor = "Done" /\ \A u \in RefThreads : weak[u] = Null)
  PROVE  WeakTyped' /\ NotifierOK' /\ \A s \in Remnants : RemnantOK(s)'
<1> USE DEF WeakInv
<1>1. Holders(r) \in Nat
  BY HoldersType
<1>2. memory[r] = "Allocated" /\ remnantCount[r] = Holders(r)
  BY DEF RemnantOK
<1>3. remnantCount' = [remnantCount EXCEPT ![r] = @ - 1]
  BY DEF DropRemnantRef
<1>4. CASE Holders(r) = 1
  <2>1. /\ memory' = [memory EXCEPT ![r] = "Freed"]
        /\ told' = IF r \in notify THEN told \cup {r} ELSE told
    BY <1>2, <1>4 DEF DropRemnantRef
  <2>2. WeakTyped'
    BY <1>2, <1>3, <1>4, <2>1 DEF WeakTyped
  <2>3. NotifierOK'
    BY <1>4, <2>1 DEF NotifierOK
  <2>4. ASSUME NEW s \in Remnants PROVE RemnantOK(s)'
    <3>1. CASE s = r
      BY <1>4, <2>1, <3>1 DEF RemnantOK, WeakTyped, Ones
    <3>2. CASE s # r
      <4>1. Holders(s)' = Holders(s)
        BY <3>2, HoldersType DEF Ones
      <4> QED
        BY <1>3, <2>1, <3>2, <4>1, RemnantKept DEF WeakTyped
    <3> QED
      BY <3>1, <3>2
  <2> QED
    BY <2>2, <2>3, <2>4
<1>5. CASE Holders(r) # 1
  <2>1. UNCHANGED <<memory, told>> /\ Holders(r) > 1
    BY <1>1, <1>2, <1>5 DEF DropRemnantRef
  <2>2. WeakTyped'
    BY <1>1, <1>2, <1>3, <2>1 DEF WeakTyped
  <2>3. NotifierOK'
    BY <2>1 DEF NotifierOK
  <2>4. ASSUME NEW s \in Remnants PROVE RemnantOK(s)'
    <3>1. CASE s = r
      BY <1>1, <1>2, <1>3, <2>1, <3>1 DEF RemnantOK, WeakTyped, Ones
    <3>2. CASE s # r
      <4>1. Holders(s)' = Holders(s)
        BY <3>2, HoldersType DEF Ones
      <4> QED
        BY <1>3, <2>1, <3>2, <4>1, RemnantKept DEF WeakTyped
    <3> QED
      BY <3>1, <3>2
  <2> QED
    BY <2>2, <2>3, <2>4
<1> QED
  BY <1>4, <1>5

\* The last holder of a remnant frees it.
LEMMA DropWeakHolds ==
  ASSUME IInv, WeakInv, NEW t \in RefThreads, DropWeak(t)
  PROVE  WeakInv'
<1> USE DEF WeakInv
<1>1. /\ making[t] = "Nothing"
      /\ weak[t] = remnantPtr /\ remnantPtr # Null /\ remnantPtr \in Remnants
      /\ DropRemnantRef(weak[t])
      /\ weak' = [weak EXCEPT ![t] = Null]
      /\ UNCHANGED <<refs, refAt, deletes, remnantPtr, alive, notify, making, mine, destructor>>
  BY DEF DropWeak, Idle, MakersOK, MakerOK, refVars, control, WeakTyped
<1>2. PICK r \in Remnants : r = remnantPtr
  BY <1>1
<1>3. DropRemnantRef(r)
  BY <1>1, <1>2
<1>4. /\ weak' \in [RefThreads -> Remnants \cup {Null}]
      /\ weak'[t] = Null /\ \A u \in RefThreads \ {t} : weak'[u] = weak[u]
  BY <1>1 DEF WeakTyped
<1>5. Holders(r) \in Nat /\ Holders(r) > 0
  BY <1>1, <1>2, HoldersType
<1>6. ASSUME NEW s \in Remnants PROVE Holders(s)' = Holders(s) - Ones(s = r)
  BY <1>1, <1>2, <1>4, HoldersStep, HoldersType, NullAssumption DEF Ones, ObjectHolds
<1>7. Holders(r) > 1 <=> ~(destructor' = "Done" /\ \A u \in RefThreads : weak'[u] = Null)
  <2>1. Holders(r)' = Holders(r) - 1
    BY <1>5, <1>6 DEF Ones
  <2>2. Holders(r)' > 0 <=> ~(destructor' = "Done" /\ \A u \in RefThreads : weak'[u] = Null)
    <3>1. \A u \in RefThreads : weak'[u] \in {Null, r} /\ ~(making'[u] = "Publish" /\ mine'[u] = r)
      BY <1>1, <1>2, <1>4 DEF MakersOK, MakerOK
    <3> QED
      BY <1>1, <1>2, <3>1, HoldersTypeNext DEF ObjectHolds
  <2> QED
    BY <1>5, <2>1, <2>2
<1>8. MakersOK' /\ DestructorOK'
  BY <1>1, <1>4 DEF MakersOK, ApartMakers, MakerOK, DestructorOK
<1>9. ~(\A u \in RefThreads : weak[u] = Null)
  BY <1>1
<1>10. destructor' \in {"NotRun", "Forgot", "Done"} /\ \A u \in RefThreads : weak'[u] \in {weak[u], Null}
  BY <1>1, <1>4 DEF WeakTyped
<1> QED
  BY <1>1, <1>2, <1>3, <1>4, <1>5, <1>6, <1>7, <1>8, <1>9, <1>10, DropHolds

\* The destructor of the object tells the remnant first,
LEMMA ForgetHolds ==
  ASSUME IInv, WeakInv, ForgetRemnant
  PROVE  WeakInv'
<1> USE DEF WeakInv
<1>1. /\ deletes = 1 /\ destructor = "NotRun"
      /\ UNCHANGED <<refs, refAt, deletes, remnantPtr, memory, remnantCount, notify, told, weak,
                     making, mine>>
      /\ \/ remnantPtr = Null /\ destructor' = "Done" /\ UNCHANGED alive
         \/ /\ remnantPtr # Null /\ destructor' = "Forgot"
            /\ alive' = [alive EXCEPT ![remnantPtr] = FALSE]
  BY DEF ForgetRemnant, Forgotten, refVars, control
<1>2. WeakTyped' /\ MakersOK'
  BY <1>1 DEF WeakTyped, MakersOK, ApartMakers, MakerOK
<1>3. DestructorOK'
  BY <1>1, NullAssumption DEF DestructorOK, WeakTyped
<1>4. NotifierOK'
  BY <1>1 DEF NotifierOK
<1>5. ASSUME NEW r \in Remnants PROVE RemnantOK(r)'
  <2>1. ObjectHolds(r)' <=> ObjectHolds(r)
    BY <1>1, NullAssumption DEF ObjectHolds
  <2>2. Holders(r)' = Holders(r)
    BY <1>1, <2>1 DEF Holders, ObjectHolds
  <2> QED
    BY <1>1, <2>2, RemnantKept
<1> QED
  BY <1>2, <1>3, <1>4, <1>5

\* and then gives up its own reference to it.
LEMMA DropImpliedHolds ==
  ASSUME IInv, WeakInv, DropImplied
  PROVE  WeakInv'
<1> USE DEF WeakInv
<1>1. /\ destructor = "Forgot" /\ destructor' = "Done" /\ deletes = 1
      /\ remnantPtr # Null /\ remnantPtr \in Remnants
      /\ DropRemnantRef(remnantPtr)
      /\ UNCHANGED <<refs, refAt, deletes, remnantPtr, alive, notify, weak, making, mine>>
  BY DEF DropImplied, refVars, control, DestructorOK, WeakTyped
<1>2. PICK r \in Remnants : r = remnantPtr
  BY <1>1
<1>3. DropRemnantRef(r)
  BY <1>1, <1>2
<1>4. PICK t \in RefThreads : TRUE
  BY RefThreadsAssumption
<1>5. Holders(r) \in Nat /\ Holders(r) > 0
  BY <1>1, <1>2, HoldersType DEF ObjectHolds
<1>6. ASSUME NEW s \in Remnants PROVE Holders(s)' = Holders(s) - Ones(s = r)
  BY <1>1, <1>2, HoldersStep, HoldersType DEF Ones, ObjectHolds
<1>7. Holders(r) > 1 <=> ~(destructor' = "Done" /\ \A u \in RefThreads : weak'[u] = Null)
  <2>1. Holders(r)' = Holders(r) - 1
    BY <1>5, <1>6 DEF Ones
  <2>2. Holders(r)' > 0 <=> ~(\A u \in RefThreads : weak'[u] = Null)
    <3>1. \A u \in RefThreads : weak'[u] \in {Null, r} /\ ~(making'[u] = "Publish" /\ mine'[u] = r)
      BY <1>1, <1>2 DEF MakersOK, MakerOK
    <3>2. ~ObjectHolds(r)' /\ r # Null
      BY <1>1, <1>2 DEF ObjectHolds
    <3> QED
      BY <3>1, <3>2, HoldersTypeNext
  <2> QED
    BY <1>1, <1>5, <2>1, <2>2
<1>8. MakersOK' /\ DestructorOK'
  BY <1>1 DEF MakersOK, ApartMakers, MakerOK, DestructorOK
<1>9. /\ weak' \in [RefThreads -> Remnants \cup {Null}]
      /\ \A u \in RefThreads : weak'[u] \in {weak[u], Null}
  BY <1>1 DEF WeakTyped
<1> QED
  BY <1>1, <1>2, <1>3, <1>5, <1>6, <1>7, <1>8, <1>9, DropHolds

\* No remnant satisfies the invariant.
LEMMA WeakInitHolds == WeakInit => WeakInv
<1> SUFFICES ASSUME WeakInit PROVE WeakInv
  OBVIOUS
<1>1. /\ WeakTyped /\ MakersOK /\ DestructorOK /\ NotifierOK
  BY NullAssumption DEF WeakInit, WeakTyped, MakersOK, ApartMakers, MakerOK, DestructorOK, NotifierOK
<1>2. ASSUME NEW r \in Remnants PROVE RemnantOK(r)
  <2>1. Holders(r) = 0
    BY HoldersType, NullAssumption DEF WeakInit, ObjectHolds
  <2> QED
    BY <2>1 DEF WeakInit, RemnantOK
<1> QED
  BY <1>1, <1>2 DEF WeakInv

\* Every step of weak pointers and of references preserves the invariant.
LEMMA WeakNextHolds ==
  Quiet /\ IInv /\ IInv' /\ WeakInv /\ [WeakNext]_<<refVars, weakVars>> => WeakInv'
<1> SUFFICES ASSUME Quiet, IInv, IInv', WeakInv, [WeakNext]_<<refVars, weakVars>> PROVE WeakInv'
  OBVIOUS
<1>1. CASE UNCHANGED <<refVars, weakVars>>
  BY <1>1 DEF refVars, control, weakVars, remnants, WeakInv, WeakTyped, MakersOK, ApartMakers,
              MakerOK, DestructorOK, NotifierOK, RemnantOK, Holders
<1>2. CASE WeakNext
  BY <1>2, RefStepHolds, LoadRemnantHolds, PublishHolds, AddRemnantRefHolds, CopyWeakHolds,
     EnableHolds, DropWeakHolds, ForgetHolds, DropImpliedHolds DEF WeakNext, WeakStep
<1> QED
  BY <1>1, <1>2

-----------------------------------------------------------------------------
(* What follows for WeakPtr. *)

\* The invariant of the counts and that of the remnants hold in every state
\* that the threads reach.
THEOREM WeakInvariantHolds == ASSUME Quiet PROVE WeakSpec => [](IInv /\ WeakInv)
  BY WeakRefines, InvariantHolds, WeakInitHolds, WeakNextHolds, PTL DEF WeakSpec

\* All weak pointers share one remnant, whose count is right and which is freed
\* with its last holder; they are valid while the object is referenced and invalid
\* once its destructor has told them; and the notifier hears of the object's end
\* when nobody can use its identity any more, and then at once.
THEOREM RemnantsAreRight == ASSUME Quiet PROVE WeakSpec => []RemnantsConsistent
<1>1. IInv /\ WeakInv => RemnantsConsistent
  <2> SUFFICES ASSUME IInv, WeakInv PROVE RemnantsConsistent
    OBVIOUS
  <2>1. WeakTypeOK
    BY DEF IInv, WeakInv, WeakTyped, NotifierOK, WeakTypeOK
  <2>2. OneRemnant /\ HeldRemnantsExist
    BY DEF WeakInv, MakersOK, MakerOK, OneRemnant, RemnantOK, HeldRemnantsExist
  <2>3. ValidWhileReferenced
    <3>1. References > 0 => destructor = "NotRun"
      <4>1. References > 0 => count # 0
        BY Typed DEF IInv, Accounting, Magnitude
      <4> QED
        BY <4>1 DEF IInv, Accounting, WeakInv, DestructorOK
    <3>2. \A t \in RefThreads : weak[t] # Null => weak[t] = remnantPtr /\ weak[t] \in Remnants
      BY DEF WeakInv, WeakTyped, MakersOK, MakerOK
    <3> QED
      BY <3>1, <3>2 DEF WeakInv, DestructorOK, ValidWhileReferenced
  <2>4. IdentityErasedLast
    BY DEF WeakInv, NotifierOK, IdentityErasedLast
  <2> QED
    BY <2>1, <2>2, <2>3, <2>4 DEF RemnantsConsistent
<1> QED
  BY <1>1, WeakInvariantHolds, PTL

\* Weak pointers take nothing away from what RefCount promises: its count is the
\* number of references also when they are made from weak pointers.
THEOREM WeakCountAccounts ==
  ASSUME Quiet
  PROVE  WeakSpec => []ReferencesAccount
<1>1. CountsReferences /\ LivesWhileReferenced /\ OwnersAgree => ReferencesAccount
  BY DEF ReferencesAccount
<1> QED
  BY <1>1, WeakRefines, CountAccounts, LifeEndsWithReferences, OwnersAlwaysAgree, PTL
=============================================================================
