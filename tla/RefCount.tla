------------------------------ MODULE RefCount ------------------------------
(***************************************************************************)
(* The reference count of one object (refBase.h, refPtr.h, refPtr.cpp) and *)
(* its ownership by a Python object (pyIdentity.h/.cpp).                   *)
(*                                                                         *)
(* Threads copy and drop their TfRefPtrs and upgrade weak pointers.  An    *)
(* object that Python wraps is held by a TfRefPtr in a capsule of the      *)
(* Python object ("__owner"), and its count is kept negative: whoever      *)
(* takes such a count from -1 to -2 or back does so under the Python lock  *)
(* and makes C++ hold, or release, the Python object.                      *)
(*                                                                         *)
(* An action is one access to _refCount with the local code around it.     *)
(***************************************************************************)
EXTENDS Integers, FiniteSets

CONSTANTS
  RefThreads,
  NoThread,
  MaxRefs,   \* bound: TfRefPtrs that one thread has at a time
  UsesPython, \* whether the object may be wrapped
  Quiet      \* whether clients keep the object to themselves while they
             \* convert it to or from Python

ASSUME RefThreadsAssumption == IsFiniteSet(RefThreads) /\ RefThreads # {} /\ NoThread \notin RefThreads
ASSUME MaxRefsAssumption == MaxRefs \in Nat \ {0}
ASSUME BooleansAssumption == UsesPython \in BOOLEAN /\ Quiet \in BOOLEAN

VARIABLES
  count,       \* _refCount
  deletes,     \* how often the object was deleted
  refs,        \* refs[t]: the TfRefPtrs that t has to the object
  owner,       \* the capsule in "__owner" holds a reference
  acquired,    \* Tf_PyIdHandle::_isAcquired: C++ holds the Python object
  pyRefs,      \* threads whose Python code refers to the Python object
  gil,         \* who holds the Python lock
  refAt,          \* at[t]: the next step of t
  purpose,     \* purpose[t]: the call that t executes
  prev         \* prev[t]: prevCount

python == <<owner, acquired, pyRefs>>
control == <<refAt, purpose, prev>>
refVars == <<count, deletes, refs, python, gil, control>>

AddPlaces == {"LoadAdd", "FetchAdd", "CasAdd", "LockAdd"}
RemovePlaces == {"LoadRemove", "FetchSub", "CasRemove", "LockRemove"}
UpgradePlaces == {"LoadUpgrade", "CasUpgradeUp", "CasUpgradeDown", "LockUpgrade"}
ListenerPlaces == {"Acquire", "Release"}
ConversionPlaces == {"Negate", "Unnegate"}

RefPlaces == {"Idle"} \cup AddPlaces \cup RemovePlaces \cup UpgradePlaces
                   \cup ListenerPlaces \cup ConversionPlaces

CasPlaces == {"CasAdd", "CasRemove", "CasUpgradeUp", "CasUpgradeDown", "LockUpgrade"}

Purposes == {"None", "Copy", "Drop", "Upgrade", "Wrap", "Unwrap", "DropOwner"}

\* Every thread was given a TfRefPtr to a new object.
RefInit ==
  /\ count = Cardinality(RefThreads)
  /\ deletes = 0
  /\ refs = [t \in RefThreads |-> 1]
  /\ owner = FALSE /\ acquired = FALSE /\ pyRefs = {}
  /\ gil = NoThread
  /\ refAt = [t \in RefThreads |-> "Idle"]
  /\ purpose = [t \in RefThreads |-> "None"]
  /\ prev = [t \in RefThreads |-> 0]

-----------------------------------------------------------------------------
(* Helpers. *)

\* Saw(t, p, place): t has read p from _refCount and goes on at place; the
\* model keeps p where a CAS will need it.
Saw(t, p, place) ==
  /\ refAt' = [refAt EXCEPT ![t] = place]
  /\ prev' = [prev EXCEPT ![t] = IF place \in CasPlaces THEN p ELSE 0]

RefGoto(t, place) == Saw(t, 0, place)

FreeGil(t) == gil' = IF gil = t THEN NoThread ELSE gil

CanLock(t) == gil \in {t, NoThread}

\* The Python object exists while C++ or Python code refers to it.
PythonAlive == acquired \/ pyRefs # {}

\* The reference that an AddRef of t stands for.
Gain(t) ==
  IF purpose[t] = "Wrap"
    THEN owner' = TRUE /\ UNCHANGED refs
    ELSE refs' = [refs EXCEPT ![t] = @ + 1] /\ UNCHANGED owner

\* The reference that a RemoveRef of t stands for.
Lose(t) ==
  IF purpose[t] = "DropOwner"
    THEN owner' = FALSE /\ UNCHANGED refs
    ELSE refs' = [refs EXCEPT ![t] = @ - 1] /\ UNCHANGED owner

\* RemoveRef returned lastRef: the caller deletes the object.
DeleteIf(lastRef) == deletes' = deletes + IF lastRef THEN 1 ELSE 0

\* The call of t is over.
RefReturn(t) ==
  /\ RefGoto(t, "Idle")
  /\ purpose' = [purpose EXCEPT ![t] = "None"]
  /\ FreeGil(t)

\* The end of an AddRef: a conversion goes on with the sign of the count, any
\* other call returns.
AfterAdd(t) ==
  IF purpose[t] \in {"Wrap", "Unwrap"}
    THEN /\ RefGoto(t, IF purpose[t] = "Wrap" THEN "Negate" ELSE "Unnegate")
         /\ UNCHANGED <<purpose, gil>>
    ELSE RefReturn(t)

\* A call starts.  Under the assumption Quiet, nobody else uses the object
\* while a conversion changes the sign of its count.
Converting(t) == refAt[t] # "Idle" /\ purpose[t] \in {"Wrap", "Unwrap"}

Start(t, call, place) ==
  /\ refAt[t] = "Idle" /\ deletes = 0
  /\ Quiet => \A u \in RefThreads \ {t} :
                IF call \in {"Wrap", "Unwrap"} THEN refAt[u] = "Idle" ELSE ~Converting(u)
  /\ purpose' = [purpose EXCEPT ![t] = call]
  /\ RefGoto(t, place)

-----------------------------------------------------------------------------
(* AddRef and _AddRefMaybeLocked. *)

\* A thread copies a TfRefPtr that it has.
Copy(t) ==
  /\ refs[t] \in 1 .. MaxRefs - 1
  /\ Start(t, "Copy", "LoadAdd")
  /\ UNCHANGED <<count, deletes, refs, python, gil>>

LoadAdd(t) ==
  /\ refAt[t] = "LoadAdd"
  /\ Saw(t, count, CASE count = -1 -> "LockAdd"
                     [] count < -1 -> "CasAdd"
                     [] OTHER      -> "FetchAdd")
  /\ UNCHANGED <<count, deletes, refs, python, gil, purpose>>

FetchAdd(t) ==
  /\ refAt[t] = "FetchAdd"
  /\ count' = count + 1
  /\ Gain(t) /\ AfterAdd(t)
  /\ UNCHANGED <<deletes, acquired, pyRefs>>

\* What a CAS loop stores for the value it saw, when it adds a reference.
OneMore_Upwards(p) == p + 1

OneMore(p) == p - 1

CasAdd(t) ==
  /\ refAt[t] = "CasAdd"
  /\ IF count = prev[t]
       THEN /\ count' = OneMore(count)
            /\ Gain(t) /\ AfterAdd(t)
       ELSE /\ Saw(t, count, IF count = -1 THEN "LockAdd" ELSE "CasAdd")
            /\ UNCHANGED <<count, refs, owner, gil, purpose>>
  /\ UNCHANGED <<deletes, acquired, pyRefs>>

\* The count goes down by one under the Python lock; the listener is called
\* when it was -1.
BecomesShared(p) == p = -1

LockAdd(t) ==
  /\ refAt[t] = "LockAdd" /\ CanLock(t)
  /\ count' = count - 1
  /\ Gain(t)
  /\ IF BecomesShared(count)
       THEN RefGoto(t, "Acquire") /\ gil' = t /\ UNCHANGED purpose
       ELSE AfterAdd(t)
  /\ UNCHANGED <<deletes, acquired, pyRefs>>

\* The listener: C++ holds the Python object from now on.
Acquire(t) ==
  /\ refAt[t] = "Acquire"
  /\ acquired' = TRUE
  /\ AfterAdd(t)
  /\ UNCHANGED <<count, deletes, refs, owner, pyRefs>>

-----------------------------------------------------------------------------
(* RemoveRef and _RemoveRefMaybeLocked. *)

Drop(t) ==
  /\ refs[t] > 0
  /\ Start(t, "Drop", "LoadRemove")
  /\ UNCHANGED <<count, deletes, refs, python, gil>>

\* The count from which a RemoveRef must take the lock.
NeedsLock_Never(p) == FALSE

NeedsLock(p) == p = -2

LoadRemove(t) ==
  /\ refAt[t] = "LoadRemove"
  /\ Saw(t, count, CASE NeedsLock(count)              -> "LockRemove"
                     [] count < 0 /\ ~NeedsLock(count) -> "CasRemove"
                     [] OTHER                         -> "FetchSub")
  /\ UNCHANGED <<count, deletes, refs, python, gil, purpose>>

FetchSub(t) ==
  /\ refAt[t] = "FetchSub"
  /\ count' = count - 1
  /\ DeleteIf(count = 1)
  /\ Lose(t) /\ RefReturn(t)
  /\ UNCHANGED <<acquired, pyRefs>>

\* Whether the value before a decrement says that the last reference went.
WasLast_OnlyPositive(p) == p = 1

WasLast(p) == p = -1

CasRemove(t) ==
  /\ refAt[t] = "CasRemove"
  /\ IF count = prev[t]
       THEN /\ count' = count + 1
            /\ DeleteIf(WasLast(count))
            /\ Lose(t) /\ RefReturn(t)
       ELSE /\ Saw(t, count, IF NeedsLock(count) THEN "LockRemove" ELSE "CasRemove")
            /\ UNCHANGED <<count, deletes, refs, owner, gil, purpose>>
  /\ UNCHANGED <<acquired, pyRefs>>

LockRemove(t) ==
  /\ refAt[t] = "LockRemove" /\ CanLock(t)
  /\ count' = count + 1
  /\ Lose(t)
  /\ DeleteIf(WasLast(count))
  /\ IF NeedsLock(count)
       THEN RefGoto(t, "Release") /\ gil' = t /\ UNCHANGED purpose
       ELSE RefReturn(t)
  /\ UNCHANGED <<acquired, pyRefs>>

\* The listener: C++ releases the Python object, which dies, and drops the
\* reference in its capsule, unless Python code refers to it.
Release(t) ==
  /\ refAt[t] = "Release"
  /\ acquired' = FALSE
  /\ IF pyRefs = {} /\ owner
       THEN /\ purpose' = [purpose EXCEPT ![t] = "DropOwner"]
            /\ RefGoto(t, "LoadRemove")
            /\ UNCHANGED gil
       ELSE RefReturn(t)
  /\ UNCHANGED <<count, deletes, refs, owner, pyRefs>>

-----------------------------------------------------------------------------
(* AddRefIfNonzero: TfCreateRefPtrFromProtectedWeakPtr.  The caller keeps  *)
(* the TfRefBase part from being destroyed during the call.                *)

Upgrade(t) ==
  /\ refs[t] < MaxRefs
  /\ Start(t, "Upgrade", "LoadUpgrade")
  /\ UNCHANGED <<count, deletes, refs, python, gil>>

\* Where the loops of AddRefIfNonzero go when they have seen p: the first loop
\* is for positive counts, the second one no longer looks at the sign.
UpgradeAt(p) ==
  CASE p = 0  -> "Idle"
    [] p > 0  -> "CasUpgradeUp"
    [] p = -1 -> "LockUpgrade"
    [] OTHER  -> "CasUpgradeDown"

SecondLoopAt(p) ==
  CASE p = 0  -> "Idle"
    [] p = -1 -> "LockUpgrade"
    [] OTHER  -> "CasUpgradeDown"

\* The upgrade has seen p; it is over when that was zero.
SawUpgrade(t, p, place) ==
  /\ Saw(t, p, place)
  /\ IF place = "Idle" THEN purpose' = [purpose EXCEPT ![t] = "None"] /\ FreeGil(t)
                       ELSE UNCHANGED <<purpose, gil>>

LoadUpgrade(t) ==
  /\ refAt[t] = "LoadUpgrade"
  /\ SawUpgrade(t, count, UpgradeAt(count))
  /\ UNCHANGED <<count, deletes, refs, python>>

CasUpgradeUp(t) ==
  /\ refAt[t] = "CasUpgradeUp"
  /\ IF count = prev[t]
       THEN /\ count' = count + 1
            /\ Gain(t) /\ RefReturn(t)
       ELSE /\ SawUpgrade(t, count, UpgradeAt(count))
            /\ UNCHANGED <<count, refs, owner>>
  /\ UNCHANGED <<deletes, acquired, pyRefs>>

CasUpgradeDown(t) ==
  /\ refAt[t] = "CasUpgradeDown"
  /\ IF count = prev[t]
       THEN /\ count' = OneMore(count)
            /\ Gain(t) /\ RefReturn(t)
       ELSE /\ SawUpgrade(t, count, SecondLoopAt(count))
            /\ UNCHANGED <<count, refs, owner>>
  /\ UNCHANGED <<deletes, acquired, pyRefs>>

\* The third loop runs under the Python lock and ends when the object has no
\* references any more.
IsDead(p) == p = 0

LockUpgrade(t) ==
  /\ refAt[t] = "LockUpgrade" /\ CanLock(t)
  /\ \/ /\ count = prev[t]
        /\ count' = OneMore(count)
        /\ Gain(t)
        /\ IF BecomesShared(count)
             THEN RefGoto(t, "Acquire") /\ gil' = t /\ UNCHANGED purpose
             ELSE RefReturn(t)
     \/ /\ count # prev[t]
        /\ IF IsDead(count)
             THEN RefReturn(t)
             ELSE Saw(t, count, "LockUpgrade") /\ gil' = t /\ UNCHANGED purpose
        /\ UNCHANGED <<count, refs, owner>>
  /\ UNCHANGED <<deletes, acquired, pyRefs>>

-----------------------------------------------------------------------------
(* Python: all under the Python lock. *)

\* A TfRefPtr is converted to Python: the Python object gets its identity,
\* which C++ holds, a capsule with a reference of its own (Tf_PyOwnershipHelper
\* ::Add), and then the count is made negative.
Wrap(t) ==
  /\ UsesPython /\ refs[t] > 0 /\ ~owner
  /\ gil = NoThread /\ gil' = t
  /\ Start(t, "Wrap", "LoadAdd")
  /\ acquired' = (acquired \/ ~PythonAlive)
  /\ pyRefs' = pyRefs \cup {t}
  /\ UNCHANGED <<count, deletes, refs, owner>>

\* SetShouldInvokeUniqueChangedListener(true): its loop ends in one change.
Negate(t) ==
  /\ refAt[t] = "Negate"
  /\ count' = IF count > 0 THEN -count ELSE count
  /\ RefReturn(t)
  /\ UNCHANGED <<deletes, refs, python>>

\* A Python object is converted to a TfRefPtr (one stands for the copies that
\* the conversion makes); Python loses its ownership (Remove).
Unwrap(t) ==
  /\ t \in pyRefs /\ owner /\ refs[t] < MaxRefs
  /\ gil = NoThread /\ gil' = t
  /\ Start(t, "Unwrap", "LoadAdd")
  /\ UNCHANGED <<count, deletes, refs, python>>

\* SetShouldInvokeUniqueChangedListener(false); then "__owner" is deleted.
Unnegate(t) ==
  /\ refAt[t] = "Unnegate"
  /\ count' = IF count < 0 THEN -count ELSE count
  /\ purpose' = [purpose EXCEPT ![t] = "DropOwner"]
  /\ RefGoto(t, "LoadRemove")
  /\ UNCHANGED <<deletes, refs, python, gil>>

\* Python code of a thread gets to refer to the Python object ...
PythonTakes(t) ==
  /\ gil = NoThread /\ refAt[t] = "Idle"
  /\ PythonAlive /\ t \notin pyRefs
  /\ pyRefs' = pyRefs \cup {t}
  /\ UNCHANGED <<count, deletes, refs, owner, acquired, gil, control>>

\* ... and drops it; without any reference the Python object dies and drops
\* its capsule.
PythonDrops(t) ==
  /\ gil = NoThread /\ refAt[t] = "Idle"
  /\ t \in pyRefs
  /\ pyRefs' = pyRefs \ {t}
  /\ IF pyRefs = {t} /\ ~acquired /\ owner
       THEN /\ gil' = t
            /\ purpose' = [purpose EXCEPT ![t] = "DropOwner"]
            /\ RefGoto(t, "LoadRemove")
       ELSE UNCHANGED <<gil, control>>
  /\ UNCHANGED <<count, deletes, refs, owner, acquired>>

-----------------------------------------------------------------------------

RefCall(t) ==
  \/ Copy(t) \/ Drop(t) \/ Upgrade(t)
  \/ Wrap(t) \/ Unwrap(t) \/ PythonTakes(t) \/ PythonDrops(t)

CountStep(t) ==
  \/ LoadAdd(t) \/ FetchAdd(t) \/ CasAdd(t) \/ LockAdd(t) \/ Acquire(t)
  \/ LoadRemove(t) \/ FetchSub(t) \/ CasRemove(t) \/ LockRemove(t) \/ Release(t)
  \/ LoadUpgrade(t) \/ CasUpgradeUp(t) \/ CasUpgradeDown(t) \/ LockUpgrade(t)
  \/ Negate(t) \/ Unnegate(t)

RefNext == \E t \in RefThreads : RefCall(t) \/ CountStep(t)

RefSpec == RefInit /\ [][RefNext]_refVars

-----------------------------------------------------------------------------
(* Properties. *)

RefTypeOK ==
  /\ count \in Int
  /\ deletes \in 0 .. 1
  /\ refs \in [RefThreads -> 0 .. MaxRefs]
  /\ owner \in BOOLEAN /\ acquired \in BOOLEAN
  /\ pyRefs \subseteq RefThreads
  /\ gil \in RefThreads \cup {NoThread}
  /\ refAt \in [RefThreads -> RefPlaces]
  /\ purpose \in [RefThreads -> Purposes]
  /\ prev \in [RefThreads -> Int]

\* The TfRefPtrs of all threads.
Pointers == {p \in RefThreads \X (1 .. MaxRefs) : p[2] <= refs[p[1]]}

References == Cardinality(Pointers) + (IF owner THEN 1 ELSE 0)

\* "if two or more threads create and destroy their own TfRefPtr objects, ...
\* the reference count is always correct" (refPtr.h): its absolute value is
\* the number of references, whatever the sign.
CountsReferences == References = IF count < 0 THEN -count ELSE count

\* The object is deleted by whoever drops the last reference, and never else.
DeletedWithLastReference == deletes = IF References = 0 THEN 1 ELSE 0

\* Nobody uses the count of an object that was deleted, not even a thread that
\* is about to call the listener.  (For an upgrade, the caller sees to it.)
UsedOnlyAlive ==
  \A t \in RefThreads : refAt[t] \notin {"Idle"} \cup UpgradePlaces => deletes = 0

\* So the object is there as long as it is referenced or used, and not longer.
LivesWhileReferenced == DeletedWithLastReference /\ UsedOnlyAlive

\* While Python owns the object, C++ holds the Python object exactly when it
\* has references of its own; so the Python object outlives them, and both are
\* freed when only Python's are left.  The listener restores this before it
\* lets go of the Python lock.
PythonHeldWhileShared ==
  gil = NoThread /\ count < 0 => (acquired <=> count < -1)

\* "We are guaranteed that ptr is not unique at this point ... the object owns
\* a reference to its python object" (pyIdentity.h): when Python loses its
\* ownership.
UnwrappedIsShared ==
  \A t \in RefThreads : refAt[t] = "Unnegate" => count < -1 /\ acquired

\* What the two owners, C++ and Python, may rely on.
OwnersAgree == PythonHeldWhileShared /\ UnwrappedIsShared

\* What both owners and all pointers take from one number: how many they are, when
\* the last of them goes, and who holds whom (refPtr.h:468-520, refPtr.cpp:20-116, pyIdentity.cpp:93-135).
ReferencesAccount == CountsReferences /\ LivesWhileReferenced /\ OwnersAgree
=============================================================================
