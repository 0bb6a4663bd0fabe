------------------------------ MODULE SpinMutex ------------------------------
(***************************************************************************)
(* TfSpinMutex (spinMutex.h/.cpp) and its ScopedLocks: threads that lock   *)
(* several mutexes, move their locks about and associate them with other   *)
(* mutexes.  An action is one access to _lockState.  What the memory       *)
(* orders of the accesses make visible is followed as in SpinRWMutexOrder. *)
(***************************************************************************)
EXTENDS Integers, FiniteSets

CONSTANTS
  Lockers,   \* the threads
  Mutexes,
  NoMutex,
  ScopedOf   \* ScopedOf[t]: the ScopedLocks of a thread

ASSUME NoMutexAssumption == NoMutex \notin Mutexes

VARIABLES
  lockState, \* lockState[m]: _lockState
  carries,   \* carries[m]: the writes that an acquire of _lockState learns of
  sees,      \* sees[t]: the writes that are ordered before t's next step
  scoped,    \* scoped[t][k]: _mutex and _acquired of a ScopedLock
  locking    \* locking[t]: what t is doing, with which ScopedLock

spinVars == <<lockState, carries, sees, scoped, locking>>

Loose == [mutex |-> NoMutex, acquired |-> FALSE]
NotLocking == [step |-> "None"]

\* The last write of a thread to what a mutex protects.
GuardedWrites == Lockers \X Mutexes

SpinInit ==
  /\ lockState = [m \in Mutexes |-> FALSE]
  /\ carries = [m \in Mutexes |-> GuardedWrites]
  /\ sees = [t \in Lockers |-> GuardedWrites]
  /\ scoped = [t \in Lockers |-> [k \in ScopedOf[t] |-> Loose]]
  /\ locking = [t \in Lockers |-> NotLocking]

HasAcquired(t, m) == \E k \in ScopedOf[t] : scoped[t][k] = [mutex |-> m, acquired |-> TRUE]

LockStep(t, step) == locking[t].step = step
EndCall(t) == locking' = [locking EXCEPT ![t] = NotLocking]
CalledLock(t) == scoped[t][locking[t].lock]

-----------------------------------------------------------------------------
(* Calls of a ScopedLock: each first releases what it has acquired, then    *)
(* goes on with a mutex, with what another ScopedLock has, or with nothing. *)

BeginCall(t, k, next, m, from) ==
  /\ LockStep(t, "None")
  /\ locking' = [locking EXCEPT ![t] =
       [step |-> IF scoped[t][k].acquired THEN "Release" ELSE next,
        lock |-> k, next |-> next, mutex |-> m, from |-> from]]
  /\ UNCHANGED <<lockState, carries, sees, scoped>>

\* Acquire and TryAcquire, with the mutex the lock has or with another one.  "This
\* thread must not already hold a lock on this mutex."
CallAcquire(t) == \E k \in ScopedOf[t], m \in Mutexes, next \in {"Exchange", "Try"} :
  /\ \A j \in ScopedOf[t] \ {k} : scoped[t][j] # [mutex |-> m, acquired |-> TRUE]
  /\ BeginCall(t, k, next, m, k)

CallRelease(t) == \E k \in ScopedOf[t] :
  /\ scoped[t][k].acquired
  /\ BeginCall(t, k, "Done", scoped[t][k].mutex, k)

\* Move assignment; also construction and destruction, by or of an unassociated lock.
CallMove(t) == \E k, j \in ScopedOf[t] : k # j /\ BeginCall(t, k, "Move", NoMutex, j)

-----------------------------------------------------------------------------
(* Steps. *)

\* A store begins a release sequence of its own.
PublishedBy(t) == sees[t]

StoreFalse(t) ==
  LET m == CalledLock(t).mutex IN
  /\ LockStep(t, "Release")
  /\ lockState' = [lockState EXCEPT ![m] = FALSE]
  /\ carries' = [carries EXCEPT ![m] = PublishedBy(t)]
  /\ scoped' = [scoped EXCEPT ![t][locking[t].lock].acquired = FALSE]
  /\ IF locking[t].next = "Done" THEN EndCall(t)
     ELSE locking' = [locking EXCEPT ![t].step = locking[t].next]
  /\ UNCHANGED sees

\* t has the mutex: it learns what was published, and writes.
EntersMutex(t, m) ==
  LET written == {t} \X {m} IN
  /\ sees' = [u \in Lockers |-> IF u = t THEN sees[t] \cup carries[m] \cup written
                                         ELSE sees[u] \ written]
  /\ carries' = [n \in Mutexes |-> carries[n] \ written]

\* The exchange of TryAcquire, and of Acquire, with or without contention.
ExchangeTrue(t) ==
  LET m == locking[t].mutex
      k == locking[t].lock IN
  /\ LockStep(t, "Exchange") \/ LockStep(t, "Try")
  /\ lockState' = [lockState EXCEPT ![m] = TRUE]
  /\ scoped' = [scoped EXCEPT ![t][k] = [mutex |-> m, acquired |-> ~lockState[m]]]
  /\ IF ~lockState[m] THEN EntersMutex(t, m) /\ EndCall(t)
     ELSE /\ sees' = [sees EXCEPT ![t] = @ \cup carries[m]]
          /\ IF LockStep(t, "Try") THEN EndCall(t)
             ELSE locking' = [locking EXCEPT ![t].step = "Wait"]
          /\ UNCHANGED carries

\* _AcquireContended: a relaxed load has seen false.
LoadFalse(t) ==
  /\ LockStep(t, "Wait") /\ ~lockState[locking[t].mutex]
  /\ locking' = [locking EXCEPT ![t].step = "Exchange"]
  /\ UNCHANGED <<lockState, carries, sees, scoped>>

\* What is left of a ScopedLock that was moved from.
MovedFrom_StaysAcquired(lock) == [lock EXCEPT !.mutex = @]

MovedFrom(lock) == Loose

MoveScoped(t) ==
  LET k == locking[t].lock
      j == locking[t].from IN
  /\ LockStep(t, "Move")
  /\ scoped' = [scoped EXCEPT ![t] =
       [@ EXCEPT ![k] = scoped[t][j], ![j] = MovedFrom(scoped[t][j])]]
  /\ EndCall(t)
  /\ UNCHANGED <<lockState, carries, sees>>

SpinNext == \E t \in Lockers :
  \/ CallAcquire(t) \/ CallRelease(t) \/ CallMove(t)
  \/ StoreFalse(t) \/ ExchangeTrue(t) \/ LoadFalse(t) \/ MoveScoped(t)

SpinSpec == SpinInit /\ [][SpinNext]_spinVars

-----------------------------------------------------------------------------

Owners(m) == UNION {{<<t, k>> : k \in {j \in ScopedOf[t] :
                       scoped[t][j] = [mutex |-> m, acquired |-> TRUE]}} : t \in Lockers}

\* However locks are moved, handed on and associated with other mutexes: a mutex is
\* lockState exactly while one ScopedLock of one thread says that it has acquired it,
\* and that thread sees what every thread wrote under the mutex
\* (spinMutex.h:66-189, spinMutex.cpp:43-53).
SpinMutexesExclude ==
  \A m \in Mutexes :
    /\ Cardinality(Owners(m)) = IF lockState[m] THEN 1 ELSE 0
    /\ \A t, u \in Lockers : HasAcquired(t, m) => <<u, m>> \in sees[t]
=============================================================================
