--------------------------- MODULE ServiceProofs ---------------------------
(***************************************************************************)
(* Proofs about the services that MCServices runs side by side.  They      *)
(* share no state, so each has an inductive invariant of its own, for any  *)
(* numbers of threads, writers, watchers, nodes and settings.              *)
(***************************************************************************)
EXTENDS SpinMutex, AtomicFile, DebugSymbols, LazyInit, ScopeDescription, EnumNames, EnvSetting,
        PyLock, Token, MallocTag, Lemmas, SequenceTheorems

-----------------------------------------------------------------------------
(* TfSpinMutex.  A mutex is locked exactly while one ScopedLock of one     *)
(* thread says that it has acquired it, which rests on what each step of a *)
(* call knows of its own lock; and the writes made under a mutex are       *)
(* either known to who has it or carried by it to who acquires it next.    *)

\* A ScopedLock that has acquired a mutex.
Holding(m) == [mutex |-> m, acquired |-> TRUE]
Owns(t, k, m) == scoped[t][k] = Holding(m)

ScopedLocks == [mutex : Mutexes \cup {NoMutex}, acquired : BOOLEAN]
LockCalls(t) ==
  {NotLocking} \cup
  [step : {"Release", "Exchange", "Try", "Wait", "Move"}, lock : ScopedOf[t],
   next : {"Exchange", "Try", "Move", "Done"}, mutex : Mutexes \cup {NoMutex}, from : ScopedOf[t]]

SpinTyped ==
  /\ lockState \in [Mutexes -> BOOLEAN]
  /\ carries \in [Mutexes -> SUBSET GuardedWrites]
  /\ sees \in [Lockers -> SUBSET GuardedWrites]
  /\ scoped = [t \in Lockers |-> scoped[t]]
  /\ locking = [t \in Lockers |-> locking[t]]
  /\ \A t \in Lockers : scoped[t] \in [ScopedOf[t] -> ScopedLocks] /\ locking[t] \in LockCalls(t)

\* A call goes on with a lock that has nothing acquired, to one that does not have the
\* mutex already through another lock.
Acquiring(t) == locking[t].step \in {"Exchange", "Try", "Wait"}
                \/ (LockStep(t, "Release") /\ locking[t].next \in {"Exchange", "Try"})
CallOK(t) ==
  LET call == locking[t] IN
  /\ LockStep(t, "Release") => CalledLock(t).acquired
  /\ ~LockStep(t, "None") /\ ~LockStep(t, "Release") => ~CalledLock(t).acquired
  /\ Acquiring(t) => /\ call.mutex \in Mutexes
                     /\ \A j \in ScopedOf[t] \ {call.lock} : ~Owns(t, j, call.mutex)
  /\ LockStep(t, "Move") \/ (LockStep(t, "Release") /\ call.next = "Move") => call.from # call.lock

CallsOK == \A t \in Lockers :
  /\ CallOK(t)
  /\ \A k \in ScopedOf[t] : scoped[t][k].acquired => scoped[t][k].mutex \in Mutexes

\* One lock of one thread has a mutex that is locked, and none has one that is not.
OneOwner == \A m \in Mutexes :
  /\ \A t, u \in Lockers : \A k \in ScopedOf[t], j \in ScopedOf[u] :
       Owns(t, k, m) /\ Owns(u, j, m) => t = u /\ k = j
  /\ lockState[m] <=> \E t \in Lockers : \E k \in ScopedOf[t] : Owns(t, k, m)

\* All writes under a mutex are known to who has it; or else to who acquires it next.
WritesPassOn == \A m \in Mutexes :
  /\ \A t, u \in Lockers : HasAcquired(t, m) => <<u, m>> \in sees[t]
  /\ ~lockState[m] => \A u \in Lockers : <<u, m>> \in carries[m]

SpinInv == SpinTyped /\ CallsOK /\ OneOwner /\ WritesPassOn

-----------------------------------------------------------------------------

\* At first all locks are loose and all writes known.
LEMMA SpinStarts == SpinInit => SpinInv
<1> SUFFICES ASSUME SpinInit PROVE SpinInv
  OBVIOUS
<1>1. \A t \in Lockers : \A k \in ScopedOf[t] : scoped[t][k] = Loose
  BY DEF SpinInit
<1>2. \A t \in Lockers : locking[t] = NotLocking
  BY DEF SpinInit
<1>3. \A t \in Lockers : \A k \in ScopedOf[t] : \A m \in Mutexes : ~Owns(t, k, m)
  BY <1>1 DEF Loose, Owns, Holding
<1>4. SpinTyped
  BY <1>1, <1>2 DEF SpinInit, SpinTyped, ScopedLocks, Loose, LockCalls
<1>5. CallsOK
  BY <1>1, <1>2 DEF CallsOK, CallOK, Acquiring, LockStep, NotLocking, Loose
<1>6. OneOwner
  BY <1>3 DEF OneOwner, SpinInit
<1>7. WritesPassOn
  BY <1>3 DEF WritesPassOn, SpinInit, HasAcquired, Owns, Holding, GuardedWrites
<1> QED
  BY <1>4, <1>5, <1>6, <1>7 DEF SpinInv

\* A call that begins changes nothing but itself.
LEMMA SpinBegins ==
  ASSUME SpinInv, NEW t \in Lockers, NEW k \in ScopedOf[t], NEW j \in ScopedOf[t],
         NEW next \in {"Exchange", "Try", "Move", "Done"}, NEW m \in Mutexes \cup {NoMutex},
         BeginCall(t, k, next, m, j),
         next = "Done" => scoped[t][k].acquired,
         next \in {"Exchange", "Try"} =>
           m \in Mutexes /\ \A i \in ScopedOf[t] \ {k} : ~Owns(t, i, m),
         next = "Move" => j # k
  PROVE  SpinInv'
<1> USE DEF SpinInv
<1>1. locking'[t] = [step |-> IF scoped[t][k].acquired THEN "Release" ELSE next,
                     lock |-> k, next |-> next, mutex |-> m, from |-> j]
  BY DEF BeginCall, SpinTyped
<1>2. locking' = [u \in Lockers |-> locking'[u]] /\ \A u \in Lockers \ {t} : locking'[u] = locking[u]
  BY DEF BeginCall, SpinTyped
<1>3. UNCHANGED <<lockState, carries, sees, scoped>>
  BY DEF BeginCall
<1>4. SpinTyped'
  <2>1. locking'[t] \in LockCalls(t)
    BY <1>1 DEF LockCalls
  <2>2. LockCalls(t) = LockCalls(t)' /\ \A u \in Lockers : LockCalls(u) = LockCalls(u)'
    BY DEF LockCalls
  <2> QED
    BY <1>2, <1>3, <2>1, <2>2 DEF SpinTyped
<1>5. CallsOK'
  <2>1. ASSUME NEW u \in Lockers \ {t} PROVE CallOK(u)'
    <3>1. CallOK(u)
      BY DEF CallsOK
    <3> QED
      BY <1>2, <1>3, <2>1, <3>1 DEF CallOK, Acquiring, LockStep, CalledLock, Owns
  <2>2. CallOK(t)'
    BY <1>1, <1>3 DEF CallOK, Acquiring, LockStep, CalledLock, Owns
  <2> QED
    BY <1>3, <2>1, <2>2 DEF CallsOK
<1> QED
  BY <1>3, <1>4, <1>5 DEF OneOwner, WritesPassOn, Owns, HasAcquired

\* The store that releases.
LEMMA SpinReleases ==
  ASSUME SpinInv, NEW t \in Lockers, StoreFalse(t)
  PROVE  SpinInv'
<1> USE DEF SpinInv
<1>0. /\ LockStep(t, "Release") /\ locking[t] # NotLocking
      /\ locking[t].lock \in ScopedOf[t] /\ CalledLock(t).acquired
  BY DEF StoreFalse, SpinTyped, CallsOK, CallOK, LockStep, LockCalls, NotLocking
<1>1. PICK k \in ScopedOf[t], m \in Mutexes : k = locking[t].lock /\ scoped[t][k] = Holding(m)
  <2>1. scoped[t][locking[t].lock] \in ScopedLocks
    BY <1>0 DEF SpinTyped
  <2>2. scoped[t][locking[t].lock].mutex \in Mutexes /\ scoped[t][locking[t].lock].acquired
    BY <1>0 DEF CallsOK, CalledLock
  <2> QED
    BY <1>0, <2>1, <2>2 DEF ScopedLocks, Holding
<1>a. CalledLock(t).mutex = m /\ Owns(t, k, m)
  BY <1>1 DEF CalledLock, Holding, Owns
<1>2. /\ lockState' = [lockState EXCEPT ![m] = FALSE]
      /\ carries' = [carries EXCEPT ![m] = sees[t]]
      /\ UNCHANGED sees
  BY <1>a DEF StoreFalse, PublishedBy
<1>3. /\ scoped' = [u \in Lockers |-> scoped'[u]]
      /\ \A u \in Lockers \ {t} : scoped'[u] = scoped[u]
      /\ scoped'[t] = [scoped[t] EXCEPT ![k].acquired = FALSE]
  BY <1>1 DEF StoreFalse, SpinTyped
<1>4. /\ \A j \in ScopedOf[t] \ {k} : scoped'[t][j] = scoped[t][j]
      /\ scoped'[t][k] = [mutex |-> m, acquired |-> FALSE]
      /\ scoped'[t] \in [ScopedOf[t] -> ScopedLocks]
  <2>1. [scoped[t][k] EXCEPT !.acquired = FALSE] = [mutex |-> m, acquired |-> FALSE]
    <3> DEFINE left == [scoped[t][k] EXCEPT !.acquired = FALSE]
    <3>1. scoped[t][k] \in ScopedLocks /\ scoped[t][k].mutex = m
      BY <1>1 DEF ScopedLocks, Holding
    <3>2. left \in ScopedLocks /\ left.mutex = m /\ left.acquired = FALSE
      BY <3>1 DEF ScopedLocks
    <3> HIDE DEF left
    <3>3. left = [mutex |-> m, acquired |-> FALSE]
      BY <3>2 DEF ScopedLocks
    <3> QED
      BY <3>3 DEF left
  <2>2. scoped[t] \in [ScopedOf[t] -> ScopedLocks]
    BY DEF SpinTyped
  <2>3. [mutex |-> m, acquired |-> FALSE] \in ScopedLocks
    BY <1>1 DEF ScopedLocks
  <2> QED
    BY <1>1, <1>3, <2>1, <2>2, <2>3
<1>5. /\ locking' = [u \in Lockers |-> locking'[u]]
      /\ \A u \in Lockers \ {t} : locking'[u] = locking[u]
      /\ \/ locking'[t] = NotLocking
         \/ locking[t].next # "Done" /\ locking'[t] = [locking[t] EXCEPT !.step = locking[t].next]
  BY DEF StoreFalse, SpinTyped, EndCall
<1>6. locking'[t] = NotLocking \/
        /\ locking'[t].step = locking[t].next /\ locking[t].next \in {"Exchange", "Try", "Move"}
        /\ locking'[t].lock = k /\ locking'[t].next = locking[t].next
        /\ locking'[t].mutex = locking[t].mutex /\ locking'[t].from = locking[t].from
        /\ locking'[t] \in LockCalls(t)
  BY <1>0, <1>1, <1>5 DEF SpinTyped, LockCalls
<1>7. SpinTyped'
  <2>1. \A u \in Lockers : locking'[u] \in LockCalls(u)
    BY <1>5, <1>6 DEF SpinTyped, LockCalls
  <2>2. \A u \in Lockers : scoped'[u] \in [ScopedOf[u] -> ScopedLocks]
    BY <1>3, <1>4 DEF SpinTyped
  <2>3. lockState' \in [Mutexes -> BOOLEAN] /\ carries' \in [Mutexes -> SUBSET GuardedWrites]
        /\ sees' \in [Lockers -> SUBSET GuardedWrites]
    BY <1>2 DEF SpinTyped
  <2>4. scoped' = [u \in Lockers |-> scoped'[u]] /\ locking' = [u \in Lockers |-> locking'[u]]
    BY <1>3, <1>5
  <2> HIDE DEF SpinInv
  <2> QED
    BY <2>1, <2>2, <2>3, <2>4 DEF SpinTyped, LockCalls
<1>8. \A u \in Lockers : \A j \in ScopedOf[u] : \A n \in Mutexes :
        Owns(u, j, n)' <=> Owns(u, j, n) /\ ~(u = t /\ j = k)
  BY <1>3, <1>4 DEF Owns, Holding
<1>9. CallsOK'
  <2>1. ASSUME NEW u \in Lockers \ {t} PROVE CallOK(u)'
    <3>1. CallOK(u)
      BY DEF CallsOK
    <3> QED
      BY <1>3, <1>5, <2>1, <3>1 DEF CallOK, Acquiring, LockStep, CalledLock, Owns
  <2>2. CallOK(t)'
    <3>1. CallOK(t)
      BY DEF CallsOK
    <3>2. CASE locking'[t] = NotLocking
      BY <3>2 DEF CallOK, Acquiring, LockStep, NotLocking
    <3>3. CASE locking'[t] # NotLocking
      <4>1. ~scoped'[t][locking'[t].lock].acquired
        BY <1>4, <1>6, <3>3
      <4>2. Acquiring(t)' => Acquiring(t)
        BY <1>0, <1>6, <3>3 DEF Acquiring, LockStep
      <4>3. ASSUME Acquiring(t), NEW j \in ScopedOf[t] \ {k} PROVE ~Owns(t, j, locking[t].mutex)'
        <5>1. ~Owns(t, j, locking[t].mutex) /\ locking[t].mutex \in Mutexes
          BY <1>1, <3>1, <4>3 DEF CallOK
        <5>2. locking'[t].mutex = locking[t].mutex
          BY <1>6, <3>3
        <5> QED
          BY <1>8, <5>1, <5>2
      <4> QED
        BY <1>0, <1>1, <1>6, <3>1, <3>3, <4>1, <4>2, <4>3 DEF CallOK, LockStep, CalledLock
    <3> QED
      BY <3>2, <3>3
  <2>3. \A u \in Lockers : \A j \in ScopedOf[u] : scoped'[u][j].acquired => scoped'[u][j].mutex \in Mutexes
    BY <1>3, <1>4 DEF CallsOK
  <2> QED
    BY <2>1, <2>2, <2>3 DEF CallsOK
<1>10. OneOwner'
  <2>1. ASSUME NEW n \in Mutexes
        PROVE  lockState'[n] <=> \E u \in Lockers : \E j \in ScopedOf[u] : Owns(u, j, n)'
    <3>1. CASE n = m
      <4>1. \A u \in Lockers : \A j \in ScopedOf[u] : ~Owns(u, j, n)'
        BY <1>a, <1>8, <3>1 DEF OneOwner
      <4> QED
        BY <1>2, <3>1, <4>1 DEF SpinTyped
    <3>2. CASE n # m
      <4>1. ~Owns(t, k, n)
        BY <1>1, <3>2 DEF Owns, Holding
      <4>2. lockState'[n] <=> lockState[n]
        BY <1>2, <3>2 DEF SpinTyped
      <4>3. \A u \in Lockers : \A j \in ScopedOf[u] : Owns(u, j, n)' <=> Owns(u, j, n)
        BY <1>8, <4>1
      <4> QED
        BY <4>2, <4>3 DEF OneOwner
    <3> QED
      BY <3>1, <3>2
  <2> QED
    BY <1>8, <2>1 DEF OneOwner
<1>11. WritesPassOn'
  <2>1. \A u \in Lockers, n \in Mutexes : HasAcquired(u, n)' => HasAcquired(u, n)
    BY <1>8 DEF HasAcquired, Owns, Holding
  <2>2. \A u \in Lockers : <<u, m>> \in sees[t]
    BY <1>a DEF WritesPassOn, HasAcquired, Owns, Holding
  <2> QED
    BY <1>2, <2>1, <2>2 DEF WritesPassOn, SpinTyped
<1> QED
  BY <1>7, <1>9, <1>10, <1>11

\* The exchange, of whichever call.
LEMMA SpinExchanges ==
  ASSUME SpinInv, NEW t \in Lockers, ExchangeTrue(t)
  PROVE  SpinInv'
<1> USE DEF SpinInv
<1>0. /\ LockStep(t, "Exchange") \/ LockStep(t, "Try")
      /\ locking[t] # NotLocking /\ Acquiring(t)
  BY DEF ExchangeTrue, LockStep, NotLocking, Acquiring
<1>1. PICK k \in ScopedOf[t], m \in Mutexes : k = locking[t].lock /\ m = locking[t].mutex
  BY <1>0 DEF SpinTyped, LockCalls, CallsOK, CallOK
<1>2. /\ ~scoped[t][k].acquired
      /\ \A j \in ScopedOf[t] \ {k} : ~Owns(t, j, m)
      /\ \A n \in Mutexes : ~Owns(t, k, n)
  BY <1>0, <1>1 DEF CallsOK, CallOK, CalledLock, LockStep, Owns, Holding
<1>3. /\ lockState' = [lockState EXCEPT ![m] = TRUE]
      /\ scoped' = [scoped EXCEPT ![t][k] = [mutex |-> m, acquired |-> ~lockState[m]]]
  BY <1>1 DEF ExchangeTrue
<1>4. /\ scoped' = [u \in Lockers |-> scoped'[u]]
      /\ \A u \in Lockers \ {t} : scoped'[u] = scoped[u]
      /\ \A j \in ScopedOf[t] \ {k} : scoped'[t][j] = scoped[t][j]
      /\ scoped'[t][k] = [mutex |-> m, acquired |-> ~lockState[m]]
      /\ scoped'[t] \in [ScopedOf[t] -> ScopedLocks]
  BY <1>3 DEF SpinTyped, ScopedLocks
<1>5. /\ locking' = [u \in Lockers |-> locking'[u]]
      /\ \A u \in Lockers \ {t} : locking'[u] = locking[u]
      /\ \/ locking'[t] = NotLocking
         \/ lockState[m] /\ locking'[t] = [locking[t] EXCEPT !.step = "Wait"]
  <2>1. \/ locking' = [locking EXCEPT ![t] = NotLocking]
        \/ lockState[m] /\ locking' = [locking EXCEPT ![t].step = "Wait"]
    BY <1>1, Zenon DEF ExchangeTrue, EndCall
  <2> HIDE DEF SpinInv
  <2>2. locking = [u \in Lockers |-> locking[u]]
    BY DEF SpinInv, SpinTyped
  <2> QED
    BY <2>1, <2>2
<1>6. locking'[t] \in LockCalls(t)
  BY <1>0, <1>5 DEF SpinTyped, LockCalls
<1>7. ASSUME ~lockState[m]
      PROVE  /\ \A u \in Lockers : u # t => sees'[u] = sees[u] \ {<<t, m>>}
             /\ sees'[t] = sees[t] \cup carries[m] \cup {<<t, m>>}
             /\ \A n \in Mutexes : carries'[n] = carries[n] \ {<<t, m>>}
  <2>1. {t} \X {m} = {<<t, m>>}
    OBVIOUS
  <2>2. EntersMutex(t, m)
    BY <1>1, <1>7 DEF ExchangeTrue
  <2> QED
    BY <2>1, <2>2 DEF EntersMutex
<1>8. ASSUME lockState[m]
      PROVE  carries' = carries /\ sees' = [sees EXCEPT ![t] = @ \cup carries[m]]
  BY <1>1, <1>8 DEF ExchangeTrue
<1>9. carries' \in [Mutexes -> SUBSET GuardedWrites] /\ sees' \in [Lockers -> SUBSET GuardedWrites]
  <2>1. CASE ~lockState[m]
    <3>1. EntersMutex(t, m)
      BY <1>1, <2>1 DEF ExchangeTrue
    <3>2. carries' = [n \in Mutexes |-> carries'[n]] /\ sees' = [u \in Lockers |-> sees'[u]]
      BY <3>1 DEF EntersMutex
    <3>3. <<t, m>> \in GuardedWrites
      BY DEF GuardedWrites
    <3>4. \A n \in Mutexes : carries'[n] \in SUBSET GuardedWrites
      BY <1>7, <2>1 DEF SpinTyped
    <3>5. \A u \in Lockers : sees'[u] \in SUBSET GuardedWrites
      BY <1>7, <2>1, <3>3 DEF SpinTyped
    <3> QED
      BY <3>2, <3>4, <3>5
  <2>2. CASE lockState[m]
    BY <1>8, <2>2 DEF SpinTyped
  <2> QED
    BY <2>1, <2>2
<1>10. SpinTyped'
  <2>1. \A u \in Lockers : locking'[u] \in LockCalls(u)
    BY <1>5, <1>6 DEF SpinTyped
  <2>2. \A u \in Lockers : scoped'[u] \in [ScopedOf[u] -> ScopedLocks]
    BY <1>4 DEF SpinTyped
  <2>3. lockState' \in [Mutexes -> BOOLEAN]
    BY <1>3 DEF SpinTyped
  <2> HIDE DEF SpinInv
  <2> QED
    BY <1>4, <1>5, <1>9, <2>1, <2>2, <2>3 DEF SpinTyped, LockCalls
<1>11. \A u \in Lockers : \A j \in ScopedOf[u] : \A n \in Mutexes :
         Owns(u, j, n)' <=> Owns(u, j, n) \/ (u = t /\ j = k /\ n = m /\ ~lockState[m])
  <2> HIDE DEF SpinInv
  <2>1. lockState[m] \in BOOLEAN
    BY DEF SpinInv, SpinTyped
  <2>2. \A n \in Mutexes : Owns(t, k, n)' <=> n = m /\ ~lockState[m]
    <3>1. CASE lockState[m]
      <4>1. scoped'[t][k].acquired = FALSE
        <5>1. (~lockState[m]) = FALSE
          BY <2>1, <3>1
        <5>2. scoped'[t][k] = [mutex |-> m, acquired |-> FALSE]
          BY <1>4, <5>1, Zenon
        <5> QED
          BY <5>2
      <4> QED
        BY <3>1, <4>1 DEF Owns, Holding
    <3>2. CASE ~lockState[m]
      <4>1. scoped'[t][k] = Holding(m)
        BY <1>4, <2>1, <3>2 DEF Holding
      <4>2. \A n : Holding(m) = Holding(n) => m = n
        BY DEF Holding
      <4> QED
        BY <3>2, <4>1, <4>2 DEF Owns
    <3> QED
      BY <3>1, <3>2
  <2>3. \A u \in Lockers : \A j \in ScopedOf[u] : ~(u = t /\ j = k) => scoped'[u][j] = scoped[u][j]
    BY <1>4
  <2> QED
    BY <1>2, <2>2, <2>3 DEF Owns
<1>12. CallsOK'
  <2>1. ASSUME NEW u \in Lockers \ {t} PROVE CallOK(u)'
    <3>1. CallOK(u)
      BY DEF CallsOK
    <3> QED
      BY <1>4, <1>5, <2>1, <3>1 DEF CallOK, Acquiring, LockStep, CalledLock, Owns
  <2>2. CallOK(t)'
    <3>1. CASE locking'[t] = NotLocking
      BY <3>1 DEF CallOK, Acquiring, LockStep, NotLocking
    <3>2. CASE lockState[m] /\ locking'[t] = [locking[t] EXCEPT !.step = "Wait"]
      <4>1. /\ locking'[t].step = "Wait" /\ locking'[t].lock = k /\ locking'[t].mutex = m
        BY <1>0, <1>1, <3>2 DEF SpinTyped, LockCalls
      <4>2. ~scoped'[t][k].acquired
        <5>1. lockState[m] \in BOOLEAN
          BY DEF SpinTyped
        <5> HIDE DEF SpinInv
        <5>2. (~lockState[m]) = FALSE
          BY <3>2, <5>1
        <5> QED
          <6>1. scoped'[t][k] = [mutex |-> m, acquired |-> FALSE]
            BY <1>4, <5>2, Zenon
          <6> QED
            BY <6>1
      <4>3. \A j \in ScopedOf[t] \ {k} : ~Owns(t, j, m)'
        BY <1>2, <1>11
      <4> QED
        BY <4>1, <4>2, <4>3 DEF CallOK, LockStep, CalledLock
    <3> QED
      BY <1>5, <3>1, <3>2
  <2>3. \A u \in Lockers : \A j \in ScopedOf[u] : scoped'[u][j].acquired => scoped'[u][j].mutex \in Mutexes
    BY <1>4 DEF CallsOK
  <2> QED
    BY <2>1, <2>2, <2>3 DEF CallsOK
<1>13. OneOwner'
  <2>1. ASSUME ~lockState[m] PROVE \A u \in Lockers : \A j \in ScopedOf[u] : ~Owns(u, j, m)
    BY <2>1 DEF OneOwner
  <2>2. ASSUME NEW n \in Mutexes, NEW u \in Lockers, NEW v \in Lockers,
               NEW i \in ScopedOf[u], NEW j \in ScopedOf[v], Owns(u, i, n)', Owns(v, j, n)'
        PROVE  u = v /\ i = j
    BY <1>11, <2>1, <2>2 DEF OneOwner
  <2>3. ASSUME NEW n \in Mutexes
        PROVE  lockState'[n] <=> \E u \in Lockers : \E j \in ScopedOf[u] : Owns(u, j, n)'
    <3>1. CASE n = m
      <4>1. lockState'[n]
        BY <1>3, <3>1 DEF SpinTyped
      <4>2. CASE lockState[m]
        BY <1>11, <3>1, <4>1, <4>2 DEF OneOwner
      <4>3. CASE ~lockState[m]
        BY <1>11, <3>1, <4>1, <4>3
      <4> QED
        BY <4>2, <4>3
    <3>2. CASE n # m
      <4>1. lockState'[n] <=> lockState[n]
        BY <1>3, <3>2 DEF SpinTyped
      <4>2. \A u \in Lockers : \A j \in ScopedOf[u] : Owns(u, j, n)' <=> Owns(u, j, n)
        BY <1>11, <3>2
      <4> QED
        BY <4>1, <4>2 DEF OneOwner
    <3> QED
      BY <3>1, <3>2
  <2> QED
    BY <2>2, <2>3 DEF OneOwner
<1>14. WritesPassOn'
  <2>1. \A u \in Lockers, n \in Mutexes :
          HasAcquired(u, n)' <=> HasAcquired(u, n) \/ (u = t /\ n = m /\ ~lockState[m])
    BY <1>11 DEF HasAcquired, Owns, Holding
  <2>2. \A n \in Mutexes : ~lockState'[n] => n # m /\ ~lockState[n]
    BY <1>3 DEF SpinTyped
  <2>3. CASE lockState[m]
    <3>1. \A u \in Lockers : sees[u] \subseteq sees'[u]
      BY <1>8, <2>3 DEF SpinTyped
    <3> QED
      BY <1>8, <2>1, <2>2, <2>3, <3>1 DEF WritesPassOn
  <2>4. CASE ~lockState[m]
    <3>1. ASSUME NEW n \in Mutexes, ~lockState'[n], NEW u \in Lockers PROVE <<u, n>> \in carries'[n]
      BY <1>7, <2>2, <2>4, <3>1 DEF WritesPassOn
    <3>2. ASSUME NEW v \in Lockers, HasAcquired(v, m)' PROVE v = t
      <4>1. ~HasAcquired(v, m)
        BY <2>4 DEF HasAcquired, OneOwner, Owns, Holding
      <4> QED
        BY <2>1, <3>2, <4>1
    <3>3. \A u \in Lockers : <<u, m>> \in sees'[t]
      BY <1>7, <2>4 DEF WritesPassOn
    <3>4. ASSUME NEW n \in Mutexes \ {m}, NEW v \in Lockers, HasAcquired(v, n)', NEW u \in Lockers
          PROVE  <<u, n>> \in sees'[v]
      <4>1. <<u, n>> \in sees[v]
        BY <2>1, <3>4 DEF WritesPassOn
      <4> QED
        BY <1>7, <2>4, <4>1
    <3> QED
      BY <3>1, <3>2, <3>3, <3>4 DEF WritesPassOn
  <2> QED
    BY <2>3, <2>4
<1> QED
  BY <1>10, <1>12, <1>13, <1>14

\* One ScopedLock takes over what another has.
LEMMA SpinMoves ==
  ASSUME SpinInv, NEW t \in Lockers, MoveScoped(t)
  PROVE  SpinInv'
<1> USE DEF SpinInv
<1>0. LockStep(t, "Move") /\ locking[t] # NotLocking
  BY DEF MoveScoped, LockStep, NotLocking
<1>1. PICK k, j \in ScopedOf[t] : k = locking[t].lock /\ j = locking[t].from /\ j # k
  BY <1>0 DEF SpinTyped, LockCalls, CallsOK, CallOK
<1>2. ~scoped[t][k].acquired /\ \A n \in Mutexes : ~Owns(t, k, n)
  <2>1. ~LockStep(t, "None") /\ ~LockStep(t, "Release")
    BY <1>0 DEF LockStep
  <2>2. ~scoped[t][k].acquired
    BY <1>1, <2>1 DEF CallsOK, CallOK, CalledLock
  <2> QED
    BY <2>2 DEF Owns, Holding
<1>3. /\ scoped' = [u \in Lockers |-> scoped'[u]]
      /\ \A u \in Lockers \ {t} : scoped'[u] = scoped[u]
      /\ \A i \in ScopedOf[t] \ {k, j} : scoped'[t][i] = scoped[t][i]
      /\ scoped'[t][k] = scoped[t][j]
      /\ scoped'[t][j] = Loose
      /\ scoped'[t] \in [ScopedOf[t] -> ScopedLocks]
  BY <1>1 DEF MoveScoped, SpinTyped, MovedFrom, Loose, ScopedLocks
<1>4. /\ locking' = [u \in Lockers |-> locking'[u]]
      /\ \A u \in Lockers \ {t} : locking'[u] = locking[u]
      /\ locking'[t] = NotLocking
  BY DEF MoveScoped, SpinTyped, EndCall
<1>5. UNCHANGED <<lockState, carries, sees>>
  BY DEF MoveScoped
<1>6. SpinTyped'
  <2>1. \A u \in Lockers : locking'[u] \in LockCalls(u)
    BY <1>4 DEF SpinTyped, LockCalls
  <2>2. \A u \in Lockers : scoped'[u] \in [ScopedOf[u] -> ScopedLocks]
    BY <1>3 DEF SpinTyped
  <2>3. lockState' \in [Mutexes -> BOOLEAN] /\ carries' \in [Mutexes -> SUBSET GuardedWrites]
        /\ sees' \in [Lockers -> SUBSET GuardedWrites]
    BY <1>5 DEF SpinTyped
  <2> HIDE DEF SpinInv
  <2> QED
    BY <1>3, <1>4, <2>1, <2>2, <2>3 DEF SpinTyped, LockCalls
<1>7. \A u \in Lockers : \A n \in Mutexes :
        /\ u # t => \A i \in ScopedOf[u] : Owns(u, i, n)' <=> Owns(u, i, n)
        /\ \A i \in ScopedOf[t] \ {k, j} : Owns(t, i, n)' <=> Owns(t, i, n)
        /\ Owns(t, k, n)' <=> Owns(t, j, n)
        /\ ~Owns(t, j, n)'
  BY <1>3 DEF Owns, Holding, Loose
<1>8. CallsOK'
  <2>1. ASSUME NEW u \in Lockers \ {t} PROVE CallOK(u)'
    <3>1. CallOK(u)
      BY DEF CallsOK
    <3> QED
      BY <1>3, <1>4, <2>1, <3>1 DEF CallOK, Acquiring, LockStep, CalledLock, Owns
  <2>2. CallOK(t)'
    BY <1>4 DEF CallOK, Acquiring, LockStep, NotLocking
  <2>3. \A u \in Lockers : \A i \in ScopedOf[u] : scoped'[u][i].acquired => scoped'[u][i].mutex \in Mutexes
    BY <1>3 DEF CallsOK, Loose
  <2> QED
    BY <2>1, <2>2, <2>3 DEF CallsOK
<1>9. \A n \in Mutexes, u \in Lockers :
        (\E i \in ScopedOf[u] : Owns(u, i, n)') <=> (\E i \in ScopedOf[u] : Owns(u, i, n))
  BY <1>1, <1>2, <1>7
<1>10. OneOwner'
  <2>1. ASSUME NEW n \in Mutexes, NEW u \in Lockers, NEW v \in Lockers,
               NEW i \in ScopedOf[u], NEW h \in ScopedOf[v], Owns(u, i, n)', Owns(v, h, n)'
        PROVE  u = v /\ i = h
    <3>1. u = v
      BY <1>9, <2>1 DEF OneOwner
    <3>2. CASE u # t
      BY <1>7, <2>1, <3>1, <3>2 DEF OneOwner
    <3>3. CASE u = t
      <4> DEFINE Was(x) == IF x = k THEN j ELSE x
      <4>1. \A x \in ScopedOf[t] : Owns(t, x, n)' => x # j /\ Was(x) \in ScopedOf[t] /\ Owns(t, Was(x), n)
        BY <1>1, <1>7
      <4>2. Was(i) = Was(h)
        BY <2>1, <3>1, <3>3, <4>1 DEF OneOwner
      <4> QED
        BY <1>1, <2>1, <3>1, <3>3, <4>1, <4>2
    <3> QED
      BY <3>2, <3>3
  <2> QED
    BY <1>5, <1>9, <2>1 DEF OneOwner
<1>11. WritesPassOn'
  BY <1>5, <1>9 DEF WritesPassOn, HasAcquired, Owns, Holding
<1> QED
  BY <1>6, <1>8, <1>10, <1>11

\* SpinInv is inductive.
LEMMA SpinInvariant == SpinInv /\ [SpinNext]_spinVars => SpinInv'
<1> SUFFICES ASSUME SpinInv, [SpinNext]_spinVars PROVE SpinInv'
  OBVIOUS
<1>1. CASE UNCHANGED spinVars
  BY <1>1 DEF spinVars, SpinInv, SpinTyped, CallsOK, CallOK, Acquiring, OneOwner, WritesPassOn,
     HasAcquired, Owns, LockStep, CalledLock, LockCalls
<1>2. ASSUME NEW t \in Lockers, CallAcquire(t) PROVE SpinInv'
  <2>1. PICK k \in ScopedOf[t], m \in Mutexes, next \in {"Exchange", "Try"} :
          /\ \A i \in ScopedOf[t] \ {k} : scoped[t][i] # [mutex |-> m, acquired |-> TRUE]
          /\ BeginCall(t, k, next, m, k)
    BY <1>2 DEF CallAcquire
  <2> QED
    BY <2>1, SpinBegins DEF Owns, Holding
<1>3. ASSUME NEW t \in Lockers, CallRelease(t) PROVE SpinInv'
  <2>1. PICK k \in ScopedOf[t] : scoped[t][k].acquired /\ BeginCall(t, k, "Done", scoped[t][k].mutex, k)
    BY <1>3 DEF CallRelease
  <2>2. scoped[t][k].mutex \in Mutexes
    BY <2>1 DEF SpinInv, CallsOK
  <2> QED
    BY <2>1, <2>2, SpinBegins
<1>4. ASSUME NEW t \in Lockers, CallMove(t) PROVE SpinInv'
  <2>1. PICK k, j \in ScopedOf[t] : k # j /\ BeginCall(t, k, "Move", NoMutex, j)
    BY <1>4 DEF CallMove
  <2> QED
    BY <2>1, SpinBegins
<1>5. ASSUME NEW t \in Lockers, LoadFalse(t) PROVE SpinInv'
  <2>1. /\ locking' = [locking EXCEPT ![t].step = "Exchange"] /\ LockStep(t, "Wait")
        /\ UNCHANGED <<lockState, carries, sees, scoped>>
    BY <1>5 DEF LoadFalse
  <2>2. /\ locking' = [u \in Lockers |-> locking'[u]]
        /\ \A u \in Lockers \ {t} : locking'[u] = locking[u]
        /\ locking'[t] = [locking[t] EXCEPT !.step = "Exchange"] /\ locking[t] # NotLocking
    BY <2>1 DEF SpinInv, SpinTyped, LockStep, NotLocking
  <2>3. locking'[t] \in LockCalls(t) /\ locking'[t].step = "Exchange"
        /\ locking'[t].lock = locking[t].lock /\ locking'[t].mutex = locking[t].mutex
    BY <2>2 DEF SpinInv, SpinTyped, LockCalls
  <2>4. SpinTyped'
    BY <2>1, <2>2, <2>3 DEF SpinInv, SpinTyped, LockCalls
  <2>5. CallsOK'
    <3>1. ASSUME NEW u \in Lockers \ {t} PROVE CallOK(u)'
      <4>1. CallOK(u)
        BY DEF SpinInv, CallsOK
      <4> QED
        BY <2>1, <2>2, <3>1, <4>1 DEF CallOK, Acquiring, LockStep, CalledLock, Owns
    <3>2. CallOK(t)'
      <4>1. CallOK(t)
        BY DEF SpinInv, CallsOK
      <4> QED
        BY <2>1, <2>3, <4>1 DEF CallOK, Acquiring, LockStep, CalledLock, Owns
    <3> QED
      BY <2>1, <3>1, <3>2 DEF SpinInv, CallsOK
  <2> QED
    BY <2>1, <2>4, <2>5 DEF SpinInv, OneOwner, WritesPassOn, Owns, HasAcquired
<1> QED
  BY <1>1, <1>2, <1>3, <1>4, <1>5, SpinReleases, SpinExchanges, SpinMoves DEF SpinNext

\* A mutex is locked exactly while one ScopedLock of one thread says that it has acquired
\* it, and that thread sees what every thread wrote under the mutex, for any mutexes,
\* threads and locks, however locks are moved and associated (spinMutex.h:66-189).
THEOREM SpinExclusion == SpinSpec => []SpinMutexesExclude
<1>1. SpinInv => SpinMutexesExclude
  <2> SUFFICES ASSUME SpinInv, NEW m \in Mutexes
               PROVE  /\ Cardinality(Owners(m)) = IF lockState[m] THEN 1 ELSE 0
                      /\ \A t, u \in Lockers : HasAcquired(t, m) => <<u, m>> \in sees[t]
    BY DEF SpinMutexesExclude
  <2>1. \A x : x \in Owners(m) <=>
          \E t \in Lockers : \E k \in ScopedOf[t] : x = <<t, k>> /\ Owns(t, k, m)
    <3>1. ASSUME NEW x
          PROVE  x \in Owners(m) <=> \E t \in Lockers : \E k \in ScopedOf[t] :
                   x = <<t, k>> /\ scoped[t][k] = [mutex |-> m, acquired |-> TRUE]
      <4> DEFINE Of(t) == {j \in ScopedOf[t] : scoped[t][j] = [mutex |-> m, acquired |-> TRUE]}
      <4>1. Owners(m) = UNION {{<<t, k>> : k \in Of(t)} : t \in Lockers}
        BY DEF Owners
      <4>2. \A t : \A k : k \in Of(t) <=>
              k \in ScopedOf[t] /\ scoped[t][k] = [mutex |-> m, acquired |-> TRUE]
        OBVIOUS
      <4> HIDE DEF Of
      <4>3. x \in Owners(m) <=> \E t \in Lockers : x \in {<<t, k>> : k \in Of(t)}
        BY <4>1
      <4> QED
        BY <4>2, <4>3, Zenon
    <3> QED
      BY <3>1, Zenon DEF Owns, Holding
  <2>2. \A x, y \in Owners(m) : x = y
    BY <2>1 DEF SpinInv, OneOwner
  <2>3. Owners(m) # {} <=> lockState[m]
    BY <2>1 DEF SpinInv, OneOwner
  <2> HIDE DEF Owners
  <2>4. Cardinality(Owners(m)) = Ones(Owners(m) # {})
    BY <2>2, AtMostOne
  <2> QED
    BY <2>3, <2>4 DEF Ones, SpinInv, WritesPassOn
<1> QED
  BY <1>1, SpinStarts, SpinInvariant, PTL DEF SpinSpec

-----------------------------------------------------------------------------
(* TfAtomicOfstreamWrapper and TfSafeOutputFile.  A writer that replaces   *)
(* has a temporary file that nobody else has, and does not rename it       *)
(* before it is whole, unless its last flush failed; who updates has a     *)
(* file that no temporary name leads to.                                   *)

ToBeRenamed == {"Stat", "ReadUmask", "RestoreUmask", "Chmod", "Rename"}
\* A writer that has a temporary file of its own.
Replacing(w) == /\ output[w].at \in {"Made", "Open", "Unlink"} \cup ToBeRenamed
                /\ output[w].kind # "Update"

Modes == {"Chosen", "Temporary", "Kept", "Cleared", "None"}
FileRecords == [parts : Nat, mode : Modes]
Outputs == [at : {"Shut", "Made", "Open", "Unlink", "Closed"} \cup ToBeRenamed,
            kind : {"None", "Replace", "Stream", "Update"}, file : Nat, mode : Modes,
            failed : BOOLEAN, cut : BOOLEAN]
FileTyped ==
  /\ files \in Seq(FileRecords)
  /\ target \in 0 .. Len(files)
  /\ temps \subseteq 1 .. Len(files)
  /\ umask \in Modes
  /\ output \in [Writers -> Outputs]
  /\ \A w \in Writers : output[w].file <= Len(files)

\* Nobody else has a writer's temporary file, which is whole or cut before it is renamed; who
\* updates has a file that was the target and never has a temporary name again.
WriterOK(w) ==
  /\ output[w].at = "Shut" => output[w].file = 0 /\ output[w].kind = "None"
  /\ output[w].kind = "Update" => /\ output[w].at \in {"Open", "Closed"}
                                  /\ output[w].file \in (1 .. Len(files)) \ temps
  /\ Replacing(w) => /\ output[w].file \in temps
                     /\ \A v \in Writers \ {w} : output[v].file # output[w].file
  /\ output[w].at \in ToBeRenamed => IsWhole(output[w].file) \/ output[w].cut

FileInv == FileTyped /\ (\A w \in Writers : WriterOK(w)) /\ ReplacedAtOnce

-----------------------------------------------------------------------------

\* A writer with nothing open is one.
LEMMA ShutIsOutput == Shut \in Outputs
BY DEF Shut, Outputs, Modes

\* At first there is the target and no temporary file.
LEMMA FileStarts == FileInit => FileInv
<1> SUFFICES ASSUME FileInit PROVE FileInv
  OBVIOUS
<1>1. \/ files = <<[parts |-> Parts, mode |-> "Chosen"]>> /\ target = 1
      \/ files = <<>> /\ target = 0
  BY ZenonT(20) DEF FileInit
<1>2. \A w \in Writers : output[w] = Shut
  BY DEF FileInit
<1>3. output \in [Writers -> Outputs]
  <2>1. Shut \in Outputs
    BY DEF Shut, Outputs, Modes
  <2> QED
    BY <2>1 DEF FileInit
<1>4. FileTyped
  <2>1. files \in Seq(FileRecords) /\ target \in 0 .. Len(files)
    <3>1. [parts |-> Parts, mode |-> "Chosen"] \in FileRecords
      BY DEF FileRecords, Modes, Parts
    <3> DEFINE whole == [parts |-> Parts, mode |-> "Chosen"]
    <3> HIDE DEF whole
    <3>2. CASE files = <<whole>> /\ target = 1
      BY <3>1, <3>2 DEF whole
    <3>3. CASE files = <<>> /\ target = 0
      BY <3>3
    <3> QED
      BY <1>1, <3>2, <3>3 DEF whole
  <2> QED
    BY <1>2, <1>3, <2>1 DEF FileInit, FileTyped, Shut, Modes
<1>5. \A w \in Writers : WriterOK(w)
  BY <1>2 DEF WriterOK, Replacing, ToBeRenamed, Shut
<1>6. ReplacedAtOnce
  BY <1>1 DEF FileInit, ReplacedAtOnce, IsWhole, Parts
<1> QED
  BY <1>4, <1>5, <1>6 DEF FileInv

\* A writer's place, mode and cut are set, and nothing else of any writer.
Places == {"Shut", "Made", "Open", "Unlink", "Closed"} \cup ToBeRenamed
WriterGoes(w, at, mode, cut) ==
  /\ \A v \in Writers \ {w} : output'[v] = output[v]
  /\ output' \in [Writers -> Outputs]
  /\ output'[w].at = at /\ output'[w].mode = mode /\ output'[w].cut = cut
  /\ output'[w].kind = output[w].kind /\ output'[w].file = output[w].file
  /\ output'[w].failed = output[w].failed

LEMMA WriterIsSet ==
  ASSUME FileTyped, NEW w \in Writers, NEW at \in Places, NEW mode \in Modes, NEW cut \in BOOLEAN,
         \/ output' = [output EXCEPT ![w].at = at] /\ mode = output[w].mode /\ cut = output[w].cut
         \/ output' = [output EXCEPT ![w].at = at, ![w].mode = mode] /\ cut = output[w].cut
         \/ output' = [output EXCEPT ![w].at = at, ![w].cut = cut] /\ mode = output[w].mode
  PROVE  WriterGoes(w, at, mode, cut)
<1> DEFINE new == [output[w] EXCEPT !.at = at, !.mode = mode, !.cut = cut]
<1>1. output \in [Writers -> Outputs] /\ output[w] \in Outputs
  BY DEF FileTyped
<1>2. \A r \in Outputs : LET n == [r EXCEPT !.at = at, !.mode = mode, !.cut = cut] IN
        /\ n.at = at /\ n.mode = mode /\ n.kind = r.kind /\ n.file = r.file
        /\ n.failed = r.failed /\ n.cut = cut
  BY DEF Outputs
<1>3. new \in Outputs
  BY <1>1 DEF Outputs, Places
<1>4. output' = [output EXCEPT ![w] = new]
  <2>1. CASE output' = [output EXCEPT ![w].at = at] /\ mode = output[w].mode /\ cut = output[w].cut
    <3>1. new = [output[w] EXCEPT !.at = at]
      BY <1>1, <2>1 DEF Outputs
    <3> QED
      BY <2>1, <3>1
  <2>2. CASE output' = [output EXCEPT ![w].at = at, ![w].mode = mode] /\ cut = output[w].cut
    <3>1. new = [output[w] EXCEPT !.at = at, !.mode = mode]
      BY <1>1, <2>2 DEF Outputs
    <3> QED
      BY <2>2, <3>1
  <2>3. CASE output' = [output EXCEPT ![w].at = at, ![w].cut = cut] /\ mode = output[w].mode
    <3>1. new = [output[w] EXCEPT !.at = at, !.cut = cut]
      BY <1>1, <2>3 DEF Outputs
    <3> QED
      BY <2>3, <3>1
  <2> QED
    BY <2>1, <2>2, <2>3
<1> QED
  BY <1>1, <1>2, <1>3, <1>4 DEF WriterGoes

\* A step of a writer that neither takes up nor lets go of a file.
LEMMA WriterMoves ==
  ASSUME FileInv, NEW w \in Writers, NEW at, NEW mode \in Modes, NEW cut \in BOOLEAN,
         WriterGoes(w, at, mode, cut),
         umask' \in Modes, output[w].cut => cut,
         UNCHANGED <<target, temps>>,
         files' \in Seq(FileRecords), Len(files') = Len(files),
         \A f \in 1 .. Len(files) : f = output[w].file \/ files'[f].parts = files[f].parts,
         output[w].at \in {"Made", "Open", "Unlink"} \cup ToBeRenamed, at # "Shut",
         output[w].kind = "Update" => at \in {"Open", "Closed"},
         output[w].kind # "Update" => at \in {"Open", "Unlink"} \cup ToBeRenamed,
         at \in ToBeRenamed => files'[output[w].file].parts = Parts \/ cut
  PROVE  FileInv'
<1>1. /\ \A v \in Writers \ {w} : output'[v] = output[v]
      /\ output'[w] \in Outputs /\ output'[w].at = at /\ output'[w].mode = mode
      /\ output'[w].kind = output[w].kind /\ output'[w].file = output[w].file
      /\ output'[w].failed = output[w].failed /\ output'[w].cut = cut
      /\ output' \in [Writers -> Outputs]
  BY DEF WriterGoes
<1>2. FileTyped'
  BY <1>1 DEF FileInv, FileTyped
<1>3. ASSUME NEW v \in Writers \ {w} PROVE WriterOK(v)'
  <2>1. WriterOK(v) /\ output'[v] = output[v]
    BY <1>1 DEF FileInv
  <2>2. output[v].at \in ToBeRenamed => Replacing(v)
    BY <2>1 DEF WriterOK, Replacing, ToBeRenamed
  <2>3. output[v].at \in ToBeRenamed => IsWhole(output[v].file)' \/ output[v].cut
    BY <2>1, <2>2 DEF FileInv, FileTyped, WriterOK, IsWhole
  <2>4. \A u \in Writers : output'[u].file = output[u].file
    BY <1>1
  <2> QED
    BY <2>1, <2>3, <2>4 DEF WriterOK, Replacing
<1>4. WriterOK(w)'
  <2>1. WriterOK(w) /\ output'[w].at # "Shut"
    BY <1>1 DEF FileInv
  <2>2. output'[w].kind = "Update" => output'[w].at \in {"Open", "Closed"}
                                      /\ output'[w].file \in (1 .. Len(files')) \ temps'
    BY <1>1, <2>1 DEF WriterOK
  <2>3. Replacing(w)' => Replacing(w)
    BY <1>1, <2>1 DEF Replacing, ToBeRenamed, WriterOK
  <2>4. Replacing(w)' => /\ output'[w].file \in temps'
                         /\ \A v \in Writers \ {w} : output'[v].file # output'[w].file
    BY <1>1, <2>1, <2>3 DEF WriterOK
  <2>5. output'[w].at \in ToBeRenamed => IsWhole(output[w].file)' \/ output'[w].cut
    BY <1>1 DEF IsWhole
  <2> QED
    BY <1>1, <2>1, <2>2, <2>4, <2>5 DEF WriterOK
<1>5. ReplacedAtOnce'
  <2>1. ASSUME target # 0 PROVE IsWhole(target)' \/ UpdatedInPlace(target)' \/ CutShort(target)'
    <3>1. CASE target = output[w].file
      <4>1. output[w].kind = "Update"
        BY <1>1, <3>1 DEF FileInv, WriterOK, Replacing, ToBeRenamed, ReplacedAtOnce
      <4> QED
        BY <1>1, <3>1, <4>1 DEF UpdatedInPlace
    <3>2. CASE target # output[w].file
      <4>1. files'[target].parts = files[target].parts
        BY <2>1, <3>2 DEF FileInv, FileTyped
      <4>2. /\ UpdatedInPlace(target) => UpdatedInPlace(target)'
            /\ CutShort(target) => CutShort(target)'
        BY <1>1 DEF UpdatedInPlace, CutShort
      <4> QED
        BY <2>1, <4>1, <4>2 DEF FileInv, ReplacedAtOnce, IsWhole
    <3> QED
      BY <3>1, <3>2
  <2>2. ASSUME NEW f \in temps
        PROVE  f # target /\ \E v \in Writers : output'[v].file = f /\ (output'[v].at # "Closed" \/ output'[v].failed)
    <3>1. PICK v \in Writers : output[v].file = f /\ (output[v].at # "Closed" \/ output[v].failed)
      BY DEF FileInv, ReplacedAtOnce
    <3>2. v = w => output'[v].at # "Closed"
      BY <1>1, <3>1 DEF FileInv, WriterOK, ToBeRenamed
    <3> QED
      BY <1>1, <3>1, <3>2 DEF FileInv, ReplacedAtOnce
  <2> QED
    BY <2>1, <2>2 DEF ReplacedAtOnce
<1> QED
  BY <1>2, <1>3, <1>4, <1>5 DEF FileInv

\* A writer is done: its file has a name only if it has reported an error or has just
\* become the target.
LEMMA WriterEnds ==
  ASSUME FileInv, NEW w \in Writers,
         \A v \in Writers \ {w} : output'[v] = output[v],
         output' \in [Writers -> Outputs], output'[w].at = "Closed",
         output'[w].kind = output[w].kind, output'[w].file = output[w].file,
         output'[w].cut = output[w].cut,
         Replacing(w) \/ output[w].at = "Shut",
         UNCHANGED <<files, umask>>,
         \/ UNCHANGED <<target, temps>> /\ (output'[w].failed \/ output[w].file = 0)
         \/ target' = target /\ temps' = temps \ {output[w].file}
         \/ /\ output[w].at \in ToBeRenamed /\ Replacing(w)
            /\ target' = output[w].file /\ temps' = temps \ {output[w].file}
  PROVE  FileInv'
<1>1. WriterOK(w) /\ FileTyped
  BY DEF FileInv
<1>a. Replacing(w) => output[w].file \in temps
  BY <1>1 DEF WriterOK
<1>2. /\ temps' \subseteq temps
      /\ target' = target \/ (target' \in temps /\ target' = output[w].file)
  <2>1. CASE UNCHANGED <<target, temps>>
    BY <2>1
  <2>2. CASE target' = target /\ temps' = temps \ {output[w].file}
    BY <2>2
  <2>3. CASE Replacing(w) /\ target' = output[w].file /\ temps' = temps \ {output[w].file}
    BY <1>a, <2>3
  <2> QED
    BY <2>1, <2>2, <2>3, Zenon
<1>3. FileTyped'
  <2>1. \A v \in Writers : output'[v].file = output[v].file
    OBVIOUS
  <2>2. target' \in 0 .. Len(files)
    <3>1. target \in 0 .. Len(files) /\ temps \subseteq 1 .. Len(files) /\ Len(files) \in Nat
      BY <1>1 DEF FileTyped
    <3>2. CASE target' = target
      BY <3>1, <3>2
    <3>3. CASE target' \in temps
      BY <3>1, <3>3
    <3> QED
      BY <1>2, <3>2, <3>3
  <2> QED
    BY <1>1, <1>2, <2>1, <2>2 DEF FileTyped
<1>4. ASSUME NEW v \in Writers \ {w} PROVE WriterOK(v)'
  <2>1. WriterOK(v)
    BY DEF FileInv
  <2>2. Replacing(v)' => Replacing(v)
    BY DEF Replacing
  <2>3. ASSUME Replacing(v)
        PROVE  output'[v].file \in temps' /\ \A u \in Writers \ {v} : output'[u].file # output'[v].file
    <3>1. output[v].file \in temps /\ \A u \in Writers \ {v} : output[u].file # output[v].file
      BY <2>1, <2>3 DEF WriterOK
    <3> QED
      BY <3>1
  <2>4. output'[v].at \in ToBeRenamed => IsWhole(output[v].file)' \/ output'[v].cut
    BY <2>1 DEF WriterOK, IsWhole
  <2>5. output'[v].kind = "Update" => output'[v].at \in {"Open", "Closed"}
                                      /\ output'[v].file \in (1 .. Len(files')) \ temps'
    BY <1>2, <2>1 DEF WriterOK
  <2> QED
    BY <2>1, <2>2, <2>3, <2>4, <2>5 DEF WriterOK
<1>5. WriterOK(w)'
  BY <1>1 DEF WriterOK, Replacing, ToBeRenamed
<1>6. ReplacedAtOnce'
  <2>1. ReplacedAtOnce
    BY DEF FileInv
  <2>2. ASSUME target' # 0 PROVE IsWhole(target)' \/ UpdatedInPlace(target)' \/ CutShort(target)'
    <3>1. CASE target' = target
      <4>1. /\ UpdatedInPlace(target) => UpdatedInPlace(target)'
            /\ CutShort(target) => CutShort(target)'
        BY <3>1 DEF UpdatedInPlace, CutShort
      <4> QED
        BY <2>1, <2>2, <3>1, <4>1 DEF ReplacedAtOnce, IsWhole
    <3>2. CASE target' # target
      <4>1. output[w].at \in ToBeRenamed /\ target' = output[w].file
        BY <3>2
      <4> QED
        BY <1>1, <4>1 DEF WriterOK, IsWhole, CutShort
    <3> QED
      BY <3>1, <3>2
  <2>3. ASSUME NEW g \in temps'
        PROVE  g # target' /\ \E v \in Writers : output'[v].file = g /\ (output'[v].at # "Closed" \/ output'[v].failed)
    <3>1. g \in temps /\ g # target /\ g # 0
      BY <1>1, <1>2, <2>1 DEF ReplacedAtOnce, FileTyped
    <3>2. PICK v \in Writers : output[v].file = g /\ (output[v].at # "Closed" \/ output[v].failed)
      BY <2>1, <3>1 DEF ReplacedAtOnce
    <3>3. v = w => output'[w].failed
      BY <3>1, <3>2
    <3> QED
      BY <3>1, <3>2, <3>3
  <2> QED
    BY <2>2, <2>3 DEF ReplacedAtOnce
<1> QED
  BY <1>3, <1>4, <1>5, <1>6 DEF FileInv

\* A new temporary file.
LEMMA WriterMakes ==
  ASSUME FileInv, NEW w \in Writers, output[w].at = "Shut", NEW kind \in {"Replace", "Stream"},
         files' = Append(files, [parts |-> 0, mode |-> "Temporary"]),
         temps' = temps \cup {Len(files) + 1},
         output' = [output EXCEPT ![w] =
                      [Shut EXCEPT !.at = "Made", !.kind = kind, !.file = Len(files) + 1]],
         UNCHANGED <<target, umask>>
  PROVE  FileInv'
<1>1. FileTyped /\ Len(files) \in Nat
  BY DEF FileInv, FileTyped
<1>2. [parts |-> 0, mode |-> "Temporary"] \in FileRecords
  BY DEF FileRecords, Modes
<1>3. /\ files' \in Seq(FileRecords) /\ Len(files') = Len(files) + 1
      /\ \A f \in 1 .. Len(files) : files'[f] = files[f]
  BY <1>1, <1>2 DEF FileTyped
<1>4. /\ output'[w] \in Outputs /\ output'[w].at = "Made" /\ output'[w].kind = kind
      /\ output'[w].file = Len(files) + 1
      /\ \A v \in Writers \ {w} : output'[v] = output[v]
      /\ output' \in [Writers -> Outputs]
  <2>1. \A r \in Outputs :
          LET new == [r EXCEPT !.at = "Made", !.kind = kind, !.file = Len(files) + 1] IN
          new.at = "Made" /\ new.kind = kind /\ new.file = Len(files) + 1
    BY DEF Outputs
  <2>2. \A r \in Outputs :
          [r EXCEPT !.at = "Made", !.kind = kind, !.file = Len(files) + 1] \in Outputs
    <3>1. kind \in {"None", "Replace", "Stream", "Update"} /\ Len(files) + 1 \in Nat
      BY <1>1
    <3>2. \A k \in {"None", "Replace", "Stream", "Update"}, n \in Nat : \A r \in Outputs :
            [r EXCEPT !.at = "Made", !.kind = k, !.file = n] \in Outputs
      BY DEF Outputs
    <3> QED
      BY <3>1, <3>2
  <2> QED
    BY <1>1, <2>1, <2>2, ShutIsOutput DEF FileTyped
<1>5. FileTyped'
  <2>1. \A v \in Writers : output'[v].file <= Len(files')
    BY <1>1, <1>3, <1>4 DEF FileTyped, Outputs
  <2>2. target' \in 0 .. Len(files') /\ temps' \subseteq 1 .. Len(files')
    BY <1>1, <1>3 DEF FileTyped
  <2> QED
    BY <1>1, <1>3, <1>4, <2>1, <2>2 DEF FileTyped
<1>6. ASSUME NEW v \in Writers \ {w} PROVE WriterOK(v)'
  <2>1. WriterOK(v) /\ output[v].file \in 0 .. Len(files)
    BY <1>1 DEF FileInv, FileTyped, Outputs
  <2>2. Replacing(v)' <=> Replacing(v)
    BY <1>4 DEF Replacing
  <2>3. ASSUME Replacing(v)
        PROVE  output'[v].file \in temps' /\ \A u \in Writers \ {v} : output'[u].file # output'[v].file
    <3>1. output[v].file \in temps /\ \A u \in Writers \ {v} : output[u].file # output[v].file
      BY <2>1, <2>3 DEF WriterOK
    <3> QED
      BY <1>1, <1>4, <2>1, <3>1
  <2>4. output'[v].at \in ToBeRenamed => IsWhole(output[v].file)' \/ output'[v].cut
    <3>1. output[v].at \in ToBeRenamed => output[v].kind # "Update" /\ output[v].file \in 1 .. Len(files)
      BY <1>1, <2>1 DEF WriterOK, Replacing, ToBeRenamed, FileTyped
    <3> QED
      BY <1>3, <1>4, <2>1, <3>1 DEF WriterOK, IsWhole
  <2> QED
    BY <1>1, <1>3, <1>4, <2>1, <2>2, <2>3, <2>4 DEF WriterOK
<1>7. WriterOK(w)'
  <2>1. \A u \in Writers \ {w} : output'[u].file # output'[w].file
    BY <1>1, <1>4 DEF FileTyped, Outputs
  <2> QED
    BY <1>4, <2>1 DEF WriterOK, Replacing, ToBeRenamed
<1>8. ReplacedAtOnce'
  <2>1. ReplacedAtOnce /\ output[w].file = 0 /\ output[w].kind = "None"
    BY DEF FileInv, WriterOK
  <2>2. ASSUME target # 0 PROVE IsWhole(target)' \/ UpdatedInPlace(target)' \/ CutShort(target)'
    <3>1. files'[target] = files[target]
      BY <1>1, <1>3, <2>2 DEF FileTyped
    <3>2. /\ UpdatedInPlace(target) => UpdatedInPlace(target)'
          /\ CutShort(target) => CutShort(target)'
      BY <1>4, <2>1, <2>2 DEF UpdatedInPlace, CutShort
    <3> QED
      BY <2>1, <2>2, <3>1, <3>2 DEF ReplacedAtOnce, IsWhole
  <2>3. ASSUME NEW g \in temps'
        PROVE  g # target /\ \E v \in Writers : output'[v].file = g /\ (output'[v].at # "Closed" \/ output'[v].failed)
    <3>1. CASE g = Len(files) + 1
      BY <1>1, <1>4, <3>1 DEF FileTyped
    <3>2. CASE g \in temps
      <4>1. g # 0 /\ g # target
        BY <1>1, <2>1, <3>2 DEF FileTyped, ReplacedAtOnce
      <4>2. PICK v \in Writers : output[v].file = g /\ (output[v].at # "Closed" \/ output[v].failed)
        BY <2>1, <3>2 DEF ReplacedAtOnce
      <4> QED
        BY <1>4, <2>1, <4>1, <4>2
    <3> QED
      BY <3>1, <3>2
  <2> QED
    BY <2>2, <2>3 DEF ReplacedAtOnce
<1> QED
  BY <1>5, <1>6, <1>7, <1>8 DEF FileInv

\* The target is opened to be updated.
LEMMA WriterUpdates ==
  ASSUME FileInv, NEW w \in Writers, OpenUpdating(w)
  PROVE  FileInv'
<1>1. FileTyped /\ target \in 1 .. Len(files) /\ target \notin temps
      /\ output[w].at = "Shut" /\ output[w].file = 0
  BY DEF FileInv, FileTyped, OpenUpdating, Is, WriterOK, ReplacedAtOnce
<1>2. /\ files' \in Seq(FileRecords) /\ Len(files') = Len(files)
      /\ \A f \in 1 .. Len(files) : f # target => files'[f] = files[f]
  <2>1. files[target] \in FileRecords
    BY <1>1 DEF FileTyped
  <2>2. [files[target] EXCEPT !.parts = 0] \in FileRecords
    BY <2>1 DEF FileRecords
  <2>3. files' = [files EXCEPT ![target] = [files[target] EXCEPT !.parts = 0]]
    BY DEF OpenUpdating
  <2> QED
    BY <1>1, <2>2, <2>3 DEF FileTyped
<1>3. /\ output'[w] \in Outputs /\ output'[w].at = "Open" /\ output'[w].kind = "Update"
      /\ output'[w].file = target
      /\ \A v \in Writers \ {w} : output'[v] = output[v]
      /\ output' \in [Writers -> Outputs]
  <2>1. \A r \in Outputs :
          LET new == [r EXCEPT !.at = "Open", !.kind = "Update", !.file = target] IN
          new.at = "Open" /\ new.kind = "Update" /\ new.file = target
    BY DEF Outputs
  <2>2. \A r \in Outputs :
          [r EXCEPT !.at = "Open", !.kind = "Update", !.file = target] \in Outputs
    <3>1. target \in Nat
      BY <1>1
    <3>2. \A n \in Nat : \A r \in Outputs :
            [r EXCEPT !.at = "Open", !.kind = "Update", !.file = n] \in Outputs
      BY DEF Outputs
    <3> QED
      BY <3>1, <3>2
  <2> QED
    BY <1>1, <2>1, <2>2, ShutIsOutput DEF FileTyped, OpenUpdating
<1>4. UNCHANGED <<target, temps, umask>>
  BY DEF OpenUpdating
<1>5. FileTyped'
  BY <1>1, <1>2, <1>3, <1>4 DEF FileTyped
<1>6. ASSUME NEW v \in Writers \ {w} PROVE WriterOK(v)'
  <2>1. WriterOK(v)
    BY DEF FileInv
  <2>2. Replacing(v)' <=> Replacing(v)
    BY <1>3 DEF Replacing
  <2>3. ASSUME Replacing(v)
        PROVE  output'[v].file \in temps' /\ \A u \in Writers \ {v} : output'[u].file # output'[v].file
    <3>1. output[v].file \in temps /\ \A u \in Writers \ {v} : output[u].file # output[v].file
      BY <2>1, <2>3 DEF WriterOK
    <3> QED
      BY <1>1, <1>3, <1>4, <3>1
  <2>4. output'[v].at \in ToBeRenamed => IsWhole(output[v].file)' \/ output'[v].cut
    <3>1. output[v].at \in ToBeRenamed => output[v].file \in temps
      BY <2>1 DEF WriterOK, Replacing, ToBeRenamed
    <3> QED
      BY <1>1, <1>2, <1>3, <2>1, <3>1 DEF WriterOK, IsWhole, FileTyped
  <2> QED
    BY <1>2, <1>3, <1>4, <2>1, <2>2, <2>3, <2>4 DEF WriterOK
<1>7. WriterOK(w)'
  BY <1>1, <1>2, <1>3, <1>4 DEF WriterOK, Replacing, ToBeRenamed
<1>8. ReplacedAtOnce'
  <2>1. ReplacedAtOnce
    BY DEF FileInv
  <2>2. UpdatedInPlace(target)'
    BY <1>3, <1>4 DEF UpdatedInPlace
  <2>3. ASSUME NEW g \in temps
        PROVE  g # target /\ \E v \in Writers : output'[v].file = g /\ (output'[v].at # "Closed" \/ output'[v].failed)
    <3>1. g # 0 /\ g # target
      BY <1>1, <2>1 DEF FileTyped, ReplacedAtOnce
    <3>2. PICK v \in Writers : output[v].file = g /\ (output[v].at # "Closed" \/ output[v].failed)
      BY <2>1 DEF ReplacedAtOnce
    <3> QED
      BY <1>1, <1>3, <3>1, <3>2
  <2> QED
    BY <1>4, <2>2, <2>3 DEF ReplacedAtOnce
<1> QED
  BY <1>5, <1>6, <1>7, <1>8 DEF FileInv

\* The steps of one writer.
LEMMA WriterSteps ==
  ASSUME FileInv, NEW w \in Writers,
         \/ OpenStream(w) \/ Write(w) \/ CloseOutput(w) \/ DiscardOutput(w) \/ Unlink(w)
         \/ StatTarget(w) \/ ReadUmask(w) \/ RestoreUmask(w) \/ Chmod(w) \/ Renames(w)
         \/ OpenUpdating(w) \/ \E kind \in KindsOfOutput \ {"Update"} : OpenReplacing(w, kind)
  PROVE  FileInv'
<1> DEFINE f == output[w].file
           Same == /\ files' \in Seq(FileRecords) /\ Len(files') = Len(files)
                   /\ \A g \in 1 .. Len(files) : g = f \/ files'[g].parts = files[g].parts
<1>a. /\ output \in [Writers -> Outputs] /\ output[w] \in Outputs
      /\ output[w].cut \in BOOLEAN /\ output[w].mode \in Modes /\ output[w].kind \in {"None", "Replace", "Stream", "Update"}
      /\ files \in Seq(FileRecords) /\ umask \in Modes /\ WriterOK(w)
      /\ f \in 0 .. Len(files) /\ Len(files) \in Nat
  BY DEF FileInv, FileTyped, Outputs
<1>b. ASSUME output[w].at \in {"Made", "Open", "Unlink"} \cup ToBeRenamed
      PROVE  /\ f \in 1 .. Len(files) /\ files[f] \in FileRecords
             /\ output[w].kind = "Update" => output[w].at = "Open"
             /\ output[w].kind # "Update" => Replacing(w)
             /\ output[w].at \in ToBeRenamed => files[f].parts = Parts \/ output[w].cut
  <2>1. output[w].kind # "Update" => Replacing(w)
    BY <1>b DEF Replacing
  <2>2. f \in 1 .. Len(files)
    BY <1>a, <2>1 DEF WriterOK, FileInv, FileTyped
  <2>3. files[f] \in FileRecords
    BY <1>a, <2>2
  <2>4. output[w].at \in {"Made", "Open", "Unlink"} \cup ToBeRenamed => output[w].at # "Closed"
    BY DEF ToBeRenamed
  <2> QED
    BY <1>a, <1>b, <2>1, <2>2, <2>3, <2>4 DEF WriterOK, IsWhole
<1>c. files' = files => Same
  BY <1>a
<1>d. ASSUME NEW changed \in FileRecords, f \in 1 .. Len(files), files' = [files EXCEPT ![f] = changed]
      PROVE  Same
  BY <1>a, <1>d
<1>e. ASSUME NEW at \in Places, output' = [output EXCEPT ![w].at = at]
      PROVE  WriterGoes(w, at, output[w].mode, output[w].cut)
  BY <1>a, <1>e, WriterIsSet DEF FileInv
<1>f. /\ {"Stat", "Chmod", "Rename", "ReadUmask", "RestoreUmask"} \subseteq ToBeRenamed
      /\ "Closed" \notin ToBeRenamed /\ "Unlink" \notin ToBeRenamed /\ "Open" \notin ToBeRenamed
      /\ "Shut" \notin ToBeRenamed
      /\ ToBeRenamed \subseteq Places /\ {"Open", "Unlink", "Closed"} \subseteq Places
  BY DEF ToBeRenamed, Places
\* What an output that is closed has become.
<1>g. ASSUME \/ output' = [output EXCEPT ![w].at = "Closed"]
             \/ output' = [output EXCEPT ![w].at = "Closed", ![w].failed = TRUE]
      PROVE  /\ \A v \in Writers \ {w} : output'[v] = output[v]
             /\ output' \in [Writers -> Outputs] /\ output'[w].at = "Closed"
             /\ output'[w].kind = output[w].kind /\ output'[w].file = output[w].file
             /\ output'[w].cut = output[w].cut
  <2>1. \A r \in Outputs : LET new == [r EXCEPT !.at = "Closed"] IN
          /\ new \in Outputs /\ new.at = "Closed" /\ new.kind = r.kind /\ new.file = r.file
          /\ new.cut = r.cut
    BY DEF Outputs
  <2>2. \A r \in Outputs : [r EXCEPT !.at = "Closed", !.failed = TRUE] \in Outputs
    BY DEF Outputs
  <2>3. \A r \in Outputs : LET new == [r EXCEPT !.at = "Closed", !.failed = TRUE] IN
          new.at = "Closed" /\ new.kind = r.kind /\ new.file = r.file /\ new.cut = r.cut
    BY DEF Outputs
  <2>4. CASE output' = [output EXCEPT ![w] = [output[w] EXCEPT !.at = "Closed"]]
    BY <1>a, <2>1, <2>4
  <2>5. CASE output' = [output EXCEPT ![w] = [output[w] EXCEPT !.at = "Closed", !.failed = TRUE]]
    BY <1>a, <2>2, <2>3, <2>5
  <2> QED
    BY <1>a, <1>g, <2>4, <2>5
<1>h. ASSUME output' = [output EXCEPT ![w].at = "Closed", ![w].failed = TRUE] PROVE output'[w].failed
  BY <1>a, <1>h DEF Outputs
<1> HIDE DEF f
<1>1. CASE DiscardOutput(w)
  <2>1. UNCHANGED <<files, target, temps, umask>> /\ output[w].at = "Open" /\ output[w].kind # "Update"
        /\ output' = [output EXCEPT ![w].at = "Unlink"]
    BY <1>1 DEF DiscardOutput, Is, To
  <2>2. Same /\ WriterGoes(w, "Unlink", output[w].mode, output[w].cut)
    BY <1>c, <1>e, <1>f, <2>1
  <2> QED
    BY <1>a, <1>f, <2>1, <2>2, WriterMoves DEF f
<1>2. CASE Write(w)
  <2>1. UNCHANGED <<target, temps, umask, output>> /\ output[w].at = "Open"
        /\ files' = [files EXCEPT ![f].parts = @ + 1]
    BY <1>2 DEF Write, Is, f
  <2>2. f \in 1 .. Len(files) /\ files[f] \in FileRecords
    BY <1>b, <2>1
  <2>3. [files[f] EXCEPT !.parts = @ + 1] \in FileRecords
    BY <2>2 DEF FileRecords
  <2>4. Same
    BY <1>d, <2>1, <2>2, <2>3
  <2>5. WriterGoes(w, "Open", output[w].mode, output[w].cut)
    BY <1>a, <2>1 DEF WriterGoes
  <2> QED
    BY <1>a, <1>f, <2>1, <2>4, <2>5, WriterMoves DEF f
<1>3. CASE CloseOutput(w)
  <2> PICK to : to = IF output[w].kind = "Update" THEN "Closed" ELSE "Stat"
    OBVIOUS
  <2>1. /\ UNCHANGED <<target, temps, umask>> /\ output[w].at = "Open"
        /\ \/ files' = [files EXCEPT ![f].parts = Parts] /\ output' = [output EXCEPT ![w].at = to]
           \/ files' = files /\ output' = [output EXCEPT ![w].at = to, ![w].cut = TRUE]
    BY <1>3 DEF CloseOutput, Is, f, To
  <2>2. f \in 1 .. Len(files) /\ files[f] \in FileRecords
    BY <1>b, <2>1
  <2>3. [files[f] EXCEPT !.parts = Parts] \in FileRecords /\ [files[f] EXCEPT !.parts = Parts].parts = Parts
    BY <2>2 DEF FileRecords, Parts
  <2>4. /\ output[w].kind = "Update" => to \in {"Open", "Closed"}
        /\ output[w].kind # "Update" => to \in {"Open", "Unlink"} \cup ToBeRenamed
        /\ to # "Shut" /\ to \in Places
    BY <1>f
  <2>5. CASE files' = [files EXCEPT ![f].parts = Parts] /\ output' = [output EXCEPT ![w].at = to]
    <3>1. Same /\ files'[f].parts = Parts
      BY <1>a, <1>d, <2>2, <2>3, <2>5
    <3>2. WriterGoes(w, to, output[w].mode, output[w].cut)
      BY <1>e, <2>4, <2>5
    <3>3. umask' \in Modes /\ UNCHANGED <<target, temps>>
      BY <1>a, <2>1
    <3> PICK mode \in Modes, cut \in BOOLEAN : mode = output[w].mode /\ cut = output[w].cut
      BY <1>a
    <3>4. WriterGoes(w, to, mode, cut) /\ (output[w].cut => cut)
          /\ (to \in ToBeRenamed => files'[output[w].file].parts = Parts \/ cut)
      BY <3>1, <3>2 DEF f
    <3>5. /\ files' \in Seq(FileRecords) /\ Len(files') = Len(files)
          /\ \A g \in 1 .. Len(files) : g = output[w].file \/ files'[g].parts = files[g].parts
      BY <3>1 DEF f
    <3> QED
      BY <2>1, <2>4, <3>3, <3>4, <3>5, WriterMoves
  <2>6. CASE files' = files /\ output' = [output EXCEPT ![w].at = to, ![w].cut = TRUE]
    <3>1. Same
      BY <1>c, <2>6
    <3>2. WriterGoes(w, to, output[w].mode, TRUE)
      BY <1>a, <2>4, <2>6, WriterIsSet DEF FileInv
    <3> QED
      BY <1>a, <2>1, <2>4, <3>1, <3>2, WriterMoves DEF f
  <2> QED
    BY <2>1, <2>5, <2>6
<1>4. CASE StatTarget(w)
  <2> DEFINE to == IF target = 0 THEN "ReadUmask" ELSE "Chmod"
             mode == IF target = 0 THEN "None" ELSE files[target].mode
  <2>1. UNCHANGED <<files, target, temps, umask>> /\ output[w].at = "Stat"
        /\ output' = [output EXCEPT ![w].at = to, ![w].mode = mode]
    BY <1>4 DEF StatTarget, Is
  <2>2. mode \in Modes
    <3>1. CASE target = 0
      BY <3>1 DEF Modes
    <3>2. CASE target # 0
      <4>1. files[target] \in FileRecords
        BY <1>a, <3>2 DEF FileInv, FileTyped
      <4>2. files[target].mode \in Modes
        BY <4>1 DEF FileRecords
      <4> QED
        BY <3>2, <4>2
    <3> QED
      BY <3>1, <3>2
  <2>3. to \in ToBeRenamed /\ output[w].at \in ToBeRenamed
    BY <1>f, <2>1
  <2>6. WriterGoes(w, to, mode, output[w].cut)
    BY <1>a, <1>f, <2>1, <2>2, <2>3, WriterIsSet DEF FileInv
  <2>4. output[w].kind # "Update" /\ (files[f].parts = Parts \/ output[w].cut)
    BY <1>b, <1>f, <2>1, <2>3
  <2>5. Same
    BY <1>c, <2>1
  <2> HIDE DEF to, mode
  <2> QED
    BY <1>a, <1>f, <2>1, <2>2, <2>3, <2>4, <2>5, <2>6, WriterMoves DEF f
<1>5. CASE ReadUmask(w) \/ RestoreUmask(w) \/ Chmod(w)
  <2>1. UNCHANGED <<target, temps>> /\ umask' \in Modes /\ output[w].at \in ToBeRenamed
        /\ \E to \in ToBeRenamed : \E mode \in Modes : WriterGoes(w, to, mode, output[w].cut)
    <3>1. CASE ReadUmask(w)
      <4>1. /\ UNCHANGED <<target, temps>> /\ umask' \in Modes /\ output[w].at = "ReadUmask"
            /\ output' = [output EXCEPT ![w].at = "RestoreUmask", ![w].mode = umask]
        BY <3>1 DEF ReadUmask, Is, Modes
      <4>2. WriterGoes(w, "RestoreUmask", umask, output[w].cut)
        BY <1>a, <1>f, <4>1, WriterIsSet DEF FileInv
      <4> QED
        BY <1>a, <1>f, <4>1, <4>2
    <3>2. CASE RestoreUmask(w)
      <4>1. /\ UNCHANGED <<target, temps>> /\ umask' = output[w].mode
            /\ output[w].at = "RestoreUmask" /\ output' = [output EXCEPT ![w].at = "Chmod"]
        BY <3>2 DEF RestoreUmask, Is, To
      <4>2. WriterGoes(w, "Chmod", output[w].mode, output[w].cut)
        BY <1>e, <1>f, <4>1
      <4> QED
        BY <1>a, <1>f, <4>1, <4>2
    <3>3. CASE Chmod(w)
      <4>1. /\ UNCHANGED <<target, temps, umask>> /\ output[w].at = "Chmod"
            /\ output' = [output EXCEPT ![w].at = "Rename"]
        BY <3>3 DEF Chmod, Is, To
      <4>2. WriterGoes(w, "Rename", output[w].mode, output[w].cut)
        BY <1>e, <1>f, <4>1
      <4> QED
        BY <1>a, <1>f, <4>1, <4>2
    <3> QED
      BY <1>5, <3>1, <3>2, <3>3
  <2>2. f \in 1 .. Len(files) /\ files[f] \in FileRecords
        /\ output[w].kind # "Update" /\ (files[f].parts = Parts \/ output[w].cut)
    BY <1>b, <1>f, <2>1
  <2>3. Same /\ (files'[f].parts = Parts \/ output[w].cut)
    <3>1. files' = files \/ files' = [files EXCEPT ![f].mode = output[w].mode]
      BY <1>5 DEF ReadUmask, RestoreUmask, Chmod, f
    <3>2. [files[f] EXCEPT !.mode = output[w].mode] \in FileRecords
          /\ [files[f] EXCEPT !.mode = output[w].mode].parts = files[f].parts
      BY <1>a, <2>2 DEF FileRecords
    <3>3. CASE files' = files
      BY <1>c, <2>2, <3>3
    <3>4. CASE files' = [files EXCEPT ![f] = [files[f] EXCEPT !.mode = output[w].mode]]
      BY <1>a, <1>d, <2>2, <3>2, <3>4
    <3> QED
      BY <3>1, <3>3, <3>4
  <2>4. PICK to \in ToBeRenamed, mode \in Modes :
           WriterGoes(w, to, mode, output[w].cut)
    BY <2>1
  <2> QED
    BY <1>a, <1>f, <2>1, <2>2, <2>3, <2>4, WriterMoves DEF f
<1>6. CASE OpenStream(w)
  <2>1. UNCHANGED <<files, target, temps, umask>> /\ output[w].at = "Made"
    BY <1>6 DEF OpenStream, Is
  <2>2. output[w].kind # "Update" /\ Replacing(w)
    BY <1>b, <2>1
  <2>3. CASE output' = [output EXCEPT ![w].at = "Open"]
    <3>1. WriterGoes(w, "Open", output[w].mode, output[w].cut) /\ Same
      BY <1>c, <1>e, <1>f, <2>1, <2>3
    <3> QED
      BY <1>a, <1>f, <2>1, <2>2, <3>1, WriterMoves DEF f
  <2>4. CASE output' = [output EXCEPT ![w].at = "Closed", ![w].failed = TRUE]
    BY <1>g, <1>h, <2>1, <2>2, <2>4, WriterEnds
  <2> QED
    BY <1>6, <2>3, <2>4 DEF OpenStream, To
<1>7. CASE Unlink(w)
  <2>1. UNCHANGED <<files, target, umask>> /\ output[w].at = "Unlink"
    BY <1>7 DEF Unlink, Is
  <2>2. output[w].kind # "Update" /\ Replacing(w)
    BY <1>b, <2>1
  <2>3. CASE temps' = temps \ {output[w].file} /\ output' = [output EXCEPT ![w].at = "Closed"]
    BY <1>g, <2>1, <2>2, <2>3, WriterEnds
  <2>4. CASE UNCHANGED temps /\ output' = [output EXCEPT ![w].at = "Closed", ![w].failed = TRUE]
    BY <1>g, <1>h, <2>1, <2>2, <2>4, WriterEnds
  <2> QED
    BY <1>7, <2>2, <2>3, <2>4 DEF Unlink, Unlinks, Closes, To
<1>8. CASE Renames(w)
  <2>1. UNCHANGED <<files, umask>> /\ output[w].at = "Rename" /\ output[w].at \in ToBeRenamed
    BY <1>8, <1>f DEF Renames, Is
  <2>2. output[w].kind # "Update" /\ Replacing(w)
    BY <1>b, <1>f, <2>1
  <2>3. CASE target' = output[w].file /\ temps' = temps \ {output[w].file}
             /\ output' = [output EXCEPT ![w].at = "Closed"]
    BY <1>g, <2>1, <2>2, <2>3, WriterEnds
  <2>4. CASE output' = [output EXCEPT ![w].at = "Closed", ![w].failed = TRUE] /\ UNCHANGED <<target, temps>>
    BY <1>g, <1>h, <2>1, <2>2, <2>4, WriterEnds
  <2> QED
    BY <1>8, <2>3, <2>4 DEF Renames, Closes, To
<1>9. ASSUME NEW kind \in KindsOfOutput \ {"Update"}, OpenReplacing(w, kind) PROVE FileInv'
  <2>1. UNCHANGED <<target, umask>> /\ output[w].at = "Shut" /\ kind \in {"Replace", "Stream"}
    BY <1>9 DEF OpenReplacing, Is
  <2>2. CASE output' = [output EXCEPT ![w].at = "Closed"] /\ UNCHANGED <<files, temps>>
    <3>1. output[w].file = 0
      BY <1>a, <2>1 DEF WriterOK
    <3> QED
      BY <1>g, <2>1, <2>2, <3>1, WriterEnds
  <2>3. CASE /\ files' = Append(files, [parts |-> 0, mode |-> "Temporary"])
             /\ temps' = temps \cup {Len(files) + 1}
             /\ output' = [output EXCEPT ![w] =
                             [Shut EXCEPT !.at = "Made", !.kind = kind, !.file = Len(files) + 1]]
    BY <2>1, <2>3, WriterMakes
  <2> QED
    BY <1>9, <2>2, <2>3 DEF OpenReplacing, Closes, To
<1> QED
  BY <1>1, <1>2, <1>3, <1>4, <1>5, <1>6, <1>7, <1>8, <1>9, WriterUpdates

\* The target is complete at any moment, and no temporary file is left behind by a writer
\* that has succeeded, however many write at once and wherever they stop
\* (atomicOfstreamWrapper.cpp:28-131, safeOutputFile.cpp:61-167).
THEOREM TargetIsReplacedAtOnce == FileSpec => []ReplacedAtOnce
<1>1. FileInv /\ [FileNext]_fileVars => FileInv'
  <2> SUFFICES ASSUME FileInv, [FileNext]_fileVars PROVE FileInv'
    OBVIOUS
  <2>1. CASE Crash \/ UNCHANGED fileVars
    <3>1. UNCHANGED <<files, target, temps, umask, output>>
      BY <2>1 DEF Crash, fileVars
    <3>2. FileTyped'
      BY <3>1 DEF FileInv, FileTyped
    <3>3. \A w \in Writers : WriterOK(w)'
      BY <3>1 DEF FileInv, WriterOK, Replacing, IsWhole
    <3>4. ReplacedAtOnce'
      BY <3>1 DEF FileInv, ReplacedAtOnce, IsWhole, UpdatedInPlace, CutShort
    <3> QED
      BY <3>2, <3>3, <3>4 DEF FileInv
  <2> QED
    BY <2>1, WriterSteps DEF FileNext
<1> QED
  BY <1>1, FileStarts, PTL DEF FileSpec, FileInv

-----------------------------------------------------------------------------
(* TfDebug.  Who stores states has the mutex and changes the nodes one at  *)
(* a time, so a symbol has its old and its new state meanwhile; each known *)
(* node has one of them, and who asks without the mutex may get either,    *)
(* but none that the symbol did not have during the call.                  *)

EnabledStates == {"Disabled", "Enabled"}
DebugCalls ==
  {Quiet}
  \cup [op : {"Read", "Initialize", "Reread"}, node : DebugNodes, may : SUBSET EnabledStates]
  \cup [op : {"Answer"}, says : EnabledStates, may : SUBSET EnabledStates]
  \cup [op : {"Store"}, todo : SUBSET DebugNodes, names : SUBSET Symbols, state : EnabledStates]
Asking(d) == debugCall[d].op \in {"Read", "Initialize", "Reread"}

DebugTyped ==
  /\ nodeState \in [DebugNodes -> EnabledStates \cup {"Uninitialized"}]
  /\ namesToNodes \subseteq DebugNodes
  /\ explicit \in [Symbols -> EnabledStates \cup {"Unset"}]
  /\ debugCall \in [Debuggers -> DebugCalls]

\* Who stores has the mutex; of the symbols it changes, the nodes it has still to store
\* to are those that do not have the new state.
OneStores ==
  /\ tableMutex = Nobody \/ tableMutex \in Debuggers
  /\ \A d \in Debuggers : Calls(d, "Store") <=> tableMutex = d
  /\ \A d \in Debuggers : Calls(d, "Store") =>
       /\ \A n \in debugCall[d].todo : n \in namesToNodes /\ SymbolOf[n] \in debugCall[d].names
       /\ \A n \in DebugNodes : SymbolOf[n] \in debugCall[d].names
            /\ nodeState[n] # "Uninitialized" /\ n \notin debugCall[d].todo
            => nodeState[n] = debugCall[d].state

\* A node is known before it is believed, and has a state its symbol has, or is being given.
NodesAreCurrent ==
  \A n \in DebugNodes : nodeState[n] # "Uninitialized" =>
    n \in namesToNodes /\ nodeState[n] \in Current(SymbolOf[n])

\* Who asks will take any state the symbol has now for an answer.
AnswersAreCurrent ==
  \A d \in Debuggers :
    /\ Asking(d) => Current(SymbolOf[debugCall[d].node]) \subseteq debugCall[d].may
    /\ Calls(d, "Reread") => nodeState[debugCall[d].node] # "Uninitialized"
    /\ Calls(d, "Answer") => debugCall[d].says \in debugCall[d].may

DebugInv == DebugTyped /\ OneStores /\ NodesAreCurrent /\ AnswersAreCurrent

-----------------------------------------------------------------------------

\* The states a symbol is given by one who stores.
LEMMA CurrentStates ==
  ASSUME NEW s, NEW x
  PROVE  x \in Current(s) <=>
           x = OfficialState(s) \/ \E d \in Debuggers : Calls(d, "Store") /\ s \in debugCall[d].names
                                                         /\ x = debugCall[d].state
BY DEF Current

\* What TF_DEBUG and the explicit settings say of a symbol is a state.
LEMMA OfficialIsState ==
  ASSUME DebugTyped, NEW s \in Symbols
  PROVE  OfficialState(s) \in EnabledStates
BY DEF DebugTyped, OfficialState, StateOf, EnabledStates

\* The official state depends on the two only.
LEMMA OfficialStays ==
  ASSUME UNCHANGED envTokens, NEW s, explicit'[s] = explicit[s]
  PROVE  OfficialState(s)' = OfficialState(s)
BY DEF OfficialState

\* At first nothing is known of any node.
LEMMA DebugStarts == DebugInit => DebugInv
<1> SUFFICES ASSUME DebugInit PROVE DebugInv
  OBVIOUS
<1>1. \A d \in Debuggers : debugCall[d] = Quiet
  BY DEF DebugInit
<1>2. Quiet.op = "Quiet"
  BY DEF Quiet
<1>3. DebugTyped
  BY DEF DebugInit, DebugTyped, EnabledStates, DebugCalls
<1>4. OneStores
  BY <1>1, <1>2, DebugAssumption DEF DebugInit, OneStores, Calls
<1>5. NodesAreCurrent
  BY DEF DebugInit, NodesAreCurrent
<1>6. AnswersAreCurrent
  BY <1>1, <1>2 DEF AnswersAreCurrent, Asking, Calls
<1> QED
  BY <1>3, <1>4, <1>5, <1>6 DEF DebugInv

\* A step of a call of IsEnabled that changes no state.
LEMMA AskingMoves ==
  ASSUME DebugInv, NEW d \in Debuggers, ~Calls(d, "Store"),
         NEW call \in DebugCalls, DebugGoes(d, call), call.op # "Store",
         call.op \in {"Read", "Initialize", "Reread"} =>
           Current(SymbolOf[call.node]) \subseteq call.may,
         call.op = "Reread" => nodeState[call.node] # "Uninitialized",
         call.op = "Answer" => call.says \in call.may,
         UNCHANGED <<nodeState, envTokens, explicit, tableMutex>>,
         namesToNodes \subseteq namesToNodes', namesToNodes' \subseteq DebugNodes
  PROVE  DebugInv'
<1>1. /\ debugCall' \in [Debuggers -> DebugCalls] /\ debugCall'[d] = call
      /\ \A e \in Debuggers \ {d} : debugCall'[e] = debugCall[e]
  BY DEF DebugGoes, DebugInv, DebugTyped
<1>2. \A e \in Debuggers : Calls(e, "Store")' <=> Calls(e, "Store")
  BY <1>1 DEF Calls
<1>3. \A s : Current(s)' = Current(s)
  <2>1. \A s : OfficialState(s)' = OfficialState(s)
    BY OfficialStays
  <2>3. ASSUME NEW s, NEW x PROVE x \in Current(s)' <=> x \in Current(s)
    BY <1>1, <1>2, <2>1 DEF Current
  <2> QED
    BY <2>3 DEF Current
<1>4. DebugTyped'
  BY <1>1 DEF DebugInv, DebugTyped
<1>5. OneStores'
  <2>1. ASSUME NEW e \in Debuggers, Calls(e, "Store") PROVE debugCall'[e] = debugCall[e]
    BY <1>1, <2>1
  <2> QED
    BY <1>2, <2>1 DEF DebugInv, OneStores
<1>6. NodesAreCurrent'
  BY <1>3 DEF DebugInv, NodesAreCurrent
<1>7. AnswersAreCurrent'
  <2>1. ASSUME NEW e \in Debuggers \ {d}
        PROVE  /\ Asking(e)' => Current(SymbolOf[debugCall[e].node])' \subseteq debugCall'[e].may
               /\ Calls(e, "Reread")' => nodeState'[debugCall'[e].node] # "Uninitialized"
               /\ Calls(e, "Answer")' => debugCall'[e].says \in debugCall'[e].may
    BY <1>1, <1>3 DEF DebugInv, AnswersAreCurrent, Asking, Calls
  <2>2. /\ Asking(d)' => Current(SymbolOf[debugCall[d].node])' \subseteq debugCall'[d].may
        /\ Calls(d, "Reread")' => nodeState'[debugCall'[d].node] # "Uninitialized"
        /\ Calls(d, "Answer")' => debugCall'[d].says \in debugCall'[d].may
    BY <1>1, <1>3 DEF Asking, Calls
  <2> QED
    BY <2>1, <2>2 DEF AnswersAreCurrent
<1> QED
  BY <1>4, <1>5, <1>6, <1>7 DEF DebugInv

\* The node that is asked for, and all others that are known, get the official state.
LEMMA NodeIsInitialized ==
  ASSUME DebugInv, NEW d \in Debuggers, InitializeNode(d)
  PROVE  DebugInv'
<1> DEFINE call == [debugCall[d] EXCEPT !.op = "Reread"]
<1>1. /\ debugCall[d] \in [op : {"Read", "Initialize", "Reread"}, node : DebugNodes, may : SUBSET EnabledStates]
      /\ debugCall[d].op = "Initialize" /\ tableMutex = Nobody /\ tableMutex' = Nobody
  BY DEF DebugInv, DebugTyped, DebugCalls, InitializeNode, Calls, Quiet
<1>a. PICK n \in DebugNodes, s \in Symbols : n = debugCall[d].node /\ s = SymbolOf[n]
  BY <1>1, DebugAssumption
<1>2. /\ call \in [op : {"Read", "Initialize", "Reread"}, node : DebugNodes, may : SUBSET EnabledStates]
      /\ call.op = "Reread" /\ call.node = n /\ call.may = debugCall[d].may
  BY <1>1, <1>a
<1>3. /\ debugCall' \in [Debuggers -> DebugCalls] /\ debugCall'[d] = call
      /\ \A e \in Debuggers \ {d} : debugCall'[e] = debugCall[e]
  BY <1>2 DEF InitializeNode, DebugGoes, DebugInv, DebugTyped, DebugCalls
<1>4. \A e \in Debuggers : ~Calls(e, "Store") /\ ~Calls(e, "Store")'
  BY <1>1, <1>2, <1>3, DebugAssumption DEF DebugInv, OneStores, Calls
<1>5. \A t \in Symbols : /\ OfficialState(t)' = OfficialState(t)
                         /\ Current(t) = {OfficialState(t)} /\ Current(t)' = {OfficialState(t)}
  <2>1. \A t : OfficialState(t)' = OfficialState(t)
    BY OfficialStays DEF InitializeNode
  <2> QED
    BY <1>4, <2>1 DEF Current
<1>6. /\ namesToNodes' = namesToNodes \cup {n}
      /\ nodeState' = [m \in DebugNodes |->
           IF m \in KnownNodes({s}) \cup {n} THEN OfficialState(s) ELSE nodeState[m]]
  BY <1>a DEF InitializeNode
<1> HIDE DEF call
<1>7. DebugTyped'
  <2>1. OfficialState(s) \in EnabledStates
    BY <1>2, OfficialIsState DEF DebugInv
  <2> QED
    BY <1>2, <1>3, <1>6, <2>1 DEF DebugInv, DebugTyped, InitializeNode
<1>8. OneStores'
  BY <1>1, <1>4 DEF DebugInv, OneStores
<1>9. NodesAreCurrent'
  <2>1. ASSUME NEW m \in DebugNodes, nodeState'[m] # "Uninitialized"
        PROVE  m \in namesToNodes' /\ nodeState'[m] = OfficialState(SymbolOf[m])
    <3>1. CASE m \in KnownNodes({s}) \cup {n}
      BY <1>6, <1>a, <3>1 DEF KnownNodes
    <3>2. CASE m \notin KnownNodes({s}) \cup {n}
      <4>1. nodeState[m] # "Uninitialized" /\ nodeState'[m] = nodeState[m]
        BY <1>6, <2>1, <3>2
      <4> QED
        BY <1>5, <1>6, <4>1, DebugAssumption DEF DebugInv, NodesAreCurrent
    <3> QED
      BY <3>1, <3>2
  <2> QED
    BY <1>5, <2>1, DebugAssumption DEF NodesAreCurrent
<1>10. AnswersAreCurrent'
  <2>0. \A m \in DebugNodes : nodeState[m] # "Uninitialized" => nodeState'[m] # "Uninitialized"
    BY <1>2, <1>6, OfficialIsState DEF DebugInv, EnabledStates
  <2>1. ASSUME NEW e \in Debuggers \ {d}
        PROVE  /\ Asking(e)' => Current(SymbolOf[debugCall[e].node])' \subseteq debugCall'[e].may
               /\ Calls(e, "Reread")' => nodeState'[debugCall'[e].node] # "Uninitialized"
               /\ Calls(e, "Answer")' => debugCall'[e].says \in debugCall'[e].may
    <3>1. Asking(e) => debugCall[e].node \in DebugNodes /\ SymbolOf[debugCall[e].node] \in Symbols
      BY DebugAssumption DEF Asking, DebugInv, DebugTyped, DebugCalls, Quiet
    <3> QED
      BY <1>3, <1>5, <2>0, <3>1 DEF DebugInv, AnswersAreCurrent, Asking, Calls
  <2>2. /\ Asking(d)' /\ Current(s)' \subseteq debugCall'[d].may
        /\ nodeState'[debugCall'[d].node] # "Uninitialized"
        /\ ~Calls(d, "Answer")'
    <3>1. Current(s) \subseteq debugCall[d].may
      BY <1>1, <1>a DEF DebugInv, AnswersAreCurrent, Asking
    <3>2. nodeState'[n] = OfficialState(s)
      BY <1>2, <1>6
    <3>3. OfficialState(s) # "Uninitialized"
      BY <1>2, OfficialIsState DEF DebugInv, EnabledStates
    <3> QED
      BY <1>2, <1>3, <1>5, <3>1, <3>2, <3>3 DEF Asking, Calls
  <2> QED
    BY <1>2, <1>3, <1>a, <2>1, <2>2 DEF AnswersAreCurrent
<1> QED
  BY <1>7, <1>8, <1>9, <1>10 DEF DebugInv

\* The stores begin: of the symbols that are to change, all nodes that have a state are
\* among those to be stored to.
LEMMA StoresBegin ==
  ASSUME DebugInv, NEW d \in Debuggers, tableMutex = Nobody, tableMutex' = d, Calls(d, "Quiet"),
         NEW stored \in SUBSET DebugNodes, NEW names \in SUBSET Symbols, NEW state \in EnabledStates,
         BeginStores(d, stored, names, state),
         UNCHANGED <<nodeState, envTokens, explicit>>,
         namesToNodes \subseteq namesToNodes', namesToNodes' \subseteq DebugNodes,
         \A n \in stored : n \in namesToNodes' /\ SymbolOf[n] \in names,
         \A n \in namesToNodes : SymbolOf[n] \in names => n \in stored
  PROVE  DebugInv'
<1> DEFINE step == [op |-> "Store", todo |-> stored, names |-> names, state |-> state]
           Told(e) == Asking(e) /\ SymbolOf[debugCall[e].node] \in names
<1>1. /\ debugCall' = [e \in Debuggers |-> debugCall'[e]] /\ debugCall'[d] = step
      /\ \A e \in Debuggers \ {d} : debugCall'[e] = IF Told(e) THEN [debugCall[e] EXCEPT !.may = @ \cup {state}]
                                                    ELSE debugCall[e]
  BY DEF BeginStores, NowMayBe, Asking
<1>2. ASSUME NEW e \in Debuggers \ {d}
      PROVE  /\ debugCall'[e] \in DebugCalls /\ debugCall'[e].op = debugCall[e].op
             /\ Asking(e) => /\ debugCall[e].node \in DebugNodes
                             /\ debugCall'[e].node = debugCall[e].node
                             /\ debugCall'[e].may = debugCall[e].may \cup
                                  (IF SymbolOf[debugCall[e].node] \in names THEN {state} ELSE {})
             /\ ~Asking(e) => debugCall'[e] = debugCall[e]
  <2>1. debugCall[e] \in DebugCalls
    BY DEF DebugInv, DebugTyped
  <2>2. Asking(e) => debugCall[e] \in
          [op : {"Read", "Initialize", "Reread"}, node : DebugNodes, may : SUBSET EnabledStates]
    BY <2>1 DEF Asking, DebugCalls, Quiet
  <2>3. CASE Told(e)
    <3>1. /\ debugCall'[e] \in [op : {"Read", "Initialize", "Reread"}, node : DebugNodes, may : SUBSET EnabledStates]
          /\ debugCall'[e].op = debugCall[e].op /\ debugCall'[e].node = debugCall[e].node
          /\ debugCall'[e].may = debugCall[e].may \cup {state}
      BY <1>1, <2>2, <2>3
    <3> QED
      BY <2>2, <2>3, <3>1 DEF DebugCalls
  <2>4. CASE ~Told(e)
    BY <1>1, <2>1, <2>2, <2>4
  <2> QED
    BY <2>3, <2>4
<1>3. DebugTyped'
  <2>1. step \in DebugCalls
    BY DEF DebugCalls
  <2> QED
    BY <1>1, <1>2, <2>1 DEF DebugInv, DebugTyped
<1>4. \A e \in Debuggers : ~Calls(e, "Store")
  BY DebugAssumption DEF DebugInv, OneStores
<1>5. \A e \in Debuggers : Calls(e, "Store")' <=> e = d
  BY <1>1, <1>2, <1>4 DEF Calls
<1>6. /\ \A t : OfficialState(t)' = OfficialState(t) /\ Current(t) = {OfficialState(t)}
      /\ \A t : Current(t)' = {OfficialState(t)} \cup IF t \in names THEN {state} ELSE {}
  <2>1. \A t : OfficialState(t)' = OfficialState(t)
    BY OfficialStays
  <2>2. \A t : Current(t) = {OfficialState(t)}
    BY <1>4 DEF Current
  <2>3. ASSUME NEW t
        PROVE  {e \in Debuggers : Calls(e, "Store")' /\ t \in debugCall'[e].names} = IF t \in names THEN {d} ELSE {}
    BY <1>1, <1>5
  <2>4. ASSUME NEW t PROVE Current(t)' = {OfficialState(t)} \cup IF t \in names THEN {state} ELSE {}
    BY <1>1, <2>1, <2>3 DEF Current
  <2> QED
    BY <2>1, <2>2, <2>4
<1> HIDE DEF step, Told
<1>7. OneStores'
  <2>1. debugCall'[d].todo = stored /\ debugCall'[d].names = names
    BY <1>1 DEF step
  <2> QED
    BY <1>5, <2>1 DEF OneStores, DebugInv, NodesAreCurrent
<1>8. NodesAreCurrent'
  BY <1>6 DEF DebugInv, NodesAreCurrent
<1>9. AnswersAreCurrent'
  <2>1. ASSUME NEW e \in Debuggers \ {d}
        PROVE  /\ Asking(e)' => Current(SymbolOf[debugCall[e].node])' \subseteq debugCall'[e].may
               /\ Calls(e, "Reread")' => nodeState'[debugCall'[e].node] # "Uninitialized"
               /\ Calls(e, "Answer")' => debugCall'[e].says \in debugCall'[e].may
    <3>1. Asking(e)' <=> Asking(e)
      BY <1>2 DEF Asking
    <3>2. Asking(e) => Current(SymbolOf[debugCall[e].node]) \subseteq debugCall[e].may
      BY DEF DebugInv, AnswersAreCurrent
    <3>3. Asking(e)' => Current(SymbolOf[debugCall[e].node])' \subseteq debugCall'[e].may
      BY <1>2, <1>6, <3>1, <3>2
    <3>4. Calls(e, "Reread")' => nodeState'[debugCall'[e].node] # "Uninitialized"
      BY <1>2 DEF DebugInv, AnswersAreCurrent, Asking, Calls
    <3>5. Calls(e, "Answer")' => debugCall'[e].says \in debugCall'[e].may
      BY <1>2 DEF DebugInv, AnswersAreCurrent, Asking, Calls
    <3> QED
      BY <3>3, <3>4, <3>5
  <2>2. ~Asking(d)' /\ ~Calls(d, "Reread")' /\ ~Calls(d, "Answer")'
    BY <1>5 DEF Asking, Calls
  <2> QED
    BY <2>1, <2>2 DEF AnswersAreCurrent
<1> QED
  BY <1>3, <1>7, <1>8, <1>9 DEF DebugInv

\* A node is stored to.
LEMMA NodeIsStored ==
  ASSUME DebugInv, NEW d \in Debuggers, Calls(d, "Store"), StoreNode(d)
  PROVE  DebugInv'
<1> DEFINE stores == [op : {"Store"}, todo : SUBSET DebugNodes, names : SUBSET Symbols, state : EnabledStates]
<1>1. debugCall[d] \in stores
  BY DEF DebugInv, DebugTyped, DebugCalls, Calls, Quiet
<1>2. PICK n \in debugCall[d].todo :
        /\ nodeState' = [nodeState EXCEPT ![n] = debugCall[d].state]
        /\ debugCall' = [debugCall EXCEPT ![d] = [debugCall[d] EXCEPT !.todo = @ \ {n}]]
  BY DEF StoreNode, DebugGoes
<1>3. /\ debugCall'[d] \in stores /\ debugCall'[d].todo = debugCall[d].todo \ {n}
      /\ debugCall'[d].names = debugCall[d].names /\ debugCall'[d].state = debugCall[d].state
      /\ debugCall'[d].op = "Store"
      /\ \A e \in Debuggers \ {d} : debugCall'[e] = debugCall[e]
      /\ debugCall' \in [Debuggers -> DebugCalls]
  <2>1. [debugCall[d] EXCEPT !.todo = @ \ {n}] \in stores
    BY <1>1
  <2>2. stores \subseteq DebugCalls
    BY DEF DebugCalls
  <2> QED
    BY <1>1, <1>2, <2>1, <2>2 DEF DebugInv, DebugTyped
<1>4. UNCHANGED <<namesToNodes, envTokens, explicit, tableMutex>>
  BY DEF StoreNode
<1>5. /\ n \in DebugNodes /\ n \in namesToNodes /\ SymbolOf[n] \in debugCall[d].names
      /\ debugCall[d].state \in EnabledStates
      /\ nodeState'[n] = debugCall[d].state
      /\ \A m \in DebugNodes \ {n} : nodeState'[m] = nodeState[m]
  BY <1>1, <1>2 DEF DebugInv, DebugTyped, OneStores
<1>6. \A e \in Debuggers : Calls(e, "Store")' <=> e = d
  BY <1>3 DEF Calls, DebugInv, OneStores
<1>a. \A e \in Debuggers : Calls(e, "Store") <=> e = d
  BY DEF Calls, DebugInv, OneStores
<1>7. \A t : /\ Current(t) = {OfficialState(t)} \cup IF t \in debugCall[d].names THEN {debugCall[d].state} ELSE {}
             /\ Current(t)' = Current(t)
  <2>1. \A t : OfficialState(t)' = OfficialState(t)
    BY <1>4, OfficialStays
  <2>2. ASSUME NEW t
        PROVE  /\ {e \in Debuggers : Calls(e, "Store") /\ t \in debugCall[e].names}
                    = IF t \in debugCall[d].names THEN {d} ELSE {}
               /\ {e \in Debuggers : Calls(e, "Store")' /\ t \in debugCall'[e].names}
                    = IF t \in debugCall[d].names THEN {d} ELSE {}
    BY <1>3, <1>6, <1>a
  <2> QED
    BY <1>3, <2>1, <2>2 DEF Current
<1>8. DebugTyped'
  BY <1>2, <1>3, <1>4, <1>5 DEF DebugInv, DebugTyped
<1>9. OneStores'
  BY <1>3, <1>4, <1>5, <1>6 DEF DebugInv, OneStores
<1>10. NodesAreCurrent'
  BY <1>4, <1>5, <1>7 DEF DebugInv, NodesAreCurrent
<1>11. AnswersAreCurrent'
  <2>1. ASSUME NEW e \in Debuggers \ {d}
        PROVE  /\ Asking(e)' => Current(SymbolOf[debugCall[e].node])' \subseteq debugCall'[e].may
               /\ Calls(e, "Reread")' => nodeState'[debugCall'[e].node] # "Uninitialized"
               /\ Calls(e, "Answer")' => debugCall'[e].says \in debugCall'[e].may
    <3>1. Asking(e) => debugCall[e].node \in DebugNodes
      BY DEF Asking, DebugInv, DebugTyped, DebugCalls, Quiet
    <3>2. \A m \in DebugNodes : nodeState[m] # "Uninitialized" => nodeState'[m] # "Uninitialized"
      BY <1>5 DEF EnabledStates
    <3> QED
      BY <1>3, <1>7, <3>1, <3>2 DEF DebugInv, AnswersAreCurrent, Asking, Calls
  <2>2. ~Asking(d)' /\ ~Calls(d, "Reread")' /\ ~Calls(d, "Answer")'
    BY <1>3 DEF Asking, Calls
  <2> QED
    BY <2>1, <2>2 DEF AnswersAreCurrent
<1> QED
  BY <1>8, <1>9, <1>10, <1>11 DEF DebugInv

\* All nodes have been stored to: the new state becomes the official one.
LEMMA TableIsReleased ==
  ASSUME DebugInv, NEW d \in Debuggers, ReleaseTable(d)
  PROVE  DebugInv'
<1>1. /\ debugCall[d] \in [op : {"Store"}, todo : SUBSET DebugNodes, names : SUBSET Symbols, state : EnabledStates]
      /\ Calls(d, "Store") /\ debugCall[d].todo = {} /\ tableMutex' = Nobody
      /\ explicit' = [s \in Symbols |-> IF s \in debugCall[d].names THEN debugCall[d].state ELSE explicit[s]]
      /\ UNCHANGED <<nodeState, namesToNodes, envTokens>>
  BY DEF DebugInv, DebugTyped, DebugCalls, ReleaseTable, Calls, Quiet
<1>2. /\ debugCall' \in [Debuggers -> DebugCalls] /\ debugCall'[d] = Quiet /\ Quiet.op = "Quiet"
      /\ \A e \in Debuggers \ {d} : debugCall'[e] = debugCall[e]
  BY DEF ReleaseTable, DebugGoes, DebugInv, DebugTyped, DebugCalls, Quiet
<1>3. \A e \in Debuggers : (Calls(e, "Store") <=> e = d) /\ ~Calls(e, "Store")'
  BY <1>1, <1>2 DEF Calls, DebugInv, OneStores
<1>4. \A t \in Symbols :
        /\ Current(t) = {OfficialState(t)} \cup IF t \in debugCall[d].names THEN {debugCall[d].state} ELSE {}
        /\ Current(t)' = {OfficialState(t)'}
        /\ OfficialState(t)' = IF t \in debugCall[d].names THEN debugCall[d].state ELSE OfficialState(t)
  <2>1. ASSUME NEW t \in Symbols
        PROVE  OfficialState(t)' = IF t \in debugCall[d].names THEN debugCall[d].state ELSE OfficialState(t)
    <3>1. CASE t \in debugCall[d].names
      BY <1>1, <3>1 DEF OfficialState, EnabledStates
    <3>2. CASE t \notin debugCall[d].names
      BY <1>1, <3>2, OfficialStays
    <3> QED
      BY <3>1, <3>2
  <2>2. ASSUME NEW t
        PROVE  /\ {e \in Debuggers : Calls(e, "Store") /\ t \in debugCall[e].names}
                    = IF t \in debugCall[d].names THEN {d} ELSE {}
               /\ {e \in Debuggers : Calls(e, "Store")' /\ t \in debugCall'[e].names} = {}
    BY <1>3
  <2>3. \A t : Current(t)' = {OfficialState(t)'}
    BY <2>2 DEF Current
  <2> QED
    BY <2>1, <2>2, <2>3 DEF Current
<1>5. DebugTyped'
  BY <1>1, <1>2 DEF DebugInv, DebugTyped
<1>6. OneStores'
  BY <1>1, <1>3, DebugAssumption DEF DebugInv, OneStores
<1>7. NodesAreCurrent'
  <2>1. ASSUME NEW n \in DebugNodes, nodeState[n] # "Uninitialized"
        PROVE  n \in namesToNodes /\ nodeState[n] \in Current(SymbolOf[n])'
    <3>1. n \in namesToNodes /\ nodeState[n] \in Current(SymbolOf[n]) /\ SymbolOf[n] \in Symbols
      BY <2>1, DebugAssumption DEF DebugInv, NodesAreCurrent
    <3>2. SymbolOf[n] \in debugCall[d].names => nodeState[n] = debugCall[d].state
      BY <1>1, <2>1 DEF DebugInv, OneStores
    <3> QED
      BY <1>4, <3>1, <3>2
  <2> QED
    BY <1>1, <2>1 DEF NodesAreCurrent
<1>8. AnswersAreCurrent'
  <2>1. ASSUME NEW e \in Debuggers \ {d}
        PROVE  /\ Asking(e)' => Current(SymbolOf[debugCall[e].node])' \subseteq debugCall'[e].may
               /\ Calls(e, "Reread")' => nodeState'[debugCall'[e].node] # "Uninitialized"
               /\ Calls(e, "Answer")' => debugCall'[e].says \in debugCall'[e].may
    <3>1. Asking(e) => SymbolOf[debugCall[e].node] \in Symbols
      BY DebugAssumption DEF Asking, DebugInv, DebugTyped, DebugCalls, Quiet
    <3> QED
      BY <1>1, <1>2, <1>4, <3>1 DEF DebugInv, AnswersAreCurrent, Asking, Calls
  <2>2. ~Asking(d)' /\ ~Calls(d, "Reread")' /\ ~Calls(d, "Answer")'
    BY <1>2 DEF Asking, Calls
  <2> QED
    BY <2>1, <2>2 DEF AnswersAreCurrent
<1> QED
  BY <1>5, <1>6, <1>7, <1>8 DEF DebugInv

\* DebugInv is inductive.
LEMMA DebugInvariant == DebugInv /\ [DebugNext]_debugVars => DebugInv'
<1> SUFFICES ASSUME DebugInv, [DebugNext]_debugVars PROVE DebugInv'
  OBVIOUS
<1>a. DebugTyped /\ AnswersAreCurrent
  BY DEF DebugInv
<1>1. CASE UNCHANGED debugVars
  BY <1>1 DEF debugVars, DebugInv, DebugTyped, OneStores, NodesAreCurrent, AnswersAreCurrent,
    Asking, Calls, Current, OfficialState
<1>2. ASSUME NEW d \in Debuggers, NEW n \in DebugNodes, DebugIsEnabled(d, n) PROVE DebugInv'
  <2> DEFINE call == [op |-> "Read", node |-> n, may |-> Current(SymbolOf[n])]
  <2>1. Current(SymbolOf[n]) \subseteq EnabledStates
    <3>1. OfficialState(SymbolOf[n]) \in EnabledStates
      BY <1>a, DebugAssumption, OfficialIsState
    <3>2. \A e \in Debuggers : Calls(e, "Store") => debugCall[e].state \in EnabledStates
      BY <1>a DEF DebugTyped, DebugCalls, Calls, Quiet
    <3> QED
      BY <3>1, <3>2, CurrentStates
  <2>2. call \in DebugCalls /\ call.op = "Read" /\ call.node = n /\ call.may = Current(SymbolOf[n])
    BY <2>1 DEF DebugCalls
  <2>3. ~Calls(d, "Store") /\ DebugGoes(d, call) /\ UNCHANGED <<nodeState, envTokens, explicit, tableMutex, namesToNodes>>
    BY <1>2 DEF DebugIsEnabled, Calls
  <2> HIDE DEF call
  <2> QED
    BY <1>a, <2>2, <2>3, AskingMoves DEF DebugTyped
<1>3. ASSUME NEW d \in Debuggers, DebugRead(d) \/ DebugReread(d) PROVE DebugInv'
  <2> DEFINE call == debugCall[d]
  <2>1. /\ call \in [op : {"Read", "Initialize", "Reread"}, node : DebugNodes, may : SUBSET EnabledStates]
        /\ ~Calls(d, "Store") /\ Asking(d)
        /\ UNCHANGED <<nodeState, envTokens, explicit, tableMutex, namesToNodes>>
    BY <1>3, <1>a DEF DebugTyped, DebugCalls, DebugRead, DebugReread, Calls, Asking, Quiet
  <2>2. Current(SymbolOf[call.node]) \subseteq call.may
    BY <1>a, <2>1 DEF AnswersAreCurrent
  <2>3. CASE DebugGoes(d, [call EXCEPT !.op = "Initialize"])
    <3> DEFINE next == [call EXCEPT !.op = "Initialize"]
    <3>1. /\ next \in [op : {"Read", "Initialize", "Reread"}, node : DebugNodes, may : SUBSET EnabledStates]
          /\ next.op = "Initialize" /\ next.node = call.node /\ next.may = call.may
      BY <2>1
    <3>2. next \in DebugCalls
      BY <3>1 DEF DebugCalls
    <3> HIDE DEF next, call
    <3>3. DebugGoes(d, next)
      BY <2>3 DEF next
    <3> QED
      BY <1>a, <2>1, <2>2, <3>1, <3>2, <3>3, AskingMoves DEF DebugTyped
  <2>4. CASE nodeState[call.node] # "Uninitialized" /\
             DebugGoes(d, [op |-> "Answer", says |-> nodeState[call.node], may |-> call.may])
    <3> DEFINE next == [op |-> "Answer", says |-> nodeState[call.node], may |-> call.may]
    <3>1. nodeState[call.node] \in EnabledStates /\ nodeState[call.node] \in call.may
      BY <1>a, <2>1, <2>2, <2>4 DEF DebugTyped, DebugInv, NodesAreCurrent
    <3>2. next \in DebugCalls /\ next.op = "Answer" /\ next.says \in next.may
      BY <2>1, <3>1 DEF DebugCalls
    <3> HIDE DEF next
    <3>3. DebugGoes(d, next)
      BY <2>4 DEF next
    <3> QED
      BY <1>a, <2>1, <3>2, <3>3, AskingMoves DEF DebugTyped
  <2> QED
    BY <1>3, <1>a, <2>3, <2>4 DEF DebugRead, DebugReread, AnswersAreCurrent
<1>4. ASSUME NEW d \in Debuggers, DebugAnswers(d) PROVE DebugInv'
  <2>1. Quiet \in DebugCalls /\ Quiet.op = "Quiet"
    BY DEF DebugCalls, Quiet
  <2>2. ~Calls(d, "Store") /\ DebugGoes(d, Quiet)
        /\ UNCHANGED <<nodeState, envTokens, explicit, tableMutex, namesToNodes>>
    BY <1>4 DEF DebugAnswers, Calls
  <2> QED
    BY <1>a, <2>1, <2>2, AskingMoves DEF DebugTyped
<1>5. ASSUME NEW d \in Debuggers, NEW n \in DebugNodes, RegisterSymbol(d, n) PROVE DebugInv'
  <2>1. /\ ~Calls(d, "Store") /\ DebugGoes(d, debugCall[d]) /\ debugCall[d] \in DebugCalls
        /\ debugCall[d].op = "Quiet"
        /\ UNCHANGED <<nodeState, envTokens, explicit, tableMutex>>
        /\ namesToNodes' = namesToNodes \cup {n}
    BY <1>5, <1>a DEF RegisterSymbol, Calls, DebugGoes, DebugTyped
  <2> QED
    BY <1>a, <2>1, AskingMoves DEF DebugTyped
<1>6. ASSUME NEW d \in Debuggers, NEW n \in DebugNodes, NEW enabled \in BOOLEAN, SetByName(d, n, enabled)
      PROVE DebugInv'
  <2>1. StateOf(enabled) \in EnabledStates /\ {SymbolOf[n]} \in SUBSET Symbols
    BY DebugAssumption DEF StateOf, EnabledStates
  <2>2. StoredTo(n) \in SUBSET DebugNodes
    BY <1>a DEF StoredTo, KnownNodes, DebugTyped
  <2>3. /\ tableMutex = Nobody /\ tableMutex' = d /\ Calls(d, "Quiet")
        /\ BeginStores(d, StoredTo(n), {SymbolOf[n]}, StateOf(enabled))
        /\ UNCHANGED <<nodeState, envTokens, explicit>> /\ namesToNodes' = namesToNodes \cup {n}
    BY <1>6 DEF SetByName
  <2>4. /\ \A m \in StoredTo(n) : m \in namesToNodes' /\ SymbolOf[m] \in {SymbolOf[n]}
        /\ \A m \in namesToNodes : SymbolOf[m] \in {SymbolOf[n]} => m \in StoredTo(n)
    BY <2>3 DEF StoredTo, KnownNodes
  <2> QED
    BY <1>a, <2>1, <2>2, <2>3, <2>4, StoresBegin DEF DebugTyped
<1>7. ASSUME NEW d \in Debuggers, NEW pattern \in SetPatterns, SetByPattern(d, pattern) PROVE DebugInv'
  <2> DEFINE names == {SymbolOf[n] : n \in namesToNodes} \cap pattern.names
  <2>1. StateOf(pattern.value) \in EnabledStates /\ names \in SUBSET Symbols /\ KnownNodes(names) \in SUBSET DebugNodes
    BY <1>a, DebugAssumption DEF StateOf, EnabledStates, KnownNodes, DebugTyped
  <2>2. /\ tableMutex = Nobody /\ tableMutex' = d /\ Calls(d, "Quiet")
        /\ BeginStores(d, KnownNodes(names), names, StateOf(pattern.value))
        /\ UNCHANGED <<nodeState, envTokens, explicit, namesToNodes>>
    BY <1>7 DEF SetByPattern
  <2>3. /\ \A m \in KnownNodes(names) : m \in namesToNodes' /\ SymbolOf[m] \in names
        /\ \A m \in namesToNodes : SymbolOf[m] \in names => m \in KnownNodes(names)
    BY <2>2 DEF KnownNodes
  <2> HIDE DEF names
  <2> QED
    BY <1>a, <2>1, <2>2, <2>3, StoresBegin DEF DebugTyped
<1> QED
  BY <1>1, <1>2, <1>3, <1>4, <1>5, <1>6, <1>7, NodeIsInitialized, NodeIsStored, TableIsReleased
  DEF DebugNext, DebugStep

\* Every node that is believed without a lock has its symbol's official state whenever
\* nobody is changing states, and IsEnabled never answers with a state its symbol did
\* not have, and was not being given, during the call (debug.cpp:96-272, debug.h:139-145).
THEOREM DebugIsCoherent == DebugSpec => []DebugCachesAgree
<1>1. DebugInv => DebugCachesAgree
  <2> SUFFICES ASSUME DebugInv PROVE DebugCachesAgree
    OBVIOUS
  <2>1. ASSUME tableMutex = Nobody, NEW s PROVE Current(s) = {OfficialState(s)}
    <3>1. \A d \in Debuggers : ~Calls(d, "Store")
      BY <2>1, DebugAssumption DEF DebugInv, OneStores
    <3> QED
      BY <3>1 DEF Current
  <2> QED
    BY <2>1 DEF DebugInv, NodesAreCurrent, AnswersAreCurrent, DebugCachesAgree
<1> QED
  BY <1>1, DebugStarts, DebugInvariant, PTL DEF DebugSpec

-----------------------------------------------------------------------------
(* TfStaticData and TfStacked.  An object that has not been published is   *)
(* empty and known to its creator only, so the loser of the exchange       *)
(* deletes nothing; and a thread finds its living objects, the preloaded   *)
(* ones before them, in the storage that is published.                     *)

\* The end of a sequence is that of its second part.
LEMMA ConcatAppend ==
  ASSUME NEW a \in Seq(Nat), NEW b \in Seq(Nat), NEW x \in Nat
  PROVE  Append(a \o b, x) = a \o Append(b, x)
<1>1. /\ a \o b \in Seq(Nat) /\ Len(a \o b) = Len(a) + Len(b)
      /\ \A i \in 1 .. Len(a) + Len(b) : (a \o b)[i] = IF i <= Len(a) THEN a[i] ELSE b[i - Len(a)]
  BY ConcatProperties
<1>3. Append(a \o b, x) = a \o Append(b, x)
  <2>1. Append(b, x) \in Seq(Nat) /\ Len(Append(b, x)) = Len(b) + 1
    OBVIOUS
  <2>2. /\ a \o Append(b, x) \in Seq(Nat) /\ Len(a \o Append(b, x)) = Len(a) + Len(b) + 1
        /\ \A i \in 1 .. Len(a) + Len(b) + 1 :
             (a \o Append(b, x))[i] = IF i <= Len(a) THEN a[i] ELSE Append(b, x)[i - Len(a)]
    <3> DEFINE longer == Append(b, x)
    <3>1. longer \in Seq(Nat) /\ Len(longer) = Len(b) + 1
      BY <2>1
    <3> HIDE DEF longer
    <3>2. /\ a \o longer \in Seq(Nat) /\ Len(a \o longer) = Len(a) + Len(longer)
          /\ \A i \in 1 .. Len(a) + Len(longer) :
               (a \o longer)[i] = IF i <= Len(a) THEN a[i] ELSE longer[i - Len(a)]
      BY <3>1, ConcatProperties
    <3>3. Len(a) + Len(longer) = Len(a) + Len(b) + 1
      BY <3>1
    <3>4. /\ a \o longer \in Seq(Nat) /\ Len(a \o longer) = Len(a) + Len(b) + 1
          /\ \A i \in 1 .. Len(a) + Len(b) + 1 :
               (a \o longer)[i] = IF i <= Len(a) THEN a[i] ELSE longer[i - Len(a)]
      BY <3>2, <3>3
    <3> QED
      BY <3>4 DEF longer
  <2>3. Append(a \o b, x) \in Seq(Nat) /\ Len(Append(a \o b, x)) = Len(a) + Len(b) + 1
    BY <1>1
  <2>4. ASSUME NEW i \in 1 .. Len(a) + Len(b) + 1 PROVE Append(a \o b, x)[i] = (a \o Append(b, x))[i]
    BY <1>1, <2>2
  <2> QED
    BY <2>2, <2>3, <2>4, SeqEqual
<1> QED
  BY <1>3

\* What is left of it without its end.
LEMMA ConcatFront ==
  ASSUME NEW a \in Seq(Nat), NEW b \in Seq(Nat), b # <<>>
  PROVE  /\ a \o b # <<>> /\ SubSeq(b, 1, Len(b) - 1) \in Seq(Nat)
         /\ (a \o b)[Len(a \o b)] = b[Len(b)]
         /\ SubSeq(a \o b, 1, Len(a \o b) - 1) = a \o SubSeq(b, 1, Len(b) - 1)
<1>1. /\ a \o b \in Seq(Nat) /\ Len(a \o b) = Len(a) + Len(b)
      /\ \A i \in 1 .. Len(a) + Len(b) : (a \o b)[i] = IF i <= Len(a) THEN a[i] ELSE b[i - Len(a)]
  BY ConcatProperties
<1>4. /\ a \o b # <<>> /\ SubSeq(b, 1, Len(b) - 1) \in Seq(Nat)
             /\ (a \o b)[Len(a \o b)] = b[Len(b)]
             /\ SubSeq(a \o b, 1, Len(a \o b) - 1) = a \o SubSeq(b, 1, Len(b) - 1)
  <2> DEFINE front == SubSeq(b, 1, Len(b) - 1)
             short == SubSeq(a \o b, 1, Len(a \o b) - 1)
  <2>1. Len(b) \in Nat \ {0} /\ Len(a) \in Nat
    BY EmptySeq
  <2>2. front \in Seq(Nat) /\ Len(front) = Len(b) - 1 /\ \A i \in 1 .. Len(b) - 1 : front[i] = b[i]
    <3>1. /\ 1 \in Int /\ Len(b) - 1 \in Int /\ (1 <= Len(b) - 1 \/ Len(b) = 1)
          /\ \A i \in 1 .. Len(b) - 1 : b[i] \in Nat
      <4>1. \A i \in 1 .. Len(b) : b[i] \in Nat
        OBVIOUS
      <4> DEFINE n == Len(b)
      <4>3. n \in Nat /\ n # 0
        BY <2>1
      <4> HIDE DEF n
      <4>4. 1 \in Int /\ n - 1 \in Int /\ (1 <= n - 1 \/ n = 1) /\ 1 .. n - 1 \subseteq 1 .. n
        BY <4>3
      <4> QED
        BY <4>1, <4>4 DEF n
    <3>2. /\ front \in Seq(Nat) /\ Len(front) = IF 1 <= Len(b) - 1 THEN Len(b) - 1 - 1 + 1 ELSE 0
          /\ \A i \in 1 .. Len(b) - 1 - 1 + 1 : front[i] = b[1 + i - 1]
      BY <3>1, SubSeqProperties
    <3> HIDE DEF front
    <3> QED
      BY <2>1, <3>1, <3>2
  <2>3. /\ short \in Seq(Nat) /\ Len(short) = Len(a) + Len(b) - 1
        /\ \A i \in 1 .. Len(a) + Len(b) - 1 : short[i] = (a \o b)[i]
    <3>1. Len(a \o b) = Len(a) + Len(b) /\ \A i \in 1 .. Len(a \o b) - 1 : (a \o b)[i] \in Nat
      BY <1>1, <2>1
    <3> QED
      BY <2>1, <3>1, SubSeqProperties
  <2>4. (a \o b)[Len(a \o b)] = b[Len(b)] /\ a \o b # <<>>
    BY <1>1, <2>1
  <2> HIDE DEF front, short
  <2>5. /\ a \o front \in Seq(Nat) /\ Len(a \o front) = Len(a) + Len(b) - 1
        /\ \A i \in 1 .. Len(a) + Len(b) - 1 :
             (a \o front)[i] = IF i <= Len(a) THEN a[i] ELSE front[i - Len(a)]
    <3>1. Len(a) + Len(front) = Len(a) + Len(b) - 1
      BY <2>1, <2>2
    <3>2. /\ a \o front \in Seq(Nat) /\ Len(a \o front) = Len(a) + Len(front)
          /\ \A i \in 1 .. Len(a) + Len(front) :
               (a \o front)[i] = IF i <= Len(a) THEN a[i] ELSE front[i - Len(a)]
      BY <2>2, ConcatProperties
    <3> QED
      BY <3>1, <3>2
  <2>6. \A i \in 1 .. Len(a) + Len(b) - 1 : short[i] = (a \o front)[i]
    <3> SUFFICES ASSUME NEW i \in 1 .. Len(a) + Len(b) - 1 PROVE short[i] = (a \o front)[i]
      OBVIOUS
    <3>1. short[i] = (a \o b)[i] /\ i \in 1 .. Len(a) + Len(b)
      BY <2>1, <2>3
    <3>2. CASE i <= Len(a)
      BY <1>1, <2>5, <3>1, <3>2
    <3>3. CASE i > Len(a)
      <4>1. i - Len(a) \in 1 .. Len(b) - 1
        BY <2>1, <3>3
      <4> QED
        BY <1>1, <2>1, <2>2, <2>5, <3>1, <3>3, <4>1
    <3>4. i <= Len(a) \/ i > Len(a)
      BY <2>1
    <3> QED
      BY <3>2, <3>3, <3>4
  <2>7. short = a \o front
    BY <2>3, <2>5, <2>6, SeqEqual
  <2> QED
    BY <2>2, <2>4, <2>7 DEF front, short
<1> QED
  BY <1>4

Stacks == [ready : BOOLEAN, items : Seq(Nat)]
LazyCalls ==
  {Resting} \cup [at : {"DataNew"}, object : Nat] \cup [at : {"DataPublish", "DataUse"}, object : Nat]
  \cup [at : {"StackNew", "Push", "Pop"}, op : {"Push", "Pop"}]
  \cup [at : {"StackPublish"}, op : {"Push", "Pop"}, object : Nat]
FirstItems == [n \in 1..Preloaded |-> 0]

LazyTyped ==
  /\ pointer \in [{"data", "stack"} -> Nat]
  /\ contents \in Seq(SUBSET LazyUsers) /\ pointer["data"] <= Len(contents)
  /\ stacks \in Seq([LazyUsers -> Stacks]) /\ pointer["stack"] <= Len(stacks)
  /\ alive \in [LazyUsers -> Seq(Nat)]
  /\ inserted \subseteq LazyUsers
  /\ lazyCall \in [LazyUsers -> LazyCalls]

\* Who publishes has an object of its own making; who uses has the one that is published.
ObjectsExist == \A u \in LazyUsers :
  /\ At(u, "DataPublish") => lazyCall[u].object \in 1 .. Len(contents)
  /\ At(u, "DataUse") => pointer["data"] # 0 /\ lazyCall[u].object = pointer["data"]
  /\ At(u, "StackPublish") => lazyCall[u].object \in 1 .. Len(stacks)
  /\ At(u, "Push") \/ At(u, "Pop") => pointer["stack"] # 0
  /\ (At(u, "StackNew") \/ At(u, "StackPublish")) /\ lazyCall[u].op = "Pop" => alive[u] # <<>>
  /\ At(u, "Pop") => alive[u] # <<>>

\* Nothing is put into an object before it is published.
UnpublishedAreEmpty ==
  /\ inserted # {} => pointer["data"] # 0 /\ inserted \subseteq contents[pointer["data"]]
  /\ \A o \in 1 .. Len(stacks), u \in LazyUsers : o # pointer["stack"] => ~stacks[o][u].ready
  /\ \A u \in LazyUsers : alive[u] # <<>> => pointer["stack"] # 0

StacksMatch == pointer["stack"] # 0 => \A u \in LazyUsers : Filled(u) = FirstItems \o alive[u]

LazyInv == LazyTyped /\ ObjectsExist /\ UnpublishedAreEmpty /\ StacksMatch

-----------------------------------------------------------------------------

\* What _InitializeStack pushes are items.
LEMMA FirstItemsList == FirstItems \in Seq(Nat)
<1>1. Preloaded \in Nat
  BY LazyAssumption
<1> QED
  BY <1>1 DEF FirstItems

\* At first nothing is published.
LEMMA LazyStarts == LazyInit => LazyInv
<1> SUFFICES ASSUME LazyInit PROVE LazyInv
  OBVIOUS
<1>1. /\ pointer["data"] = 0 /\ pointer["stack"] = 0 /\ contents = <<>> /\ stacks = <<>>
      /\ \A u \in LazyUsers : alive[u] = <<>> /\ lazyCall[u] = Resting
      /\ inserted = {}
  BY DEF LazyInit
<1>2. LazyTyped
  <2>1. /\ pointer \in [{"data", "stack"} -> Nat] /\ alive \in [LazyUsers -> Seq(Nat)]
        /\ lazyCall \in [LazyUsers -> LazyCalls]
    BY DEF LazyInit, LazyCalls
  <2>2. contents \in Seq(SUBSET LazyUsers) /\ stacks \in Seq([LazyUsers -> Stacks])
        /\ Len(contents) = 0 /\ Len(stacks) = 0
    BY <1>1
  <2> QED
    BY <1>1, <2>1, <2>2 DEF LazyTyped
<1>3. ObjectsExist
  BY <1>1 DEF ObjectsExist, At, Resting
<1>4. UnpublishedAreEmpty /\ StacksMatch
  BY <1>1 DEF UnpublishedAreEmpty, StacksMatch
<1> QED
  BY <1>2, <1>3, <1>4 DEF LazyInv

\* A step of u that changes neither an object nor who has one.
LEMMA LazyMoves ==
  ASSUME LazyInv, NEW u \in LazyUsers, NEW call \in LazyCalls, Do(u, call),
         UNCHANGED <<pointer, contents, stacks, alive, inserted>>,
         call.at = "DataPublish" => call.object \in 1 .. Len(contents),
         call.at = "DataUse" => pointer["data"] # 0 /\ call.object = pointer["data"],
         call.at = "StackPublish" => call.object \in 1 .. Len(stacks),
         call.at \in {"Push", "Pop"} => pointer["stack"] # 0,
         call.at \in {"StackNew", "StackPublish"} /\ call.op = "Pop" => alive[u] # <<>>,
         call.at = "Pop" => alive[u] # <<>>
  PROVE  LazyInv'
<1>1. /\ lazyCall' \in [LazyUsers -> LazyCalls] /\ lazyCall'[u] = call
      /\ \A v \in LazyUsers \ {u} : lazyCall'[v] = lazyCall[v]
  BY DEF Do, LazyInv, LazyTyped
<1>2. LazyTyped'
  BY <1>1 DEF LazyInv, LazyTyped
<1>3. ObjectsExist'
  BY <1>1 DEF LazyInv, ObjectsExist, At
<1>4. UnpublishedAreEmpty' /\ StacksMatch'
  BY DEF LazyInv, UnpublishedAreEmpty, StacksMatch, Filled, Own
<1> QED
  BY <1>2, <1>3, <1>4 DEF LazyInv

\* The steps of TfStaticData.
LEMMA DataSteps ==
  ASSUME LazyInv, NEW u \in LazyUsers, DataLoad(u) \/ DataNew(u) \/ DataPublish(u) \/ DataUse(u)
  PROVE  LazyInv'
<1>a. /\ LazyTyped /\ ObjectsExist /\ UnpublishedAreEmpty /\ lazyCall[u] \in LazyCalls
      /\ Len(contents) \in Nat /\ Len(stacks) \in Nat /\ pointer["data"] \in Nat
  BY DEF LazyInv, LazyTyped
<1>1. CASE DataLoad(u)
  <2> DEFINE call == [at |-> IF pointer["data"] = 0 THEN "DataNew" ELSE "DataUse", object |-> pointer["data"]]
  <2>1. /\ call \in LazyCalls /\ call.at \in {"DataNew", "DataUse"}
        /\ call.at = "DataUse" => pointer["data"] # 0 /\ call.object = pointer["data"]
    BY <1>a DEF LazyCalls
  <2>2. Do(u, call) /\ UNCHANGED <<pointer, contents, stacks, alive, inserted>>
    BY <1>1 DEF DataLoad
  <2> HIDE DEF call
  <2> QED
    BY <2>1, <2>2, LazyMoves
<1>2. CASE DataNew(u)
  <2> DEFINE call == [at |-> "DataPublish", object |-> Len(contents) + 1]
  <2>1. call \in LazyCalls /\ call.at = "DataPublish" /\ call.object = Len(contents) + 1
    BY <1>a DEF LazyCalls
  <2>2. /\ lazyCall' \in [LazyUsers -> LazyCalls] /\ lazyCall'[u] = call
        /\ \A v \in LazyUsers \ {u} : lazyCall'[v] = lazyCall[v]
    BY <1>2, <1>a, <2>1 DEF DataNew, Do, LazyTyped
  <2> HIDE DEF call
  <2>3. /\ contents' \in Seq(SUBSET LazyUsers) /\ Len(contents') = Len(contents) + 1
        /\ \A o \in 1 .. Len(contents) : contents'[o] = contents[o]
        /\ UNCHANGED <<pointer, stacks, alive, inserted>>
    BY <1>2, <1>a DEF DataNew, LazyTyped
  <2>4. LazyTyped'
    BY <1>a, <2>2, <2>3 DEF LazyTyped
  <2>5. ObjectsExist'
    BY <1>a, <2>1, <2>2, <2>3 DEF ObjectsExist, At
  <2>6. UnpublishedAreEmpty'
    <3>1. pointer["data"] # 0 => contents'[pointer["data"]] = contents[pointer["data"]]
      BY <1>a, <2>3 DEF LazyTyped
    <3> QED
      BY <1>a, <2>3, <3>1 DEF UnpublishedAreEmpty
  <2>7. StacksMatch'
    BY <2>3 DEF LazyInv, StacksMatch, Filled, Own
  <2> QED
    BY <2>4, <2>5, <2>6, <2>7 DEF LazyInv
<1>3. CASE DataPublish(u)
  <2> DEFINE o == Publish("data", lazyCall[u].object)
             call == [at |-> "DataUse", object |-> o]
  <2>1. o \in 1 .. Len(contents) /\ (pointer["data"] # 0 => o = pointer["data"])
    BY <1>3, <1>a DEF DataPublish, ObjectsExist, Publish, LazyTyped
  <2>2. call \in LazyCalls /\ call.at = "DataUse" /\ call.object = o
    BY <1>a, <2>1 DEF LazyCalls
  <2>3. /\ lazyCall' \in [LazyUsers -> LazyCalls] /\ lazyCall'[u] = call
        /\ \A v \in LazyUsers \ {u} : lazyCall'[v] = lazyCall[v]
    BY <1>3, <1>a, <2>2 DEF DataPublish, Do, LazyTyped
  <2>4. /\ pointer' \in [{"data", "stack"} -> Nat] /\ pointer'["data"] = o
        /\ pointer'["stack"] = pointer["stack"] /\ UNCHANGED <<contents, stacks, alive, inserted>>
    BY <1>3, <1>a, <2>1 DEF DataPublish, LazyTyped
  <2> HIDE DEF o, call
  <2>5. LazyTyped'
    BY <1>a, <2>1, <2>3, <2>4 DEF LazyTyped
  <2>6. ObjectsExist'
    BY <1>a, <2>1, <2>2, <2>3, <2>4 DEF ObjectsExist, At
  <2>7. UnpublishedAreEmpty' /\ StacksMatch'
    BY <1>a, <2>1, <2>4 DEF LazyInv, UnpublishedAreEmpty, StacksMatch, Filled, Own
  <2> QED
    BY <2>5, <2>6, <2>7 DEF LazyInv
<1>4. CASE DataUse(u)
  <2>1. /\ lazyCall' \in [LazyUsers -> LazyCalls] /\ lazyCall'[u] = Resting
        /\ \A v \in LazyUsers \ {u} : lazyCall'[v] = lazyCall[v]
    BY <1>4, <1>a DEF DataUse, Do, LazyTyped, LazyCalls
  <2>2. pointer["data"] \in 1 .. Len(contents) /\ lazyCall[u].object = pointer["data"]
    BY <1>4, <1>a DEF DataUse, ObjectsExist, LazyTyped
  <2>3. /\ contents' \in Seq(SUBSET LazyUsers) /\ Len(contents') = Len(contents)
        /\ contents'[pointer["data"]] = contents[pointer["data"]] \cup {u}
        /\ inserted' = inserted \cup {u} /\ UNCHANGED <<pointer, stacks, alive>>
    BY <1>4, <1>a, <2>2 DEF DataUse, LazyTyped
  <2>4. LazyTyped'
    BY <1>a, <2>1, <2>3 DEF LazyTyped
  <2>5. ObjectsExist'
    BY <1>a, <2>1, <2>3 DEF ObjectsExist, At, Resting
  <2>6. UnpublishedAreEmpty'
    <3>1. inserted' \subseteq contents'[pointer["data"]] /\ pointer["data"] # 0
      BY <1>a, <2>2, <2>3 DEF UnpublishedAreEmpty
    <3> QED
      BY <1>a, <2>3, <3>1 DEF UnpublishedAreEmpty
  <2>7. StacksMatch'
    BY <2>3 DEF LazyInv, StacksMatch, Filled, Own
  <2> QED
    BY <2>4, <2>5, <2>6, <2>7 DEF LazyInv
<1> QED
  BY <1>1, <1>2, <1>3, <1>4

\* The steps of TfStacked that change no stack.
LEMMA StackSteps ==
  ASSUME LazyInv, NEW u \in LazyUsers,
         (\E op \in {"Push", "Pop"} : StackLoad(u, op)) \/ StackNew(u) \/ StackPublish(u)
  PROVE  LazyInv'
<1>a. /\ LazyTyped /\ ObjectsExist /\ UnpublishedAreEmpty /\ lazyCall[u] \in LazyCalls
      /\ Len(contents) \in Nat /\ Len(stacks) \in Nat /\ pointer["stack"] \in Nat
  BY DEF LazyInv, LazyTyped
<1>1. ASSUME NEW op \in {"Push", "Pop"}, StackLoad(u, op) PROVE LazyInv'
  <2> DEFINE call == [at |-> IF pointer["stack"] = 0 THEN "StackNew" ELSE op, op |-> op]
  <2>1. /\ call \in LazyCalls /\ call.at \in {"StackNew", "Push", "Pop"} /\ call.op = op
        /\ call.at # "StackNew" => pointer["stack"] # 0 /\ call.at = op
    BY <1>a DEF LazyCalls
  <2>2. Do(u, call) /\ UNCHANGED <<pointer, contents, stacks, alive, inserted>>
        /\ (op = "Pop" => alive[u] # <<>>)
    BY <1>1 DEF StackLoad
  <2> HIDE DEF call
  <2> QED
    BY <2>1, <2>2, LazyMoves
<1>2. CASE StackNew(u)
  <2> DEFINE call == [at |-> "StackPublish", op |-> lazyCall[u].op, object |-> Len(stacks) + 1]
             fresh == [v \in LazyUsers |-> NotYet]
  <2>1. call \in LazyCalls /\ call.at = "StackPublish" /\ call.object = Len(stacks) + 1 /\ call.op = lazyCall[u].op
        /\ At(u, "StackNew")
    BY <1>2, <1>a DEF LazyCalls, StackNew, At, Resting
  <2>2. /\ lazyCall' \in [LazyUsers -> LazyCalls] /\ lazyCall'[u] = call
        /\ \A v \in LazyUsers \ {u} : lazyCall'[v] = lazyCall[v]
    BY <1>2, <1>a, <2>1 DEF StackNew, Do, LazyTyped
  <2>3. fresh \in [LazyUsers -> Stacks] /\ \A v \in LazyUsers : ~fresh[v].ready
    BY DEF NotYet, Stacks
  <2> HIDE DEF call, fresh
  <2>4. stacks' = Append(stacks, fresh) /\ UNCHANGED <<pointer, contents, alive, inserted>>
    BY <1>2 DEF StackNew, fresh
  <2>5. /\ stacks' \in Seq([LazyUsers -> Stacks]) /\ Len(stacks') = Len(stacks) + 1
        /\ \A o \in 1 .. Len(stacks) : stacks'[o] = stacks[o]
        /\ stacks'[Len(stacks) + 1] = fresh
    BY <1>a, <2>3, <2>4 DEF LazyTyped
  <2>6. LazyTyped'
    BY <1>a, <2>2, <2>4, <2>5 DEF LazyTyped
  <2>7. ObjectsExist'
    BY <1>a, <2>1, <2>2, <2>4, <2>5 DEF ObjectsExist, At
  <2>8. UnpublishedAreEmpty'
    <3>1. \A o \in 1 .. Len(stacks'), v \in LazyUsers : o # pointer["stack"] => ~stacks'[o][v].ready
      BY <1>a, <2>3, <2>5 DEF UnpublishedAreEmpty
    <3> QED
      BY <1>a, <2>4, <3>1 DEF UnpublishedAreEmpty
  <2>9. StacksMatch'
    <3>1. pointer["stack"] # 0 => stacks'[pointer["stack"]] = stacks[pointer["stack"]]
      BY <1>a, <2>5 DEF LazyTyped
    <3> QED
      BY <2>4, <3>1 DEF LazyInv, StacksMatch, Filled, Own
  <2> QED
    BY <2>6, <2>7, <2>8, <2>9 DEF LazyInv
<1>3. CASE StackPublish(u)
  <2> DEFINE o == Publish("stack", lazyCall[u].object)
             call == [at |-> lazyCall[u].op, op |-> lazyCall[u].op]
  <2>1. /\ o \in 1 .. Len(stacks) /\ (pointer["stack"] # 0 => o = pointer["stack"])
        /\ At(u, "StackPublish") /\ lazyCall[u].op \in {"Push", "Pop"}
    BY <1>3, <1>a DEF StackPublish, ObjectsExist, Publish, LazyTyped, LazyCalls, At, Resting
  <2>2. call \in LazyCalls /\ call.at \in {"Push", "Pop"} /\ call.at = lazyCall[u].op
    BY <2>1 DEF LazyCalls
  <2>3. /\ lazyCall' \in [LazyUsers -> LazyCalls] /\ lazyCall'[u] = call
        /\ \A v \in LazyUsers \ {u} : lazyCall'[v] = lazyCall[v]
    BY <1>3, <1>a, <2>2 DEF StackPublish, Do, LazyTyped
  <2>4. /\ pointer' \in [{"data", "stack"} -> Nat] /\ pointer'["stack"] = o
        /\ pointer'["data"] = pointer["data"] /\ UNCHANGED <<contents, stacks, alive, inserted>>
    BY <1>3, <1>a, <2>1 DEF StackPublish, LazyTyped
  <2> HIDE DEF o, call
  <2>5. LazyTyped'
    BY <1>a, <2>1, <2>3, <2>4 DEF LazyTyped
  <2>6. ObjectsExist'
    BY <1>a, <2>1, <2>2, <2>3, <2>4 DEF ObjectsExist, At
  <2>7. UnpublishedAreEmpty'
    BY <1>a, <2>1, <2>4 DEF UnpublishedAreEmpty
  <2>8. StacksMatch'
    <3>1. CASE pointer["stack"] # 0
      BY <2>1, <2>4, <3>1 DEF LazyInv, StacksMatch, Filled, Own
    <3>2. CASE pointer["stack"] = 0
      <4>1. \A v \in LazyUsers : alive[v] = <<>> /\ ~stacks[o][v].ready
        BY <1>a, <2>1, <3>2 DEF UnpublishedAreEmpty
      <4>2. \A v \in LazyUsers : Filled(v)' = FirstItems
        BY <2>4, <4>1 DEF Filled, Own, FirstItems
      <4>3. FirstItems \o <<>> = FirstItems
        BY FirstItemsList, ConcatEmptySeq
      <4> QED
        BY <2>4, <4>1, <4>2, <4>3 DEF StacksMatch
    <3> QED
      BY <3>1, <3>2
  <2> QED
    BY <2>5, <2>6, <2>7, <2>8 DEF LazyInv
<1> QED
  BY <1>1, <1>2, <1>3

\* A stack is pushed to or popped, and marked as initialised.
LEMMA StackChanges ==
  ASSUME LazyInv, NEW u \in LazyUsers, pointer["stack"] # 0,
         NEW living \in Seq(Nat), SetOwn(u, FirstItems \o living), FirstItems \o living \in Seq(Nat),
         alive' = [alive EXCEPT ![u] = living], Do(u, Resting),
         UNCHANGED <<pointer, contents, inserted>>
  PROVE  LazyInv'
<1> DEFINE p == pointer["stack"]
           mine == [ready |-> TRUE, items |-> FirstItems \o living]
<1>a. LazyTyped /\ ObjectsExist /\ UnpublishedAreEmpty /\ StacksMatch
  BY DEF LazyInv
<1>1. p \in 1 .. Len(stacks) /\ stacks[p] \in [LazyUsers -> Stacks] /\ mine \in Stacks
  BY <1>a DEF LazyTyped, Stacks
<1>2. stacks' = [stacks EXCEPT ![p] = [stacks[p] EXCEPT ![u] = mine]]
  BY DEF SetOwn
<1>3. mine.ready /\ mine.items = FirstItems \o living
  OBVIOUS
<1>4. [stacks[p] EXCEPT ![u] = mine] \in [LazyUsers -> Stacks]
  BY <1>1
<1> HIDE DEF mine, p
<1>5. /\ stacks' \in Seq([LazyUsers -> Stacks]) /\ Len(stacks') = Len(stacks)
      /\ \A o \in 1 .. Len(stacks) : o # p => stacks'[o] = stacks[o]
      /\ stacks'[p][u] = mine /\ \A v \in LazyUsers \ {u} : stacks'[p][v] = stacks[p][v]
  BY <1>a, <1>1, <1>2, <1>4 DEF LazyTyped
<1>6. /\ lazyCall' \in [LazyUsers -> LazyCalls] /\ lazyCall'[u] = Resting
      /\ \A v \in LazyUsers \ {u} : lazyCall'[v] = lazyCall[v]
  BY <1>a DEF Do, LazyTyped, LazyCalls
<1>7. /\ alive' \in [LazyUsers -> Seq(Nat)] /\ alive'[u] = living
      /\ \A v \in LazyUsers \ {u} : alive'[v] = alive[v]
  BY <1>a DEF LazyTyped
<1>8. LazyTyped'
  BY <1>a, <1>5, <1>6, <1>7 DEF LazyTyped
<1>9. ObjectsExist'
  <2>1. ASSUME NEW v \in LazyUsers, lazyCall'[v].at # "Rest"
        PROVE  v # u /\ lazyCall'[v] = lazyCall[v] /\ alive'[v] = alive[v]
    BY <1>6, <1>7, <2>1 DEF Resting
  <2> QED
    BY <1>a, <1>5, <2>1 DEF ObjectsExist, At
<1>10. UnpublishedAreEmpty'
  BY <1>a, <1>5 DEF UnpublishedAreEmpty, p
<1>11. StacksMatch'
  <2>1. ASSUME NEW v \in LazyUsers \ {u} PROVE Filled(v)' = FirstItems \o alive'[v]
    <3>1. Filled(v) = FirstItems \o alive[v]
      BY <1>a DEF StacksMatch
    <3>2. Filled(v)' = Filled(v)
      BY <1>5 DEF Filled, Own, p
    <3> QED
      BY <1>7, <3>1, <3>2
  <2>2. Filled(u)' = FirstItems \o alive'[u]
    BY <1>3, <1>5, <1>7 DEF Filled, Own, p
  <2> QED
    BY <2>1, <2>2 DEF StacksMatch
<1> QED
  BY <1>8, <1>9, <1>10, <1>11 DEF LazyInv

\* LazyInv is inductive.
LEMMA LazyInvariant == LazyInv /\ [LazyNext]_lazyVars => LazyInv'
<1> SUFFICES ASSUME LazyInv, [LazyNext]_lazyVars PROVE LazyInv'
  OBVIOUS
<1>a. LazyTyped /\ ObjectsExist /\ StacksMatch
  BY DEF LazyInv
<1>1. CASE UNCHANGED lazyVars
  BY <1>1 DEF lazyVars, LazyInv, LazyTyped, ObjectsExist, UnpublishedAreEmpty, StacksMatch, Filled, Own, At
<1>2. ASSUME NEW u \in LazyUsers, Push(u) PROVE LazyInv'
  <2> DEFINE x == Len(alive[u]) + 1
  <2>1. pointer["stack"] # 0 /\ alive[u] \in Seq(Nat) /\ x \in Nat
    BY <1>2, <1>a DEF Push, ObjectsExist, LazyTyped
  <2>2. Filled(u) = FirstItems \o alive[u]
    BY <1>a, <2>1 DEF StacksMatch
  <2>3. /\ Append(alive[u], x) \in Seq(Nat)
        /\ Append(FirstItems \o alive[u], x) = FirstItems \o Append(alive[u], x)
    <3> HIDE DEF x
    <3>1. Append(alive[u], x) \in Seq(Nat)
      BY <2>1
    <3> QED
      BY <2>1, <3>1, FirstItemsList, ConcatAppend
  <2>4. FirstItems \o Append(alive[u], x) \in Seq(Nat)
    BY <2>3, FirstItemsList, ConcatProperties
  <2>5. /\ SetOwn(u, Append(Filled(u), x)) /\ alive' = [alive EXCEPT ![u] = Append(alive[u], x)]
        /\ Do(u, Resting) /\ UNCHANGED <<pointer, contents, inserted>>
    BY <1>2 DEF Push
  <2> HIDE DEF x
  <2> QED
    BY <2>1, <2>2, <2>3, <2>4, <2>5, StackChanges
<1>3. ASSUME NEW u \in LazyUsers, Pop(u) PROVE LazyInv'
  <2> DEFINE front == SubSeq(alive[u], 1, Len(alive[u]) - 1)
             items == FirstItems \o alive[u]
  <2>1. pointer["stack"] # 0 /\ alive[u] \in Seq(Nat) /\ alive[u] # <<>>
    BY <1>3, <1>a DEF Pop, ObjectsExist, LazyTyped
  <2>2. Filled(u) = items
    BY <1>a, <2>1 DEF StacksMatch
  <2>3. /\ items # <<>> /\ items[Len(items)] = alive[u][Len(alive[u])]
        /\ front \in Seq(Nat) /\ SubSeq(items, 1, Len(items) - 1) = FirstItems \o front
    <3> HIDE DEF front
    <3> QED
      BY <2>1, FirstItemsList, ConcatFront DEF front
  <2>4. FirstItems \o front \in Seq(Nat)
    BY <2>3, FirstItemsList, ConcatProperties
  <2> HIDE DEF items
  <2>5. /\ SetOwn(u, FirstItems \o front) /\ alive' = [alive EXCEPT ![u] = front]
        /\ Do(u, Resting) /\ UNCHANGED <<pointer, contents, inserted>>
    BY <1>3, <2>2, <2>3 DEF Pop
  <2> HIDE DEF front
  <2> QED
    BY <2>1, <2>3, <2>4, <2>5, StackChanges
<1> QED
  BY <1>1, <1>2, <1>3, DataSteps, StackSteps DEF LazyNext, LazyStep

\* Nothing that is put into a static datum is lost, and every thread finds its own living
\* objects on its stack, whoever creates the data and the stacks at the same time
\* (staticData.h:96-121, stacked.h:60-190).
THEOREM LazyDataAreShared == LazySpec => []NothingIsLost
<1>1. LazyInv => NothingIsLost
  <2> SUFFICES ASSUME LazyInv PROVE NothingIsLost
    OBVIOUS
  <2>1. \A u \in LazyUsers : ~At(u, "Fatal")
    <3>1. \A u \in LazyUsers : lazyCall[u] \in LazyCalls
      BY DEF LazyInv, LazyTyped
    <3>2. \A call \in LazyCalls : call.at # "Fatal"
      BY DEF LazyCalls, Resting
    <3> QED
      BY <3>1, <3>2 DEF At
  <2>2. ASSUME NEW u \in LazyUsers, alive[u] # <<>> PROVE Own(u).items = FirstItems \o alive[u]
    <3>1. Filled(u) = FirstItems \o alive[u]
      BY <2>2 DEF LazyInv, UnpublishedAreEmpty, StacksMatch
    <3>2. FirstItems \o alive[u] # FirstItems
      <4>1. alive[u] \in Seq(Nat)
        BY DEF LazyInv, LazyTyped
      <4> QED
        BY <2>2, <4>1, FirstItemsList, ConcatProperties, EmptySeq
    <3> QED
      BY <3>1, <3>2 DEF Filled, FirstItems
  <2> QED
    BY <2>1, <2>2 DEF LazyInv, UnpublishedAreEmpty, NothingIsLost, FirstItems
<1> QED
  BY <1>1, LazyStarts, LazyInvariant, PTL DEF LazySpec

-----------------------------------------------------------------------------
(* TfScopeDescription.  The owner changes a stack's head under the stack's *)
(* lock, while its descriptions go at other times: the head is never ahead *)
(* of them, and the watcher that has the lock is in the one stack it has   *)
(* locked, at a description the head has led it to.                        *)

Descriptions == [points : {"Own", "Callers"}, owns : BOOLEAN]
Watches ==
  [at : {"Away", "Choose", "Head", "Frames"}, todo : SUBSET Scopers, of : Scopers \cup {None},
   frame : Nat, saw : {"Live", "Dead"}]

ScopeTyped ==
  /\ scopes \in [Scopers -> Seq(Descriptions)]
  /\ head \in [Scopers -> Nat]
  /\ stackMutex = [t \in Scopers |-> stackMutex[t]]
  /\ registered \subseteq Scopers
  /\ scopeStep \in [Scopers -> {"Out", "Push", "Pop", "Set", "SetOwned", "End", "Drop"}]
  /\ watch \in [Watchers -> Watches]

\* The head is behind the descriptions while one is being pushed or popped, and never
\* ahead of them; a description is pointed at its own text only while it has one.
HeadFollows == \A t \in Scopers :
  /\ head[t] = IF scopeStep[t] \in {"Push", "End"} THEN Depth(t) - 1 ELSE Depth(t)
  /\ scopeStep[t] # "Out" => Depth(t) > 0
  /\ \A n \in 1 .. Depth(t) : scopes[t][n].points = "Own" => scopes[t][n].owns

\* A watcher has the lock of one stack at most, and in it is where the head has led it.
WatchersFollow ==
  /\ \A w \in Watchers, t \in Scopers : stackMutex[t] = w =>
       /\ watch[w].of = t /\ watch[w].at \in {"Head", "Frames"} /\ watch[w].saw = "Live"
       /\ watch[w].at = "Frames" => watch[w].frame <= head[t]
  /\ \A w \in Watchers : watch[w].at \in {"Away", "Choose"} => watch[w].saw = "Live"
  /\ \A w \in Watchers : watch[w].at = "Head" => watch[w].of \in Scopers /\ watch[w].saw = "Live"
  /\ \A w \in Watchers : watch[w].at = "Frames" => watch[w].of \in Scopers

ScopeInv == ScopeTyped /\ HeadFollows /\ WatchersFollow

-----------------------------------------------------------------------------

\* At first all stacks are empty and nobody watches.
LEMMA ScopeStarts == ScopeInit => ScopeInv
<1> SUFFICES ASSUME ScopeInit PROVE ScopeInv
  OBVIOUS
<1>1. ScopeTyped
  BY DEF ScopeInit, ScopeTyped, Away, Watches
<1>2. HeadFollows
  <2>1. \A t \in Scopers : scopes[t] = <<>> /\ head[t] = 0 /\ scopeStep[t] = "Out"
    BY DEF ScopeInit
  <2> QED
    <3>0. Len(<<>>) = 0
      OBVIOUS
    <3>1. \A t \in Scopers : Depth(t) = 0
      BY <2>1, <3>0, Zenon DEF Depth
    <3>2. 1 .. 0 = {}
      OBVIOUS
    <3>3. ASSUME NEW t \in Scopers
          PROVE  /\ head[t] = IF scopeStep[t] \in {"Push", "End"} THEN Depth(t) - 1 ELSE Depth(t)
                 /\ scopeStep[t] # "Out" => Depth(t) > 0
                 /\ 1 .. Depth(t) = {}
      <4> QED
        BY <2>1, <3>1, <3>2
    <3> QED
      BY <3>3, Zenon DEF HeadFollows
<1>3. WatchersFollow
  BY ScopeAssumption DEF ScopeInit, WatchersFollow, Away
<1> QED
  BY <1>1, <1>2, <1>3 DEF ScopeInv

\* A step of t that leaves the head where it is.
LEMMA ScopesChange ==
  ASSUME ScopeInv, NEW t \in Scopers, NEW list \in Seq(Descriptions),
         NEW step \in {"Out", "Push", "Pop", "Set", "SetOwned", "End", "Drop"},
         NEW h \in Nat,
         scopes' = [scopes EXCEPT ![t] = list], scopeStep' = [scopeStep EXCEPT ![t] = step],
         head' = [head EXCEPT ![t] = h], h = head[t] \/ stackMutex[t] = t,
         \/ UNCHANGED stackMutex
         \/ stackMutex' = [stackMutex EXCEPT ![t] = None]
         \/ stackMutex' = [stackMutex EXCEPT ![t] = t],
         UNCHANGED <<registered, watch>>,
         h = IF step \in {"Push", "End"} THEN Len(list) - 1 ELSE Len(list),
         step # "Out" => Len(list) > 0,
         \A n \in 1 .. Len(list) : list[n].points = "Own" => list[n].owns
  PROVE  ScopeInv'
<1>1. ScopeTyped'
  BY DEF ScopeInv, ScopeTyped
<1>2. HeadFollows'
  BY DEF ScopeInv, ScopeTyped, HeadFollows, Depth
<1>3. WatchersFollow'
  <2>1. ASSUME NEW w \in Watchers, NEW u \in Scopers, stackMutex'[u] = w
        PROVE  stackMutex[u] = w /\ head'[u] = head[u]
    BY <2>1, ScopeAssumption DEF ScopeInv, ScopeTyped
  <2> QED
    BY <2>1 DEF ScopeInv, WatchersFollow
<1> QED
  BY <1>1, <1>2, <1>3 DEF ScopeInv

\* What the owner of a stack does.
LEMMA ScoperSteps ==
  ASSUME ScopeInv, NEW t \in Scopers,
         \/ \E owned \in BOOLEAN : PushScope(t, owned)
         \/ \E step \in {"Pop", "Set", "SetOwned"} : BeginScopeStep(t, step)
         \/ LockOwn(t) \/ LinkScope(t) \/ UnlinkScope(t) \/ EndScope(t)
         \/ SetScope(t) \/ DropOwned(t) \/ SetScopeOwned(t)
  PROVE  ScopeInv'
<1>0. scopes[t] \in Seq(Descriptions)
  BY DEF ScopeInv, ScopeTyped
<1> PICK list \in Seq(Descriptions) : list = scopes[t]
  BY <1>0
<1>a. /\ list \in Seq(Descriptions) /\ Len(list) \in Nat /\ head[t] \in Nat
      /\ scopeStep[t] \in {"Out", "Push", "Pop", "Set", "SetOwned", "End", "Drop"}
      /\ head[t] = IF scopeStep[t] \in {"Push", "End"} THEN Len(list) - 1 ELSE Len(list)
      /\ scopeStep[t] # "Out" => Len(list) > 0
      /\ \A n \in 1 .. Len(list) : list[n].points = "Own" => list[n].owns
      /\ scopes = [scopes EXCEPT ![t] = list] /\ head = [head EXCEPT ![t] = head[t]]
      /\ scopeStep = [scopeStep EXCEPT ![t] = scopeStep[t]]
      /\ list = scopes[t]
  BY DEF ScopeInv, ScopeTyped, HeadFollows, Depth
<1>1. ASSUME NEW owned \in BOOLEAN, PushScope(t, owned) PROVE ScopeInv'
  <2> DEFINE longer == Append(list, Described(owned))
  <2>1. Described(owned) \in Descriptions /\ (Described(owned).points = "Own" => Described(owned).owns)
    BY DEF Described, Descriptions
  <2>2. /\ longer \in Seq(Descriptions) /\ Len(longer) = Len(list) + 1
        /\ \A n \in 1 .. Len(longer) : longer[n].points = "Own" => longer[n].owns
    BY <1>a, <2>1
  <2>3. /\ scopes' = [scopes EXCEPT ![t] = longer] /\ scopeStep[t] = "Out"
        /\ scopeStep' = [scopeStep EXCEPT ![t] = "Push"]
        /\ UNCHANGED <<head, stackMutex, registered, watch>>
    BY <1>1 DEF PushScope, GoesTo, AtStep
  <2>4. head[t] = Len(longer) - 1 /\ Len(longer) > 0
    BY <1>a, <2>2, <2>3
  <2> HIDE DEF longer
  <2> QED
    BY <1>a, <2>2, <2>3, <2>4, ScopesChange
<1>2. ASSUME NEW step \in {"Pop", "Set", "SetOwned"}, BeginScopeStep(t, step) PROVE ScopeInv'
  <2>1. /\ scopes' = [scopes EXCEPT ![t] = list] /\ head' = [head EXCEPT ![t] = head[t]]
        /\ scopeStep' = [scopeStep EXCEPT ![t] = step]
        /\ UNCHANGED <<stackMutex, registered, watch>>
        /\ head[t] = Len(list) /\ Len(list) > 0
    BY <1>2, <1>a DEF BeginScopeStep, GoesTo, AtStep
  <2> QED
    BY <1>a, <2>1, ScopesChange
<1>3. CASE LockOwn(t)
  <2>1. /\ scopes' = [scopes EXCEPT ![t] = list] /\ head' = [head EXCEPT ![t] = head[t]]
        /\ scopeStep' = [scopeStep EXCEPT ![t] = scopeStep[t]]
        /\ stackMutex' = [stackMutex EXCEPT ![t] = t] /\ UNCHANGED <<registered, watch>>
    BY <1>3, <1>a DEF LockOwn
  <2> QED
    BY <1>a, <2>1, ScopesChange
<1>4. CASE LinkScope(t) \/ UnlinkScope(t)
  <2>1. PICK step \in {"Out", "End"} : 
        /\ scopes' = [scopes EXCEPT ![t] = list]
        /\ head' = [head EXCEPT ![t] = IF step = "Out" THEN Len(list) ELSE Len(list) - 1]
        /\ scopeStep' = [scopeStep EXCEPT ![t] = step]
        /\ stackMutex' = [stackMutex EXCEPT ![t] = None] /\ UNCHANGED <<registered, watch>>
        /\ stackMutex[t] = t /\ scopeStep[t] # "Out"
    BY <1>4, <1>a DEF LinkScope, UnlinkScope, HoldsOwn, AtStep, GoesTo, ReleaseOwn, Depth
  <2> DEFINE h == IF step = "Out" THEN Len(list) ELSE Len(list) - 1
  <2>2. h \in Nat /\ Len(list) > 0 /\ h = IF step \in {"Push", "End"} THEN Len(list) - 1 ELSE Len(list)
    BY <1>a, <2>1
  <2>3. head' = [head EXCEPT ![t] = h] /\ step \in {"Out", "Push", "Pop", "Set", "SetOwned", "End", "Drop"}
    BY <2>1
  <2>4. h = head[t] \/ stackMutex[t] = t
    BY <2>1
  <2>5. step # "Out" => Len(list) > 0
    BY <2>2
  <2> HIDE DEF h
  <2> QED
    BY <1>a, <2>1, <2>2, <2>3, <2>4, <2>5, ScopesChange
<1>5. CASE EndScope(t)
  <2> DEFINE shorter == SubSeq(list, 1, Len(list) - 1)
  <2>1. /\ scopes' = [scopes EXCEPT ![t] = shorter] /\ scopeStep[t] = "End"
        /\ scopeStep' = [scopeStep EXCEPT ![t] = "Out"]
        /\ UNCHANGED <<head, stackMutex, registered, watch>>
    BY <1>5 DEF EndScope, GoesTo, AtStep, Depth
  <2>2. /\ shorter \in Seq(Descriptions) /\ Len(shorter) = Len(list) - 1
        /\ \A n \in 1 .. Len(shorter) : shorter[n].points = "Own" => shorter[n].owns
    BY <1>a, <2>1
  <2> HIDE DEF shorter
  <2> QED
    BY <1>a, <2>1, <2>2, ScopesChange
<1>6. CASE SetScope(t) \/ DropOwned(t) \/ SetScopeOwned(t)
  <2> DEFINE n == Len(list)
  <2>1. PICK d \in Descriptions, step \in {"Drop", "Out"} :
          /\ d.points = "Own" => d.owns
          /\ scopes' = [scopes EXCEPT ![t] = [list EXCEPT ![n] = d]]
          /\ scopeStep' = [scopeStep EXCEPT ![t] = step]
          /\ stackMutex' = [stackMutex EXCEPT ![t] = None] \/ UNCHANGED stackMutex
          /\ UNCHANGED <<head, registered, watch>>
          /\ scopeStep[t] \in {"Set", "Drop", "SetOwned"}
    <3>a. scopeStep[t] \in {"Set", "Drop", "SetOwned"}
      BY <1>6 DEF SetScope, DropOwned, SetScopeOwned, HoldsOwn, AtStep
    <3>0. scopeStep[t] \in {"Set", "Drop", "SetOwned"} /\ n \in 1 .. Len(list)
      BY <1>a, <3>a
    <3>1. \A owned \in BOOLEAN : Described(owned) \in Descriptions
                                 /\ (Described(owned).points = "Own" => Described(owned).owns)
      BY DEF Described, Descriptions
    <3>2. PointAt(list[n]) \in Descriptions /\ PointAt(list[n]).points = "Callers"
      <4>1. list[n] \in Descriptions
        BY <1>a, <3>0
      <4> QED
        BY <4>1 DEF PointAt, Descriptions
    <3>3. CASE SetScope(t)
      BY <1>a, <3>0, <3>2, <3>3 DEF SetScope, GoesTo, ReleaseOwn, Depth
    <3>4. CASE DropOwned(t)
      BY <1>a, <3>0, <3>1, <3>4 DEF DropOwned, GoesTo, ReleaseOwn, Depth
    <3>5. CASE SetScopeOwned(t)
      BY <1>a, <3>0, <3>1, <3>5 DEF SetScopeOwned, GoesTo, ReleaseOwn, Depth
    <3> QED
      BY <1>6, <3>3, <3>4, <3>5
  <2> DEFINE changed == [list EXCEPT ![n] = d]
  <2>2. /\ changed \in Seq(Descriptions) /\ Len(changed) = Len(list)
        /\ \A i \in 1 .. Len(changed) : changed[i].points = "Own" => changed[i].owns
    BY <1>a, <2>1
  <2>3. scopes' = [scopes EXCEPT ![t] = changed] /\ head' = [head EXCEPT ![t] = head[t]]
        /\ step \in {"Out", "Push", "Pop", "Set", "SetOwned", "End", "Drop"} /\ Len(list) > 0
        /\ head[t] = IF step \in {"Push", "End"} THEN Len(changed) - 1 ELSE Len(changed)
    BY <1>a, <2>1, <2>2
  <2> HIDE DEF changed, n
  <2>4. UNCHANGED <<registered, watch>>
        /\ (UNCHANGED stackMutex \/ stackMutex' = [stackMutex EXCEPT ![t] = None])
        /\ scopeStep' = [scopeStep EXCEPT ![t] = step]
    BY <2>1
  <2>5. head[t] \in Nat /\ Len(changed) > 0
    BY <1>a, <2>2, <2>3
  <2> QED
    BY <2>2, <2>3, <2>4, <2>5, ScopesChange
<1> QED
  BY <1>1, <1>2, <1>3, <1>4, <1>5, <1>6

\* A step of w that takes no lock but the one of the stack it goes to.
LEMMA WatchesChange ==
  ASSUME ScopeInv, NEW w \in Watchers, NEW r \in Watches,
         watch' = [watch EXCEPT ![w] = r], UNCHANGED <<scopes, head, scopeStep>>,
         registered' \subseteq Scopers,
         \/ UNCHANGED stackMutex
         \/ \E t \in Scopers : stackMutex[t] = w /\ stackMutex' = [stackMutex EXCEPT ![t] = None]
         \/ \E t \in Scopers : r.of = t /\ stackMutex' = [stackMutex EXCEPT ![t] = w],
         \A t \in Scopers : stackMutex'[t] = w =>
           /\ r.of = t /\ r.at \in {"Head", "Frames"} /\ r.saw = "Live"
           /\ r.at = "Frames" => r.frame <= head[t],
         r.at \in {"Away", "Choose"} => r.saw = "Live",
         r.at = "Head" => r.of \in Scopers /\ r.saw = "Live",
         r.at = "Frames" => r.of \in Scopers
  PROVE  ScopeInv'
<1>1. ScopeTyped'
  BY DEF ScopeInv, ScopeTyped
<1>2. HeadFollows'
  BY DEF ScopeInv, HeadFollows, Depth
<1>3. WatchersFollow'
  <2>1. ASSUME NEW v \in Watchers, NEW t \in Scopers, stackMutex'[t] = v, v # w
        PROVE  stackMutex[t] = v
    BY <2>1, ScopeAssumption DEF ScopeInv, ScopeTyped
  <2>2. \A v \in Watchers : watch'[v] = IF v = w THEN r ELSE watch[v]
    BY DEF ScopeInv, ScopeTyped
  <2> QED
    BY <2>1, <2>2 DEF ScopeInv, WatchersFollow
<1> QED
  BY <1>1, <1>2, <1>3 DEF ScopeInv

\* What a watcher reads of a stack it has the lock of is alive.
LEMMA FramesAreLive ==
  ASSUME ScopeInv, NEW t \in Scopers, NEW n \in Nat, n > 0, n <= head[t]
  PROVE  Reads(t, n) = "Live"
<1>1. Depth(t) \in Nat /\ head[t] \in Nat /\ head[t] <= Depth(t)
  BY DEF ScopeInv, ScopeTyped, HeadFollows, Depth
<1>2. n \in 1 .. Depth(t)
  BY <1>1
<1> QED
  BY <1>1, <1>2 DEF ScopeInv, HeadFollows, Reads

\* What a watcher does.
LEMMA WatcherSteps ==
  ASSUME ScopeInv, NEW w \in Watchers,
         \/ \E S \in SUBSET Scopers : BeginWatch(w, S)
         \/ LockStack(w) \/ ReadHead(w) \/ ReadFrame(w) \/ UnlockStack(w) \/ EndWatch(w)
  PROVE  ScopeInv'
<1> PICK r \in Watches : r = watch[w]
  BY DEF ScopeInv, ScopeTyped
<1>a. /\ r = watch[w] /\ w \notin Scopers /\ w # None
      /\ \A t \in Scopers : stackMutex[t] = w =>
           /\ r.of = t /\ r.at \in {"Head", "Frames"} /\ r.saw = "Live"
           /\ r.at = "Frames" => r.frame <= head[t]
      /\ r.at \in {"Away", "Choose"} => r.saw = "Live"
      /\ r.at = "Head" => r.of \in Scopers /\ r.saw = "Live"
      /\ r.at = "Frames" => r.of \in Scopers
      /\ registered \subseteq Scopers
  BY ScopeAssumption DEF ScopeInv, ScopeTyped, WatchersFollow
<1>b. r.frame \in Nat /\ r.todo \subseteq Scopers /\ \A t \in Scopers : head[t] \in Nat
  BY DEF Watches, ScopeInv, ScopeTyped
<1>1. ASSUME NEW S \in SUBSET Scopers, BeginWatch(w, S) PROVE ScopeInv'
  <2>0. [Away EXCEPT !.at = "Choose", !.todo = S] \in Watches
    BY DEF Away, Watches
  <2>1. PICK s \in Watches : s = [Away EXCEPT !.at = "Choose", !.todo = S]
    BY <2>0
  <2>f. s.at = "Choose" /\ s.saw = "Live"
    BY <2>1 DEF Away
  <2>2. /\ watch' = [watch EXCEPT ![w] = s] /\ r.at = "Away"
        /\ UNCHANGED <<scopes, head, scopeStep, stackMutex>> /\ registered' \subseteq Scopers
    BY <1>1, <2>1, <1>a DEF BeginWatch, WatchAt, Sees
  <2>3. \A t \in Scopers : stackMutex'[t] # w
    BY <1>a, <2>2
  <2> QED
    BY <2>f, <2>2, <2>3, WatchesChange
<1>2. CASE LockStack(w)
  <2>1. PICK t \in r.todo :
          /\ \/ stackMutex[t] = None /\ stackMutex' = [stackMutex EXCEPT ![t] = w]
             \/ UNCHANGED stackMutex
          /\ watch' = [watch EXCEPT ![w] = [r EXCEPT !.at = "Head", !.of = t, !.todo = @ \ {t}]]
          /\ UNCHANGED <<scopes, head, scopeStep, registered>>
          /\ r.at = "Choose"
    BY <1>2, <1>a DEF LockStack, WatchAt, Sees
  <2>0. [r EXCEPT !.at = "Head", !.of = t, !.todo = @ \ {t}] \in Watches
    BY <1>b DEF Watches
  <2>2. PICK s \in Watches : s = [r EXCEPT !.at = "Head", !.of = t, !.todo = @ \ {t}]
    BY <2>0
  <2>f. s.at = "Head" /\ s.of = t /\ s.saw = r.saw
    BY <2>2 DEF Watches
  <2>3. /\ watch' = [watch EXCEPT ![w] = s] /\ t \in Scopers /\ s.saw = "Live"
        /\ \A u \in Scopers : stackMutex[u] # w
        /\ UNCHANGED <<scopes, head, scopeStep>> /\ registered' \subseteq Scopers
        /\ UNCHANGED stackMutex \/ stackMutex' = [stackMutex EXCEPT ![t] = w]
    BY <1>a, <1>b, <2>1, <2>2, <2>f
  <2>4. \A u \in Scopers : stackMutex'[u] = w => u = t
    BY <2>1, <2>3 DEF ScopeInv, ScopeTyped
  <2> QED
    BY <2>f, <2>3, <2>4, WatchesChange
<1>3. CASE ReadHead(w)
  <2>1. /\ watch' = [watch EXCEPT ![w] = [r EXCEPT !.at = "Frames", !.frame = head[r.of]]]
        /\ r.at = "Head" /\ UNCHANGED <<scopes, head, scopeStep, registered, stackMutex>>
    BY <1>3, <1>a DEF ReadHead, WatchAt, Sees
  <2>2. r.of \in Scopers /\ head[r.of] \in Nat
    BY <1>a, <1>b, <2>1
  <2>0. [r EXCEPT !.at = "Frames", !.frame = head[r.of]] \in Watches
    BY <2>2 DEF Watches
  <2>3. PICK s \in Watches : s = [r EXCEPT !.at = "Frames", !.frame = head[r.of]]
    BY <2>0
  <2>f. s.at = "Frames" /\ s.of = r.of /\ s.saw = r.saw /\ s.frame = head[r.of]
    BY <2>3 DEF Watches
  <2>4. watch' = [watch EXCEPT ![w] = s] /\ registered' \subseteq Scopers
        /\ UNCHANGED <<scopes, head, scopeStep, stackMutex>> /\ s.of \in Scopers
    BY <1>a, <2>1, <2>2, <2>3, <2>f
  <2>5. \A t \in Scopers : stackMutex'[t] = w => s.of = t /\ s.saw = "Live" /\ s.frame <= head[t]
    BY <1>a, <1>b, <2>1, <2>2, <2>f
  <2> QED
    BY <2>f, <2>4, <2>5, WatchesChange
<1>4. CASE ReadFrame(w)
  <2>1. /\ watch' = [watch EXCEPT ![w] = [r EXCEPT !.frame = r.frame - 1, !.saw = Reads(r.of, r.frame)]]
        /\ r.at = "Frames" /\ r.frame > 0
        /\ UNCHANGED <<scopes, head, scopeStep, registered, stackMutex>>
    BY <1>4, <1>a DEF ReadFrame, WatchAt, Sees
  <2>2. r.frame - 1 \in Nat /\ Reads(r.of, r.frame) \in {"Live", "Dead"}
    BY <1>b, <2>1 DEF Reads
  <2>0. [r EXCEPT !.frame = r.frame - 1, !.saw = Reads(r.of, r.frame)] \in Watches
    BY <2>2 DEF Watches
  <2>3. PICK s \in Watches : s = [r EXCEPT !.frame = r.frame - 1, !.saw = Reads(r.of, r.frame)]
    BY <2>0
  <2>f. s.at = r.at /\ s.of = r.of /\ s.saw = Reads(r.of, r.frame) /\ s.frame = r.frame - 1
    BY <2>3 DEF Watches
  <2>4. watch' = [watch EXCEPT ![w] = s] /\ registered' \subseteq Scopers
        /\ UNCHANGED <<scopes, head, scopeStep, stackMutex>> /\ s.of \in Scopers /\ s.at = "Frames"
    BY <1>a, <2>1, <2>3, <2>f
  <2>5. ASSUME NEW t \in Scopers, stackMutex'[t] = w
        PROVE  s.of = t /\ s.saw = "Live" /\ s.frame <= head[t]
    <3>1. r.of = t /\ r.frame <= head[t] /\ r.frame \in Nat
      BY <2>5, <1>a, <1>b, <2>1
    <3>2. Reads(t, r.frame) = "Live"
      BY <3>1, <2>1, FramesAreLive
    <3> QED
      BY <3>1, <3>2, <2>f, <1>b
  <2> QED
    BY <2>4, <2>5, WatchesChange
<1>5. CASE UnlockStack(w)
  <2>1. /\ watch' = [watch EXCEPT ![w] = [r EXCEPT !.at = "Choose", !.of = None]]
        /\ r.at = "Frames" /\ r.saw = "Live" /\ UNCHANGED <<scopes, head, scopeStep, registered>>
        /\ stackMutex' = IF stackMutex[r.of] = w THEN [stackMutex EXCEPT ![r.of] = None] ELSE stackMutex
    BY <1>5, <1>a DEF UnlockStack, WatchAt, Sees
  <2>0. [r EXCEPT !.at = "Choose", !.of = None] \in Watches
    BY DEF Watches
  <2>2. PICK s \in Watches : s = [r EXCEPT !.at = "Choose", !.of = None]
    BY <2>0
  <2>f. s.at = "Choose" /\ s.saw = r.saw
    BY <2>2 DEF Watches
  <2>3. watch' = [watch EXCEPT ![w] = s] /\ s.saw = "Live" /\ r.of \in Scopers
        /\ UNCHANGED <<scopes, head, scopeStep>> /\ registered' \subseteq Scopers
    BY <1>a, <2>1, <2>2, <2>f
  <2>4. \A t \in Scopers : stackMutex'[t] # w
    <3>1. \A t \in Scopers : stackMutex[t] = w => r.of = t
      BY <1>a
    <3> QED
      BY <1>a, <2>1, <2>3, <3>1 DEF ScopeInv, ScopeTyped
  <2>5. \/ UNCHANGED stackMutex
        \/ \E t \in Scopers : stackMutex[t] = w /\ stackMutex' = [stackMutex EXCEPT ![t] = None]
    BY <2>1, <2>3
  <2> QED
    BY <2>f, <2>3, <2>4, <2>5, WatchesChange
<1>6. CASE EndWatch(w)
  <2>1. Away \in Watches /\ Away.at = "Away" /\ Away.saw = "Live"
    BY DEF Away, Watches
  <2>2. /\ watch' = [watch EXCEPT ![w] = Away] /\ r.at = "Choose"
        /\ UNCHANGED <<scopes, head, scopeStep, registered, stackMutex>>
    BY <1>6, <1>a DEF EndWatch, WatchAt, Sees
  <2>3. \A t \in Scopers : stackMutex'[t] # w
    BY <1>a, <2>2
  <2> QED
    BY <1>a, <2>1, <2>2, <2>3, WatchesChange
<1> QED
  BY <1>1, <1>2, <1>3, <1>4, <1>5, <1>6

\* ScopeInv is invariant.
LEMMA ScopeInvariant == ScopeSpec => []ScopeInv
<1>1. ScopeInv /\ [ScopeNext]_scopeVars => ScopeInv'
  <2> SUFFICES ASSUME ScopeInv, [ScopeNext]_scopeVars PROVE ScopeInv'
    OBVIOUS
  <2>1. CASE UNCHANGED scopeVars
    BY <2>1 DEF ScopeInv, ScopeTyped, HeadFollows, WatchersFollow, Depth, scopeVars
  <2>2. ASSUME NEW t \in Scopers, AddStack(t) \/ RemoveStack(t) PROVE ScopeInv'
    <3>1. UNCHANGED <<scopes, head, stackMutex, scopeStep, watch>> /\ registered' \subseteq registered \cup {t}
      BY <2>2 DEF AddStack, RemoveStack
    <3>2. ScopeTyped'
      BY <3>1 DEF ScopeInv, ScopeTyped
    <3>3. HeadFollows' /\ WatchersFollow'
      BY <3>1 DEF ScopeInv, HeadFollows, WatchersFollow, Depth
    <3> QED
      BY <3>2, <3>3 DEF ScopeInv
  <2> QED
    BY <2>1, <2>2, ScoperSteps, WatcherSteps DEF ScopeNext
<1> QED
  BY <1>1, ScopeStarts, PTL DEF ScopeSpec

\* For any threads, any depth and any watchers, what TfGetCurrentScopeDescriptionStack and
\* the reporter read of a stack they have locked is alive, whatever the stack's owner does
\* to it meanwhile (scopeDescription.cpp:75-311).
THEOREM ScopesAreReadAlive == ScopeSpec => []LockedReadsAreLive
<1>1. ScopeInv => LockedReadsAreLive
  <2> SUFFICES ASSUME ScopeInv, NEW w \in Watchers, watch[w].of # None, stackMutex[watch[w].of] = w
               PROVE  watch[w].saw = "Live"
    BY DEF LockedReadsAreLive
  <2>1. watch[w].of \in Scopers
    BY DEF ScopeInv, ScopeTyped, Watches
  <2> QED
    BY <2>1 DEF ScopeInv, WatchersFollow
<1> QED
  BY <1>1, ScopeInvariant, PTL

-----------------------------------------------------------------------------
(* TfEnum.  A type's names are those that lead to a value, a value has a   *)
(* name that was given to it and a name leads to a value it was given to;  *)
(* whether they lead back depends on how many values have the name, or how *)
(* many names the value.  The step that takes a name from the tables is    *)
(* one by which its library no longer has it.                              *)

EnumValues == {ValueOf(item) : item \in EnumItems}
FullNames == {FullNameOf(item) : item \in EnumItems}
ItemNames == {item.name : item \in EnumItems}
EnumLists == Seq(ItemNames)
EnumStates == {"Unloaded", "Adding", "Loaded", "Removing"}

EnumLibrariesTyped ==
  /\ enumLibrary \in [EnumLibraries -> [state : EnumStates, at : Nat, loads : Nat]]
  /\ \A l \in EnumLibraries : enumLibrary[l].state # "Unloaded" => enumLibrary[l].loads > 0

EnumTyped ==
  /\ DOMAIN enumToNames \subseteq EnumValues
  /\ \A v \in DOMAIN enumToNames : enumToNames[v] # ""
  /\ DOMAIN fullNameToEnum \subseteq FullNames
  /\ \A t \in DOMAIN typeNameToNames : typeNameToNames[t] \in EnumLists
  /\ EnumLibrariesTyped

\* A type that has never had a name has none that can be looked up, either.
ListsAreComplete ==
  \A t : ToSet(NamesOfType(t)) = {f.name : f \in {g \in DOMAIN fullNameToEnum : g.type = t}}

\* A value has a name that it was given, and the name leads to it or to another value
\* that was given it.
NamesLeadBack ==
  \A v \in DOMAIN enumToNames :
    LET f == [type |-> v.type, name |-> enumToNames[v]]
    IN /\ v.value \in Bearers(f.type, f.name)
       /\ Bearers(f.type, f.name) = {v.value} =>
            f \in DOMAIN fullNameToEnum /\ fullNameToEnum[f] = v.value

\* A name leads to a value that was given it, and the value to it or to another name
\* that it was given.
ValuesLeadBack ==
  \A f \in DOMAIN fullNameToEnum :
    LET v == [type |-> f.type, value |-> fullNameToEnum[f]]
    IN /\ f.name \in Titles(v)
       /\ Titles(v) = {f.name} => v \in DOMAIN enumToNames /\ enumToNames[v] = f.name

EnumInv == EnumTyped /\ ListsAreComplete /\ NamesLeadBack /\ ValuesLeadBack

-----------------------------------------------------------------------------

\* What a list has of a name taken out of it, or with one more.
LEMMA NamesAreTaken ==
  ASSUME NEW names \in EnumLists, NEW name
  PROVE  /\ NamesLeft(names, name) \in EnumLists
         /\ ToSet(NamesLeft(names, name)) = ToSet(names) \ {name}
<1> DEFINE left == Only(names, ToSet(names) \ {name})
<1>1. /\ left \in Seq(ItemNames \cap (ToSet(names) \ {name}))
      /\ \A i \in DOMAIN names : names[i] \in ToSet(names) \ {name} =>
           \E k \in DOMAIN left : left[k] = names[i]
  BY OnlyMembers DEF EnumLists
<1> HIDE DEF left
<1>2. left \in EnumLists
  BY <1>1 DEF EnumLists
<1>3. \A k \in DOMAIN left : left[k] \in ToSet(names) \ {name}
  BY <1>1
<1>4. ToSet(left) = ToSet(names) \ {name}
  BY <1>1, <1>3 DEF ToSet
<1> QED
  BY <1>2, <1>4 DEF NamesLeft, left

\* Add: the name is the last of its type's.
LEMMA NameIsAppended ==
  ASSUME NEW names \in EnumLists, NEW name \in ItemNames
  PROVE  /\ Append(names, name) \in EnumLists
         /\ ToSet(Append(names, name)) = ToSet(names) \cup {name}
<1>1. /\ Append(names, name) \in EnumLists /\ Len(names) \in Nat
      /\ DOMAIN names = 1 .. Len(names) /\ DOMAIN Append(names, name) = 1 .. Len(names) + 1
      /\ \A i \in 1 .. Len(names) : Append(names, name)[i] = names[i]
      /\ Append(names, name)[Len(names) + 1] = name
  BY DEF EnumLists
<1> DEFINE longer == Append(names, name)
<1> HIDE DEF longer
<1>2. ASSUME NEW x \in ToSet(longer) PROVE x \in ToSet(names) \cup {name}
  <2>1. PICK i \in 1 .. Len(names) + 1 : x = longer[i]
    BY <1>1 DEF longer, ToSet
  <2>2. i \in 1 .. Len(names) \/ i = Len(names) + 1
    BY <1>1
  <2> QED
    BY <1>1, <2>1, <2>2 DEF longer, ToSet
<1>3. ASSUME NEW x \in ToSet(names) \cup {name} PROVE x \in ToSet(longer)
  <2>1. CASE x = name
    <3>1. Len(names) + 1 \in 1 .. Len(names) + 1
      BY <1>1
    <3> QED
      BY <1>1, <2>1, <3>1 DEF longer, ToSet
  <2>2. CASE x \in ToSet(names)
    <3>1. PICK i \in 1 .. Len(names) : x = names[i]
      BY <1>1, <2>2 DEF ToSet
    <3>2. i \in 1 .. Len(names) + 1
      BY <1>1
    <3> QED
      BY <1>1, <3>1, <3>2 DEF longer, ToSet
  <2> QED
    BY <2>1, <2>2
<1>4. ToSet(longer) = ToSet(names) \cup {name}
  BY <1>2, <1>3
<1> QED
  BY <1>1, <1>4 DEF longer

\* A type without names.
LEMMA NoNames == <<>> \in EnumLists /\ ToSet(<<>>) = {}
  BY DEF EnumLists, ToSet

\* At first there are no names.
LEMMA EnumStarts == EnumInit => EnumInv
<1> SUFFICES ASSUME EnumInit PROVE EnumInv
  OBVIOUS
<1>1. DOMAIN enumToNames = {} /\ DOMAIN fullNameToEnum = {} /\ DOMAIN typeNameToNames = {}
  BY DEF EnumInit
<1>2. EnumTyped
  BY <1>1 DEF EnumInit, EnumTyped, EnumLibrariesTyped, EnumStates
<1>3. ListsAreComplete
  BY <1>1, NoNames DEF ListsAreComplete, NamesOfType
<1>4. NamesLeadBack /\ ValuesLeadBack
  BY <1>1 DEF NamesLeadBack, ValuesLeadBack
<1> QED
  BY <1>2, <1>3, <1>4 DEF EnumInv

\* Keys of the tables are known by their fields.
LEMMA KeyFields ==
  /\ \A f \in FullNames : f = [type |-> f.type, name |-> f.name]
  /\ \A v \in EnumValues : v = [type |-> v.type, value |-> v.value]
<1>1. ASSUME NEW f \in FullNames PROVE f = [type |-> f.type, name |-> f.name]
  <2>1. PICK item \in EnumItems : f = [type |-> item.type, name |-> item.name]
    BY DEF FullNames, FullNameOf
  <2> QED
    BY <2>1
<1>2. ASSUME NEW v \in EnumValues PROVE v = [type |-> v.type, value |-> v.value]
  <2>1. PICK item \in EnumItems : v = [type |-> item.type, value |-> item.value]
    BY DEF EnumValues, ValueOf
  <2> QED
    BY <2>1
<1> QED
  BY <1>1, <1>2

\* Items have the values and names the tables are about.
LEMMA ItemFields ==
  ASSUME NEW item \in EnumItems
  PROVE  /\ ValueOf(item) \in EnumValues /\ FullNameOf(item) \in FullNames
         /\ item.name \in ItemNames /\ item.name # ""
         /\ item.value \in Bearers(item.type, item.name)
         /\ item.name \in Titles(ValueOf(item))
<1>1. item.value \in Bearers(item.type, item.name) /\ item.name \in Titles(ValueOf(item))
  BY DEF Bearers, Titles, EnumItems
<1> QED
  BY <1>1, EnumAssumption DEF EnumValues, FullNames, ItemNames

\* What _AddName does of the invariant.
LEMMA EnumAdded ==
  ASSUME EnumInv, NEW item \in EnumItems, AddName(item),
         EnumLibrariesTyped'
  PROVE  EnumInv'
<1> PICK T, N, V : T = item.type /\ N = item.name /\ V = item.value
  OBVIOUS
<1>a. /\ ValueOf(item) = [type |-> T, value |-> V] /\ FullNameOf(item) = [type |-> T, name |-> N]
      /\ ValueOf(item) \in EnumValues /\ FullNameOf(item) \in FullNames
      /\ N \in ItemNames /\ N # "" /\ V \in Bearers(T, N) /\ N \in Titles(ValueOf(item))
  BY ItemFields DEF ValueOf, FullNameOf
<1> PICK v, f : v = [type |-> T, value |-> V] /\ f = [type |-> T, name |-> N]
  OBVIOUS
<1>b. /\ v \in EnumValues /\ f \in FullNames /\ v.type = T /\ v.value = V /\ f.type = T /\ f.name = N
  BY <1>a
<1>1. /\ DOMAIN enumToNames' = DOMAIN enumToNames \cup {v}
      /\ \A w \in DOMAIN enumToNames' : enumToNames'[w] = IF w = v THEN N ELSE enumToNames[w]
      /\ DOMAIN fullNameToEnum' = DOMAIN fullNameToEnum \cup {f}
      /\ \A g \in DOMAIN fullNameToEnum' : fullNameToEnum'[g] = IF g = f THEN V ELSE fullNameToEnum[g]
      /\ DOMAIN typeNameToNames' = DOMAIN typeNameToNames \cup {T}
      /\ \A t \in DOMAIN typeNameToNames' :
           typeNameToNames'[t] = IF t = T THEN Append(NamesOfType(T), N) ELSE typeNameToNames[t]
  BY <1>a DEF AddName, Put
<1>c. NamesOfType(T) \in EnumLists
  BY NoNames DEF EnumInv, EnumTyped, NamesOfType
<1>d. /\ Append(NamesOfType(T), N) \in EnumLists
      /\ ToSet(Append(NamesOfType(T), N)) = ToSet(NamesOfType(T)) \cup {N}
  BY <1>a, <1>c, NameIsAppended
<1>2. EnumTyped'
  BY <1>a, <1>b, <1>1, <1>d DEF EnumInv, EnumTyped
<1>3. ListsAreComplete'
  <2> SUFFICES ASSUME NEW t
               PROVE  ToSet(NamesOfType(t)') = {g.name : g \in {h \in DOMAIN fullNameToEnum' : h.type = t}}
    BY DEF ListsAreComplete
  <2>1. ToSet(NamesOfType(t)) = {g.name : g \in {h \in DOMAIN fullNameToEnum : h.type = t}}
    BY DEF EnumInv, ListsAreComplete
  <2>2. CASE t = T
    <3>1. NamesOfType(t)' = Append(NamesOfType(T), N)
      BY <1>1, <2>2 DEF NamesOfType
    <3> QED
      BY <1>b, <1>1, <1>d, <2>1, <2>2, <3>1
  <2>3. CASE t # T
    <3>1. NamesOfType(t)' = NamesOfType(t)
      BY <1>1, <2>3 DEF NamesOfType
    <3> QED
      BY <1>b, <1>1, <2>1, <2>3, <3>1
  <2> QED
    BY <2>2, <2>3
<1>4. NamesLeadBack'
  <2> SUFFICES ASSUME NEW w \in DOMAIN enumToNames', NEW g, g = [type |-> w.type, name |-> enumToNames'[w]]
               PROVE  /\ w.value \in Bearers(g.type, g.name)
                      /\ Bearers(g.type, g.name) = {w.value} =>
                           g \in DOMAIN fullNameToEnum' /\ fullNameToEnum'[g] = w.value
    BY DEF NamesLeadBack, Bearers
  <2>1. CASE w = v
    <3>1. g = f
      BY <1>1, <1>b, <2>1
    <3> QED
      BY <1>a, <1>b, <1>1, <2>1, <3>1
  <2>2. CASE w # v
    <3>1. w \in DOMAIN enumToNames /\ g = [type |-> w.type, name |-> enumToNames[w]]
      BY <1>1, <2>2
    <3>2. /\ w.value \in Bearers(g.type, g.name)
          /\ Bearers(g.type, g.name) = {w.value} =>
               g \in DOMAIN fullNameToEnum /\ fullNameToEnum[g] = w.value
      BY <3>1 DEF EnumInv, NamesLeadBack
    <3>3. g = f => V \in Bearers(g.type, g.name)
      BY <1>a, <1>b
    <3> QED
      BY <1>1, <3>2, <3>3
  <2> QED
    BY <2>1, <2>2
<1>5. ValuesLeadBack'
  <2> SUFFICES ASSUME NEW g \in DOMAIN fullNameToEnum',
                      NEW w, w = [type |-> g.type, value |-> fullNameToEnum'[g]]
               PROVE  /\ g.name \in Titles(w)
                      /\ Titles(w) = {g.name} => w \in DOMAIN enumToNames' /\ enumToNames'[w] = g.name
    BY DEF ValuesLeadBack, Titles
  <2>1. CASE g = f
    <3>1. w = v
      BY <1>1, <1>b, <2>1
    <3> QED
      BY <1>a, <1>b, <1>1, <2>1, <3>1
  <2>2. CASE g # f
    <3>1. g \in DOMAIN fullNameToEnum /\ w = [type |-> g.type, value |-> fullNameToEnum[g]]
      BY <1>1, <2>2
    <3>2. /\ g.name \in Titles(w)
          /\ Titles(w) = {g.name} => w \in DOMAIN enumToNames /\ enumToNames[w] = g.name
      BY <3>1 DEF EnumInv, ValuesLeadBack
    <3>3. w = v => N \in Titles(w)
      BY <1>a
    <3> QED
      BY <1>1, <3>2, <3>3
  <2> QED
    BY <2>1, <2>2
<1> QED
  BY <1>2, <1>3, <1>4, <1>5 DEF EnumInv

\* What RemoveNames does of the invariant.
LEMMA EnumRemoved ==
  ASSUME EnumInv, NEW item \in EnumItems, RemoveEnum(item),
         EnumLibrariesTyped'
  PROVE  EnumInv'
<1> PICK T, N, V : T = item.type /\ N = NameOf(item) /\ V = item.value
  OBVIOUS
<1> PICK v, f : v = [type |-> T, value |-> V] /\ f = [type |-> T, name |-> N]
  OBVIOUS
<1>a. /\ v = [type |-> T, value |-> V] /\ f = [type |-> T, name |-> N]
      /\ ValueOf(item) = v /\ v.type = T /\ v.value = V /\ f.type = T /\ f.name = N
      /\ N = IF v \in DOMAIN enumToNames THEN enumToNames[v] ELSE ""
  BY DEF ValueOf, NameOf
<1>1. /\ DOMAIN enumToNames' = DOMAIN enumToNames \ {v}
      /\ \A w \in DOMAIN enumToNames' : enumToNames'[w] = enumToNames[w]
      /\ DOMAIN fullNameToEnum' = DOMAIN fullNameToEnum \ {f}
      /\ \A g \in DOMAIN fullNameToEnum' : fullNameToEnum'[g] = fullNameToEnum[g]
      /\ DOMAIN typeNameToNames' = DOMAIN typeNameToNames \cup {T}
      /\ \A t \in DOMAIN typeNameToNames' :
           typeNameToNames'[t] = IF t = T THEN NamesLeft(NamesOfType(T), N) ELSE typeNameToNames[t]
  BY <1>a DEF RemoveEnum, Put, EraseKey
<1>c. NamesOfType(T) \in EnumLists
  BY NoNames DEF EnumInv, EnumTyped, NamesOfType
<1>d. /\ NamesLeft(NamesOfType(T), N) \in EnumLists
      /\ ToSet(NamesLeft(NamesOfType(T), N)) = ToSet(NamesOfType(T)) \ {N}
  BY <1>c, NamesAreTaken
<1>2. EnumTyped'
  BY <1>1, <1>d DEF EnumInv, EnumTyped
<1>3. ListsAreComplete'
  <2> SUFFICES ASSUME NEW t
               PROVE  ToSet(NamesOfType(t)') = {g.name : g \in {h \in DOMAIN fullNameToEnum' : h.type = t}}
    BY DEF ListsAreComplete
  <2>1. ToSet(NamesOfType(t)) = {g.name : g \in {h \in DOMAIN fullNameToEnum : h.type = t}}
    BY DEF EnumInv, ListsAreComplete
  <2>2. CASE t = T
    <3>1. NamesOfType(t)' = NamesLeft(NamesOfType(T), N)
      BY <1>1, <2>2 DEF NamesOfType
    <3>2. \A h \in DOMAIN fullNameToEnum : h.type = T /\ h.name = N => h = f
      BY <1>a, KeyFields DEF EnumInv, EnumTyped
    <3>3. ASSUME NEW h \in DOMAIN fullNameToEnum, h.type = T
          PROVE  h \in DOMAIN fullNameToEnum' <=> h.name # N
      BY <1>a, <1>1, <3>2, <3>3
    <3>4. {g.name : g \in {h \in DOMAIN fullNameToEnum' : h.type = T}}
            = {g.name : g \in {h \in DOMAIN fullNameToEnum : h.type = T}} \ {N}
      BY <1>1, <3>3
    <3> QED
      BY <1>d, <2>1, <2>2, <3>1, <3>4
  <2>3. CASE t # T
    <3>1. NamesOfType(t)' = NamesOfType(t)
      BY <1>1, <2>3 DEF NamesOfType
    <3> QED
      BY <1>a, <1>1, <2>1, <2>3, <3>1
  <2> QED
    BY <2>2, <2>3
<1>4. NamesLeadBack'
  <2> SUFFICES ASSUME NEW w \in DOMAIN enumToNames', NEW g, g = [type |-> w.type, name |-> enumToNames'[w]]
               PROVE  /\ w.value \in Bearers(g.type, g.name)
                      /\ Bearers(g.type, g.name) = {w.value} =>
                           g \in DOMAIN fullNameToEnum' /\ fullNameToEnum'[g] = w.value
    BY DEF NamesLeadBack, Bearers
  <2>1. w \in DOMAIN enumToNames /\ w # v /\ g = [type |-> w.type, name |-> enumToNames[w]]
    BY <1>1
  <2>2. /\ w.value \in Bearers(g.type, g.name)
        /\ Bearers(g.type, g.name) = {w.value} =>
             g \in DOMAIN fullNameToEnum /\ fullNameToEnum[g] = w.value
    BY <2>1 DEF EnumInv, NamesLeadBack
  \* What is removed under the name of w is another value that has it.
  <2>3. ASSUME g = f PROVE V \in Bearers(g.type, g.name) /\ V # w.value
    <3>0. g.type = w.type /\ g.name = enumToNames[w]
      BY <2>1
    <3>1. w.type = T /\ enumToNames[w] = N
      BY <1>a, <2>3, <3>0
    <3>2. v \in DOMAIN enumToNames
      BY <1>a, <2>1, <3>1 DEF EnumInv, EnumTyped
    <3>3. V \in Bearers(T, N)
      BY <1>a, <3>2 DEF EnumInv, NamesLeadBack
    <3>4. w = [type |-> w.type, value |-> w.value]
      BY <2>1, KeyFields DEF EnumInv, EnumTyped
    <3> QED
      BY <1>a, <2>1, <2>3, <3>1, <3>3, <3>4
  <2> QED
    BY <1>1, <2>2, <2>3
<1>5. ValuesLeadBack'
  <2> SUFFICES ASSUME NEW g \in DOMAIN fullNameToEnum',
                      NEW w, w = [type |-> g.type, value |-> fullNameToEnum'[g]]
               PROVE  /\ g.name \in Titles(w)
                      /\ Titles(w) = {g.name} => w \in DOMAIN enumToNames' /\ enumToNames'[w] = g.name
    BY DEF ValuesLeadBack, Titles
  <2>1. g \in DOMAIN fullNameToEnum /\ g # f /\ w = [type |-> g.type, value |-> fullNameToEnum[g]]
    BY <1>1
  <2>2. /\ g.name \in Titles(w)
        /\ Titles(w) = {g.name} => w \in DOMAIN enumToNames /\ enumToNames[w] = g.name
    BY <2>1 DEF EnumInv, ValuesLeadBack
  \* The value that is removed leaves no name of its own.
  <2>3. ASSUME w = v, Titles(w) = {g.name} PROVE FALSE
    <3>1. w.type = g.type
      BY <2>1
    <3>2. g.type = T /\ g.name = N
      BY <1>a, <2>2, <2>3, <3>1
    <3>3. g = [type |-> g.type, name |-> g.name]
      BY <2>1, KeyFields DEF EnumInv, EnumTyped
    <3> QED
      BY <1>a, <2>1, <3>2, <3>3
  <2> QED
    BY <1>1, <2>2, <2>3
<1> QED
  BY <1>2, <1>3, <1>4, <1>5 DEF EnumInv

\* EnumInv is invariant.
LEMMA EnumInvariant == EnumSpec => []EnumInv
<1>1. EnumInv /\ [EnumNext]_enumVars => EnumInv'
  <2> SUFFICES ASSUME EnumInv, [EnumNext]_enumVars PROVE EnumInv'
    OBVIOUS
  <2>1. CASE UNCHANGED enumVars
    BY <2>1 DEF enumVars, EnumInv, EnumTyped, EnumLibrariesTyped, ListsAreComplete, NamesLeadBack,
         ValuesLeadBack, NamesOfType
  <2>2. ASSUME NEW l \in EnumLibraries, EnumTurns(l) \/ EnumAdds(l) \/ EnumRemoves(l) PROVE EnumInv'
    <3>1. /\ enumLibrary[l] \in [state : EnumStates, at : Nat, loads : Nat]
          /\ enumLibrary \in [EnumLibraries -> [state : EnumStates, at : Nat, loads : Nat]]
          /\ EnumLibrariesTyped
      BY DEF EnumInv, EnumTyped, EnumLibrariesTyped
    <3>2. CASE EnumTurns(l)
      <4>1. NextState(l) \in EnumStates
        BY <3>1 DEF NextState, EnumStates
      <4>2. EnumLibrariesTyped'
        <5>1. /\ \A m \in EnumLibraries \ {l} : enumLibrary'[m] = enumLibrary[m]
              /\ enumLibrary'[l] = [state |-> NextState(l), at |-> 0,
                   loads |-> IF enumLibrary[l].state = "Unloaded" THEN enumLibrary[l].loads + 1 ELSE enumLibrary[l].loads]
              /\ enumLibrary' \in [EnumLibraries -> [state : EnumStates, at : Nat, loads : Nat]]
          BY <3>1, <3>2, <4>1 DEF EnumTurns
        <5>2. enumLibrary'[l].state # "Unloaded" => enumLibrary'[l].loads > 0
          BY <3>1, <5>1 DEF EnumLibrariesTyped
        <5> QED
          BY <3>1, <5>1, <5>2 DEF EnumLibrariesTyped
      <4>3. UNCHANGED <<enumToNames, fullNameToEnum, typeNameToNames>>
        BY <3>2 DEF EnumTurns
      <4> QED
        BY <4>2, <4>3 DEF EnumInv, EnumTyped, ListsAreComplete, NamesLeadBack, ValuesLeadBack, NamesOfType
    <3>3. ASSUME enumLibrary[l].at < Len(NamesOf[l])
          PROVE  NamesOf[l][enumLibrary[l].at + 1] \in EnumItems
      <4>1. NamesOf[l] \in Seq(EnumItems)
        BY EnumAssumption
      <4> PICK s \in Seq(EnumItems) : s = NamesOf[l]
        BY <4>1
      <4>2. enumLibrary[l].at \in Nat
        BY <3>1
      <4>3. enumLibrary[l].at + 1 \in 1 .. Len(s)
        BY <3>3, <4>2
      <4> QED
        BY <4>3
    <3>4. ASSUME enumLibrary' = [enumLibrary EXCEPT ![l].at = @ + 1]
          PROVE  EnumLibrariesTyped'
      BY <3>1, <3>4 DEF EnumLibrariesTyped
    <3>5. CASE EnumAdds(l)
      <4>1. /\ NamesOf[l][enumLibrary[l].at + 1] \in EnumItems
            /\ AddName(NamesOf[l][enumLibrary[l].at + 1])
            /\ EnumLibrariesTyped'
        BY <3>3, <3>4, <3>5 DEF EnumAdds
      <4> QED
        BY <4>1, EnumAdded
    <3>6. CASE EnumRemoves(l)
      <4>1. /\ NamesOf[l][enumLibrary[l].at + 1] \in EnumItems
            /\ RemoveEnum(NamesOf[l][enumLibrary[l].at + 1])
            /\ EnumLibrariesTyped'
        BY <3>3, <3>4, <3>6 DEF EnumRemoves
      <4> QED
        BY <4>1, EnumRemoved
    <3> QED
      BY <2>2, <3>2, <3>5, <3>6
  <2> QED
    BY <2>1, <2>2 DEF EnumNext
<1> QED
  BY <1>1, EnumStarts, PTL DEF EnumSpec

\* A library's states follow each other in a circle.
LEMMA NextStates ==
  ASSUME NEW l \in EnumLibraries
  PROVE  /\ enumLibrary[l].state = "Unloaded" => NextState(l) = "Adding"
         /\ enumLibrary[l].state = "Adding" => NextState(l) = "Loaded"
         /\ enumLibrary[l].state = "Loaded" => NextState(l) = "Removing"
         /\ enumLibrary[l].state = "Removing" => NextState(l) = "Unloaded"
  BY DEF NextState

\* What a step does of a library's state.
LEMMA EnumLibrarySteps ==
  ASSUME EnumLibrariesTyped, NEW l \in EnumLibraries, EnumTurns(l) \/ EnumAdds(l) \/ EnumRemoves(l)
  PROVE  /\ \A m \in EnumLibraries \ {l} : enumLibrary'[m] = enumLibrary[m]
         /\ EnumTurns(l) =>
              /\ enumLibrary'[l] = [state |-> NextState(l), at |-> 0,
                   loads |-> IF enumLibrary[l].state = "Unloaded" THEN enumLibrary[l].loads + 1 ELSE enumLibrary[l].loads]
              /\ enumLibrary[l].state \in {"Unloaded", "Loaded"} \/ enumLibrary[l].at = Len(NamesOf[l])
              /\ ~EnumAdds(l) /\ ~EnumRemoves(l)
         /\ EnumAdds(l) \/ EnumRemoves(l) =>
              /\ enumLibrary'[l].state = enumLibrary[l].state
              /\ enumLibrary'[l].at = enumLibrary[l].at + 1
              /\ enumLibrary'[l].loads = enumLibrary[l].loads
         /\ EnumAdds(l) => enumLibrary[l].state = "Adding"
         /\ EnumRemoves(l) => enumLibrary[l].state = "Removing"
<1>1. enumLibrary[l] \in [state : EnumStates, at : Nat, loads : Nat]
  BY DEF EnumLibrariesTyped
<1>2. NamesOf[l] \in Seq(EnumItems)
  BY EnumAssumption
<1>3. Len(NamesOf[l]) \in Nat
  BY <1>2
<1>4. EnumTurns(l) => enumLibrary[l].state \in {"Unloaded", "Loaded"} \/ enumLibrary[l].at = Len(NamesOf[l])
  BY DEF EnumTurns
<1>5. EnumTurns(l) => ~EnumAdds(l) /\ ~EnumRemoves(l)
  BY <1>1, <1>3, <1>4 DEF EnumAdds, EnumRemoves
<1>6. \A m \in EnumLibraries \ {l} : enumLibrary'[m] = enumLibrary[m]
  BY DEF EnumTurns, EnumAdds, EnumRemoves, EnumLibrariesTyped
<1>7. EnumTurns(l) => enumLibrary'[l] = [state |-> NextState(l), at |-> 0,
        loads |-> IF enumLibrary[l].state = "Unloaded" THEN enumLibrary[l].loads + 1 ELSE enumLibrary[l].loads]
  BY DEF EnumTurns, EnumLibrariesTyped
<1>8. EnumAdds(l) \/ EnumRemoves(l) =>
        /\ enumLibrary'[l].state = enumLibrary[l].state
        /\ enumLibrary'[l].at = enumLibrary[l].at + 1
        /\ enumLibrary'[l].loads = enumLibrary[l].loads
  BY <1>1 DEF EnumAdds, EnumRemoves, EnumLibrariesTyped
<1>9. /\ EnumAdds(l) => enumLibrary[l].state = "Adding"
      /\ EnumRemoves(l) => enumLibrary[l].state = "Removing"
  BY DEF EnumAdds, EnumRemoves
<1> QED
  BY <1>4, <1>5, <1>6, <1>7, <1>8, <1>9

\* A library that has taken names back has done so for ever.
LEMMA RemovedStays ==
  ASSUME EnumLibrariesTyped, NEW l \in EnumLibraries, EnumTurns(l) \/ EnumAdds(l) \/ EnumRemoves(l),
         NEW m \in EnumLibraries
  PROVE  /\ HasRemoved(m) => HasRemoved(m)'
         /\ EnumRemoves(l) => HasRemoved(l)'
<1>1. /\ enumLibrary[l].state \in EnumStates /\ enumLibrary[l].loads \in Nat
      /\ enumLibrary[l].state # "Unloaded" => enumLibrary[l].loads > 0
  BY DEF EnumLibrariesTyped
<1>2. m # l => (HasRemoved(m)' <=> HasRemoved(m))
  BY EnumLibrarySteps DEF HasRemoved
<1>3. EnumTurns(l) => (HasRemoved(l) => HasRemoved(l)')
  <2> SUFFICES ASSUME EnumTurns(l), HasRemoved(l) PROVE HasRemoved(l)'
    OBVIOUS
  <2>0. enumLibrary'[l] = [state |-> NextState(l), at |-> 0,
          loads |-> IF enumLibrary[l].state = "Unloaded" THEN enumLibrary[l].loads + 1 ELSE enumLibrary[l].loads]
    BY EnumLibrarySteps
  <2>1. /\ enumLibrary'[l].state = NextState(l)
        /\ enumLibrary'[l].loads = IF enumLibrary[l].state = "Unloaded" THEN enumLibrary[l].loads + 1
                                                                      ELSE enumLibrary[l].loads
    BY <2>0
  <2>2. CASE enumLibrary[l].state = "Unloaded"
    BY <1>1, <2>1, <2>2, NextStates DEF HasRemoved
  <2>3. CASE enumLibrary[l].state = "Adding"
    BY <1>1, <2>1, <2>3, NextStates DEF HasRemoved
  <2>4. CASE enumLibrary[l].state \in {"Loaded", "Removing"}
    BY <1>1, <2>1, <2>4, NextStates DEF HasRemoved
  <2> QED
    BY <1>1, <2>2, <2>3, <2>4 DEF EnumStates
<1>4. EnumAdds(l) \/ EnumRemoves(l) => (HasRemoved(l)' <=> HasRemoved(l))
  BY EnumLibrarySteps DEF HasRemoved
<1>5. EnumRemoves(l) => HasRemoved(l)
  BY <1>1, EnumLibrarySteps DEF HasRemoved
<1> QED
  BY <1>2, <1>3, <1>4, <1>5

\* A library that is loaded adds its names one at a time, and one that goes removes
\* them so; nothing else changes which of them are there.
LEMMA NamesThere ==
  ASSUME EnumLibrariesTyped, NEW l \in EnumLibraries, EnumTurns(l) \/ EnumAdds(l) \/ EnumRemoves(l),
         NEW m \in EnumLibraries, NEW i \in DOMAIN NamesOf[m]
  PROVE  /\ IsThere(m, i)' <=> \/ IsThere(m, i) /\ ~(EnumRemoves(l) /\ m = l /\ i = enumLibrary[l].at + 1)
                               \/ EnumAdds(l) /\ m = l /\ i = enumLibrary[l].at + 1
         /\ enumLibrary'[m].state \in {"Adding", "Loaded"} /\ IsThere(m, i)' =>
              enumLibrary[m].state \in {"Adding", "Loaded"}
<1>1. NamesOf[m] \in Seq(EnumItems)
  BY EnumAssumption
<1> PICK s \in Seq(EnumItems) : s = NamesOf[m]
  BY <1>1
<1>2. i \in 1 .. Len(NamesOf[m])
  BY <1>1
<1>3. /\ enumLibrary[l].state \in EnumStates /\ enumLibrary[l].at \in Nat
      /\ Len(NamesOf[m]) \in Nat
  BY <1>1 DEF EnumLibrariesTyped
<1>4. m # l => /\ enumLibrary'[m].state = enumLibrary[m].state
               /\ IsThere(m, i)' <=> IsThere(m, i)
  BY EnumLibrarySteps DEF IsThere
<1>5. ASSUME EnumTurns(l), m = l
      PROVE  /\ IsThere(m, i)' <=> IsThere(m, i)
             /\ enumLibrary'[m].state \in {"Adding", "Loaded"} /\ IsThere(m, i)' =>
                  enumLibrary[m].state \in {"Adding", "Loaded"}
  <2>1. /\ enumLibrary'[m].state = NextState(m) /\ enumLibrary'[m].at = 0
        /\ enumLibrary[m].state \in {"Unloaded", "Loaded"} \/ enumLibrary[m].at = Len(NamesOf[m])
    <3>1. EnumTurns(m)
      BY <1>5
    <3>2. enumLibrary'[m] = [state |-> NextState(m), at |-> 0,
             loads |-> IF enumLibrary[m].state = "Unloaded" THEN enumLibrary[m].loads + 1 ELSE enumLibrary[m].loads]
      BY <3>1, EnumLibrarySteps
    <3> QED
      BY <3>1, <3>2, EnumLibrarySteps
  <2>2. CASE enumLibrary[m].state = "Unloaded"
    BY <1>2, <1>3, <2>1, <2>2, NextStates DEF IsThere
  <2>3. CASE enumLibrary[m].state = "Adding"
    BY <1>2, <1>3, <2>1, <2>3, NextStates DEF IsThere
  <2>4. CASE enumLibrary[m].state = "Loaded"
    BY <1>2, <1>3, <2>1, <2>4, NextStates DEF IsThere
  <2>5. CASE enumLibrary[m].state = "Removing"
    BY <1>2, <1>3, <2>1, <2>5, NextStates DEF IsThere
  <2> QED
    BY <1>3, <1>5, <2>2, <2>3, <2>4, <2>5 DEF EnumStates
<1>6. ASSUME EnumAdds(l), m = l
      PROVE  /\ IsThere(m, i)' <=> IsThere(m, i) \/ i = enumLibrary[l].at + 1
             /\ enumLibrary[m].state = "Adding"
  <2>1. /\ enumLibrary'[m].state = "Adding" /\ enumLibrary[m].state = "Adding"
        /\ enumLibrary'[m].at = enumLibrary[m].at + 1
    BY <1>6, EnumLibrarySteps
  <2> QED
    BY <1>2, <1>3, <1>6, <2>1 DEF IsThere
<1>7. ASSUME EnumRemoves(l), m = l
      PROVE  /\ IsThere(m, i)' <=> IsThere(m, i) /\ i # enumLibrary[l].at + 1
             /\ enumLibrary'[m].state = "Removing"
  <2>1. /\ enumLibrary'[m].state = "Removing" /\ enumLibrary[m].state = "Removing"
        /\ enumLibrary'[m].at = enumLibrary[m].at + 1
    BY <1>7, EnumLibrarySteps
  <2> QED
    BY <1>2, <1>3, <1>7, <2>1 DEF IsThere
<1>8. /\ EnumTurns(l) => ~EnumAdds(l) /\ ~EnumRemoves(l)
      /\ ~(EnumAdds(l) /\ EnumRemoves(l))
  BY EnumLibrarySteps
<1> QED
  BY <1>4, <1>5, <1>6, <1>7, <1>8

\* A step leaves the tables as the libraries' names say.
LEMMA LibrariesStep ==
  ASSUME EnumInv, LibrariesAgree, NEW l \in EnumLibraries, EnumTurns(l) \/ EnumAdds(l) \/ EnumRemoves(l)
  PROVE  LibrariesAgree'
<1> DEFINE n == enumLibrary[l].at + 1
           item == NamesOf[l][n]
<1>t. EnumLibrariesTyped
  BY DEF EnumInv, EnumTyped
<1>n. ASSUME EnumAdds(l) \/ EnumRemoves(l)
      PROVE  n \in DOMAIN NamesOf[l]
  <2>1. NamesOf[l] \in Seq(EnumItems)
    BY EnumAssumption
  <2> PICK s \in Seq(EnumItems) : s = NamesOf[l]
    BY <2>1
  <2>2. enumLibrary[l].at \in Nat /\ enumLibrary[l].at < Len(NamesOf[l])
    BY <1>n, <1>t DEF EnumLibrariesTyped, EnumAdds, EnumRemoves
  <2> QED
    BY <2>2
<1> PICK k, it : k = n /\ it = item
  OBVIOUS
<1>k. EnumAdds(l) \/ EnumRemoves(l) => k \in DOMAIN NamesOf[l] /\ NamesOf[l][k] = it
  BY <1>n
<1>h. /\ \A m \in EnumLibraries : \A i \in DOMAIN NamesOf[m] :
           IsThere(m, i)' <=> \/ IsThere(m, i) /\ ~(EnumRemoves(l) /\ m = l /\ i = k)
                              \/ EnumAdds(l) /\ m = l /\ i = k
      /\ \A m \in EnumLibraries : HasRemoved(m) => HasRemoved(m)'
      /\ EnumRemoves(l) => HasRemoved(l)'
      /\ \A m \in EnumLibraries : \A i \in DOMAIN NamesOf[m] :
           enumLibrary'[m].state \in {"Adding", "Loaded"} /\ IsThere(m, i)' =>
             enumLibrary[m].state \in {"Adding", "Loaded"}
  <2>1. ASSUME NEW m \in EnumLibraries, NEW i \in DOMAIN NamesOf[m]
        PROVE  /\ IsThere(m, i)' <=> \/ IsThere(m, i) /\ ~(EnumRemoves(l) /\ m = l /\ i = k)
                                     \/ EnumAdds(l) /\ m = l /\ i = k
               /\ enumLibrary'[m].state \in {"Adding", "Loaded"} /\ IsThere(m, i)' =>
                    enumLibrary[m].state \in {"Adding", "Loaded"}
    BY <1>t, <2>1, NamesThere
  <2>2. ASSUME NEW m \in EnumLibraries PROVE HasRemoved(m) => HasRemoved(m)'
    BY <1>t, RemovedStays
  <2>3. EnumRemoves(l) => HasRemoved(l)'
    BY <1>t, RemovedStays
  <2> QED
    BY <2>1, <2>2, <2>3
<1> HIDE DEF n, item
<1>u. EnumTurns(l) => UNCHANGED <<enumToNames, typeNameToType>>
  BY DEF EnumTurns
<1>a. EnumAdds(l) => /\ DOMAIN enumToNames' = DOMAIN enumToNames \cup {ValueOf(it)}
                     /\ \A v \in DOMAIN enumToNames' :
                          enumToNames'[v] = IF v = ValueOf(it) THEN it.name ELSE enumToNames[v]
                     /\ typeNameToType' = typeNameToType \cup {it.type}
  BY DEF EnumAdds, AddName, Put, n, item
<1>r. EnumRemoves(l) => /\ DOMAIN enumToNames' = DOMAIN enumToNames \ {ValueOf(it)}
                        /\ \A v \in DOMAIN enumToNames' : enumToNames'[v] = enumToNames[v]
                        /\ typeNameToType' = typeNameToType \ {it.type}
  BY DEF EnumRemoves, RemoveEnum, EraseKey, n, item
<1>1. ASSUME NEW v \in DOMAIN enumToNames'
      PROVE  \E m \in EnumLibraries : \E i \in DOMAIN NamesOf[m] :
               IsThere(m, i)' /\ ValueOf(NamesOf[m][i]) = v /\ NamesOf[m][i].name = enumToNames'[v]
  <2>1. CASE EnumAdds(l) /\ v = ValueOf(it)
    BY <1>k, <1>h, <1>a, <2>1
  <2>2. CASE ~(EnumAdds(l) /\ v = ValueOf(it))
    <3>1. v \in DOMAIN enumToNames /\ enumToNames'[v] = enumToNames[v]
      BY <1>u, <1>a, <1>r, <2>2
    <3>2. PICK m \in EnumLibraries : \E i \in DOMAIN NamesOf[m] :
             IsThere(m, i) /\ ValueOf(NamesOf[m][i]) = v /\ NamesOf[m][i].name = enumToNames[v]
      BY <3>1 DEF LibrariesAgree
    <3>3. PICK i \in DOMAIN NamesOf[m] :
             IsThere(m, i) /\ ValueOf(NamesOf[m][i]) = v /\ NamesOf[m][i].name = enumToNames[v]
      BY <3>2
    <3>4. ~(EnumRemoves(l) /\ m = l /\ i = k)
      BY <1>k, <1>r, <3>3
    <3> QED
      BY <1>h, <3>1, <3>3, <3>4
  <2> QED
    BY <2>1, <2>2
<1>2. ASSUME NEW t \in typeNameToType'
      PROVE  \E m \in EnumLibraries : \E i \in DOMAIN NamesOf[m] :
               IsThere(m, i)' /\ NamesOf[m][i].type = t
  <2>1. CASE EnumAdds(l) /\ t = it.type
    BY <1>k, <1>h, <2>1
  <2>2. CASE ~(EnumAdds(l) /\ t = it.type)
    <3>1. t \in typeNameToType
      BY <1>u, <1>a, <1>r, <2>2
    <3>2. PICK m \in EnumLibraries : \E i \in DOMAIN NamesOf[m] :
             IsThere(m, i) /\ NamesOf[m][i].type = t
      BY <3>1 DEF LibrariesAgree
    <3>3. PICK i \in DOMAIN NamesOf[m] : IsThere(m, i) /\ NamesOf[m][i].type = t
      BY <3>2
    <3>4. ~(EnumRemoves(l) /\ m = l /\ i = k)
      BY <1>k, <1>r, <3>3
    <3> QED
      BY <1>h, <3>3, <3>4
  <2> QED
    BY <2>1, <2>2
<1>3. ASSUME NEW m \in EnumLibraries, NEW i \in DOMAIN NamesOf[m],
             enumLibrary'[m].state \in {"Adding", "Loaded"}, IsThere(m, i)'
      PROVE  /\ \/ ValueOf(NamesOf[m][i]) \in DOMAIN enumToNames'
                \/ \E o \in EnumLibraries \ {m} : HasRemoved(o)' /\
                     \E j \in DOMAIN NamesOf[o] : ValueOf(NamesOf[o][j]) = ValueOf(NamesOf[m][i])
             /\ \/ NamesOf[m][i].type \in typeNameToType'
                \/ \E o \in EnumLibraries \ {m} : HasRemoved(o)' /\
                     \E j \in DOMAIN NamesOf[o] : NamesOf[o][j].type = NamesOf[m][i].type
  <2> PICK x : x = NamesOf[m][i]
    OBVIOUS
  <2>1. CASE EnumAdds(l) /\ m = l /\ i = k
    BY <1>k, <1>a, <2>1
  <2>2. CASE ~(EnumAdds(l) /\ m = l /\ i = k)
    <3>1. IsThere(m, i) /\ enumLibrary[m].state \in {"Adding", "Loaded"}
      BY <1>h, <1>3, <2>2
    <3>2. EnumRemoves(l) => l # m
      BY <3>1 DEF EnumRemoves
    <3>3. /\ \/ ValueOf(x) \in DOMAIN enumToNames
             \/ \E o \in EnumLibraries \ {m} : HasRemoved(o) /\
                  \E j \in DOMAIN NamesOf[o] : ValueOf(NamesOf[o][j]) = ValueOf(x)
          /\ \/ x.type \in typeNameToType
             \/ \E o \in EnumLibraries \ {m} : HasRemoved(o) /\
                  \E j \in DOMAIN NamesOf[o] : NamesOf[o][j].type = x.type
      BY <3>1 DEF LibrariesAgree
    <3>4. ValueOf(x) \in DOMAIN enumToNames =>
            \/ ValueOf(x) \in DOMAIN enumToNames'
            \/ l # m /\ HasRemoved(l)' /\ k \in DOMAIN NamesOf[l] /\ ValueOf(NamesOf[l][k]) = ValueOf(x)
      BY <1>h, <1>k, <1>u, <1>a, <1>r, <3>2
    <3>5. x.type \in typeNameToType =>
            \/ x.type \in typeNameToType'
            \/ l # m /\ HasRemoved(l)' /\ k \in DOMAIN NamesOf[l] /\ NamesOf[l][k].type = x.type
      BY <1>h, <1>k, <1>u, <1>a, <1>r, <3>2
    <3>6. \/ ValueOf(x) \in DOMAIN enumToNames'
          \/ \E o \in EnumLibraries \ {m} : HasRemoved(o)' /\
               \E j \in DOMAIN NamesOf[o] : ValueOf(NamesOf[o][j]) = ValueOf(x)
      BY <1>h, <3>3, <3>4
    <3>7. \/ x.type \in typeNameToType'
          \/ \E o \in EnumLibraries \ {m} : HasRemoved(o)' /\
               \E j \in DOMAIN NamesOf[o] : NamesOf[o][j].type = x.type
      BY <1>h, <3>3, <3>5
    <3> QED
      BY <3>6, <3>7
  <2> QED
    BY <2>1, <2>2
<1> QED
  BY <1>1, <1>2, <1>3 DEF LibrariesAgree

\* The tables agree with the libraries at first, and after every step.
LEMMA LibrariesStayAgreed == EnumSpec => []LibrariesAgree
<1>1. EnumInit => LibrariesAgree
  <2> SUFFICES ASSUME EnumInit PROVE LibrariesAgree
    OBVIOUS
  <2>1. /\ DOMAIN enumToNames = {} /\ typeNameToType = {}
        /\ \A l \in EnumLibraries : enumLibrary[l].state = "Unloaded"
    BY DEF EnumInit
  <2> QED
    BY <2>1 DEF LibrariesAgree
<1>2. EnumInv /\ LibrariesAgree /\ [EnumNext]_enumVars => LibrariesAgree'
  <2> SUFFICES ASSUME EnumInv, LibrariesAgree, [EnumNext]_enumVars PROVE LibrariesAgree'
    OBVIOUS
  <2>1. CASE UNCHANGED enumVars
    <3>1. UNCHANGED <<enumToNames, typeNameToType, enumLibrary>>
      BY <2>1 DEF enumVars
    <3>2. /\ \A m, i : IsThere(m, i)' <=> IsThere(m, i)
          /\ \A m : HasRemoved(m)' <=> HasRemoved(m)
      BY <3>1 DEF IsThere, HasRemoved
    <3> QED
      BY <3>1, <3>2 DEF LibrariesAgree
  <2>2. ASSUME NEW l \in EnumLibraries, EnumTurns(l) \/ EnumAdds(l) \/ EnumRemoves(l) PROVE LibrariesAgree'
    BY <2>2, LibrariesStep
  <2> QED
    BY <2>1, <2>2 DEF EnumNext
<1> QED
  BY <1>1, <1>2, EnumInvariant, PTL DEF EnumSpec

\* The tables of TfEnum agree with each other and with the libraries whenever names
\* are added or removed, by whatever libraries: a type's names are those that can be
\* looked up, name and value lead to each other unless one of them has another, what
\* is named a library has there, and what a library added is lost only by another's
\* removal of a name of the same value or type (enum.cpp:70-89, :101-166).
THEOREM NameTablesAgree == EnumSpec => []EnumTablesAgree
<1>1. EnumInv => TablesAgree
  <2> SUFFICES ASSUME EnumInv PROVE TablesAgree
    OBVIOUS
  <2>1. \A t \in DOMAIN typeNameToNames :
          ToSet(GetAllNames(t)) = {f.name : f \in {g \in DOMAIN fullNameToEnum : g.type = t}}
    BY DEF EnumInv, ListsAreComplete, GetAllNames
  <2>2. ASSUME NEW v \in DOMAIN enumToNames, Bearers(v.type, GetName(v.type, v.value)) = {v.value}
        PROVE  GetValueFromName(v.type, GetName(v.type, v.value)) = v.value
    <3>1. v = [type |-> v.type, value |-> v.value]
      BY KeyFields DEF EnumInv, EnumTyped
    <3>2. GetName(v.type, v.value) = enumToNames[v]
      BY <3>1 DEF GetName, NameOf, ValueOf
    <3> QED
      BY <2>2, <3>2 DEF EnumInv, NamesLeadBack, GetValueFromName
  <2>3. ASSUME NEW f \in DOMAIN fullNameToEnum,
               NEW v, v = [type |-> f.type, value |-> GetValueFromName(f.type, f.name)],
               Titles(v) = {f.name}
        PROVE  GetName(v.type, v.value) = f.name
    <3>1. f = [type |-> f.type, name |-> f.name]
      BY KeyFields DEF EnumInv, EnumTyped
    <3>2. GetValueFromName(f.type, f.name) = fullNameToEnum[f]
      BY <3>1 DEF GetValueFromName
    <3>3. v \in DOMAIN enumToNames /\ enumToNames[v] = f.name
      BY <2>3, <3>2 DEF EnumInv, ValuesLeadBack
    <3>4. v = [type |-> v.type, value |-> v.value]
      BY <2>3
    <3> QED
      BY <3>3, <3>4 DEF GetName, NameOf, ValueOf
  <2> QED
    BY <2>1, <2>2, <2>3 DEF TablesAgree
<1> QED
  BY <1>1, EnumInvariant, LibrariesStayAgreed, PTL DEF EnumTablesAgree

-----------------------------------------------------------------------------
(* TfEnvSetting.  A setting that is the only one of its name goes from     *)
(* nothing to its value once: the name enters the table when the pointer   *)
(* is set, the alert is issued then, and who loads the pointer again finds *)
(* it set.                                                                 *)

\* A setting that is the only one of its name.
OnlyOne(x) == x \in Settings /\ \A y \in Settings : VariableOf[x] = VariableOf[y] => x = y

\* Who loads the pointer again has seen to it that there is one.
FrameOK(frame) ==
  /\ frame.at \in {"Load", "Instance", "Define", "Reload"} => frame.setting \in Settings
  /\ frame.at = "Reload" /\ OnlyOne(frame.setting) => cached[frame.setting] # Null
  /\ frame.at = "Subscribe" => frame.todo \subseteq Settings

CallsOf(u) == IsList(frames[u]) /\ \A i \in DOMAIN frames[u] : FrameOK(frames[u][i])

EnvTyped ==
  /\ cached = [x \in Settings |-> cached[x]]
  /\ answers = [x \in Settings |-> answers[x]]
  /\ alerts = [x \in Settings |-> alerts[x]]
  /\ frames = [u \in SettingUsers |-> frames[u]]

\* The entry of a setting's name is made with the setting's own, and announced then.
Settled(x) ==
  /\ VariableOf[x] \in DOMAIN valuesByName <=> cached[x] # Null
  /\ answers[x] \subseteq {cached[x]} \ {Null}
  /\ alerts[x] = IF cached[x] # Null /\ cached[x].value # DefaultOf[x] THEN 1 ELSE 0
  /\ x \notin duplicates

EnvInv ==
  /\ EnvTyped
  /\ \A u \in SettingUsers : CallsOf(u)
  /\ \A x \in Settings : OnlyOne(x) => Settled(x)

-----------------------------------------------------------------------------

\* An innermost call that returns, that becomes another one, or that makes one.
LEMMA OuterCalls ==
  ASSUME NEW s, IsList(s), s # <<>>
  PROVE  LET rest == SubSeq(s, 1, Len(s) - 1)
         IN /\ Len(s) \in DOMAIN s
            /\ IsList(rest) /\ \A i \in DOMAIN rest : i \in DOMAIN s /\ rest[i] = s[i]
<1>1. Len(s) \in Nat /\ DOMAIN s = 1 .. Len(s) /\ Len(s) # 0
  BY DEF IsList
<1>2. Len(s) - 1 \in 0 .. Len(s) /\ Len(s) \in 1 .. Len(s)
  BY <1>1
<1>3. \A i \in 1 .. Len(s) - 1 : i \in 1 .. Len(s)
  BY <1>1
<1> QED
  BY <1>1, <1>2, <1>3, Shortened

\* Calls stay as they should be when nothing that they are about changes.
LEMMA CallsChange ==
  ASSUME EnvInv, NEW u \in SettingUsers, NEW list, frames' = [frames EXCEPT ![u] = list],
         IsList(list),
         \A x \in Settings : OnlyOne(x) /\ cached[x] # Null => cached'[x] # Null,
         \A i \in DOMAIN list : FrameOK(list[i])' \/ \E j \in DOMAIN frames[u] : list[i] = frames[u][j]
  PROVE  /\ frames' = [v \in SettingUsers |-> frames'[v]]
         /\ \A v \in SettingUsers : CallsOf(v)'
<1>1. \A v \in SettingUsers : frames'[v] = IF v = u THEN list ELSE frames[v]
  BY DEF EnvInv, EnvTyped
<1>2. ASSUME NEW frame, FrameOK(frame) PROVE FrameOK(frame)'
  BY <1>2 DEF FrameOK, OnlyOne
<1>3. ASSUME NEW v \in SettingUsers PROVE CallsOf(v)'
  BY <1>1, <1>2 DEF EnvInv, CallsOf
<1> QED
  BY <1>3 DEF EnvInv, EnvTyped

\* At first no setting has a value.
LEMMA EnvStarts == EnvInit => EnvInv
<1> SUFFICES ASSUME EnvInit PROVE EnvInv
  OBVIOUS
<1>1. EnvTyped
  BY DEF EnvInit, EnvTyped
<1>2. \A u \in SettingUsers : CallsOf(u)
  <2>1. DOMAIN <<>> = {} /\ \A u \in SettingUsers : frames[u] = <<>>
    BY DEF EnvInit
  <2> QED
    BY <2>1, EmptyList DEF CallsOf
<1>3. ASSUME NEW x \in Settings PROVE Settled(x)
  <2>1. DOMAIN valuesByName = {} /\ cached[x] = Null /\ answers[x] = {} /\ alerts[x] = 0 /\ duplicates = {}
    BY DEF EnvInit
  <2> QED
    BY <2>1 DEF Settled
<1> QED
  BY <1>1, <1>2, <1>3 DEF EnvInv

\* The steps of u's innermost call, and what may come of them.
LEMMA EnvMoves ==
  ASSUME EnvInv, NEW u \in SettingUsers,
         \/ \E x \in Settings : EnvGet(u, x)
         \/ EnvInstance(u) \/ EnvReadLine(u) \/ EnvConstructed(u) \/ EnvSubscribe(u)
         \/ \E v \in Variables, text \in NewTexts : EnvSet(u, v, text)
  PROVE  EnvInv'
<1>1. UNCHANGED <<valuesByName, cached, alerts, duplicates, answers>>
  BY DEF EnvGet, EnvInstance, EnvReadLine, EnvConstructed, EnvSubscribe, EnvSet
<1>2. \A x \in Settings : OnlyOne(x) => Settled(x)'
  BY <1>1 DEF EnvInv, Settled
<1>3. IsList(frames[u]) /\ \A i \in DOMAIN frames[u] : FrameOK(frames[u][i])
  BY DEF EnvInv, CallsOf
<1> PICK s : s = frames[u]
  OBVIOUS
<1> DEFINE rest == SubSeq(s, 1, Len(s) - 1)
           top == s[Len(s)]
<1>4. s # <<>> => /\ IsList(rest) /\ FrameOK(top)
                  /\ \A i \in DOMAIN rest : \E j \in DOMAIN s : rest[i] = s[j]
  BY <1>3, OuterCalls
<1> DEFINE Fine(list) ==
             IsList(list) /\ \A i \in DOMAIN list : FrameOK(list[i]) \/ \E j \in DOMAIN s : list[i] = s[j]
<1>5. ASSUME NEW list, frames' = [frames EXCEPT ![u] = list], Fine(list)
      PROVE  EnvInv'
  <2>1. \A frame : FrameOK(frame)' <=> FrameOK(frame)
    BY <1>1 DEF FrameOK, OnlyOne
  <2>2. \A x \in Settings : cached[x] # Null => cached'[x] # Null
    BY <1>1
  <2>3. frames' = [v \in SettingUsers |-> frames'[v]] /\ \A v \in SettingUsers : CallsOf(v)'
    BY <1>5, <2>1, <2>2, CallsChange
  <2> QED
    BY <1>1, <1>2, <2>3 DEF EnvInv, EnvTyped, OnlyOne
<1>6. ASSUME NEW list, Fine(list), NEW frame, FrameOK(frame) PROVE Fine(Append(list, frame))
  <2>1. \A k \in DOMAIN Append(list, frame) : (\E i \in DOMAIN list : Append(list, frame)[k] = list[i])
                                              \/ Append(list, frame)[k] = frame
    BY <1>6, LengthenedList
  <2>2. IsList(Append(list, frame))
    BY <1>6, LengthenedList
  <2> QED
    BY <1>6, <2>1, <2>2
<1>7. ASSUME NEW x \in Settings PROVE FrameOK(AskFor(x))
  BY DEF FrameOK, AskFor
<1>r. Fine(s) /\ (s # <<>> => Fine(rest))
  BY <1>3, <1>4
<1> HIDE DEF rest, top, Fine
<1>8. ASSUME NEW x \in Settings, EnvGet(u, x) PROVE EnvInv'
  <2>1. frames' = [frames EXCEPT ![u] = Append(s, AskFor(x))]
    BY <1>8 DEF EnvGet, Nest
  <2> QED
    BY <2>1, <1>5, <1>6, <1>7, <1>r
<1>9. CASE EnvInstance(u)
  <2> PICK define, reads : define = [top EXCEPT !.at = "Define"] /\ reads = [at |-> "ReadFile"]
    OBVIOUS
  <2>1. s # <<>> /\ top.at = "Instance"
    BY <1>9 DEF EnvInstance, IsAt, Innermost, top
  <2>2. FrameOK(define) /\ FrameOK(reads)
    <3>1. top.setting \in Settings
      BY <1>4, <2>1 DEF FrameOK
    <3>2. define.at = "Define" /\ define.setting = top.setting
      OBVIOUS
    <3> QED
      BY <3>1, <3>2 DEF FrameOK
  <2>3. \/ frames' = [frames EXCEPT ![u] = Append(rest, define)]
        \/ frames' = [frames EXCEPT ![u] = Append(Append(rest, define), reads)]
    BY <1>9 DEF EnvInstance, Goto, Outer, Innermost, top, rest
  <2> PICK one : one = Append(rest, define)
    OBVIOUS
  <2>4. Fine(one)
    BY <1>6, <1>r, <2>1, <2>2
  <2>5. CASE frames' = [frames EXCEPT ![u] = one]
    BY <1>5, <2>4, <2>5
  <2>6. CASE frames' = [frames EXCEPT ![u] = Append(one, reads)]
    <3> PICK two : two = Append(one, reads)
      OBVIOUS
    <3>1. Fine(two)
      BY <1>6, <2>2, <2>4
    <3> QED
      BY <1>5, <2>6, <3>1
  <2> QED
    BY <2>3, <2>5, <2>6
<1>10. CASE EnvReadLine(u) \/ (\E v \in Variables, text \in NewTexts : EnvSet(u, v, text))
  <2>1. UNCHANGED frames
    BY <1>10 DEF EnvReadLine, EnvSet
  <2> QED
    BY <1>1, <1>2, <2>1 DEF EnvInv, EnvTyped, CallsOf, FrameOK, OnlyOne
<1>11. CASE EnvConstructed(u)
  <2> PICK frame : frame = [at |-> "Subscribe", todo |-> Settings]
    OBVIOUS
  <2>1. s # <<>> /\ frames' = [frames EXCEPT ![u] = Append(rest, frame)]
    BY <1>11 DEF EnvConstructed, IsAt, Goto, Outer, rest
  <2>2. FrameOK(frame)
    BY DEF FrameOK
  <2> QED
    BY <1>5, <1>6, <1>r, <2>1, <2>2
<1>12. CASE EnvSubscribe(u)
  <2>1. s # <<>> /\ top.at = "Subscribe" /\ top.todo \subseteq Settings
    BY <1>4, <1>12 DEF EnvSubscribe, IsAt, Innermost, top, FrameOK
  <2>2. CASE frames' = [frames EXCEPT ![u] = rest]
    BY <1>5, <1>r, <2>1, <2>2
  <2>3. ASSUME NEW x \in top.todo,
               frames' = [frames EXCEPT ![u] =
                 Append(Append(rest, [at |-> "Subscribe", todo |-> top.todo \ {x}]), AskFor(x))]
        PROVE  EnvInv'
    <3> PICK frame : frame = [at |-> "Subscribe", todo |-> top.todo \ {x}]
      OBVIOUS
    <3>1. FrameOK(frame)
      BY <2>1 DEF FrameOK
    <3>2. x \in Settings
      BY <2>1, <2>3
    <3> PICK one : one = Append(rest, frame)
      OBVIOUS
    <3>3. Fine(one)
      BY <1>6, <1>r, <2>1, <3>1
    <3> PICK two : two = Append(one, AskFor(x))
      OBVIOUS
    <3>4. Fine(two)
      BY <1>6, <1>7, <3>2, <3>3
    <3> QED
      BY <1>5, <2>3, <3>4
  <2> QED
    BY <1>12, <2>2, <2>3 DEF EnvSubscribe, Leave, Outer, Innermost, top, rest
<1> QED
  BY <1>8, <1>9, <1>10, <1>11, <1>12

\* The steps that make or return a value.
LEMMA EnvAnswers ==
  ASSUME EnvInv, NEW u \in SettingUsers, EnvLoad(u) \/ EnvDefine(u) \/ EnvReload(u)
  PROVE  EnvInv'
<1>1. IsList(frames[u]) /\ \A i \in DOMAIN frames[u] : FrameOK(frames[u][i])
  BY DEF EnvInv, CallsOf
<1> PICK s, rest, top : s = frames[u] /\ rest = SubSeq(s, 1, Len(s) - 1) /\ top = s[Len(s)]
  OBVIOUS
<1>2. s # <<>> /\ top.at \in {"Load", "Define", "Reload"}
  BY DEF EnvLoad, EnvDefine, EnvReload, IsAt, Innermost
<1>3. /\ IsList(rest) /\ FrameOK(top)
      /\ \A i \in DOMAIN rest : \E j \in DOMAIN s : rest[i] = s[j]
  BY <1>1, <1>2, OuterCalls
<1> PICK x : x = top.setting
  OBVIOUS
<1>4. x \in Settings /\ (top.at = "Reload" /\ OnlyOne(x) => cached[x] # Null)
  BY <1>2, <1>3 DEF FrameOK
<1>5. ASSUME NEW list, frames' = [frames EXCEPT ![u] = list],
             list = rest \/ \E frame : list = Append(rest, frame) /\ FrameOK(frame)',
             \A y \in Settings : OnlyOne(y) /\ cached[y] # Null => cached'[y] # Null
      PROVE  frames' = [v \in SettingUsers |-> frames'[v]] /\ \A v \in SettingUsers : CallsOf(v)'
  <2>1. CASE list = rest
    BY <1>3, <1>5, <2>1, CallsChange
  <2>2. ASSUME NEW frame, list = Append(rest, frame), FrameOK(frame)'
        PROVE  frames' = [v \in SettingUsers |-> frames'[v]] /\ \A v \in SettingUsers : CallsOf(v)'
    <3>1. /\ IsList(list)
          /\ \A i \in DOMAIN list : (\E k \in DOMAIN rest : list[i] = rest[k]) \/ list[i] = frame
      BY <1>3, <2>2, LengthenedList
    <3>2. \A i \in DOMAIN list : FrameOK(list[i])' \/ \E j \in DOMAIN s : list[i] = s[j]
      BY <1>3, <2>2, <3>1
    <3> QED
      BY <1>5, <3>1, <3>2, CallsChange
  <2> QED
    BY <1>5, <2>1, <2>2
<1>6. CASE (EnvLoad(u) /\ cached[x] # Null) \/ EnvReload(u)
  <2>1. /\ answers' = [answers EXCEPT ![x] = @ \cup {cached[x]}]
        /\ frames' = [frames EXCEPT ![u] = rest]
        /\ UNCHANGED <<valuesByName, cached, alerts, duplicates>>
    BY <1>6 DEF EnvLoad, EnvReload, Innermost, Leave, Outer
  <2>2. OnlyOne(x) => cached[x] # Null
    <3>1. EnvReload(u) => top.at = "Reload"
      BY DEF EnvReload, IsAt, Innermost
    <3> QED
      BY <1>4, <1>6, <3>1
  <2>3. ASSUME NEW y \in Settings, OnlyOne(y) PROVE Settled(y)'
    <3>1. Settled(y) /\ answers'[y] = IF y = x THEN answers[y] \cup {cached[y]} ELSE answers[y]
      BY <1>4, <2>1, <2>3 DEF EnvInv, EnvTyped
    <3> QED
      BY <2>1, <2>2, <2>3, <3>1 DEF Settled
  <2>4. EnvTyped'
    BY <1>5, <2>1 DEF EnvInv, EnvTyped
  <2>5. \A v \in SettingUsers : CallsOf(v)'
    BY <1>5, <2>1
  <2> QED
    BY <2>3, <2>4, <2>5 DEF EnvInv, OnlyOne
<1>7. CASE EnvLoad(u) /\ cached[x] = Null
  <2> PICK frame : frame = [at |-> "Instance", setting |-> x, value |-> GetenvOr(x)]
    OBVIOUS
  <2>1. /\ frames' = [frames EXCEPT ![u] = Append(rest, frame)]
        /\ UNCHANGED <<valuesByName, cached, alerts, duplicates, answers>>
    BY <1>7 DEF EnvLoad, Innermost, Goto, Outer
  <2>2. FrameOK(frame)'
    BY <1>4 DEF FrameOK
  <2>3. EnvTyped'
    BY <1>5, <2>1, <2>2 DEF EnvInv, EnvTyped
  <2>4. \A v \in SettingUsers : CallsOf(v)'
    BY <1>5, <2>1, <2>2
  <2>5. \A y \in Settings : OnlyOne(y) => Settled(y)'
    BY <2>1 DEF EnvInv, Settled
  <2> QED
    BY <2>3, <2>4, <2>5 DEF EnvInv, OnlyOne
<1>8. CASE EnvDefine(u)
  <2> PICK frame : frame = [at |-> "Reload", setting |-> x]
    OBVIOUS
  <2> PICK v, entry : v = VariableOf[x] /\ entry = [kind |-> KindOf[x], value |-> top.value]
    OBVIOUS
  <2>e. entry.kind = KindOf[x] /\ entry # Null
    <3>1. KindOf[x] # "null"
      BY <1>4, EnvAssumption
    <3>2. entry.kind = KindOf[x] /\ Null.kind = "null"
      BY DEF Null
    <3> QED
      BY <3>1, <3>2
  <2>0. frames' = [frames EXCEPT ![u] = Append(rest, frame)] /\ UNCHANGED answers
    BY <1>8 DEF EnvDefine, Innermost, Goto, Outer
  <2>f. frame.at = "Reload" /\ frame.setting = x
    OBVIOUS
  <2>1. CASE cached[x] # Null
    <3>1. UNCHANGED <<valuesByName, cached, alerts, duplicates>>
      BY <1>8, <2>1 DEF EnvDefine, IsDefined, Innermost
    <3>2. FrameOK(frame)'
      BY <1>4, <2>1, <2>f, <3>1 DEF FrameOK
    <3>3. EnvTyped'
      BY <1>5, <2>0, <3>1, <3>2 DEF EnvInv, EnvTyped
    <3>4. \A w \in SettingUsers : CallsOf(w)'
      BY <1>5, <2>0, <3>1, <3>2
    <3>5. \A y \in Settings : OnlyOne(y) => Settled(y)'
      BY <2>0, <3>1 DEF EnvInv, Settled
    <3> QED
      BY <3>3, <3>4, <3>5 DEF EnvInv, OnlyOne
  <2>2. CASE cached[x] = Null
    <3> PICK stored : stored = IF v \notin DOMAIN valuesByName THEN entry ELSE valuesByName[v]
      OBVIOUS
    <3>1. /\ DOMAIN valuesByName' = DOMAIN valuesByName \cup {v}
          /\ cached' = [cached EXCEPT ![x] = IF stored.kind = KindOf[x] THEN stored ELSE Null]
          /\ duplicates' = IF v \notin DOMAIN valuesByName THEN duplicates ELSE duplicates \cup {x}
          /\ alerts' = IF v \notin DOMAIN valuesByName /\ entry.value # DefaultOf[x]
                       THEN [alerts EXCEPT ![x] = @ + 1] ELSE alerts
      BY <1>8, <2>2 DEF EnvDefine, IsDefined, Innermost
    <3>2. \A y \in Settings : y # x => cached'[y] = cached[y] /\ alerts'[y] = alerts[y]
      BY <1>4, <3>1 DEF EnvInv, EnvTyped
    \* Nobody else could have made the entry.
    <3>3. ASSUME OnlyOne(x)
          PROVE  /\ cached'[x] = entry /\ x \notin duplicates' /\ answers'[x] = {}
                 /\ alerts'[x] = IF entry.value # DefaultOf[x] THEN 1 ELSE 0
      <4>1. v \notin DOMAIN valuesByName /\ alerts[x] = 0 /\ x \notin duplicates /\ answers[x] = {}
        BY <1>4, <2>2, <3>3 DEF EnvInv, Settled
      <4> QED
        BY <1>4, <2>0, <2>e, <3>1, <4>1 DEF EnvInv, EnvTyped
    <3>4. FrameOK(frame)'
      BY <1>4, <2>f, <2>e, <3>3 DEF FrameOK, OnlyOne
    <3>5. \A y \in Settings : OnlyOne(y) /\ cached[y] # Null => cached'[y] # Null
      BY <2>2, <3>2
    <3>6. EnvTyped'
      BY <1>5, <2>0, <3>1, <3>4, <3>5 DEF EnvInv, EnvTyped
    <3>7. \A w \in SettingUsers : CallsOf(w)'
      BY <1>5, <2>0, <3>4, <3>5
    <3>8. ASSUME NEW y \in Settings, OnlyOne(y) PROVE Settled(y)'
      <4>1. CASE y = x
        <5>1. /\ cached'[x] = entry /\ x \notin duplicates' /\ answers'[x] = {}
              /\ alerts'[x] = IF entry.value # DefaultOf[x] THEN 1 ELSE 0
          BY <3>3, <3>8, <4>1
        <5>2. VariableOf[x] \in DOMAIN valuesByName'
          BY <3>1
        <5> QED
          BY <2>e, <4>1, <5>1, <5>2 DEF Settled
      <4>2. CASE y # x
        <5>1. VariableOf[y] # v
          BY <1>4, <3>8, <4>2 DEF OnlyOne
        <5>2. Settled(y)
          BY <3>8 DEF EnvInv
        <5> QED
          BY <2>0, <3>1, <3>2, <4>2, <5>1, <5>2 DEF Settled
      <4> QED
        BY <4>1, <4>2
    <3> QED
      BY <3>6, <3>7, <3>8 DEF EnvInv, OnlyOne
  <2> QED
    BY <2>1, <2>2
<1> QED
  BY <1>6, <1>7, <1>8

\* EnvInv is invariant.
LEMMA EnvInvariant == EnvSpec => []EnvInv
<1>1. EnvInv /\ [EnvNext]_envVars => EnvInv'
  <2> SUFFICES ASSUME EnvInv, [EnvNext]_envVars PROVE EnvInv'
    OBVIOUS
  <2>1. CASE UNCHANGED envVars
    BY <2>1 DEF envVars, EnvInv, EnvTyped, CallsOf, FrameOK, OnlyOne, Settled
  <2> QED
    BY <2>1, EnvMoves, EnvAnswers DEF EnvNext, EnvStep
<1> QED
  BY <1>1, EnvStarts, PTL DEF EnvSpec

\* A setting that is the only one of its name has one value, gets it once, is announced at
\* most once and is never called a duplicate, for any settings and users, any environment
\* and calls that nest in any way (envSetting.cpp:88-311, envSetting.h:57-70).
THEOREM SettingsSettle == EnvSpec => []SettingsAreSettled
<1>1. EnvInv => SettingsAreSettled
  BY DEF EnvInv, OnlyOne, Settled, SettingsAreSettled
<1> QED
  BY <1>1, EnvInvariant, PTL

-----------------------------------------------------------------------------
(* TfPyLock.  Each lock object knows whether its thread had the            *)
(* interpreter lock before it, so what a thread has is told by its stack   *)
(* of lock objects, from what it came with; the interpreter's count is the *)
(* number of acquired ones.  The proof keeps, beside the stack, what the   *)
(* thread had with each number of them.                                    *)

LockObjects ==
  [acquired : BOOLEAN, allowing : BOOLEAN, gilState : {"Locked", "Unlocked"}, inScope : BOOLEAN]

\* What d does of what t has: before is whether t had the interpreter lock when d came,
\* after whether it has it with d, kept whether foreign code has kept it once.
LockOK(d, before, after, kept) ==
  /\ d \in LockObjects
  /\ d.acquired => /\ d.gilState = "Locked" <=> before = TRUE
                   /\ ~d.allowing => after = TRUE
                   /\ d.allowing /\ after = TRUE => kept = TRUE
  /\ ~d.acquired => ~d.allowing /\ after = before

AcquiredOf(locks) == {k \in 1 .. Len(locks) : locks[k].acquired}

\* What t had with each number of its locks: has[0] without any, has[n] with all.
Nested(locks, has, kept) ==
  /\ has \in [0 .. Len(locks) -> BOOLEAN]
  /\ \A k \in 1 .. Len(locks) : LockOK(locks[k], has[k - 1], has[k], kept)

\* The nesting is counted unless foreign code has kept the lock.
StackOK(locks, first, last, count, kept) ==
  /\ locks \in Seq(LockObjects) /\ kept \in BOOLEAN /\ count \in Int
  /\ IsFiniteSet(AcquiredOf(locks))
  /\ kept = FALSE => count = Cardinality(AcquiredOf(locks))
  /\ \E has : Nested(locks, has, kept) /\ has[0] = first /\ has[Len(locks)] = last

Truth(b) == IF b THEN TRUE ELSE FALSE
CameWith(t) == Truth(t \in Interpreters /\ inCall[t] = TRUE)

PyInv ==
  /\ pyAborts = FALSE
  /\ gilCounter \in [AllThreads -> Int] /\ inCall \in [AllThreads -> BOOLEAN]
  /\ leaked \in [AllThreads -> BOOLEAN] /\ pyLocks \in [AllThreads -> Seq(LockObjects)]
  /\ \A t \in AllThreads :
       /\ StackOK(pyLocks[t], CameWith(t), Truth(gil = t), gilCounter[t] - OwnNesting(t), leaked[t])
       /\ inCall[t] = FALSE => pyLocks[t] = <<>>

-----------------------------------------------------------------------------

\* A new lock.
LEMMA LockComes ==
  ASSUME NEW locks, NEW first \in BOOLEAN, NEW before \in BOOLEAN, NEW after \in BOOLEAN,
         NEW count, NEW kept, StackOK(locks, first, before, count, kept),
         NEW d, LockOK(d, before, after, kept)
  PROVE  StackOK(Append(locks, d), first, after, count + Ones(d.acquired), kept)
<1> PICK n \in Nat : n = Len(locks)
  BY DEF StackOK
<1> PICK more : more = Append(locks, d)
  OBVIOUS
<1>1. /\ more \in Seq(LockObjects) /\ Len(more) = n + 1 /\ more[n + 1] = d
      /\ \A k \in 1 .. n : more[k] = locks[k]
  BY DEF StackOK, LockOK
<1>2. PICK has : Nested(locks, has, kept) /\ has[0] = first /\ has[n] = before
  BY DEF StackOK
<1> DEFINE has2 == [k \in 0 .. n + 1 |-> IF k = n + 1 THEN after ELSE has[k]]
<1>3. /\ has2 \in [0 .. n + 1 -> BOOLEAN] /\ has2[n + 1] = after
      /\ \A k \in 0 .. n : has2[k] = has[k]
  BY <1>2 DEF Nested
<1> HIDE DEF has2
<1>4. Nested(more, has2, kept)
  <2>1. ASSUME NEW k \in 1 .. n + 1 PROVE LockOK(more[k], has2[k - 1], has2[k], kept)
    <3>1. CASE k = n + 1
      <4>1. k - 1 = n /\ n \in 0 .. n
        BY <3>1
      <4> QED
        BY <1>1, <1>2, <1>3, <3>1, <4>1
    <3>2. CASE k \in 1 .. n
      <4>1. k \in 0 .. n /\ k - 1 \in 0 .. n
        BY <3>2
      <4> QED
        BY <1>1, <1>2, <1>3, <3>2, <4>1 DEF Nested
    <3> QED
      BY <3>1, <3>2
  <2> QED
    BY <1>1, <1>3, <2>1 DEF Nested
<1>5. has2[0] = first /\ has2[Len(more)] = after
  BY <1>1, <1>2, <1>3
<1>6. /\ IsFiniteSet(AcquiredOf(more))
      /\ Cardinality(AcquiredOf(more)) = Cardinality(AcquiredOf(locks)) + Ones(d.acquired)
      /\ Cardinality(AcquiredOf(locks)) \in Nat
  <2>1. AcquiredOf(locks) \ {n + 1} = AcquiredOf(more) \ {n + 1}
    BY <1>1 DEF AcquiredOf
  <2>2. n + 1 \notin AcquiredOf(locks) /\ (n + 1 \in AcquiredOf(more) <=> d.acquired)
    BY <1>1 DEF AcquiredOf
  <2>3. IsFiniteSet(AcquiredOf(locks))
    BY DEF StackOK
  <2> HIDE DEF AcquiredOf
  <2>4. /\ IsFiniteSet(AcquiredOf(more)) /\ Cardinality(AcquiredOf(locks)) \in Nat
        /\ Cardinality(AcquiredOf(more)) = Cardinality(AcquiredOf(locks))
             + Ones(n + 1 \in AcquiredOf(more)) - Ones(n + 1 \in AcquiredOf(locks))
    BY <2>1, <2>3, CardinalityStep
  <2> QED
    BY <2>2, <2>4 DEF Ones
<1>7. count + Ones(d.acquired) \in Int /\ count \in Int
  BY DEF Ones, StackOK
<1> QED
  BY <1>1, <1>4, <1>5, <1>6, <1>7 DEF StackOK

\* The last lock goes.
LEMMA LockGoes ==
  ASSUME NEW locks, NEW first \in BOOLEAN, NEW after \in BOOLEAN,
         NEW count, NEW kept, StackOK(locks, first, after, count, kept), locks # <<>>
  PROVE  LET d == locks[Len(locks)]
             rest == SubSeq(locks, 1, Len(locks) - 1)
         IN /\ d \in LockObjects /\ rest \in Seq(LockObjects)
            /\ \E before \in BOOLEAN :
                 /\ LockOK(d, before, after, kept)
                 /\ StackOK(rest, first, before, count - Ones(d.acquired), kept)
<1> PICK n \in Nat : n = Len(locks)
  BY DEF StackOK
<1> PICK d, rest : d = locks[n] /\ rest = SubSeq(locks, 1, n - 1)
  OBVIOUS
<1>1. /\ locks \in Seq(LockObjects) /\ n \in 1 .. n /\ n - 1 \in Nat
      /\ d \in LockObjects
      /\ rest \in Seq(LockObjects) /\ Len(rest) = n - 1
      /\ \A k \in 1 .. n - 1 : rest[k] = locks[k]
  BY DEF StackOK
<1>2. PICK has : Nested(locks, has, kept) /\ has[0] = first /\ has[n] = after
  BY DEF StackOK
<1> DEFINE has2 == [k \in 0 .. n - 1 |-> has[k]]
<1>3. /\ has2 \in [0 .. n - 1 -> BOOLEAN] /\ has[n - 1] \in BOOLEAN
      /\ \A k \in 0 .. n - 1 : has2[k] = has[k]
  BY <1>1, <1>2 DEF Nested
<1> HIDE DEF has2
<1>4. LockOK(d, has[n - 1], after, kept)
  BY <1>1, <1>2 DEF Nested
<1>5. Nested(rest, has2, kept)
  <2>1. ASSUME NEW k \in 1 .. n - 1 PROVE LockOK(rest[k], has2[k - 1], has2[k], kept)
    <3>1. k \in 1 .. n /\ k - 1 \in 0 .. n - 1 /\ k \in 0 .. n - 1
      BY <1>1
    <3> QED
      BY <1>1, <1>2, <1>3, <3>1 DEF Nested
  <2> QED
    BY <1>1, <1>3, <2>1 DEF Nested
<1>6. has2[0] = first /\ has2[Len(rest)] = has[n - 1]
  BY <1>1, <1>2, <1>3
<1>7. /\ IsFiniteSet(AcquiredOf(rest)) /\ Cardinality(AcquiredOf(locks)) \in Nat
      /\ Cardinality(AcquiredOf(rest)) = Cardinality(AcquiredOf(locks)) - Ones(d.acquired)
  <2>1. AcquiredOf(locks) \ {n} = AcquiredOf(rest) \ {n}
    BY <1>1 DEF AcquiredOf
  <2>2. n \notin AcquiredOf(rest) /\ (n \in AcquiredOf(locks) <=> d.acquired)
    BY <1>1 DEF AcquiredOf
  <2>3. IsFiniteSet(AcquiredOf(locks))
    BY DEF StackOK
  <2>4. /\ IsFiniteSet(AcquiredOf(rest)) /\ Cardinality(AcquiredOf(locks)) \in Nat
        /\ Cardinality(AcquiredOf(rest)) = Cardinality(AcquiredOf(locks))
             + Ones(n \in AcquiredOf(rest)) - Ones(n \in AcquiredOf(locks))
    BY <2>1, <2>3, CardinalityStep
  <2> QED
    BY <2>2, <2>4 DEF Ones
<1>8. count - Ones(d.acquired) \in Int /\ count \in Int
  BY DEF Ones, StackOK
<1>9. StackOK(rest, first, has[n - 1], count - Ones(d.acquired), kept)
  BY <1>1, <1>5, <1>6, <1>7, <1>8 DEF StackOK
<1> QED
  BY <1>1, <1>3, <1>4, <1>9

\* The last lock changes.
LEMMA LastIsChanged ==
  ASSUME NEW locks \in Seq(LockObjects), locks # <<>>, NEW d \in LockObjects
  PROVE  [locks EXCEPT ![Len(locks)] = d] = Append(SubSeq(locks, 1, Len(locks) - 1), d)
<1> PICK n \in Nat : n = Len(locks)
  OBVIOUS
<1>0. n # 0 /\ n - 1 \in 0 .. n /\ n \in 1 .. n
  OBVIOUS
<1> DEFINE rest == SubSeq(locks, 1, n - 1)
           a == [locks EXCEPT ![n] = d]
           b == Append(rest, d)
<1>1. rest \in Seq(LockObjects) /\ Len(rest) = n - 1 /\ \A k \in 1 .. n - 1 : rest[k] = locks[k]
  BY <1>0
<1> HIDE DEF rest
<1>2. b \in Seq(LockObjects) /\ Len(b) = n /\ b[n] = d /\ \A k \in 1 .. n - 1 : b[k] = locks[k]
  BY <1>0, <1>1
<1>3. a \in Seq(LockObjects) /\ Len(a) = n /\ a[n] = d /\ \A k \in 1 .. n - 1 : a[k] = locks[k]
  BY <1>0
<1> HIDE DEF a, b
<1>4. \A k \in 1 .. n : a[k] = b[k]
  BY <1>2, <1>3
<1>5. a = b
  BY <1>2, <1>3, <1>4
<1> QED
  BY <1>5 DEF a, b, rest

\* Without locks a thread has what it came with.
LEMMA NoLocks ==
  ASSUME NEW first \in BOOLEAN, NEW last \in BOOLEAN, NEW count \in Int, NEW kept \in BOOLEAN
  PROVE  StackOK(<<>>, first, last, count, kept) <=> first = last /\ (kept = FALSE => count = 0)
<1>1. /\ <<>> \in Seq(LockObjects) /\ Len(<<>>) = 0 /\ AcquiredOf(<<>>) = {}
      /\ IsFiniteSet({}) /\ Cardinality({}) = 0
  BY FS_EmptySet DEF AcquiredOf
<1>2. \A has : Nested(<<>>, has, kept) <=> has \in [0 .. 0 -> BOOLEAN]
  BY <1>1 DEF Nested
<1>3. (\E has \in [0 .. 0 -> BOOLEAN] : has[0] = first /\ has[0] = last) <=> first = last
  <2>1. [k \in 0 .. 0 |-> first] \in [0 .. 0 -> BOOLEAN] /\ [k \in 0 .. 0 |-> first][0] = first
    OBVIOUS
  <2> QED
    BY <2>1
<1> QED
  BY <1>1, <1>2, <1>3 DEF StackOK

\* Foreign code keeps the lock: nothing is said of the nesting any more.
LEMMA LockIsKept ==
  ASSUME NEW locks, NEW first, NEW last, NEW count, NEW kept, StackOK(locks, first, last, count, kept),
         NEW count2 \in Int
  PROVE  StackOK(locks, first, last, count2, TRUE)
<1>1. PICK has : Nested(locks, has, kept) /\ has[0] = first /\ has[Len(locks)] = last
  BY DEF StackOK
<1>2. Nested(locks, has, TRUE)
  BY <1>1 DEF Nested, LockOK
<1> QED
  BY <1>1, <1>2 DEF StackOK

\* What a thread has comes from its last acquired lock.
LEMMA LastAcquired ==
  ASSUME NEW locks, NEW first, NEW last, NEW count, NEW kept, StackOK(locks, first, last, count, kept)
  PROVE  /\ AcquiredOf(locks) = {} => last = first
         /\ \A m \in AcquiredOf(locks) : (\A j \in AcquiredOf(locks) : j <= m) =>
              /\ ~locks[m].allowing => last = TRUE
              /\ locks[m].allowing /\ last = TRUE => kept = TRUE
<1> PICK n \in Nat : n = Len(locks)
  BY DEF StackOK
<1>1. PICK has : Nested(locks, has, kept) /\ has[0] = first /\ has[n] = last
  BY DEF StackOK
<1>2. ASSUME NEW m \in 0 .. n, \A k \in 1 .. n : k > m => ~locks[k].acquired
      PROVE  has[m] = last
  <2> DEFINE D == {k \in 0 .. n : k >= m /\ has[k] = has[m]}
             id == [k \in D |-> k]
  <2>1. m \in D /\ id \in [D -> Nat] /\ \A k \in D : id[k] <= n
    OBVIOUS
  <2>2. PICK k \in D : \A j \in D : id[j] <= id[k]
    <3> HIDE DEF D, id
    <3> QED
      BY <2>1, Highest
  <2>3. k + 1 \notin D
    <3>1. ASSUME k + 1 \in D PROVE FALSE
      <4>1. id[k + 1] <= id[k] /\ id[k] = k /\ id[k + 1] = k + 1 /\ k \in Nat
        BY <2>2, <3>1
      <4> QED
        BY <4>1
    <3> QED
      BY <3>1
  <2>4. ASSUME k < n PROVE FALSE
    <3>1. k + 1 \in 1 .. n /\ k + 1 > m /\ (k + 1) - 1 = k
      BY <2>4
    <3>2. has[k + 1] = has[k]
      BY <1>1, <1>2, <3>1 DEF Nested, LockOK
    <3> QED
      BY <2>3, <3>1, <3>2
  <2> QED
    BY <1>1, <2>4
<1>3. CASE AcquiredOf(locks) = {}
  <2>1. \A k \in 1 .. n : ~locks[k].acquired
    BY <1>3 DEF AcquiredOf
  <2>2. has[0] = last
    BY <1>2, <2>1
  <2> QED
    BY <1>1, <1>3, <2>2
<1>4. ASSUME NEW m \in AcquiredOf(locks), \A j \in AcquiredOf(locks) : j <= m
      PROVE  /\ ~locks[m].allowing => last = TRUE
             /\ locks[m].allowing /\ last = TRUE => kept = TRUE
  <2>1. m \in 1 .. n /\ m \in 0 .. n /\ locks[m].acquired
    BY DEF AcquiredOf
  <2>2. \A k \in 1 .. n : k > m => ~locks[k].acquired
    <3>1. ASSUME NEW k \in 1 .. n, k > m, locks[k].acquired PROVE FALSE
      <4>1. k \in AcquiredOf(locks)
        BY <3>1 DEF AcquiredOf
      <4> QED
        BY <1>4, <2>1, <3>1, <4>1
    <3> QED
      BY <3>1
  <2>3. has[m] = last
    BY <1>2, <2>1, <2>2
  <2>4. LockOK(locks[m], has[m - 1], has[m], kept)
    BY <1>1, <2>1 DEF Nested
  <2> QED
    BY <2>1, <2>3, <2>4 DEF LockOK
<1> QED
  BY <1>3, <1>4

-----------------------------------------------------------------------------

\* Without locks, every interpreter call has the interpreter lock.
LEMMA PyStarts == ASSUME PyInit PROVE PyInv
<1>1. ASSUME NEW t \in AllThreads
      PROVE  /\ pyLocks[t] = <<>> /\ leaked[t] = FALSE /\ gilCounter[t] = OwnNesting(t)
             /\ CameWith(t) = FALSE /\ Truth(gil = t) = FALSE
  BY PyAssumption DEF PyInit, OwnNesting, CameWith, Truth, AllThreads
<1>2. \A t \in AllThreads : OwnNesting(t) - OwnNesting(t) = 0
  BY DEF OwnNesting
<1>3. ASSUME NEW t \in AllThreads
      PROVE  StackOK(pyLocks[t], CameWith(t), Truth(gil = t), gilCounter[t] - OwnNesting(t), leaked[t])
  <2>1. gilCounter[t] - OwnNesting(t) = 0
    BY <1>1, <1>2
  <2> PICK no \in BOOLEAN : no = FALSE
    OBVIOUS
  <2> PICK zero \in Int : zero = 0
    OBVIOUS
  <2>3. StackOK(<<>>, no, no, zero, no)
    BY NoLocks
  <2> QED
    BY <1>1, <2>1, <2>3
<1>4. /\ pyAborts = FALSE /\ gilCounter \in [AllThreads -> Int] /\ inCall \in [AllThreads -> BOOLEAN]
      /\ leaked \in [AllThreads -> BOOLEAN] /\ pyLocks \in [AllThreads -> Seq(LockObjects)]
  BY DEF PyInit
<1> QED
  BY <1>1, <1>3, <1>4 DEF PyInv

\* A step of t: the others have of the lock what they had.
LEMMA PyChanges ==
  ASSUME PyInv, NEW t \in AllThreads, NEW locks, NEW count, NEW kept, NEW called \in BOOLEAN,
         pyAborts' = FALSE,
         pyLocks' = [pyLocks EXCEPT ![t] = locks], gilCounter' = [gilCounter EXCEPT ![t] = count],
         leaked' = [leaked EXCEPT ![t] = kept], inCall' = [inCall EXCEPT ![t] = called],
         gil' \in {gil, t} \/ (gil = t /\ gil' = Unheld), gil' = t => gil \in {t, Unheld},
         count \in Int,
         StackOK(locks, Truth(t \in Interpreters /\ called = TRUE), Truth(gil' = t),
                 count - OwnNesting(t), kept),
         called = FALSE => locks = <<>>
  PROVE  PyInv'
<1>1. locks \in Seq(LockObjects) /\ kept \in BOOLEAN
  BY DEF StackOK
<1>2. /\ gilCounter' \in [AllThreads -> Int] /\ inCall' \in [AllThreads -> BOOLEAN]
      /\ leaked' \in [AllThreads -> BOOLEAN] /\ pyLocks' \in [AllThreads -> Seq(LockObjects)]
  BY <1>1 DEF PyInv
<1>3. ASSUME NEW u \in AllThreads
      PROVE  /\ StackOK(pyLocks'[u], CameWith(u)', Truth(gil' = u), gilCounter'[u] - OwnNesting(u), leaked'[u])
             /\ inCall'[u] = FALSE => pyLocks'[u] = <<>>
  <2>1. CASE u = t
    <3>1. /\ pyLocks'[u] = locks /\ gilCounter'[u] = count /\ leaked'[u] = kept /\ inCall'[u] = called
      BY <2>1 DEF PyInv
    <3>2. CameWith(u)' = Truth(t \in Interpreters /\ called = TRUE)
      BY <2>1, <3>1 DEF CameWith
    <3> QED
      BY <2>1, <3>1, <3>2
  <2>2. CASE u # t
    <3>1. /\ pyLocks'[u] = pyLocks[u] /\ gilCounter'[u] = gilCounter[u] /\ leaked'[u] = leaked[u]
          /\ inCall'[u] = inCall[u]
      BY <2>2 DEF PyInv
    <3>2. CameWith(u)' = CameWith(u)
      BY <3>1 DEF CameWith
    <3>3. gil' = u <=> gil = u
      BY <2>2, PyAssumption
    <3>4. Truth(gil' = u) = Truth(gil = u)
      BY <3>3 DEF Truth
    <3> QED
      BY <3>1, <3>2, <3>4 DEF PyInv
  <2> QED
    BY <2>1, <2>2
<1>4. OwnNesting(t) \in Int
  BY DEF OwnNesting
<1> QED
  BY <1>2, <1>3 DEF PyInv, OwnNesting

\* How t takes the lock, or is given what is nested in it, with a new lock object.
LEMMA PyPushes ==
  ASSUME PyInv, NEW t \in AllThreads, PyConstruct(t) \/ EnsureUnlocked(t)
  PROVE  PyInv'
<1> PICK locks, own, kept : locks = pyLocks[t] /\ own = OwnNesting(t) /\ kept = leaked[t]
  OBVIOUS
<1>p. PICK has, first : has = Truth(gil = t) /\ first = Truth(t \in Interpreters /\ inCall[t] = TRUE)
  OBVIOUS
<1> PICK count \in Int : count = gilCounter[t]
  BY DEF PyInv
<1>0. has \in BOOLEAN /\ first \in BOOLEAN /\ own \in Int
  BY <1>p DEF Truth, OwnNesting
<1>1. /\ StackOK(locks, first, has, count - own, kept) /\ has \in BOOLEAN /\ first \in BOOLEAN
      /\ own \in Int /\ pyAborts = FALSE /\ kept \in BOOLEAN
      /\ gilCounter = [gilCounter EXCEPT ![t] = count]
      /\ (count + 1) - own = (count - own) + 1 /\ count - own \in Int
  BY <1>0, <1>p DEF PyInv, CameWith
<1>2. inCall[t] = TRUE /\ UNCHANGED <<inCall, leaked>>
  BY DEF PyInv, PyConstruct, EnsureUnlocked, CanNest
<1>3. inCall' = [inCall EXCEPT ![t] = TRUE] /\ leaked' = [leaked EXCEPT ![t] = kept]
  BY <1>2 DEF PyInv
<1>4. has = TRUE <=> gil = t
  BY <1>p DEF Truth
<1>5. ASSUME NEW d, pyLocks' = [pyLocks EXCEPT ![t] = Append(locks, d)], pyAborts' = FALSE,
             gilCounter' = [gilCounter EXCEPT ![t] = count + Ones(d.acquired)],
             gil' \in {gil, t} \/ (gil = t /\ gil' = Unheld), gil' = t => gil \in {t, Unheld},
             LockOK(d, has, Truth(gil' = t), kept)
      PROVE  PyInv'
  <2> PICK has2 \in BOOLEAN : has2 = Truth(gil' = t)
    BY DEF Truth
  <2>1. StackOK(Append(locks, d), first, has2, (count - own) + Ones(d.acquired), kept)
    BY <1>1, <1>5, LockComes
  <2>2. count + Ones(d.acquired) \in Int
        /\ (count + Ones(d.acquired)) - own = (count - own) + Ones(d.acquired)
    BY <1>1 DEF Ones
  <2>3. first = Truth(t \in Interpreters /\ TRUE = TRUE)
    BY <1>2, <1>p DEF Truth
  <2>4. StackOK(Append(locks, d), Truth(t \in Interpreters /\ TRUE = TRUE), Truth(gil' = t),
                (count + Ones(d.acquired)) - OwnNesting(t), kept)
    BY <2>1, <2>2, <2>3
  <2>5. TRUE \in BOOLEAN
    OBVIOUS
  <2> QED
    BY <1>3, <1>5, <2>2, <2>4, <2>5, PyChanges
<1>6. CASE PyConstruct(t)
  <2>1. CASE pyInitialized
    <3> PICK d : d = AcquiredBy(t, FreshLock(FALSE))
      OBVIOUS
    <3>1. /\ d \in LockObjects /\ d.acquired = TRUE /\ d.allowing = FALSE
          /\ d.gilState = IF gil = t THEN "Locked" ELSE "Unlocked"
      BY DEF AcquiredBy, FreshLock, LockObjects, HasGil
    <3>2. /\ gil \in {t, Unheld} /\ gil' = t /\ gilCounter' = [gilCounter EXCEPT ![t] = count + 1]
          /\ pyLocks' = [pyLocks EXCEPT ![t] = Append(locks, d)] /\ pyAborts' = FALSE
      BY <1>1, <1>6, <2>1 DEF PyConstruct, Ensure, PyPushed
    <3>3. LockOK(d, has, Truth(gil' = t), kept) /\ Ones(d.acquired) = 1
      BY <1>4, <3>1, <3>2 DEF LockOK, Truth, Ones
    <3> QED
      BY <1>5, <3>2, <3>3
  <2>2. CASE ~pyInitialized
    <3> PICK d : d = FreshLock(FALSE)
      OBVIOUS
    <3>1. d \in LockObjects /\ d.acquired = FALSE /\ d.allowing = FALSE
      BY DEF FreshLock, LockObjects
    <3>2. /\ gil' = gil /\ gilCounter' = [gilCounter EXCEPT ![t] = count]
          /\ pyLocks' = [pyLocks EXCEPT ![t] = Append(locks, d)] /\ pyAborts' = FALSE
      BY <1>1, <1>6, <2>2 DEF PyConstruct, PyPushed
    <3>c. ~d.acquired
      BY <3>1
    <3>0. Ones(d.acquired) = 0 /\ count + 0 = count
      BY <3>c DEF Ones
    <3>a. Truth(gil' = t) = has
      BY <3>2, <1>p DEF Truth
    <3>b. LockOK(d, has, has, kept)
      BY <3>1 DEF LockOK
    <3>3. LockOK(d, has, Truth(gil' = t), kept) /\ Ones(d.acquired) = 0 /\ count + 0 = count
      BY <3>0, <3>a, <3>b
    <3>4. gil' \in {gil, t} /\ (gil' = t => gil \in {t, Unheld})
      BY <3>2
    <3> QED
      BY <1>5, <3>2, <3>3, <3>4
  <2> QED
    BY <2>1, <2>2
<1>7. CASE EnsureUnlocked(t)
  <2>1. CASE gil = t
    <3> PICK d : d = [AcquiredBy(t, FreshLock(TRUE)) EXCEPT !.allowing = TRUE]
      OBVIOUS
    <3>1. /\ d \in LockObjects /\ d.acquired = TRUE /\ d.allowing = TRUE
          /\ d.gilState = "Locked"
      BY <2>1 DEF AcquiredBy, FreshLock, LockObjects, HasGil
    <3>2. /\ gil' = Unheld /\ gilCounter' = [gilCounter EXCEPT ![t] = count + 1]
          /\ pyLocks' = [pyLocks EXCEPT ![t] = Append(locks, d)] /\ pyAborts' = FALSE
      BY <1>1, <1>7, <2>1 DEF EnsureUnlocked, SaveThread, HasGil, PyPushed
    <3>3. gil' # t
      BY <3>2, PyAssumption
    <3>4. LockOK(d, has, Truth(gil' = t), kept) /\ Ones(d.acquired) = 1
      BY <1>4, <2>1, <3>1, <3>3 DEF LockOK, Truth, Ones
    <3> QED
      BY <1>5, <2>1, <3>2, <3>3, <3>4
  <2>2. CASE gil # t
    <3> PICK d : d = FreshLock(TRUE)
      OBVIOUS
    <3>1. d \in LockObjects /\ d.acquired = FALSE /\ d.allowing = FALSE
      BY DEF FreshLock, LockObjects
    <3>2. /\ gil' = gil /\ gilCounter' = [gilCounter EXCEPT ![t] = count]
          /\ pyLocks' = [pyLocks EXCEPT ![t] = Append(locks, d)] /\ pyAborts' = FALSE
      BY <1>1, <1>7, <2>2 DEF EnsureUnlocked, HasGil, PyPushed
    <3>c. ~d.acquired
      BY <3>1
    <3>0. Ones(d.acquired) = 0 /\ count + 0 = count
      BY <3>c DEF Ones
    <3>a. Truth(gil' = t) = has
      BY <3>2, <1>p DEF Truth
    <3>b. LockOK(d, has, has, kept)
      BY <3>1 DEF LockOK
    <3>3. LockOK(d, has, Truth(gil' = t), kept) /\ Ones(d.acquired) = 0 /\ count + 0 = count
      BY <3>0, <3>a, <3>b
    <3>4. gil' \in {gil, t} /\ (gil' = t => gil \in {t, Unheld})
      BY <3>2
    <3> QED
      BY <1>5, <3>2, <3>3, <3>4
  <2> QED
    BY <2>1, <2>2
<1> QED
  BY <1>6, <1>7

\* Its last lock object goes, or another thing is done with it.
LEMMA PyLastSteps ==
  ASSUME OuterToo = FALSE, PyInv, NEW t \in AllThreads,
         PyDestroy(t) \/ PyAcquire(t) \/ PyRelease(t) \/ BeginAllowThreads(t) \/ EndAllowThreads(t)
         \/ KeepGil(t)
  PROVE  PyInv'
<1> PICK locks, own, kept : locks = pyLocks[t] /\ own = OwnNesting(t) /\ kept = leaked[t]
  OBVIOUS
<1>p. PICK has, first : has = Truth(gil = t) /\ first = Truth(t \in Interpreters /\ inCall[t] = TRUE)
  OBVIOUS
<1> PICK count \in Int : count = gilCounter[t]
  BY DEF PyInv
<1> PICK n \in Nat : n = Len(locks)
  BY DEF PyInv
<1>0. has \in BOOLEAN /\ first \in BOOLEAN /\ own \in Int
  BY <1>p DEF Truth, OwnNesting
<1>1. /\ StackOK(locks, first, has, count - own, kept) /\ has \in BOOLEAN /\ first \in BOOLEAN
      /\ own \in Int /\ pyAborts = FALSE /\ kept \in BOOLEAN
      /\ gilCounter = [gilCounter EXCEPT ![t] = count] /\ leaked = [leaked EXCEPT ![t] = kept]
      /\ locks \in Seq(LockObjects) /\ count - own \in Int
  BY <1>0, <1>p DEF PyInv, CameWith
<1>2. locks # <<>>
  <2>1. ASSUME NEW k \in UsableLocks(t) PROVE locks # <<>>
    BY DEF UsableLocks, PyDepths
  <2> QED
    BY <2>1 DEF PyDestroy, PyAcquire, PyRelease, BeginAllowThreads, EndAllowThreads, KeepGil
<1>3. inCall[t] = TRUE /\ inCall' = inCall
  <2>1. inCall[t] \in BOOLEAN /\ (inCall[t] = FALSE => locks = <<>>)
    BY DEF PyInv
  <2> QED
    BY <1>2, <2>1 DEF PyDestroy, PyAcquire, PyRelease, BeginAllowThreads, EndAllowThreads, KeepGil
<1>4. inCall' = [inCall EXCEPT ![t] = TRUE]
  BY <1>3 DEF PyInv
<1>5. has = TRUE <=> gil = t
  BY <1>p DEF Truth
<1> PICK d, rest : d = locks[n] /\ rest = SubSeq(locks, 1, n - 1)
  OBVIOUS
<1>6. PICK before \in BOOLEAN :
        /\ LockOK(d, before, has, kept)
        /\ StackOK(rest, first, before, (count - own) - Ones(d.acquired), kept)
  BY <1>1, <1>2, LockGoes
<1>7. d \in LockObjects
  BY <1>6 DEF LockOK
\* What is done leaves t with the locks more, and in order if they are.
<1>8. ASSUME NEW more, NEW nested \in Int, NEW keeps,
             pyLocks' = [pyLocks EXCEPT ![t] = more], pyAborts' = FALSE,
             gilCounter' = [gilCounter EXCEPT ![t] = nested], leaked' = [leaked EXCEPT ![t] = keeps],
             gil' \in {gil, t} \/ (gil = t /\ gil' = Unheld), gil' = t => gil \in {t, Unheld},
             StackOK(more, first, Truth(gil' = t), nested - own, keeps)
      PROVE  PyInv'
  <2>1. first = Truth(t \in Interpreters /\ TRUE = TRUE)
    BY <1>3, <1>p DEF Truth
  <2>2. StackOK(more, Truth(t \in Interpreters /\ TRUE = TRUE), Truth(gil' = t), nested - OwnNesting(t), keeps)
    BY <1>8, <2>1
  <2>3. TRUE \in BOOLEAN
    OBVIOUS
  <2> QED
    BY <1>4, <1>8, <2>2, <2>3, PyChanges
\* The lock object d2 in place of d.
<1>9. ASSUME NEW d2, pyLocks' = [pyLocks EXCEPT ![t][n] = d2], pyAborts' = FALSE,
             gilCounter' = [gilCounter EXCEPT ![t] = (count - Ones(d.acquired)) + Ones(d2.acquired)],
             leaked' = leaked,
             gil' \in {gil, t} \/ (gil = t /\ gil' = Unheld), gil' = t => gil \in {t, Unheld},
             LockOK(d2, before, Truth(gil' = t), kept)
      PROVE  PyInv'
  <2> PICK has2 \in BOOLEAN : has2 = Truth(gil' = t)
    BY DEF Truth
  <2> PICK nested \in Int : nested = (count - Ones(d.acquired)) + Ones(d2.acquired)
    BY DEF Ones
  <2> PICK more : more = Append(rest, d2)
    OBVIOUS
  <2>1. StackOK(more, first, has2, ((count - own) - Ones(d.acquired)) + Ones(d2.acquired), kept)
    BY <1>1, <1>6, <1>9, LockComes
  <2>2. nested - own = ((count - own) - Ones(d.acquired)) + Ones(d2.acquired)
    <3>1. Ones(d.acquired) \in Int /\ Ones(d2.acquired) \in Int
      BY DEF Ones
    <3> QED
      BY <1>0, <3>1
  <2>3. [locks EXCEPT ![n] = d2] = more
    BY <1>1, <1>2, <1>9, LastIsChanged DEF LockOK
  <2>4. pyLocks' = [pyLocks EXCEPT ![t] = more]
    <3>1. pyLocks' = [pyLocks EXCEPT ![t] = [locks EXCEPT ![n] = d2]]
      BY <1>9
    <3> QED
      BY <2>3, <3>1
  <2> QED
    BY <1>1, <1>8, <1>9, <2>1, <2>2, <2>4
<1>10. \A k \in UsableLocks(t) : k = n
  BY DEF UsableLocks
<1>11. CASE PyDestroy(t)
  <2>1. /\ pyLocks' = [pyLocks EXCEPT ![t] = rest] /\ leaked' = [leaked EXCEPT ![t] = kept]
    BY <1>1, <1>11 DEF PyDestroy, Front
  <2>2. CASE d.acquired
    <3>1. d.allowing \/ gil = t
      BY <1>5, <1>6, <2>2 DEF LockOK
    <3>2. /\ gilCounter' = [gilCounter EXCEPT ![t] = count - 1] /\ pyAborts' = FALSE
          /\ gil' = IF d.gilState = "Unlocked" THEN Unheld ELSE t
          /\ gil \in {t, Unheld}
      BY <1>1, <1>11, <2>2, <3>1 DEF PyDestroy, GilRelease, Last, HasGil
    <3>3. before = Truth(gil' = t)
      BY <1>6, <1>7, <2>2, <3>2, PyAssumption DEF LockOK, LockObjects, Truth
    <3>4. (count - 1) - own = (count - own) - Ones(d.acquired) /\ count - 1 \in Int
      BY <1>1, <2>2 DEF Ones
    <3>5. gil' \in {gil, t} \/ (gil = t /\ gil' = Unheld)
      BY <3>2
    <3>6. gil' = t => gil \in {t, Unheld}
      BY <3>2
    <3> QED
      BY <1>6, <1>8, <2>1, <3>2, <3>3, <3>4, <3>5, <3>6
  <2>3. CASE ~d.acquired
    <3>1. /\ gilCounter' = [gilCounter EXCEPT ![t] = count] /\ pyAborts' = FALSE /\ gil' = gil
      BY <1>1, <1>11, <2>3 DEF PyDestroy, Last
    <3>2. before = Truth(gil' = t)
      BY <1>6, <1>p, <2>3, <3>1 DEF LockOK, Truth
    <3>3. count - own = (count - own) - Ones(d.acquired)
      BY <1>1, <2>3 DEF Ones
    <3>4. gil' \in {gil, t} /\ (gil' = t => gil \in {t, Unheld})
      BY <3>1
    <3> QED
      BY <1>6, <1>8, <2>1, <3>1, <3>2, <3>3, <3>4
  <2> QED
    BY <2>2, <2>3
<1>12. CASE PyAcquire(t)
  <2>1. PICK k \in UsableLocks(t) :
          /\ ~pyLocks[t][k].acquired /\ Ensure(t) /\ SetLock(t, k, AcquiredBy(t, pyLocks[t][k]))
          /\ UNCHANGED <<leaked, pyAborts>>
    BY <1>12 DEF PyAcquire
  <2> PICK d2 : d2 = AcquiredBy(t, d)
    OBVIOUS
  <2>2. /\ ~d.acquired /\ gil \in {t, Unheld} /\ gil' = t /\ pyAborts' = FALSE /\ leaked' = leaked
        /\ gilCounter' = [gilCounter EXCEPT ![t] = count + 1]
        /\ pyLocks' = [pyLocks EXCEPT ![t][n] = d2]
    BY <1>1, <1>10, <2>1 DEF Ensure, SetLock
  <2>3. /\ d2 \in LockObjects /\ d2.acquired = TRUE /\ d2.allowing = d.allowing
        /\ d2.gilState = IF gil = t THEN "Locked" ELSE "Unlocked"
    BY <1>7 DEF AcquiredBy, LockObjects, HasGil
  <2>4. LockOK(d2, before, Truth(gil' = t), kept)
    BY <1>5, <1>6, <2>2, <2>3 DEF LockOK, Truth
  <2>5. count + 1 = (count - Ones(d.acquired)) + Ones(d2.acquired)
    BY <2>2, <2>3 DEF Ones
  <2> QED
    BY <1>9, <2>2, <2>4, <2>5
<1>13. CASE PyRelease(t)
  <2>1. PICK k \in UsableLocks(t) :
          /\ MayRelease(pyLocks[t][k]) /\ GilRelease(t, pyLocks[t][k].gilState, HasGil(t))
          /\ SetLock(t, k, [pyLocks[t][k] EXCEPT !.acquired = FALSE])
          /\ UNCHANGED leaked
    BY <1>13 DEF PyRelease
  <2> PICK d2 : d2 = [d EXCEPT !.acquired = FALSE]
    OBVIOUS
  <2>2. /\ d.acquired /\ ~d.allowing /\ GilRelease(t, d.gilState, gil = t) /\ leaked' = leaked
        /\ pyLocks' = [pyLocks EXCEPT ![t][n] = d2]
    BY <1>1, <1>10, <2>1 DEF SetLock, MayRelease, HasGil
  <2>3. gil = t
    BY <1>5, <1>6, <2>2 DEF LockOK
  <2>4. /\ gilCounter' = [gilCounter EXCEPT ![t] = count - 1] /\ pyAborts' = FALSE
        /\ gil' = IF d.gilState = "Unlocked" THEN Unheld ELSE t
    BY <1>1, <2>2, <2>3 DEF GilRelease
  <2>5. d2 \in LockObjects /\ d2.acquired = FALSE /\ d2.allowing = d.allowing
    BY <1>7 DEF LockObjects
  <2>6. before = Truth(gil' = t)
    BY <1>6, <1>7, <2>2, <2>4, PyAssumption DEF LockOK, LockObjects, Truth
  <2>7. LockOK(d2, before, Truth(gil' = t), kept)
    BY <2>2, <2>5, <2>6 DEF LockOK
  <2>8. count - 1 = (count - Ones(d.acquired)) + Ones(d2.acquired)
    BY <2>2, <2>5 DEF Ones
  <2>9. gil' \in {gil, t} \/ (gil = t /\ gil' = Unheld)
    BY <2>3, <2>4
  <2> QED
    BY <1>9, <2>2, <2>3, <2>4, <2>7, <2>8, <2>9
<1>14. CASE BeginAllowThreads(t)
  <2>1. PICK k \in UsableLocks(t) :
          /\ ~pyLocks[t][k].allowing /\ pyLocks[t][k].acquired /\ SaveThread(t)
          /\ SetLock(t, k, [pyLocks[t][k] EXCEPT !.allowing = TRUE])
          /\ UNCHANGED <<gilCounter, leaked>>
    BY <1>14 DEF BeginAllowThreads
  <2> PICK d2 : d2 = [d EXCEPT !.allowing = TRUE]
    OBVIOUS
  <2>2. /\ d.acquired /\ ~d.allowing /\ SaveThread(t) /\ leaked' = leaked
        /\ pyLocks' = [pyLocks EXCEPT ![t][n] = d2] /\ gilCounter' = [gilCounter EXCEPT ![t] = count]
    BY <1>1, <1>10, <2>1 DEF SetLock
  <2>3. gil = t
    BY <1>5, <1>6, <2>2 DEF LockOK
  <2>4. gil' = Unheld /\ pyAborts' = FALSE /\ gil' # t
    BY <1>1, <2>2, <2>3, PyAssumption DEF SaveThread, HasGil
  <2>5. /\ d2 \in LockObjects /\ d2.acquired = d.acquired /\ d2.allowing = TRUE /\ d2.gilState = d.gilState
    BY <1>7 DEF LockObjects
  <2>6. LockOK(d2, before, Truth(gil' = t), kept)
    BY <1>6, <2>2, <2>4, <2>5 DEF LockOK, Truth
  <2>7. count = (count - Ones(d.acquired)) + Ones(d2.acquired)
    BY <2>5 DEF Ones
  <2> QED
    BY <1>9, <2>2, <2>3, <2>4, <2>6, <2>7
<1>15. CASE EndAllowThreads(t)
  <2>1. PICK k \in UsableLocks(t) :
          /\ pyLocks[t][k].allowing /\ TakesBack(t)
          /\ SetLock(t, k, [pyLocks[t][k] EXCEPT !.allowing = FALSE])
          /\ UNCHANGED <<gilCounter, leaked, pyAborts>>
    BY <1>15 DEF EndAllowThreads
  <2> PICK d2 : d2 = [d EXCEPT !.allowing = FALSE]
    OBVIOUS
  <2>2. /\ d.allowing /\ leaked' = leaked /\ pyAborts' = FALSE
        /\ gil' = t /\ gil \in {t, Unheld}
        /\ pyLocks' = [pyLocks EXCEPT ![t][n] = d2] /\ gilCounter' = [gilCounter EXCEPT ![t] = count]
    BY <1>1, <1>10, <2>1 DEF SetLock, TakesBack, RestoreThread, HasGil
  <2>3. d.acquired
    BY <1>6, <2>2 DEF LockOK
  <2>4. /\ d2 \in LockObjects /\ d2.acquired = d.acquired /\ d2.allowing = FALSE /\ d2.gilState = d.gilState
    BY <1>7 DEF LockObjects
  <2>5. LockOK(d2, before, Truth(gil' = t), kept)
    BY <1>6, <2>2, <2>3, <2>4 DEF LockOK, Truth
  <2>6. count = (count - Ones(d.acquired)) + Ones(d2.acquired)
    BY <2>4 DEF Ones
  <2> QED
    BY <1>9, <2>2, <2>5, <2>6
<1>16. CASE KeepGil(t)
  <2>1. /\ d.allowing /\ gil = Unheld /\ gil' = t /\ pyAborts' = FALSE
        /\ gilCounter' = [gilCounter EXCEPT ![t] = count + 1]
        /\ leaked' = [leaked EXCEPT ![t] = TRUE] /\ pyLocks' = pyLocks
    BY <1>1, <1>16 DEF KeepGil, Ensure, HasGil, Last
  <2>2. d.acquired
    BY <1>6, <2>1 DEF LockOK
  <2>3. LockOK(d, before, TRUE, TRUE)
    BY <1>6, <2>1, <2>2 DEF LockOK
  <2> PICK c \in Int : c = ((count + 1) - own) - 1
    BY <1>1
  <2>4. StackOK(rest, first, before, c, TRUE)
    BY <1>6, LockIsKept
  <2>5. StackOK(Append(rest, d), first, TRUE, c + Ones(d.acquired), TRUE)
    <3> PICK yes \in BOOLEAN : yes = TRUE
      OBVIOUS
    <3>1. LockOK(d, before, yes, yes) /\ StackOK(rest, first, before, c, yes)
      BY <2>3, <2>4
    <3>2. StackOK(Append(rest, d), first, yes, c + Ones(d.acquired), yes)
      BY <1>0, <1>6, <3>1, LockComes
    <3> QED
      BY <3>2
  <2>6. c + Ones(d.acquired) = (count + 1) - own /\ count + 1 \in Int
    BY <1>1, <2>2 DEF Ones
  <2>7. Append(rest, d) = locks
    <3>1. [locks EXCEPT ![n] = d] = Append(rest, d)
      BY <1>1, <1>2, <1>7, LastIsChanged
    <3>2. [locks EXCEPT ![n] = d] = locks
      BY <1>1
    <3> QED
      BY <3>1, <3>2
  <2>8. StackOK(locks, first, Truth(gil' = t), (count + 1) - own, TRUE)
    BY <2>1, <2>5, <2>6, <2>7 DEF Truth
  <2>9. pyLocks' = [pyLocks EXCEPT ![t] = locks]
    BY <2>1 DEF PyInv
  <2> QED
    BY <1>8, <2>1, <2>6, <2>8, <2>9
<1> QED
  BY <1>11, <1>12, <1>13, <1>14, <1>15, <1>16

\* PyInv is invariant.
LEMMA PyInvariant == ASSUME OuterToo = FALSE PROVE PySpec => []PyInv
<1>1. ASSUME PyInv, [PyNext]_pyVars PROVE PyInv'
  <2>1. CASE UNCHANGED pyVars
    <3>1. UNCHANGED <<pyAborts, gil, gilCounter, inCall, leaked, pyLocks>>
      BY <2>1 DEF pyVars
    <3> QED
      BY <1>1, <3>1 DEF PyInv, CameWith, Truth
  <2>2. CASE PyInitialize
    BY <1>1, <2>2 DEF PyInitialize, PyInv, CameWith
  <2>3. ASSUME NEW t \in AllThreads, CallFromPython(t) \/ ReturnToPython(t) PROVE PyInv'
    <3> PICK count \in Int : count = gilCounter[t]
      BY <1>1 DEF PyInv
    <3>k. PICK kept \in BOOLEAN : kept = leaked[t]
      BY <1>1 DEF PyInv
    <3>p. PICK has \in BOOLEAN, first \in BOOLEAN :
            has = Truth(gil = t) /\ first = Truth(t \in Interpreters /\ inCall[t] = TRUE)
      BY DEF Truth
    <3>q. has \in BOOLEAN /\ first \in BOOLEAN
      BY <3>p
    <3>1. pyLocks[t] = <<>> /\ t \in Interpreters
      BY <1>1, <2>3 DEF PyInv, CallFromPython, ReturnToPython
    <3> PICK c \in Int : c = count - OwnNesting(t)
      BY DEF OwnNesting
    <3>2. StackOK(<<>>, first, has, c, kept)
      BY <1>1, <3>1, <3>k, <3>p DEF PyInv, CameWith
    <3>r. kept \in BOOLEAN
      BY <3>k
    <3>3. first = has /\ (kept = FALSE => c = 0)
      BY <3>2, <3>q, <3>r, NoLocks
    <3>n. PICK now \in BOOLEAN : now = Truth(CallFromPython(t))
      BY DEF Truth
    <3>4. /\ inCall' = [inCall EXCEPT ![t] = now] /\ pyAborts' = FALSE
          /\ pyLocks' = [pyLocks EXCEPT ![t] = <<>>] /\ gilCounter' = [gilCounter EXCEPT ![t] = count]
          /\ leaked' = [leaked EXCEPT ![t] = kept] /\ now = Truth(gil' = t)
          /\ gil' \in {gil, t} \/ (gil = t /\ gil' = Unheld)
          /\ gil' = t => gil \in {t, Unheld}
      <4>1. CASE CallFromPython(t)
        BY <1>1, <3>1, <3>k, <3>n, <4>1 DEF CallFromPython, PyInv, Truth
      <4>2. CASE ReturnToPython(t)
        <5>1. ~CallFromPython(t) /\ inCall[t] = TRUE
          BY <1>1, <4>2 DEF CallFromPython, ReturnToPython, PyInv
        <5>2. gil = t
          BY <3>1, <3>3, <3>p, <5>1 DEF Truth
        <5> QED
          BY <1>1, <3>1, <3>k, <3>n, <4>2, <5>1, <5>2, PyAssumption DEF ReturnToPython, HasGil, PyInv, Truth
      <4> QED
        BY <2>3, <4>1, <4>2
    <3>5. now = Truth(t \in Interpreters /\ now = TRUE) /\ now \in BOOLEAN
      BY <3>1, <3>n DEF Truth
    <3>m. now \in BOOLEAN
      BY <3>n
    <3>6. StackOK(<<>>, now, now, c, kept)
      BY <3>3, <3>m, <3>r, NoLocks
    <3>7. StackOK(<<>>, Truth(t \in Interpreters /\ now = TRUE), Truth(gil' = t), count - OwnNesting(t), kept)
      BY <3>4, <3>5, <3>6
    <3> QED
      BY <1>1, <3>4, <3>7, PyChanges
  <2> QED
    BY <1>1, <2>1, <2>2, <2>3, PyPushes, PyLastSteps DEF PyNext
<1>2. PyInv /\ [PyNext]_pyVars => PyInv'
  BY <1>1
<1>3. PyInit => PyInv
  BY PyStarts
<1> QED
  BY <1>2, <1>3, PTL DEF PySpec

\* Of threads and interpreters that use a TfPyLock only while it is the last on its stack
\* (OuterToo is FALSE): whoever should have the interpreter lock has it, and its nesting
\* is that of the acquired locks, until foreign code keeps it (pyLock.cpp:22-200).
THEOREM PyLocksAreNested == ASSUME OuterToo = FALSE PROVE PySpec => []PyLocksNest
<1>1. ASSUME PyInv PROVE PyLocksNest
  <2>1. ASSUME NEW t \in AllThreads
        PROVE  /\ ~leaked[t] => (HasGil(t) <=> ShouldHold(t))
               /\ ~leaked[t] => gilCounter[t] = OwnNesting(t) + Cardinality(AcquiredDepths(t))
               /\ leaked[t] /\ ShouldHold(t) => HasGil(t)
               /\ pyLocks[t] = <<>> => (HasGil(t) <=> t \in Interpreters /\ inCall[t])
    <3> PICK locks, own : locks = pyLocks[t] /\ own = OwnNesting(t)
      OBVIOUS
    <3>k. PICK kept : kept = leaked[t]
      OBVIOUS
    <3>p. PICK first, has : first = CameWith(t) /\ has = Truth(gil = t)
      OBVIOUS
    <3> PICK count \in Int : count = gilCounter[t]
      BY <1>1 DEF PyInv
    <3> PICK c : c = count - own
      OBVIOUS
    <3>1. StackOK(locks, first, has, c, kept) /\ locks \in Seq(LockObjects) /\ kept \in BOOLEAN
      BY <1>1, <3>k, <3>p DEF PyInv
    <3>2. AcquiredDepths(t) = AcquiredOf(locks)
      BY DEF AcquiredDepths, PyDepths, AcquiredOf
    <3>3. (HasGil(t) <=> has = TRUE) /\ (first = TRUE <=> t \in Interpreters /\ inCall[t])
          /\ has \in BOOLEAN /\ first \in BOOLEAN /\ own \in Int
      <4>1. inCall[t] \in BOOLEAN
        BY <1>1 DEF PyInv
      <4> QED
        BY <4>1, <3>p DEF HasGil, Truth, CameWith, OwnNesting
    <3>4. kept = FALSE => count = own + Cardinality(AcquiredOf(locks))
      <4>1. Cardinality(AcquiredOf(locks)) \in Nat
        BY <3>1, FS_CardinalityType DEF StackOK
      <4>2. kept = FALSE => count - own = Cardinality(AcquiredOf(locks))
        BY <3>1 DEF StackOK
      <4> QED
        BY <3>3, <4>1, <4>2
    <3>5. CASE AcquiredOf(locks) = {}
      <4>1. has = first
        BY <3>1, <3>5, LastAcquired
      <4>2. ShouldHold(t) <=> first = TRUE
        BY <3>2, <3>3, <3>5 DEF ShouldHold
      <4> QED
        BY <3>1, <3>2, <3>3, <3>4, <3>k, <4>1, <4>2
    <3>6. CASE AcquiredOf(locks) # {}
      <4>1. \E m \in AcquiredOf(locks) : \A j \in AcquiredOf(locks) : j <= m
        <5> PICK n \in Nat : n = Len(locks)
          BY <3>1
        <5> DEFINE id == [k \in 1 .. n |-> k]
        <5>1. AcquiredOf(locks) \in SUBSET (1 .. n) /\ id \in [1 .. n -> Nat]
              /\ \A k \in AcquiredOf(locks) : id[k] <= n
          BY DEF AcquiredOf
        <5>2. PICK m \in AcquiredOf(locks) : \A j \in AcquiredOf(locks) : id[j] <= id[m]
          <6> HIDE DEF id
          <6> QED
            BY <3>6, <5>1, Highest
        <5> QED
          BY <5>1, <5>2
      <4> PICK m : m = CHOOSE k \in AcquiredOf(locks) : \A j \in AcquiredOf(locks) : j <= k
        OBVIOUS
      <4>2. m \in AcquiredOf(locks) /\ \A j \in AcquiredOf(locks) : j <= m
        BY <4>1
      <4>3. ~locks[m].allowing => has = TRUE
        BY <3>1, <4>2, LastAcquired
      <4>4. locks[m].allowing /\ has = TRUE => kept = TRUE
        BY <3>1, <4>2, LastAcquired
      <4>5. ShouldHold(t) <=> ~locks[m].allowing
        BY <3>2, <3>6 DEF ShouldHold
      <4>6. locks # <<>>
        BY <4>2 DEF AcquiredOf
      <4> QED
        BY <3>1, <3>2, <3>3, <3>4, <3>k, <4>3, <4>4, <4>5, <4>6
    <3> QED
      BY <3>5, <3>6
  <2>2. ~pyAborts
    BY <1>1 DEF PyInv
  <2> QED
    BY <2>1, <2>2 DEF PyLocksNest
<1>2. PyInv => PyLocksNest
  BY <1>1
<1> QED
  BY <1>2, PyInvariant, PTL

-----------------------------------------------------------------------------
(* TfToken.  Who refers to a representation is a token whose reference no  *)
(* call has still to add or has dropped already, or an assignment that has *)
(* added its own: a counted one's count is 1 + 2 * Referring.  A call      *)
(* copies from what its thread alone may change or nobody may, so the      *)
(* reference it relies on stays; and what a sweep has found to be garbage  *)
(* is nobody's until it is erased, since only lookups, which wait, could   *)
(* refer to it.                                                            *)

TokenTexts == Strings \cup {""}
TokenStates == {NoToken} \cup [at : Addresses, counted : BOOLEAN]
SweepCalls == [op : {"Sweep"}, to : Tokens, str : Strings, immortal : BOOLEAN,
               todo : SUBSET Addresses, erase : SUBSET Addresses]
CopyCalls == [op : {"Copy"}, to : Tokens]
Assigning == {"AssignAdd", "AssignRemove", "AssignStore"}
AssignCalls == [op : Assigning, from : Tokens, to : Tokens]
TokenCalls == {NoCall} \cup SweepCalls \cup CopyCalls \cup AssignCalls

TokenTyped ==
  /\ rep \in [Addresses -> [str : TokenTexts, count : Int]]
  /\ token \in [Tokens -> TokenStates]
  /\ made \in [Tokens -> TokenTexts]
  /\ tokenCall \in [Users -> TokenCalls]
  /\ sweeper \in Users \cup {Anyone}

\* A token whose reference a call has still to add, or has dropped already; and one
\* that has let go of what it points at.
Pend(call, k) == call.op \in {"Copy", "AssignStore"} /\ call.to = k
LetGo(call, k) == call.op = "AssignStore" /\ call.to = k
Pending(k) == \E u \in Users : Pend(tokenCall[u], k)

\* The references to a: of tokens, and of assignments that have added theirs.
Refs(a) == {k \in Tokens : token[k].at = a /\ ~Pending(k)}
Extras(a) == {u \in Users : tokenCall[u].op \in {"AssignRemove", "AssignStore"}
                            /\ token[tokenCall[u].from].at = a}
\* Of these, the ones of k and of a call that is in progress, with what tokens t are.
References(t, call, k, a) ==
  Ones(t[k].at = a /\ ~Pend(call, k))
  + Ones(call.op \in {"AssignRemove", "AssignStore"} /\ t[call.from].at = a)
Referring(a) == Cardinality(Refs(a)) + Cardinality(Extras(a))

RepOK(r) == /\ r.str = "" => r = Unused
            /\ ~IsCounted(r) => r.count = 0

\* A call works on tokens of its thread, and on shared ones; it copies from a token that
\* nobody can take away meanwhile.  Who sweeps keeps others from the set's strings, and
\* what it is about to erase is nobody's.
TokenCallOK(u) ==
  LET call == tokenCall[u] IN
  /\ call.op = "Sweep" =>
       /\ sweeper = u /\ UserOf[call.to] \in {u, Anyone} /\ ~Has(call.to)
       /\ \A a \in Addresses : rep[a].str # call.str
       /\ \A a \in call.erase : IsGarbage(rep[a])
  /\ call.op = "Copy" =>
       /\ UserOf[call.to] = u /\ Has(call.to)
       /\ \E from \in Tokens : /\ from # call.to /\ UserOf[from] \in {u, Anyone}
                               /\ token[from].at = token[call.to].at
  /\ call.op \in Assigning =>
       /\ UserOf[call.to] = u /\ Has(call.to)
       /\ UserOf[call.from] \in {u, Anyone} /\ Has(call.from) /\ call.from # call.to

Holds(k) == Has(k) /\ ~HasLetGo(k) => token[k].at \in Table /\ rep[token[k].at].str = made[k]
Knows(k) == Has(k) /\ ~token[k].counted => token[k].at \in Table /\ ~IsCounted(rep[token[k].at])
Accounts(a) == IsCounted(rep[a]) => rep[a].count = 1 + 2 * Referring(a)

TokenInv ==
  /\ TokenTyped
  /\ \A a \in Addresses : RepOK(rep[a]) /\ Accounts(a)
  /\ \A u \in Users : TokenCallOK(u)
  /\ \A k \in Tokens : Holds(k) /\ Knows(k)
  /\ \A a, b \in Table : rep[a].str = rep[b].str => a = b

-----------------------------------------------------------------------------

\* The fields of a token that has a representation, and of one that has none.
LEMMA TokenStateFields ==
  ASSUME NEW t \in TokenStates
  PROVE  /\ t # NoToken <=> t.at \in Addresses
         /\ t.at = "null" <=> t = NoToken
         /\ t.counted \in BOOLEAN /\ (t.counted => t # NoToken)
         /\ t # NoToken => t \in [at : Addresses, counted : BOOLEAN]
<1>1. NoToken.at = "null" /\ NoToken.counted = FALSE /\ "null" \notin Addresses
  BY TokenAssumption DEF NoToken
<1> QED
  BY <1>1 DEF TokenStates

\* A call's fields by what it does.
LEMMA CallFields ==
  ASSUME NEW c \in TokenCalls
  PROVE  /\ c.op \in {"None", "Sweep", "Copy"} \cup Assigning
         /\ c.op = "None" <=> c = NoCall
         /\ c.op = "Sweep" <=> c \in SweepCalls
         /\ c.op = "Copy" <=> c \in CopyCalls
         /\ c.op \in Assigning <=> c \in AssignCalls
<1>1. CASE c = NoCall
  BY <1>1 DEF NoCall, Assigning, SweepCalls, CopyCalls, AssignCalls
<1>2. CASE c \in SweepCalls
  BY <1>2 DEF NoCall, Assigning, SweepCalls, CopyCalls, AssignCalls
<1>3. CASE c \in CopyCalls
  BY <1>3 DEF NoCall, Assigning, SweepCalls, CopyCalls, AssignCalls
<1>4. CASE c \in AssignCalls
  BY <1>4 DEF NoCall, Assigning, SweepCalls, CopyCalls, AssignCalls
<1> QED
  BY <1>1, <1>2, <1>3, <1>4 DEF TokenCalls

\* A representation is in the set if it has a string.
LEMMA TableIs ==
  ASSUME TokenInv
  PROVE  Table = {a \in Addresses : rep[a].str # ""}
<1>1. \A a \in Addresses : rep[a] = Unused <=> rep[a].str = ""
  <2>1. Unused.str = ""
    BY DEF Unused
  <2> QED
    BY <2>1 DEF TokenInv, RepOK
<1> QED
  BY <1>1 DEF Table

\* Pending, of a token of u, is what u's call says; and of no other token.
LEMMA PendingIs ==
  ASSUME TokenInv, NEW u \in Users, NEW k \in Tokens
  PROVE  /\ UserOf[k] = u => (Pending(k) <=> Pend(tokenCall[u], k))
         /\ UserOf[k] = u => (HasLetGo(k) <=> LetGo(tokenCall[u], k))
         /\ UserOf[k] # u => ~Pend(tokenCall[u], k)
         /\ HasLetGo(k) => Pending(k)
<1>1. \A v \in Users : Pend(tokenCall[v], k) => UserOf[k] = v
  BY DEF TokenInv, TokenCallOK, Pend, Assigning
<1> QED
  BY <1>1 DEF Pending, HasLetGo, Pend, LetGo, InCall

\* References are finitely many, and none are none.
LEMMA ReferringType ==
  ASSUME NEW a
  PROVE  /\ IsFiniteSet(Refs(a)) /\ IsFiniteSet(Extras(a))
         /\ Cardinality(Refs(a)) \in Nat /\ Cardinality(Extras(a)) \in Nat /\ Referring(a) \in Nat
         /\ Referring(a) = 0 => Refs(a) = {} /\ Extras(a) = {}
         /\ Refs(a) = {} /\ Extras(a) = {} => Referring(a) = 0
<1>1. IsFiniteSet(Refs(a)) /\ IsFiniteSet(Extras(a))
  BY TokenAssumption, FS_Subset DEF Refs, Extras
<1>2. /\ Cardinality(Refs(a)) \in Nat /\ Cardinality(Extras(a)) \in Nat
      /\ Cardinality(Refs(a)) = 0 <=> Refs(a) = {}
      /\ Cardinality(Extras(a)) = 0 <=> Extras(a) = {}
  <2> HIDE DEF Refs, Extras
  <2> QED
    BY <1>1, FS_CardinalityType, FS_EmptySet
<1> QED
  BY <1>1, <1>2 DEF Referring

\* What somebody has a reference to is no garbage, and is in the set.
LEMMA ReferredTo ==
  ASSUME TokenInv, NEW a \in Addresses, Refs(a) # {} \/ Extras(a) # {}
  PROVE  a \in Table /\ ~IsGarbage(rep[a])
<1>1. Referring(a) \in Nat /\ Referring(a) # 0
  BY ReferringType
<1>2. ~IsGarbage(rep[a])
  <2>1. SUFFICES ASSUME rep[a].count = 1 PROVE FALSE
    BY DEF IsGarbage
  <2>2. IsCounted(rep[a])
    BY <2>1 DEF IsCounted
  <2> QED
    BY <1>1, <2>1, <2>2 DEF TokenInv, Accounts
<1>3. CASE Refs(a) # {}
  <2>1. PICK k \in Tokens : token[k].at = a /\ ~Pending(k)
    BY <1>3 DEF Refs
  <2>2. Has(k) /\ ~HasLetGo(k)
    BY <2>1, TokenStateFields, PendingIs DEF TokenInv, TokenTyped, Has, HasLetGo, Pending, Pend, InCall
  <2> QED
    BY <1>2, <2>1, <2>2 DEF TokenInv, Holds
<1>4. CASE Extras(a) # {}
  <2>1. PICK u \in Users : tokenCall[u].op \in {"AssignRemove", "AssignStore"} /\ token[tokenCall[u].from].at = a
    BY <1>4 DEF Extras
  <2> PICK k : k = tokenCall[u].from
    OBVIOUS
  <2>2. k \in Tokens /\ Has(k) /\ UserOf[k] \in {u, Anyone} /\ k # tokenCall[u].to
    BY <2>1, CallFields DEF TokenInv, TokenTyped, TokenCallOK, Assigning, AssignCalls
  <2>3. ~HasLetGo(k)
    <3>1. ASSUME NEW v \in Users, LetGo(tokenCall[v], k) PROVE FALSE
      <4>1. UserOf[k] = v
        BY <3>1 DEF TokenInv, TokenCallOK, LetGo, Assigning
      <4>2. v = u
        BY <2>2, <4>1, TokenAssumption
      <4> QED
        BY <2>2, <3>1, <4>2 DEF LetGo
    <3> QED
      BY <3>1 DEF HasLetGo, InCall, LetGo
  <2> QED
    BY <1>2, <2>1, <2>2, <2>3 DEF TokenInv, Holds
<1> QED
  BY <1>3, <1>4

-----------------------------------------------------------------------------

\* A step of u, after which its call is c: it changes tokens of its own and shared ones,
\* of which those that are made already keep what they point at.
StepsTo(u, c, X) ==
  /\ tokenCall' = [tokenCall EXCEPT ![u] = c]
  /\ \A k \in Tokens : Pend(c, k) => UserOf[k] = u
  /\ \A k \in Tokens \ X : /\ token'[k] = token[k] /\ made'[k] = made[k]
                           /\ Pend(c, k) <=> Pend(tokenCall[u], k)
                           /\ LetGo(c, k) <=> LetGo(tokenCall[u], k)
  /\ \A k \in X : /\ UserOf[k] \in {u, Anyone}
                  /\ UserOf[k] = Anyone /\ Has(k) => token'[k].at = token[k].at /\ made'[k] = made[k]

\* While another user sweeps: what is garbage stays as it is, and no shared token is made.
SweepAllows(u) ==
  sweeper \notin {u, Anyone} =>
    /\ sweeper' = sweeper
    /\ \A a \in Addresses : IsGarbage(rep[a]) => rep'[a] = rep[a]
    /\ \A k \in Tokens : UserOf[k] = Anyone /\ ~Has(k) => ~Has(k)'

\* Representations keep their strings, and are not counted again.
RepsStay == \A a \in Addresses : /\ rep'[a].str = rep[a].str
                                 /\ IsCounted(rep'[a]) => IsCounted(rep[a])

\* What tokens are pending after a step: those of others are as before.
LEMMA CallsAfter ==
  ASSUME TokenInv, NEW u \in Users, NEW c, NEW X \in SUBSET Tokens, StepsTo(u, c, X)
  PROVE  /\ tokenCall'[u] = c /\ \A v \in Users \ {u} : tokenCall'[v] = tokenCall[v]
         /\ \A k \in Tokens \ X : (Pending(k)' <=> Pending(k)) /\ (HasLetGo(k)' <=> HasLetGo(k))
         /\ \A k \in Tokens : UserOf[k] = u =>
              (Pending(k)' <=> Pend(c, k)) /\ (HasLetGo(k)' <=> LetGo(c, k))
         /\ \A k \in Tokens : UserOf[k] = Anyone => ~Pending(k) /\ ~Pending(k)'
         /\ \A k \in Tokens : HasLetGo(k)' => Pending(k)'
<1>1. tokenCall'[u] = c /\ \A v \in Users \ {u} : tokenCall'[v] = tokenCall[v]
  BY DEF StepsTo, TokenInv, TokenTyped
<1>2. \A k \in Tokens : \A v \in Users : Pend(tokenCall[v], k) => UserOf[k] = v
  BY DEF TokenInv, TokenCallOK, Pend, Assigning
<1>3. \A k \in Tokens : \A v \in Users : Pend(tokenCall'[v], k) => UserOf[k] = v
  BY <1>1, <1>2 DEF StepsTo
<1>4. \A k \in Tokens : Pending(k)' <=> \E v \in Users : Pend(tokenCall'[v], k)
  BY DEF Pending, Pend
<1>5. \A k \in Tokens : HasLetGo(k)' <=> \E v \in Users : LetGo(tokenCall'[v], k)
  BY DEF HasLetGo, LetGo, InCall
<1>6. \A k \in Tokens : HasLetGo(k) <=> \E v \in Users : LetGo(tokenCall[v], k)
  BY DEF HasLetGo, LetGo, InCall
<1>7. \A d, k : LetGo(d, k) => Pend(d, k)
  BY DEF LetGo, Pend
<1>8. \A k \in Tokens \ X : (Pending(k)' <=> Pending(k)) /\ (HasLetGo(k)' <=> HasLetGo(k))
  BY <1>1, <1>4, <1>5, <1>6 DEF StepsTo, Pending
<1>9. Anyone \notin Users
  BY TokenAssumption
<1> QED
  BY <1>1, <1>2, <1>3, <1>4, <1>5, <1>7, <1>8, <1>9 DEF Pending

\* The references that others have stay theirs.
LEMMA OthersRefer ==
  ASSUME TokenInv, NEW u \in Users, NEW c, NEW X \in SUBSET Tokens, StepsTo(u, c, X), NEW a
  PROVE  Refs(a) \ X = Refs(a)' \ X /\ Extras(a) \ {u} = Extras(a)' \ {u}
<1>1. ASSUME NEW k \in Tokens \ X PROVE k \in Refs(a) <=> k \in Refs(a)'
  <2>1. token'[k] = token[k] /\ (Pending(k)' <=> Pending(k))
    BY CallsAfter DEF StepsTo
  <2> QED
    BY <2>1 DEF Refs
<1>2. ASSUME NEW v \in Users \ {u}
      PROVE  v \in Extras(a) <=> v \in Extras(a)'
  <2>1. tokenCall'[v] = tokenCall[v]
    BY CallsAfter
  <2>2. CASE tokenCall[v].op \in {"AssignRemove", "AssignStore"}
    <3> PICK k : k = tokenCall[v].from
      OBVIOUS
    <3>1. k \in Tokens /\ UserOf[k] \in {v, Anyone} /\ Has(k)
      BY <2>2, CallFields DEF TokenInv, TokenTyped, TokenCallOK, Assigning, AssignCalls
    <3>2. token'[k].at = token[k].at
      BY <3>1, TokenAssumption DEF StepsTo
    <3> QED
      BY <2>1, <2>2, <3>2 DEF Extras
  <2> QED
    BY <2>1, <2>2 DEF Extras
<1> QED
  BY <1>1, <1>2 DEF Refs, Extras

\* What one token and one call make of the number of references.
LEMMA TokenCounts ==
  ASSUME TokenInv, NEW u \in Users, NEW c, NEW k \in Tokens, StepsTo(u, c, {k}), NEW a
  PROVE  Referring(a)' = Referring(a) + Ones(k \in Refs(a)') - Ones(k \in Refs(a))
                                      + Ones(u \in Extras(a)') - Ones(u \in Extras(a))
<1>1. Refs(a) \ {k} = Refs(a)' \ {k} /\ Extras(a) \ {u} = Extras(a)' \ {u}
  BY OthersRefer
<1>2. IsFiniteSet(Refs(a)) /\ IsFiniteSet(Extras(a))
  BY ReferringType
<1> PICK R, S, E, F : R = Refs(a) /\ S = Refs(a)' /\ E = Extras(a) /\ F = Extras(a)'
  OBVIOUS
<1>3. Cardinality(R) \in Nat /\ Cardinality(S) = Cardinality(R) + Ones(k \in S) - Ones(k \in R)
  BY <1>1, <1>2, CardinalityStep
<1>4. Cardinality(E) \in Nat /\ Cardinality(F) = Cardinality(E) + Ones(u \in F) - Ones(u \in E)
  BY <1>1, <1>2, CardinalityStep
<1>5. Referring(a) = Cardinality(R) + Cardinality(E) /\ Referring(a)' = Cardinality(S) + Cardinality(F)
  BY DEF Referring
<1> QED
  BY <1>3, <1>4, <1>5 DEF Ones

\* The calls of others are left as they should be.
LEMMA OthersCallsAreOK ==
  ASSUME TokenInv, NEW u \in Users, NEW c, NEW X \in SUBSET Tokens, StepsTo(u, c, X),
         SweepAllows(u), NEW v \in Users \ {u},
         sweeper = v => \A a \in Addresses : rep'[a].str \in {rep[a].str, ""}
  PROVE  TokenCallOK(v)'
<1>1. tokenCall'[v] = tokenCall[v]
  BY CallsAfter
<1> PICK d \in TokenCalls : d = tokenCall[v]
  BY DEF TokenInv, TokenTyped
<1>2. TokenCallOK(v)
  BY DEF TokenInv
<1>3. \A k \in Tokens : UserOf[k] \in {v, Anyone} /\ Has(k) => token'[k].at = token[k].at /\ Has(k)'
  <2>1. ASSUME NEW k \in Tokens, UserOf[k] \in {v, Anyone}, Has(k) PROVE token'[k].at = token[k].at
    BY <2>1, TokenAssumption DEF StepsTo
  <2>2. \A k \in Tokens : Has(k) => token[k].at \in Addresses
    BY TokenStateFields DEF TokenInv, TokenTyped, Has
  <2>3. NoToken.at \notin Addresses
    BY TokenAssumption DEF NoToken
  <2> QED
    BY <2>1, <2>2, <2>3 DEF Has
<1>4. ASSUME d.op = "Sweep"
      PROVE  /\ sweeper' = v /\ UserOf[d.to] \in {v, Anyone} /\ ~Has(d.to)'
             /\ \A a \in Addresses : rep'[a].str # d.str
             /\ \A a \in d.erase : IsGarbage(rep'[a])
  <2>1. d \in SweepCalls
    BY <1>4, CallFields
  <2>2. d.to \in Tokens /\ d.str \in Strings /\ d.erase \subseteq Addresses
    BY <2>1 DEF SweepCalls
  <2>3. /\ sweeper = v /\ UserOf[d.to] \in {v, Anyone} /\ ~Has(d.to)
        /\ \A a \in Addresses : rep[a].str # d.str
        /\ \A a \in d.erase : IsGarbage(rep[a])
    BY <1>2, <1>4 DEF TokenCallOK
  <2>4. sweeper \notin {u, Anyone}
    BY <2>3, TokenAssumption
  <2>5. d.str # ""
    BY <2>2, TokenAssumption
  <2>6. ~Has(d.to)'
    <3>1. CASE UserOf[d.to] = v
      <4>1. token'[d.to] = token[d.to]
        BY <2>2, <3>1, TokenAssumption DEF StepsTo
      <4> QED
        BY <2>3, <4>1 DEF Has
    <3>2. CASE UserOf[d.to] = Anyone
      BY <2>2, <2>3, <2>4, <3>2 DEF SweepAllows
    <3> QED
      BY <2>3, <3>1, <3>2
  <2>7. \A a \in Addresses : rep'[a].str # d.str
    BY <2>3, <2>5
  <2>8. \A a \in d.erase : IsGarbage(rep'[a])
    BY <2>2, <2>3, <2>4 DEF SweepAllows
  <2> QED
    BY <2>3, <2>4, <2>6, <2>7, <2>8 DEF SweepAllows
<1>5. ASSUME d.op = "Copy"
      PROVE  /\ UserOf[d.to] = v /\ Has(d.to)'
             /\ \E from \in Tokens : /\ from # d.to /\ UserOf[from] \in {v, Anyone}
                                     /\ token'[from].at = token'[d.to].at
  <2>1. d.to \in Tokens
    BY <1>5, CallFields DEF CopyCalls
  <2>2. UserOf[d.to] = v /\ Has(d.to)
    BY <1>2, <1>5 DEF TokenCallOK
  <2>3. PICK from \in Tokens : /\ from # d.to /\ UserOf[from] \in {v, Anyone}
                               /\ token[from].at = token[d.to].at
    BY <1>2, <1>5 DEF TokenCallOK
  <2>4. Has(from)
    BY <2>1, <2>2, <2>3, TokenStateFields DEF TokenInv, TokenTyped, Has
  <2> QED
    BY <1>3, <2>1, <2>2, <2>3, <2>4
<1>6. ASSUME d.op \in Assigning
      PROVE  /\ UserOf[d.to] = v /\ Has(d.to)'
             /\ UserOf[d.from] \in {v, Anyone} /\ Has(d.from)' /\ d.from # d.to
  <2>1. d.to \in Tokens /\ d.from \in Tokens
    BY <1>6, CallFields DEF AssignCalls
  <2>2. /\ UserOf[d.to] = v /\ Has(d.to)
        /\ UserOf[d.from] \in {v, Anyone} /\ Has(d.from) /\ d.from # d.to
    BY <1>2, <1>6 DEF TokenCallOK
  <2> QED
    BY <1>3, <2>1, <2>2
<1>7. tokenCall'[v] = d
  BY <1>1
<1> QED
  BY <1>4, <1>5, <1>6, <1>7, Zenon DEF TokenCallOK

\* A step that leaves the strings where they are.
LEMMA RepsAreKept ==
  ASSUME TokenInv, NEW u \in Users, NEW c \in TokenCalls, NEW X \in SUBSET Tokens, StepsTo(u, c, X),
         SweepAllows(u), RepsStay, sweeper' \in Users \cup {Anyone},
         rep' \in [Addresses -> [str : TokenTexts, count : Int]],
         token' \in [Tokens -> TokenStates], made' \in [Tokens -> TokenTexts],
         \A a \in Addresses : RepOK(rep'[a]) /\ Accounts(a)',
         TokenCallOK(u)', \A k \in X : Holds(k)' /\ Knows(k)'
  PROVE  TokenInv'
<1>1. TokenTyped'
  <2>1. tokenCall' \in [Users -> TokenCalls]
    BY DEF StepsTo, TokenInv, TokenTyped
  <2> QED
    BY <2>1 DEF TokenTyped
<1>2. \A v \in Users : TokenCallOK(v)'
  <2>1. ASSUME NEW v \in Users \ {u} PROVE TokenCallOK(v)'
    BY OthersCallsAreOK DEF RepsStay
  <2> QED
    BY <2>1
<1>3. Table' = Table
  <2>1. Unused.str = ""
    BY DEF Unused
  <2>2. \A a \in Addresses : rep'[a] = Unused <=> rep'[a].str = ""
    BY <2>1 DEF RepOK
  <2> QED
    BY <2>2, TableIs DEF Table, RepsStay
<1>4. \A k \in Tokens : Holds(k)' /\ Knows(k)'
  <2>1. ASSUME NEW k \in Tokens \ X PROVE Holds(k)' /\ Knows(k)'
    <3>1. token'[k] = token[k] /\ made'[k] = made[k] /\ (HasLetGo(k)' <=> HasLetGo(k))
      BY CallsAfter DEF StepsTo
    <3>2. Holds(k) /\ Knows(k)
      BY DEF TokenInv
    <3>3. Table \subseteq Addresses
      BY DEF Table
    <3>4. Holds(k)'
      BY <1>3, <3>1, <3>2, <3>3 DEF Holds, Has, RepsStay
    <3>5. Knows(k)'
      BY <1>3, <3>1, <3>2, <3>3 DEF Knows, Has, RepsStay
    <3> QED
      BY <3>4, <3>5
  <2> QED
    BY <2>1
<1>5. \A a, b \in Table' : rep'[a].str = rep'[b].str => a = b
  <2>1. Table \subseteq Addresses
    BY DEF Table
  <2> QED
    BY <1>3, <2>1 DEF TokenInv, RepsStay
<1> QED
  BY <1>1, <1>2, <1>4, <1>5 DEF TokenInv

-----------------------------------------------------------------------------

\* The count of one representation changes: by a reference, or because it is immortal.
LEMMA CountChanges ==
  ASSUME TokenInv, NEW a \in Addresses, NEW n \in Int,
         n = 0 \/ (IsCounted(rep[a]) /\ n \in {rep[a].count + 2, rep[a].count - 2}),
         rep' = [rep EXCEPT ![a].count = n]
  PROVE  /\ RepsStay
         /\ rep' \in [Addresses -> [str : TokenTexts, count : Int]]
         /\ \A b \in Addresses : RepOK(rep'[b]) /\ (b # a => rep'[b] = rep[b])
         /\ rep'[a].count = n /\ (IsCounted(rep'[a]) <=> n # 0)
<1>1. rep \in [Addresses -> [str : TokenTexts, count : Int]] /\ rep[a] \in [str : TokenTexts, count : Int]
  BY DEF TokenInv, TokenTyped
<1>2. PICK r \in [str : TokenTexts, count : Int] : r = [rep[a] EXCEPT !.count = n]
  BY <1>1
<1>3. r.str = rep[a].str /\ r.count = n
  BY <1>1, <1>2
<1>4. rep' = [rep EXCEPT ![a] = r]
  BY <1>2
<1>5. /\ rep' \in [Addresses -> [str : TokenTexts, count : Int]]
      /\ rep'[a] = r /\ \A b \in Addresses : b # a => rep'[b] = rep[b]
  BY <1>1, <1>4
<1>6. 0 % 2 # 1 /\ \A i \in Int : i % 2 = 1 => (i + 2) % 2 = 1 /\ (i - 2) % 2 = 1
  OBVIOUS
<1>7. IsCounted(r) <=> n # 0
  BY <1>1, <1>3, <1>6 DEF IsCounted
<1>8. IsCounted(r) => IsCounted(rep[a])
  BY <1>7
<1>9. RepOK(r)
  <2>1. ~IsCounted(r) => r.count = 0
    BY <1>3, <1>7
  <2>2. ASSUME r.str = "" PROVE r = Unused
    <3>1. rep[a] = Unused
      BY <1>3, <2>2 DEF TokenInv, RepOK
    <3>2. ~IsCounted(rep[a])
      <4>1. rep[a].count = 0
        <5>1. Unused.count = 0
          BY DEF Unused
        <5> QED
          BY <3>1, <5>1
      <4> QED
        BY <1>6, <4>1 DEF IsCounted
    <3>3. n = 0
      BY <3>2
    <3>4. r = [str |-> r.str, count |-> r.count]
      OBVIOUS
    <3>5. r.str = "" /\ r.count = 0
      BY <1>3, <2>2, <3>3
    <3> QED
      BY <3>4, <3>5, Zenon DEF Unused
  <2> QED
    BY <2>1, <2>2 DEF RepOK
<1>10. \A b \in Addresses : RepOK(rep'[b])
  BY <1>5, <1>9 DEF TokenInv
<1>11. RepsStay
  BY <1>3, <1>5, <1>8 DEF RepsStay
<1> QED
  BY <1>3, <1>5, <1>7, <1>10, <1>11

\* A reference is added or removed.
LEMMA ReferenceStep ==
  ASSUME TokenInv, NEW a \in Addresses, NEW i \in {2, -2}, Add(a, i)
  PROVE  /\ RepsStay
         /\ rep' \in [Addresses -> [str : TokenTexts, count : Int]]
         /\ \A b \in Addresses : /\ RepOK(rep'[b]) /\ (b # a => rep'[b] = rep[b])
                                 /\ IsCounted(rep'[b]) <=> IsCounted(rep[b])
                                 /\ IsCounted(rep[b]) => rep'[b].count = rep[b].count + i * Ones(b = a)
<1>0. rep \in [Addresses -> [str : TokenTexts, count : Int]] /\ rep[a].count \in Int
  BY DEF TokenInv, TokenTyped
<1>1. PICK n \in Int : n = IF IsCounted(rep[a]) THEN rep[a].count + i ELSE 0
  BY <1>0
<1>2. rep' = [rep EXCEPT ![a].count = n]
  BY <1>1 DEF Add
<1>3. n = 0 \/ (IsCounted(rep[a]) /\ n \in {rep[a].count + 2, rep[a].count - 2})
  BY <1>0, <1>1
<1>4. IsCounted(rep[a]) => n # 0
  BY <1>0, <1>1 DEF IsCounted
<1>5. /\ RepsStay /\ rep' \in [Addresses -> [str : TokenTexts, count : Int]]
      /\ \A b \in Addresses : RepOK(rep'[b]) /\ (b # a => rep'[b] = rep[b])
      /\ rep'[a].count = n /\ (IsCounted(rep'[a]) <=> n # 0)
  BY <1>2, <1>3, CountChanges
<1>6. \A b \in Addresses : rep[b].count \in Int
  BY DEF TokenInv, TokenTyped
<1>7. ASSUME NEW b \in Addresses
      PROVE  /\ IsCounted(rep'[b]) <=> IsCounted(rep[b])
             /\ IsCounted(rep[b]) => rep'[b].count = rep[b].count + i * Ones(b = a)
  <2>1. CASE b = a
    BY <1>1, <1>4, <1>5, <1>6, <2>1 DEF Ones
  <2>2. CASE b # a
    BY <1>5, <1>6, <2>2 DEF Ones
  <2> QED
    BY <2>1, <2>2
<1> QED
  BY <1>5, <1>7

\* What u refers to is in the set, and no garbage.
LEMMA OwnIsReferred ==
  ASSUME TokenInv, NEW u \in Users, NEW k \in Tokens, UserOf[k] \in {u, Anyone}, Has(k),
         ~Pend(tokenCall[u], k)
  PROVE  /\ token[k].at \in Addresses /\ token[k].at \in Table
         /\ ~IsGarbage(rep[token[k].at]) /\ rep[token[k].at].str = made[k]
<1>1. token[k].at \in Addresses
  BY TokenStateFields DEF TokenInv, TokenTyped, Has
<1>2. ~Pending(k) /\ ~HasLetGo(k)
  <2>1. ~Pending(k)
    <3>1. CASE UserOf[k] = u
      BY <3>1, PendingIs
    <3>2. CASE UserOf[k] = Anyone
      BY <3>2, PendingIs, TokenAssumption DEF Pending
    <3> QED
      BY <3>1, <3>2
  <2> QED
    BY <2>1, PendingIs
<1>3. k \in Refs(token[k].at)
  BY <1>2 DEF Refs
<1>4. Holds(k)
  BY DEF TokenInv
<1> QED
  BY <1>1, <1>2, <1>3, <1>4, ReferredTo DEF Holds

\* _RemoveRef of a token of u.
LEMMA ReferenceGoes ==
  ASSUME TokenInv, NEW u \in Users, NEW k \in Tokens, UserOf[k] = u, ~Pend(tokenCall[u], k), RemoveRef(k)
  PROVE  /\ RepsStay
         /\ rep' \in [Addresses -> [str : TokenTexts, count : Int]]
         /\ \A b \in Addresses : /\ RepOK(rep'[b]) /\ (IsGarbage(rep[b]) => rep'[b] = rep[b])
                                 /\ IsCounted(rep'[b]) <=> IsCounted(rep[b])
                                 /\ IsCounted(rep[b]) =>
                                      rep'[b].count = rep[b].count - 2 * Ones(token[k].at = b)
<1>0. \A b \in Addresses : rep[b].count \in Int
  BY DEF TokenInv, TokenTyped
<1>1. CASE token[k].counted
  <2>1. Has(k)
    BY <1>1, TokenStateFields DEF TokenInv, TokenTyped, Has
  <2> PICK a \in Addresses : a = token[k].at /\ ~IsGarbage(rep[a])
    BY <2>1, OwnIsReferred
  <2>2. Add(a, -2)
    BY <1>1 DEF RemoveRef
  <2>3. /\ RepsStay
        /\ rep' \in [Addresses -> [str : TokenTexts, count : Int]]
        /\ \A b \in Addresses : /\ RepOK(rep'[b]) /\ (b # a => rep'[b] = rep[b])
                                /\ IsCounted(rep'[b]) <=> IsCounted(rep[b])
                                /\ IsCounted(rep[b]) => rep'[b].count = rep[b].count + (-2) * Ones(b = a)
    BY <2>2, ReferenceStep
  <2>4. \A b \in Addresses : rep[b].count + (-2) * Ones(b = a) = rep[b].count - 2 * Ones(a = b)
    BY <1>0 DEF Ones
  <2> QED
    BY <2>3, <2>4
<1>2. CASE ~token[k].counted
  <2>1. rep' = rep
    BY <1>2 DEF RemoveRef
  <2>2. Has(k) => ~IsCounted(rep[token[k].at])
    BY <1>2 DEF TokenInv, Knows
  <2>3. ~Has(k) => token[k].at \notin Addresses
    BY TokenStateFields DEF TokenInv, TokenTyped, Has
  <2>4. \A b \in Addresses : IsCounted(rep[b]) => token[k].at # b
    BY <2>2, <2>3
  <2> QED
    BY <1>0, <2>1, <2>4 DEF TokenInv, TokenTyped, RepsStay, Ones
<1> QED
  BY <1>1, <1>2

-----------------------------------------------------------------------------

\* What u's call and a token it may change say of the references.
LEMMA RefersNow ==
  ASSUME TokenInv, NEW u \in Users, NEW k \in Tokens, UserOf[k] \in {u, Anyone}, NEW a
  PROVE  /\ k \in Refs(a) <=> token[k].at = a /\ ~Pend(tokenCall[u], k)
         /\ u \in Extras(a) <=> /\ tokenCall[u].op \in {"AssignRemove", "AssignStore"}
                                /\ token[tokenCall[u].from].at = a
<1>1. CASE UserOf[k] = u
  BY <1>1, PendingIs DEF Refs, Extras
<1>2. CASE UserOf[k] = Anyone
  BY <1>2, PendingIs, TokenAssumption DEF Refs, Extras, Pending
<1> QED
  BY <1>1, <1>2

\* The references of one token and of a call after its step.
LEMMA RefersThen ==
  ASSUME TokenInv, NEW u \in Users, NEW c, NEW X \in SUBSET Tokens, StepsTo(u, c, X),
         NEW k \in Tokens, UserOf[k] \in {u, Anyone}, NEW a
  PROVE  /\ k \in Refs(a)' <=> token'[k].at = a /\ ~Pend(c, k)
         /\ u \in Extras(a)' <=> /\ c.op \in {"AssignRemove", "AssignStore"}
                                 /\ token'[c.from].at = a
<1>1. tokenCall'[u] = c
  BY CallsAfter
<1>2. Pending(k)' <=> Pend(c, k)
  <2>1. CASE UserOf[k] = u
    BY <2>1, CallsAfter
  <2>2. CASE UserOf[k] = Anyone
    BY <2>2, CallsAfter, TokenAssumption DEF StepsTo
  <2> QED
    BY <2>1, <2>2
<1> QED
  BY <1>1, <1>2 DEF Refs, Extras

\* The number of references changes by those of the token and of the call.
LEMMA ReferringChanges ==
  ASSUME TokenInv, NEW u \in Users, NEW c, NEW k \in Tokens, StepsTo(u, c, {k}),
         UserOf[k] \in {u, Anyone}, NEW a
  PROVE  /\ Referring(a) \in Nat
         /\ References(token', c, k, a) \in Int /\ References(token, tokenCall[u], k, a) \in Int
         /\ Referring(a)' = Referring(a)
              + References(token', c, k, a) - References(token, tokenCall[u], k, a)
<1>1. Referring(a)' = Referring(a) + Ones(k \in Refs(a)') - Ones(k \in Refs(a))
                                   + Ones(u \in Extras(a)') - Ones(u \in Extras(a))
  BY TokenCounts
<1>2. Referring(a) \in Nat
  BY ReferringType
<1>4. References(token, tokenCall[u], k, a) = Ones(k \in Refs(a)) + Ones(u \in Extras(a))
  BY RefersNow DEF Ones, References
<1>5. References(token', c, k, a) = Ones(k \in Refs(a)') + Ones(u \in Extras(a)')
  BY RefersThen DEF Ones, References
<1>7. \A b : Ones(b) \in Int
  BY DEF Ones
<1> QED
  BY <1>1, <1>2, <1>4, <1>5, <1>7

\* A step with one token, that adds as many references as it counts.
LEMMA CountsAreKept ==
  ASSUME TokenInv, NEW u \in Users, NEW c, NEW k \in Tokens, StepsTo(u, c, {k}),
         UserOf[k] \in {u, Anyone},
         \A a \in Addresses : IsCounted(rep'[a]) =>
           /\ IsCounted(rep[a])
           /\ rep'[a].count = rep[a].count
                 + 2 * (References(token', c, k, a) - References(token, tokenCall[u], k, a))
  PROVE  \A a \in Addresses : Accounts(a)'
<1> SUFFICES ASSUME NEW a \in Addresses, IsCounted(rep'[a])
             PROVE  rep'[a].count = 1 + 2 * Referring(a)'
  BY DEF Accounts
<1>1. rep[a].count = 1 + 2 * Referring(a)
  BY DEF TokenInv, Accounts
<1>2. rep'[a].count = rep[a].count
        + 2 * (References(token', c, k, a) - References(token, tokenCall[u], k, a))
  OBVIOUS
<1> QED
  BY <1>1, <1>2, ReferringChanges

-----------------------------------------------------------------------------

\* Who is in no call leaves no token pending.
LEMMA NoCallPends ==
  /\ NoCall \in TokenCalls /\ NoCall.op = "None"
  /\ \A k : ~Pend(NoCall, k) /\ ~LetGo(NoCall, k)
<1>1. NoCall.op = "None"
  BY DEF NoCall
<1> QED
  BY <1>1 DEF TokenCalls, Pend, LetGo

\* A token without a representation points at no address.
LEMMA NoTokenIsNowhere ==
  /\ NoToken \in TokenStates /\ NoToken.at \notin Addresses /\ NoToken.counted = FALSE
<1>1. NoToken.at = "null" /\ NoToken.counted = FALSE
  BY DEF NoToken
<1> QED
  BY <1>1, TokenAssumption DEF TokenStates

\* A token and what it was made with after it has been pointed somewhere.
LEMMA TokenPoints ==
  ASSUME TokenInv, NEW k \in Tokens, NEW to \in TokenStates, NEW s \in TokenTexts,
         token' = [token EXCEPT ![k] = to], made' = [made EXCEPT ![k] = s]
  PROVE  /\ token' \in [Tokens -> TokenStates] /\ made' \in [Tokens -> TokenTexts]
         /\ token'[k] = to /\ made'[k] = s
         /\ \A j \in Tokens \ {k} : token'[j] = token[j] /\ made'[j] = made[j]
  BY DEF TokenInv, TokenTyped

\* GetFound and Find: an empty token gets a representation that is there.
LEMMA TokenIsFound ==
  ASSUME TokenInv, NEW u \in Users, NEW k \in Tokens, NEW s \in Strings, NEW a \in FindRep(s),
         MayMake(u, k), sweeper = Anyone, UNCHANGED <<sweeper, tokenCall>>,
         NEW b \in BOOLEAN, Points(k, a, b, s),
         NEW n \in Int, n = 0 \/ (IsCounted(rep[a]) /\ n = rep[a].count + 2),
         rep' = [rep EXCEPT ![a].count = n], n # 0 <=> b = TRUE
  PROVE  TokenInv'
<1>1. /\ tokenCall[u] = NoCall /\ token[k] = NoToken /\ UserOf[k] \in {u, Anyone}
      /\ a \in Addresses /\ a \in Table /\ rep[a].str = s
  BY DEF MayMake, IsFree, FindRep, Table
<1>2. PICK to \in TokenStates : to = [at |-> a, counted |-> b]
  BY <1>1 DEF TokenStates
<1>3. to.at = a /\ to.counted = b
  BY <1>2
<1>4. /\ token' \in [Tokens -> TokenStates] /\ made' \in [Tokens -> TokenTexts]
      /\ token'[k] = to /\ made'[k] = s
      /\ \A j \in Tokens \ {k} : token'[j] = token[j] /\ made'[j] = made[j]
  <2>1. token' = [token EXCEPT ![k] = to] /\ made' = [made EXCEPT ![k] = s] /\ s \in TokenTexts
    BY <1>2 DEF Points, TokenTexts
  <2> QED
    BY <2>1, TokenPoints
<1>5. /\ RepsStay
      /\ rep' \in [Addresses -> [str : TokenTexts, count : Int]]
      /\ \A d \in Addresses : RepOK(rep'[d]) /\ (d # a => rep'[d] = rep[d])
      /\ rep'[a].count = n /\ (IsCounted(rep'[a]) <=> n # 0)
  <2>1. n = 0 \/ (IsCounted(rep[a]) /\ n \in {rep[a].count + 2, rep[a].count - 2})
    OBVIOUS
  <2> QED
    BY <1>1, <2>1, CountChanges
<1>6. StepsTo(u, NoCall, {k})
  <2>1. tokenCall' = [tokenCall EXCEPT ![u] = NoCall]
    BY <1>1 DEF TokenInv, TokenTyped
  <2>2. \A j : ~Pend(tokenCall[u], j) /\ ~LetGo(tokenCall[u], j)
    BY <1>1, NoCallPends
  <2> QED
    BY <1>1, <1>4, <2>1, <2>2, NoCallPends DEF StepsTo, Has
<1>7. SweepAllows(u) /\ sweeper' \in Users \cup {Anyone}
  BY DEF SweepAllows
<1>8. \A d \in Addresses : Accounts(d)'
  <2>1. token[k].at \notin Addresses
    BY <1>1, NoTokenIsNowhere
  <2>2. ASSUME NEW d \in Addresses, IsCounted(rep'[d])
        PROVE  /\ IsCounted(rep[d])
               /\ rep'[d].count = rep[d].count
                 + 2 * (References(token', NoCall, k, d) - References(token, tokenCall[u], k, d))
    <3>1. IsCounted(rep[d])
      BY <1>5, <2>2 DEF RepsStay
    <3>2. rep[d].count \in Int
      BY DEF TokenInv, TokenTyped
    <3>3. rep'[d].count = rep[d].count + 2 * Ones(d = a)
      BY <1>1, <1>5, <2>2, <3>2 DEF Ones
    <3>4. References(token', NoCall, k, d) = Ones(d = a) /\ References(token, tokenCall[u], k, d) = 0
      BY <1>1, <1>3, <1>4, <2>1, NoCallPends DEF Ones, References
    <3> QED
      BY <3>1, <3>2, <3>3, <3>4 DEF Ones
  <2> QED
    BY <1>1, <1>6, <2>2, CountsAreKept
<1>9. TokenCallOK(u)'
  <2>1. tokenCall'[u] = NoCall
    BY <1>1
  <2> QED
    BY <2>1, NoCallPends DEF TokenCallOK, Assigning
<1>10. Holds(k)' /\ Knows(k)'
  <2>1. rep'[a].str = s /\ a \in Table'
    <3>1. rep'[a].str = s
      BY <1>1, <1>5 DEF RepsStay
    <3>2. Unused.str = "" /\ s # ""
      BY TokenAssumption DEF Unused
    <3> QED
      BY <1>1, <3>1, <3>2 DEF Table
  <2>2. Holds(k)'
    BY <1>3, <1>4, <2>1 DEF Holds
  <2>3. ~to.counted => ~IsCounted(rep'[a])
    BY <1>3, <1>5
  <2> QED
    BY <1>3, <1>4, <2>1, <2>2, <2>3 DEF Knows
<1> QED
  BY <1>4, <1>5, <1>6, <1>7, <1>8, <1>9, <1>10, NoCallPends, RepsAreKept

\* A step that keeps the strings keeps the set.
LEMMA TableStays ==
  ASSUME TokenInv, RepsStay, \A a \in Addresses : RepOK(rep'[a])
  PROVE  Table' = Table /\ Table \subseteq Addresses
<1>1. Unused.str = ""
  BY DEF Unused
<1>2. \A a \in Addresses : rep'[a] = Unused <=> rep'[a].str = ""
  BY <1>1 DEF RepOK
<1> QED
  BY <1>2, TableIs DEF Table, RepsStay

\* The steps of calls that have begun, and of others that change one token.
LEMMA OneTokenSteps ==
  ASSUME TokenInv, NEW u \in Users, NEW c \in TokenCalls, NEW k \in Tokens,
         UserOf[k] = u \/ (UserOf[k] = Anyone /\ Has(k)), StepsTo(u, c, {k}), UNCHANGED sweeper,
         token' \in [Tokens -> TokenStates], made' \in [Tokens -> TokenTexts],
         rep' \in [Addresses -> [str : TokenTexts, count : Int]],
         RepsStay, \A a \in Addresses : RepOK(rep'[a]) /\ (IsGarbage(rep[a]) => rep'[a] = rep[a]),
         \A a \in Addresses : IsCounted(rep[a]) =>
           rep'[a].count = rep[a].count
                 + 2 * (References(token', c, k, a) - References(token, tokenCall[u], k, a)),
         TokenCallOK(u)',
         token'[k] # NoToken => LetGo(c, k) \/ rep[token'[k].at].str = made'[k],
         token'[k] # NoToken => token'[k].at \in Table
                                /\ (token'[k].counted \/ ~IsCounted(rep[token'[k].at]))
  PROVE  TokenInv'
<1>1. UserOf[k] \in {u, Anyone}
  OBVIOUS
<1>2. Table' = Table /\ Table \subseteq Addresses
  BY TableStays
<1>3. SweepAllows(u) /\ sweeper' \in Users \cup {Anyone}
  <2>1. \A j \in Tokens : UserOf[j] = Anyone /\ ~Has(j) => ~Has(j)'
    <3>1. ASSUME NEW j \in Tokens \ {k} PROVE token'[j] = token[j]
      BY DEF StepsTo
    <3>2. UserOf[k] = Anyone => Has(k)
      BY TokenAssumption
    <3> QED
      BY <3>1, <3>2 DEF Has
  <2>2. sweeper \in Users \cup {Anyone}
    BY DEF TokenInv, TokenTyped
  <2> QED
    BY <2>1, <2>2 DEF SweepAllows
<1>4. \A a \in Addresses : Accounts(a)'
  <2>1. ASSUME NEW a \in Addresses, IsCounted(rep'[a])
        PROVE  /\ IsCounted(rep[a])
               /\ rep'[a].count = rep[a].count
                 + 2 * (References(token', c, k, a) - References(token, tokenCall[u], k, a))
    BY <2>1, Zenon DEF RepsStay
  <2> QED
    BY <1>1, <2>1, CountsAreKept
<1>5. HasLetGo(k)' <=> LetGo(c, k)
  <2>1. CASE UserOf[k] = u
    BY <2>1, CallsAfter
  <2>2. CASE UserOf[k] = Anyone
    <3>1. ~Pending(k)' /\ (HasLetGo(k)' => Pending(k)')
      BY <2>2, CallsAfter
    <3>2. ~Pend(c, k)
      BY <2>2, TokenAssumption DEF StepsTo
    <3> QED
      BY <3>1, <3>2 DEF LetGo, Pend
  <2> QED
    BY <1>1, <2>1, <2>2
<1>6. Holds(k)'
  BY <1>2, <1>5 DEF Holds, Has, RepsStay
<1>7. Knows(k)'
  BY <1>2 DEF Knows, Has, RepsStay
<1> QED
  BY <1>3, <1>4, <1>6, <1>7, RepsAreKept

\* What a token is after _AddRef, or IsImmortal, has looked at the representation.
LEMMA TokenBelieves ==
  ASSUME TokenInv, NEW k \in Tokens, Has(k), NEW r,
         token' = [token EXCEPT ![k] = Belief(k, r)], UNCHANGED made
  PROVE  /\ token' \in [Tokens -> TokenStates] /\ made' \in [Tokens -> TokenTexts]
         /\ token'[k].at = token[k].at /\ token'[k].counted = IsCounted(r) /\ token'[k] # NoToken
         /\ \A j \in Tokens \ {k} : token'[j] = token[j]
<1>0. token \in [Tokens -> TokenStates] /\ made \in [Tokens -> TokenTexts]
  BY DEF TokenInv, TokenTyped
<1> PICK b \in BOOLEAN : b = IsCounted(r)
  BY DEF IsCounted
<1> PICK t \in [at : Addresses, counted : BOOLEAN] : t = token[k]
  BY <1>0, TokenStateFields DEF Has
<1>1. [t EXCEPT !.counted = b] \in [at : Addresses, counted : BOOLEAN]
  OBVIOUS
<1> PICK n \in [at : Addresses, counted : BOOLEAN] : n = [t EXCEPT !.counted = b]
  BY <1>1
<1>2. n.at = t.at /\ n.counted = b
  OBVIOUS
<1>3. token' = [token EXCEPT ![k] = n]
  BY DEF Belief
<1>4. n \in TokenStates /\ n # NoToken
  BY NoTokenIsNowhere DEF TokenStates
<1> QED
  BY <1>0, <1>2, <1>3, <1>4

-----------------------------------------------------------------------------

\* Tokens stay as they are.
LEMMA TokensStay ==
  ASSUME TokenInv, UNCHANGED <<rep, token, made>>
  PROVE  /\ token' \in [Tokens -> TokenStates] /\ made' \in [Tokens -> TokenTexts]
         /\ rep' \in [Addresses -> [str : TokenTexts, count : Int]]
         /\ RepsStay /\ \A a \in Addresses : RepOK(rep'[a]) /\ rep'[a] = rep[a]
         /\ \A a \in Addresses : rep[a].count \in Int
  BY DEF TokenInv, TokenTyped, RepsStay

\* CopyBegins: the new token points at what the old one does, uncounted as yet.
LEMMA CopyIsBegun ==
  ASSUME TokenInv, NEW u \in Users, NEW from \in Tokens, NEW to \in Tokens, CopyBegins(u, from, to)
  PROVE  TokenInv'
<1>1. /\ tokenCall[u] = NoCall /\ UserOf[from] \in {u, Anyone} /\ Has(from) /\ UserOf[to] = u
      /\ token[to] = NoToken /\ from # to
  BY DEF CopyBegins, IsFree, Readable, Has
<1>2. PICK c \in TokenCalls : /\ tokenCall' = [tokenCall EXCEPT ![u] = c]
                              /\ c = IF token[from].counted THEN [op |-> "Copy", to |-> to] ELSE NoCall
  <2>1. [op |-> "Copy", to |-> to] \in TokenCalls /\ NoCall \in TokenCalls
    BY DEF TokenCalls, CopyCalls
  <2>2. tokenCall = [tokenCall EXCEPT ![u] = NoCall]
    BY <1>1 DEF TokenInv, TokenTyped
  <2> QED
    BY <2>1, <2>2 DEF CopyBegins, Enters
<1>3. /\ token[from].counted => c.op = "Copy" /\ c.to = to
      /\ ~token[from].counted => c.op = "None"
      /\ c.op \in {"Copy", "None"}
  BY <1>2, NoCallPends
<1>4. /\ UNCHANGED <<rep, sweepIn, sweeper>>
      /\ token' \in [Tokens -> TokenStates] /\ made' \in [Tokens -> TokenTexts]
      /\ token'[to] = token[from] /\ made'[to] = made[from]
      /\ \A j \in Tokens \ {to} : token'[j] = token[j] /\ made'[j] = made[j]
  BY DEF CopyBegins, TokenInv, TokenTyped
<1>5. /\ rep' \in [Addresses -> [str : TokenTexts, count : Int]]
      /\ RepsStay /\ \A a \in Addresses : RepOK(rep'[a]) /\ rep'[a] = rep[a] /\ rep[a].count \in Int
  BY <1>4 DEF TokenInv, TokenTyped, RepsStay
<1>6. \A j : ~Pend(tokenCall[u], j) /\ ~LetGo(tokenCall[u], j)
  BY <1>1, NoCallPends
<1>7. StepsTo(u, c, {to})
  <2>1. \A j \in Tokens : Pend(c, j) => j = to
    BY <1>3 DEF Pend
  <2>2. \A j : ~LetGo(c, j)
    BY <1>3 DEF LetGo
  <2>3. Anyone # u
    BY TokenAssumption
  <2> QED
    BY <1>1, <1>2, <1>4, <1>6, <2>1, <2>2, <2>3 DEF StepsTo
<1>8. /\ token[from].at \in Addresses /\ token[from].at \in Table
      /\ rep[token[from].at].str = made[from]
      /\ token[from].counted \/ ~IsCounted(rep[token[from].at])
  <2>1. Knows(from)
    BY DEF TokenInv
  <2> QED
    BY <1>1, <1>6, <2>1, OwnIsReferred DEF Knows
<1>9. ASSUME NEW a \in Addresses, IsCounted(rep[a])
      PROVE  rep'[a].count = rep[a].count
               + 2 * (References(token', c, to, a) - References(token, tokenCall[u], to, a))
  <2>1. References(token, tokenCall[u], to, a) = 0
    BY <1>1, <1>6, NoTokenIsNowhere, NoCallPends DEF References, Ones
  <2>2. ~(token'[to].at = a /\ ~Pend(c, to))
    <3>1. CASE token[from].counted
      BY <1>3, <3>1 DEF Pend
    <3>2. CASE ~token[from].counted
      BY <1>4, <1>8, <1>9, <3>2
    <3> QED
      BY <3>1, <3>2
  <2>3. References(token', c, to, a) = 0
    BY <1>3, <2>2 DEF References, Ones
  <2> QED
    BY <1>5, <2>1, <2>3
<1>10. TokenCallOK(u)'
  <2>1. tokenCall'[u] = c
    BY <1>2 DEF TokenInv, TokenTyped
  <2>2. CASE c.op = "Copy"
    <3>1. c.to = to
      BY <1>3, <2>2, NoCallPends
    <3>2. Has(to)'
      BY <1>1, <1>4 DEF Has
    <3>3. token'[from].at = token'[to].at
      BY <1>1, <1>4
    <3> QED
      BY <1>1, <2>1, <2>2, <3>1, <3>2, <3>3 DEF TokenCallOK, Assigning
  <2>3. CASE c.op = "None"
    BY <2>1, <2>3 DEF TokenCallOK, Assigning
  <2> QED
    BY <1>3, <2>2, <2>3
<1>11. /\ token'[to] # NoToken => LetGo(c, to) \/ rep[token'[to].at].str = made'[to]
       /\ token'[to] # NoToken => token'[to].at \in Table
                                 /\ (token'[to].counted \/ ~IsCounted(rep[token'[to].at]))
  BY <1>4, <1>8
<1>12. /\ UserOf[to] = u /\ UNCHANGED sweeper
       /\ token' \in [Tokens -> TokenStates] /\ made' \in [Tokens -> TokenTexts]
       /\ rep' \in [Addresses -> [str : TokenTexts, count : Int]]
       /\ RepsStay /\ \A a \in Addresses : RepOK(rep'[a]) /\ (IsGarbage(rep[a]) => rep'[a] = rep[a])
  BY <1>1, <1>4, <1>5
<1> QED
  BY <1>7, <1>9, <1>10, <1>11, <1>12, OneTokenSteps

\* CopyAddRef: the new token's reference is added.
LEMMA CopyIsCounted ==
  ASSUME TokenInv, NEW u \in Users, CopyAddRef(u)
  PROVE  TokenInv'
<1>1. /\ tokenCall[u].op = "Copy" /\ tokenCall[u].to \in Tokens
  <2>1. tokenCall[u] \in CopyCalls
    BY CallFields DEF CopyAddRef, InCall, TokenInv, TokenTyped
  <2> QED
    BY <2>1 DEF CopyCalls
<1>2. PICK to \in Tokens : to = tokenCall[u].to
  BY <1>1
<1>3. UserOf[to] = u /\ Has(to)
  BY <1>1, <1>2 DEF TokenInv, TokenCallOK
<1>4. PICK from \in Tokens : from # to /\ UserOf[from] \in {u, Anyone} /\ token[from].at = token[to].at
  BY <1>1, <1>2 DEF TokenInv, TokenCallOK
<1>5. Has(from)
  BY <1>3, <1>4, TokenStateFields DEF TokenInv, TokenTyped, Has
<1>6. PICK a \in Addresses : a = token[to].at /\ a \in Table /\ ~IsGarbage(rep[a])
  <2>1. ~Pend(tokenCall[u], from)
    BY <1>1, <1>2, <1>4 DEF Pend
  <2> QED
    BY <1>4, <1>5, <2>1, OwnIsReferred
<1>c. PICK c \in TokenCalls : /\ c = NoCall /\ c.op = "None"
                              /\ \A k : ~Pend(c, k) /\ ~LetGo(c, k)
  BY NoCallPends
<1>7. /\ Add(a, 2) /\ token' = [token EXCEPT ![to] = Belief(to, rep[a])]
      /\ tokenCall' = [tokenCall EXCEPT ![u] = c] /\ UNCHANGED <<sweepIn, sweeper, made>>
  BY <1>1, <1>2, <1>6, <1>c DEF CopyAddRef, Returns, Enters
<1>8. /\ token' \in [Tokens -> TokenStates] /\ made' \in [Tokens -> TokenTexts]
      /\ token'[to].at = a /\ token'[to].counted = IsCounted(rep[a]) /\ token'[to] # NoToken
      /\ \A j \in Tokens \ {to} : token'[j] = token[j]
  BY <1>3, <1>6, <1>7, TokenBelieves
<1>9. /\ RepsStay /\ rep' \in [Addresses -> [str : TokenTexts, count : Int]]
      /\ \A b \in Addresses : /\ RepOK(rep'[b]) /\ (b # a => rep'[b] = rep[b])
                              /\ IsCounted(rep'[b]) <=> IsCounted(rep[b])
                              /\ IsCounted(rep[b]) => rep'[b].count = rep[b].count + 2 * Ones(b = a)
  BY <1>7, ReferenceStep
<1>10. StepsTo(u, c, {to})
  <2>1. \A j \in Tokens \ {to} : ~Pend(tokenCall[u], j) /\ ~LetGo(tokenCall[u], j)
    BY <1>1, <1>2 DEF Pend, LetGo
  <2>2. Anyone # u
    BY TokenAssumption
  <2> QED
    BY <1>3, <1>7, <1>8, <2>1, <2>2, <1>c DEF StepsTo
<1>11. ASSUME NEW b \in Addresses, IsCounted(rep[b])
       PROVE  rep'[b].count = rep[b].count
                + 2 * (References(token', c, to, b) - References(token, tokenCall[u], to, b))
  <2>1. References(token, tokenCall[u], to, b) = 0
    BY <1>1, <1>2 DEF References, Ones, Pend
  <2>2. References(token', c, to, b) = Ones(b = a)
    BY <1>8, <1>c DEF References, Ones
  <2>3. Ones(b = a) \in Int
    BY DEF Ones
  <2> QED
    BY <1>9, <1>11, <2>1, <2>2, <2>3
<1>12. TokenCallOK(u)'
  <2>1. tokenCall'[u] = c
    BY <1>7 DEF TokenInv, TokenTyped
  <2> QED
    BY <2>1, <1>c DEF TokenCallOK, Assigning
<1>13. rep[a].str = made'[to]
  <2>1. ~HasLetGo(to)
    BY <1>1, <1>2, <1>3, PendingIs DEF LetGo
  <2> QED
    BY <1>3, <1>6, <1>7, <2>1 DEF TokenInv, Holds
<1>14. \A b \in Addresses : RepOK(rep'[b]) /\ (IsGarbage(rep[b]) => rep'[b] = rep[b])
  BY <1>6, <1>9
<1>15. /\ token'[to] # NoToken => LetGo(c, to) \/ rep[token'[to].at].str = made'[to]
       /\ token'[to] # NoToken => token'[to].at \in Table
                                 /\ (token'[to].counted \/ ~IsCounted(rep[token'[to].at]))
  <2>1. token'[to].counted \/ ~IsCounted(rep[token'[to].at])
    BY <1>8
  <2>2. token'[to].at = a
    BY <1>8
  <2> QED
    BY <1>6, <1>13, <2>1, <2>2
<1>16. /\ UserOf[to] = u /\ UNCHANGED sweeper
       /\ token' \in [Tokens -> TokenStates] /\ made' \in [Tokens -> TokenTexts]
       /\ rep' \in [Addresses -> [str : TokenTexts, count : Int]] /\ RepsStay
  BY <1>3, <1>7, <1>8, <1>9
<1> QED
  BY <1>10, <1>11, <1>12, <1>14, <1>15, <1>16, OneTokenSteps

\* What is known of an assignment.
LEMMA AssignmentIs ==
  ASSUME TokenInv, NEW u \in Users, tokenCall[u].op \in Assigning
  PROVE  \E from, to \in Tokens :
           /\ tokenCall[u] = [op |-> tokenCall[u].op, from |-> from, to |-> to]
           /\ tokenCall[u].from = from /\ tokenCall[u].to = to
           /\ UserOf[to] = u /\ Has(to) /\ UserOf[from] \in {u, Anyone} /\ Has(from) /\ from # to
           /\ ~Pend(tokenCall[u], from)
<1>1. tokenCall[u] \in AssignCalls
  BY CallFields DEF TokenInv, TokenTyped
<1>2. PICK call \in AssignCalls : call = tokenCall[u]
  BY <1>1
<1>3. call.from \in Tokens /\ call.to \in Tokens
  BY DEF AssignCalls
<1>4. call = [op |-> call.op, from |-> call.from, to |-> call.to]
  BY DEF AssignCalls
<1>5. /\ UserOf[call.to] = u /\ Has(call.to) /\ UserOf[call.from] \in {u, Anyone} /\ Has(call.from)
      /\ call.from # call.to
  BY <1>2 DEF TokenInv, TokenCallOK
<1>6. ~Pend(call, call.from)
  BY <1>5 DEF Pend
<1> QED
  BY <1>2, <1>3, <1>4, <1>5, <1>6

\* An assignment's next step.
Assignment(op, from, to) == [op |-> op, from |-> from, to |-> to]

\* The fields of an assignment's call.
LEMMA AssignmentFields ==
  ASSUME NEW op \in Assigning, NEW from \in Tokens, NEW to \in Tokens,
         NEW c, c = Assignment(op, from, to)
  PROVE  /\ c \in TokenCalls /\ c.op = op /\ c.from = from /\ c.to = to
         /\ \A k : Pend(c, k) <=> op = "AssignStore" /\ k = to
         /\ \A k : LetGo(c, k) <=> op = "AssignStore" /\ k = to
<1>1. c \in AssignCalls
  BY DEF AssignCalls, Assignment
<1>3. c.op = op /\ c.from = from /\ c.to = to
  BY DEF Assignment
<1>4. op # "Copy"
  BY DEF Assigning
<1> QED
  BY <1>1, <1>3, <1>4 DEF TokenCalls, Pend, LetGo

\* What an assignment relies on, from its tokens.
LEMMA AssigningIsOK ==
  ASSUME NEW u \in Users, NEW from \in Tokens, NEW to \in Tokens, tokenCall'[u].op \in Assigning,
         tokenCall'[u].from = from, tokenCall'[u].to = to, from # to,
         UserOf[to] = u, UserOf[from] \in {u, Anyone}, token'[from] # NoToken, token'[to] # NoToken
  PROVE  TokenCallOK(u)'
<1>1. tokenCall'[u].op \notin {"Sweep", "Copy"}
  BY DEF Assigning
<1> QED
  BY <1>1 DEF TokenCallOK, Has

\* AssignBegins: the references are as before.
LEMMA AssignmentIsBegun ==
  ASSUME TokenInv, NEW u \in Users, NEW from \in Tokens, NEW to \in Tokens, AssignBegins(u, from, to)
  PROVE  TokenInv'
<1>1. /\ tokenCall[u] = NoCall /\ UserOf[from] \in {u, Anyone} /\ Has(from) /\ UserOf[to] = u
      /\ Has(to) /\ from # to /\ UNCHANGED <<rep, sweepIn, sweeper, token, made>>
  BY DEF AssignBegins, IsFree, Readable
<1>2. PICK next \in {"AssignAdd", "AssignRemove"} :
        /\ next = IF token[from].counted THEN "AssignAdd" ELSE "AssignRemove"
        /\ tokenCall' = [tokenCall EXCEPT ![u] = [op |-> next, from |-> from, to |-> to]]
  BY DEF AssignBegins, Enters
<1> PICK c : c = Assignment(next, from, to)
  OBVIOUS
<1>3. /\ c \in TokenCalls /\ c = [op |-> next, from |-> from, to |-> to]
      /\ c.op = next /\ c.from = from /\ c.to = to /\ \A k : ~Pend(c, k) /\ ~LetGo(c, k)
  <2>1. next \in Assigning /\ next # "AssignStore"
    BY DEF Assigning
  <2>2. c = [op |-> next, from |-> from, to |-> to]
    BY DEF Assignment
  <2> QED
    <3>1. c \in TokenCalls
      BY <2>1, AssignmentFields
    <3>2. c.op = next
      BY <2>1, AssignmentFields
    <3>3. c.from = from /\ c.to = to
      BY <2>1, AssignmentFields
    <3>4. \A k : ~Pend(c, k)
      BY <2>1, AssignmentFields
    <3>5. \A k : ~LetGo(c, k)
      BY <2>1, AssignmentFields
    <3> QED
      BY <2>2, <3>1, <3>2, <3>3, <3>4, <3>5
<1>4. tokenCall' = [tokenCall EXCEPT ![u] = c] /\ tokenCall'[u] = c
  BY <1>2, <1>3 DEF TokenInv, TokenTyped
<1>5. /\ token' \in [Tokens -> TokenStates] /\ made' \in [Tokens -> TokenTexts]
      /\ rep' \in [Addresses -> [str : TokenTexts, count : Int]]
      /\ RepsStay /\ \A a \in Addresses : RepOK(rep'[a]) /\ rep'[a] = rep[a]
      /\ \A a \in Addresses : rep[a].count \in Int
  BY <1>1, TokensStay
<1>6. \A k : ~Pend(tokenCall[u], k) /\ ~LetGo(tokenCall[u], k)
  BY <1>1, NoCallPends
<1>7. StepsTo(u, c, {to})
  BY <1>1, <1>3, <1>4, <1>6, TokenAssumption DEF StepsTo
<1>8. TokenCallOK(u)'
  BY <1>1, <1>3, <1>4, AssigningIsOK DEF Assigning, Has
<1>9. ASSUME NEW a \in Addresses, IsCounted(rep[a])
      PROVE  rep'[a].count = rep[a].count
               + 2 * (References(token', c, to, a) - References(token, tokenCall[u], to, a))
  <2>1. ~(c.op \in {"AssignRemove", "AssignStore"} /\ token'[c.from].at = a)
    <3>1. CASE token[from].counted
      BY <1>2, <1>3, <3>1
    <3>2. CASE ~token[from].counted
      <4>1. ~IsCounted(rep[token[from].at])
        BY <1>1, <3>2 DEF TokenInv, Knows
      <4> QED
        BY <1>1, <1>3, <1>9, <4>1
    <3> QED
      BY <3>1, <3>2
  <2>2. References(token', c, to, a) = References(token, tokenCall[u], to, a)
    BY <1>1, <1>3, <1>6, <2>1, NoCallPends DEF References, Ones
  <2>3. References(token', c, to, a) \in Int
    BY DEF References, Ones
  <2> QED
    BY <1>5, <2>2, <2>3
<1>10. /\ token'[to] # NoToken => LetGo(c, to) \/ rep[token'[to].at].str = made'[to]
       /\ token'[to] # NoToken => token'[to].at \in Table
                                 /\ (token'[to].counted \/ ~IsCounted(rep[token'[to].at]))
  <2>1. token[to].at \in Table /\ rep[token[to].at].str = made[to] /\ Knows(to)
    BY <1>1, <1>6, OwnIsReferred DEF TokenInv
  <2> QED
    BY <1>1, <2>1 DEF Knows
<1> QED
  BY <1>1, <1>3, <1>5, <1>7, <1>8, <1>9, <1>10, OneTokenSteps

\* AssignAddRef: the assignment has a reference that is in no token yet.
LEMMA AssignmentIsCounted ==
  ASSUME TokenInv, NEW u \in Users, AssignAddRef(u)
  PROVE  TokenInv'
<1>0. tokenCall[u].op = "AssignAdd"
  BY DEF AssignAddRef, InCall
<1>1. PICK from, to \in Tokens :
        /\ tokenCall[u] = [op |-> tokenCall[u].op, from |-> from, to |-> to]
        /\ tokenCall[u].from = from /\ tokenCall[u].to = to
        /\ UserOf[to] = u /\ Has(to) /\ UserOf[from] \in {u, Anyone} /\ Has(from) /\ from # to
        /\ ~Pend(tokenCall[u], from)
  BY <1>0, AssignmentIs DEF Assigning
<1> PICK c : c = Assignment("AssignRemove", from, to)
  OBVIOUS
<1>2. /\ c \in TokenCalls /\ c = [op |-> "AssignRemove", from |-> from, to |-> to]
      /\ c.op = "AssignRemove" /\ c.from = from /\ c.to = to /\ \A k : ~Pend(c, k) /\ ~LetGo(c, k)
  <2>1. "AssignRemove" \in Assigning /\ "AssignRemove" # "AssignStore"
    BY DEF Assigning
  <2>2. c = [op |-> "AssignRemove", from |-> from, to |-> to]
    BY DEF Assignment
  <2> QED
    BY <2>1, <2>2, AssignmentFields
<1>3. PICK a \in Addresses : a = token[from].at /\ a \in Table /\ ~IsGarbage(rep[a])
                             /\ rep[a].str = made[from]
  BY <1>1, OwnIsReferred
<1>4. /\ Add(a, 2) /\ token' = [token EXCEPT ![from] = Belief(from, rep[a])]
      /\ UNCHANGED <<sweepIn, sweeper, made>>
  BY <1>1, <1>3 DEF AssignAddRef
<1>5. tokenCall' = [tokenCall EXCEPT ![u] = c] /\ tokenCall'[u] = c
  <2>1. tokenCall' = [tokenCall EXCEPT ![u] = [tokenCall[u] EXCEPT !.op = "AssignRemove"]]
    BY DEF AssignAddRef, Enters
  <2>2. [tokenCall[u] EXCEPT !.op = "AssignRemove"] = c
    BY <1>1, <1>2
  <2> QED
    BY <2>1, <2>2 DEF TokenInv, TokenTyped
<1>6. /\ token' \in [Tokens -> TokenStates] /\ made' \in [Tokens -> TokenTexts]
      /\ token'[from].at = a /\ token'[from].counted = IsCounted(rep[a]) /\ token'[from] # NoToken
      /\ \A j \in Tokens \ {from} : token'[j] = token[j]
  BY <1>1, <1>3, <1>4, TokenBelieves
<1>7. /\ RepsStay /\ rep' \in [Addresses -> [str : TokenTexts, count : Int]]
      /\ \A b \in Addresses : /\ RepOK(rep'[b]) /\ (b # a => rep'[b] = rep[b])
                              /\ IsCounted(rep'[b]) <=> IsCounted(rep[b])
                              /\ IsCounted(rep[b]) => rep'[b].count = rep[b].count + 2 * Ones(b = a)
  BY <1>4, ReferenceStep
<1>8. \A k : ~Pend(tokenCall[u], k) /\ ~LetGo(tokenCall[u], k)
  BY <1>0 DEF Pend, LetGo
<1>9. StepsTo(u, c, {from})
  <2>1. token'[from].at = token[from].at
    BY <1>3, <1>6
  <2>2. \A j \in Tokens \ {from} : token'[j] = token[j]
    BY <1>6
  <2> QED
    BY <1>1, <1>2, <1>4, <1>5, <1>8, <2>1, <2>2 DEF StepsTo
<1>10. TokenCallOK(u)'
  <2>1. token'[from] # NoToken /\ token'[to] # NoToken
    BY <1>1, <1>6 DEF Has
  <2> QED
    BY <1>1, <1>2, <1>5, <2>1, AssigningIsOK DEF Assigning
<1>11. ASSUME NEW b \in Addresses, IsCounted(rep[b])
       PROVE  rep'[b].count = rep[b].count
                + 2 * (References(token', c, from, b) - References(token, tokenCall[u], from, b))
  <2>1. References(token, tokenCall[u], from, b) = Ones(b = a)
    BY <1>0, <1>3, <1>8 DEF References, Ones
  <2>2. token'[from].at = a
    BY <1>6
  <2>3. References(token', c, from, b) = Ones(b = a) + Ones(b = a)
    BY <1>2, <2>2 DEF References, Ones
  <2>4. Ones(b = a) \in Int /\ rep[b].count \in Int
    BY DEF Ones, TokenInv, TokenTyped
  <2> QED
    BY <1>7, <1>11, <2>1, <2>3, <2>4
<1>12. /\ token'[from] # NoToken => LetGo(c, from) \/ rep[token'[from].at].str = made'[from]
       /\ token'[from] # NoToken => token'[from].at \in Table
                                 /\ (token'[from].counted \/ ~IsCounted(rep[token'[from].at]))
  <2>1. token'[from].counted \/ ~IsCounted(rep[a])
    BY <1>6
  <2>2. token'[from].at = a /\ made'[from] = made[from]
    BY <1>4, <1>6
  <2> QED
    BY <1>3, <2>1, <2>2
<1>13. /\ UserOf[from] = u \/ (UserOf[from] = Anyone /\ Has(from))
       /\ token' \in [Tokens -> TokenStates] /\ made' \in [Tokens -> TokenTexts]
       /\ rep' \in [Addresses -> [str : TokenTexts, count : Int]] /\ RepsStay /\ UNCHANGED sweeper
       /\ \A b \in Addresses : RepOK(rep'[b]) /\ (IsGarbage(rep[b]) => rep'[b] = rep[b])
  BY <1>1, <1>3, <1>4, <1>6, <1>7
<1>14. c \in TokenCalls
  BY <1>2
<1> QED
  BY <1>9, <1>10, <1>11, <1>12, <1>13, <1>14, OneTokenSteps

\* AssignRemoveRef: the old reference of the assigned token goes.
LEMMA AssignmentLetsGo ==
  ASSUME TokenInv, NEW u \in Users, AssignRemoveRef(u)
  PROVE  TokenInv'
<1>0. tokenCall[u].op = "AssignRemove"
  BY DEF AssignRemoveRef, InCall
<1>1. PICK from, to \in Tokens :
        /\ tokenCall[u] = [op |-> tokenCall[u].op, from |-> from, to |-> to]
        /\ tokenCall[u].from = from /\ tokenCall[u].to = to
        /\ UserOf[to] = u /\ Has(to) /\ UserOf[from] \in {u, Anyone} /\ Has(from) /\ from # to
        /\ ~Pend(tokenCall[u], from)
  BY <1>0, AssignmentIs DEF Assigning
<1> PICK c : c = Assignment("AssignStore", from, to)
  OBVIOUS
<1>2. /\ c \in TokenCalls /\ c.op = "AssignStore" /\ c.from = from /\ c.to = to
      /\ \A k : (Pend(c, k) <=> k = to) /\ (LetGo(c, k) <=> k = to)
  <2>1. "AssignStore" \in Assigning
    BY DEF Assigning
  <2> QED
    BY <2>1, AssignmentFields
<1>3. tokenCall' = [tokenCall EXCEPT ![u] = c] /\ tokenCall'[u] = c
  <2>1. tokenCall' = [tokenCall EXCEPT ![u] = [tokenCall[u] EXCEPT !.op = "AssignStore"]]
    BY DEF AssignRemoveRef, Enters
  <2>2. [tokenCall[u] EXCEPT !.op = "AssignStore"] = c
    BY <1>1 DEF Assignment
  <2> QED
    BY <2>1, <2>2 DEF TokenInv, TokenTyped
<1>4. \A k : ~Pend(tokenCall[u], k) /\ ~LetGo(tokenCall[u], k)
  BY <1>0 DEF Pend, LetGo
<1>5. RemoveRef(to) /\ UNCHANGED <<sweepIn, sweeper, token, made>>
  BY <1>1 DEF AssignRemoveRef
<1>6. /\ RepsStay
      /\ rep' \in [Addresses -> [str : TokenTexts, count : Int]]
      /\ \A b \in Addresses : /\ RepOK(rep'[b]) /\ (IsGarbage(rep[b]) => rep'[b] = rep[b])
                              /\ IsCounted(rep'[b]) <=> IsCounted(rep[b])
                              /\ IsCounted(rep[b]) =>
                                   rep'[b].count = rep[b].count - 2 * Ones(token[to].at = b)
  BY <1>1, <1>4, <1>5, ReferenceGoes
<1>7. StepsTo(u, c, {to})
  BY <1>1, <1>2, <1>3, <1>4, <1>5, TokenAssumption DEF StepsTo
<1>8. TokenCallOK(u)'
  BY <1>1, <1>2, <1>3, <1>5, AssigningIsOK DEF Assigning, Has
<1>9. ASSUME NEW b \in Addresses, IsCounted(rep[b])
      PROVE  rep'[b].count = rep[b].count
               + 2 * (References(token', c, to, b) - References(token, tokenCall[u], to, b))
  <2> PICK e : e = Ones(token[from].at = b)
    OBVIOUS
  <2>1. References(token, tokenCall[u], to, b) = Ones(token[to].at = b) + e
    BY <1>0, <1>1, <1>4 DEF References, Ones
  <2>2. References(token', c, to, b) = 0 + e
    BY <1>2, <1>5 DEF References, Ones
  <2>3. Ones(token[to].at = b) \in Int /\ e \in Int /\ rep[b].count \in Int
    BY DEF Ones, TokenInv, TokenTyped
  <2> QED
    BY <1>6, <1>9, <2>1, <2>2, <2>3
<1>10. /\ token'[to] # NoToken => LetGo(c, to) \/ rep[token'[to].at].str = made'[to]
       /\ token'[to] # NoToken => token'[to].at \in Table
                                 /\ (token'[to].counted \/ ~IsCounted(rep[token'[to].at]))
  <2>1. token[to].at \in Table /\ Knows(to)
    BY <1>1, <1>4, OwnIsReferred DEF TokenInv
  <2> QED
    BY <1>1, <1>2, <1>5, <2>1 DEF Knows
<1>11. /\ UserOf[to] = u /\ c \in TokenCalls
       /\ token' \in [Tokens -> TokenStates] /\ made' \in [Tokens -> TokenTexts]
       /\ rep' \in [Addresses -> [str : TokenTexts, count : Int]] /\ RepsStay /\ UNCHANGED sweeper
       /\ \A b \in Addresses : RepOK(rep'[b]) /\ (IsGarbage(rep[b]) => rep'[b] = rep[b])
  BY <1>1, <1>2, <1>5, <1>6 DEF TokenInv, TokenTyped
<1> QED
  BY <1>7, <1>8, <1>9, <1>10, <1>11, OneTokenSteps

\* AssignStore: the assignment's reference becomes the token's.
LEMMA AssignmentIsStored ==
  ASSUME TokenInv, NEW u \in Users, AssignStore(u)
  PROVE  TokenInv'
<1>0. tokenCall[u].op = "AssignStore"
  BY DEF AssignStore, InCall
<1>1. PICK from, to \in Tokens :
        /\ tokenCall[u] = [op |-> tokenCall[u].op, from |-> from, to |-> to]
        /\ tokenCall[u].from = from /\ tokenCall[u].to = to
        /\ UserOf[to] = u /\ Has(to) /\ UserOf[from] \in {u, Anyone} /\ Has(from) /\ from # to
        /\ ~Pend(tokenCall[u], from)
  BY <1>0, AssignmentIs DEF Assigning
<1> PICK c : c = NoCall
  OBVIOUS
<1>2. c \in TokenCalls /\ c.op = "None" /\ \A k : ~Pend(c, k) /\ ~LetGo(c, k)
  BY NoCallPends
<1>3. /\ tokenCall' = [tokenCall EXCEPT ![u] = c] /\ tokenCall'[u] = c
      /\ token' = [token EXCEPT ![to] = token[from]] /\ made' = [made EXCEPT ![to] = made[from]]
      /\ UNCHANGED <<rep, sweepIn, sweeper>>
  BY <1>1 DEF AssignStore, Returns, Enters, TokenInv, TokenTyped
<1>4. /\ token' \in [Tokens -> TokenStates] /\ made' \in [Tokens -> TokenTexts]
      /\ token'[to] = token[from] /\ made'[to] = made[from]
      /\ \A j \in Tokens \ {to} : token'[j] = token[j] /\ made'[j] = made[j]
  BY <1>3 DEF TokenInv, TokenTyped
<1>5. /\ rep' \in [Addresses -> [str : TokenTexts, count : Int]]
      /\ RepsStay /\ \A a \in Addresses : RepOK(rep'[a]) /\ rep'[a] = rep[a] /\ rep[a].count \in Int
  BY <1>3 DEF TokenInv, TokenTyped, RepsStay
<1>6. \A k : k # to => ~Pend(tokenCall[u], k) /\ ~LetGo(tokenCall[u], k)
  BY <1>0, <1>1 DEF Pend, LetGo
<1>7. StepsTo(u, c, {to})
  <2>1. Anyone # u /\ UserOf[to] = u
    BY <1>1, TokenAssumption
  <2>2. \A j \in Tokens \ {to} : /\ Pend(c, j) <=> Pend(tokenCall[u], j)
                                 /\ LetGo(c, j) <=> LetGo(tokenCall[u], j)
    BY <1>2, <1>6
  <2>3. tokenCall' = [tokenCall EXCEPT ![u] = c]
    BY <1>3
  <2> QED
    BY <1>2, <1>4, <2>1, <2>2, <2>3 DEF StepsTo
<1>8. TokenCallOK(u)'
  BY <1>2, <1>3 DEF TokenCallOK, Assigning
<1>9. ASSUME NEW b \in Addresses, IsCounted(rep[b])
      PROVE  rep'[b].count = rep[b].count
               + 2 * (References(token', c, to, b) - References(token, tokenCall[u], to, b))
  <2> PICK e : e = Ones(token[from].at = b)
    OBVIOUS
  <2>1. Pend(tokenCall[u], to)
    BY <1>0, <1>1 DEF Pend
  <2>2. References(token, tokenCall[u], to, b) = 0 + e
    <3>1. tokenCall[u].op = "AssignStore" /\ tokenCall[u].from = from
      BY <1>0, <1>1
    <3>2. Ones(token[to].at = b /\ ~Pend(tokenCall[u], to)) = 0
      BY <2>1 DEF Ones
    <3>3. Ones(tokenCall[u].op \in {"AssignRemove", "AssignStore"}
               /\ token[tokenCall[u].from].at = b) = e
      BY <3>1 DEF Ones
    <3> QED
      BY <3>2, <3>3 DEF References
  <2>3. References(token', c, to, b) = e + 0
    BY <1>2, <1>4 DEF References, Ones
  <2>4. 2 * (References(token', c, to, b) - References(token, tokenCall[u], to, b)) = 0
    <3>1. e \in Int
      BY DEF Ones
    <3> QED
      BY <2>2, <2>3, <3>1
  <2>5. rep'[b].count = rep[b].count /\ rep[b].count \in Int
    BY <1>5
  <2> QED
    BY <2>4, <2>5
<1>10. /\ token'[to] # NoToken => LetGo(c, to) \/ rep[token'[to].at].str = made'[to]
       /\ token'[to] # NoToken => token'[to].at \in Table
                                 /\ (token'[to].counted \/ ~IsCounted(rep[token'[to].at]))
  <2>1. token[from].at \in Table /\ rep[token[from].at].str = made[from] /\ Knows(from)
    BY <1>1, OwnIsReferred DEF TokenInv
  <2> QED
    BY <1>1, <1>4, <2>1 DEF Knows
<1>11. /\ UserOf[to] = u /\ c \in TokenCalls /\ RepsStay /\ UNCHANGED sweeper
       /\ token' \in [Tokens -> TokenStates] /\ made' \in [Tokens -> TokenTexts]
       /\ rep' \in [Addresses -> [str : TokenTexts, count : Int]]
       /\ \A b \in Addresses : RepOK(rep'[b]) /\ (IsGarbage(rep[b]) => rep'[b] = rep[b])
  BY <1>1, <1>2, <1>3, <1>4, <1>5
<1> QED
  BY <1>7, <1>8, <1>9, <1>10, <1>11, OneTokenSteps

\* Drop: the token's reference goes.
LEMMA TokenIsDropped ==
  ASSUME TokenInv, NEW u \in Users, NEW k \in Tokens, Drop(u, k)
  PROVE  TokenInv'
<1>1. /\ tokenCall[u] = NoCall /\ UserOf[k] = u /\ Has(k) /\ RemoveRef(k)
      /\ token' = [token EXCEPT ![k] = NoToken] /\ made' = [made EXCEPT ![k] = ""]
      /\ UNCHANGED <<sweepIn, sweeper, tokenCall>>
  BY DEF Drop, IsFree, Points, NoToken
<1> PICK c : c = NoCall
  OBVIOUS
<1>2. c \in TokenCalls /\ c.op = "None" /\ \A j : ~Pend(c, j) /\ ~LetGo(c, j)
  BY NoCallPends
<1>3. tokenCall[u] = c /\ tokenCall' = [tokenCall EXCEPT ![u] = c]
  BY <1>1 DEF TokenInv, TokenTyped
<1>4. /\ token' \in [Tokens -> TokenStates] /\ made' \in [Tokens -> TokenTexts] /\ token'[k] = NoToken
      /\ \A j \in Tokens \ {k} : token'[j] = token[j] /\ made'[j] = made[j]
  <2>1. "" \in TokenTexts
    BY DEF TokenTexts
  <2> QED
    BY <1>1, <2>1, NoTokenIsNowhere DEF TokenInv, TokenTyped
<1>6. /\ RepsStay
      /\ rep' \in [Addresses -> [str : TokenTexts, count : Int]]
      /\ \A b \in Addresses : /\ RepOK(rep'[b]) /\ (IsGarbage(rep[b]) => rep'[b] = rep[b])
                              /\ IsCounted(rep'[b]) <=> IsCounted(rep[b])
                              /\ IsCounted(rep[b]) =>
                                   rep'[b].count = rep[b].count - 2 * Ones(token[k].at = b)
  <2>1. ~Pend(tokenCall[u], k)
    BY <1>2, <1>3
  <2> QED
    BY <1>1, <2>1, ReferenceGoes
<1>7. StepsTo(u, c, {k})
  BY <1>1, <1>2, <1>3, <1>4, TokenAssumption DEF StepsTo
<1>8. TokenCallOK(u)'
  <2>1. tokenCall'[u] = c
    BY <1>1, <1>3
  <2> QED
    BY <1>2, <2>1 DEF TokenCallOK, Assigning
<1>9. ASSUME NEW b \in Addresses, IsCounted(rep[b])
      PROVE  rep'[b].count = rep[b].count
               + 2 * (References(token', c, k, b) - References(token, tokenCall[u], k, b))
  <2>1. References(token, tokenCall[u], k, b) = Ones(token[k].at = b)
    BY <1>2, <1>3 DEF References, Ones
  <2>2. References(token', c, k, b) = 0
    BY <1>2, <1>4, NoTokenIsNowhere DEF References, Ones
  <2>3. Ones(token[k].at = b) \in Int /\ rep[b].count \in Int
    BY DEF Ones, TokenInv, TokenTyped
  <2> QED
    BY <1>6, <1>9, <2>1, <2>2, <2>3
<1>10. UserOf[k] = u /\ UNCHANGED sweeper /\ token'[k] = NoToken
  BY <1>1, <1>4
<1>11. /\ c \in TokenCalls /\ RepsStay
       /\ token' \in [Tokens -> TokenStates] /\ made' \in [Tokens -> TokenTexts]
       /\ rep' \in [Addresses -> [str : TokenTexts, count : Int]]
       /\ \A b \in Addresses : RepOK(rep'[b]) /\ (IsGarbage(rep[b]) => rep'[b] = rep[b])
  BY <1>2, <1>4, <1>6
<1> QED
  BY <1>7, <1>8, <1>9, <1>10, <1>11, OneTokenSteps

\* IsImmortal: only what the token believes changes.
LEMMA BeliefIsUpdated ==
  ASSUME TokenInv, NEW u \in Users, NEW k \in Tokens, IsImmortal(u, k)
  PROVE  TokenInv'
<1>1. /\ tokenCall[u] = NoCall /\ UserOf[k] \in {u, Anyone} /\ Has(k)
      /\ token' = [token EXCEPT ![k] = Belief(k, rep[token[k].at])]
      /\ UNCHANGED <<rep, sweepIn, sweeper, made, tokenCall>>
  BY DEF IsImmortal, IsFree, Readable
<1> PICK c : c = NoCall
  OBVIOUS
<1>2. c \in TokenCalls /\ c.op = "None" /\ \A j : ~Pend(c, j) /\ ~LetGo(c, j)
  BY NoCallPends
<1>3. tokenCall[u] = c /\ tokenCall' = [tokenCall EXCEPT ![u] = c]
  BY <1>1 DEF TokenInv, TokenTyped
<1>4. /\ token' \in [Tokens -> TokenStates] /\ made' \in [Tokens -> TokenTexts]
      /\ token'[k].at = token[k].at /\ token'[k].counted = IsCounted(rep[token[k].at])
      /\ token'[k] # NoToken
      /\ \A j \in Tokens \ {k} : token'[j] = token[j]
  BY <1>1, TokenBelieves
<1>5. /\ rep' \in [Addresses -> [str : TokenTexts, count : Int]]
      /\ RepsStay /\ \A a \in Addresses : RepOK(rep'[a]) /\ rep'[a] = rep[a] /\ rep[a].count \in Int
  BY <1>1 DEF TokenInv, TokenTyped, RepsStay
<1>6. token'[k].at = token[k].at /\ \A j \in Tokens \ {k} : token'[j] = token[j]
  BY <1>4
<1>7. StepsTo(u, c, {k})
  BY <1>1, <1>2, <1>3, <1>6 DEF StepsTo
<1>8. TokenCallOK(u)'
  <2>1. tokenCall'[u] = c
    BY <1>1, <1>3
  <2> QED
    BY <1>2, <2>1 DEF TokenCallOK, Assigning
<1>9. ASSUME NEW b \in Addresses, IsCounted(rep[b])
      PROVE  rep'[b].count = rep[b].count
               + 2 * (References(token', c, k, b) - References(token, tokenCall[u], k, b))
  <2>1. References(token, tokenCall[u], k, b) = Ones(token[k].at = b)
    BY <1>2, <1>3 DEF References, Ones
  <2>2. References(token', c, k, b) = Ones(token[k].at = b)
    BY <1>2, <1>6 DEF References, Ones
  <2>3. Ones(token[k].at = b) \in Int
    BY DEF Ones
  <2> QED
    BY <1>5, <2>1, <2>2, <2>3
<1>10. /\ token'[k] # NoToken => LetGo(c, k) \/ rep[token'[k].at].str = made'[k]
       /\ token'[k] # NoToken => token'[k].at \in Table
                                 /\ (token'[k].counted \/ ~IsCounted(rep[token'[k].at]))
  <2>1. token[k].at \in Table /\ rep[token[k].at].str = made[k]
    BY <1>1, <1>2, <1>3, OwnIsReferred
  <2>2. token'[k].counted \/ ~IsCounted(rep[token[k].at])
    BY <1>4
  <2> QED
    BY <1>1, <1>6, <2>1, <2>2
<1>11. /\ UserOf[k] = u \/ (UserOf[k] = Anyone /\ Has(k))
       /\ c \in TokenCalls /\ RepsStay /\ UNCHANGED sweeper
       /\ token' \in [Tokens -> TokenStates] /\ made' \in [Tokens -> TokenTexts]
       /\ rep' \in [Addresses -> [str : TokenTexts, count : Int]]
       /\ \A b \in Addresses : RepOK(rep'[b]) /\ (IsGarbage(rep[b]) => rep'[b] = rep[b])
  BY <1>1, <1>2, <1>4, <1>5
<1> QED
  BY <1>7, <1>8, <1>9, <1>10, <1>11, OneTokenSteps

\* A set may change by two elements.
LEMMA CardinalityTwoSteps ==
  ASSUME NEW S, IsFiniteSet(S), NEW T, NEW x, NEW y, x # y, S \ {x, y} = T \ {x, y}
  PROVE  /\ Cardinality(S) \in Nat
         /\ Cardinality(T) = Cardinality(S) + Ones(x \in T) - Ones(x \in S)
                                            + Ones(y \in T) - Ones(y \in S)
<1> PICK M : M = (S \ {y}) \cup (T \cap {y})
  OBVIOUS
<1>1. S \ {y} = M \ {y} /\ M \ {x} = T \ {x} /\ (y \in M <=> y \in T) /\ (x \in M <=> x \in S)
  OBVIOUS
<1>2. IsFiniteSet(M) /\ Cardinality(S) \in Nat
      /\ Cardinality(M) = Cardinality(S) + Ones(y \in M) - Ones(y \in S)
  BY <1>1, CardinalityStep
<1>3. Cardinality(M) \in Nat /\ Cardinality(T) = Cardinality(M) + Ones(x \in T) - Ones(x \in M)
  BY <1>1, <1>2, CardinalityStep
<1>4. Ones(y \in M) = Ones(y \in T) /\ Ones(x \in M) = Ones(x \in S)
  BY <1>1 DEF Ones
<1>5. \A b : Ones(b) \in Int
  BY DEF Ones
<1> QED
  BY <1>2, <1>3, <1>4, <1>5

\* Move: one reference goes, the other changes its token.
LEMMA TokenIsMoved ==
  ASSUME TokenInv, NEW u \in Users, NEW from \in Tokens, NEW to \in Tokens, Move(u, from, to)
  PROVE  TokenInv'
<1>1. /\ tokenCall[u] = NoCall /\ UserOf[from] = u /\ UserOf[to] = u /\ from # to /\ Has(from)
      /\ RemoveRef(to)
      /\ token' = [token EXCEPT ![to] = token[from], ![from] = NoToken]
      /\ made' = [made EXCEPT ![to] = made[from], ![from] = ""]
      /\ UNCHANGED <<sweepIn, sweeper, tokenCall>>
  BY DEF Move, IsFree
<1> PICK c : c = NoCall
  OBVIOUS
<1>2. c \in TokenCalls /\ c.op = "None" /\ \A j : ~Pend(c, j) /\ ~LetGo(c, j)
  BY NoCallPends
<1>3. tokenCall[u] = c /\ tokenCall' = [tokenCall EXCEPT ![u] = c]
  BY <1>1 DEF TokenInv, TokenTyped
<1>4. /\ token' \in [Tokens -> TokenStates] /\ made' \in [Tokens -> TokenTexts]
      /\ token'[from] = NoToken /\ token'[to] = token[from] /\ made'[to] = made[from]
      /\ \A j \in Tokens \ {from, to} : token'[j] = token[j] /\ made'[j] = made[j]
  <2>1. "" \in TokenTexts
    BY DEF TokenTexts
  <2> QED
    BY <1>1, <2>1, NoTokenIsNowhere DEF TokenInv, TokenTyped
<1>5. /\ RepsStay
      /\ rep' \in [Addresses -> [str : TokenTexts, count : Int]]
      /\ \A b \in Addresses : /\ RepOK(rep'[b]) /\ (IsGarbage(rep[b]) => rep'[b] = rep[b])
                              /\ IsCounted(rep'[b]) <=> IsCounted(rep[b])
                              /\ IsCounted(rep[b]) =>
                                   rep'[b].count = rep[b].count - 2 * Ones(token[to].at = b)
  <2>1. ~Pend(tokenCall[u], to)
    BY <1>2, <1>3
  <2> QED
    BY <1>1, <2>1, ReferenceGoes
<1>6. StepsTo(u, c, {from, to})
  <2>1. Anyone # u
    BY TokenAssumption
  <2> QED
    BY <1>1, <1>2, <1>3, <1>4, <2>1 DEF StepsTo
<1>7. SweepAllows(u) /\ sweeper' \in Users \cup {Anyone}
  <2>1. \A j \in Tokens : UserOf[j] = Anyone => token'[j] = token[j]
    <3>1. UserOf[from] # Anyone /\ UserOf[to] # Anyone
      BY <1>1, TokenAssumption
    <3>2. \A j \in Tokens \ {from, to} : token'[j] = token[j]
      BY <1>4
    <3> QED
      BY <3>1, <3>2
  <2>2. sweeper \in Users \cup {Anyone}
    BY DEF TokenInv, TokenTyped
  <2> QED
    BY <1>1, <1>5, <2>1, <2>2 DEF SweepAllows, Has
<1>8. \A b \in Addresses : Accounts(b)'
  <2> SUFFICES ASSUME NEW b \in Addresses, IsCounted(rep'[b])
               PROVE  rep'[b].count = 1 + 2 * Referring(b)'
    BY DEF Accounts
  <2>1. IsCounted(rep[b])
    BY <1>5
  <2>2. rep[b].count = 1 + 2 * Referring(b) /\ Referring(b) \in Nat
    BY <2>1, ReferringType DEF TokenInv, Accounts
  <2>3. rep'[b].count = rep[b].count - 2 * Ones(token[to].at = b)
    BY <1>5, <2>1
  <2>4. Refs(b) \ {from, to} = Refs(b)' \ {from, to} /\ Extras(b) \ {u} = Extras(b)' \ {u}
    BY <1>6, OthersRefer
  <2>5. /\ from \in Refs(b) <=> token[from].at = b
        /\ to \in Refs(b) <=> token[to].at = b
        /\ u \notin Extras(b)
    <3>1. tokenCall[u].op = "None" /\ ~Pend(tokenCall[u], from) /\ ~Pend(tokenCall[u], to)
      BY <1>2, <1>3
    <3>2. UserOf[from] \in {u, Anyone} /\ UserOf[to] \in {u, Anyone}
      BY <1>1
    <3>3. u \notin Extras(b)
      BY <3>1 DEF Extras
    <3> QED
      BY <3>1, <3>2, <3>3, RefersNow
  <2>6. /\ from \notin Refs(b)'
        /\ to \in Refs(b)' <=> token[from].at = b
        /\ u \notin Extras(b)'
    <3>0. \A k \in {from, to} : k \in Tokens /\ UserOf[k] \in {u, Anyone}
      BY <1>1
    <3>1. \A k \in {from, to} : k \in Refs(b)' <=> token'[k].at = b /\ ~Pend(c, k)
      BY <1>6, <3>0, RefersThen
    <3>2. u \notin Extras(b)'
      <4>1. tokenCall'[u].op = "None"
        BY <1>2, <1>6, CallsAfter
      <4> QED
        BY <4>1 DEF Extras
    <3> QED
      BY <1>2, <1>4, <3>1, <3>2, NoTokenIsNowhere
  <2>7. Extras(b) = Extras(b)'
    BY <2>4, <2>5, <2>6
  <2> PICK R, S : R = Refs(b) /\ S = Refs(b)'
    OBVIOUS
  <2>8. /\ Cardinality(R) \in Nat
        /\ Cardinality(S) = Cardinality(R) + Ones(from \in S) - Ones(from \in R)
                                           + Ones(to \in S) - Ones(to \in R)
    <3>1. R \ {from, to} = S \ {from, to} /\ from # to
      BY <1>1, <2>4
    <3>2. IsFiniteSet(R)
      BY ReferringType
    <3> QED
      BY <3>1, <3>2, CardinalityTwoSteps, ZenonT(30)
  <2>9. /\ Ones(from \in S) = 0 /\ Ones(to \in S) = Ones(from \in R)
        /\ Ones(to \in R) = Ones(token[to].at = b)
    BY <2>5, <2>6 DEF Ones
  <2>10. Referring(b)' = Referring(b) + Cardinality(S) - Cardinality(R)
    <3>1. Cardinality(Extras(b)) \in Nat /\ Cardinality(R) \in Nat
      BY <2>8, ReferringType
    <3>2. Cardinality(S) \in Int
      BY <2>8 DEF Ones
    <3> QED
      BY <2>7, <3>1, <3>2 DEF Referring
  <2>11. \A x : Ones(x) \in Int
    BY DEF Ones
  <2> QED
    BY <2>2, <2>3, <2>8, <2>9, <2>10, <2>11
<1>9. TokenCallOK(u)'
  <2>1. tokenCall'[u] = c
    BY <1>1, <1>3
  <2> QED
    BY <1>2, <2>1 DEF TokenCallOK, Assigning
<1>10. Table' = Table /\ Table \subseteq Addresses
  BY <1>5, TableStays
<1>11. Holds(from)' /\ Knows(from)'
  BY <1>4 DEF Holds, Knows, Has
<1>12. Holds(to)' /\ Knows(to)'
  <2>1. token[from].at \in Table /\ rep[token[from].at].str = made[from] /\ Knows(from)
    BY <1>1, <1>2, <1>3, OwnIsReferred DEF TokenInv
  <2>2. Holds(to)'
    BY <1>4, <1>5, <1>10, <2>1 DEF Holds, Has, RepsStay
  <2>3. Knows(to)'
    BY <1>1, <1>4, <1>5, <1>10, <2>1 DEF Knows, Has
  <2> QED
    BY <2>2, <2>3
<1>13. \A b \in Addresses : RepOK(rep'[b]) /\ Accounts(b)'
  BY <1>5, <1>8
<1>14. \A k \in {from, to} : Holds(k)' /\ Knows(k)'
  BY <1>11, <1>12
<1>15. /\ rep' \in [Addresses -> [str : TokenTexts, count : Int]] /\ RepsStay /\ c \in TokenCalls
       /\ token' \in [Tokens -> TokenStates] /\ made' \in [Tokens -> TokenTexts]
       /\ {from, to} \in SUBSET Tokens
  BY <1>2, <1>4, <1>5
<1> QED
  BY <1>6, <1>7, <1>9, <1>13, <1>14, <1>15, RepsAreKept

-----------------------------------------------------------------------------

\* A sweep begins, or looks at a representation.
LEMMA SweepMoves ==
  ASSUME TokenInv, NEW u \in Users, NEW c \in TokenCalls, NEW k \in Tokens,
         UserOf[k] \in {u, Anyone}, c.op = "Sweep", tokenCall[u].op \in {"None", "Sweep"},
         tokenCall' = [tokenCall EXCEPT ![u] = c], sweeper \in {u, Anyone}, sweeper' = u,
         UNCHANGED <<rep, token, made>>, TokenCallOK(u)'
  PROVE  TokenInv'
<1>1. /\ token' \in [Tokens -> TokenStates] /\ made' \in [Tokens -> TokenTexts]
      /\ rep' \in [Addresses -> [str : TokenTexts, count : Int]]
      /\ RepsStay /\ \A a \in Addresses : RepOK(rep'[a]) /\ rep'[a] = rep[a]
      /\ \A a \in Addresses : rep[a].count \in Int
  BY TokensStay
<1>2. \A j : /\ ~Pend(c, j) /\ ~LetGo(c, j)
             /\ ~Pend(tokenCall[u], j) /\ ~LetGo(tokenCall[u], j)
  BY DEF Pend, LetGo
<1>3. StepsTo(u, c, {}) /\ StepsTo(u, c, {k})
  BY <1>2 DEF StepsTo
<1>4. \A a \in Addresses : Accounts(a)'
  <2>1. ASSUME NEW a \in Addresses, IsCounted(rep'[a])
        PROVE  /\ IsCounted(rep[a])
               /\ rep'[a].count = rep[a].count
                    + 2 * (References(token', c, k, a) - References(token, tokenCall[u], k, a))
    <3>1. IsCounted(rep[a]) /\ rep'[a].count = rep[a].count /\ rep[a].count \in Int
      BY <1>1, <2>1
    <3>2. c.op \notin {"AssignRemove", "AssignStore"} /\ tokenCall[u].op \notin {"AssignRemove", "AssignStore"}
      OBVIOUS
    <3>3. References(token', c, k, a) = References(token, tokenCall[u], k, a)
      BY <1>2, <3>2 DEF References, Ones
    <3>4. References(token, tokenCall[u], k, a) \in Int
      BY DEF References, Ones
    <3> QED
      BY <3>1, <3>3, <3>4
  <2> QED
    BY <1>3, <2>1, CountsAreKept
<1>5. SweepAllows(u) /\ sweeper' \in Users \cup {Anyone}
  BY DEF SweepAllows
<1>6. \A a \in Addresses : RepOK(rep'[a]) /\ Accounts(a)'
  BY <1>1, <1>4
<1> QED
  BY <1>1, <1>3, <1>5, <1>6, RepsAreKept

\* GetSweeps: the string is not there, and nobody else will insert it.
LEMMA SweepBegins ==
  ASSUME TokenInv, NEW u \in Users, NEW k \in Tokens, NEW s \in Strings, NEW immortal \in BOOLEAN,
         GetSweeps(u, k, s, immortal)
  PROVE  TokenInv'
<1>1. /\ tokenCall[u] = NoCall /\ token[k] = NoToken /\ UserOf[k] \in {u, Anyone} /\ sweeper = Anyone
      /\ FindRep(s) = {} /\ sweeper' = u /\ UNCHANGED <<rep, sweepIn, token, made>>
  BY DEF GetSweeps, MayMake, IsFree
<1> PICK c : c = [op |-> "Sweep", to |-> k, str |-> s, immortal |-> immortal,
                  todo |-> Table, erase |-> {}]
  OBVIOUS
<1>2. c \in SweepCalls
  BY DEF SweepCalls, Table
<1>3. c \in TokenCalls /\ c.op = "Sweep" /\ c.to = k /\ c.str = s /\ c.erase = {}
  BY <1>2 DEF TokenCalls
<1>4. tokenCall' = [tokenCall EXCEPT ![u] = c] /\ tokenCall'[u] = c
  BY DEF GetSweeps, Enters, TokenInv, TokenTyped
<1>5. \A a \in Addresses : rep[a].str # s
  <2>1. s # ""
    BY TokenAssumption
  <2> QED
    BY <1>1, <2>1, TableIs DEF FindRep
<1>6. TokenCallOK(u)'
  <2>1. \A a \in Addresses : rep'[a].str # s
    BY <1>1, <1>5
  <2>2. ~Has(k)'
    BY <1>1 DEF Has
  <2> QED
    BY <1>1, <1>3, <1>4, <2>1, <2>2 DEF TokenCallOK, Assigning
<1>7. tokenCall[u].op = "None"
  BY <1>1, NoCallPends
<1>8. sweeper \in {u, Anyone} /\ sweeper' = u /\ UNCHANGED <<rep, token, made>>
  BY <1>1
<1> QED
  BY <1>1, <1>3, <1>4, <1>6, <1>7, <1>8, SweepMoves

\* What is known of a sweep.
LEMMA SweepIs ==
  ASSUME TokenInv, NEW u \in Users, tokenCall[u].op = "Sweep"
  PROVE  /\ tokenCall[u] \in SweepCalls /\ tokenCall[u].to \in Tokens /\ tokenCall[u].str \in Strings
         /\ tokenCall[u].immortal \in BOOLEAN
         /\ tokenCall[u].todo \subseteq Addresses /\ tokenCall[u].erase \subseteq Addresses
         /\ sweeper = u /\ UserOf[tokenCall[u].to] \in {u, Anyone} /\ ~Has(tokenCall[u].to)
         /\ \A a \in Addresses : rep[a].str # tokenCall[u].str
         /\ \A a \in tokenCall[u].erase : IsGarbage(rep[a])
<1>1. tokenCall[u] \in SweepCalls
  BY CallFields DEF TokenInv, TokenTyped
<1>2. /\ tokenCall[u].to \in Tokens /\ tokenCall[u].str \in Strings
      /\ tokenCall[u].immortal \in BOOLEAN
      /\ tokenCall[u].todo \subseteq Addresses /\ tokenCall[u].erase \subseteq Addresses
  BY <1>1 DEF SweepCalls
<1>3. TokenCallOK(u)
  BY DEF TokenInv
<1> QED
  BY <1>1, <1>2, <1>3 DEF TokenCallOK

\* SweepStep: what is to be erased is garbage now.
LEMMA SweepLooks ==
  ASSUME TokenInv, NEW u \in Users, SweepStep(u)
  PROVE  TokenInv'
<1>1. tokenCall[u].op = "Sweep" /\ UNCHANGED <<rep, sweepIn, sweeper, token, made>>
  BY DEF SweepStep, InCall
<1>2. /\ tokenCall[u].to \in Tokens /\ tokenCall[u].todo \subseteq Addresses /\ sweeper = u
      /\ UserOf[tokenCall[u].to] \in {u, Anyone} /\ ~Has(tokenCall[u].to)
      /\ \A a \in Addresses : rep[a].str # tokenCall[u].str
  BY <1>1, SweepIs
<1>3. PICK a \in tokenCall[u].todo :
        tokenCall' = [tokenCall EXCEPT ![u] = [tokenCall[u] EXCEPT
          !.todo = tokenCall[u].todo \ {a}, !.erase = IF IsGarbage(rep[a]) THEN {a} ELSE {}]]
  BY DEF SweepStep, Enters
<1>4. PICK erase \in SUBSET Addresses : /\ erase = IF IsGarbage(rep[a]) THEN {a} ELSE {}
                                        /\ \A b \in erase : IsGarbage(rep[b])
  <2>1. a \in Addresses
    BY <1>2
  <2>2. CASE IsGarbage(rep[a])
    <3>1. {a} \in SUBSET Addresses /\ {a} = (IF IsGarbage(rep[a]) THEN {a} ELSE {})
      BY <2>1, <2>2
    <3> QED
      BY <2>2, <3>1
  <2>3. CASE ~IsGarbage(rep[a])
    <3>1. {} = (IF IsGarbage(rep[a]) THEN {a} ELSE {})
      BY <2>3
    <3> QED
      BY <3>1
  <2> QED
    BY <2>2, <2>3
<1>5. PICK todo \in SUBSET Addresses : todo = tokenCall[u].todo \ {a}
  BY <1>2
<1>6. PICK c \in TokenCalls :
        /\ c = [tokenCall[u] EXCEPT !.todo = todo, !.erase = erase]
        /\ c.op = "Sweep" /\ c.to = tokenCall[u].to /\ c.str = tokenCall[u].str
        /\ c.erase = erase
  <2> PICK c : c = [tokenCall[u] EXCEPT !.todo = todo, !.erase = erase]
    OBVIOUS
  <2>1. PICK call \in SweepCalls : call = tokenCall[u]
    BY <1>1, SweepIs
  <2>2. c = [call EXCEPT !.todo = todo, !.erase = erase]
    BY <2>1
  <2>3. c \in SweepCalls
    BY <2>2 DEF SweepCalls
  <2>4. c.op = "Sweep" /\ c.to = call.to /\ c.str = call.str /\ c.erase = erase
    BY <2>2 DEF SweepCalls
  <2> QED
    BY <2>1, <2>3, <2>4 DEF TokenCalls
<1>7. tokenCall' = [tokenCall EXCEPT ![u] = c]
  BY <1>3, <1>4, <1>5, <1>6, Zenon
<1>8. tokenCall'[u] = c
  BY <1>7 DEF TokenInv, TokenTyped
<1>9. TokenCallOK(u)'
  <2>1. \A b \in erase : IsGarbage(rep'[b])
    BY <1>1, <1>4
  <2>2. sweeper' = u /\ ~Has(c.to)' /\ UserOf[c.to] \in {u, Anyone}
    BY <1>1, <1>2, <1>6 DEF Has
  <2>3. \A b \in Addresses : rep'[b].str # c.str
    BY <1>1, <1>2, <1>6
  <2> QED
    BY <1>6, <1>8, <2>1, <2>2, <2>3 DEF TokenCallOK, Assigning
<1>10. /\ UNCHANGED <<rep, token, made>> /\ sweeper \in {u, Anyone} /\ sweeper' = u
       /\ tokenCall[u].op \in {"None", "Sweep"} /\ c.to \in Tokens /\ UserOf[c.to] \in {u, Anyone}
       /\ c \in TokenCalls /\ c.op = "Sweep"
  BY <1>1, <1>2, <1>6
<1> QED
  BY <1>7, <1>9, <1>10, SweepMoves

\* Nobody has a token at what is garbage.
LEMMA GarbageIsNobodys ==
  ASSUME TokenInv, NEW k \in Tokens, Has(k), ~HasLetGo(k)
  PROVE  ~IsGarbage(rep[token[k].at])
<1>1. token[k].at \in Addresses
  BY TokenStateFields DEF TokenInv, TokenTyped, Has
<1>2. CASE ~Pending(k)
  BY <1>1, <1>2, ReferredTo DEF Refs
<1>3. CASE Pending(k)
  <2>1. PICK v \in Users : Pend(tokenCall[v], k)
    BY <1>3 DEF Pending
  <2>2. tokenCall[v].op = "Copy" /\ tokenCall[v].to = k
    BY <2>1 DEF Pend, HasLetGo, InCall
  <2>3. PICK from \in Tokens : /\ from # k /\ UserOf[from] \in {v, Anyone}
                               /\ token[from].at = token[k].at
    BY <2>2 DEF TokenInv, TokenCallOK
  <2>4. Has(from)
    BY <1>1, <2>3, TokenStateFields DEF TokenInv, TokenTyped, Has
  <2>5. ~Pend(tokenCall[v], from)
    BY <2>2, <2>3 DEF Pend
  <2> QED
    BY <2>3, <2>4, <2>5, OwnIsReferred
<1> QED
  BY <1>2, <1>3

\* An unused address has no string and no count.
LEMMA UnusedIs ==
  /\ Unused \in [str : TokenTexts, count : Int] /\ Unused.str = "" /\ Unused.count = 0
  /\ ~IsCounted(Unused) /\ RepOK(Unused)
<1>1. Unused.str = "" /\ Unused.count = 0 /\ Unused \in [str : TokenTexts, count : Int]
  BY DEF Unused, TokenTexts
<1>2. ~IsCounted(Unused)
  <2>1. 0 % 2 # 1
    OBVIOUS
  <2> QED
    BY <1>1, <2>1 DEF IsCounted
<1> QED
  BY <1>1, <1>2 DEF RepOK

\* The sweep's call after it has erased.
LEMMA SweepForgets ==
  ASSUME TokenInv, NEW u \in Users, tokenCall[u].op = "Sweep"
  PROVE  \E c \in TokenCalls :
           /\ c = [tokenCall[u] EXCEPT !.erase = {}]
           /\ c.op = "Sweep" /\ c.to = tokenCall[u].to /\ c.str = tokenCall[u].str
           /\ c.erase = {}
<1> PICK c : c = [tokenCall[u] EXCEPT !.erase = {}]
  OBVIOUS
<1>1. PICK call \in SweepCalls : call = tokenCall[u]
  BY SweepIs
<1>2. c = [call EXCEPT !.erase = {}]
  BY <1>1
<1>3. c \in SweepCalls
  BY <1>2 DEF SweepCalls
<1>4. c.op = "Sweep" /\ c.to = call.to /\ c.str = call.str /\ c.erase = {}
  BY <1>2 DEF SweepCalls
<1> QED
  BY <1>1, <1>3, <1>4 DEF TokenCalls

\* SweepErase: what was garbage when it was looked at still is, and is nobody's.
LEMMA GarbageIsErased ==
  ASSUME TokenInv, NEW u \in Users, SweepErase(u)
  PROVE  TokenInv'
<1> PICK E : E = tokenCall[u].erase
  OBVIOUS
<1>0. tokenCall[u].op = "Sweep"
  BY DEF SweepErase, InCall
<1>3. PICK c \in TokenCalls :
        /\ c = [tokenCall[u] EXCEPT !.erase = {}]
        /\ c.op = "Sweep" /\ c.to = tokenCall[u].to /\ c.str = tokenCall[u].str
        /\ c.erase = {}
  BY <1>0, SweepForgets, Zenon
<1>1. /\ tokenCall[u].op = "Sweep"
      /\ rep' = [a \in Addresses |-> IF a \in E THEN Unused ELSE rep[a]]
      /\ tokenCall' = [tokenCall EXCEPT ![u] = c]
      /\ UNCHANGED <<sweepIn, sweeper, token, made>>
  <2>1. tokenCall' = [tokenCall EXCEPT ![u] = c]
    BY <1>3, Zenon DEF SweepErase, Enters
  <2> QED
    BY <2>1 DEF SweepErase, InCall
<1>2. /\ tokenCall[u].to \in Tokens /\ E \subseteq Addresses /\ sweeper = u
      /\ UserOf[tokenCall[u].to] \in {u, Anyone} /\ ~Has(tokenCall[u].to)
      /\ \A a \in Addresses : rep[a].str # tokenCall[u].str
      /\ \A a \in E : IsGarbage(rep[a]) /\ tokenCall[u].str # ""
  BY <1>1, SweepIs, TokenAssumption
<1>4. /\ \A a \in E : rep'[a] = Unused /\ a \in Addresses
      /\ \A a \in Addresses \ E : rep'[a] = rep[a]
  BY <1>1, <1>2
<1>5. Unused \in [str : TokenTexts, count : Int] /\ Unused.str = "" /\ Unused.count = 0
      /\ ~IsCounted(Unused) /\ RepOK(Unused)
  BY UnusedIs
<1>6. tokenCall'[u] = c
  BY <1>1 DEF TokenInv, TokenTyped
<1>7. TokenTyped'
  <2>1. rep' \in [Addresses -> [str : TokenTexts, count : Int]]
    BY <1>1, <1>5 DEF TokenInv, TokenTyped
  <2>2. tokenCall' \in [Users -> TokenCalls]
    BY <1>1, <1>3 DEF TokenInv, TokenTyped
  <2> QED
    BY <1>1, <2>1, <2>2 DEF TokenInv, TokenTyped
<1>8. \A j : /\ ~Pend(c, j) /\ ~LetGo(c, j)
             /\ ~Pend(tokenCall[u], j) /\ ~LetGo(tokenCall[u], j)
  BY <1>1, <1>3 DEF Pend, LetGo
<1>9. StepsTo(u, c, {}) /\ StepsTo(u, c, {c.to})
  BY <1>1, <1>2, <1>3, <1>8 DEF StepsTo
<1>10. \A a \in Addresses : RepOK(rep'[a])
  BY <1>4, <1>5 DEF TokenInv
<1>11. ASSUME NEW a \in Addresses PROVE Accounts(a)'
  <2>1. SUFFICES ASSUME IsCounted(rep'[a]) PROVE rep'[a].count = 1 + 2 * Referring(a)'
    BY DEF Accounts
  <2>2. rep'[a] = rep[a]
    BY <1>4, <1>5, <2>1
  <2>3. rep[a].count = 1 + 2 * Referring(a)
    BY <2>1, <2>2 DEF TokenInv, Accounts
  <2>4. c.to \in Tokens /\ UserOf[c.to] \in {u, Anyone}
    BY <1>2, <1>3
  <2>5. References(token', c, c.to, a) = References(token, tokenCall[u], c.to, a)
    BY <1>1, <1>3, <1>8 DEF References, Ones
  <2>6. /\ Referring(a) \in Nat /\ References(token, tokenCall[u], c.to, a) \in Int
        /\ Referring(a)' = Referring(a)
             + References(token', c, c.to, a) - References(token, tokenCall[u], c.to, a)
    BY <1>9, <2>4, ReferringChanges
  <2> QED
    BY <2>2, <2>3, <2>5, <2>6
<1>12. ASSUME NEW v \in Users PROVE TokenCallOK(v)'
  <2>1. CASE v = u
    <3>1. /\ sweeper' = u /\ UserOf[c.to] \in {u, Anyone} /\ ~Has(c.to)' /\ c.erase = {}
      BY <1>1, <1>2, <1>3 DEF Has
    <3>2. \A a \in Addresses : rep'[a].str # c.str
      BY <1>2, <1>3, <1>4, <1>5
    <3> QED
      BY <1>3, <1>6, <2>1, <3>1, <3>2 DEF TokenCallOK, Assigning
  <2>2. CASE v # u
    <3>1. SweepAllows(u)
      BY <1>2 DEF SweepAllows
    <3>2. \A a \in Addresses : rep'[a].str \in {rep[a].str, ""}
      BY <1>4, <1>5
    <3>3. v \in Users \ {u} /\ {} \in SUBSET Tokens
      BY <2>2
    <3> QED
      BY <1>9, <3>1, <3>2, <3>3, OthersCallsAreOK
  <2> QED
    BY <2>1, <2>2
<1>13. \A a \in Table \ E : a \in Table' /\ rep'[a] = rep[a]
  BY <1>4 DEF Table
<1>14. ASSUME NEW k \in Tokens PROVE Holds(k)' /\ Knows(k)'
  <2>1. Holds(k)'
    <3>1. SUFFICES ASSUME Has(k)', ~HasLetGo(k)' PROVE (token[k].at \in Table' /\ rep'[token[k].at].str = made[k])
      BY <1>1 DEF Holds
    <3>2. Has(k)
      BY <1>1, <3>1 DEF Has
    <3>3. ~HasLetGo(k)
      <4>1. {} \in SUBSET Tokens /\ k \in Tokens \ {}
        OBVIOUS
      <4> QED
        BY <1>9, <3>1, <4>1, CallsAfter
    <3>4. ~IsGarbage(rep[token[k].at])
      BY <3>2, <3>3, GarbageIsNobodys
    <3>5. token[k].at \in Table /\ rep[token[k].at].str = made[k]
      BY <3>2, <3>3 DEF TokenInv, Holds
    <3>6. token[k].at \notin E
      BY <1>2, <3>4
    <3> QED
      BY <1>13, <3>5, <3>6
  <2>2. Knows(k)'
    <3>1. SUFFICES ASSUME Has(k), ~token[k].counted
                   PROVE  token[k].at \in Table' /\ ~IsCounted(rep'[token[k].at])
      BY <1>1 DEF Knows, Has
    <3>2. token[k].at \in Table /\ ~IsCounted(rep[token[k].at])
      BY <3>1 DEF TokenInv, Knows
    <3>3. token[k].at \notin E
      <4>1. 1 % 2 = 1
        OBVIOUS
      <4> QED
        BY <1>2, <3>2, <4>1 DEF IsGarbage, IsCounted
    <3> QED
      BY <1>13, <3>2, <3>3
  <2> QED
    BY <2>1, <2>2
<1>15. \A a, b \in Table' : rep'[a].str = rep'[b].str => a = b
  <2>1. \A a \in Table' : a \in Table /\ rep'[a] = rep[a]
    BY <1>4 DEF Table
  <2> QED
    BY <2>1 DEF TokenInv
<1> QED
  BY <1>7, <1>10, <1>11, <1>12, <1>14, <1>15 DEF TokenInv

\* The representation that an insertion makes.
LEMMA NewIs ==
  ASSUME NEW s \in Strings, NEW immortal \in BOOLEAN, NEW r, r = New(s, immortal)
  PROVE  /\ r \in [str : TokenTexts, count : Int] /\ r.str = s /\ r.str # "" /\ r # Unused
         /\ RepOK(r) /\ (IsCounted(r) <=> immortal = FALSE) /\ (IsCounted(r) => r.count = 3)
<1>0. s \in TokenTexts
  BY DEF TokenTexts
<1>1. s # ""
  BY TokenAssumption
<1>2. Unused.str = "" /\ 0 % 2 # 1 /\ 3 % 2 = 1
  <2>1. 0 % 2 # 1 /\ 3 % 2 = 1
    OBVIOUS
  <2> QED
    BY <2>1, UnusedIs
<1>3. CASE immortal = TRUE
  <2>1. r = [str |-> s, count |-> 0]
    BY <1>3, Zenon DEF New
  <2>2. r \in [str : TokenTexts, count : Int] /\ r.str = s /\ r.count = 0
    BY <1>0, <2>1
  <2>3. ~IsCounted(r)
    BY <1>2, <2>2 DEF IsCounted
  <2> QED
    BY <1>1, <1>2, <1>3, <2>2, <2>3 DEF RepOK
<1>4. CASE immortal = FALSE
  <2>1. r = [str |-> s, count |-> 3]
    BY <1>4, Zenon DEF New
  <2>2. r \in [str : TokenTexts, count : Int] /\ r.str = s /\ r.count = 3
    BY <1>0, <2>1
  <2>3. IsCounted(r)
    BY <1>2, <2>2 DEF IsCounted
  <2> QED
    BY <1>1, <1>2, <1>4, <2>2, <2>3 DEF RepOK
<1> QED
  BY <1>3, <1>4

\* The new representation is stored where there was none.
LEMMA InsertionIs ==
  ASSUME NEW k, NEW s, NEW immortal \in BOOLEAN, Insert(k, s, immortal)
  PROVE  \E a \in Addresses : /\ a \notin Table /\ rep' = [rep EXCEPT ![a] = New(s, immortal)]
                              /\ \E b \in BOOLEAN : b # immortal /\ Points(k, a, b, s)
<1>1. PICK a \in Addresses \ Table : /\ rep' = [rep EXCEPT ![a] = New(s, immortal)]
                                     /\ Points(k, a, ~immortal, s)
  BY DEF Insert
<1>2. PICK b \in BOOLEAN : b = ~immortal
  OBVIOUS
<1>3. Points(k, a, b, s) /\ b # immortal
  BY <1>1, <1>2, Zenon
<1> QED
  BY <1>1, <1>3

\* GetInserted and SweepEnds.
LEMMA TokenIsInserted ==
  ASSUME TokenInv, NEW u \in Users, NEW k \in Tokens, NEW s \in Strings, NEW immortal \in BOOLEAN,
         Insert(k, s, immortal), ~Has(k), UserOf[k] \in {u, Anyone},
         \A d \in Addresses : rep[d].str # s, tokenCall[u].op \in {"None", "Sweep"},
         tokenCall' = [tokenCall EXCEPT ![u] = NoCall], sweeper \in {u, Anyone}, sweeper' = Anyone
  PROVE  TokenInv'
<1> PICK a \in Addresses : /\ a \notin Table /\ rep' = [rep EXCEPT ![a] = New(s, immortal)]
                           /\ \E b \in BOOLEAN : b # immortal /\ Points(k, a, b, s)
  BY InsertionIs
<1> PICK b \in BOOLEAN : b # immortal /\ Points(k, a, b, s)
  OBVIOUS
<1> PICK c : c = NoCall
  OBVIOUS
<1> PICK r : r = New(s, immortal)
  OBVIOUS
<1>1. /\ r \in [str : TokenTexts, count : Int] /\ r.str = s /\ r.str # "" /\ r # Unused
      /\ RepOK(r) /\ (IsCounted(r) <=> immortal = FALSE) /\ (IsCounted(r) => r.count = 3)
  BY NewIs
<1>2. c \in TokenCalls /\ c.op = "None" /\ \A j : ~Pend(c, j) /\ ~LetGo(c, j)
  BY NoCallPends
<1>3. /\ rep' \in [Addresses -> [str : TokenTexts, count : Int]]
      /\ rep'[a] = r /\ \A d \in Addresses \ {a} : rep'[d] = rep[d]
  BY <1>1 DEF TokenInv, TokenTyped
<1>4. PICK t \in TokenStates : /\ token' = [token EXCEPT ![k] = t] /\ made' = [made EXCEPT ![k] = s]
                               /\ t.at = a /\ t.counted = b /\ t # NoToken
  <2>1. [at |-> a, counted |-> b] \in TokenStates
    BY DEF TokenStates
  <2>2. [at |-> a, counted |-> b] # NoToken
    <3>1. a # NoToken.at
      BY NoTokenIsNowhere
    <3> QED
      BY <3>1
  <2> QED
    BY <2>1, <2>2 DEF Points
<1>5. /\ token' \in [Tokens -> TokenStates] /\ made' \in [Tokens -> TokenTexts]
      /\ token'[k] = t /\ made'[k] = s
      /\ \A j \in Tokens \ {k} : token'[j] = token[j] /\ made'[j] = made[j]
  <2>1. s \in TokenTexts
    BY DEF TokenTexts
  <2> QED
    BY <1>4, <2>1, TokenPoints
<1>6. TokenTyped'
  <2>1. tokenCall' \in [Users -> TokenCalls]
    BY <1>2 DEF TokenInv, TokenTyped
  <2> QED
    BY <1>3, <1>5, <2>1 DEF TokenTyped
<1>7. \A j : ~Pend(tokenCall[u], j) /\ ~LetGo(tokenCall[u], j)
  BY DEF Pend, LetGo
<1>8. StepsTo(u, c, {k})
  BY <1>2, <1>5, <1>7 DEF StepsTo
<1>9. \A d \in Addresses : RepOK(rep'[d])
  BY <1>1, <1>3 DEF TokenInv
<1>10. ASSUME NEW d \in Addresses PROVE Accounts(d)'
  <2>1. SUFFICES ASSUME IsCounted(rep'[d]) PROVE rep'[d].count = 1 + 2 * Referring(d)'
    BY DEF Accounts
  <2>2. References(token', c, k, d) = Ones(a = d)
    <3>1. token'[k].at = a
      BY <1>4, <1>5
    <3> QED
      BY <1>2, <3>1 DEF References, Ones
  <2>3. References(token, tokenCall[u], k, d) = 0
    <3>1. token[k].at # d
      BY NoTokenIsNowhere DEF Has
    <3> QED
      BY <3>1 DEF References, Ones
  <2>4. Referring(d) \in Nat /\ Referring(d)' = Referring(d) + Ones(a = d) - 0
    <3>1. /\ Referring(d) \in Nat
          /\ Referring(d)' = Referring(d)
               + References(token', c, k, d) - References(token, tokenCall[u], k, d)
      BY <1>8, ReferringChanges, ZenonT(30)
    <3> QED
      BY <2>2, <2>3, <3>1
  <2>5. CASE d = a
    <3>1. Refs(a) = {} /\ Extras(a) = {}
      BY ReferredTo
    <3>2. Referring(d) = 0
      BY <2>5, <3>1, ReferringType
    <3>3. rep'[d].count = 3
      BY <1>1, <1>3, <2>1, <2>5
    <3>4. Ones(a = d) = 1
      BY <2>5 DEF Ones
    <3> QED
      BY <2>4, <3>2, <3>3, <3>4
  <2>6. CASE d # a
    <3>1. rep'[d] = rep[d]
      BY <1>3, <2>6
    <3>2. rep[d].count = 1 + 2 * Referring(d)
      BY <2>1, <3>1 DEF TokenInv, Accounts
    <3>3. Ones(a = d) = 0
      BY <2>6 DEF Ones
    <3> QED
      BY <2>4, <3>1, <3>2, <3>3
  <2> QED
    BY <2>5, <2>6
<1>11. ASSUME NEW v \in Users PROVE TokenCallOK(v)'
  <2>1. CASE v = u
    <3>1. tokenCall'[v].op = "None"
      BY <1>2, <2>1 DEF TokenInv, TokenTyped
    <3> QED
      BY <3>1 DEF TokenCallOK, Assigning
  <2>2. CASE v # u
    <3>1. SweepAllows(u)
      BY DEF SweepAllows
    <3>2. sweeper # v
      BY <2>2, TokenAssumption
    <3>3. v \in Users \ {u} /\ {k} \in SUBSET Tokens
      BY <2>2
    <3> QED
      BY <1>8, <3>1, <3>2, <3>3, OthersCallsAreOK
  <2> QED
    BY <2>1, <2>2
<1>12. \A d \in Table : d \in Table' /\ rep'[d] = rep[d]
  BY <1>3 DEF Table
<1>13. a \in Table' /\ rep'[a].str = s
  BY <1>1, <1>3 DEF Table
<1>14. ASSUME NEW j \in Tokens PROVE Holds(j)' /\ Knows(j)'
  <2>1. CASE j = k
    <3>1. token'[j].at = a /\ made'[j] = s
      BY <1>4, <1>5, <2>1
    <3>2. Holds(j)'
      BY <1>13, <3>1 DEF Holds
    <3>3. Knows(j)'
      <4>1. SUFFICES ASSUME ~token'[j].counted PROVE ~IsCounted(rep'[a])
        BY <1>13, <3>1 DEF Knows
      <4>2. token'[j].counted = b
        BY <1>4, <1>5, <2>1
      <4> QED
        BY <1>1, <1>3, <4>1, <4>2
    <3> QED
      BY <3>2, <3>3
  <2>2. CASE j # k
    <3>1. /\ token'[j] = token[j] /\ made'[j] = made[j] /\ Holds(j) /\ Knows(j)
      BY <1>5, <2>2 DEF TokenInv
    <3>2. HasLetGo(j)' <=> HasLetGo(j)
      BY <1>8, <2>2, CallsAfter
    <3>3. Holds(j)'
      BY <1>12, <3>1, <3>2 DEF Holds, Has
    <3>4. Knows(j)'
      BY <1>12, <3>1 DEF Knows, Has
    <3> QED
      BY <3>3, <3>4
  <2> QED
    BY <2>1, <2>2
<1>15. \A d, e \in Table' : rep'[d].str = rep'[e].str => d = e
  <2>1. \A d \in Table' : d \in Addresses /\ (d = a \/ (d \in Table /\ rep'[d] = rep[d]))
    BY <1>3 DEF Table
  <2>2. \A d \in Table' : rep'[d].str = s => d = a
    BY <2>1
  <2>3. \A d, e \in Table : rep[d].str = rep[e].str => d = e
    BY DEF TokenInv
  <2> QED
    BY <1>13, <2>1, <2>2, <2>3
<1> QED
  BY <1>6, <1>9, <1>10, <1>11, <1>14, <1>15 DEF TokenInv

\* A representation is found that is immortal, or becomes so.
LEMMA UncountedIsFound ==
  ASSUME TokenInv, NEW u \in Users, NEW k \in Tokens, NEW s \in Strings, NEW a \in FindRep(s),
         MayMake(u, k), sweeper = Anyone, UNCHANGED <<sweeper, tokenCall>>,
         Points(k, a, FALSE, s), rep' = [rep EXCEPT ![a].count = 0]
  PROVE  TokenInv'
<1>1. FALSE \in BOOLEAN /\ 0 \in Int
  OBVIOUS
<1>2. 0 # 0 <=> FALSE = TRUE
  OBVIOUS
<1> QED
  BY <1>1, <1>2, TokenIsFound, ZenonT(30)

\* A counted representation is found, and gets a reference.
LEMMA CountedIsFound ==
  ASSUME TokenInv, NEW u \in Users, NEW k \in Tokens, NEW s \in Strings, NEW a \in FindRep(s),
         MayMake(u, k), sweeper = Anyone, UNCHANGED <<sweeper, tokenCall>>,
         IsCounted(rep[a]), Points(k, a, TRUE, s), rep' = [rep EXCEPT ![a].count = rep[a].count + 2]
  PROVE  TokenInv'
<1>1. rep[a].count + 2 \in Int /\ rep[a].count + 2 # 0
  <2>1. a \in Addresses
    BY DEF FindRep, Table
  <2>2. rep[a].count = 1 + 2 * Referring(a) /\ Referring(a) \in Nat
    BY <2>1, ReferringType DEF TokenInv, Accounts
  <2> QED
    BY <2>2
<1>2. rep[a].count + 2 # 0 <=> TRUE = TRUE
  BY <1>1
<1>3. TRUE \in BOOLEAN
  OBVIOUS
<1> QED
  BY <1>1, <1>2, <1>3, TokenIsFound, ZenonT(30)

\* GetFound: the string is there.
LEMMA LookupFinds ==
  ASSUME TokenInv, NEW u \in Users, NEW k \in Tokens, NEW s \in Strings, NEW immortal \in BOOLEAN,
         GetFound(u, k, s, immortal)
  PROVE  TokenInv'
<1>1. PICK a \in FindRep(s) : /\ MayMake(u, k) /\ sweeper = Anyone
                              /\ rep' = [rep EXCEPT ![a] = Found(@, immortal)]
                              /\ Points(k, a, IsCounted(rep[a]) /\ ~immortal, s)
                              /\ UNCHANGED <<sweepIn, sweeper, tokenCall>>
  BY DEF GetFound
<1>2. MayMake(u, k) /\ sweeper = Anyone /\ UNCHANGED <<sweeper, tokenCall>>
  BY <1>1
<1>3. a \in Addresses /\ (~IsCounted(rep[a]) => rep[a].count = 0)
  BY DEF FindRep, Table, TokenInv, RepOK
<1>4. ASSUME NEW n, Found(rep[a], immortal) = [rep[a] EXCEPT !.count = n]
      PROVE  rep' = [rep EXCEPT ![a].count = n]
  BY <1>1, <1>4, Zenon
<1>5. CASE ~IsCounted(rep[a])
  <2>1. Found(rep[a], immortal) = [rep[a] EXCEPT !.count = 0]
    BY <1>3, <1>5 DEF Found
  <2>2. (IsCounted(rep[a]) /\ ~immortal) = FALSE
    BY <1>5, Zenon
  <2>3. Points(k, a, FALSE, s)
    BY <1>1, <2>2, Zenon
  <2>4. rep' = [rep EXCEPT ![a].count = 0]
    BY <1>4, <2>1
  <2> QED
    BY <1>2, <2>3, <2>4, UncountedIsFound
<1>6. CASE IsCounted(rep[a]) /\ immortal
  <2>1. Found(rep[a], immortal) = [rep[a] EXCEPT !.count = 0]
    BY <1>6 DEF Found
  <2>2. (IsCounted(rep[a]) /\ ~immortal) = FALSE
    BY <1>6, Zenon
  <2>3. Points(k, a, FALSE, s)
    BY <1>1, <2>2, Zenon
  <2>4. rep' = [rep EXCEPT ![a].count = 0]
    BY <1>4, <2>1
  <2> QED
    BY <1>2, <2>3, <2>4, UncountedIsFound
<1>7. CASE IsCounted(rep[a]) /\ ~immortal
  <2>1. Found(rep[a], immortal) = [rep[a] EXCEPT !.count = rep[a].count + 2]
    BY <1>7 DEF Found
  <2>2. (IsCounted(rep[a]) /\ ~immortal) = TRUE
    BY <1>7, Zenon
  <2>3. Points(k, a, TRUE, s)
    BY <1>1, <2>2, Zenon
  <2>4. rep' = [rep EXCEPT ![a].count = rep[a].count + 2] /\ IsCounted(rep[a])
    BY <1>4, <1>7, <2>1
  <2> QED
    BY <1>2, <2>3, <2>4, CountedIsFound
<1> QED
  BY <1>5, <1>6, <1>7

\* Find: the string is there.
LEMMA FindFinds ==
  ASSUME TokenInv, NEW u \in Users, NEW k \in Tokens, NEW s \in Strings, Find(u, k, s)
  PROVE  TokenInv'
<1>1. PICK a \in FindRep(s) : Add(a, 2) /\ Points(k, a, IsCounted(rep[a]), s)
  BY DEF Find
<1>2. MayMake(u, k) /\ sweeper = Anyone /\ UNCHANGED <<sweeper, tokenCall>>
  BY DEF Find
<1>3. CASE IsCounted(rep[a])
  <2>1. rep' = [rep EXCEPT ![a].count = rep[a].count + 2]
    BY <1>1, <1>3 DEF Add
  <2>2. IsCounted(rep[a]) = TRUE
    BY <1>3 DEF IsCounted
  <2>3. Points(k, a, TRUE, s)
    BY <1>1, <2>2, Zenon
  <2> QED
    BY <1>2, <1>3, <2>1, <2>3, CountedIsFound
<1>4. CASE ~IsCounted(rep[a])
  <2>1. rep' = [rep EXCEPT ![a].count = 0]
    BY <1>1, <1>4 DEF Add
  <2>2. IsCounted(rep[a]) = FALSE
    BY <1>4 DEF IsCounted
  <2>3. Points(k, a, FALSE, s)
    BY <1>1, <2>2, Zenon
  <2> QED
    BY <1>2, <2>1, <2>3, UncountedIsFound
<1> QED
  BY <1>3, <1>4

\* GetInserted: the string is not there, and no sweep is made.
LEMMA LookupInserts ==
  ASSUME TokenInv, NEW u \in Users, NEW k \in Tokens, NEW s \in Strings, NEW immortal \in BOOLEAN,
         GetInserted(u, k, s, immortal)
  PROVE  TokenInv'
<1>1. /\ MayMake(u, k) /\ sweeper = Anyone /\ FindRep(s) = {} /\ Insert(k, s, immortal)
      /\ UNCHANGED <<sweeper, tokenCall>>
  BY DEF GetInserted
<1>2. tokenCall[u] = NoCall /\ token[k] = NoToken /\ UserOf[k] \in {u, Anyone}
  BY <1>1 DEF MayMake, IsFree
<1>3. \A d \in Addresses : rep[d].str # s
  <2>1. s # ""
    BY TokenAssumption
  <2> QED
    BY <1>1, <2>1, TableIs DEF FindRep
<1>4. tokenCall' = [tokenCall EXCEPT ![u] = NoCall] /\ tokenCall[u].op \in {"None", "Sweep"}
  BY <1>1, <1>2, NoCallPends DEF TokenInv, TokenTyped
<1>5. ~Has(k) /\ sweeper \in {u, Anyone} /\ sweeper' = Anyone
  BY <1>1, <1>2 DEF Has
<1> QED
  BY <1>1, <1>2, <1>3, <1>4, <1>5, TokenIsInserted

\* SweepEnds: the sweep's string is inserted at last.
LEMMA SweepInserts ==
  ASSUME TokenInv, NEW u \in Users, SweepEnds(u)
  PROVE  TokenInv'
<1>0. PICK k, s, immortal : k = tokenCall[u].to /\ s = tokenCall[u].str /\ immortal = tokenCall[u].immortal
  OBVIOUS
<1>1. tokenCall[u].op = "Sweep" /\ Insert(k, s, immortal) /\ sweeper' = Anyone
      /\ tokenCall' = [tokenCall EXCEPT ![u] = NoCall]
  BY <1>0 DEF SweepEnds, InCall, Returns, Enters
<1>2. /\ k \in Tokens /\ s \in Strings /\ immortal \in BOOLEAN
      /\ sweeper = u /\ UserOf[k] \in {u, Anyone} /\ ~Has(k)
      /\ \A a \in Addresses : rep[a].str # s
  BY <1>0, <1>1, SweepIs
<1>3. tokenCall[u].op \in {"None", "Sweep"} /\ sweeper \in {u, Anyone} /\ sweeper' = Anyone
  BY <1>1, <1>2
<1> QED
  BY <1>1, <1>2, <1>3, TokenIsInserted

-----------------------------------------------------------------------------

\* Nothing is there at first.
LEMMA TokenStarts == TokenInit => TokenInv
<1> SUFFICES ASSUME TokenInit PROVE TokenInv
  OBVIOUS
<1>1. Unused \in [str : TokenTexts, count : Int] /\ ~IsCounted(Unused) /\ RepOK(Unused)
  BY UnusedIs
<1>2. \A a \in Addresses : rep[a] = Unused
  BY DEF TokenInit
<1>3. TokenTyped
  <2>1. NoCall \in TokenCalls /\ NoToken \in TokenStates /\ "" \in TokenTexts
    BY DEF TokenCalls, TokenStates, TokenTexts
  <2> QED
    BY <1>1, <2>1 DEF TokenInit, TokenTyped
<1>4. \A a \in Addresses : RepOK(rep[a]) /\ Accounts(a)
  BY <1>1, <1>2 DEF Accounts
<1>5. ASSUME NEW u \in Users PROVE TokenCallOK(u)
  <2>1. tokenCall[u].op = "None"
    BY NoCallPends DEF TokenInit
  <2> QED
    BY <2>1 DEF TokenCallOK, Assigning
<1>6. \A k \in Tokens : Holds(k) /\ Knows(k)
  BY DEF TokenInit, Holds, Knows, Has
<1>7. Table = {}
  BY <1>2 DEF Table
<1> QED
  BY <1>3, <1>4, <1>5, <1>6, <1>7 DEF TokenInv

\* A step of others leaves all as it is.
LEMMA TokenStutters ==
  ASSUME TokenInv, UNCHANGED tokenVars
  PROVE  TokenInv'
<1>1. UNCHANGED <<rep, sweepIn, sweeper, token, made, tokenCall>>
  BY DEF tokenVars
<1>2. TokenTyped'
  BY <1>1 DEF TokenInv, TokenTyped
<1>3. Table' = Table /\ \A k : (HasLetGo(k)' <=> HasLetGo(k)) /\ (Has(k)' <=> Has(k))
  BY <1>1 DEF Table, HasLetGo, Has, InCall
<1>4. \A k \in Tokens : Holds(k)' /\ Knows(k)'
  BY <1>1, <1>3 DEF TokenInv, Holds, Knows
<1>5. \A u \in Users : TokenCallOK(u)'
  BY <1>1 DEF TokenInv, TokenCallOK, Has
<1>6. \A a \in Addresses : RepOK(rep'[a]) /\ Accounts(a)'
  <2>1. \A a : Referring(a)' = Referring(a)
    BY <1>1 DEF Referring, Refs, Extras, Pending, Pend
  <2> QED
    BY <1>1, <2>1 DEF TokenInv, Accounts
<1> QED
  BY <1>1, <1>2, <1>3, <1>4, <1>5, <1>6 DEF TokenInv

\* Every step keeps the invariant.
LEMMA TokenInvariant == TokenSpec => []TokenInv
<1>1. ASSUME TokenInv, TokenNext PROVE TokenInv'
  <2> PICK u \in Users : TokenStep(u)
    BY <1>1 DEF TokenNext
  <2>1. CASE \E k \in Tokens, s \in Strings, immortal \in BOOLEAN : GetFound(u, k, s, immortal)
    BY <1>1, <2>1, LookupFinds
  <2>2. CASE \E k \in Tokens, s \in Strings, immortal \in BOOLEAN : GetInserted(u, k, s, immortal)
    BY <1>1, <2>2, LookupInserts
  <2>3. CASE \E k \in Tokens, s \in Strings, immortal \in BOOLEAN : GetSweeps(u, k, s, immortal)
    BY <1>1, <2>3, SweepBegins
  <2>4. CASE \E k \in Tokens, s \in Strings : Find(u, k, s)
    BY <1>1, <2>4, FindFinds
  <2>5. CASE SweepStep(u)
    BY <1>1, <2>5, SweepLooks
  <2>6. CASE SweepErase(u)
    BY <1>1, <2>6, GarbageIsErased
  <2>7. CASE SweepEnds(u)
    BY <1>1, <2>7, SweepInserts
  <2>8. CASE \E from, to \in Tokens : CopyBegins(u, from, to)
    BY <1>1, <2>8, CopyIsBegun
  <2>9. CASE \E from, to \in Tokens : AssignBegins(u, from, to)
    BY <1>1, <2>9, AssignmentIsBegun
  <2>10. CASE \E from, to \in Tokens : Move(u, from, to)
    BY <1>1, <2>10, TokenIsMoved
  <2>11. CASE CopyAddRef(u)
    BY <1>1, <2>11, CopyIsCounted
  <2>12. CASE AssignAddRef(u)
    BY <1>1, <2>12, AssignmentIsCounted
  <2>13. CASE AssignRemoveRef(u)
    BY <1>1, <2>13, AssignmentLetsGo
  <2>14. CASE AssignStore(u)
    BY <1>1, <2>14, AssignmentIsStored
  <2>15. CASE \E k \in Tokens : Drop(u, k)
    BY <1>1, <2>15, TokenIsDropped
  <2>16. CASE \E k \in Tokens : IsImmortal(u, k)
    BY <1>1, <2>16, BeliefIsUpdated
  <2> QED
    BY <2>1, <2>2, <2>3, <2>4, <2>5, <2>6, <2>7, <2>8, <2>9, <2>10, <2>11, <2>12, <2>13, <2>14,
       <2>15, <2>16 DEF TokenStep
<1>2. TokenInv /\ [TokenNext]_tokenVars => TokenInv'
  BY <1>1, TokenStutters
<1> QED
  BY <1>2, TokenStarts, PTL DEF TokenSpec

\* The property's way of counting references is the invariant's.
LEMMA ReferencesAre ==
  ASSUME TokenInv, NEW a
  PROVE  Cardinality({k \in Tokens : token[k].at = a}) + Extra(a) - Lacking(a) = Referring(a)
<1> PICK P, L : /\ P = {k \in Tokens : token[k].at = a}
                /\ L = {k \in Tokens : token[k].at = a /\ Pending(k)}
  OBVIOUS
<1>1. Extra(a) = Cardinality(Extras(a))
  <2>1. \A u \in Users : tokenCall[u].op \in {"AssignRemove", "AssignStore"} =>
          tokenCall[u].from \in Tokens
    BY CallFields DEF TokenInv, TokenTyped, Assigning, AssignCalls
  <2>2. {u \in Users :
           \E from \in Tokens : /\ tokenCall[u].op \in {"AssignRemove", "AssignStore"}
                                /\ from = tokenCall[u].from /\ token[from].at = a} = Extras(a)
    BY <2>1 DEF Extras
  <2> QED
    BY <2>2 DEF Extra
<1>2. Lacking(a) = Cardinality(L)
  <2>1. \A k : Pending(k) <=> HasLetGo(k) \/ \E u \in Users : InCall(u, "Copy") /\ tokenCall[u].to = k
    BY DEF Pending, Pend, HasLetGo, InCall
  <2>2. L = {k \in Tokens : token[k].at = a /\
               (HasLetGo(k) \/ \E u \in Users : InCall(u, "Copy") /\ tokenCall[u].to = k)}
    BY <2>1
  <2> QED
    BY <2>2 DEF Lacking
<1>3. Refs(a) = P \ L /\ P \cap L = L /\ L \subseteq P
  BY DEF Refs
<1>4. IsFiniteSet(P) /\ IsFiniteSet(L)
  <2>1. P \subseteq Tokens
    OBVIOUS
  <2> QED
    BY <1>3, <2>1, TokenAssumption, FS_Subset
<1>5. Cardinality(P \ L) = Cardinality(P) - Cardinality(P \cap L)
  BY <1>4, FS_Difference
<1>6. Cardinality(P) \in Nat /\ Cardinality(L) \in Nat /\ Cardinality(Extras(a)) \in Nat
  BY <1>4, ReferringType, FS_CardinalityType
<1>7. Referring(a) = Cardinality(P) - Cardinality(L) + Cardinality(Extras(a))
  BY <1>3, <1>5 DEF Referring
<1> QED
  BY <1>1, <1>2, <1>6, <1>7

\* Whatever the threads do with however many tokens of a set, and whenever it is swept: a
\* token's representation is in the set, under the token's string and once only; and who
\* refers to a counted one is counted exactly (token.cpp:170-280, token.h:73-107, :324-397).
THEOREM TokenReferencesAccount == TokenSpec => []TokensAccount
<1>1. ASSUME TokenInv PROVE TokensAccount
  <2>1. TokensHoldTheirString
    BY <1>1 DEF TokenInv, TokensHoldTheirString, Holds
  <2>2. TokenCountsAccount
    <3> SUFFICES ASSUME NEW a \in Table, IsCounted(rep[a])
                 PROVE  /\ rep[a].count = 1 + 2 * (Cardinality({k \in Tokens : token[k].at = a})
                                                   + Extra(a) - Lacking(a))
                        /\ \A k \in Tokens : token[k].at = a => token[k].counted
      BY DEF TokenCountsAccount
    <3>1. a \in Addresses
      BY DEF Table
    <3>2. rep[a].count = 1 + 2 * Referring(a)
      BY <1>1, <3>1 DEF TokenInv, Accounts
    <3>3. Cardinality({k \in Tokens : token[k].at = a}) + Extra(a) - Lacking(a) = Referring(a)
      BY <1>1, ReferencesAre
    <3>4. ASSUME NEW k \in Tokens, token[k].at = a PROVE token[k].counted
      <4>1. Has(k)
        BY <3>1, <3>4, NoTokenIsNowhere DEF Has
      <4> QED
        BY <1>1, <3>4, <4>1 DEF TokenInv, Knows
    <3> QED
      BY <3>2, <3>3, <3>4
  <2> QED
    BY <2>1, <2>2 DEF TokensAccount
<1> QED
  BY <1>1, TokenInvariant, PTL

-----------------------------------------------------------------------------
(* TfMallocTag.  First what a sum over a finite set is: the library's fold  *)
(* is a recursion over sets, of which it is shown by induction over their  *)
(* size that it defines a function, that the order of the members does not *)
(* matter, and what a changed value or another member does to the sum.     *)

\* The sum over s, given those over smaller sets.
SumStep(f, sums, s) ==
  IF s = {} THEN 0 ELSE sums[s \ {CHOOSE x \in s : TRUE}] + f[CHOOSE x \in s : TRUE]

\* A sum is the last value of a recursion over sets.
LEMMA SumIsRecursion ==
  ASSUME NEW f, NEW S
  PROVE  SumOf(f, S) = (CHOOSE sums : sums = [s \in SUBSET S |-> SumStep(f, sums, s)])[S]
<1>1. SumOf(f, S) = FoldSet(LAMBDA x, sum : sum + f[x], 0, S)
  BY DEF SumOf
<1>2. @ = MapThenFoldSet(LAMBDA x, sum : sum + f[x], 0, LAMBDA x : x,
                         LAMBDA s : CHOOSE x \in s : TRUE, S)
  BY DEF FoldSet
<1>3. @ = (CHOOSE sums : sums = [s \in SUBSET S |-> 
              IF s = {} THEN 0 ELSE sums[s \ {CHOOSE x \in s : TRUE}] + f[CHOOSE x \in s : TRUE]])[S]
  BY DEF MapThenFoldSet
<1> QED
  BY <1>1, <1>2, <1>3 DEF SumStep

\* The recursion defines a function.
LEMMA SumsExist ==
  ASSUME NEW f, NEW S, IsFiniteSet(S)
  PROVE  \E sums : sums = [s \in SUBSET S |-> SumStep(f, sums, s)]
<1> DEFINE Small(m) == {s \in SUBSET S : Cardinality(s) <= m}
           Good(m) == \E sums : sums = [s \in Small(m) |-> SumStep(f, sums, s)]
           G == {m \in Nat : Good(m)}
<1>0. \A s \in SUBSET S : IsFiniteSet(s) /\ Cardinality(s) \in Nat
  BY FS_Subset, FS_CardinalityType
<1>1. 0 \in G
  <2> DEFINE sums == [s \in Small(0) |-> 0]
  <2>1. \A s \in Small(0) : s = {}
    <3>1. \A s \in Small(0) : Cardinality(s) = 0
      BY <1>0
    <3> QED
      BY <1>0, <3>1, FS_EmptySet
  <2>2. sums = [s \in Small(0) |-> SumStep(f, sums, s)]
    <3> HIDE DEF Small
    <3> QED
      BY <2>1 DEF SumStep
  <2> QED
    BY <2>2
<1>2. ASSUME NEW m \in G PROVE m + 1 \in G
  <2>1. PICK sums : sums = [s \in Small(m) |-> SumStep(f, sums, s)]
    OBVIOUS
  <2> DEFINE more == [s \in Small(m + 1) |-> SumStep(f, sums, s)]
  <2>2. \A s \in Small(m + 1) : s # {} => s \ {CHOOSE x \in s : TRUE} \in Small(m)
    <3>1. SUFFICES ASSUME NEW s \in Small(m + 1), s # {} PROVE s \ {CHOOSE x \in s : TRUE} \in Small(m)
      OBVIOUS
    <3>2. PICK y : y = (CHOOSE x \in s : TRUE)
      OBVIOUS
    <3>3. y \in s
      BY <3>1, <3>2
    <3>4. Cardinality(s \ {y}) = Cardinality(s) - 1 /\ s \in SUBSET S /\ Cardinality(s) <= m + 1
      BY <1>0, <3>1, <3>3, FS_RemoveElement
    <3>5. m \in Nat /\ Cardinality(s) \in Nat
      BY <1>0, <3>1
    <3>6. s \ {y} \in Small(m)
      BY <3>4, <3>5
    <3> QED
      BY <3>6, <3>2
  <2>3. Small(m) \subseteq Small(m + 1)
    <3>1. \A s \in Small(m) : Cardinality(s) \in Nat /\ m \in Nat
      BY <1>0
    <3> QED
      BY <3>1
  <2> HIDE DEF Small
  <2>4. \A s \in Small(m) : more[s] = sums[s]
    BY <2>1, <2>3
  <2>5. \A s \in Small(m + 1) : SumStep(f, more, s) = SumStep(f, sums, s)
    <3> HIDE DEF more
    <3>1. SUFFICES ASSUME NEW s \in Small(m + 1) PROVE SumStep(f, more, s) = SumStep(f, sums, s)
      OBVIOUS
    <3>2. CASE s = {}
      BY <3>2 DEF SumStep
    <3>3. CASE s # {}
      <4>1. more[s \ {CHOOSE x \in s : TRUE}] = sums[s \ {CHOOSE x \in s : TRUE}]
        BY <3>3, <2>2, <2>4
      <4> QED
        BY <3>3, <4>1 DEF SumStep
    <3> QED
      BY <3>2, <3>3
  <2>6. more = [s \in Small(m + 1) |-> SumStep(f, more, s)]
    <3>1. \A s \in Small(m + 1) : more[s] = SumStep(f, more, s)
      BY <2>5
    <3> QED
      BY <3>1
  <2>7. Good(m + 1)
    BY <2>6
  <2> QED
    BY <2>7
<1>3. G = Nat
  <2> HIDE DEF G
  <2> QED
    BY <1>1, <1>2, AllNumbers DEF G
<1>4. Cardinality(S) \in G /\ Small(Cardinality(S)) = SUBSET S
  <2>1. \A s \in SUBSET S : Cardinality(s) <= Cardinality(S)
    BY FS_Subset
  <2> QED
    BY <1>0, <1>3, <2>1
<1> QED
  BY <1>4

\* sums has the sum of f over every set of members of S.
Sums(f, S, sums) == \A s \in SUBSET S : sums[s] = SumStep(f, sums, s)

\* What a sum over a finite set is, element by element.
LEMMA SumUnfolds ==
  ASSUME NEW f, NEW S, IsFiniteSet(S)
  PROVE  \E sums : Sums(f, S, sums) /\ SumOf(f, S) = sums[S]
<1> DEFINE Solves(sums) == sums = [s \in SUBSET S |-> SumStep(f, sums, s)]
           sums == CHOOSE iter : Solves(iter)
<1>1. \E iter : Solves(iter)
  BY SumsExist
<1>2. Solves(sums)
  <2> HIDE DEF Solves
  <2> QED
    BY <1>1
<1>3. SumOf(f, S) = sums[S]
  BY SumIsRecursion
<1>4. Solves(sums) => Sums(f, S, sums)
  <2> HIDE DEF sums
  <2> QED
    BY DEF Sums
<1> HIDE DEF sums
<1> QED
  BY <1>2, <1>3, <1>4

\* It defines one, and it only looks at the members of the set.
LEMMA SumsAgree ==
  ASSUME NEW S, IsFiniteSet(S), NEW T \in SUBSET S, NEW f, NEW g, \A x \in T : f[x] = g[x],
         NEW sums, Sums(f, S, sums), NEW tums, Sums(g, T, tums)
  PROVE  sums[T] = tums[T]
<1> DEFINE G == {m \in Nat : \A s \in SUBSET T : Cardinality(s) <= m => sums[s] = tums[s]}
<1>0. \A s \in SUBSET T : IsFiniteSet(s) /\ Cardinality(s) \in Nat
  BY FS_Subset, FS_CardinalityType
<1>1. \A s \in SUBSET T : sums[s] = SumStep(f, sums, s) /\ tums[s] = SumStep(g, tums, s)
  <2>1. \A s \in SUBSET T : s \in SUBSET S
    OBVIOUS
  <2> QED
    BY <2>1 DEF Sums
<1>2. 0 \in G
  <2>1. SUFFICES ASSUME NEW s \in SUBSET T, Cardinality(s) <= 0 PROVE sums[s] = tums[s]
    OBVIOUS
  <2>2. s = {}
    BY <1>0, <2>1, FS_EmptySet
  <2> QED
    BY <1>1, <2>2 DEF SumStep
<1>3. ASSUME NEW m \in G PROVE m + 1 \in G
  <2>0. m \in Nat /\ \A s \in SUBSET T : Cardinality(s) <= m => sums[s] = tums[s]
    OBVIOUS
  <2>1. SUFFICES ASSUME NEW s \in SUBSET T, Cardinality(s) <= m + 1 PROVE sums[s] = tums[s]
    BY <2>0
  <2>2. CASE s = {}
    BY <1>1, <2>2 DEF SumStep
  <2>3. CASE s # {}
    <3>1. PICK c : c = (CHOOSE x \in s : TRUE)
      OBVIOUS
    <3>2. c \in s
      BY <3>1, <2>3
    <3>3. s \ {c} \in SUBSET T /\ Cardinality(s \ {c}) = Cardinality(s) - 1
      BY <1>0, <3>2, FS_RemoveElement
    <3>4. m \in Nat /\ Cardinality(s) \in Nat
      BY <1>0
    <3>5. sums[s \ {c}] = tums[s \ {c}]
      BY <2>0, <2>1, <3>3, <3>4
    <3>6. f[c] = g[c]
      BY <3>2
    <3>7. sums[s] = sums[s \ {c}] + f[c] /\ tums[s] = tums[s \ {c}] + g[c]
      BY <1>1, <2>3, <3>1 DEF SumStep
    <3> QED
      BY <3>5, <3>6, <3>7
  <2> QED
    BY <2>2, <2>3
<1>4. G = Nat
  <2> HIDE DEF G
  <2> QED
    BY <1>2, <1>3, AllNumbers DEF G
<1> QED
  <2>1. Cardinality(T) \in G /\ T \in SUBSET T
    BY <1>0, <1>4
  <2> QED
    BY <1>0, <2>1

\* Functions that agree on a set have the same sum over it.
LEMMA SumOfSame ==
  ASSUME NEW S, IsFiniteSet(S), NEW f, NEW g, \A x \in S : f[x] = g[x]
  PROVE  SumOf(f, S) = SumOf(g, S)
<1>1. PICK sums : Sums(f, S, sums) /\ SumOf(f, S) = sums[S]
  BY SumUnfolds
<1>2. PICK tums : Sums(g, S, tums) /\ SumOf(g, S) = tums[S]
  BY SumUnfolds
<1> QED
  BY <1>1, <1>2, SumsAgree

\* A sum is a member's value more than the sum over the others; so is said of the one
\* member that the recursion starts with.
LEMMA SumFirst ==
  ASSUME NEW S, IsFiniteSet(S), NEW f
  PROVE  /\ S = {} => SumOf(f, S) = 0
         /\ S # {} => \E x \in S : SumOf(f, S) = SumOf(f, S \ {x}) + f[x]
<1>1. PICK sums : Sums(f, S, sums) /\ SumOf(f, S) = sums[S]
  BY SumUnfolds
<1>2. sums[S] = SumStep(f, sums, S)
  BY <1>1 DEF Sums
<1>3. CASE S = {}
  BY <1>1, <1>2, <1>3 DEF SumStep
<1>4. CASE S # {}
  <2>1. PICK c : c = (CHOOSE x \in S : TRUE)
    OBVIOUS
  <2>2. c \in S
    BY <1>4, <2>1
  <2>3. IsFiniteSet(S \ {c}) /\ S \ {c} \in SUBSET S
    BY FS_RemoveElement
  <2>4. PICK tums : Sums(f, S \ {c}, tums)
                    /\ SumOf(f, S \ {c}) = tums[S \ {c}]
    BY <2>3, SumUnfolds
  <2>5. sums[S \ {c}] = tums[S \ {c}]
    BY <1>1, <2>3, <2>4, SumsAgree
  <2>6. sums[S] = sums[S \ {c}] + f[c]
    BY <1>2, <1>4, <2>1 DEF SumStep
  <2> QED
    BY <1>1, <1>4, <2>2, <2>4, <2>5, <2>6
<1> QED
  BY <1>3, <1>4

\* And of every member: the order does not matter.
LEMMA SumSplits ==
  ASSUME NEW S, IsFiniteSet(S), NEW f, \A x \in S : f[x] \in Int
  PROVE  /\ SumOf(f, S) \in Int
         /\ \A x \in S : SumOf(f, S) = SumOf(f, S \ {x}) + f[x]
<1> DEFINE Splits(T) == /\ SumOf(f, T) \in Int
                        /\ \A x \in T : SumOf(f, T) = SumOf(f, T \ {x}) + f[x]
           G == {m \in Nat : \A T \in SUBSET S : Cardinality(T) <= m => Splits(T)}
<1>0. \A T \in SUBSET S : IsFiniteSet(T) /\ Cardinality(T) \in Nat
  BY FS_Subset, FS_CardinalityType
<1>1. \A T \in SUBSET S : T = {} => Splits(T)
  <2>1. SumOf(f, {}) = 0
    BY SumFirst, FS_EmptySet
  <2> QED
    BY <2>1
<1>2. 0 \in G
  <2> HIDE DEF Splits
  <2>1. \A T \in SUBSET S : Cardinality(T) <= 0 => T = {}
    BY <1>0, FS_EmptySet
  <2> QED
    BY <1>1, <2>1
<1>3. ASSUME NEW m \in G PROVE m + 1 \in G
  <2>1. SUFFICES ASSUME NEW T \in SUBSET S, Cardinality(T) <= m + 1, T # {} PROVE Splits(T)
    <3> HIDE DEF Splits
    <3> QED
      BY <1>1
  <2>2. PICK c \in T : SumOf(f, T) = SumOf(f, T \ {c}) + f[c]
    BY <1>0, <2>1, SumFirst
  <2>3. ASSUME NEW x \in T PROVE Splits(T \ {x})
    <3>1. T \ {x} \in SUBSET S /\ Cardinality(T \ {x}) = Cardinality(T) - 1
      BY <1>0, FS_RemoveElement
    <3>2. m \in Nat /\ Cardinality(T) \in Nat /\ Cardinality(T \ {x}) <= m
      BY <1>0, <2>1, <3>1
    <3> HIDE DEF Splits
    <3> QED
      BY <3>1, <3>2
  <2>4. \A x \in T : f[x] \in Int /\ SumOf(f, T \ {x}) \in Int
    BY <2>3
  <2>5. ASSUME NEW x \in T, x # c PROVE SumOf(f, T) = SumOf(f, T \ {x}) + f[x]
    <3>0. PICK rest : rest = (T \ {c}) \ {x}
      OBVIOUS
    <3>1. SumOf(f, T \ {c}) = SumOf(f, rest) + f[x]
      <4>1. x \in T \ {c}
        BY <2>5
      <4> QED
        BY <2>3, <3>0, <4>1
    <3>2. SumOf(f, T \ {x}) = SumOf(f, rest) + f[c]
      <4>1. c \in T \ {x}
        BY <2>5
      <4>2. rest = (T \ {x}) \ {c}
        BY <3>0
      <4>3. SumOf(f, T \ {x}) = SumOf(f, (T \ {x}) \ {c}) + f[c]
        BY <2>3, <4>1
      <4> QED
        BY <4>2, <4>3
    <3>4. SumOf(f, rest) \in Int
      <4>1. (T \ {c}) \ {x} \in SUBSET S
        OBVIOUS
      <4>2. Cardinality((T \ {c}) \ {x}) <= m
        <5>1. IsFiniteSet(T \ {c}) /\ Cardinality(T \ {c}) = Cardinality(T) - 1
          BY <1>0, FS_RemoveElement
        <5>2. Cardinality((T \ {c}) \ {x}) = Cardinality(T \ {c}) - 1
          BY <5>1, <2>5, FS_RemoveElement
        <5>3. m \in Nat /\ Cardinality(T) \in Nat
          BY <1>0
        <5> QED
          BY <2>1, <5>1, <5>2, <5>3
      <4> QED
        BY <3>0, <4>1, <4>2
    <3>5. f[x] \in Int /\ f[c] \in Int
      BY <2>4
    <3> QED
      BY <2>2, <3>1, <3>2, <3>4, <3>5
  <2>6. SumOf(f, T) \in Int
    BY <2>2, <2>4
  <2>7. \A x \in T : SumOf(f, T) = SumOf(f, T \ {x}) + f[x]
    BY <2>2, <2>5
  <2> QED
    BY <2>6, <2>7
<1>4. G = Nat
  <2> HIDE DEF G
  <2> QED
    BY <1>2, <1>3, AllNumbers DEF G
<1> QED
  <2>1. Cardinality(S) \in G /\ S \in SUBSET S /\ Cardinality(S) <= Cardinality(S)
    BY <1>0, <1>4
  <2> QED
    BY <2>1

\* A sum of nothing but zeros.
LEMMA SumOfNothing ==
  ASSUME NEW S, IsFiniteSet(S), NEW f, \A x \in S : f[x] = 0
  PROVE  SumOf(f, S) = 0
<1> DEFINE G == {m \in Nat : \A T \in SUBSET S : Cardinality(T) <= m => SumOf(f, T) = 0}
<1>0. \A T \in SUBSET S : IsFiniteSet(T) /\ Cardinality(T) \in Nat
  BY FS_Subset, FS_CardinalityType
<1>1. 0 \in G
  <2>1. \A T \in SUBSET S : Cardinality(T) <= 0 => T = {}
    BY <1>0, FS_EmptySet
  <2>2. SumOf(f, {}) = 0
    BY SumFirst, FS_EmptySet
  <2> QED
    BY <2>1, <2>2
<1>2. ASSUME NEW m \in G PROVE m + 1 \in G
  <2>0. m \in Nat /\ \A T \in SUBSET S : Cardinality(T) <= m => SumOf(f, T) = 0
    OBVIOUS
  <2>1. SUFFICES ASSUME NEW T \in SUBSET S, Cardinality(T) <= m + 1 PROVE SumOf(f, T) = 0
    BY <2>0
  <2>2. CASE T = {}
    BY <1>0, <2>2, SumFirst
  <2>3. CASE T # {}
    <3>1. PICK x \in T : SumOf(f, T) = SumOf(f, T \ {x}) + f[x]
      BY <1>0, <2>3, SumFirst
    <3>2. T \ {x} \in SUBSET S /\ Cardinality(T \ {x}) = Cardinality(T) - 1
      BY <1>0, FS_RemoveElement
    <3>3. Cardinality(T \ {x}) <= m
      BY <1>0, <2>0, <2>1, <3>2
    <3>4. SumOf(f, T \ {x}) = 0 /\ f[x] = 0
      BY <2>0, <3>2, <3>3
    <3> QED
      BY <3>1, <3>4
  <2> QED
    BY <2>2, <2>3
<1>3. G = Nat
  <2> HIDE DEF G
  <2> QED
    BY <1>1, <1>2, AllNumbers DEF G
<1> QED
  <2>1. Cardinality(S) \in G /\ S \in SUBSET S /\ Cardinality(S) <= Cardinality(S)
    BY <1>0, <1>3
  <2> QED
    BY <2>1

\* Changing one value changes the sum by as much.
LEMMA SumChanges ==
  ASSUME NEW S, IsFiniteSet(S), NEW f, NEW g, NEW y \in S,
         \A x \in S : f[x] \in Int /\ g[x] \in Int,
         \A x \in S \ {y} : f[x] = g[x]
  PROVE  SumOf(g, S) = SumOf(f, S) + (g[y] - f[y])
<1>1. IsFiniteSet(S \ {y})
  BY FS_RemoveElement
<1>2. SumOf(f, S \ {y}) = SumOf(g, S \ {y}) /\ SumOf(f, S \ {y}) \in Int
  BY <1>1, SumOfSame, SumSplits
<1>3. SumOf(f, S) = SumOf(f, S \ {y}) + f[y] /\ SumOf(g, S) = SumOf(g, S \ {y}) + g[y]
  BY SumSplits
<1> QED
  BY <1>2, <1>3

\* So does a new member.
LEMMA SumGrows ==
  ASSUME NEW S, IsFiniteSet(S), NEW f, NEW y, y \notin S,
         \A x \in S \cup {y} : f[x] \in Int
  PROVE  SumOf(f, S \cup {y}) = SumOf(f, S) + f[y]
<1>1. IsFiniteSet(S \cup {y}) /\ (S \cup {y}) \ {y} = S
  BY FS_AddElement
<1> QED
  BY <1>1, SumSplits

-----------------------------------------------------------------------------
(* The books. *)

BlockInfos == [size : Nat, node : Seq(Tags)]
MallocCalls ==
  {Idle} \cup [op : {"Emplace"}, tag : Tags, flag : BOOLEAN]
    \cup [op : {"Malloced", "Moved", "Free"}, block : Blocks]
    \cup [op : {"ReadMax"}, block : Blocks, newTotal : Int]
    \cup [op : {"StoreMax"}, block : Blocks, max : Int]
    \cup [op : {"Move"}, block : Blocks, size : BlockSizes]

MallocTyped ==
  /\ heap \in [Blocks -> Nat] /\ info \in [Blocks -> BlockInfos]
  /\ nodes \in [DOMAIN nodes -> [bytes : Int, allocs : Int]]
  /\ sites \in [DOMAIN sites -> [bytes : Int, trace : BOOLEAN]]
  /\ total \in Int /\ maxTotal \in Int
  /\ tagStack \in [Mallocers -> Seq(DOMAIN nodes)]
  /\ mallocCall \in [Mallocers -> MallocCalls]

\* Every node is a path of tags, and every tag of one has its site.
PathsAreKnown ==
  /\ IsFiniteSet(DOMAIN nodes) /\ DOMAIN nodes \subseteq Seq(Tags) /\ <<>> \in DOMAIN nodes
  /\ \A p \in DOMAIN nodes : Tag(p) \in DOMAIN sites

\* A block that is registered has been allocated under a known path.
BilledAreKnown == \A b \in Blocks :
  info[b] # NoBlock => info[b].node \in DOMAIN nodes /\ heap[b] > 0

\* A call has its block for itself, and until it registers it nobody else does.
Unbilled == {"Malloced", "Moved", "Free", "Move"}
BlocksAreOwned ==
  /\ \A t \in Mallocers, b \in Blocks :
       Uses(t, b) => /\ heap[b] > 0
                     /\ mallocCall[t].op \in Unbilled => info[b] = NoBlock
  /\ \A t, u \in Mallocers, b \in Blocks : Uses(t, b) /\ Uses(u, b) => t = u

MallocInv == MallocTyped /\ PathsAreKnown /\ BilledAreKnown /\ BlocksAreOwned /\ SumsBalance

\* What is billed to the nodes of a tag is billed to its site.
LEMMA SitesFollowNodes ==
  ASSUME MallocInv, NEW node \in DOMAIN nodes, NEW d \in Int, NEW n \in Int, Bill(node, d, n)
  PROVE  /\ SitesBalance'
         /\ nodes' \in [DOMAIN nodes -> [bytes : Int, allocs : Int]]
         /\ sites' \in [DOMAIN sites -> [bytes : Int, trace : BOOLEAN]]
         /\ \A p \in DOMAIN nodes :
              /\ nodes'[p].bytes = IF p = node THEN nodes[p].bytes + d ELSE nodes[p].bytes
              /\ nodes'[p].allocs = IF p = node THEN nodes[p].allocs + n ELSE nodes[p].allocs
<1>1. /\ nodes \in [DOMAIN nodes -> [bytes : Int, allocs : Int]]
      /\ sites \in [DOMAIN sites -> [bytes : Int, trace : BOOLEAN]]
      /\ Tag(node) \in DOMAIN sites
  BY DEF MallocInv, MallocTyped, PathsAreKnown
<1>2. /\ nodes' \in [DOMAIN nodes -> [bytes : Int, allocs : Int]]
      /\ \A p \in DOMAIN nodes :
              /\ nodes'[p].bytes = IF p = node THEN nodes[p].bytes + d ELSE nodes[p].bytes
              /\ nodes'[p].allocs = IF p = node THEN nodes[p].allocs + n ELSE nodes[p].allocs
  BY <1>1 DEF Bill
<1>3. /\ sites' \in [DOMAIN sites -> [bytes : Int, trace : BOOLEAN]]
      /\ \A s \in DOMAIN sites :
           sites'[s].bytes = IF s = Tag(node) THEN sites[s].bytes + d ELSE sites[s].bytes
  BY <1>1 DEF Bill
<1>4. DOMAIN nodes' = DOMAIN nodes /\ DOMAIN sites' = DOMAIN sites
  BY <1>2, <1>3
<1>5. ASSUME NEW s \in DOMAIN sites
      PROVE  sites'[s].bytes = SumOf(NodeBytes', {p \in DOMAIN nodes' : Tag(p) = s})
  <2> DEFINE P == {p \in DOMAIN nodes : Tag(p) = s}
  <2>1. IsFiniteSet(P) /\ {p \in DOMAIN nodes' : Tag(p) = s} = P
    BY <1>4, FS_Subset DEF MallocInv, PathsAreKnown
  <2>2. sites[s].bytes = SumOf(NodeBytes, P)
    BY DEF MallocInv, SumsBalance, SitesBalance
  <2>3. \A p \in P : /\ NodeBytes[p] \in Int /\ NodeBytes'[p] \in Int
                     /\ NodeBytes[p] = nodes[p].bytes /\ NodeBytes'[p] = nodes'[p].bytes
    BY <1>1, <1>2, <1>4 DEF NodeBytes
  <2>4. CASE s = Tag(node)
    <3>1. node \in P
      BY <2>4
    <3>2. \A p \in P \ {node} : NodeBytes[p] = NodeBytes'[p]
      BY <1>2, <2>3
    <3> HIDE DEF P
    <3>3. SumOf(NodeBytes', P) = SumOf(NodeBytes, P) + (NodeBytes'[node] - NodeBytes[node])
      <4>1. PICK f, g : f = NodeBytes /\ g = NodeBytes'
        OBVIOUS
      <4>2. /\ \A p \in P : f[p] \in Int /\ g[p] \in Int
            /\ \A p \in P \ {node} : f[p] = g[p]
        BY <2>3, <3>2, <4>1
      <4>3. SumOf(g, P) = SumOf(f, P) + (g[node] - f[node])
        BY <2>1, <3>1, <4>2, SumChanges
      <4> QED
        BY <4>1, <4>3
    <3>4. NodeBytes'[node] - NodeBytes[node] = d
      BY <1>1, <1>2, <2>3, <3>1
    <3> QED
      BY <1>3, <2>1, <2>2, <2>4, <3>3, <3>4
  <2>5. CASE s # Tag(node)
    <3>1. \A p \in P : NodeBytes[p] = NodeBytes'[p]
      BY <1>2, <2>3, <2>5
    <3> HIDE DEF P
    <3>2. SumOf(NodeBytes, P) = SumOf(NodeBytes', P)
      BY <2>1, <3>1, SumOfSame
    <3> QED
      BY <1>3, <2>1, <2>2, <2>5, <3>2
  <2> QED
    BY <2>4, <2>5
<1>6. SitesBalance'
  BY <1>4, <1>5 DEF SitesBalance
<1> QED
  BY <1>2, <1>3, <1>6

\* The total follows the size that a block is registered with.
LEMMA TotalFollows ==
  ASSUME MallocInv, NEW b \in Blocks, NEW e \in BlockInfos, info' = [info EXCEPT ![b] = e]
  PROVE  /\ SumOf(BlockBytes', Blocks) = total + (e.size - info[b].size)
         /\ info' \in [Blocks -> BlockInfos] /\ info'[b] = e
         /\ \A c \in Blocks \ {b} : info'[c] = info[c]
         /\ \A c \in Blocks : BlockBytes[c] = info[c].size /\ BlockBytes'[c] = info'[c].size
         /\ \A c \in Blocks : BlockBytes[c] \in Int /\ BlockBytes'[c] \in Int
<1>1. info \in [Blocks -> BlockInfos] /\ info' \in [Blocks -> BlockInfos]
      /\ info'[b] = e /\ \A c \in Blocks \ {b} : info'[c] = info[c]
  BY DEF MallocInv, MallocTyped
<1>2. \A c \in Blocks : /\ BlockBytes[c] = info[c].size /\ BlockBytes'[c] = info'[c].size
                        /\ BlockBytes[c] \in Int /\ BlockBytes'[c] \in Int
  BY <1>1 DEF BlockBytes, BlockInfos
<1>3. SumOf(BlockBytes', Blocks) = SumOf(BlockBytes, Blocks) + (BlockBytes'[b] - BlockBytes[b])
  <2>1. \A c \in Blocks \ {b} : BlockBytes[c] = BlockBytes'[c]
    BY <1>1, <1>2
  <2>2. IsFiniteSet(Blocks)
    BY MallocAssumption
  <2>3. PICK f, g : f = BlockBytes /\ g = BlockBytes'
    OBVIOUS
  <2>4. SumOf(g, Blocks) = SumOf(f, Blocks) + (g[b] - f[b])
    BY <1>2, <2>1, <2>2, <2>3, SumChanges
  <2> QED
    BY <2>3, <2>4
<1>4. total = SumOf(BlockBytes, Blocks)
  BY DEF MallocInv, SumsBalance
<1> QED
  BY <1>1, <1>2, <1>3, <1>4

\* Registering a block adds its size and itself to its node, its site and the total.
LEMMA RegisterBills ==
  ASSUME MallocInv, NEW b \in Blocks, NEW node \in DOMAIN nodes, NEW size \in Nat \ {0},
         info[b] = NoBlock, info' = [info EXCEPT ![b] = [size |-> size, node |-> node]],
         Bill(node, size, 1)
  PROVE  NodesBalance' /\ SitesBalance' /\ (total = SumOf(BlockBytes, Blocks))'
<1> DEFINE e == [size |-> size, node |-> node]
<1>1. e \in BlockInfos /\ e # NoBlock /\ e.node = node /\ e.size = size /\ info[b].size = 0
  BY DEF BlockInfos, NoBlock, MallocInv, PathsAreKnown
<1>2. /\ SumOf(BlockBytes', Blocks) = total + (e.size - info[b].size)
      /\ info' \in [Blocks -> BlockInfos] /\ info'[b] = e
      /\ \A c \in Blocks \ {b} : info'[c] = info[c]
      /\ \A c \in Blocks : BlockBytes[c] = info[c].size /\ BlockBytes'[c] = info'[c].size
      /\ \A c \in Blocks : BlockBytes[c] \in Int /\ BlockBytes'[c] \in Int
  BY <1>1, TotalFollows
<1>3. /\ SitesBalance'
      /\ nodes' \in [DOMAIN nodes -> [bytes : Int, allocs : Int]]
      /\ \A p \in DOMAIN nodes :
           /\ nodes'[p].bytes = IF p = node THEN nodes[p].bytes + size ELSE nodes[p].bytes
           /\ nodes'[p].allocs = IF p = node THEN nodes[p].allocs + 1 ELSE nodes[p].allocs
  BY SitesFollowNodes
<1> HIDE DEF e
<1>4. ASSUME NEW p \in DOMAIN nodes
      PROVE  /\ nodes'[p].bytes = SumOf(BlockBytes', BilledTo(p)')
             /\ nodes'[p].allocs = Cardinality(BilledTo(p)')
  <2>1. /\ nodes[p].bytes = SumOf(BlockBytes, BilledTo(p))
        /\ nodes[p].allocs = Cardinality(BilledTo(p))
    BY DEF MallocInv, SumsBalance, NodesBalance
  <2>2. IsFiniteSet(BilledTo(p)) /\ BilledTo(p) \subseteq Blocks /\ b \notin BilledTo(p)
    BY FS_Subset, MallocAssumption DEF BilledTo
  <2>3. SumOf(BlockBytes, BilledTo(p)) = SumOf(BlockBytes', BilledTo(p))
    <3>1. \A c \in BilledTo(p) : BlockBytes[c] = BlockBytes'[c]
      BY <1>2, <2>2
    <3> QED
      BY <2>2, <3>1, SumOfSame
  <2>4. CASE p = node
    <3>1. BilledTo(p)' = BilledTo(p) \cup {b}
      BY <1>1, <1>2, <2>4 DEF BilledTo
    <3>2. \A c \in BilledTo(p) \cup {b} : BlockBytes'[c] \in Int
      BY <1>2, <2>2
    <3>3. SumOf(BlockBytes', BilledTo(p) \cup {b}) = SumOf(BlockBytes', BilledTo(p)) + BlockBytes'[b]
      BY <2>2, <3>2, SumGrows
    <3>4. BlockBytes'[b] = size
      BY <1>1, <1>2
    <3>5. Cardinality(BilledTo(p) \cup {b}) = Cardinality(BilledTo(p)) + 1
      BY <2>2, FS_AddElement
    <3> QED
      BY <1>3, <2>1, <2>3, <2>4, <3>1, <3>3, <3>4, <3>5
  <2>5. CASE p # node
    <3>1. BilledTo(p)' = BilledTo(p)
      BY <1>1, <1>2, <2>5 DEF BilledTo
    <3> QED
      BY <1>3, <2>1, <2>3, <2>5, <3>1
  <2> QED
    BY <2>4, <2>5
<1>5. NodesBalance'
  <2>1. DOMAIN nodes' = DOMAIN nodes
    BY <1>3
  <2> QED
    BY <1>4, <2>1 DEF NodesBalance
<1>6. total' = SumOf(BlockBytes', Blocks)
  BY <1>1, <1>2 DEF Bill, MallocInv, MallocTyped
<1> QED
  BY <1>3, <1>5, <1>6

\* Taking a block off takes as much from its node, its site and the total.
LEMMA UnregisterBills ==
  ASSUME MallocInv, NEW b \in Blocks, info[b] # NoBlock,
         info' = [info EXCEPT ![b] = NoBlock], Bill(info[b].node, -info[b].size, -1)
  PROVE  NodesBalance' /\ SitesBalance' /\ (total = SumOf(BlockBytes, Blocks))'
<1>1. /\ NoBlock \in BlockInfos /\ NoBlock.size = 0
      /\ info[b].size \in Nat /\ info[b].node \in DOMAIN nodes
  BY DEF BlockInfos, NoBlock, MallocInv, MallocTyped, BilledAreKnown
<1>2. /\ SumOf(BlockBytes', Blocks) = total + (NoBlock.size - info[b].size)
      /\ info' \in [Blocks -> BlockInfos] /\ info'[b] = NoBlock
      /\ \A c \in Blocks \ {b} : info'[c] = info[c]
      /\ \A c \in Blocks : BlockBytes[c] = info[c].size /\ BlockBytes'[c] = info'[c].size
      /\ \A c \in Blocks : BlockBytes[c] \in Int /\ BlockBytes'[c] \in Int
  BY <1>1, TotalFollows
<1>3. PICK size \in Nat, node \in DOMAIN nodes : size = info[b].size /\ node = info[b].node
  BY <1>1
<1>4. /\ SitesBalance'
      /\ nodes' \in [DOMAIN nodes -> [bytes : Int, allocs : Int]]
      /\ \A p \in DOMAIN nodes :
           /\ nodes'[p].bytes = IF p = node THEN nodes[p].bytes + (-size) ELSE nodes[p].bytes
           /\ nodes'[p].allocs = IF p = node THEN nodes[p].allocs + (-1) ELSE nodes[p].allocs
  <2>1. Bill(node, -size, -1) /\ -size \in Int /\ -1 \in Int
    BY <1>3
  <2> QED
    BY <2>1, SitesFollowNodes
<1>5. ASSUME NEW p \in DOMAIN nodes
      PROVE  /\ nodes'[p].bytes = SumOf(BlockBytes', BilledTo(p)')
             /\ nodes'[p].allocs = Cardinality(BilledTo(p)')
  <2>1. /\ nodes[p].bytes = SumOf(BlockBytes, BilledTo(p))
        /\ nodes[p].allocs = Cardinality(BilledTo(p))
    BY DEF MallocInv, SumsBalance, NodesBalance
  <2>2. IsFiniteSet(BilledTo(p)) /\ BilledTo(p) \subseteq Blocks
    BY FS_Subset, MallocAssumption DEF BilledTo
  <2>3. BilledTo(p)' = BilledTo(p) \ {b}
    BY <1>2 DEF BilledTo
  <2>4. /\ IsFiniteSet(BilledTo(p) \ {b})
        /\ SumOf(BlockBytes, BilledTo(p) \ {b}) = SumOf(BlockBytes', BilledTo(p) \ {b})
    <3>1. \A c \in BilledTo(p) \ {b} : BlockBytes[c] = BlockBytes'[c]
      BY <1>2, <2>2
    <3> QED
      BY <2>2, <3>1, SumOfSame, FS_RemoveElement
  <2>5. CASE p = node
    <3>1. b \in BilledTo(p)
      BY <1>3, <2>5 DEF BilledTo
    <3>2. \A c \in BilledTo(p) : BlockBytes[c] \in Int
      BY <1>2, <2>2
    <3>3. SumOf(BlockBytes, BilledTo(p)) = SumOf(BlockBytes, BilledTo(p) \ {b}) + BlockBytes[b]
      BY <2>2, <3>1, <3>2, SumSplits
    <3>4. SumOf(BlockBytes, BilledTo(p) \ {b}) \in Int /\ BlockBytes[b] = size
      BY <1>2, <1>3, <2>4, <3>2, SumSplits
    <3>5. Cardinality(BilledTo(p) \ {b}) = Cardinality(BilledTo(p)) - 1
          /\ Cardinality(BilledTo(p)) \in Nat
      BY <2>2, <3>1, FS_RemoveElement, FS_CardinalityType
    <3> QED
      BY <1>4, <2>1, <2>3, <2>4, <2>5, <3>3, <3>4, <3>5
  <2>6. CASE p # node
    <3>1. BilledTo(p) \ {b} = BilledTo(p)
      BY <1>3, <2>6 DEF BilledTo
    <3> QED
      BY <1>4, <2>1, <2>3, <2>4, <2>6, <3>1
  <2> QED
    BY <2>5, <2>6
<1>6. NodesBalance'
  <2>1. DOMAIN nodes' = DOMAIN nodes
    BY <1>4
  <2> QED
    BY <1>5, <2>1 DEF NodesBalance
<1>7. total' = SumOf(BlockBytes', Blocks)
  BY <1>1, <1>2 DEF Bill, MallocInv, MallocTyped
<1> QED
  BY <1>4, <1>6, <1>7

\* What a call knows.
LEMMA MallocCallFields ==
  ASSUME MallocTyped, NEW t \in Mallocers
  PROVE  /\ Doing(t, "Emplace") => mallocCall[t].tag \in Tags /\ mallocCall[t].flag \in BOOLEAN
         /\ ~Doing(t, "None") /\ ~Doing(t, "Emplace") => mallocCall[t].block \in Blocks
         /\ Doing(t, "Move") => mallocCall[t].size \in BlockSizes
         /\ Doing(t, "ReadMax") => mallocCall[t].newTotal \in Int
         /\ Doing(t, "StoreMax") => mallocCall[t].max \in Int
<1>1. mallocCall[t] \in MallocCalls
  BY DEF MallocTyped
<1> QED
  BY <1>1 DEF MallocCalls, Doing, Idle

\* Whatever is billed next is billed to a node that is there.
LEMMA CurrentNodeIsKnown ==
  ASSUME MallocTyped, PathsAreKnown, NEW t \in Mallocers
  PROVE  CurrentNode(t) \in DOMAIN nodes
<1>1. tagStack[t] \in Seq(DOMAIN nodes)
  BY DEF MallocTyped
<1>2. PICK stack \in Seq(DOMAIN nodes) : stack = tagStack[t]
  BY <1>1
<1>3. stack # <<>> => Last(stack) \in DOMAIN nodes
  BY <1>2 DEF Last
<1> QED
  BY <1>2, <1>3 DEF CurrentNode, PathsAreKnown

\* Steps of a thread that leave the blocks and what is billed alone.
LEMMA BooksStay ==
  ASSUME MallocInv, UNCHANGED <<heap, info, nodes, total>>, DOMAIN sites' = DOMAIN sites,
         \A s \in DOMAIN sites : sites'[s].bytes = sites[s].bytes
  PROVE  SumsBalance' /\ PathsAreKnown' /\ BilledAreKnown'
<1>1. NodesBalance' /\ (total = SumOf(BlockBytes, Blocks))' /\ RegisteredAreHeld'
  BY DEF MallocInv, SumsBalance, NodesBalance, RegisteredAreHeld, BilledTo, BlockBytes
<1>2. SitesBalance'
  BY DEF MallocInv, SumsBalance, SitesBalance, NodeBytes
<1> QED
  BY <1>1, <1>2 DEF MallocInv, SumsBalance, PathsAreKnown, BilledAreKnown

\* A call that has a block afterwards had it before, and owes as much.
LEMMA OwnersStay ==
  ASSUME MallocInv, NEW t \in Mallocers, UNCHANGED <<heap, info>>,
         \A u \in Mallocers \ {t} : mallocCall'[u] = mallocCall[u],
         \A b \in Blocks : Uses(t, b)' => Uses(t, b),
         mallocCall'[t].op \in Unbilled => mallocCall[t].op \in Unbilled
  PROVE  BlocksAreOwned'
<1>1. \A u \in Mallocers, b \in Blocks : Uses(u, b)' => Uses(u, b)
  BY DEF Uses, Doing
<1>2. \A u \in Mallocers : mallocCall'[u].op \in Unbilled => mallocCall[u].op \in Unbilled
  OBVIOUS
<1> QED
  BY <1>1, <1>2 DEF MallocInv, BlocksAreOwned

\* A new node and a new site have nothing billed to them yet.
LEMMA EmplaceKeeps ==
  ASSUME MallocInv, NEW t \in Mallocers, Emplace(t)
  PROVE  MallocInv'
<1> DEFINE tag == mallocCall[t].tag
           flag == mallocCall[t].flag
           path == Append(CurrentNode(t), tag)
           none == [bytes |-> 0, allocs |-> 0]
<1>1. tag \in Tags /\ flag \in BOOLEAN
  BY MallocCallFields DEF MallocInv, Emplace
<1>2. path \in Seq(Tags) /\ Tag(path) = tag
  <2>1. CurrentNode(t) \in Seq(Tags)
    BY CurrentNodeIsKnown DEF MallocInv, PathsAreKnown
  <2>2. PICK node \in Seq(Tags) : node = CurrentNode(t)
    BY <2>1
  <2>3. Append(node, tag) \in Seq(Tags) /\ Append(node, tag) # <<>> /\ Last(Append(node, tag)) = tag
    BY <1>1 DEF Last
  <2> QED
    BY <2>2, <2>3 DEF Tag
<1>3. /\ UNCHANGED <<heap, info, total, maxTotal>>
      /\ sites' = AddSite(sites, tag, flag) /\ nodes' = AddNode(nodes, path)
      /\ tagStack' = [tagStack EXCEPT ![t] = Append(@, path)]
      /\ mallocCall' = [mallocCall EXCEPT ![t] = Idle]
  BY DEF Emplace, Goes
<1>4. /\ nodes \in [DOMAIN nodes -> [bytes : Int, allocs : Int]]
      /\ sites \in [DOMAIN sites -> [bytes : Int, trace : BOOLEAN]]
      /\ tagStack \in [Mallocers -> Seq(DOMAIN nodes)]
      /\ mallocCall \in [Mallocers -> MallocCalls]
  BY DEF MallocInv, MallocTyped
<1> HIDE DEF tag, flag, path
<1>5. /\ nodes' \in [DOMAIN nodes' -> [bytes : Int, allocs : Int]]
      /\ DOMAIN nodes' = DOMAIN nodes \cup {path}
      /\ \A p \in DOMAIN nodes : nodes'[p] = nodes[p]
      /\ path \notin DOMAIN nodes => nodes'[path] = none
  <2>1. nodes' = [p \in DOMAIN nodes \cup {path} |-> IF p \in DOMAIN nodes THEN nodes[p] ELSE none]
    BY <1>3 DEF AddNode, AddIfNew
  <2> QED
    BY <1>4, <2>1
<1>6. /\ sites' \in [DOMAIN sites' -> [bytes : Int, trace : BOOLEAN]]
      /\ DOMAIN sites' = DOMAIN sites \cup {tag}
      /\ \A s \in DOMAIN sites : sites'[s] = sites[s]
      /\ tag \notin DOMAIN sites => sites'[tag].bytes = 0
  <2>1. sites' = [s \in DOMAIN sites \cup {tag} |->
                    IF s \in DOMAIN sites THEN sites[s] ELSE [bytes |-> 0, trace |-> flag]]
    BY <1>3 DEF AddSite, AddIfNew
  <2> QED
    BY <1>1, <1>4, <2>1
<1>7. MallocTyped'
  <2>1. tagStack' \in [Mallocers -> Seq(DOMAIN nodes')]
    <3>1. ASSUME NEW u \in Mallocers PROVE tagStack'[u] \in Seq(DOMAIN nodes')
      <4>1. tagStack[u] \in Seq(DOMAIN nodes') /\ path \in DOMAIN nodes'
        BY <1>4, <1>5
      <4>2. tagStack'[u] = tagStack[u] \/ tagStack'[u] = Append(tagStack[u], path)
        BY <1>3, <1>4
      <4> QED
        BY <4>1, <4>2
    <3>2. tagStack' = [u \in Mallocers |-> tagStack'[u]]
      BY <1>3, <1>4
    <3> QED
      BY <3>1, <3>2
  <2>2. mallocCall' \in [Mallocers -> MallocCalls]
    BY <1>3, <1>4 DEF MallocCalls
  <2> QED
    BY <1>3, <1>5, <1>6, <2>1, <2>2 DEF MallocInv, MallocTyped
<1>8. PathsAreKnown'
  <2>1. IsFiniteSet(DOMAIN nodes')
    BY <1>5, FS_AddElement DEF MallocInv, PathsAreKnown
  <2>2. \A p \in DOMAIN nodes' : p \in Seq(Tags) /\ Tag(p) \in DOMAIN sites'
    BY <1>2, <1>5, <1>6 DEF MallocInv, PathsAreKnown
  <2> QED
    BY <1>5, <2>1, <2>2 DEF MallocInv, PathsAreKnown
<1>9. BilledAreKnown'
  BY <1>3, <1>5 DEF MallocInv, BilledAreKnown
<1>10. BlocksAreOwned'
  <2>1. \A b \in Blocks : ~Uses(t, b)'
    BY <1>3, <1>4 DEF Uses, Doing, Idle
  <2>2. mallocCall'[t].op \notin Unbilled
    BY <1>3, <1>4 DEF Unbilled, Idle
  <2>3. \A u \in Mallocers \ {t} : mallocCall'[u] = mallocCall[u]
    BY <1>3, <1>4
  <2> QED
    BY <1>3, <2>1, <2>2, <2>3, OwnersStay
<1>11. NodesBalance'
  <2>1. ASSUME NEW p \in DOMAIN nodes, p \in DOMAIN nodes
        PROVE  /\ nodes'[p].bytes = SumOf(BlockBytes, BilledTo(p))
               /\ nodes'[p].allocs = Cardinality(BilledTo(p))
    BY <1>5 DEF MallocInv, SumsBalance, NodesBalance
  <2>2. ASSUME path \notin DOMAIN nodes
        PROVE  /\ nodes'[path].bytes = SumOf(BlockBytes, BilledTo(path))
               /\ nodes'[path].allocs = Cardinality(BilledTo(path))
    <3>1. BilledTo(path) = {}
      BY <2>2 DEF BilledTo, MallocInv, BilledAreKnown
    <3> QED
      BY <1>5, <2>2, <3>1, FS_EmptySet, SumFirst
  <2>3. \A p : BilledTo(p)' = BilledTo(p) /\ BlockBytes' = BlockBytes
    BY <1>3 DEF BilledTo, BlockBytes
  <2> QED
    BY <1>5, <2>1, <2>2, <2>3 DEF NodesBalance
<1>12. ASSUME NEW s \in DOMAIN sites'
       PROVE  sites'[s].bytes = SumOf(NodeBytes', {p \in DOMAIN nodes' : Tag(p) = s})
  <2> DEFINE P == {p \in DOMAIN nodes : Tag(p) = s}
  <2>1. IsFiniteSet(P)
    BY FS_Subset DEF MallocInv, PathsAreKnown
  <2>2. /\ \A p \in P : NodeBytes[p] = nodes[p].bytes /\ NodeBytes'[p] = nodes[p].bytes
        /\ \A p \in P : nodes[p].bytes \in Int
    BY <1>4, <1>5 DEF NodeBytes
  <2>3. PICK f, g : f = NodeBytes /\ g = NodeBytes'
    OBVIOUS
  <2>4. sites'[s].bytes = SumOf(f, P)
    <3>1. CASE s \in DOMAIN sites
      BY <1>6, <2>3, <3>1 DEF MallocInv, SumsBalance, SitesBalance
    <3>2. CASE s \notin DOMAIN sites
      <4>1. P = {} /\ s = tag
        BY <1>6, <3>2 DEF MallocInv, PathsAreKnown
      <4> QED
        BY <1>6, <3>2, <4>1, SumFirst, FS_EmptySet
    <3> QED
      BY <3>1, <3>2
  <2>5. SumOf(f, P) = SumOf(g, P)
    <3>1. \A p \in P : f[p] = g[p]
      BY <2>2, <2>3
    <3> HIDE DEF P
    <3> QED
      BY <2>1, <3>1, SumOfSame
  <2>6. CASE path \in DOMAIN nodes \/ tag # s
    <3>1. {p \in DOMAIN nodes' : Tag(p) = s} = P
      BY <1>2, <1>5, <2>6
    <3> QED
      BY <2>3, <2>4, <2>5, <3>1
  <2>7. CASE path \notin DOMAIN nodes /\ tag = s
    <3>1. {p \in DOMAIN nodes' : Tag(p) = s} = P \cup {path} /\ path \notin P
      BY <1>2, <1>5, <2>7
    <3>2. g[path] = 0
      BY <1>5, <2>3, <2>7 DEF NodeBytes
    <3>3. \A p \in P \cup {path} : g[p] \in Int
      BY <2>2, <2>3, <3>2
    <3>4. \A p \in P : g[p] \in Int
      BY <3>3
    <3> HIDE DEF P
    <3>5. SumOf(g, P \cup {path}) = SumOf(g, P) + g[path]
      BY <2>1, <3>1, <3>3, SumGrows
    <3>6. SumOf(g, P) \in Int
      BY <2>1, <3>4, SumSplits
    <3>7. SumOf(g, P \cup {path}) = SumOf(f, P)
      BY <2>5, <3>2, <3>5, <3>6
    <3>8. sites'[s].bytes = SumOf(g, P \cup {path})
      BY <2>4, <3>7
    <3> QED
      BY <2>3, <3>1, <3>8
  <2> QED
    BY <2>6, <2>7
<1>13. SumsBalance'
  <2>1. SitesBalance'
    BY <1>12 DEF SitesBalance
  <2>2. (total = SumOf(BlockBytes, Blocks))' /\ RegisteredAreHeld'
    BY <1>3 DEF MallocInv, SumsBalance, BlockBytes, RegisteredAreHeld
  <2> QED
    BY <1>11, <2>1, <2>2 DEF SumsBalance
<1> QED
  BY <1>7, <1>8, <1>9, <1>10, <1>13 DEF MallocInv

\* Steps that leave the blocks and what is billed alone.
LEMMA QuietStepsKeep ==
  ASSUME MallocInv, NEW t \in Mallocers,
         \/ \E tag \in Tags : Begin(t, tag)
         \/ End(t) \/ ReadMax(t) \/ StoreMax(t) \/ HookReallocFails(t) \/ GetCapturedMallocStacks(t)
         \/ \E u \in Mallocers : Override(t, u)
         \/ \E list \in MatchLists : SetMatchList(t, list)
  PROVE  MallocInv'
<1>1. /\ mallocCall \in [Mallocers -> MallocCalls] /\ total \in Int /\ maxTotal \in Int
      /\ tagStack \in [Mallocers -> Seq(DOMAIN nodes)]
      /\ sites \in [DOMAIN sites -> [bytes : Int, trace : BOOLEAN]]
  BY DEF MallocInv, MallocTyped
<1>2. UNCHANGED <<heap, info, nodes, total>>
  BY DEF Begin, End, ReadMax, StoreMax, HookReallocFails, GetCapturedMallocStacks, Override,
         SetMatchList, books
<1>3. /\ sites' \in [DOMAIN sites -> [bytes : Int, trace : BOOLEAN]]
      /\ \A s \in DOMAIN sites : sites'[s].bytes = sites[s].bytes
  <2>1. CASE sites' = sites
    BY <1>1, <2>1
  <2>2. ASSUME NEW list \in MatchLists, SetMatchList(t, list)
        PROVE  /\ sites' \in [DOMAIN sites -> [bytes : Int, trace : BOOLEAN]]
               /\ \A s \in DOMAIN sites : sites'[s].bytes = sites[s].bytes
    <3>1. \A s : (IF s = RootTag THEN FALSE ELSE Matches(list, s)) \in BOOLEAN
      BY DEF Matches
    <3>2. sites' = [s \in DOMAIN sites |->
                 [sites[s] EXCEPT !.trace = IF s = RootTag THEN FALSE ELSE Matches(list, s)]]
      BY <2>2 DEF SetMatchList
    <3>3. ASSUME NEW s \in DOMAIN sites
          PROVE  sites'[s] \in [bytes : Int, trace : BOOLEAN] /\ sites'[s].bytes = sites[s].bytes
      <4>1. PICK r \in [bytes : Int, trace : BOOLEAN] : r = sites[s]
        BY <1>1
      <4>2. PICK traced \in BOOLEAN :
              traced = IF s = RootTag THEN FALSE ELSE Matches(list, s)
        BY <3>1
      <4>3. sites'[s] = [r EXCEPT !.trace = traced]
        BY <3>2, <4>1, <4>2
      <4> QED
        BY <4>1, <4>3
    <3> QED
      BY <3>2, <3>3
  <2> QED
    BY <2>1, <2>2 DEF Begin, End, ReadMax, StoreMax, HookReallocFails, GetCapturedMallocStacks,
                      Override, books
<1>4. \/ UNCHANGED mallocCall
      \/ \E call \in MallocCalls :
           /\ mallocCall' = [mallocCall EXCEPT ![t] = call]
           /\ call.op \notin Unbilled
           /\ call.op \in {"None", "Emplace"} \/ /\ ~Doing(t, "None") /\ ~Doing(t, "Emplace")
                                                 /\ call.block = mallocCall[t].block
  <2>1. ASSUME NEW tag \in Tags, Begin(t, tag)
        PROVE  \E call \in MallocCalls : /\ mallocCall' = [mallocCall EXCEPT ![t] = call]
                                         /\ call.op = "Emplace"
    <3>1. Matches(matchList, tag) \in BOOLEAN
      BY DEF Matches
    <3>2. PICK flag \in BOOLEAN : flag = Matches(matchList, tag)
      BY <3>1
    <3>3. mallocCall' = [mallocCall EXCEPT ![t] = [op |-> "Emplace", tag |-> tag, flag |-> flag]]
      BY <2>1, <3>2 DEF Begin, Goes
    <3>4. [op |-> "Emplace", tag |-> tag, flag |-> flag] \in MallocCalls
      BY DEF MallocCalls
    <3> QED
      BY <3>3, <3>4
  <2>2. CASE ReadMax(t)
    <3> DEFINE top == IF mallocCall[t].newTotal > maxTotal THEN mallocCall[t].newTotal ELSE maxTotal
    <3>1. mallocCall[t].newTotal \in Int /\ mallocCall[t].block \in Blocks
      BY <2>2, MallocCallFields DEF MallocInv, ReadMax, Doing
    <3>2. top \in Int
      BY <1>1, <3>1
    <3>3. mallocCall' = [mallocCall EXCEPT ![t] = [op |-> "StoreMax", block |-> mallocCall[t].block, max |-> top]]
      BY <2>2 DEF ReadMax, Goes
    <3>4. [op |-> "StoreMax", block |-> mallocCall[t].block, max |-> top] \in MallocCalls
      BY <3>1, <3>2 DEF MallocCalls
    <3> HIDE DEF top
    <3> QED
      BY <2>2, <3>3, <3>4 DEF ReadMax, Doing, Unbilled
  <2>3. CASE StoreMax(t) \/ HookReallocFails(t)
    <3>1. mallocCall' = [mallocCall EXCEPT ![t] = Idle] /\ Idle \in MallocCalls
      BY <2>3 DEF StoreMax, HookReallocFails, Goes, MallocCalls
    <3> QED
      BY <3>1 DEF Idle, Unbilled
  <2>4. CASE UNCHANGED mallocCall
    BY <2>4
  <2> QED
    BY <2>1, <2>2, <2>3, <2>4 DEF End, GetCapturedMallocStacks, Override, SetMatchList, Unbilled
<1>5. /\ mallocCall' \in [Mallocers -> MallocCalls] /\ BlocksAreOwned'
  <2>1. CASE UNCHANGED mallocCall
    <3>1. mallocCall' \in [Mallocers -> MallocCalls]
      BY <1>1, <2>1
    <3>2. \A u \in Mallocers, b \in Blocks : Uses(u, b)' = Uses(u, b)
      BY <2>1 DEF Uses, Doing
    <3> QED
      BY <1>2, <2>1, <3>1, <3>2 DEF MallocInv, BlocksAreOwned
  <2>2. ASSUME NEW call \in MallocCalls, mallocCall' = [mallocCall EXCEPT ![t] = call],
               call.op \notin Unbilled,
               call.op \in {"None", "Emplace"} \/ /\ ~Doing(t, "None") /\ ~Doing(t, "Emplace")
                                                  /\ call.block = mallocCall[t].block
        PROVE  /\ mallocCall' \in [Mallocers -> MallocCalls] /\ BlocksAreOwned'
    <3>1. /\ mallocCall' \in [Mallocers -> MallocCalls] /\ mallocCall'[t] = call
          /\ \A u \in Mallocers \ {t} : mallocCall'[u] = mallocCall[u]
      BY <1>1, <2>2
    <3>2. \A b \in Blocks : Uses(t, b)' => Uses(t, b)
      BY <2>2, <3>1 DEF Uses, Doing
    <3> QED
      BY <1>2, <2>2, <3>1, <3>2, OwnersStay
  <2> QED
    BY <1>4, <2>1, <2>2
<1>6. tagStack' \in [Mallocers -> Seq(DOMAIN nodes)]
  <2>1. CASE UNCHANGED tagStack
    BY <1>1, <2>1
  <2>2. CASE End(t)
    <3>1. PICK stack \in Seq(DOMAIN nodes) : stack = tagStack[t]
      BY <1>1
    <3>2. stack # <<>> => Front(stack) \in Seq(DOMAIN nodes)
      BY DEF Front
    <3>3. tagStack' = [tagStack EXCEPT ![t] = Front(stack)] /\ stack # <<>>
      BY <2>2, <3>1 DEF End
    <3> QED
      BY <1>1, <3>2, <3>3
  <2>3. ASSUME NEW u \in Mallocers, Override(t, u) PROVE tagStack' \in [Mallocers -> Seq(DOMAIN nodes)]
    <3>1. PICK stack \in Seq(DOMAIN nodes) : stack = tagStack[u]
      BY <1>1
    <3>2. stack # <<>> => Last(stack) \in DOMAIN nodes
      BY DEF Last
    <3>3. tagStack' = [tagStack EXCEPT ![t] = Append(@, Last(stack))] /\ stack # <<>>
      BY <2>3, <3>1 DEF Override
    <3>4. PICK node \in DOMAIN nodes : node = Last(stack)
      BY <3>2, <3>3
    <3> QED
      BY <1>1, <3>3, <3>4
  <2> QED
    BY <2>1, <2>2, <2>3 DEF Begin, ReadMax, StoreMax, HookReallocFails, GetCapturedMallocStacks, SetMatchList
<1>7. maxTotal' \in Int
  <2>1. CASE StoreMax(t)
    BY <2>1, MallocCallFields DEF MallocInv, StoreMax
  <2>2. CASE UNCHANGED maxTotal
    BY <1>1, <2>2
  <2> QED
    BY <2>1, <2>2 DEF Begin, End, ReadMax, HookReallocFails, GetCapturedMallocStacks, Override, SetMatchList
<1>8. SumsBalance' /\ PathsAreKnown' /\ BilledAreKnown'
  BY <1>1, <1>2, <1>3, BooksStay
<1> QED
  BY <1>2, <1>3, <1>5, <1>6, <1>7, <1>8 DEF MallocInv, MallocTyped

\* The allocator hands out a block that nobody has, takes one back or moves it.
LEMMA AllocatorKeeps ==
  ASSUME MallocInv, NEW t \in Mallocers, UNCHANGED <<info, nodes, sites, total, maxTotal, tagStack>>,
         heap' \in [Blocks -> Nat], NEW call \in MallocCalls,
         mallocCall' = [mallocCall EXCEPT ![t] = call],
         \A c \in Blocks : \/ heap'[c] = heap[c]
                           \/ info[c] = NoBlock /\ \A u \in Mallocers \ {t} : ~Uses(u, c),
         call.op \in {"None"} \cup Unbilled,
         call.op \in Unbilled =>
           /\ call.block \in Blocks /\ heap'[call.block] > 0 /\ info[call.block] = NoBlock
           /\ \A u \in Mallocers \ {t} : ~Uses(u, call.block)
  PROVE  MallocInv'
<1>1. /\ mallocCall \in [Mallocers -> MallocCalls] /\ info \in [Blocks -> BlockInfos]
      /\ BilledAreKnown /\ RegisteredAreHeld /\ BlocksAreOwned
  BY DEF MallocInv, MallocTyped, SumsBalance
<1>2. /\ mallocCall' \in [Mallocers -> MallocCalls] /\ mallocCall'[t] = call
      /\ \A u \in Mallocers \ {t} : mallocCall'[u] = mallocCall[u]
  BY <1>1
<1>3. MallocTyped'
  BY <1>2 DEF MallocInv, MallocTyped
<1>4. PathsAreKnown' /\ BilledAreKnown' /\ RegisteredAreHeld'
  BY <1>1 DEF MallocInv, PathsAreKnown, BilledAreKnown, RegisteredAreHeld
<1>5. NodesBalance' /\ SitesBalance' /\ (total = SumOf(BlockBytes, Blocks))'
  BY DEF MallocInv, SumsBalance, NodesBalance, SitesBalance, BilledTo, BlockBytes, NodeBytes
<1>6. ASSUME NEW u \in Mallocers, NEW b \in Blocks, Uses(u, b)'
      PROVE  /\ heap'[b] > 0 /\ (mallocCall'[u].op \in Unbilled => info[b] = NoBlock)
             /\ \A w \in Mallocers : Uses(w, b)' => u = w
  <2>1. \A w \in Mallocers \ {t} : Uses(w, b)' <=> Uses(w, b)
    BY <1>2 DEF Uses, Doing
  <2>2. Uses(t, b)' => call.block = b /\ call.op \in Unbilled
    BY <1>2 DEF Uses, Doing
  <2>3. CASE u = t
    BY <1>2, <1>6, <2>1, <2>2, <2>3
  <2>4. CASE u # t
    <3>1. Uses(u, b) /\ ~Uses(t, b)'
      BY <1>6, <2>1, <2>2, <2>4
    <3>2. heap'[b] = heap[b]
      BY <3>1, <2>4
    <3> QED
      BY <1>1, <1>2, <2>1, <2>4, <3>1, <3>2 DEF BlocksAreOwned
  <2> QED
    BY <2>3, <2>4
<1>7. BlocksAreOwned'
  BY <1>6 DEF BlocksAreOwned
<1> QED
  BY <1>3, <1>4, <1>5, <1>7 DEF MallocInv, SumsBalance

\* A block that the allocator hands out is nobody's.
LEMMA MallocKeeps ==
  ASSUME MallocInv, NEW t \in Mallocers, NEW b \in Blocks, NEW size \in BlockSizes, Malloc(t, b, size)
  PROVE  MallocInv'
<1> DEFINE call == [op |-> "Malloced", block |-> b]
<1>1. heap \in [Blocks -> Nat] /\ size \in Nat \ {0}
  BY MallocAssumption DEF MallocInv, MallocTyped
<1>2. heap' = [heap EXCEPT ![b] = size] /\ heap[b] = 0
  BY DEF Malloc
<1>3. info[b] = NoBlock /\ \A u \in Mallocers : ~Uses(u, b)
  BY <1>1, <1>2 DEF MallocInv, BilledAreKnown, BlocksAreOwned
<1>4. call \in MallocCalls /\ call.op \in Unbilled /\ call.block = b
  BY DEF MallocCalls, Unbilled
<1>5. /\ UNCHANGED <<info, nodes, sites, total, maxTotal, tagStack>>
      /\ mallocCall' = [mallocCall EXCEPT ![t] = call]
  BY DEF Malloc, Goes, books
<1>6. heap' \in [Blocks -> Nat] /\ heap'[b] > 0 /\ \A c \in Blocks : c # b => heap'[c] = heap[c]
  BY <1>1, <1>2
<1> HIDE DEF call
<1> QED
  BY <1>3, <1>4, <1>5, <1>6, AllocatorKeeps

\* What it gets back is off the books and its call's alone.
LEMMA HookFreeKeeps ==
  ASSUME MallocInv, NEW t \in Mallocers, HookFree(t)
  PROVE  MallocInv'
<1>1. heap \in [Blocks -> Nat]
  BY DEF MallocInv, MallocTyped
<1>2. PICK b \in Blocks : b = mallocCall[t].block
  BY MallocCallFields DEF MallocInv, HookFree, Doing
<1>3. heap' = [heap EXCEPT ![b] = 0] /\ Uses(t, b)
  BY <1>2 DEF HookFree, Uses, Doing
<1>4. info[b] = NoBlock /\ \A u \in Mallocers \ {t} : ~Uses(u, b)
  BY <1>3 DEF MallocInv, BlocksAreOwned, HookFree, Doing, Unbilled
<1>5. Idle \in MallocCalls /\ Idle.op = "None" /\ Idle.op \notin Unbilled
  BY DEF MallocCalls, Idle, Unbilled
<1>6. /\ UNCHANGED <<info, nodes, sites, total, maxTotal, tagStack>>
      /\ mallocCall' = [mallocCall EXCEPT ![t] = Idle]
  BY DEF HookFree, Goes, books
<1>7. heap' \in [Blocks -> Nat] /\ \A c \in Blocks : c # b => heap'[c] = heap[c]
  BY <1>1, <1>3
<1> QED
  BY <1>4, <1>5, <1>6, <1>7, AllocatorKeeps

\* So is what it moves; and where it moves it to is nobody's.
LEMMA HookReallocKeeps ==
  ASSUME MallocInv, NEW t \in Mallocers, NEW c \in Blocks, HookRealloc(t, c)
  PROVE  MallocInv'
<1> DEFINE call == [op |-> "Moved", block |-> c]
<1>1. heap \in [Blocks -> Nat]
  BY DEF MallocInv, MallocTyped
<1>2. PICK b \in Blocks, size \in BlockSizes : b = mallocCall[t].block /\ size = mallocCall[t].size
  BY MallocCallFields DEF MallocInv, HookRealloc, Doing
<1>3. heap' = [heap EXCEPT ![b] = 0, ![c] = size] /\ Uses(t, b) /\ (c = b \/ heap[c] = 0)
  BY <1>2 DEF HookRealloc, Uses, Doing
<1>4. info[b] = NoBlock /\ \A u \in Mallocers \ {t} : ~Uses(u, b)
  BY <1>3 DEF MallocInv, BlocksAreOwned, HookRealloc, Doing, Unbilled
<1>5. info[c] = NoBlock /\ \A u \in Mallocers \ {t} : ~Uses(u, c)
  BY <1>1, <1>3, <1>4 DEF MallocInv, BilledAreKnown, BlocksAreOwned
<1>6. call \in MallocCalls /\ call.op \in Unbilled /\ call.block = c
  BY DEF MallocCalls, Unbilled
<1>7. /\ UNCHANGED <<info, nodes, sites, total, maxTotal, tagStack>>
      /\ mallocCall' = [mallocCall EXCEPT ![t] = call]
  BY DEF HookRealloc, Goes, books
<1>8. /\ heap' \in [Blocks -> Nat] /\ heap'[c] > 0
      /\ \A d \in Blocks : d # b /\ d # c => heap'[d] = heap[d]
  <2>1. size \in Nat \ {0}
    BY MallocAssumption
  <2> QED
    BY <1>1, <1>3, <2>1
<1> HIDE DEF call
<1> QED
  BY <1>4, <1>5, <1>6, <1>7, <1>8, AllocatorKeeps

\* A block is registered once, by the call that has it.
LEMMA RegisterKeeps ==
  ASSUME MallocInv, NEW t \in Mallocers, Register(t)
  PROVE  MallocInv'
<1>1. PICK b \in Blocks : b = mallocCall[t].block
  BY MallocCallFields DEF MallocInv, Register, Doing
<1>2. Uses(t, b) /\ mallocCall[t].op \in Unbilled
  BY <1>1 DEF Register, Uses, Doing, Unbilled
<1>3. PICK node \in DOMAIN nodes, size \in Nat \ {0} : node = CurrentNode(t) /\ size = heap[b]
  BY <1>2, CurrentNodeIsKnown DEF MallocInv, MallocTyped, BlocksAreOwned
<1> DEFINE call == [op |-> "ReadMax", block |-> b, newTotal |-> total + size]
           e == [size |-> size, node |-> node]
<1>4. /\ info' = [info EXCEPT ![b] = e] /\ Bill(node, size, 1)
      /\ mallocCall' = [mallocCall EXCEPT ![t] = call]
      /\ UNCHANGED <<heap, maxTotal, tagStack>>
  BY <1>1, <1>3 DEF Register, Goes
<1>5. info[b] = NoBlock /\ \A u \in Mallocers \ {t} : ~Uses(u, b)
  BY <1>2 DEF MallocInv, BlocksAreOwned
<1>6. NodesBalance' /\ SitesBalance' /\ (total = SumOf(BlockBytes, Blocks))'
  BY <1>4, <1>5, RegisterBills
<1>7. /\ nodes' \in [DOMAIN nodes -> [bytes : Int, allocs : Int]]
      /\ sites' \in [DOMAIN sites -> [bytes : Int, trace : BOOLEAN]]
  BY <1>4, SitesFollowNodes
<1>8. /\ total' \in Int /\ total \in Int /\ mallocCall \in [Mallocers -> MallocCalls]
      /\ info \in [Blocks -> BlockInfos] /\ e \in BlockInfos
  BY <1>3, <1>4 DEF MallocInv, MallocTyped, Bill, PathsAreKnown, BlockInfos
<1>9. call \in MallocCalls /\ call.op = "ReadMax" /\ call.block = b
  BY <1>3, <1>8 DEF MallocCalls
<1> HIDE DEF call
<1>10. /\ mallocCall' \in [Mallocers -> MallocCalls] /\ mallocCall'[t] = call
       /\ \A u \in Mallocers \ {t} : mallocCall'[u] = mallocCall[u]
       /\ info' \in [Blocks -> BlockInfos] /\ info'[b] = e
       /\ \A c \in Blocks \ {b} : info'[c] = info[c]
       /\ DOMAIN nodes' = DOMAIN nodes /\ DOMAIN sites' = DOMAIN sites
  BY <1>4, <1>7, <1>8, <1>9
<1>11. MallocTyped'
  BY <1>4, <1>7, <1>8, <1>10 DEF MallocInv, MallocTyped
<1>12. PathsAreKnown' /\ BilledAreKnown' /\ RegisteredAreHeld'
  BY <1>3, <1>4, <1>10 DEF MallocInv, SumsBalance, PathsAreKnown, BilledAreKnown, RegisteredAreHeld
<1>13. BlocksAreOwned'
  <2>1. \A u \in Mallocers, c \in Blocks : Uses(u, c)' <=> Uses(u, c)
    BY <1>1, <1>2, <1>9, <1>10 DEF Uses, Doing, Unbilled
  <2>2. mallocCall'[t].op \notin Unbilled
    BY <1>9, <1>10 DEF Unbilled
  <2>3. ASSUME NEW u \in Mallocers, NEW c \in Blocks, Uses(u, c)
        PROVE  heap'[c] > 0 /\ (mallocCall'[u].op \in Unbilled => info'[c] = NoBlock)
    <3>1. heap'[c] > 0
      BY <1>4, <2>3 DEF MallocInv, BlocksAreOwned
    <3>2. mallocCall'[u].op \in Unbilled => u # t /\ c # b
      BY <1>5, <2>2, <2>3
    <3> QED
      BY <1>10, <2>3, <3>1, <3>2 DEF MallocInv, BlocksAreOwned
  <2> QED
    BY <2>1, <2>3 DEF MallocInv, BlocksAreOwned
<1> QED
  BY <1>6, <1>11, <1>12, <1>13 DEF MallocInv, SumsBalance

\* A block is taken off the books by the call that is to free or to move it.
LEMMA UnregisterKeeps ==
  ASSUME MallocInv, NEW t \in Mallocers, NEW b \in Blocks, Mine(t, b), Unregister(b),
         NEW call \in MallocCalls, call.op \in {"Free", "Move"}, call.block = b,
         mallocCall' = [mallocCall EXCEPT ![t] = call], UNCHANGED <<heap, maxTotal, tagStack>>
  PROVE  MallocInv'
<1>1. /\ mallocCall \in [Mallocers -> MallocCalls] /\ total \in Int
      /\ info \in [Blocks -> BlockInfos] /\ NoBlock \in BlockInfos
      /\ nodes \in [DOMAIN nodes -> [bytes : Int, allocs : Int]]
      /\ sites \in [DOMAIN sites -> [bytes : Int, trace : BOOLEAN]]
  BY DEF MallocInv, MallocTyped, NoBlock, BlockInfos
<1>2. /\ info' \in [Blocks -> BlockInfos] /\ info'[b] = NoBlock
      /\ \A c \in Blocks \ {b} : info'[c] = info[c]
  BY <1>1 DEF Unregister, books
<1>3. /\ NodesBalance' /\ SitesBalance' /\ (total = SumOf(BlockBytes, Blocks))' /\ total' \in Int
      /\ nodes' \in [DOMAIN nodes -> [bytes : Int, allocs : Int]]
      /\ sites' \in [DOMAIN sites -> [bytes : Int, trace : BOOLEAN]]
  <2>1. CASE info[b] = NoBlock
    <3>1. UNCHANGED <<info, nodes, sites, total>>
      BY <2>1 DEF Unregister, books
    <3> QED
      BY <1>1, <3>1 DEF MallocInv, SumsBalance, NodesBalance, SitesBalance, BilledTo, BlockBytes, NodeBytes
  <2>2. CASE info[b] # NoBlock
    <3>1. info' = [info EXCEPT ![b] = NoBlock] /\ Bill(info[b].node, -info[b].size, -1)
      BY <2>2 DEF Unregister
    <3>2. PICK node \in DOMAIN nodes, size \in Nat : node = info[b].node /\ size = info[b].size
      BY <1>1, <2>2 DEF MallocInv, BilledAreKnown, BlockInfos
    <3>3. Bill(node, -size, -1) /\ -size \in Int /\ -1 \in Int
      BY <3>1, <3>2
    <3>4. total' \in Int
      BY <1>1, <3>3 DEF Bill
    <3>5. /\ nodes' \in [DOMAIN nodes -> [bytes : Int, allocs : Int]]
          /\ sites' \in [DOMAIN sites -> [bytes : Int, trace : BOOLEAN]]
      BY <3>3, SitesFollowNodes
    <3> QED
      BY <2>2, <3>1, <3>4, <3>5, UnregisterBills
  <2> QED
    BY <2>1, <2>2
<1>4. /\ mallocCall' \in [Mallocers -> MallocCalls] /\ mallocCall'[t] = call
      /\ \A u \in Mallocers \ {t} : mallocCall'[u] = mallocCall[u]
      /\ DOMAIN nodes' = DOMAIN nodes /\ DOMAIN sites' = DOMAIN sites
  BY <1>1, <1>3
<1>5. MallocTyped'
  BY <1>2, <1>3, <1>4 DEF MallocInv, MallocTyped
<1>6. PathsAreKnown' /\ BilledAreKnown' /\ RegisteredAreHeld'
  BY <1>2, <1>4 DEF MallocInv, SumsBalance, PathsAreKnown, BilledAreKnown, RegisteredAreHeld
<1>7. BlocksAreOwned'
  <2>1. \A u \in Mallocers : ~Uses(u, b)
    BY DEF Mine
  <2>2. \A u \in Mallocers \ {t}, c \in Blocks : Uses(u, c)' <=> Uses(u, c)
    BY <1>4 DEF Uses, Doing
  <2>3. \A c \in Blocks : Uses(t, c)' <=> c = b
    BY <1>4 DEF Uses, Doing
  <2>4. ASSUME NEW u \in Mallocers, NEW c \in Blocks, Uses(u, c)'
        PROVE  /\ heap'[c] > 0 /\ (mallocCall'[u].op \in Unbilled => info'[c] = NoBlock)
               /\ \A w \in Mallocers : Uses(w, c)' => u = w
    <3>1. CASE c = b
      <4>1. u = t /\ \A w \in Mallocers : Uses(w, c)' => w = t
        BY <2>1, <2>2, <2>4, <3>1
      <4> QED
        BY <1>2, <3>1, <4>1 DEF Mine
    <3>2. CASE c # b
      <4>1. Uses(u, c) /\ u # t /\ \A w \in Mallocers : Uses(w, c)' => Uses(w, c)
        BY <2>2, <2>3, <2>4, <3>2
      <4> QED
        BY <1>2, <1>4, <3>2, <4>1 DEF MallocInv, BlocksAreOwned
    <3> QED
      BY <3>1, <3>2
  <2> QED
    BY <2>4 DEF BlocksAreOwned
<1> QED
  BY <1>3, <1>5, <1>6, <1>7 DEF MallocInv, SumsBalance

\* At first nothing is registered.
LEMMA BooksStart == MallocInit => MallocInv
<1> SUFFICES ASSUME MallocInit PROVE MallocInv
  OBVIOUS
<1>1. /\ info = [b \in Blocks |-> NoBlock] /\ total = 0 /\ maxTotal = 0
      /\ nodes = [p \in {<<>>} |-> [bytes |-> 0, allocs |-> 0]]
      /\ sites = [s \in {RootTag} |-> [bytes |-> 0, trace |-> FALSE]]
      /\ mallocCall = [t \in Mallocers |-> Idle] /\ tagStack = [t \in Mallocers |-> <<>>]
      /\ heap \in [Blocks -> {0} \cup BlockSizes]
  BY DEF MallocInit
<1>2. MallocTyped
  <2>1. info \in [Blocks -> BlockInfos] /\ mallocCall \in [Mallocers -> MallocCalls]
    BY <1>1 DEF NoBlock, BlockInfos, MallocCalls
  <2>2. heap \in [Blocks -> Nat]
    <3>1. {0} \cup BlockSizes \subseteq Nat
      BY MallocAssumption
    <3> QED
      BY <1>1, <3>1
  <2>3. <<>> \in Seq(DOMAIN nodes)
    OBVIOUS
  <2> QED
    BY <1>1, <2>1, <2>2, <2>3 DEF MallocTyped
<1>3. PathsAreKnown
  <2>1. <<>> \in Seq(Tags)
    OBVIOUS
  <2>2. \A x : IsFiniteSet({x})
    BY FS_Singleton
  <2> QED
    BY <1>1, <2>1, <2>2 DEF PathsAreKnown, Tag
<1>4. BilledAreKnown /\ RegisteredAreHeld
  BY <1>1 DEF BilledAreKnown, RegisteredAreHeld
<1>5. BlocksAreOwned
  BY <1>1 DEF BlocksAreOwned, Uses, Doing, Idle
<1>6. \A b \in Blocks : BlockBytes[b] = 0
  BY <1>1 DEF BlockBytes, NoBlock
<1>7. NodesBalance
  <2>1. \A p \in DOMAIN nodes : BilledTo(p) = {}
    BY <1>1 DEF BilledTo
  <2>2. SumOf(BlockBytes, {}) = 0 /\ Cardinality({}) = 0
    BY SumFirst, FS_EmptySet
  <2> QED
    BY <1>1, <2>1, <2>2 DEF NodesBalance
<1>8. SumOf(BlockBytes, Blocks) = 0
  BY <1>6, MallocAssumption, SumOfNothing
<1>9. SitesBalance
  <2>1. \A p \in DOMAIN nodes : NodeBytes[p] = 0
    BY <1>1 DEF NodeBytes
  <2>2. ASSUME NEW s \in DOMAIN sites PROVE SumOf(NodeBytes, {p \in DOMAIN nodes : Tag(p) = s}) = 0
    <3>1. IsFiniteSet({p \in DOMAIN nodes : Tag(p) = s})
      BY <1>3, FS_Subset DEF PathsAreKnown
    <3> QED
      BY <2>1, <3>1, SumOfNothing
  <2> QED
    BY <1>1, <2>2 DEF SitesBalance
<1> QED
  BY <1>1, <1>2, <1>3, <1>4, <1>5, <1>7, <1>8, <1>9 DEF MallocInv, SumsBalance

\* Every step keeps the books.
LEMMA BooksStep == MallocInv /\ [MallocNext]_mallocVars => MallocInv'
<1> SUFFICES ASSUME MallocInv, [MallocNext]_mallocVars PROVE MallocInv'
  OBVIOUS
<1>1. ASSUME NEW t \in Mallocers, NEW b \in Blocks, Free(t, b) PROVE MallocInv'
  <2>1. [op |-> "Free", block |-> b] \in MallocCalls
    BY DEF MallocCalls
  <2> QED
    BY <1>1, <2>1, UnregisterKeeps DEF Free, Goes
<1>2. ASSUME NEW t \in Mallocers, NEW b \in Blocks, NEW size \in BlockSizes, Realloc(t, b, size)
      PROVE  MallocInv'
  <2>1. [op |-> "Move", block |-> b, size |-> size] \in MallocCalls
    BY DEF MallocCalls
  <2> QED
    BY <1>2, <2>1, UnregisterKeeps DEF Realloc, Goes
<1>3. CASE UNCHANGED mallocVars
  <2>1. UNCHANGED <<heap, info, nodes, sites, total, maxTotal, tagStack, mallocCall>>
    BY <1>3 DEF mallocVars
  <2>2. MallocTyped' /\ PathsAreKnown' /\ BilledAreKnown'
    BY <2>1 DEF MallocInv, MallocTyped, PathsAreKnown, BilledAreKnown
  <2>3. \A u, b : Uses(u, b)' = Uses(u, b)
    BY <2>1 DEF Uses, Doing
  <2>4. BlocksAreOwned'
    BY <2>1, <2>3 DEF MallocInv, BlocksAreOwned
  <2>5. SumsBalance'
    BY <2>1, BooksStay
  <2> QED
    BY <2>2, <2>4, <2>5 DEF MallocInv
<1>4. CASE MallocNext
  BY <1>1, <1>2, <1>4, EmplaceKeeps, QuietStepsKeep, MallocKeeps, HookFreeKeeps,
     HookReallocKeeps, RegisterKeeps DEF MallocNext
<1> QED
  BY <1>3, <1>4

-----------------------------------------------------------------------------
(* No block is forgotten. *)

\* A block that is allocated and not registered was there before, was not moved when
\* it should have been, or is in the hands of a call that has still to register or to
\* free it.
Excused(b) ==
  b \in early \cup dropped \/ \E t \in Mallocers : Uses(t, b) /\ mallocCall[t].op \in Unbilled
UnlistedAreExcused == \A b \in Blocks : heap[b] > 0 /\ info[b] = NoBlock => Excused(b)

\* The step of a thread that had the block for nothing of the kind, or another one.
LEMMA ExcuseStays ==
  ASSUME MallocTyped, NEW t \in Mallocers, NEW call,
         mallocCall' = [mallocCall EXCEPT ![t] = call],
         NEW b \in Blocks, Excused(b),
         mallocCall[t].op \in Unbilled => mallocCall[t].block # b,
         b \in early \cup dropped => b \in early' \cup dropped'
  PROVE  Excused(b)'
<1>1. mallocCall \in [Mallocers -> MallocCalls]
  BY DEF MallocTyped
<1>2. CASE b \in early \cup dropped
  BY <1>2 DEF Excused
<1>3. ASSUME NEW u \in Mallocers, Uses(u, b), mallocCall[u].op \in Unbilled PROVE Excused(b)'
  <2>1. u # t
    BY <1>3 DEF Uses
  <2>2. mallocCall'[u] = mallocCall[u]
    BY <1>1, <2>1
  <2>3. Uses(u, b)' /\ mallocCall'[u].op \in Unbilled
    BY <1>3, <2>2 DEF Uses, Doing
  <2> QED
    BY <2>3 DEF Excused
<1> QED
  BY <1>2, <1>3 DEF Excused

\* A step after which a call has the block to register or to free it.
LEMMA ExcuseComes ==
  ASSUME MallocTyped, NEW t \in Mallocers, NEW call,
         mallocCall' = [mallocCall EXCEPT ![t] = call],
         call.op \in Unbilled
  PROVE  Excused(call.block)'
<1>1. mallocCall'[t] = call
  BY DEF MallocTyped
<1>2. Uses(t, call.block)' /\ mallocCall'[t].op \in Unbilled
  BY <1>1 DEF Uses, Doing, Unbilled
<1> QED
  BY <1>2 DEF Excused

\* Steps that leave the blocks and what is registered alone.
LEMMA QuietStepsExcuse ==
  ASSUME MallocInv, UnlistedAreExcused, NEW t \in Mallocers,
         \/ \E tag \in Tags : Begin(t, tag)
         \/ Emplace(t) \/ End(t) \/ ReadMax(t) \/ StoreMax(t) \/ GetCapturedMallocStacks(t)
         \/ \E u \in Mallocers : Override(t, u)
         \/ \E list \in MatchLists : SetMatchList(t, list)
  PROVE  UnlistedAreExcused'
<1>1. UNCHANGED <<heap, info, early, dropped>>
  BY DEF Begin, Emplace, End, ReadMax, StoreMax, GetCapturedMallocStacks, Override, SetMatchList,
         books, past
<1>2. CASE UNCHANGED mallocCall
  <2>1. \A b \in Blocks : Excused(b)' <=> Excused(b)
    BY <1>1, <1>2 DEF Excused, Uses, Doing
  <2> QED
    BY <1>1, <2>1 DEF UnlistedAreExcused
<1>3. ASSUME NEW call, mallocCall' = [mallocCall EXCEPT ![t] = call],
             mallocCall[t].op \notin Unbilled
      PROVE  UnlistedAreExcused'
  <2>1. MallocTyped
    BY DEF MallocInv
  <2>2. ASSUME NEW b \in Blocks, Excused(b) PROVE Excused(b)'
    BY <1>1, <1>3, <2>1, <2>2, ExcuseStays
  <2> QED
    BY <1>1, <2>2 DEF UnlistedAreExcused
<1>4. \/ UNCHANGED mallocCall
      \/ /\ \E call : mallocCall' = [mallocCall EXCEPT ![t] = call]
         /\ mallocCall[t].op \notin Unbilled
  BY DEF Begin, Emplace, End, ReadMax, StoreMax, GetCapturedMallocStacks, Override, SetMatchList,
         Goes, Doing, Unbilled
<1> QED
  BY <1>2, <1>3, <1>4

\* Steps on a block: it is free, registered or excused afterwards, and so are the others.
LEMMA BlockStepExcuses ==
  ASSUME MallocInv, UnlistedAreExcused, NEW t \in Mallocers, NEW call,
         mallocCall' = [mallocCall EXCEPT ![t] = call], NEW b \in Blocks,
         mallocCall[t].op \in Unbilled => mallocCall[t].block = b,
         heap'[b] > 0 /\ info'[b] = NoBlock => Excused(b)',
         \A c \in Blocks \ {b} :
           \/ Excused(c)'
           \/ /\ heap'[c] = heap[c] /\ info'[c] = info[c]
              /\ c \in early \cup dropped => c \in early' \cup dropped'
  PROVE  UnlistedAreExcused'
<1>1. MallocTyped
  BY DEF MallocInv
<1>2. ASSUME NEW c \in Blocks \ {b}, heap'[c] > 0, info'[c] = NoBlock PROVE Excused(c)'
  <2>1. CASE heap'[c] = heap[c] /\ info'[c] = info[c]
             /\ (c \in early \cup dropped => c \in early' \cup dropped')
    <3>1. Excused(c)
      BY <1>2, <2>1 DEF UnlistedAreExcused
    <3> QED
      BY <1>1, <1>2, <2>1, <3>1, ExcuseStays
  <2> QED
    BY <1>2, <2>1
<1> QED
  BY <1>2 DEF UnlistedAreExcused

\* The allocator hands out a block that is still to be registered.
LEMMA MallocExcuses ==
  ASSUME MallocInv, UnlistedAreExcused, NEW t \in Mallocers, NEW b \in Blocks,
         NEW size \in BlockSizes, Malloc(t, b, size)
  PROVE  UnlistedAreExcused'
<1> DEFINE call == [op |-> "Malloced", block |-> b]
<1>1. /\ mallocCall' = [mallocCall EXCEPT ![t] = call] /\ heap' = [heap EXCEPT ![b] = size]
      /\ UNCHANGED <<info, early, dropped>> /\ mallocCall[t].op \notin Unbilled
  BY DEF Malloc, Goes, Doing, Unbilled, books, past
<1>2. call.op \in Unbilled /\ call.block = b /\ MallocTyped /\ heap \in [Blocks -> Nat]
  BY DEF Unbilled, MallocInv, MallocTyped
<1> HIDE DEF call
<1>3. Excused(b)'
  BY <1>1, <1>2, ExcuseComes
<1>4. \A c \in Blocks \ {b} : heap'[c] = heap[c]
  BY <1>1, <1>2
<1> QED
  BY <1>1, <1>2, <1>3, <1>4, BlockStepExcuses

\* A block that is taken off the books is still to be freed or moved.
LEMMA UnregisterExcuses ==
  ASSUME MallocInv, UnlistedAreExcused, NEW t \in Mallocers, NEW b \in Blocks,
         Mine(t, b), Unregister(b), NEW call \in MallocCalls, call.op \in {"Free", "Move"},
         call.block = b, mallocCall' = [mallocCall EXCEPT ![t] = call],
         UNCHANGED <<heap, early, dropped>>
  PROVE  UnlistedAreExcused'
<1>1. /\ call.op \in Unbilled /\ mallocCall[t].op \notin Unbilled /\ MallocTyped
      /\ info \in [Blocks -> BlockInfos]
  BY DEF Unbilled, Mine, Doing, MallocInv, MallocTyped
<1>2. Excused(b)'
  BY <1>1, ExcuseComes
<1>3. \A c \in Blocks \ {b} : info'[c] = info[c]
  BY <1>1 DEF Unregister, books
<1> QED
  BY <1>1, <1>2, <1>3, BlockStepExcuses

\* Its call registers it, frees it, leaves it where it is or moves it.
LEMMA OwnerExcuses ==
  ASSUME MallocInv, UnlistedAreExcused, NEW t \in Mallocers,
         Register(t) \/ HookFree(t) \/ HookReallocFails(t) \/ \E c \in Blocks : HookRealloc(t, c)
  PROVE  UnlistedAreExcused'
<1>1. PICK b \in Blocks : b = mallocCall[t].block
  BY MallocCallFields DEF MallocInv, Register, HookFree, HookReallocFails, HookRealloc, Doing
<1>2. /\ MallocTyped /\ heap \in [Blocks -> Nat] /\ info \in [Blocks -> BlockInfos]
      /\ mallocCall[t].op \in Unbilled /\ Uses(t, b)
  BY <1>1 DEF MallocInv, MallocTyped, Register, HookFree, HookReallocFails, HookRealloc, Doing,
              Unbilled, Uses
<1>3. CASE Register(t)
  <2>1. PICK size, node, call :
          /\ info' = [info EXCEPT ![b] = [size |-> size, node |-> node]] /\ size = heap[b]
          /\ mallocCall' = [mallocCall EXCEPT ![t] = call]
          /\ UNCHANGED <<heap, early, dropped>>
    BY <1>1, <1>3 DEF Register, Goes, past
  <2>2. heap[b] > 0
    BY <1>2 DEF MallocInv, BlocksAreOwned
  <2>3. info'[b] # NoBlock /\ \A c \in Blocks \ {b} : info'[c] = info[c]
    BY <1>2, <2>1, <2>2 DEF NoBlock
  <2> QED
    BY <1>1, <2>1, <2>3, BlockStepExcuses
<1>4. CASE HookFree(t)
  <2>1. /\ heap' = [heap EXCEPT ![b] = 0] /\ mallocCall' = [mallocCall EXCEPT ![t] = Idle]
        /\ UNCHANGED info /\ early' = early \ {b} /\ dropped' = dropped \ {b}
    BY <1>1, <1>4 DEF HookFree, Goes, books
  <2>2. ~(heap'[b] > 0) /\ \A c \in Blocks \ {b} : heap'[c] = heap[c]
    BY <1>2, <2>1
  <2> QED
    BY <1>1, <2>1, <2>2, BlockStepExcuses
<1>5. CASE HookReallocFails(t)
  <2>1. /\ mallocCall' = [mallocCall EXCEPT ![t] = Idle]
        /\ UNCHANGED <<heap, info, early>> /\ dropped' = dropped \cup {b}
    BY <1>1, <1>5 DEF HookReallocFails, Goes, books
  <2>2. Excused(b)'
    BY <2>1 DEF Excused
  <2> QED
    BY <1>1, <2>1, <2>2, BlockStepExcuses
<1>6. ASSUME NEW c \in Blocks, HookRealloc(t, c) PROVE UnlistedAreExcused'
  <2> DEFINE call == [op |-> "Moved", block |-> c]
  <2>1. /\ heap' = [heap EXCEPT ![b] = 0, ![c] = mallocCall[t].size]
        /\ mallocCall' = [mallocCall EXCEPT ![t] = call]
        /\ UNCHANGED info /\ early' = early \ {b} /\ dropped' = dropped \ {b}
    BY <1>1, <1>6 DEF HookRealloc, Goes, books
  <2>2. call.op \in Unbilled /\ call.block = c
    BY DEF Unbilled
  <2> HIDE DEF call
  <2>3. Excused(c)'
    BY <1>2, <2>1, <2>2, ExcuseComes
  <2>4. heap'[b] > 0 => Excused(b)'
    BY <1>2, <2>1, <2>3
  <2>5. \A d \in Blocks \ {b} : d # c => heap'[d] = heap[d]
    BY <1>2, <2>1
  <2> QED
    BY <1>1, <2>1, <2>3, <2>4, <2>5, BlockStepExcuses
<1> QED
  BY <1>3, <1>4, <1>5, <1>6

\* No step forgets a block.
LEMMA ForgottenStep ==
  MallocInv /\ UnlistedAreExcused /\ [MallocNext]_mallocVars => UnlistedAreExcused'
<1> SUFFICES ASSUME MallocInv, UnlistedAreExcused, [MallocNext]_mallocVars
             PROVE  UnlistedAreExcused'
  OBVIOUS
<1>1. ASSUME NEW t \in Mallocers, NEW b \in Blocks, Free(t, b) PROVE UnlistedAreExcused'
  <2>1. [op |-> "Free", block |-> b] \in MallocCalls
    BY DEF MallocCalls
  <2> QED
    BY <1>1, <2>1, UnregisterExcuses DEF Free, Goes, past
<1>2. ASSUME NEW t \in Mallocers, NEW b \in Blocks, NEW size \in BlockSizes, Realloc(t, b, size)
      PROVE  UnlistedAreExcused'
  <2>1. [op |-> "Move", block |-> b, size |-> size] \in MallocCalls
    BY DEF MallocCalls
  <2> QED
    BY <1>2, <2>1, UnregisterExcuses DEF Realloc, Goes, past
<1>3. CASE UNCHANGED mallocVars
  <2>1. UNCHANGED <<heap, info, mallocCall, early, dropped>>
    BY <1>3 DEF mallocVars
  <2>2. \A b \in Blocks : Excused(b)' <=> Excused(b)
    BY <2>1 DEF Excused, Uses, Doing
  <2> QED
    BY <2>1, <2>2 DEF UnlistedAreExcused
<1>4. CASE MallocNext
  BY <1>1, <1>2, <1>4, QuietStepsExcuse, MallocExcuses, OwnerExcuses DEF MallocNext
<1> QED
  BY <1>3, <1>4

\* The books of allocations balance at every moment, whatever threads push, allocate,
\* move and free, and leave out no block but those from before Initialize and those
\* whose reallocation failed (mallocTag.cpp:595-655, :1001-1120).
THEOREM AllocationsAreBilled == MallocSpec => []BooksBalance
<1>1. MallocInit => UnlistedAreExcused
  BY DEF MallocInit, UnlistedAreExcused, Excused
<1>2. UnlistedAreExcused => NoneForgotten
  BY DEF UnlistedAreExcused, NoneForgotten, OffTheBooks, Excused
<1>3. MallocInv /\ NoneForgotten => BooksBalance
  BY DEF MallocInv, BooksBalance
<1> QED
  BY <1>1, <1>2, <1>3, BooksStart, BooksStep, ForgottenStep, PTL DEF MallocSpec
=============================================================================
