------------------------- MODULE SpinRWMutexProofs -------------------------
(***************************************************************************)
(* Proofs about TfSpinRWMutex for every finite set of threads.             *)
(*                                                                         *)
(* The exclusion of readers by a writer rests on the value of the lock     *)
(* word, so the inductive invariant ties the word to the threads: it is    *)
(* twice the number of counted readers plus one if a thread owns the flag, *)
(* and at most one thread does.                                            *)
(*                                                                         *)
(* At the end, that whoever holds the mutex sees every write made under    *)
(* it.  A contended writer takes the lock with a relaxed load and learns   *)
(* nothing from it, so that invariant is about the flag as well: its owner *)
(* knows all writes already while it waits for readers.  And the word      *)
(* carries all writes except that of the thread that is writing.           *)
(***************************************************************************)
EXTENDS SpinRWMutexOrder, Lemmas

ReadCalls  == {"AcquireRead", "TryAcquireRead"}
WriteCalls == {"AcquireWrite", "TryAcquireWrite"}

\* Where a thread can be in each call, and what its ScopedLock then says.
Where(t) ==
  \/ call[t] = "None" /\ at[t] = "Client"
  \/ /\ call[t] \in ReadCalls
     /\ at[t] \in {"AddReader", "UndoReader", "WaitForWriter"}
     /\ at[t] = "WaitForWriter" => call[t] = "AcquireRead"
     /\ acqState[t] = "None"
  \/ /\ call[t] \in WriteCalls
     /\ at[t] \in {"SetFlag", "WaitForReaders", "WaitForWriter"}
     /\ acqState[t] = "None"
  \/ /\ call[t] = "UpgradeToWriter"
     /\ at[t] \in {"SetFlag", "DropOwnReader", "WaitForReaders", "WaitForWriter"}
     /\ acqState[t] = "Read"

ControlOK == TypeOK /\ \A t \in Threads : Where(t)

CountedThreads == {t \in Threads : Counted(t)}
FlaggedThreads == {t \in Threads : Flagged(t)}

OneFlag == \A t, u \in Threads : Flagged(t) /\ Flagged(u) => t = u

IInv == ControlOK /\ WordAccounts /\ OneFlag /\ WriterExcludesAll

-----------------------------------------------------------------------------
(* The lock word. *)

\* What a thread learns from a value of the lock word.
LEMMA WordFacts ==
  ASSUME IInv
  PROVE  /\ HasWriter(lockState) <=> \E t \in Threads : Flagged(t)
         /\ OnlyWriter(lockState) => \A t \in Threads : ~Counted(t)
         /\ lockState = 0 => \A t \in Threads : ~Counted(t) /\ ~Flagged(t)
         /\ \A t \in Threads :
              Counted(t) /\ lockState = OneReader + WriterFlag
                => \A u \in Threads \ {t} : ~Counted(u)
<1>1. IsFiniteSet(CountedThreads)
  BY ThreadsAssumption, FS_Subset DEF CountedThreads
<1>2. \A t, u \in FlaggedThreads : t = u
  BY DEF IInv, OneFlag, FlaggedThreads
<1>3. lockState = OneReader * Cardinality(CountedThreads) + WriterFlag * Cardinality(FlaggedThreads)
  BY DEF IInv, WordAccounts, CountedThreads, FlaggedThreads
<1>4. /\ HasWriter(lockState) <=> FlaggedThreads # {}
      /\ OnlyWriter(lockState) => CountedThreads = {}
      /\ lockState = 0 => CountedThreads = {} /\ FlaggedThreads = {}
      /\ lockState = OneReader + WriterFlag => \A x, y \in CountedThreads : x = y
  BY <1>1, <1>2, <1>3, WordOfSets
<1> QED
  BY <1>4 DEF CountedThreads, FlaggedThreads

-----------------------------------------------------------------------------
(* One step of one thread. *)

Move(t) == Enter(t) \/ Step(t) \/ Leave(t)

\* A step of t leaves what the other threads are doing alone.
OnlyMoves(t) ==
  \A u \in Threads \ {t} :
    at'[u] = at[u] /\ acqState'[u] = acqState[u] /\ call'[u] = call[u]

\* The word changes by what t takes out of it and puts in.
Balance(t) ==
  lockState' = lockState + OneReader * (Ones(Counted(t)') - Ones(Counted(t)))
                         + WriterFlag * (Ones(Flagged(t)') - Ones(Flagged(t)))

\* t takes the flag, or a read lock, only from a word without the flag, and
\* becomes the writer only when nobody else has a reader count in the word.
Admission(t) ==
  /\ Flagged(t)' /\ ~Flagged(t) => ~HasWriter(lockState)
  /\ acqState'[t] = "Read" /\ acqState[t] = "None" => ~HasWriter(lockState)
  /\ acqState'[t] = "Write" /\ acqState[t] # "Write"
       => \A u \in Threads \ {t} : ~Counted(u)

\* The control state keeps its type and its shape in every step of t.
LEMMA ControlStep ==
  ASSUME ControlOK, NEW t \in Threads, Move(t)
  PROVE  (lockState' \in Nat => ControlOK') /\ OnlyMoves(t)
<1> USE DEF ControlOK, TypeOK, Where, OnlyMoves, ReadCalls, WriteCalls,
            AllCalls, Places, Goto, Return
<1>1. CASE StartRead(t)
  BY <1>1 DEF StartRead, Start, CanCall, Expects
<1>2. CASE StartWrite(t)
  BY <1>2 DEF StartWrite, Start, CanCall, Expects
<1>3. CASE StartUpgrade(t)
  BY <1>3 DEF StartUpgrade, Start, CanCall, Expects
<1>4. CASE TryAcquireWriteIfReleased(t)
  BY <1>4 DEF TryAcquireWriteIfReleased, CanCall, Expects
<1>5. CASE DowngradeToReader(t)
  BY <1>5 DEF DowngradeToReader, CanCall, Expects
<1>6. CASE AddReaderStep(t)
  BY <1>6 DEF AddReaderStep
<1>7. CASE UndoReaderStep(t)
  BY <1>7 DEF UndoReaderStep
<1>8. CASE SetFlagStep(t)
  BY <1>8 DEF SetFlagStep
<1>9. CASE UpgradeSetFlagStep(t)
  <2>1. CASE HasWriter(lockState)
    <3>1. at' = [at EXCEPT ![t] = "WaitForWriter"] /\ UNCHANGED <<acqState, call>>
      BY <1>9, <2>1 DEF UpgradeSetFlagStep
    <3>2. atomic' = [atomic EXCEPT ![t] = FALSE]
      BY <1>9, <2>1 DEF UpgradeSetFlagStep
    <3>3. atomic' \in [Threads -> BOOLEAN]
      BY <3>2
    <3>4. at[t] = "SetFlag" /\ call[t] = "UpgradeToWriter"
      BY <1>9 DEF UpgradeSetFlagStep
    <3> QED
      BY <3>1, <3>3, <3>4
  <2>2. CASE ~HasWriter(lockState)
    BY <1>9, <2>2 DEF UpgradeSetFlagStep
  <2> QED
    BY <2>1, <2>2
<1>10. CASE DropOwnReaderStep(t)
  BY <1>10 DEF DropOwnReaderStep
<1>11. CASE WaitForReaders(t)
  BY <1>11 DEF WaitForReaders
<1>12. CASE WaitForWriter(t)
  BY <1>12 DEF WaitForWriter, Retry
<1>13. CASE ReleaseRead(t)
  BY <1>13 DEF ReleaseRead
<1>14. CASE ReleaseWrite(t)
  BY <1>14 DEF ReleaseWrite
<1> QED
  BY <1>1, <1>2, <1>3, <1>4, <1>5, <1>6, <1>7, <1>8, <1>9, <1>10, <1>11, <1>12,
     <1>13, <1>14
  DEF Move, Enter, Step, Leave

\* Every step keeps the balance of the word and the rules of admission.
LEMMA WordStep ==
  ASSUME IInv, NEW t \in Threads, Move(t)
  PROVE  Balance(t) /\ Admission(t)
<1> USE DEF Balance, Admission, Ones, Counted, Flagged, Goto, Return, Where
<1>1. /\ lockState \in Nat
      /\ at \in [Threads -> Places]
      /\ acqState \in [Threads -> {"None", "Read", "Write"}]
      /\ Where(t)
  BY DEF IInv, ControlOK, TypeOK
<1>2. CASE StartRead(t) \/ StartWrite(t) \/ StartUpgrade(t)
  <2>1. PICK place \in {"AddReader", "SetFlag"} : at' = [at EXCEPT ![t] = place]
    BY <1>2 DEF StartRead, StartWrite, StartUpgrade, Start
  <2>2. at[t] = "Client" /\ UNCHANGED <<lockState, acqState>>
    BY <1>1, <1>2
    DEF StartRead, StartWrite, StartUpgrade, Start, CanCall, ReadCalls, WriteCalls
  <2> QED
    BY <1>1, <2>1, <2>2 DEF OneReader, WriterFlag
<1>3. CASE TryAcquireWriteIfReleased(t)
  BY <1>1, <1>3, WordFacts
  DEF TryAcquireWriteIfReleased, CanCall, Expects, HasWriter, OneReader, WriterFlag
<1>4. CASE DowngradeToReader(t)
  BY <1>1, <1>4
  DEF DowngradeToReader, CanCall, Expects, WriterToReader, OneReader, WriterFlag
<1>5. CASE AddReaderStep(t)
  BY <1>1, <1>5 DEF AddReaderStep, AddReader, OneReader, WriterFlag, ReadCalls, WriteCalls
<1>6. CASE UndoReaderStep(t)
  BY <1>1, <1>6 DEF UndoReaderStep, DropReader, OneReader, WriterFlag, ReadCalls, WriteCalls
<1>7. CASE SetFlagStep(t)
  <2>1. at[t] = "SetFlag" /\ acqState[t] = "None" /\ call[t] \in WriteCalls
    BY <1>1, <1>7 DEF SetFlagStep, ReadCalls, WriteCalls
  <2>2. CASE HasWriter(lockState)
    <3>1. lockState # 0
      BY <2>2 DEF HasWriter, OneReader, WriterFlag
    <3>2. lockState' = lockState
      BY <1>7, <2>2 DEF SetFlagStep, SetWriter
    <3>3. acqState' = acqState \/ acqState' = [acqState EXCEPT ![t] = "None"]
      BY <1>7, <2>2, <3>1 DEF SetFlagStep, Released
    <3>4. at'[t] \in {"WaitForWriter", "Client"}
      BY <1>1, <1>7, <2>2, <3>1 DEF SetFlagStep, Released
    <3> QED
      BY <1>1, <2>1, <3>2, <3>3, <3>4 DEF OneReader, WriterFlag
  <2>3. CASE ~HasWriter(lockState)
    <3>1. lockState' = lockState + WriterFlag
      BY <1>7, <2>3 DEF SetFlagStep, SetWriter
    <3>2. CASE lockState = 0
      BY <1>1, <1>7, <2>1, <2>3, <3>1, <3>2, WordFacts
      DEF SetFlagStep, Released, OneReader, WriterFlag
    <3>3. CASE lockState # 0
      BY <1>1, <1>7, <2>1, <2>3, <3>1, <3>3
      DEF SetFlagStep, Released, OneReader, WriterFlag
    <3> QED
      BY <3>2, <3>3
  <2> QED
    BY <2>2, <2>3
<1>8. CASE UpgradeSetFlagStep(t)
  BY <1>1, <1>8 DEF UpgradeSetFlagStep, SetWriter, WriterFlag, OneReader, ReadCalls, WriteCalls
<1>9. CASE DropOwnReaderStep(t)
  BY <1>1, <1>9, WordFacts
  DEF DropOwnReaderStep, DropReader, OneReader, WriterFlag, ReadCalls, WriteCalls
<1>10. CASE WaitForReaders(t)
  BY <1>1, <1>10, WordFacts DEF WaitForReaders, OneReader, WriterFlag, ReadCalls, WriteCalls
<1>11. CASE WaitForWriter(t)
  BY <1>1, <1>11 DEF WaitForWriter, Retry, OneReader, WriterFlag, ReadCalls, WriteCalls
<1>12. CASE ReleaseRead(t)
  BY <1>1, <1>12 DEF ReleaseRead, DropReader, OneReader, WriterFlag
<1>13. CASE ReleaseWrite(t)
  BY <1>1, <1>13, WordFacts DEF ReleaseWrite, ClearWriter, OneReader, WriterFlag
<1> QED
  BY <1>2, <1>3, <1>4, <1>5, <1>6, <1>7, <1>8, <1>9, <1>10, <1>11, <1>12, <1>13
  DEF Move, Enter, Step, Leave

\* The word follows the balance of one thread's step.
LEMMA WordAccountsStep ==
  ASSUME IInv, NEW t \in Threads, OnlyMoves(t), Balance(t)
  PROVE  WordAccounts' /\ lockState' \in Nat
<1> DEFINE C == CountedThreads
           F == FlaggedThreads
<1>1. C \ {t} = C' \ {t} /\ F \ {t} = F' \ {t}
  BY DEF OnlyMoves, CountedThreads, FlaggedThreads, Counted, Flagged
<1>2. /\ t \in C <=> Counted(t)
      /\ t \in F <=> Flagged(t)
      /\ t \in C' <=> Counted(t)'
      /\ t \in F' <=> Flagged(t)'
  BY DEF CountedThreads, FlaggedThreads
<1>3. IsFiniteSet(C) /\ IsFiniteSet(F)
  BY ThreadsAssumption, FS_Subset DEF CountedThreads, FlaggedThreads
<1>4. /\ Cardinality(C) \in Nat /\ IsFiniteSet(C')
      /\ Cardinality(C') = Cardinality(C) + Ones(Counted(t)') - Ones(Counted(t))
  BY <1>1, <1>2, <1>3, CardinalityStep DEF Ones
<1>5. /\ Cardinality(F) \in Nat /\ IsFiniteSet(F')
      /\ Cardinality(F') = Cardinality(F) + Ones(Flagged(t)') - Ones(Flagged(t))
  BY <1>1, <1>2, <1>3, CardinalityStep DEF Ones
<1>6. lockState = OneReader * Cardinality(C) + WriterFlag * Cardinality(F)
  BY DEF IInv, WordAccounts, CountedThreads, FlaggedThreads
<1>7. lockState' = OneReader * Cardinality(C') + WriterFlag * Cardinality(F')
  BY <1>4, <1>5, <1>6 DEF Balance, Ones, OneReader, WriterFlag
<1>8. Cardinality(C') \in Nat /\ Cardinality(F') \in Nat
  BY <1>4, <1>5, FS_CardinalityType
<1> QED
  BY <1>7, <1>8
  DEF WordAccounts, CountedThreads, FlaggedThreads, OneReader, WriterFlag

\* Under the rules of admission the flag keeps one owner and a writer stays
\* alone.
LEMMA ExclusionStep ==
  ASSUME IInv, NEW t \in Threads, OnlyMoves(t), Admission(t), ControlOK'
  PROVE  OneFlag' /\ WriterExcludesAll'
<1>1. \A u \in Threads \ {t} : /\ Counted(u)' <=> Counted(u)
                               /\ Flagged(u)' <=> Flagged(u)
                               /\ acqState'[u] = acqState[u]
  BY DEF OnlyMoves, Counted, Flagged
<1>2. OneFlag'
  <2>1. SUFFICES ASSUME NEW u \in Threads \ {t}, Flagged(u), Flagged(t)'
                 PROVE  FALSE
    BY <1>1 DEF IInv, OneFlag
  <2>2. Flagged(t)
    BY <2>1, WordFacts DEF Admission
  <2> QED
    BY <2>1, <2>2 DEF IInv, OneFlag
<1>3. WriterExcludesAll'
  <2>1. SUFFICES ASSUME NEW u \in Threads, NEW v \in Threads, u # v,
                        acqState'[u] = "Write", acqState'[v] # "None"
                 PROVE  FALSE
    BY DEF WriterExcludesAll
  <2>2. acqState'[v] \in {"Read", "Write"}
    BY <2>1 DEF ControlOK, TypeOK
  <2>3. Flagged(u)'
    BY <2>1 DEF Flagged
  <2>4. acqState'[v] = "Read"
    BY <1>2, <2>1, <2>2, <2>3 DEF OneFlag, Flagged
  <2>5. CASE u = t
    <3>1. acqState[v] = "Read" /\ v # t
      BY <1>1, <2>1, <2>4, <2>5
    <3>2. acqState[t] # "Write"
      BY <2>1, <2>5, <3>1 DEF IInv, WriterExcludesAll
    <3>3. ~Counted(v)
      BY <2>1, <2>5, <3>1, <3>2 DEF Admission
    <3>4. Flagged(v)'
      BY <1>1, <3>1, <3>3 DEF Counted, Flagged
    <3> QED
      BY <1>2, <2>1, <2>3, <3>4 DEF OneFlag
  <2>6. CASE u # t
    <3>1. acqState[u] = "Write" /\ Flagged(u)
      BY <1>1, <2>1, <2>6 DEF Flagged
    <3>2. acqState[v] = "None"
      BY <2>1, <3>1 DEF IInv, WriterExcludesAll
    <3>3. v = t
      BY <1>1, <2>4, <3>2
    <3>4. ~HasWriter(lockState)
      BY <2>4, <3>2, <3>3 DEF Admission
    <3> QED
      BY <3>1, <3>4, WordFacts
  <2> QED
    BY <2>5, <2>6
<1> QED
  BY <1>2, <1>3

-----------------------------------------------------------------------------
(* The invariant. *)

\* A fresh mutex satisfies the invariant.
LEMMA InitInvariant == Init => IInv
<1> SUFFICES ASSUME Init PROVE IInv
  OBVIOUS
<1>1. ControlOK
  BY DEF Init, ControlOK, TypeOK, Where, AllCalls, Places
<1>2. {t \in Threads : Counted(t)} = {} /\ {t \in Threads : Flagged(t)} = {}
  BY DEF Init, Counted, Flagged
<1>3. WordAccounts
  BY <1>2, FS_EmptySet DEF Init, WordAccounts, OneReader, WriterFlag
<1> QED
  BY <1>1, <1>2, <1>3 DEF Init, IInv, OneFlag, WriterExcludesAll

\* A step inside a call preserves it.
LEMMA MoveInvariant ==
  ASSUME IInv, NEW t \in Threads, Move(t)
  PROVE  IInv'
<1>1. OnlyMoves(t)
  BY ControlStep DEF IInv
<1>2. Balance(t) /\ Admission(t)
  BY WordStep
<1>3. WordAccounts' /\ lockState' \in Nat
  BY <1>1, <1>2, WordAccountsStep
<1>4. ControlOK'
  BY <1>3, ControlStep DEF IInv
<1>5. OneFlag' /\ WriterExcludesAll'
  BY <1>1, <1>2, <1>4, ExclusionStep
<1> QED
  BY <1>3, <1>4, <1>5 DEF IInv

\* Every step preserves it.
LEMMA NextInvariant == IInv /\ [Next]_vars => IInv'
<1> SUFFICES ASSUME IInv, [Next]_vars PROVE IInv'
  OBVIOUS
<1>1. CASE UNCHANGED vars
  BY <1>1
  DEF vars, IInv, ControlOK, TypeOK, Where, WordAccounts, OneFlag,
      WriterExcludesAll, Counted, Flagged
<1>2. CASE Next
  BY <1>2, MoveInvariant DEF Next, Move
<1> QED
  BY <1>1, <1>2

\* The invariant holds in every state that the threads reach.
THEOREM InvariantHolds == Spec => []IInv
  BY InitInvariant, NextInvariant, PTL DEF Spec

\* Every state of the mutex is well-typed.
THEOREM TypeCorrect == Spec => []TypeOK
<1>1. IInv => TypeOK
  BY DEF IInv, ControlOK
<1> QED
  BY <1>1, InvariantHolds, PTL

\* The lock word always is the sum of what the threads put into it.
THEOREM WordAccounted == Spec => []WordAccounts
<1>1. IInv => WordAccounts
  BY DEF IInv
<1> QED
  BY <1>1, InvariantHolds, PTL

\* A writer excludes readers and other writers.
THEOREM Exclusion == Spec => []WriterExcludesAll
<1>1. IInv => WriterExcludesAll
  BY DEF IInv
<1> QED
  BY <1>1, InvariantHolds, PTL

-----------------------------------------------------------------------------
(* The mutex implements RWLock. *)

\* A step in which t alone changes its ScopedLock, and into a mode that the
\* word admitted, is a step of RWLock or a stutter.
LEMMA MoveRefines ==
  ASSUME IInv, NEW t \in Threads, Move(t)
  PROVE  [Lock!Next]_acqState
<1>1. OnlyMoves(t)
  BY ControlStep DEF IInv
<1>2. Admission(t)
  BY WordStep
<1>3. IInv'
  BY MoveInvariant
<1>4. /\ acqState \in [Threads -> {"None", "Read", "Write"}]
      /\ acqState' \in [Threads -> {"None", "Read", "Write"}]
  BY <1>3 DEF IInv, ControlOK, TypeOK
<1>5. acqState' = [acqState EXCEPT ![t] = acqState'[t]]
  BY <1>1, <1>4 DEF OnlyMoves
<1>6. CASE acqState'[t] = acqState[t]
  BY <1>4, <1>5, <1>6
<1>7. CASE acqState'[t] = "None" /\ acqState[t] # "None"
  BY <1>5, <1>7 DEF Lock!Next, Lock!Release, Lock!Become
<1>8. CASE acqState'[t] = "Read" /\ acqState[t] = "Write"
  BY <1>5, <1>8 DEF Lock!Next, Lock!Downgrade, Lock!Become
<1>9. CASE acqState'[t] = "Read" /\ acqState[t] = "None"
  <2>1. \A u \in Threads : acqState[u] # "Write"
    BY <1>2, <1>9, WordFacts DEF Admission, Flagged
  <2> QED
    BY <1>5, <1>9, <2>1 DEF Lock!Next, Lock!GrantRead, Lock!Become, Lock!Others
<1>10. CASE acqState'[t] = "Write" /\ acqState[t] # "Write"
  <2>1. \A u \in Threads \ {t} : acqState[u] = "None"
    BY <1>1, <1>3, <1>10 DEF IInv, WriterExcludesAll, OnlyMoves
  <2>2. CASE acqState[t] = "None"
    BY <1>5, <1>10, <2>1, <2>2
    DEF Lock!Next, Lock!GrantWrite, Lock!Become, Lock!Others
  <2>3. CASE acqState[t] = "Read"
    BY <1>5, <1>10, <2>1, <2>3
    DEF Lock!Next, Lock!Upgrade, Lock!Become, Lock!Others
  <2> QED
    BY <1>4, <1>10, <2>2, <2>3
<1> QED
  BY <1>4, <1>6, <1>7, <1>8, <1>9, <1>10

\* TfSpinRWMutex is a readers-writer lock whose upgrades and downgrades let
\* no other writer in between.
THEOREM Refinement == Spec => ImplementsRWLock
<1>1. Init => Lock!Init
  BY DEF Init, Lock!Init
<1>2. IInv /\ [Next]_vars => [Lock!Next]_acqState
  <2> SUFFICES ASSUME IInv, [Next]_vars PROVE [Lock!Next]_acqState
    OBVIOUS
  <2>1. CASE Next
    BY <2>1, MoveRefines DEF Next, Move
  <2>2. CASE UNCHANGED vars
    BY <2>2 DEF vars
  <2> QED
    BY <2>1, <2>2
<1> QED
  BY <1>1, <1>2, InvariantHolds, PTL DEF Spec, ImplementsRWLock, Lock!Spec

-----------------------------------------------------------------------------
(* Upgrades. *)

\* An upgrader that met another writer waits for a flag that nobody clears:
\* its owner cannot become the writer while the upgrader's count remains.
BlockedUpgrades ==
  \A t \in Threads :
    call[t] = "UpgradeToWriter" /\ ~atomic[t]
      => at[t] = "WaitForWriter" /\ HasWriter(lockState)

\* The flag bit after a step is the flag of a thread after that step.
LEMMA FlagAfterStep == IInv' => (HasWriter(lockState') <=> \E t \in Threads : Flagged(t)')
<1>1. IInv => (HasWriter(lockState) <=> \E t \in Threads : Flagged(t))
  BY WordFacts
<1>2. IInv' => (HasWriter(lockState) <=> \E t \in Threads : Flagged(t))'
  BY <1>1, PTL
<1> QED
  BY <1>2

\* No thread clears the flag under a waiting upgrader.
LEMMA FlagStays ==
  ASSUME IInv, NEW t \in Threads, acqState[t] = "Read", HasWriter(lockState),
         NEW u \in Threads, Move(u)
  PROVE  HasWriter(lockState')
<1>1. PICK v \in Threads : Flagged(v)
  BY WordFacts
<1>2. acqState[v] # "Write"
  BY <1>1 DEF IInv, WriterExcludesAll
<1>3. IInv' /\ OnlyMoves(u)
  BY MoveInvariant, ControlStep DEF IInv
<1>4. Flagged(v)'
  <2>1. CASE v # u
    BY <1>1, <1>3, <2>1 DEF OnlyMoves, Flagged
  <2>2. CASE v = u
    <3>1. at[v] \in {"WaitForReaders", "DropOwnReader"}
      BY <1>1, <1>2 DEF Flagged
    <3>2. call[v] # "None" /\ at \in [Threads -> Places]
          /\ acqState \in [Threads -> {"None", "Read", "Write"}]
      BY <3>1 DEF IInv, ControlOK, TypeOK, Where, ReadCalls, WriteCalls
    <3>3. WaitForReaders(v) \/ DropOwnReaderStep(v)
      BY <2>2, <3>1, <3>2
      DEF Move, Enter, Step, Leave, StartRead, StartWrite, StartUpgrade, Start,
          CanCall, TryAcquireWriteIfReleased, DowngradeToReader, AddReaderStep,
          UndoReaderStep, SetFlagStep, UpgradeSetFlagStep, WaitForWriter,
          ReleaseRead, ReleaseWrite
    <3> QED
      BY <3>2, <3>3 DEF WaitForReaders, DropOwnReaderStep, Goto, Return, Flagged
  <2> QED
    BY <2>1, <2>2
<1> QED
  BY <1>3, <1>4, FlagAfterStep

\* Only a failed attempt to set the flag makes an upgrade other than atomic.
LEMMA AtomicStep ==
  ASSUME IInv, NEW t \in Threads, NEW u \in Threads, Move(u),
         call'[t] = "UpgradeToWriter", atomic'[t] # TRUE
  PROVE  \/ call[t] = "UpgradeToWriter" /\ atomic'[t] = atomic[t]
         \/ UpgradeSetFlagStep(t) /\ HasWriter(lockState)
<1>1. /\ call \in [Threads -> AllCalls \cup {"None"}]
      /\ atomic \in [Threads -> BOOLEAN]
  BY DEF IInv, ControlOK, TypeOK
<1> USE DEF Goto, Return
<1>2. CASE StartRead(u) \/ StartWrite(u) \/ StartUpgrade(u)
  <2>1. PICK c \in AllCalls : /\ call' = [call EXCEPT ![u] = c]
                              /\ atomic' = [atomic EXCEPT ![u] = TRUE]
    BY <1>2 DEF StartRead, StartWrite, StartUpgrade, Start, AllCalls
  <2>2. u # t
    BY <1>1, <2>1
  <2> QED
    BY <1>1, <2>1, <2>2
<1>3. CASE UpgradeSetFlagStep(u)
  <2>1. call' = call
    BY <1>3 DEF UpgradeSetFlagStep
  <2>2. CASE HasWriter(lockState)
    <3>1. atomic' = [atomic EXCEPT ![u] = FALSE]
      BY <1>3, <2>2 DEF UpgradeSetFlagStep
    <3> QED
      BY <1>1, <1>3, <2>1, <2>2, <3>1
  <2>3. CASE ~HasWriter(lockState)
    BY <1>3, <2>1, <2>3 DEF UpgradeSetFlagStep
  <2> QED
    BY <2>2, <2>3
<1>4. CASE \/ TryAcquireWriteIfReleased(u) \/ DowngradeToReader(u)
           \/ AddReaderStep(u) \/ UndoReaderStep(u) \/ SetFlagStep(u)
           \/ DropOwnReaderStep(u) \/ WaitForReaders(u) \/ WaitForWriter(u)
           \/ ReleaseRead(u) \/ ReleaseWrite(u)
  <2>1. atomic' = atomic
    BY <1>4
    DEF TryAcquireWriteIfReleased, DowngradeToReader, AddReaderStep,
        UndoReaderStep, SetFlagStep, WaitForWriter, DropOwnReaderStep,
        WaitForReaders, ReleaseRead, ReleaseWrite
  <2>2. call' = call \/ call' = [call EXCEPT ![u] = "None"]
    BY <1>4
    DEF TryAcquireWriteIfReleased, DowngradeToReader, AddReaderStep,
        UndoReaderStep, SetFlagStep, WaitForWriter, DropOwnReaderStep,
        WaitForReaders, ReleaseRead, ReleaseWrite
  <2> QED
    BY <1>1, <2>1, <2>2
<1> QED
  BY <1>2, <1>3, <1>4 DEF Move, Enter, Step, Leave

\* So does what is said of upgrades that met a writer.
LEMMA BlockedInvariant ==
  IInv /\ BlockedUpgrades /\ [Next]_vars => BlockedUpgrades'
<1> SUFFICES ASSUME IInv, BlockedUpgrades, [Next]_vars, NEW t \in Threads,
                    call'[t] = "UpgradeToWriter", ~atomic'[t]
             PROVE  at'[t] = "WaitForWriter" /\ HasWriter(lockState')
  BY DEF BlockedUpgrades
<1>1. CASE UNCHANGED vars
  BY <1>1 DEF vars, BlockedUpgrades
<1>2. CASE Next
  <2>1. PICK u \in Threads : Move(u)
    BY <1>2 DEF Next, Move
  <2>2. /\ call \in [Threads -> AllCalls \cup {"None"}]
        /\ at \in [Threads -> Places]
        /\ atomic \in [Threads -> BOOLEAN]
        /\ Where(t)
    BY DEF IInv, ControlOK, TypeOK
  <2>3. CASE call[t] = "UpgradeToWriter" /\ ~atomic[t]
    <3>1. at[t] = "WaitForWriter" /\ HasWriter(lockState) /\ acqState[t] = "Read"
      BY <2>2, <2>3 DEF BlockedUpgrades, Where, ReadCalls, WriteCalls
    <3>2. HasWriter(lockState')
      BY <2>1, <3>1, FlagStays
    <3>3. at'[t] = at[t]
      <4>1. CASE u # t
        BY <2>1, <4>1, ControlStep DEF IInv, OnlyMoves
      <4>2. CASE u = t
        BY <2>1, <2>3, <3>1, <4>2
        DEF Move, Enter, Step, Leave, StartRead, StartWrite, StartUpgrade, Start,
            CanCall, TryAcquireWriteIfReleased, DowngradeToReader, AddReaderStep,
            UndoReaderStep, SetFlagStep, UpgradeSetFlagStep, WaitForWriter,
            DropOwnReaderStep, WaitForReaders, ReleaseRead, ReleaseWrite
      <4> QED
        BY <4>1, <4>2
    <3> QED
      BY <3>1, <3>2, <3>3
  <2>4. CASE ~(call[t] = "UpgradeToWriter" /\ ~atomic[t])
    <3>1. UpgradeSetFlagStep(t) /\ HasWriter(lockState)
      BY <2>1, <2>4, AtomicStep
    <3> QED
      BY <2>2, <3>1 DEF UpgradeSetFlagStep, Goto, SetWriter
  <2> QED
    BY <2>3, <2>4
<1> QED
  BY <1>1, <1>2

\* An upgrade that met another writer, which is to return FALSE (spinRWMutex.h:374-383,
\* :402), does not return: its reader count stays in the word while it waits for the flag
\* to go, and whoever set the flag waits for the counts.  This is why UpgradeReturns
\* fails, and FALSE is never returned, with any number of threads.
UpgradesThatMetAWriterStay ==
  [][\A t \in Threads :
       call[t] = "UpgradeToWriter" /\ call'[t] = "None" => atomic[t]]_vars

THEOREM NonatomicUpgradesHang == Spec => UpgradesThatMetAWriterStay
<1> DEFINE Returns ==
      \A t \in Threads :
        call[t] = "UpgradeToWriter" /\ call'[t] = "None" => atomic[t]
<1>1. Init => BlockedUpgrades
  BY DEF Init, BlockedUpgrades
<1>2. IInv /\ BlockedUpgrades /\ [Next]_vars => [Returns]_vars
  <2> SUFFICES ASSUME IInv, BlockedUpgrades, Next, NEW t \in Threads,
                      call[t] = "UpgradeToWriter", call'[t] = "None", ~atomic[t]
               PROVE  FALSE
    OBVIOUS
  <2>1. at[t] = "WaitForWriter" /\ HasWriter(lockState)
    BY DEF BlockedUpgrades
  <2>2. PICK u \in Threads : Move(u)
    BY DEF Next, Move
  <2>3. u = t
    BY <2>2, ControlStep DEF IInv, OnlyMoves
  <2>4. call[t] # "None"
    OBVIOUS
  <2> QED
    BY <2>1, <2>2, <2>3
    DEF Move, Enter, Step, Leave, StartRead, StartWrite, StartUpgrade, Start,
        CanCall, TryAcquireWriteIfReleased, DowngradeToReader, AddReaderStep,
        UndoReaderStep, SetFlagStep, UpgradeSetFlagStep, WaitForWriter,
        DropOwnReaderStep, WaitForReaders, ReleaseRead, ReleaseWrite
<1> QED
  BY <1>1, <1>2, BlockedInvariant, InvariantHolds, PTL
  DEF Spec, UpgradesThatMetAWriterStay

\* A flagged writer stays ahead of every thread that wants to read.
THEOREM WriterPriority == Spec => NoReaderOvertakes
<1> DEFINE Waits ==
      \A t, u \in Threads :
        at[t] = "WaitForReaders" /\ acqState[u] = "None" /\ u # t
          => acqState'[u] = "None"
<1>1. IInv /\ [Next]_vars => [Waits]_vars
  <2> SUFFICES ASSUME IInv, Next, NEW t \in Threads, NEW u \in Threads, u # t,
                      at[t] = "WaitForReaders", acqState[u] = "None",
                      acqState'[u] # "None"
               PROVE  FALSE
    OBVIOUS
  <2>1. PICK v \in Threads : Move(v)
    BY DEF Next, Move
  <2>2. OnlyMoves(v) /\ Admission(v) /\ IInv'
    BY <2>1, ControlStep, WordStep, MoveInvariant DEF IInv
  <2>3. v = u
    BY <2>2 DEF OnlyMoves
  <2>4. Flagged(t) /\ HasWriter(lockState)
    BY WordFacts DEF Flagged
  <2>5. acqState'[u] = "Write"
    BY <2>2, <2>3, <2>4 DEF Admission, IInv, ControlOK, TypeOK
  <2>6. Flagged(u)' /\ Flagged(t)'
    BY <2>2, <2>3, <2>4, <2>5 DEF Flagged, OnlyMoves
  <2> QED
    BY <2>2, <2>6 DEF IInv, OneFlag
<1> QED
  BY <1>1, InvariantHolds, PTL DEF Spec, NoReaderOvertakes

-----------------------------------------------------------------------------
(* What holders of the mutex see. *)

\* t has the lock, or the flag and with it the right to write next.
Admitted(t) == acqState[t] # "None" \/ Flagged(t)

OrderInv ==
  /\ carried \subseteq Threads
  /\ known \in [Threads -> SUBSET Threads]
  /\ \A t \in Threads : Admitted(t) => known[t] = Threads
  /\ \A t \in Threads : acqState[t] # "Write" => t \in carried

\* What the order of an access by t must be: t acquires where it is admitted,
\* and releases where it gives the right to write away.
Sound(t, order) ==
  /\ ~Admitted(t) /\ Admitted(t)' => Receives(order)
  /\ acqState[t] = "Write" /\ acqState'[t] # "Write" => Publishes(order)

-----------------------------------------------------------------------------

\* The orders written in the code are sound.
LEMMA OrdersAreSound ==
  ASSUME IInv, NEW t \in Threads, OrderedStep(t)
  PROVE  \E order : Sound(t, order) /\ Ordered(t, order)
<1> USE DEF Sound, Admitted, Flagged, Goto, Return, Where, Receives, Publishes
<1>1. /\ at \in [Threads -> Places]
      /\ acqState \in [Threads -> {"None", "Read", "Write"}]
      /\ Where(t)
  BY DEF IInv, ControlOK, TypeOK
<1>2. CASE AddReaderStep(t) /\ Ordered(t, AddReaderOrder)
  <2>1. Sound(t, AddReaderOrder)
    BY <1>1, <1>2 DEF AddReaderStep, AddReaderOrder, ReadCalls, WriteCalls
  <2> QED
    BY <1>2, <2>1
<1>3. CASE UndoReaderStep(t) /\ Ordered(t, UndoReaderOrder)
  <2>1. Sound(t, UndoReaderOrder)
    BY <1>1, <1>3 DEF UndoReaderStep, UndoReaderOrder, ReadCalls, WriteCalls
  <2> QED
    BY <1>3, <2>1
<1>4. CASE SetFlagStep(t) /\ Ordered(t, SetFlagOrder)
  <2>1. Sound(t, SetFlagOrder)
    BY <1>1, <1>4 DEF SetFlagStep, SetFlagOrder, ReadCalls, WriteCalls
  <2> QED
    BY <1>4, <2>1
<1>5. CASE UpgradeSetFlagStep(t) /\ Ordered(t, SetFlagOrder)
  <2>1. Sound(t, SetFlagOrder)
    BY <1>1, <1>5 DEF UpgradeSetFlagStep, SetFlagOrder, ReadCalls, WriteCalls
  <2> QED
    BY <1>5, <2>1
<1>6. CASE DropOwnReaderStep(t) /\ Ordered(t, DropOwnReaderOrder)
  <2>1. Sound(t, DropOwnReaderOrder)
    BY <1>1, <1>6 DEF DropOwnReaderStep, DropOwnReaderOrder, ReadCalls, WriteCalls
  <2> QED
    BY <1>6, <2>1
<1>7. CASE WaitForReaders(t) /\ Ordered(t, WaitOrder)
  <2>1. Sound(t, WaitOrder)
    BY <1>1, <1>7 DEF WaitForReaders, WaitOrder, ReadCalls, WriteCalls
  <2> QED
    BY <1>7, <2>1
<1>8. CASE WaitForWriter(t) /\ Ordered(t, WaitOrder)
  <2>1. Sound(t, WaitOrder)
    BY <1>1, <1>8 DEF WaitForWriter, Retry, WaitOrder, ReadCalls, WriteCalls
  <2> QED
    BY <1>8, <2>1
<1>9. CASE TryAcquireWriteIfReleased(t) /\ Ordered(t, IfReleasedOrder)
  <2>1. Sound(t, IfReleasedOrder)
    BY <1>1, <1>9 DEF TryAcquireWriteIfReleased, CanCall, Expects, IfReleasedOrder
  <2> QED
    BY <1>9, <2>1
<1>10. CASE ReleaseRead(t) /\ Ordered(t, ReleaseReadOrder)
  <2>1. Sound(t, ReleaseReadOrder)
    BY <1>1, <1>10 DEF ReleaseRead, ReleaseReadOrder
  <2> QED
    BY <1>10, <2>1
<1>11. CASE ReleaseWrite(t) /\ Ordered(t, ReleaseWriteOrder)
  <2>1. Sound(t, ReleaseWriteOrder)
    BY <1>1, <1>11 DEF ReleaseWrite, ReleaseWriteOrder
  <2> QED
    BY <1>11, <2>1
<1>12. CASE DowngradeToReader(t) /\ Ordered(t, DowngradeOrder)
  <2>1. Sound(t, DowngradeOrder)
    BY <1>1, <1>12 DEF DowngradeToReader, CanCall, Expects, DowngradeOrder
  <2> QED
    BY <1>12, <2>1
<1> QED
  BY <1>2, <1>3, <1>4, <1>5, <1>6, <1>7, <1>8, <1>9, <1>10, <1>11, <1>12
  DEF OrderedStep

\* A sound access keeps the invariant.
LEMMA SoundStep ==
  ASSUME IInv, IInv', OrderInv, NEW t \in Threads, OnlyMoves(t), Admission(t),
         NEW order, Sound(t, order), Ordered(t, order)
  PROVE  OrderInv'
<1> DEFINE got == known[t] \cup (IF Receives(order) THEN carried ELSE {})
           write == IF acqState'[t] = "Write" /\ call'[t] = "None" THEN {t} ELSE {}
<1>1. /\ known' = [u \in Threads |-> IF u = t THEN got \cup write ELSE known[u] \ write]
      /\ carried' = (carried \cup (IF Publishes(order) THEN got ELSE {})) \ write
  BY DEF Ordered
<1>2. got \subseteq Threads /\ write \subseteq {t}
  BY DEF OrderInv
<1>3. carried' \subseteq Threads /\ known' \in [Threads -> SUBSET Threads]
  BY <1>1, <1>2 DEF OrderInv
<1>4. \A u \in Threads \ {t} : acqState'[u] = acqState[u] /\ (Flagged(u)' <=> Flagged(u))
  BY DEF OnlyMoves, Flagged
<1>5. ASSUME Admitted(t)'
      PROVE  got = Threads
  <2>1. CASE Admitted(t)
    BY <1>2, <2>1 DEF OrderInv
  <2>2. CASE ~Admitted(t)
    <3>1. Receives(order)
      BY <1>5, <2>2 DEF Sound
    <3>2. ~HasWriter(lockState)
      BY <1>5, <2>2 DEF Admission, Admitted, Flagged, IInv, ControlOK, TypeOK
    <3>3. \A u \in Threads : acqState[u] # "Write"
      BY <3>2, WordFacts DEF Flagged
    <3>4. carried = Threads
      BY <3>3 DEF OrderInv
    <3> QED
      BY <1>2, <3>1, <3>4
  <2> QED
    BY <2>1, <2>2
<1>6. ASSUME NEW u \in Threads, Admitted(u)'
      PROVE  known'[u] = Threads
  <2>1. CASE u = t
    BY <1>1, <1>2, <1>5, <1>6, <2>1
  <2>2. CASE u # t
    <3>1. Admitted(u) /\ known[u] = Threads
      BY <1>4, <1>6, <2>2 DEF Admitted, OrderInv
    <3>2. acqState'[t] # "Write"
      BY <1>6, <2>2 DEF IInv, OneFlag, WriterExcludesAll, Admitted, Flagged
    <3> QED
      BY <1>1, <2>2, <3>1, <3>2
  <2> QED
    BY <2>1, <2>2
<1>7. ASSUME NEW u \in Threads, acqState'[u] # "Write"
      PROVE  u \in carried'
  <2>1. u \notin write
    BY <1>7
  <2>2. CASE acqState[u] # "Write"
    BY <1>1, <2>1, <2>2 DEF OrderInv
  <2>3. CASE acqState[u] = "Write"
    <3>1. u = t
      BY <1>4, <1>7, <2>3
    <3>2. Publishes(order) /\ u \in got
      BY <1>7, <2>3, <3>1 DEF Sound, OrderInv, Admitted
    <3> QED
      BY <1>1, <2>1, <3>2
  <2> QED
    BY <2>2, <2>3
<1> QED
  BY <1>3, <1>6, <1>7 DEF OrderInv

-----------------------------------------------------------------------------

\* A step with its memory order is a step of the mutex.
LEMMA OrderedStepMoves ==
  ASSUME NEW t \in Threads, Begin(t) \/ OrderedStep(t)
  PROVE  Move(t)
BY DEF Begin, OrderedStep, Move, Enter, Step, Leave

\* To begin a call touches no memory.
LEMMA BeginKeeps ==
  ASSUME IInv, OrderInv, NEW t \in Threads, Begin(t)
  PROVE  OrderInv'
<1>1. UNCHANGED <<carried, known, acqState>>
  BY DEF Begin, orderVars, StartRead, StartWrite, StartUpgrade, Start
<1>2. \A u \in Threads : Flagged(u)' => Flagged(u)
  <2>1. PICK place \in {"AddReader", "SetFlag"} : at' = [at EXCEPT ![t] = place]
    BY DEF Begin, StartRead, StartWrite, StartUpgrade, Start
  <2> QED
    BY <1>1, <2>1 DEF Flagged, IInv, ControlOK, TypeOK
<1> QED
  BY <1>1, <1>2 DEF OrderInv, Admitted

\* Every step preserves what is said of knowledge.
LEMMA OrderNextInvariant ==
  IInv /\ OrderInv /\ [OrderNext]_<<vars, orderVars>> => IInv' /\ OrderInv'
<1> SUFFICES ASSUME IInv, OrderInv, [OrderNext]_<<vars, orderVars>>
             PROVE  IInv' /\ OrderInv'
  OBVIOUS
<1>1. CASE UNCHANGED <<vars, orderVars>>
  <2>1. IInv'
    BY <1>1, NextInvariant
  <2>2. OrderInv'
    BY <1>1 DEF vars, orderVars, OrderInv, Admitted, Flagged
  <2> QED
    BY <2>1, <2>2
<1>2. ASSUME NEW t \in Threads, Begin(t) \/ OrderedStep(t)
      PROVE  IInv' /\ OrderInv'
  <2>1. Move(t)
    BY <1>2, OrderedStepMoves
  <2>2. IInv'
    BY <2>1, MoveInvariant
  <2>3. CASE Begin(t)
    BY <2>2, <2>3, BeginKeeps
  <2>4. CASE OrderedStep(t)
    <3>1. OnlyMoves(t) /\ Admission(t)
      BY <2>1, ControlStep, WordStep DEF IInv
    <3>2. PICK order : Sound(t, order) /\ Ordered(t, order)
      BY <2>4, OrdersAreSound
    <3> QED
      BY <2>2, <3>1, <3>2, SoundStep
  <2> QED
    BY <1>2, <2>2, <2>3, <2>4
<1> QED
  BY <1>1, <1>2 DEF OrderNext

\* Whoever holds the mutex, for reading or writing, sees every write that was
\* made under it: the orders of the accesses to _lockState are strong enough.
THEOREM WritesAreSeen == OrderSpec => []HoldersSeeWrites
<1>1. OrderInit => IInv /\ OrderInv
  BY InitInvariant DEF OrderInit, OrderInv
<1>2. IInv /\ OrderInv => HoldersSeeWrites
  BY DEF OrderInv, Admitted, HoldersSeeWrites
<1> QED
  BY <1>1, <1>2, OrderNextInvariant, PTL DEF OrderSpec
=============================================================================
