-------------------------- MODULE BigRWMutexProofs --------------------------
(***************************************************************************)
(* Proofs about TfBigRWMutex, for every finite set of threads and every    *)
(* number of component mutexes.                                            *)
(*                                                                         *)
(* One writer locks all components, a reader one of them.  A writer that   *)
(* releases lets the next one start before it has taken its flags away, so *)
(* it is not enough to speak of the active writer: the invariant says of   *)
(* every component what each thread has put into its word, that one thread *)
(* at most has put the flag there, and that whoever has acquired it for    *)
(* writing has found it without readers.                                   *)
(***************************************************************************)
EXTENDS BigRWMutex, Lemmas

\* Where a thread can be with what in its ScopedLock.
Where(t) ==
  /\ bigAt[t] # "Client" /\ bigAt[t] # "ClearFlags" => bigState[t] = NotAcquired
  /\ bigAt[t] = "ClearFlags" => bigState[t] = WriteAcquired
  /\ bigAt[t] = "Client" /\ bigState[t] = WriteAcquired => index[t] = 0
  /\ bigAt[t] # "Stage" => stage[t] = Unstaged

ControlOK == BigTypeOK /\ \A t \in BigThreads : Where(t)

CountedAt(i) == {t \in BigThreads : CountedIn(t, i)}
FlaggedAt(i) == {t \in BigThreads : FlaggedIn(t, i)}

OneFlag == \A i \in States : \A t, u \in BigThreads : FlaggedIn(t, i) /\ FlaggedIn(u, i) => t = u

\* _writerActive is set for the one thread that stages or writes.
IsWriter(t) == bigAt[t] = "Client" /\ bigState[t] = WriteAcquired
Active(t) == bigAt[t] = "Stage" \/ IsWriter(t)

OneActive ==
  /\ \A t, u \in BigThreads : Active(t) /\ Active(u) => t = u
  /\ writerActive <=> \E t \in BigThreads : Active(t)

\* Nobody reads through a component that is acquired for writing.
AcquiredIsFree ==
  \A t, u \in BigThreads : \A i \in States :
    stage[t][i] = "Acquired" \/ IsWriter(t) => bigState[u] # i

IInv == ControlOK /\ WordsAccount /\ OneFlag /\ OneActive /\ AcquiredIsFree

-----------------------------------------------------------------------------
(* The words. *)

\* What a thread learns from the word of a component.
LEMMA WordFacts ==
  ASSUME IInv, NEW i \in States
  PROVE  /\ HasWriter(word[i]) <=> \E t \in BigThreads : FlaggedIn(t, i)
         /\ OnlyWriter(word[i]) => \A t \in BigThreads : ~CountedIn(t, i)
         /\ word[i] = 0 => \A t \in BigThreads : ~CountedIn(t, i) /\ ~FlaggedIn(t, i)
<1>1. IsFiniteSet(CountedAt(i))
  BY BigThreadsAssumption, FS_Subset DEF CountedAt
<1>2. \A t, u \in FlaggedAt(i) : t = u
  BY DEF IInv, OneFlag, FlaggedAt
<1>3. word[i] = OneReader * Cardinality(CountedAt(i)) + WriterFlag * Cardinality(FlaggedAt(i))
  BY DEF IInv, WordsAccount, CountedAt, FlaggedAt
<1>4. /\ HasWriter(word[i]) <=> FlaggedAt(i) # {}
      /\ OnlyWriter(word[i]) => CountedAt(i) = {}
      /\ word[i] = 0 => CountedAt(i) = {} /\ FlaggedAt(i) = {}
  BY <1>1, <1>2, <1>3, WordOfSets
<1> QED
  BY <1>4 DEF CountedAt, FlaggedAt

-----------------------------------------------------------------------------
(* One step of one thread. *)

Move(t) == BigEnter(t) \/ BigStep(t) \/ BigLeave(t)

\* A step of t leaves what the other threads are doing alone.
OnlyMoves(t) ==
  \A u \in BigThreads \ {t} :
    /\ bigAt'[u] = bigAt[u] /\ bigState'[u] = bigState[u]
    /\ index'[u] = index[u] /\ stage'[u] = stage[u]

\* The word of component i changes by what t takes out of it and puts in.
Balance(t, i) ==
  word'[i] = word[i] + OneReader * (Ones(CountedIn(t, i)') - Ones(CountedIn(t, i)))
                     + WriterFlag * (Ones(FlaggedIn(t, i)') - Ones(FlaggedIn(t, i)))

\* t takes a flag, or reads, only where there is no flag; acquires a component
\* for writing only where it met no reader; and writes when it has all of them.
Admission(t) ==
  /\ \A i \in States :
       /\ FlaggedIn(t, i)' /\ ~FlaggedIn(t, i) => ~HasWriter(word[i])
       /\ bigState'[t] = i /\ bigState[t] # i => ~HasWriter(word[i])
       /\ stage'[t][i] = "Acquired" /\ stage[t][i] # "Acquired"
            => \A u \in BigThreads : bigState[u] # i
  /\ IsWriter(t)' /\ ~IsWriter(t) =>
       /\ bigAt[t] = "Stage"
       /\ \A i \in States : \A u \in BigThreads : bigState[u] # i

\* t becomes active by winning the exchange, and is not any more when it releases.
Activity(t) ==
  \/ UNCHANGED writerActive /\ (Active(t)' <=> Active(t))
  \/ ~writerActive /\ writerActive' /\ ~Active(t) /\ Active(t)'
  \/ writerActive /\ ~writerActive' /\ Active(t) /\ ~Active(t)'

\* The component mutexes can be counted.
LEMMA StatesFacts ==
  /\ States \subseteq Nat /\ 0 \in States
  /\ NotAcquired \notin States /\ WriteAcquired \notin States /\ NotAcquired # WriteAcquired
  /\ NumStates - 1 \in States
  /\ \A i \in States : i # NumStates - 1 => i + 1 \in States
  /\ \A i \in States : i \in Nat /\ i <= NumStates - 1
  BY NumStatesAssumption DEF States, NotAcquired, WriteAcquired

\* The stages of t after one step of the loop at component i.
StagesAfter(t, i) == [stage[t] EXCEPT ![i] = NextStage(@, word[i])]

\* A step of the loop at i sets the flag of i if nobody has, calls i acquired when
\* it met no reader there, and ends when all components are acquired.
LEMMA StageStepFacts ==
  ASSUME IInv, NEW t \in BigThreads, StageStep(t)
  PROVE  LET i == index[t]
             after == StagesAfter(t, i)
         IN /\ i \in States /\ bigAt[t] = "Stage" /\ bigState[t] = NotAcquired
            /\ after \in [States -> Stages]
            /\ \A j \in States : j # i => after[j] = stage[t][j]
            /\ after[i] = "NotAcquired" <=> stage[t][i] = "NotAcquired" /\ HasWriter(word[i])
            /\ after[i] = "Acquired" /\ stage[t][i] # "Acquired"
                 => \A u \in BigThreads : ~CountedIn(u, i)
            /\ word' = IF stage[t][i] = "NotAcquired"
                         THEN [word EXCEPT ![i] = SetWriter(@)] ELSE word
            /\ UNCHANGED writerActive
            /\ \/ /\ stage' = [stage EXCEPT ![t] = after] /\ UNCHANGED <<bigAt, bigState>>
                  /\ \E k \in States : index' = [index EXCEPT ![t] = k]
               \/ /\ \A j \in States : after[j] = "Acquired"
                  /\ stage' = [stage EXCEPT ![t] = Unstaged]
                  /\ bigState' = [bigState EXCEPT ![t] = WriteAcquired]
                  /\ bigAt' = [bigAt EXCEPT ![t] = "Client"]
                  /\ index' = [index EXCEPT ![t] = 0]
<1> DEFINE i == index[t]
           after == StagesAfter(t, i)
<1>1. BigTypeOK /\ Where(t)
  BY DEF IInv, ControlOK
<1>2. i \in States /\ bigAt[t] = "Stage" /\ bigState[t] = NotAcquired
  BY <1>1 DEF StageStep, BigTypeOK, Where
<1>3. stage[t] \in [States -> Stages] /\ word[i] \in Nat
  BY <1>1, <1>2 DEF BigTypeOK
<1>4. NextStage(stage[t][i], word[i]) \in Stages
  BY DEF NextStage, Stages
<1>5. /\ after \in [States -> Stages]
      /\ \A j \in States : j # i => after[j] = stage[t][j]
      /\ after[i] = NextStage(stage[t][i], word[i])
  BY <1>2, <1>3, <1>4 DEF StagesAfter
<1>6. after[i] = "NotAcquired" <=> stage[t][i] = "NotAcquired" /\ HasWriter(word[i])
  BY <1>2, <1>3, <1>5 DEF NextStage, Stages
<1>7. ASSUME after[i] = "Acquired", stage[t][i] # "Acquired"
      PROVE  \A u \in BigThreads : ~CountedIn(u, i)
  <2>1. stage[t][i] \in {"NotAcquired", "Acquiring"}
    BY <1>2, <1>3, <1>7 DEF Stages
  <2>2. word[i] = 0 \/ OnlyWriter(word[i])
    BY <1>5, <1>7, <2>1 DEF NextStage, StageStep
  <2> QED
    BY <1>2, <2>2, WordFacts
<1>8. /\ word' = IF stage[t][i] = "NotAcquired" THEN [word EXCEPT ![i] = SetWriter(@)] ELSE word
      /\ UNCHANGED writerActive
  BY DEF StageStep
<1>9. \/ /\ stage' = [stage EXCEPT ![t] = after] /\ UNCHANGED <<bigAt, bigState>>
         /\ \E k \in States : index' = [index EXCEPT ![t] = k]
      \/ /\ \A j \in States : after[j] = "Acquired"
         /\ stage' = [stage EXCEPT ![t] = Unstaged]
         /\ bigState' = [bigState EXCEPT ![t] = WriteAcquired]
         /\ bigAt' = [bigAt EXCEPT ![t] = "Client"]
         /\ index' = [index EXCEPT ![t] = 0]
  BY <1>2, StatesFacts DEF StageStep, StagesAfter, SetIndex, Acquired, BigGoto
<1> QED
  BY <1>2, <1>5, <1>6, <1>7, <1>8, <1>9

\* The control state keeps its type and its shape in every step of t.
LEMMA ControlStep ==
  ASSUME IInv, NEW t \in BigThreads, Move(t)
  PROVE  (word' \in [States -> Nat] => ControlOK') /\ OnlyMoves(t)
<1> USE StatesFacts DEF ControlOK, BigTypeOK, Where, OnlyMoves, BigPlaces, BigGoto, Acquired, SetIndex,
                        locals
<1>0. ControlOK
  BY DEF IInv
<1>1. CASE BigStartRead(t)
  BY <1>0, <1>1 DEF BigStartRead
<1>2. CASE CheckActive(t)
  BY <1>0, <1>2 DEF CheckActive
<1>3. CASE BigAddReaderStep(t)
  <2>1. CASE HasWriter(word[index[t]])
    BY <1>0, <1>3, <2>1 DEF BigAddReaderStep
  <2>2. CASE ~HasWriter(word[index[t]])
    BY <1>0, <1>3, <2>2 DEF BigAddReaderStep
  <2> QED
    BY <2>1, <2>2
<1>4. CASE BigUndoReaderStep(t)
  BY <1>0, <1>4 DEF BigUndoReaderStep
<1>5. CASE BigReleaseRead(t)
  BY <1>0, <1>5 DEF BigReleaseRead, IsReader
<1>6. CASE UpgradeToWriter(t)
  BY <1>0, <1>6 DEF UpgradeToWriter, IsReader
<1>7. CASE BigStartWrite(t)
  BY <1>0, <1>7 DEF BigStartWrite
<1>8. CASE Exchange(t)
  BY <1>0, <1>8 DEF Exchange, WonExchange
<1>9. CASE WaitForInactive(t)
  BY <1>0, <1>9 DEF WaitForInactive
<1>10. CASE StageStep(t)
  <2>1. Unstaged \in [States -> Stages]
    BY DEF Unstaged, Stages
  <2>2. PICK after \in [States -> Stages] :
          \/ /\ stage' = [stage EXCEPT ![t] = after] /\ UNCHANGED <<bigAt, bigState>>
             /\ \E k \in States : index' = [index EXCEPT ![t] = k]
          \/ /\ stage' = [stage EXCEPT ![t] = Unstaged]
             /\ bigState' = [bigState EXCEPT ![t] = WriteAcquired]
             /\ bigAt' = [bigAt EXCEPT ![t] = "Client"]
             /\ index' = [index EXCEPT ![t] = 0]
    BY <1>10, StageStepFacts
  <2>3. bigAt[t] = "Stage" /\ bigState[t] = NotAcquired /\ UNCHANGED writerActive
    BY <1>10, StageStepFacts
  <2>4. CASE stage' = [stage EXCEPT ![t] = after] /\ UNCHANGED <<bigAt, bigState>>
    <3>1. PICK k \in States : index' = [index EXCEPT ![t] = k]
      BY <1>0, <2>2
    <3> QED
      BY <1>0, <2>3, <2>4, <3>1
  <2>5. CASE bigAt' = [bigAt EXCEPT ![t] = "Client"]
    <3>1. /\ stage' = [stage EXCEPT ![t] = Unstaged]
          /\ bigState' = [bigState EXCEPT ![t] = WriteAcquired]
          /\ index' = [index EXCEPT ![t] = 0]
      BY <1>0, <2>2, <2>3, <2>5
    <3> QED
      BY <1>0, <2>1, <2>3, <2>5, <3>1
  <2> QED
    BY <2>2, <2>4, <2>5
<1>11. CASE BigReleaseWrite(t)
  BY <1>0, <1>11 DEF BigReleaseWrite
<1>12. CASE ClearFlagStep(t)
  <2>1. CASE LastToClear(index[t])
    <3>1. /\ bigAt' = [bigAt EXCEPT ![t] = "Client"]
          /\ bigState' = [bigState EXCEPT ![t] = NotAcquired]
          /\ index' = [index EXCEPT ![t] = 0]
          /\ UNCHANGED <<writerActive, stage>>
      BY <1>12, <2>1 DEF ClearFlagStep
    <3> QED
      BY <1>0, <1>12, <3>1 DEF ClearFlagStep
  <2>2. CASE ~LastToClear(index[t])
    <3>1. index[t] + 1 \in States
      BY <1>0, <2>2 DEF LastToClear
    <3>2. index' = [index EXCEPT ![t] = index[t] + 1] /\ UNCHANGED <<bigAt, bigState>>
      BY <1>12, <2>2 DEF ClearFlagStep
    <3> QED
      BY <1>0, <1>12, <3>1, <3>2 DEF ClearFlagStep
  <2> QED
    BY <2>1, <2>2
<1> QED
  BY <1>1, <1>2, <1>3, <1>4, <1>5, <1>6, <1>7, <1>8, <1>9, <1>10, <1>11, <1>12
  DEF Move, BigEnter, BigStep, BigLeave

\* Every step keeps the balance of each word, and the rules of admission and activity.
LEMMA WordStep ==
  ASSUME IInv, NEW t \in BigThreads, Move(t)
  PROVE  (\A i \in States : Balance(t, i)) /\ Admission(t) /\ Activity(t)
<1> USE StatesFacts DEF Balance, Admission, Activity, Ones, CountedIn, FlaggedIn, Active, IsWriter,
                        BigGoto, Acquired, SetIndex, locals, OneReader, WriterFlag
<1>1. /\ word \in [States -> Nat]
      /\ bigAt \in [BigThreads -> BigPlaces]
      /\ bigState \in [BigThreads -> States \cup {NotAcquired, WriteAcquired}]
      /\ index \in [BigThreads -> States]
      /\ stage \in [BigThreads -> [States -> Stages]]
      /\ writerActive \in BOOLEAN
      /\ Where(t)
  BY DEF IInv, ControlOK, BigTypeOK
<1>2. bigAt[t] # "Stage" => \A i \in States : stage[t][i] = "NotAcquired"
  BY <1>1 DEF Where, Unstaged
<1>3. CASE BigStartRead(t)
  BY <1>1, <1>2, <1>3 DEF BigStartRead
<1>4. CASE CheckActive(t)
  BY <1>1, <1>2, <1>4 DEF CheckActive
<1>5. CASE BigAddReaderStep(t)
  BY <1>1, <1>2, <1>5 DEF BigAddReaderStep, AddReader, Where
<1>6. CASE BigUndoReaderStep(t)
  BY <1>1, <1>2, <1>6 DEF BigUndoReaderStep, DropReader, Where
<1>7. CASE BigReleaseRead(t)
  BY <1>1, <1>2, <1>7 DEF BigReleaseRead, IsReader, DropReader
<1>8. CASE UpgradeToWriter(t)
  BY <1>1, <1>2, <1>8 DEF UpgradeToWriter, IsReader, DropReader
<1>9. CASE BigStartWrite(t)
  BY <1>1, <1>2, <1>9 DEF BigStartWrite
<1>10. CASE Exchange(t)
  <2>1. /\ bigAt[t] = "Exchange" /\ bigState[t] = NotAcquired /\ writerActive'
        /\ UNCHANGED <<word, bigState, stage>>
    BY <1>1, <1>10 DEF Exchange, Where
  <2>2. bigAt'[t] = IF writerActive THEN "WaitForInactive" ELSE "Stage"
    BY <1>1, <1>10 DEF Exchange, WonExchange
  <2>3. \A i \in States : ~CountedIn(t, i) /\ ~CountedIn(t, i)' /\ ~FlaggedIn(t, i) /\ ~FlaggedIn(t, i)'
    BY <1>1, <1>2, <2>1, <2>2
  <2>4. \A i \in States : Balance(t, i)
    BY <1>1, <2>1, <2>3
  <2>5. Admission(t)
    BY <1>1, <2>1, <2>2, <2>3
  <2>6. CASE writerActive
    <3>1. ~Active(t) /\ ~Active(t)' /\ writerActive' = writerActive
      BY <1>1, <2>1, <2>2, <2>6
    <3> QED
      BY <2>4, <2>5, <3>1
  <2>7. CASE ~writerActive
    <3>1. ~Active(t) /\ Active(t)' /\ writerActive'
      BY <1>1, <2>1, <2>2, <2>7
    <3> QED
      BY <2>4, <2>5, <2>7, <3>1
  <2> QED
    BY <2>6, <2>7
<1>11. CASE WaitForInactive(t)
  BY <1>1, <1>2, <1>11 DEF WaitForInactive, Where
<1>12. CASE BigReleaseWrite(t)
  BY <1>1, <1>2, <1>12 DEF BigReleaseWrite, Where, IInv, OneActive
<1>13. CASE ClearFlagStep(t)
  <2> DEFINE k == index[t]
  <2>1. /\ bigAt[t] = "ClearFlags" /\ bigState[t] = WriteAcquired /\ k \in States
        /\ UNCHANGED <<writerActive, stage>>
    BY <1>1, <1>13 DEF ClearFlagStep, Where
  <2>2. HasWriter(word[k])
    <3>1. index[t] \in Nat /\ k >= index[t]
      <4> HIDE DEF k
      <4>1. k \in Nat /\ k >= k
        BY <2>1
      <4> QED
        BY <4>1 DEF k
    <3>2. FlaggedIn(t, k)
      BY <2>1, <3>1
    <3> QED
      BY <2>1, <3>2, WordFacts
  <2>3. word' = [word EXCEPT ![k] = word[k] - 1]
    BY <1>1, <1>13, <2>1, <2>2 DEF ClearFlagStep, ClearWriter
  <2>4. \A i \in States : ~CountedIn(t, i) /\ (FlaggedIn(t, i) <=> i >= k)
    BY <1>2, <2>1
  <2>5. /\ \A i \in States : ~CountedIn(t, i)' /\ (FlaggedIn(t, i)' <=> i >= k /\ i # k)
        /\ ~IsWriter(t)' /\ ~Active(t)'
        /\ \A i \in States : bigState'[t] # i /\ stage'[t][i] = "NotAcquired"
    <3>1. CASE LastToClear(k)
      <4>1. bigAt'[t] = "Client" /\ bigState'[t] = NotAcquired
        BY <1>1, <1>13, <3>1 DEF ClearFlagStep
      <4>2. \A i \in States : i >= k <=> i = k
        <5> HIDE DEF k
        <5> QED
          BY <2>1, <3>1, NumStatesAssumption DEF LastToClear, States
      <4> QED
        BY <1>2, <2>1, <4>1, <4>2
    <3>2. CASE ~LastToClear(k)
      <4>1. index'[t] = k + 1 /\ UNCHANGED <<bigAt, bigState>>
        BY <1>1, <1>13, <3>2 DEF ClearFlagStep
      <4>2. \A i \in States : i >= k + 1 <=> i >= k /\ i # k
        <5> HIDE DEF k
        <5> QED
          BY <2>1, NumStatesAssumption DEF States
      <4> QED
        BY <1>2, <2>1, <4>1, <4>2
    <3> QED
      BY <3>1, <3>2
  <2>6. \A i \in States : word'[i] = IF i = k THEN word[i] - 1 ELSE word[i]
    BY <1>1, <2>3
  <2>7. \A i \in States : Balance(t, i)
    BY <1>1, <2>1, <2>4, <2>5, <2>6
  <2>8. Admission(t)
    BY <2>4, <2>5
  <2>9. Activity(t)
    BY <2>1, <2>5
  <2> QED
    BY <2>7, <2>8, <2>9
<1>14. CASE StageStep(t)
  <2> DEFINE k == index[t]
             after == StagesAfter(t, k)
             Set(i) == after[i] # "NotAcquired" /\ stage[t][i] = "NotAcquired"
  <2>1. /\ k \in States /\ bigAt[t] = "Stage" /\ bigState[t] = NotAcquired
        /\ after \in [States -> Stages]
        /\ \A i \in States : i # k => after[i] = stage[t][i]
        /\ after[k] = "NotAcquired" <=> stage[t][k] = "NotAcquired" /\ HasWriter(word[k])
        /\ after[k] = "Acquired" /\ stage[t][k] # "Acquired"
             => \A u \in BigThreads : ~CountedIn(u, k)
        /\ word' = IF stage[t][k] = "NotAcquired" THEN [word EXCEPT ![k] = SetWriter(@)] ELSE word
        /\ UNCHANGED writerActive
    BY <1>14, StageStepFacts
  <2>2. \A i \in States : /\ Set(i) => ~HasWriter(word[i])
                          /\ word'[i] = word[i] + Ones(Set(i))
    BY <1>1, <2>1 DEF SetWriter
  <2>3. \A i \in States : ~CountedIn(t, i) /\ (FlaggedIn(t, i) <=> stage[t][i] # "NotAcquired")
    BY <1>1, <2>1
  <2>4. \A i \in States :
          after[i] = "Acquired" => \A u \in BigThreads : bigState[u] # i
    BY <1>1, <2>1 DEF IInv, AcquiredIsFree
  <2>5. CASE stage' = [stage EXCEPT ![t] = after] /\ UNCHANGED <<bigAt, bigState>>
    BY <1>1, <2>1, <2>2, <2>3, <2>4, <2>5
  <2>6. CASE /\ \A i \in States : after[i] = "Acquired"
             /\ stage' = [stage EXCEPT ![t] = Unstaged]
             /\ bigState' = [bigState EXCEPT ![t] = WriteAcquired]
             /\ bigAt' = [bigAt EXCEPT ![t] = "Client"]
    <3>1. \A i \in States : ~CountedIn(t, i)' /\ FlaggedIn(t, i)' /\ stage'[t][i] = "NotAcquired"
      BY <1>1, <2>1, <2>6 DEF Unstaged
    <3> QED
      BY <1>1, <2>1, <2>2, <2>3, <2>4, <2>6, <3>1
  <2> QED
    BY <1>14, <2>5, <2>6, StageStepFacts
<1> QED
  BY <1>3, <1>4, <1>5, <1>6, <1>7, <1>8, <1>9, <1>10, <1>11, <1>12, <1>13, <1>14
  DEF Move, BigEnter, BigStep, BigLeave

\* A step rewrites components of the word and adds none.
LEMMA WordIsFunction ==
  ASSUME IInv, NEW t \in BigThreads, Move(t)
  PROVE  word' = [i \in States |-> word'[i]]
<1>1. word \in [States -> Nat]
  BY DEF IInv, ControlOK, BigTypeOK
<1>2. CASE BigAddReaderStep(t) \/ BigUndoReaderStep(t) \/ BigReleaseRead(t) \/ UpgradeToWriter(t)
  <2>1. PICK i, w : word' = [word EXCEPT ![i] = w]
    BY <1>2 DEF BigAddReaderStep, BigUndoReaderStep, BigReleaseRead, UpgradeToWriter
  <2> QED
    BY <1>1, <2>1
<1>3. CASE StageStep(t)
  <2>1. word' = word \/ \E i, w : word' = [word EXCEPT ![i] = w]
    BY <1>3 DEF StageStep
  <2> QED
    BY <1>1, <2>1
<1>4. CASE ClearFlagStep(t)
  <2>1. PICK i, w : word' = [word EXCEPT ![i] = w]
    BY <1>4 DEF ClearFlagStep
  <2> QED
    BY <1>1, <2>1
<1>5. CASE \/ BigStartRead(t) \/ CheckActive(t) \/ BigStartWrite(t) \/ Exchange(t)
           \/ WaitForInactive(t) \/ BigReleaseWrite(t)
  <2>1. word' = word
    BY <1>5 DEF BigStartRead, CheckActive, BigStartWrite, Exchange, WaitForInactive, BigReleaseWrite
  <2> QED
    BY <1>1, <2>1
<1> QED
  BY <1>2, <1>3, <1>4, <1>5 DEF Move, BigEnter, BigStep, BigLeave

\* The word of every component follows the balance of one thread's step.
LEMMA WordsAccountStep ==
  ASSUME IInv, NEW t \in BigThreads, OnlyMoves(t), NEW i \in States, Balance(t, i)
  PROVE  /\ word'[i] = OneReader * Cardinality(CountedAt(i))'
                          + WriterFlag * Cardinality(FlaggedAt(i))'
         /\ word'[i] \in Nat
<1> DEFINE C == CountedAt(i)
           F == FlaggedAt(i)
<1>1. C \ {t} = C' \ {t} /\ F \ {t} = F' \ {t}
  BY DEF OnlyMoves, CountedAt, FlaggedAt, CountedIn, FlaggedIn
<1>2. /\ t \in C <=> CountedIn(t, i)
      /\ t \in F <=> FlaggedIn(t, i)
      /\ t \in C' <=> CountedIn(t, i)'
      /\ t \in F' <=> FlaggedIn(t, i)'
  BY DEF CountedAt, FlaggedAt
<1>3. IsFiniteSet(C) /\ IsFiniteSet(F)
  BY BigThreadsAssumption, FS_Subset DEF CountedAt, FlaggedAt
<1>4. /\ Cardinality(C) \in Nat /\ IsFiniteSet(C')
      /\ Cardinality(C') = Cardinality(C) + Ones(CountedIn(t, i)') - Ones(CountedIn(t, i))
  BY <1>1, <1>2, <1>3, CardinalityStep DEF Ones
<1>5. /\ Cardinality(F) \in Nat /\ IsFiniteSet(F')
      /\ Cardinality(F') = Cardinality(F) + Ones(FlaggedIn(t, i)') - Ones(FlaggedIn(t, i))
  BY <1>1, <1>2, <1>3, CardinalityStep DEF Ones
<1>6. word[i] = OneReader * Cardinality(C) + WriterFlag * Cardinality(F)
  BY DEF IInv, WordsAccount, CountedAt, FlaggedAt
<1>7. word'[i] = OneReader * Cardinality(C') + WriterFlag * Cardinality(F')
  BY <1>4, <1>5, <1>6 DEF Balance, Ones, OneReader, WriterFlag
<1>8. Cardinality(C') \in Nat /\ Cardinality(F') \in Nat
  BY <1>4, <1>5, FS_CardinalityType
<1> QED
  BY <1>7, <1>8 DEF OneReader, WriterFlag

\* Under the rules of admission a flag keeps one owner, and what is acquired
\* for writing has no reader.
LEMMA AdmissionStep ==
  ASSUME IInv, NEW t \in BigThreads, OnlyMoves(t), Admission(t), ControlOK'
  PROVE  OneFlag' /\ AcquiredIsFree'
<1>1. \A u \in BigThreads \ {t} : \A i \in States :
         /\ FlaggedIn(u, i)' <=> FlaggedIn(u, i)
         /\ IsWriter(u)' <=> IsWriter(u)
         /\ bigState'[u] = bigState[u] /\ stage'[u] = stage[u]
  BY DEF OnlyMoves, FlaggedIn, IsWriter
<1>2. OneFlag'
  <2>1. SUFFICES ASSUME NEW u \in BigThreads \ {t}, NEW i \in States,
                        FlaggedIn(u, i), FlaggedIn(t, i)'
                 PROVE  FALSE
    BY <1>1 DEF IInv, OneFlag
  <2>2. FlaggedIn(t, i)
    BY <2>1, WordFacts DEF Admission
  <2> QED
    BY <2>1, <2>2 DEF IInv, OneFlag
<1>3. AcquiredIsFree'
  <2>1. SUFFICES ASSUME NEW u \in BigThreads, NEW v \in BigThreads, NEW i \in States,
                        stage'[u][i] = "Acquired" \/ IsWriter(u)', bigState'[v] = i
                 PROVE  FALSE
    BY DEF AcquiredIsFree
  <2>2. u # v
    BY <2>1, StatesFacts DEF ControlOK, Where, IsWriter, Unstaged
  <2>3. CASE u = t
    <3>1. bigState[v] = i
      BY <1>1, <2>1, <2>2, <2>3
    <3>2. ~(stage[t][i] = "Acquired" \/ IsWriter(t))
      BY <2>3, <3>1 DEF IInv, AcquiredIsFree
    <3> QED
      BY <2>1, <2>3, <3>1, <3>2 DEF Admission
  <2>4. CASE u # t
    <3>1. stage[u][i] = "Acquired" \/ IsWriter(u)
      BY <1>1, <2>1, <2>4
    <3>2. bigState[v] # i
      BY <3>1 DEF IInv, AcquiredIsFree
    <3>3. v = t
      BY <1>1, <2>1, <3>2
    <3>4. FlaggedIn(u, i)
      BY <3>1 DEF FlaggedIn, IsWriter
    <3>5. ~HasWriter(word[i])
      BY <2>1, <3>2, <3>3 DEF Admission
    <3> QED
      BY <3>4, <3>5, WordFacts
  <2> QED
    BY <2>3, <2>4
<1> QED
  BY <1>2, <1>3

\* _writerActive keeps standing for one active thread.
LEMMA ActivityStep ==
  ASSUME IInv, NEW t \in BigThreads, OnlyMoves(t), Activity(t)
  PROVE  OneActive'
<1>1. \A u \in BigThreads \ {t} : Active(u)' <=> Active(u)
  BY DEF OnlyMoves, Active, IsWriter
<1>2. /\ \A u, v \in BigThreads : Active(u) /\ Active(v) => u = v
      /\ writerActive <=> \E u \in BigThreads : Active(u)
  BY DEF IInv, OneActive
<1>3. CASE UNCHANGED writerActive /\ (Active(t)' <=> Active(t))
  <2>1. \A u \in BigThreads : Active(u)' <=> Active(u)
    BY <1>1, <1>3
  <2> QED
    BY <1>2, <1>3, <2>1 DEF OneActive
<1>4. CASE ~writerActive /\ writerActive' /\ ~Active(t) /\ Active(t)'
  <2>1. \A u \in BigThreads : Active(u)' <=> u = t
    BY <1>1, <1>2, <1>4
  <2> QED
    BY <1>4, <2>1 DEF OneActive
<1>5. CASE writerActive /\ ~writerActive' /\ Active(t) /\ ~Active(t)'
  <2>1. \A u \in BigThreads : ~Active(u)'
    BY <1>1, <1>2, <1>5
  <2> QED
    BY <1>5, <2>1 DEF OneActive
<1> QED
  BY <1>3, <1>4, <1>5 DEF Activity

-----------------------------------------------------------------------------
(* The invariant. *)

\* A fresh mutex satisfies the invariant.
LEMMA InitInvariant == BigInit => IInv
<1> SUFFICES ASSUME BigInit PROVE IInv
  OBVIOUS
<1> USE StatesFacts
<1>1. ControlOK
  BY DEF BigInit, ControlOK, BigTypeOK, Where, BigPlaces, Unstaged, Stages
<1>2. \A t \in BigThreads : \A i \in States :
         ~CountedIn(t, i) /\ ~FlaggedIn(t, i) /\ stage[t][i] = "NotAcquired" /\ bigState[t] # i
  BY DEF BigInit, CountedIn, FlaggedIn, Unstaged
<1>3. WordsAccount
  <2> SUFFICES ASSUME NEW i \in States
               PROVE  word[i] = OneReader * Cardinality({t \in BigThreads : CountedIn(t, i)})
                                  + WriterFlag * Cardinality({t \in BigThreads : FlaggedIn(t, i)})
    BY DEF WordsAccount
  <2>1. {t \in BigThreads : CountedIn(t, i)} = {} /\ {t \in BigThreads : FlaggedIn(t, i)} = {}
    BY <1>2
  <2> QED
    BY <2>1, FS_EmptySet DEF BigInit, OneReader, WriterFlag
<1>4. \A t \in BigThreads : ~Active(t) /\ ~IsWriter(t)
  BY DEF BigInit, Active, IsWriter
<1>5. OneFlag /\ OneActive /\ AcquiredIsFree
  BY <1>2, <1>4 DEF BigInit, OneFlag, OneActive, AcquiredIsFree
<1> QED
  BY <1>1, <1>3, <1>5 DEF IInv

\* A step inside a call preserves it.
LEMMA MoveInvariant ==
  ASSUME IInv, NEW t \in BigThreads, Move(t)
  PROVE  IInv'
<1>1. OnlyMoves(t)
  BY ControlStep
<1>2. (\A i \in States : Balance(t, i)) /\ Admission(t) /\ Activity(t)
  BY WordStep
<1>3. \A i \in States :
        /\ word'[i] = OneReader * Cardinality(CountedAt(i))'
                         + WriterFlag * Cardinality(FlaggedAt(i))'
        /\ word'[i] \in Nat
  BY <1>1, <1>2, WordsAccountStep
<1>4. WordsAccount'
  BY <1>3 DEF WordsAccount, CountedAt, FlaggedAt
<1>5. word' \in [States -> Nat]
  BY <1>3, WordIsFunction
<1>6. ControlOK'
  BY <1>5, ControlStep
<1>7. OneFlag' /\ AcquiredIsFree' /\ OneActive'
  BY <1>1, <1>2, <1>6, AdmissionStep, ActivityStep
<1> QED
  BY <1>4, <1>6, <1>7 DEF IInv

\* Every step preserves it.
LEMMA NextInvariant == IInv /\ [BigNext]_bigVars => IInv'
<1> SUFFICES ASSUME IInv, [BigNext]_bigVars PROVE IInv'
  OBVIOUS
<1>1. CASE UNCHANGED bigVars
  BY <1>1
  DEF bigVars, IInv, ControlOK, BigTypeOK, Where, WordsAccount, OneFlag, OneActive,
      AcquiredIsFree, CountedIn, FlaggedIn, Active, IsWriter
<1>2. CASE BigNext
  BY <1>2, MoveInvariant DEF BigNext, Move
<1> QED
  BY <1>1, <1>2

\* The invariant holds in every state that readers and writers reach.
THEOREM InvariantHolds == BigSpec => []IInv
  BY InitInvariant, NextInvariant, PTL DEF BigSpec

\* The words and _writerActive always stand for what the threads are doing:
\* every word is the sum of what the threads put into it, also while one writer
\* unlocks and the next one locks, and _writerActive is set for one thread.
THEOREM StateAccounted == BigSpec => []StateConsistent
<1>1. IInv => StateConsistent
  <2> SUFFICES ASSUME IInv PROVE OneActiveWriter
    BY DEF IInv, ControlOK, StateConsistent
  <2>1. ActiveWriters = {t \in BigThreads : Active(t)}
    BY DEF ActiveWriters, Active, IsWriter
  <2>2. /\ \A t, u \in ActiveWriters : t = u
        /\ writerActive <=> ActiveWriters # {}
    BY <2>1 DEF IInv, OneActive
  <2> QED
    BY <2>2, AtMostOne DEF OneActiveWriter, Ones
<1> QED
  BY <1>1, InvariantHolds, PTL

-----------------------------------------------------------------------------
(* The mutex implements RWLock. *)

\* The modes of a state of the invariant.
LEMMA Modes ==
  ASSUME IInv, NEW t \in BigThreads
  PROVE  /\ Mode(t) \in {"None", "Read", "Write"}
         /\ Mode(t) = "Read" <=> bigState[t] \in States
         /\ Mode(t) = "Write" <=> IsWriter(t)
         /\ IsWriter(t) => \A i \in States : FlaggedIn(t, i)
  BY StatesFacts DEF Mode, IsWriter, FlaggedIn

\* What the lock is held for changes only where a call begins to hold or to release.
LEMMA ModesAfterStep ==
  ASSUME IInv', NEW t \in BigThreads
  PROVE  /\ Mode(t)' \in {"None", "Read", "Write"}
         /\ Mode(t)' = "Read" <=> bigState'[t] \in States
         /\ Mode(t)' = "Write" <=> IsWriter(t)'
  BY StatesFacts DEF Mode, IsWriter

\* A step gives t alone another mode, and into one that the words admitted.
LEMMA MoveRefines ==
  ASSUME IInv, NEW t \in BigThreads, Move(t)
  PROVE  [BigLock!Next]_[u \in BigThreads |-> Mode(u)]
<1> DEFINE Holds == [u \in BigThreads |-> Mode(u)]
<1>1. OnlyMoves(t) /\ Admission(t) /\ IInv'
  BY ControlStep, WordStep, MoveInvariant
<1>2. \A u \in BigThreads \ {t} : Mode(u)' = Mode(u)
  BY <1>1 DEF OnlyMoves, Mode
<1>3. /\ Mode(t)' \in {"None", "Read", "Write"}
      /\ Mode(t)' = "Read" <=> bigState'[t] \in States
      /\ Mode(t)' = "Write" <=> IsWriter(t)'
  BY <1>1, ModesAfterStep
<1>4. Holds' = [Holds EXCEPT ![t] = Mode(t)']
  BY <1>2
<1>5. CASE Mode(t)' = Mode(t)
  BY <1>2, <1>5
<1>6. CASE Mode(t)' = "None" /\ Mode(t) # "None"
  <2>1. Holds[t] # "None" /\ Holds' = [Holds EXCEPT ![t] = "None"]
    BY <1>4, <1>6
  <2> QED
    BY <2>1 DEF BigLock!Next, BigLock!Release, BigLock!Become
<1>7. CASE Mode(t)' = "Read" /\ Mode(t) # "Read"
  <2>1. PICK i \in States : bigState'[t] = i /\ bigState[t] # i
    BY <1>3, <1>7, Modes
  <2>2. \A u \in BigThreads : ~FlaggedIn(u, i)
    BY <1>1, <2>1, WordFacts DEF Admission
  <2>3. \A u \in BigThreads : Mode(u) # "Write"
    BY <2>2, Modes
  <2>4. /\ Holds[t] = "None" /\ Holds' = [Holds EXCEPT ![t] = "Read"]
        /\ \A u \in BigThreads : Holds[u] # "Write"
    BY <1>4, <1>7, <2>3, Modes
  <2> QED
    BY <2>4 DEF BigLock!Next, BigLock!GrantRead, BigLock!Become, BigLock!Others
<1>8. CASE Mode(t)' = "Write" /\ Mode(t) # "Write"
  <2>1. bigAt[t] = "Stage" /\ \A i \in States : \A u \in BigThreads : bigState[u] # i
    BY <1>1, <1>3, <1>8, Modes DEF Admission
  <2>2. \A u \in BigThreads : ~IsWriter(u)
    BY <2>1 DEF IInv, OneActive, Active, IsWriter
  <2>3. \A u \in BigThreads : Mode(u) = "None"
    BY <2>1, <2>2, Modes
  <2>4. (\A u \in BigThreads : Holds[u] = "None") /\ Holds' = [Holds EXCEPT ![t] = "Write"]
    BY <1>4, <1>8, <2>3
  <2> QED
    BY <2>4 DEF BigLock!Next, BigLock!GrantWrite, BigLock!Become, BigLock!Others
<1> QED
  BY <1>3, <1>5, <1>6, <1>7, <1>8

\* TfBigRWMutex is a readers-writer lock: many readers, each through its own
\* component, or one writer.
THEOREM BigRefinement == BigSpec => BigImplementsRWLock
<1>1. BigInit => [t \in BigThreads |-> Mode(t)] = [t \in BigThreads |-> "None"]
  BY StatesFacts DEF BigInit, Mode
<1>2. BigInit => BigLock!Init
  BY <1>1 DEF BigLock!Init
<1>3. IInv /\ [BigNext]_bigVars => [BigLock!Next]_[t \in BigThreads |-> Mode(t)]
  <2> SUFFICES ASSUME IInv, [BigNext]_bigVars PROVE [BigLock!Next]_[t \in BigThreads |-> Mode(t)]
    OBVIOUS
  <2>1. CASE BigNext
    BY <2>1, MoveRefines DEF BigNext, Move
  <2>2. CASE UNCHANGED bigVars
    BY <2>2 DEF bigVars, Mode
  <2> QED
    BY <2>1, <2>2
<1> QED
  BY <1>2, <1>3, InvariantHolds, PTL DEF BigSpec, BigImplementsRWLock, BigLock!Spec
=============================================================================
