----------------------------- MODULE BigRWMutex -----------------------------
(***************************************************************************)
(* TfBigRWMutex (bigRWMutex.h, bigRWMutex.cpp): a readers-writer lock made *)
(* of several TfSpinRWMutex states.  A reader locks one state, picked by a *)
(* hash of its ScopedLock; a writer announces itself in _writerActive and  *)
(* locks all states, in stages that set flags before waiting for readers.  *)
(*                                                                         *)
(* An action is one access to shared memory and the local code after it.   *)
(***************************************************************************)
EXTENDS RWLockWord, FiniteSets

CONSTANTS
  BigThreads,
  NumStates      \* 16 in the code

ASSUME BigThreadsAssumption == IsFiniteSet(BigThreads)
ASSUME NumStatesAssumption == NumStates \in Nat \ {0}

States == 0 .. NumStates - 1

\* ScopedLock::_acqState; a value in States is the state locked for read.
NotAcquired == -1
WriteAcquired == -2

VARIABLES
  word,           \* word[i]: the lock word of _states[i]
  writerActive,
  bigState,       \* ScopedLock::_acqState of each thread
  bigAt,          \* the next shared access of each thread's call
  index,          \* stateIndex of a reader, the loop index i of a writer
  stage           \* stageStates of _AcquireWrite

bigVars == <<word, writerActive, bigState, bigAt, index, stage>>

locals == <<bigState, index, stage>>

BigPlaces == {"Client", "CheckActive", "AddReader", "UndoReader",
           "Exchange", "WaitForInactive", "Stage", "ClearFlags"}

Stages == {"NotAcquired", "Acquiring", "Acquired"}

Unstaged == [i \in States |-> "NotAcquired"]

BigInit ==
  /\ word = [i \in States |-> 0]
  /\ writerActive = FALSE
  /\ bigState = [t \in BigThreads |-> NotAcquired]
  /\ bigAt = [t \in BigThreads |-> "Client"]
  /\ index = [t \in BigThreads |-> 0]
  /\ stage = [t \in BigThreads |-> Unstaged]

BigGoto(t, place) == bigAt' = [bigAt EXCEPT ![t] = place]

Acquired(t, state) == bigState' = [bigState EXCEPT ![t] = state]

SetIndex(t, i) == index' = [index EXCEPT ![t] = i]

-----------------------------------------------------------------------------
(* Readers. *)

BigStartRead(t) ==
  /\ bigAt[t] = "Client" /\ bigState[t] = NotAcquired
  /\ \E seed \in States : SetIndex(t, seed)
  /\ BigGoto(t, "CheckActive")
  /\ UNCHANGED <<word, writerActive, bigState, stage>>

\* A reader goes on only when it sees no active writer.
CheckActive(t) ==
  /\ bigAt[t] = "CheckActive"
  /\ ~writerActive
  /\ BigGoto(t, "AddReader")
  /\ UNCHANGED <<word, writerActive, locals>>

\* TryAcquireRead on the reader's state: first its fetch_add ...
BigAddReaderStep(t) ==
  /\ bigAt[t] = "AddReader"
  /\ word' = [word EXCEPT ![index[t]] = AddReader(@)]
  /\ IF HasWriter(word[index[t]])
       THEN BigGoto(t, "UndoReader") /\ UNCHANGED bigState
       ELSE BigGoto(t, "Client") /\ Acquired(t, index[t])
  /\ UNCHANGED <<writerActive, index, stage>>

\* ... then, when a writer was there, the undo; _AcquireReadContended goes
\* back to checking for an active writer.
BigUndoReaderStep(t) ==
  /\ bigAt[t] = "UndoReader"
  /\ word' = [word EXCEPT ![index[t]] = DropReader(@)]
  /\ BigGoto(t, "CheckActive")
  /\ UNCHANGED <<writerActive, locals>>

IsReader(t) == bigAt[t] = "Client" /\ bigState[t] \in States

BigReleaseRead(t) ==
  /\ IsReader(t)
  /\ word' = [word EXCEPT ![bigState[t]] = DropReader(@)]
  /\ Acquired(t, NotAcquired)
  /\ UNCHANGED <<writerActive, bigAt, index, stage>>

\* UpgradeToWriter releases the read lock, then acquires for write.
UpgradeToWriter(t) ==
  /\ IsReader(t)
  /\ word' = [word EXCEPT ![bigState[t]] = DropReader(@)]
  /\ Acquired(t, NotAcquired)
  /\ BigGoto(t, "Exchange")
  /\ UNCHANGED <<writerActive, index, stage>>

-----------------------------------------------------------------------------
(* Writers. *)

BigStartWrite(t) ==
  /\ bigAt[t] = "Client" /\ bigState[t] = NotAcquired
  /\ BigGoto(t, "Exchange")
  /\ UNCHANGED <<word, writerActive, locals>>

\* Only the thread whose exchange finds FALSE goes on to lock the states.
WonExchange_Always(active) == TRUE

WonExchange(active) == ~active

Exchange(t) ==
  /\ bigAt[t] = "Exchange"
  /\ writerActive' = TRUE
  /\ IF WonExchange(writerActive) THEN BigGoto(t, "Stage")
                                  ELSE BigGoto(t, "WaitForInactive")
  /\ SetIndex(t, 0)
  /\ UNCHANGED <<word, bigState, stage>>

WaitForInactive(t) ==
  /\ bigAt[t] = "WaitForInactive"
  /\ ~writerActive
  /\ BigGoto(t, "Exchange")
  /\ UNCHANGED <<word, writerActive, locals>>

\* What one _StagedAcquireWriteStep makes of a stage: it sets the flag, or
\* waits for readers once the flag is set.
NextStage_SkipsReaders(current, s) ==
  IF current = "NotAcquired" /\ HasWriter(s) THEN "NotAcquired" ELSE "Acquired"

NextStage(current, s) ==
  CASE current = "NotAcquired" /\ HasWriter(s) -> "NotAcquired"
    [] current = "NotAcquired" /\ ~HasWriter(s) /\ s # 0 -> "Acquiring"
    [] OTHER -> "Acquired"

\* One iteration of the loop over the states; after the last state the loop
\* ends if all are acquired and starts over if not.
StageStep(t) ==
  LET i == index[t]
      stages == [stage[t] EXCEPT ![i] = NextStage(@, word[i])]
  IN  /\ bigAt[t] = "Stage"
      /\ stage[t][i] = "Acquiring" => OnlyWriter(word[i])
      /\ word' = IF stage[t][i] = "NotAcquired"
                   THEN [word EXCEPT ![i] = SetWriter(@)] ELSE word
      /\ \/ /\ i # NumStates - 1
            /\ stage' = [stage EXCEPT ![t] = stages]
            /\ SetIndex(t, i + 1)
            /\ UNCHANGED <<bigState, bigAt>>
         \/ /\ i = NumStates - 1
            /\ \E j \in States : stages[j] # "Acquired"
            /\ stage' = [stage EXCEPT ![t] = stages]
            /\ SetIndex(t, 0)
            /\ UNCHANGED <<bigState, bigAt>>
         \/ /\ i = NumStates - 1
            /\ \A j \in States : stages[j] = "Acquired"
            /\ stage' = [stage EXCEPT ![t] = Unstaged]
            /\ SetIndex(t, 0)
            /\ Acquired(t, WriteAcquired)
            /\ BigGoto(t, "Client")
      /\ UNCHANGED writerActive

\* _ReleaseWrite first lets the next writer start ...
BigReleaseWrite(t) ==
  /\ bigAt[t] = "Client" /\ bigState[t] = WriteAcquired
  /\ writerActive' = FALSE
  /\ BigGoto(t, "ClearFlags")
  /\ UNCHANGED <<word, locals>>

\* ... and then unlocks the states one by one.
LastToClear_Last(i) == i = NumStates - 2

LastToClear(i) == i = NumStates - 1

ClearFlagStep(t) ==
  /\ bigAt[t] = "ClearFlags"
  /\ word' = [word EXCEPT ![index[t]] = ClearWriter(@)]
  /\ IF LastToClear(index[t])
       THEN BigGoto(t, "Client") /\ Acquired(t, NotAcquired) /\ SetIndex(t, 0)
       ELSE SetIndex(t, index[t] + 1) /\ UNCHANGED <<bigAt, bigState>>
  /\ UNCHANGED <<writerActive, stage>>

-----------------------------------------------------------------------------

BigStep(t) ==
  \/ CheckActive(t)
  \/ BigAddReaderStep(t)
  \/ BigUndoReaderStep(t)
  \/ Exchange(t)
  \/ WaitForInactive(t)
  \/ StageStep(t)
  \/ ClearFlagStep(t)

BigEnter(t) == BigStartRead(t) \/ BigStartWrite(t) \/ UpgradeToWriter(t)

BigLeave(t) == BigReleaseRead(t) \/ BigReleaseWrite(t)

BigNext == \E t \in BigThreads : BigEnter(t) \/ BigStep(t) \/ BigLeave(t)

BigSpec == BigInit /\ [][BigNext]_bigVars

\* As for TfSpinRWMutex: threads run, and holders release some day.
BigFairness == \A t \in BigThreads : WF_bigVars(BigStep(t)) /\ WF_bigVars(BigLeave(t))

BigFairSpec == BigSpec /\ BigFairness

-----------------------------------------------------------------------------
(* Properties. *)

BigTypeOK ==
  /\ word \in [States -> Nat]
  /\ writerActive \in BOOLEAN
  /\ bigState \in [BigThreads -> States \cup {NotAcquired, WriteAcquired}]
  /\ bigAt \in [BigThreads -> BigPlaces]
  /\ index \in [BigThreads -> States]
  /\ stage \in [BigThreads -> [States -> Stages]]

\* Thread t has put a reader count into state i.
CountedIn(t, i) ==
  \/ bigState[t] = i
  \/ bigAt[t] = "UndoReader" /\ index[t] = i

\* The writer flag of state i is t's.
FlaggedIn(t, i) ==
  \/ bigAt[t] = "Client" /\ bigState[t] = WriteAcquired
  \/ stage[t][i] # "NotAcquired"
  \/ bigAt[t] = "ClearFlags" /\ i >= index[t]

\* Every state's word is what the threads put there, also while one writer
\* still unlocks and the next already locks.
WordsAccount ==
  \A i \in States :
    word[i] = OneReader * Cardinality({t \in BigThreads : CountedIn(t, i)})
                + WriterFlag * Cardinality({t \in BigThreads : FlaggedIn(t, i)})

\* _writerActive says whether a thread is between winning the exchange and
\* starting to release, and at most one thread is.
ActiveWriters ==
  {t \in BigThreads :
     bigAt[t] = "Stage" \/ (bigAt[t] = "Client" /\ bigState[t] = WriteAcquired)}

OneActiveWriter == Cardinality(ActiveWriters) = IF writerActive THEN 1 ELSE 0

\* The types, and what the words and _writerActive stand for.
StateConsistent == BigTypeOK /\ WordsAccount /\ OneActiveWriter

\* The mode in which t may use what the mutex protects.  A releasing writer
\* is done with it when it starts to release.
Mode(t) ==
  CASE bigState[t] \in States -> "Read"
    [] bigState[t] = WriteAcquired /\ bigAt[t] = "Client" -> "Write"
    [] OTHER -> "None"

\* The mutex is a readers-writer lock.
BigLock == INSTANCE RWLock WITH Threads <- BigThreads, holds <- [t \in BigThreads |-> Mode(t)]

BigImplementsRWLock == BigLock!Spec

\* A reader that finds an active writer after it entered lets it go first: at
\* most the readers past their check get in before a staging writer.
StagedWriterGetsIn ==
  \A t \in BigThreads : bigAt[t] = "Stage" ~> bigState[t] = WriteAcquired

\* Writers that compete do not all wait forever.
SomeBigWriterGetsIn ==
  (\E t \in BigThreads : bigAt[t] = "Exchange")
    ~> (\E t \in BigThreads : bigState[t] = WriteAcquired)

\* No waiting writer is shut out, neither by readers nor by other writers.
WritersGetIn == StagedWriterGetsIn /\ SomeBigWriterGetsIn
=============================================================================
