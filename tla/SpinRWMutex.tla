---------------------------- MODULE SpinRWMutex ----------------------------
(***************************************************************************)
(* TfSpinRWMutex and its ScopedLock (spinRWMutex.h, spinRWMutex.cpp).      *)
(*                                                                         *)
(* Each thread owns one ScopedLock on one mutex.  An action is one atomic  *)
(* access to the lock word together with the thread-local code that        *)
(* follows it, up to the next access.  A wait loop is the single load that *)
(* ends it: polls that fail change nothing.                                *)
(***************************************************************************)
EXTENDS RWLockWord, FiniteSets

CONSTANTS
  Threads,   \* threads that share the mutex
  Calls      \* the ScopedLock calls that clients make

AllCalls ==
  {"AcquireRead", "TryAcquireRead", "AcquireWrite", "TryAcquireWrite",
   "TryAcquireWriteIfReleased", "UpgradeToWriter", "DowngradeToReader",
   "Release"}

ASSUME ThreadsAssumption == IsFiniteSet(Threads)
ASSUME CallsAssumption == Calls \subseteq AllCalls

VARIABLES
  lockState,   \* the lock word
  acqState,    \* ScopedLock::_acqState of each thread
  call,        \* the call a thread is in, or "None"
  at,          \* the next atomic access of that call
  atomic       \* UpgradeToWriter's local of that name

vars == <<lockState, acqState, call, at, atomic>>

Places == {"Client", "AddReader", "UndoReader", "SetFlag", "DropOwnReader",
           "WaitForReaders", "WaitForWriter"}

Init ==
  /\ lockState = 0
  /\ acqState = [t \in Threads |-> "None"]
  /\ call = [t \in Threads |-> "None"]
  /\ at = [t \in Threads |-> "Client"]
  /\ atomic = [t \in Threads |-> TRUE]

-----------------------------------------------------------------------------
(* Control flow. *)

Goto(t, place) ==
  /\ at' = [at EXCEPT ![t] = place]
  /\ UNCHANGED <<acqState, call>>

\* The call of t returns, leaving its ScopedLock in the given state.
Return(t, state) ==
  /\ at' = [at EXCEPT ![t] = "Client"]
  /\ call' = [call EXCEPT ![t] = "None"]
  /\ acqState' = [acqState EXCEPT ![t] = state]

\* A client may start call c only when its ScopedLock is in this state.
Expects(c) ==
  CASE c = "UpgradeToWriter" -> "Read"
    [] c = "DowngradeToReader" -> "Write"
    [] OTHER -> "None"

CanCall(t, c) == c \in Calls /\ call[t] = "None" /\ acqState[t] = Expects(c)

Start(t, c, place) ==
  /\ CanCall(t, c)
  /\ call' = [call EXCEPT ![t] = c]
  /\ at' = [at EXCEPT ![t] = place]
  /\ atomic' = [atomic EXCEPT ![t] = TRUE]
  /\ UNCHANGED <<lockState, acqState>>

StartRead(t) ==
  \E c \in {"AcquireRead", "TryAcquireRead"} : Start(t, c, "AddReader")

StartWrite(t) ==
  \E c \in {"AcquireWrite", "TryAcquireWrite"} : Start(t, c, "SetFlag")

StartUpgrade(t) == Start(t, "UpgradeToWriter", "SetFlag")

-----------------------------------------------------------------------------
(* Acquiring for read. *)

\* The optimistic fetch_add of TryAcquireRead.
AddReaderStep(t) ==
  /\ at[t] = "AddReader"
  /\ lockState' = AddReader(lockState)
  /\ IF HasWriter(lockState) THEN Goto(t, "UndoReader") ELSE Return(t, "Read")
  /\ UNCHANGED atomic

\* TryAcquireRead takes its count back and fails; AcquireRead then waits.
UndoReaderStep(t) ==
  /\ at[t] = "UndoReader"
  /\ lockState' = DropReader(lockState)
  /\ IF call[t] = "AcquireRead" THEN Goto(t, "WaitForWriter")
                                ELSE Return(t, "None")
  /\ UNCHANGED atomic

-----------------------------------------------------------------------------
(* Acquiring for write. *)

\* TryAcquireWrite need not wait when the fetch_or found the word released.
Released_ByWriters(s) == ~HasWriter(s)

Released(s) == s = 0

SetFlagStep(t) ==
  /\ at[t] = "SetFlag" /\ call[t] # "UpgradeToWriter"
  /\ lockState' = SetWriter(lockState)
  /\ \/ /\ Released(lockState)
        /\ Return(t, "Write")
     \/ /\ ~HasWriter(lockState) /\ ~Released(lockState)
        /\ Goto(t, "WaitForReaders")
     \/ /\ HasWriter(lockState) /\ call[t] = "AcquireWrite"
        /\ Goto(t, "WaitForWriter")
     \/ /\ HasWriter(lockState) /\ call[t] = "TryAcquireWrite"
        /\ Return(t, "None")
  /\ UNCHANGED atomic

\* The upgrading reader tries to set the flag.  When another writer has set
\* it, the upgrader waits with its reader count still in the word.
UpgradeSetFlagStep(t) ==
  /\ at[t] = "SetFlag" /\ call[t] = "UpgradeToWriter"
  /\ lockState' = SetWriter(lockState)
  /\ IF HasWriter(lockState)
       THEN /\ Goto(t, "WaitForWriter")
            /\ atomic' = [atomic EXCEPT ![t] = FALSE]
       ELSE /\ Goto(t, "DropOwnReader")
            /\ UNCHANGED atomic

\* Having set the flag, the upgrader gives its reader count up.
DropOwnReaderStep(t) ==
  /\ at[t] = "DropOwnReader"
  /\ lockState' = DropReader(lockState)
  /\ IF lockState = OneReader + WriterFlag THEN Return(t, "Write")
                                           ELSE Goto(t, "WaitForReaders")
  /\ UNCHANGED atomic

\* The compare_exchange of TryAcquireWriteIfReleased.
TryAcquireWriteIfReleased(t) ==
  /\ CanCall(t, "TryAcquireWriteIfReleased")
  /\ lockState = 0
  /\ lockState' = WriterFlag
  /\ Return(t, "Write")
  /\ UNCHANGED atomic

-----------------------------------------------------------------------------
(* Waiting: the load that ends _WaitForReaders and _WaitForWriter. *)

WaitForReaders(t) ==
  /\ at[t] = "WaitForReaders"
  /\ OnlyWriter(lockState)
  /\ Return(t, "Write")
  /\ UNCHANGED <<lockState, atomic>>

\* Each waiting call starts over.
Retry(c) == IF c = "AcquireRead" THEN "AddReader" ELSE "SetFlag"

WaitForWriter(t) ==
  /\ at[t] = "WaitForWriter"
  /\ ~HasWriter(lockState)
  /\ Goto(t, Retry(call[t]))
  /\ UNCHANGED <<lockState, atomic>>

-----------------------------------------------------------------------------
(* Giving the lock up. *)

ReleaseRead(t) ==
  /\ call[t] = "None" /\ acqState[t] = "Read" /\ "Release" \in Calls
  /\ lockState' = DropReader(lockState)
  /\ Return(t, "None")
  /\ UNCHANGED atomic

ReleaseWrite(t) ==
  /\ call[t] = "None" /\ acqState[t] = "Write" /\ "Release" \in Calls
  /\ lockState' = ClearWriter(lockState)
  /\ Return(t, "None")
  /\ UNCHANGED atomic

DowngradeToReader(t) ==
  /\ CanCall(t, "DowngradeToReader")
  /\ lockState' = WriterToReader(lockState)
  /\ Return(t, "Read")
  /\ UNCHANGED atomic

-----------------------------------------------------------------------------

\* A client's decision to enter the lock.
Enter(t) ==
  \/ StartRead(t)
  \/ StartWrite(t)
  \/ StartUpgrade(t)
  \/ TryAcquireWriteIfReleased(t)
  \/ DowngradeToReader(t)

\* A step inside a call.
Step(t) ==
  \/ AddReaderStep(t)
  \/ UndoReaderStep(t)
  \/ SetFlagStep(t)
  \/ UpgradeSetFlagStep(t)
  \/ DropOwnReaderStep(t)
  \/ WaitForReaders(t)
  \/ WaitForWriter(t)

Leave(t) == ReleaseRead(t) \/ ReleaseWrite(t)

Next == \E t \in Threads : Enter(t) \/ Step(t) \/ Leave(t)

Spec == Init /\ [][Next]_vars

\* A running thread keeps executing the call it is in, and a client that
\* holds the lock lets it go some day (every ScopedLock is destroyed).
Fairness == \A t \in Threads : WF_vars(Step(t)) /\ WF_vars(Leave(t))

FairSpec == Spec /\ Fairness

-----------------------------------------------------------------------------
(* Properties. *)

TypeOK ==
  /\ lockState \in Nat
  /\ acqState \in [Threads -> {"None", "Read", "Write"}]
  /\ call \in [Threads -> AllCalls \cup {"None"}]
  /\ at \in [Threads -> Places]
  /\ atomic \in [Threads -> BOOLEAN]

\* The lock word holds a reader count that t put there: t reads, or t has
\* added a count it has yet to undo, or t is a reader that still upgrades.
Counted(t) ==
  \/ acqState[t] = "Read" /\ at[t] # "WaitForReaders"
  \/ at[t] = "UndoReader"

\* The writer flag in the lock word is t's.
Flagged(t) ==
  \/ acqState[t] = "Write"
  \/ at[t] \in {"WaitForReaders", "DropOwnReader"}

\* The word is exactly the counts and the flag of the threads that put them
\* there: no undo, release, upgrade or downgrade ever loses or leaves one.
WordAccounts ==
  lockState = OneReader * Cardinality({t \in Threads : Counted(t)})
                + WriterFlag * Cardinality({t \in Threads : Flagged(t)})

\* While a thread holds the write lock no other thread holds the lock, though
\* other threads may be adding and undoing reader counts at that moment.
WriterExcludesAll ==
  \A t, u \in Threads :
    t # u /\ acqState[t] = "Write" => acqState[u] = "None"

\* Once a writer has set the flag and waits for the readers it found, no new
\* reader gets in before it.
NoReaderOvertakes ==
  [][\A t, u \in Threads :
       at[t] = "WaitForReaders" /\ acqState[u] = "None" /\ u # t
         => acqState'[u] = "None"]_vars

\* The mutex is a readers-writer lock with atomic upgrade and downgrade.
Lock == INSTANCE RWLock WITH holds <- acqState

ImplementsRWLock == Lock!Spec

\* Threads that poll, and so keep on adding and undoing a count, and readers
\* that upgrade, and so may wait for the writer with their count in the word.
Hinders(t) == call[t] \in {"TryAcquireRead", "UpgradeToWriter"}
Hindered == \E t \in Threads : Hinders(t)

\* A writer that has set the flag gets the lock once the readers it found
\* have left, whatever new readers do in the meantime, unless it is hindered.
FlaggedWriterGetsIn ==
  \A t \in Threads : at[t] = "WaitForReaders" ~> acqState[t] = "Write" \/ Hindered

\* AcquireWrite calls that compete never all wait forever, unless hindered.
SomeWriterGetsIn ==
  (\E t \in Threads : call[t] = "AcquireWrite")
    ~> Hindered \/ \E t \in Threads : acqState[t] = "Write"

\* A waiting writer has its turn, with the flag or one of those without it.
WaitingWritersGetIn == FlaggedWriterGetsIn /\ SomeWriterGetsIn

\* "Return false if this lock was released and thus another writer could
\* have taken the lock in the interim" (spinRWMutex.h): an upgrade that meets
\* another writer gives way to it, gets its turn and returns.
UpgradeReturns ==
  \A t \in Threads : call[t] = "UpgradeToWriter" ~> call[t] = "None"
=============================================================================
