------------------------------- MODULE PyLock -------------------------------
(***************************************************************************)
(* TfPyLock and TF_PY_ALLOW_THREADS_IN_SCOPE (pyLock.h/.cpp): threads with *)
(* nested lock objects on their stacks, over Python's own thread states,   *)
(* which are external: a count of nested PyGILState_Ensure calls for each  *)
(* thread and the interpreter lock.                                        *)
(***************************************************************************)
EXTENDS Integers, Sequences, SequencesExt

CONSTANTS
  PyThreads,     \* threads that Python does not know
  Interpreters,  \* threads that run Python code and call C++ with the lock
  Unheld,
  MaxNested,     \* bound: lock objects on one stack
  OuterToo,      \* whether a lock is used while a later one is alive
  Leaks          \* whether foreign code may keep the lock where threads are allowed

AllThreads == PyThreads \cup Interpreters

ASSUME PyAssumption == PyThreads \cap Interpreters = {} /\ Unheld \notin AllThreads

VARIABLES
  pyInitialized,  \* Py_IsInitialized()
  gil,            \* who has the interpreter lock
  gilCounter,     \* gilCounter[t]: the nesting that Python counts
  pyLocks,        \* pyLocks[t]: the TfPyLocks on t's stack, oldest first
  inCall,         \* inCall[t]: whether an interpreter thread is in a call to C++
  leaked,         \* leaked[t]: whether foreign code has kept the lock
  pyAborts        \* Python has found a thread that does what it must not

pyVars == <<pyInitialized, gil, gilCounter, pyLocks, inCall, leaked, pyAborts>>

PyInit ==
  /\ pyInitialized = FALSE
  /\ gil = Unheld
  /\ gilCounter = [t \in AllThreads |-> IF t \in Interpreters THEN 1 ELSE 0]
  /\ pyLocks = [t \in AllThreads |-> <<>>]
  /\ inCall = [t \in AllThreads |-> t \in PyThreads]
  /\ leaked = [t \in AllThreads |-> FALSE]
  /\ pyAborts = FALSE

\* gilState: what PyGILState_Ensure has found; inScope: the private lock of a
\* TfPyEnsureGILUnlockedObj, on which nobody calls anything.
FreshLock(inScope) ==
  [acquired |-> FALSE, allowing |-> FALSE, gilState |-> "Unlocked", inScope |-> inScope]

PyDepths(t) == 1 .. Len(pyLocks[t])
UsableLocks(t) ==
  {k \in PyDepths(t) : ~pyLocks[t][k].inScope /\ (OuterToo \/ k = Len(pyLocks[t]))}

SetLock(t, k, lock) == pyLocks' = [pyLocks EXCEPT ![t][k] = lock]

-----------------------------------------------------------------------------
(* Python (external). *)

HasGil(t) == gil = t

\* PyGILState_Ensure: waits for the lock unless the thread has it.
Ensure(t) ==
  /\ gil \in {t, Unheld}
  /\ gil' = t
  /\ gilCounter' = [gilCounter EXCEPT ![t] = @ + 1]

\* PyGILState_Release and PyEval_SaveThread need the lock, or Python aborts.
GilRelease(t, gilState, holds) ==
  /\ gilCounter' = [gilCounter EXCEPT ![t] = @ - 1]
  /\ gil' = IF ~holds THEN gil ELSE IF gilState = "Unlocked" THEN Unheld ELSE t
  /\ pyAborts' = (pyAborts \/ ~holds)

SaveThread(t) ==
  /\ gil' = IF HasGil(t) THEN Unheld ELSE gil
  /\ pyAborts' = (pyAborts \/ ~HasGil(t))

RestoreThread(t) == gil = Unheld /\ gil' = t

-----------------------------------------------------------------------------
(* What each member function does with the lock object that it is called on. *)

AcquiredBy(t, lock) ==
  [lock EXCEPT !.acquired = TRUE, !.gilState = IF HasGil(t) THEN "Locked" ELSE "Unlocked"]

\* Acquire: a warning if it was acquired, nothing before Python is initialized.
PyAcquire(t) == \E k \in UsableLocks(t) :
  /\ pyInitialized /\ ~pyLocks[t][k].acquired
  /\ Ensure(t)
  /\ SetLock(t, k, AcquiredBy(t, pyLocks[t][k]))
  /\ UNCHANGED <<pyInitialized, inCall, leaked, pyAborts>>

\* Release: a warning unless it is acquired and does not allow threads.
MayRelease_AlsoAllowing(lock) == lock.acquired

MayRelease(lock) == lock.acquired /\ ~lock.allowing

PyRelease(t) == \E k \in UsableLocks(t) :
  /\ MayRelease(pyLocks[t][k])
  /\ GilRelease(t, pyLocks[t][k].gilState, HasGil(t))
  /\ SetLock(t, k, [pyLocks[t][k] EXCEPT !.acquired = FALSE])
  /\ UNCHANGED <<pyInitialized, inCall, leaked>>

BeginAllowThreads(t) == \E k \in UsableLocks(t) :
  /\ ~pyLocks[t][k].allowing /\ pyLocks[t][k].acquired
  /\ SaveThread(t)
  /\ SetLock(t, k, [pyLocks[t][k] EXCEPT !.allowing = TRUE])
  /\ UNCHANGED <<pyInitialized, gilCounter, inCall, leaked>>

\* EndAllowThreads: a thread that has the lock already has kept it by mistake.
TakesBack(t) == IF HasGil(t) THEN UNCHANGED gil ELSE RestoreThread(t)

EndAllowThreads(t) == \E k \in UsableLocks(t) :
  /\ pyLocks[t][k].allowing
  /\ TakesBack(t)
  /\ SetLock(t, k, [pyLocks[t][k] EXCEPT !.allowing = FALSE])
  /\ UNCHANGED <<pyInitialized, gilCounter, inCall, leaked, pyAborts>>

-----------------------------------------------------------------------------
(* Construction and destruction, of the last one on the stack. *)

CanNest(t) == inCall[t] /\ Len(pyLocks[t]) < MaxNested

PyPushed(t, lock) == pyLocks' = [pyLocks EXCEPT ![t] = Append(@, lock)]

\* TfPyLock lock;
PyConstruct(t) ==
  /\ CanNest(t)
  /\ IF pyInitialized THEN Ensure(t) /\ PyPushed(t, AcquiredBy(t, FreshLock(FALSE)))
     ELSE PyPushed(t, FreshLock(FALSE)) /\ UNCHANGED <<gil, gilCounter>>
  /\ UNCHANGED <<pyInitialized, inCall, leaked, pyAborts>>

\* TfPyEnsureGILUnlockedObj: acquires and allows threads if the thread has the lock.
\* (Before initialization PyGILState_Check says yes, and then neither does anything.)
EnsureUnlocked(t) ==
  /\ CanNest(t)
  /\ IF HasGil(t)
     THEN /\ gilCounter' = [gilCounter EXCEPT ![t] = @ + 1]
          /\ SaveThread(t)
          /\ PyPushed(t, [AcquiredBy(t, FreshLock(TRUE)) EXCEPT !.allowing = TRUE])
     ELSE PyPushed(t, FreshLock(TRUE)) /\ UNCHANGED <<gil, gilCounter, pyAborts>>
  /\ UNCHANGED <<pyInitialized, inCall, leaked>>

\* ~TfPyLock: what allowed threads waits for the lock first, then all that is
\* acquired is released; t has the lock in between.
PyDestroy(t) ==
  LET lock == Last(pyLocks[t]) IN
  /\ pyLocks[t] # <<>>
  /\ lock.allowing => gil \in {t, Unheld}
  /\ IF lock.acquired THEN GilRelease(t, lock.gilState, lock.allowing \/ HasGil(t))
     ELSE UNCHANGED <<gil, gilCounter, pyAborts>>
  /\ pyLocks' = [pyLocks EXCEPT ![t] = Front(@)]
  /\ UNCHANGED <<pyInitialized, inCall, leaked>>

-----------------------------------------------------------------------------
(* Around it. *)

\* TfPyInitialize, from a thread that keeps the lock for the call only.
PyInitialize ==
  /\ ~pyInitialized /\ pyInitialized' = TRUE
  /\ UNCHANGED <<gil, gilCounter, pyLocks, inCall, leaked, pyAborts>>

\* An interpreter thread gets its turn and calls C++, or has its call returned to.
CallFromPython(t) ==
  /\ pyInitialized /\ t \in Interpreters /\ ~inCall[t] /\ gil = Unheld
  /\ gil' = t /\ inCall' = [inCall EXCEPT ![t] = TRUE]
  /\ UNCHANGED <<pyInitialized, gilCounter, pyLocks, leaked, pyAborts>>

ReturnToPython(t) ==
  /\ t \in Interpreters /\ inCall[t] /\ pyLocks[t] = <<>>
  /\ inCall' = [inCall EXCEPT ![t] = FALSE]
  /\ gil' = IF HasGil(t) THEN Unheld ELSE gil
  /\ pyAborts' = (pyAborts \/ ~HasGil(t))
  /\ UNCHANGED <<pyInitialized, gilCounter, pyLocks, leaked>>

\* "Some non-exception-safe GIL code has failed to restore it to the unlocked state."
KeepGil(t) ==
  /\ Leaks /\ ~leaked[t] /\ pyLocks[t] # <<>> /\ Last(pyLocks[t]).allowing /\ ~HasGil(t)
  /\ Ensure(t)
  /\ leaked' = [leaked EXCEPT ![t] = TRUE]
  /\ UNCHANGED <<pyInitialized, pyLocks, inCall, pyAborts>>

PyNext ==
  \/ PyInitialize
  \/ \E t \in AllThreads :
       \/ PyConstruct(t) \/ EnsureUnlocked(t) \/ PyDestroy(t)
       \/ PyAcquire(t) \/ PyRelease(t) \/ BeginAllowThreads(t) \/ EndAllowThreads(t)
       \/ CallFromPython(t) \/ ReturnToPython(t) \/ KeepGil(t)

PySpec == PyInit /\ [][PyNext]_pyVars

-----------------------------------------------------------------------------

AcquiredDepths(t) == {k \in PyDepths(t) : pyLocks[t][k].acquired}
OwnNesting(t) == IF t \in Interpreters THEN 1 ELSE 0

\* What the locks on its stack give a thread, whatever they are nested in: the
\* interpreter lock if the last acquired one does not allow threads; without any,
\* what it came with.
ShouldHold(t) ==
  IF AcquiredDepths(t) = {} THEN t \in Interpreters /\ inCall[t]
  ELSE ~pyLocks[t][CHOOSE k \in AcquiredDepths(t) : \A j \in AcquiredDepths(t) : j <= k].allowing

\* Python is never called in a way that aborts it; nested locks, released and
\* acquired again, and sections that allow threads leave each thread with the
\* interpreter lock exactly where it should have it; and when they are gone
\* Python's own nesting is what it was (pyLock.cpp:36-147).
PyLocksNest ==
  /\ ~pyAborts
  /\ \A t \in AllThreads :
       /\ ~leaked[t] => (HasGil(t) <=> ShouldHold(t))
       /\ ~leaked[t] => gilCounter[t] = OwnNesting(t) + Cardinality(AcquiredDepths(t))
       /\ leaked[t] /\ ShouldHold(t) => HasGil(t)
       /\ pyLocks[t] = <<>> => (HasGil(t) <=> t \in Interpreters /\ inCall[t])
=============================================================================
