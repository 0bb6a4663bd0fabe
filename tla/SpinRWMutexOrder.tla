-------------------------- MODULE SpinRWMutexOrder --------------------------
(***************************************************************************)
(* The memory orders of TfSpinRWMutex (spinRWMutex.h): which accesses of   *)
(* the protected data one thread may rely on having happened before its    *)
(* own, by the C++ rules for acquire and release operations.               *)
(*                                                                         *)
(* Every change of the lock word is a read-modify-write, so each continues *)
(* all release sequences before it: a release adds what its thread knows   *)
(* to what the word carries, nothing takes that away, and an acquire       *)
(* receives everything the word carries.  The waits load with relaxed      *)
(* order and receive nothing.                                              *)
(***************************************************************************)
EXTENDS SpinRWMutex

VARIABLES
  carried,   \* writers whose last write is ordered before an acquire of the word
  known      \* known[t]: writers whose last write is ordered before t's next step

orderVars == <<carried, known>>

OrderInit ==
  /\ Init
  /\ carried = Threads
  /\ known = [t \in Threads |-> Threads]

-----------------------------------------------------------------------------
(* The memory order of each access to the lock word. *)

AddReaderOrder == "acquire"
UndoReaderOrder == "release"
SetFlagOrder == "acquire"
DropOwnReaderOrder == "release"
WaitOrder == "relaxed"
IfReleasedOrder == "acquire"
ReleaseReadOrder == "release"

ReleaseWriteOrder_Slip == "relaxed"

ReleaseWriteOrder == "release"

DowngradeOrder == "acq_rel"

Receives(order) == order \in {"acquire", "acq_rel"}
Publishes(order) == order \in {"release", "acq_rel"}

\* Thread t accesses the word with this order, then writes the data if the access
\* gave it the lock for that; what others knew of t's writes is outdated.
Ordered(t, order) ==
  LET got == known[t] \cup (IF Receives(order) THEN carried ELSE {})
      write == IF acqState'[t] = "Write" /\ call'[t] = "None" THEN {t} ELSE {}
  IN  /\ known' = [u \in Threads |->
                     IF u = t THEN got \cup write ELSE known[u] \ write]
      /\ carried' = (carried \cup (IF Publishes(order) THEN got ELSE {}))
                      \ write

-----------------------------------------------------------------------------

OrderedStep(t) ==
  \/ AddReaderStep(t) /\ Ordered(t, AddReaderOrder)
  \/ UndoReaderStep(t) /\ Ordered(t, UndoReaderOrder)
  \/ SetFlagStep(t) /\ Ordered(t, SetFlagOrder)
  \/ UpgradeSetFlagStep(t) /\ Ordered(t, SetFlagOrder)
  \/ DropOwnReaderStep(t) /\ Ordered(t, DropOwnReaderOrder)
  \/ WaitForReaders(t) /\ Ordered(t, WaitOrder)
  \/ WaitForWriter(t) /\ Ordered(t, WaitOrder)
  \/ TryAcquireWriteIfReleased(t) /\ Ordered(t, IfReleasedOrder)
  \/ ReleaseRead(t) /\ Ordered(t, ReleaseReadOrder)
  \/ ReleaseWrite(t) /\ Ordered(t, ReleaseWriteOrder)
  \/ DowngradeToReader(t) /\ Ordered(t, DowngradeOrder)

\* Entering a call touches no shared memory.
Begin(t) ==
  /\ StartRead(t) \/ StartWrite(t) \/ StartUpgrade(t)
  /\ UNCHANGED orderVars

OrderNext == \E t \in Threads : Begin(t) \/ OrderedStep(t)

OrderSpec == OrderInit /\ [][OrderNext]_<<vars, orderVars>>

OrderFairSpec == OrderSpec /\ Fairness

-----------------------------------------------------------------------------
(* Properties. *)

\* Whoever holds the lock, in either mode and by whichever way it came to it,
\* sees every write that was ever made under the lock.
HoldersSeeWrites ==
  \A t, u \in Threads : acqState[t] # "None" => u \in known[t]
=============================================================================
