------------------------------- MODULE RWLock -------------------------------
(***************************************************************************)
(* What a readers-writer lock of this library promises its clients: many   *)
(* readers or one writer.  Nothing is said about waiting; a failed attempt *)
(* or a wait changes nothing here.  TfSpinRWMutex and TfBigRWMutex are     *)
(* shown to implement this specification.                                  *)
(***************************************************************************)

CONSTANT Threads        \* the threads that use the lock

VARIABLE holds          \* holds[t]: what t may rely on: "None", "Read", "Write"

Modes == {"None", "Read", "Write"}

Others(t) == Threads \ {t}

Init == holds = [t \in Threads |-> "None"]

Become(t, mode) == holds' = [holds EXCEPT ![t] = mode]

GrantRead(t) ==
  /\ holds[t] = "None"
  /\ \A u \in Others(t) : holds[u] # "Write"
  /\ Become(t, "Read")

GrantWrite(t) ==
  /\ holds[t] = "None"
  /\ \A u \in Others(t) : holds[u] = "None"
  /\ Become(t, "Write")

\* A reader becomes the writer without letting another writer in between.
Upgrade(t) ==
  /\ holds[t] = "Read"
  /\ \A u \in Others(t) : holds[u] = "None"
  /\ Become(t, "Write")

\* The writer becomes a reader without letting another writer in between.
Downgrade(t) ==
  /\ holds[t] = "Write"
  /\ Become(t, "Read")

Release(t) ==
  /\ holds[t] # "None"
  /\ Become(t, "None")

Next ==
  \E t \in Threads :
    \/ GrantRead(t)
    \/ GrantWrite(t)
    \/ Upgrade(t)
    \/ Downgrade(t)
    \/ Release(t)

Spec == Init /\ [][Next]_holds
=============================================================================
