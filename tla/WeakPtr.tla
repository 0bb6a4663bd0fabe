------------------------------- MODULE WeakPtr -------------------------------
(***************************************************************************)
(* Weak pointers to the object of RefCount (weakBase.h/.cpp, weakPtr.h).   *)
(*                                                                         *)
(* A TfWeakPtr learns from a remnant that the object has died.  The first  *)
(* weak pointer makes the remnant; threads that do so at once compete, and *)
(* the losers discard theirs.  The object and every weak pointer hold it.  *)
(*                                                                         *)
(* An action is one access to the object's _remnantPtr or to the remnant's *)
(* reference count with the local code around it.                          *)
(***************************************************************************)
EXTENDS RefCount, TLC

CONSTANTS
  Remnants,  \* those that may be allocated
  Null

ASSUME RemnantsAssumption ==
  IsFiniteSet(Remnants) /\ Cardinality(Remnants) >= Cardinality(RefThreads)
ASSUME NullAssumption == Null \notin Remnants

\* Threads are alike, and so are remnants.
Symmetry == Permutations(RefThreads) \cup Permutations(Remnants)

VARIABLES
  remnantPtr,    \* TfWeakBase::_remnantPtr
  memory,        \* memory[r]: "Unused", "Allocated" or "Freed"
  remnantCount,  \* remnantCount[r]: _refCount of r
  alive,         \* alive[r]: _alive of r
  notify,        \* remnants with _notify
  told,          \* remnants of whose death Tf_ExpiryNotifier was told
  weak,          \* weak[t]: the remnant of t's weak pointer, or Null
  making,        \* making[t]: what t does next to make a weak pointer
  mine,          \* mine[t]: the remnant that t publishes or takes
  destructor     \* of the object: "NotRun", "Forgot" (the remnant) or "Done"

remnants == <<memory, remnantCount, alive, notify, told>>
weakVars == <<remnantPtr, remnants, weak, making, mine, destructor>>

WeakInit ==
  /\ RefInit
  /\ remnantPtr = Null
  /\ memory = [r \in Remnants |-> "Unused"]
  /\ remnantCount = [r \in Remnants |-> 0]
  /\ alive = [r \in Remnants |-> TRUE]
  /\ notify = {} /\ told = {}
  /\ weak = [t \in RefThreads |-> Null]
  /\ making = [t \in RefThreads |-> "Nothing"]
  /\ mine = [t \in RefThreads |-> Null]
  /\ destructor = "NotRun"

Idle(t) == refAt[t] = "Idle" /\ making[t] = "Nothing"

Make(t, what, r) ==
  /\ making' = [making EXCEPT ![t] = what]
  /\ mine' = [mine EXCEPT ![t] = r]

-----------------------------------------------------------------------------
(* Making weak pointers. *)

\* A new remnant has the reference that the object will hold.
InitialCount == 1

\* A thread makes a weak pointer from a TfRefPtr that it has.  Register loads
\* _remnantPtr, and allocates a remnant when there is none.
LoadRemnant(t) ==
  /\ Idle(t) /\ weak[t] = Null /\ refs[t] > 0
  /\ \/ /\ remnantPtr # Null
        /\ Make(t, "AddRef", remnantPtr)
        /\ UNCHANGED <<memory, remnantCount>>
     \/ /\ remnantPtr = Null
        /\ \E r \in Remnants :
             /\ memory[r] = "Unused"
             /\ memory' = [memory EXCEPT ![r] = "Allocated"]
             /\ remnantCount' = [remnantCount EXCEPT ![r] = InitialCount]
             /\ Make(t, "Publish", r)
  /\ UNCHANGED <<refVars, remnantPtr, alive, notify, told, weak, destructor>>

\* The compare_exchange: the first candidate stays, a later one is discarded.
Publish_Leaks(t) ==
  /\ making[t] = "Publish"
  /\ remnantPtr' = IF remnantPtr = Null THEN mine[t] ELSE remnantPtr
  /\ Make(t, "AddRef", remnantPtr')
  /\ UNCHANGED <<refVars, remnants, weak, destructor>>

Publish(t) ==
  /\ making[t] = "Publish"
  /\ \/ /\ remnantPtr = Null
        /\ remnantPtr' = mine[t]
        /\ Make(t, "AddRef", mine[t])
        /\ UNCHANGED memory
     \/ /\ remnantPtr # Null
        /\ memory' = [memory EXCEPT ![mine[t]] = "Freed"]
        /\ Make(t, "AddRef", remnantPtr)
        /\ UNCHANGED remnantPtr
  /\ UNCHANGED <<refVars, remnantCount, alive, notify, told, weak, destructor>>

AddRemnantRef(t) ==
  /\ making[t] = "AddRef"
  /\ remnantCount' = [remnantCount EXCEPT ![mine[t]] = @ + 1]
  /\ weak' = [weak EXCEPT ![t] = mine[t]]
  /\ Make(t, "Nothing", Null)
  /\ UNCHANGED <<refVars, remnantPtr, memory, alive, notify, told, destructor>>

\* u copies its weak pointer and gives the copy to t.
CopyWeak(t, u) ==
  /\ Idle(t) /\ weak[t] = Null
  /\ Idle(u) /\ weak[u] # Null
  /\ remnantCount' = [remnantCount EXCEPT ![weak[u]] = @ + 1]
  /\ weak' = [weak EXCEPT ![t] = weak[u]]
  /\ UNCHANGED <<refVars, remnantPtr, memory, alive, notify, told, making, mine,
                 destructor>>

\* EnableExtraNotification of t's pointer, when Python wraps the object.
EnableNotification(t) ==
  /\ Idle(t) /\ weak[t] \notin notify \cup {Null}
  /\ notify' = notify \cup {weak[t]}
  /\ UNCHANGED <<refVars, remnantPtr, memory, remnantCount, alive, told, weak, making,
                 mine, destructor>>

-----------------------------------------------------------------------------
(* Dropping references to the remnant. *)

\* The last reference deletes the remnant, whose destructor notifies.
DropRemnantRef(r) ==
  /\ remnantCount' = [remnantCount EXCEPT ![r] = @ - 1]
  /\ IF remnantCount[r] = 1
       THEN /\ memory' = [memory EXCEPT ![r] = "Freed"]
            /\ told' = IF r \in notify THEN told \cup {r} ELSE told
       ELSE UNCHANGED <<memory, told>>

DropWeak(t) ==
  /\ Idle(t) /\ weak[t] # Null
  /\ DropRemnantRef(weak[t])
  /\ weak' = [weak EXCEPT ![t] = Null]
  /\ UNCHANGED <<refVars, remnantPtr, alive, notify, making, mine, destructor>>

\* ~TfWeakBase, once the object was deleted: first the remnant is told, ...
Forgotten(r) == [alive EXCEPT ![r] = FALSE]

ForgetRemnant ==
  /\ deletes = 1 /\ destructor = "NotRun"
  /\ IF remnantPtr = Null
       THEN destructor' = "Done" /\ UNCHANGED alive
       ELSE destructor' = "Forgot" /\ alive' = Forgotten(remnantPtr)
  /\ UNCHANGED <<refVars, remnantPtr, memory, remnantCount, notify, told, weak, making,
                 mine>>

\* ... then the object's reference to it is dropped.
DropImplied ==
  /\ destructor = "Forgot"
  /\ destructor' = "Done"
  /\ DropRemnantRef(remnantPtr)
  /\ UNCHANGED <<refVars, remnantPtr, alive, notify, weak, making, mine>>

-----------------------------------------------------------------------------

\* A step of RefCount.  A thread is in one call at a time, and upgrades only a
\* weak pointer that has not expired.
RefStep(t) ==
  /\ making[t] = "Nothing"
  /\ RefCall(t) \/ CountStep(t)
  /\ refAt[t] = "Idle" /\ refAt'[t] = "LoadUpgrade" => weak[t] # Null /\ alive[weak[t]]
  /\ UNCHANGED weakVars

WeakStep(t) ==
  \/ LoadRemnant(t) \/ Publish(t) \/ AddRemnantRef(t)
  \/ EnableNotification(t) \/ DropWeak(t)
  \/ \E u \in RefThreads : CopyWeak(t, u)

WeakNext ==
  \/ \E t \in RefThreads : RefStep(t) \/ WeakStep(t)
  \/ ForgetRemnant
  \/ DropImplied

WeakSpec == WeakInit /\ [][WeakNext]_<<refVars, weakVars>>

-----------------------------------------------------------------------------
(* Properties. *)

WeakTypeOK ==
  /\ RefTypeOK
  /\ remnantPtr \in Remnants \cup {Null}
  /\ memory \in [Remnants -> {"Unused", "Allocated", "Freed"}]
  /\ remnantCount \in [Remnants -> Nat]
  /\ alive \in [Remnants -> BOOLEAN]
  /\ notify \subseteq Remnants /\ told \subseteq Remnants
  /\ weak \in [RefThreads -> Remnants \cup {Null}]
  /\ making \in [RefThreads -> {"Nothing", "Publish", "AddRef"}]
  /\ mine \in [RefThreads -> Remnants \cup {Null}]
  /\ destructor \in {"NotRun", "Forgot", "Done"}

\* All weak pointers to the object share its remnant, also when threads make
\* the first ones at once: so they compare equal, and expire together.
OneRemnant == \A t \in RefThreads : weak[t] \in {Null, remnantPtr}

\* What holds a remnant: weak pointers, the object, and the thread that has
\* allocated it but not published it yet.
Holders(r) ==
  Cardinality({t \in RefThreads : weak[t] = r})
  + Cardinality({t \in RefThreads : making[t] = "Publish" /\ mine[t] = r})
  + (IF remnantPtr = r /\ destructor # "Done" THEN 1 ELSE 0)

\* The count of a remnant is the number of its holders, and it exists as long
\* as it has any: it neither dangles nor leaks, not even when the object dies
\* while the pointers are made, copied and dropped.
HeldRemnantsExist ==
  \A r \in Remnants :
    /\ memory[r] = "Allocated" <=> Holders(r) > 0
    /\ memory[r] = "Allocated" => remnantCount[r] = Holders(r)

\* A weak pointer is valid while the object has references, and invalid from
\* the moment its destructor has told the remnant.
ValidWhileReferenced ==
  \A t \in RefThreads :
    weak[t] # Null => (alive[weak[t]] <=> destructor = "NotRun")
                      /\ (References > 0 => alive[weak[t]])

\* The identity by which Python knows the object is erased when neither the
\* object nor any weak pointer can use it, and then at once.
IdentityErasedLast ==
  \A r \in notify :
    r \in told <=> (destructor = "Done" /\ \A t \in RefThreads : weak[t] = Null)

\* The types, and the counts, the validity and the identity of the remnants.
RemnantsConsistent ==
  WeakTypeOK /\ OneRemnant /\ HeldRemnantsExist /\ ValidWhileReferenced /\ IdentityErasedLast
=============================================================================
