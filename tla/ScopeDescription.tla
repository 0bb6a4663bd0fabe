-------------------------- MODULE ScopeDescription --------------------------
(***************************************************************************)
(* TfScopeDescription: each thread keeps a linked stack of descriptions of *)
(* what it is doing, pushed and popped by scopes and read by others: by    *)
(* TfGetCurrentScopeDescriptionStack, and by the reporter, which runs in a *)
(* signal handler and must not wait for a lock for long.  The lock of a    *)
(* stack is held to change its head or a text; the registry's, to find a   *)
(* stack and to add or remove one.                                         *)
(*                                                                         *)
(* A description points at a text that is its caller's or its own; its own *)
(* may be gone.  The n-th description of a thread is known by n.           *)
(***************************************************************************)
EXTENDS Integers, Sequences

CONSTANTS
  Scopers,       \* the threads that have stacks
  Watchers,      \* who looks at the stacks of others
  MaxScopes,     \* bounds the depth of a stack
  Reporters      \* the watchers that are reporters

VARIABLES
  scopes,        \* scopes[t]: the descriptions of t that are alive, [points, owns]
  head,          \* head[t]: the one the stack's head points at, 0 for none
  stackMutex,    \* stackMutex[t]: who holds the lock of t's stack
  registered,    \* _stacks: the threads whose stacks are in the registry
  stacksMutex,   \* who holds _stacksMutex
  messageMutex,  \* who holds messageMutex
  scopeStep,     \* scopeStep[t]: the step t is at
  watch          \* watch[w]: what w is reading

scopeVars == <<scopes, head, stackMutex, registered, stacksMutex, messageMutex, scopeStep, watch>>

None == "none"

ASSUME ScopeAssumption == Scopers \cap Watchers = {} /\ None \notin Watchers

Away == [at |-> "Away", todo |-> {}, of |-> None, frame |-> 0, saw |-> "Live"]
Described(owned) == [points |-> IF owned THEN "Own" ELSE "Callers", owns |-> owned]

ScopeInit ==
  /\ scopes = [t \in Scopers |-> <<>>]
  /\ head = [t \in Scopers |-> 0]
  /\ stackMutex = [t \in Scopers |-> None]
  /\ registered = {}
  /\ stacksMutex = None
  /\ messageMutex = None
  /\ scopeStep = [t \in Scopers |-> "Out"]
  /\ watch = [w \in Watchers |-> Away]

Depth(t) == Len(scopes[t])
AtStep(t, step) == scopeStep[t] = step
GoesTo(t, step) == scopeStep' = [scopeStep EXCEPT ![t] = step]
HoldsOwn(t, step) == AtStep(t, step) /\ stackMutex[t] = t
ReleaseOwn(t) == stackMutex' = [stackMutex EXCEPT ![t] = None]

-----------------------------------------------------------------------------
(* The threads.  The first push of a thread adds its stack, its exit       *)
(* removes it; both wait for _stacksMutex.                                 *)

AddStack(t) ==
  /\ AtStep(t, "Out") /\ t \notin registered /\ stacksMutex = None
  /\ registered' = registered \cup {t}
  /\ UNCHANGED <<scopes, head, stackMutex, stacksMutex, messageMutex, scopeStep, watch>>

RemoveStack(t) ==
  /\ AtStep(t, "Out") /\ t \in registered /\ scopes[t] = <<>> /\ stacksMutex = None
  /\ registered' = registered \ {t}
  /\ UNCHANGED <<scopes, head, stackMutex, stacksMutex, messageMutex, scopeStep, watch>>

\* _Push: the description is complete before the head is pointed at it.
PushScope(t, owned) ==
  /\ AtStep(t, "Out") /\ t \in registered /\ Depth(t) < MaxScopes
  /\ scopes' = [scopes EXCEPT ![t] = Append(@, Described(owned))]
  /\ GoesTo(t, "Push")
  /\ UNCHANGED <<head, stackMutex, registered, stacksMutex, messageMutex, watch>>

LockOwn(t) ==
  /\ scopeStep[t] \in {"Push", "Pop", "Set", "SetOwned"} /\ stackMutex[t] = None
  /\ stackMutex' = [stackMutex EXCEPT ![t] = t]
  /\ UNCHANGED <<scopes, head, registered, stacksMutex, messageMutex, scopeStep, watch>>

LinkScope(t) ==
  /\ HoldsOwn(t, "Push")
  /\ head' = [head EXCEPT ![t] = Depth(t)]
  /\ ReleaseOwn(t) /\ GoesTo(t, "Out")
  /\ UNCHANGED <<scopes, registered, stacksMutex, messageMutex, watch>>

\* _Pop, and after it the end of the description and the text it owns; SetDescription.
BeginScopeStep(t, step) ==
  /\ AtStep(t, "Out") /\ scopes[t] # <<>>
  /\ GoesTo(t, step)
  /\ UNCHANGED <<scopes, head, stackMutex, registered, stacksMutex, messageMutex, watch>>

UnlinkScope(t) ==
  /\ HoldsOwn(t, "Pop")
  /\ head' = [head EXCEPT ![t] = Depth(t) - 1]
  /\ ReleaseOwn(t) /\ GoesTo(t, "End")
  /\ UNCHANGED <<scopes, registered, stacksMutex, messageMutex, watch>>

EndScope(t) ==
  /\ AtStep(t, "End")
  /\ scopes' = [scopes EXCEPT ![t] = SubSeq(@, 1, Depth(t) - 1)]
  /\ GoesTo(t, "Out")
  /\ UNCHANGED <<head, stackMutex, registered, stacksMutex, messageMutex, watch>>

\* SetDescription with a text of the caller's: the description is pointed at it under
\* the lock, and drops its own text after that.
PointAt_DropsFirst(d) == [points |-> d.points, owns |-> FALSE]

PointAt(d) == [d EXCEPT !.points = "Callers"]

SetScope(t) ==
  /\ HoldsOwn(t, "Set")
  /\ scopes' = [scopes EXCEPT ![t][Depth(t)] = PointAt(@)]
  /\ ReleaseOwn(t) /\ GoesTo(t, "Drop")
  /\ UNCHANGED <<head, registered, stacksMutex, messageMutex, watch>>

DropOwned(t) ==
  /\ AtStep(t, "Drop")
  /\ scopes' = [scopes EXCEPT ![t][Depth(t)] = Described(FALSE)]
  /\ GoesTo(t, "Out")
  /\ UNCHANGED <<head, stackMutex, registered, stacksMutex, messageMutex, watch>>

\* With a text to be owned, all is done under the lock.
SetScopeOwned(t) ==
  /\ HoldsOwn(t, "SetOwned")
  /\ scopes' = [scopes EXCEPT ![t][Depth(t)] = Described(TRUE)]
  /\ ReleaseOwn(t) /\ GoesTo(t, "Out")
  /\ UNCHANGED <<head, registered, stacksMutex, messageMutex, watch>>

-----------------------------------------------------------------------------
(* Who looks.  Only a thread that holds a stack's lock has it change, so a *)
(* watcher that has it reads head and descriptions as they are.            *)

Sees(w, at) == watch[w].at = at
WatchAt(w, step) == watch' = [watch EXCEPT ![w] = step]
IsReporter(w) == w \in Reporters

\* LockThread, or the reporter's two locks: it gives up if the first is held, and may
\* give up, with a message that says so, if the second is.
BeginWatch(w, S) ==
  /\ Sees(w, "Away") /\ stacksMutex = None
  /\ S \subseteq registered
  /\ IF IsReporter(w) THEN S = registered ELSE \E t \in S : S = {t}
  /\ IsReporter(w) => messageMutex = None
  /\ messageMutex' = IF IsReporter(w) THEN w ELSE messageMutex
  /\ stacksMutex' = w
  /\ WatchAt(w, [Away EXCEPT !.at = "Choose", !.todo = S])
  /\ UNCHANGED <<scopes, head, stackMutex, registered, scopeStep>>

\* The next stack, under its lock.  The reporter waits 10 ms for it and then reads on
\* without.
LockStack(w) ==
  /\ Sees(w, "Choose")
  /\ \E t \in watch[w].todo :
       /\ \/ stackMutex[t] = None /\ stackMutex' = [stackMutex EXCEPT ![t] = w]
          \/ IsReporter(w) /\ stackMutex[t] # None /\ UNCHANGED stackMutex
       /\ WatchAt(w, [watch[w] EXCEPT !.at = "Head", !.of = t, !.todo = @ \ {t}])
  /\ UNCHANGED <<scopes, head, registered, stacksMutex, messageMutex, scopeStep>>

ReadHead(w) ==
  /\ Sees(w, "Head")
  /\ WatchAt(w, [watch[w] EXCEPT !.at = "Frames", !.frame = head[watch[w].of]])
  /\ UNCHANGED <<scopes, head, stackMutex, registered, stacksMutex, messageMutex, scopeStep>>

\* What there is at frame n of t for who reads it now; nothing follows from reading
\* what is dead.
Reads(t, n) ==
  IF n <= Depth(t) /\ (scopes[t][n].points = "Own" => scopes[t][n].owns) THEN "Live" ELSE "Dead"

ReadFrame(w) ==
  LET t == watch[w].of
      n == watch[w].frame
  IN /\ Sees(w, "Frames") /\ n > 0 /\ watch[w].saw = "Live"
     /\ WatchAt(w, [watch[w] EXCEPT !.frame = n - 1, !.saw = Reads(t, n)])
     /\ UNCHANGED <<scopes, head, stackMutex, registered, stacksMutex, messageMutex, scopeStep>>

UnlockStack(w) ==
  LET t == watch[w].of
  IN /\ Sees(w, "Frames") /\ watch[w].frame = 0 /\ watch[w].saw = "Live"
     /\ stackMutex' = IF stackMutex[t] = w THEN [stackMutex EXCEPT ![t] = None] ELSE stackMutex
     /\ WatchAt(w, [watch[w] EXCEPT !.at = "Choose", !.of = None])
     /\ UNCHANGED <<scopes, head, registered, stacksMutex, messageMutex, scopeStep>>

EndWatch(w) ==
  /\ Sees(w, "Choose") /\ watch[w].todo = {}
  /\ stacksMutex' = None
  /\ messageMutex' = IF messageMutex = w THEN None ELSE messageMutex
  /\ WatchAt(w, Away)
  /\ UNCHANGED <<scopes, head, stackMutex, registered, scopeStep>>

ScopeNext ==
  \/ \E t \in Scopers :
       \/ AddStack(t) \/ RemoveStack(t)
       \/ \E owned \in BOOLEAN : PushScope(t, owned)
       \/ \E step \in {"Pop", "Set", "SetOwned"} : BeginScopeStep(t, step)
       \/ LockOwn(t) \/ LinkScope(t) \/ UnlinkScope(t) \/ EndScope(t)
       \/ SetScope(t) \/ DropOwned(t) \/ SetScopeOwned(t)
  \/ \E w \in Watchers :
       \/ \E S \in SUBSET Scopers : BeginWatch(w, S)
       \/ LockStack(w) \/ ReadHead(w) \/ ReadFrame(w) \/ UnlockStack(w) \/ EndWatch(w)

ScopeSpec == ScopeInit /\ [][ScopeNext]_scopeVars

-----------------------------------------------------------------------------
(* Properties. *)

\* Who holds a stack's lock reads a list that ends, of descriptions that have not been
\* destroyed and whose texts exist: a thread may change a text, pop or exit meanwhile,
\* and drops what it owned only when nobody can be looking at it any more.
LockedReadsAreLive ==
  \A w \in Watchers :
    (watch[w].of # None /\ stackMutex[watch[w].of] = w) => watch[w].saw = "Live"

\* "Try to lock this entry's mutex, if we fail or if empty stack, bail"
\* (scopeDescription.cpp:271): a stack that is not locked is not read.
UnlockedIsNotRead == \A w \in Watchers : watch[w].saw = "Live"
=============================================================================
