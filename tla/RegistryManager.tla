--------------------------- MODULE RegistryManager ---------------------------
(***************************************************************************)
(* Tf_RegistryManagerImpl (registryManager.cpp): libraries add registry    *)
(* functions for types as they are loaded, and the functions of a type run *)
(* once somebody subscribes to the type.  T of Singleton is a registry     *)
(* like TfEnum's, whose constructor subscribes to the type Managed and     *)
(* whose destructor unsubscribes.                                          *)
(*                                                                         *)
(* A registry function runs with _mutex unlocked; it may subscribe, ask    *)
(* for the instance of T, load a library or add a function for unload.     *)
(* The mutex is recursive, but is never taken twice here: a call takes it  *)
(* only from code that runs without it.  What a thread does alone under    *)
(* the mutex is one action, up to the next call or unlock.                 *)
(***************************************************************************)
EXTENDS Singleton, Lists

CONSTANTS
  Types, Managed,
  Libs, NoLib,
  Fns,        \* registry functions
  TypeOf,     \* TypeOf[f]: the type that f is added for
  Adds,       \* Adds[l]: the registry functions of library l, in order
  Body,       \* Body[f]: the calls that f makes, in order
  Globals,    \* Globals[l]: calls that one of l's global objects may make
  MaxCalls,   \* bound: calls that a thread makes
  MaxLoads,   \* bound: times that a library is loaded
  AwaitsCode  \* TRUE: no library is unloaded while its functions run or are to

ASSUME RegistryAssumption ==
  /\ Managed \in Types /\ NoLib \notin Libs
  /\ TypeOf \in [Fns -> Types]
  /\ Adds \in [Libs -> Seq(Fns)]
  /\ MaxCalls \in Nat /\ MaxLoads \in Nat /\ AwaitsCode \in BOOLEAN

\* TF_REGISTRY_FUNCTION defines a static function, added in one place.
ASSUME FunctionsAssumption ==
  /\ \A f \in Fns : \E l \in Libs : f \in Range(Adds[l])
  /\ \A l, m \in Libs : \A i \in DOMAIN Adds[l], j \in DOMAIN Adds[m] :
       Adds[l][i] = Adds[m][j] => l = m /\ i = j

VARIABLES
  mutex,    \* the thread that holds _mutex, or NoThread
  ordered,  \* _orderedSubscriptions; _subscriptions is its range
  fns,      \* fns[ty]: _registryFunctions
  unloads,  \* unloads[l]: _unloadFunctions, as the functions that added them
  cur,      \* cur[t]: the library whose list _currentUnloadList is, or NoLib
  active,   \* active[t]: _active, the library and its functions
  loaded,   \* libraries whose constructors have run
  loads,    \* loads[l]: how often l has been loaded
  started,  \* started[f]: runs of f since its library was loaded
  budget    \* budget[t]: calls that t may still make

libraryVars == <<loaded, loads, started>>
listVars == <<ordered, fns, unloads, active>>
vars == <<stack, singletonVars, mutex, listVars, cur, libraryVars, budget>>

NoActive == [lib |-> NoLib, fns |-> <<>>]
LibOf(f) == CHOOSE l \in Libs : f \in Range(Adds[l])
FnsOf(l) == Range(Adds[l])

Init ==
  /\ SingletonInit
  /\ mutex = NoThread /\ ordered = <<>>
  /\ fns = [ty \in Types |-> <<>>]
  /\ unloads = [l \in Libs |-> <<>>]
  /\ cur = [t \in Threads |-> NoLib]
  /\ active = [t \in Threads |-> NoActive]
  /\ loaded = {}
  /\ loads = [l \in Libs |-> 0]
  /\ started = [f \in Fns |-> 0]
  /\ budget = [t \in Threads |-> MaxCalls]

SubscribeCall(ty) == [op |-> "Subscribe", pc |-> "Lock", type |-> ty]
LoadCall(l) == [op |-> "Load", pc |-> "Open", lib |-> l, added |-> 0]
AddForUnloadCall == [op |-> "AddForUnload", pc |-> "Lock"]
UpdateCall(ty) == [op |-> "Update", pc |-> "Next", type |-> ty]
RunCall(t, ty) ==
  [op |-> "Run", pc |-> "Take", type |-> ty, toRun |-> <<>>, saved |-> cur[t]]
FunctionCall(f) == [op |-> "Function", pc |-> "Body", fn |-> f, done |-> 0]

-----------------------------------------------------------------------------
(* _ProcessLibraryNoLock. *)

\* _subscriptions.count(ty) # 0
Subscribed(ty) == ty \in Range(ordered)

\* _TransferActiveLibraryNoLock has moved functions of a type subscribed to.
MovedAny(t) == \E i \in DOMAIN active[t].fns : Subscribed(TypeOf[active[t].fns[i]])

\* Moves the active library's functions to _registryFunctions, type by type.
Transfer(t) ==
  /\ fns' = [ty \in Types |->
               fns[ty] \o Only(active[t].fns, {f \in Fns : TypeOf[f] = ty})]
  /\ active' = [active EXCEPT ![t] = NoActive]

\* t takes _mutex and processes its active library; then the call goes on at
\* pc with _mutex held, after the subscribers were updated if need be.
LockAndProcess(t, pc) ==
  /\ mutex = NoThread
  /\ mutex' = t
  /\ Transfer(t)
  /\ LET first == Head(ordered)
         resume == [Top(t) EXCEPT !.pc = pc]
         update == IF MovedAny(t) THEN <<UpdateCall(first), RunCall(t, first)>>
                                  ELSE <<>>
     IN  Become(t, Append(Front(stack[t]), resume) \o update)
  /\ UNCHANGED <<singletonVars, ordered, unloads, cur, libraryVars, budget>>

UnlockAndLeave_Locked(t) ==
  /\ Leave(t)
  /\ UNCHANGED <<singletonVars, mutex, listVars, cur, libraryVars, budget>>

\* The end of a lock_guard's block and of the function.
UnlockAndLeave(t) ==
  /\ mutex' = NoThread
  /\ Leave(t)
  /\ UNCHANGED <<singletonVars, listVars, cur, libraryVars, budget>>

\* What the iterator of _UpdateSubscribersNoLock has not reached: the list may
\* have grown while functions of ty ran.
NextSubscription(ty) ==
  LET i == CHOOSE i \in DOMAIN ordered : ordered[i] = ty
  IN  SubSeq(ordered, i + 1, Len(ordered))

UpdateNext(t) ==
  /\ At(t, "Update", "Next")
  /\ LET rest == NextSubscription(Top(t).type)
     IN  \/ /\ rest = <<>>
            /\ Leave(t)
         \/ /\ rest # <<>>
            /\ Become(t, Front(stack[t])
                           \o <<UpdateCall(Head(rest)), RunCall(t, Head(rest))>>)
  /\ UNCHANGED <<singletonVars, mutex, listVars, cur, libraryVars, budget>>

-----------------------------------------------------------------------------
(* _RunRegistryFunctionsNoLock. *)

AfterTake_Keeps(ty) == fns[ty]

\* What the list of ty holds once its functions were moved to toRun.
AfterTake(ty) == <<>>

\* Moves the list of the type to toRun and unlocks, or, when the list is empty,
\* restores _currentUnloadList and returns with _mutex held.
RunTake(t) ==
  /\ At(t, "Run", "Take")
  /\ LET ty == Top(t).type
     IN  \/ /\ fns[ty] = <<>>
            /\ cur' = [cur EXCEPT ![t] = Top(t).saved]
            /\ Leave(t)
            /\ UNCHANGED <<mutex, fns>>
         \/ /\ fns[ty] # <<>>
            /\ Update(t, [Top(t) EXCEPT !.toRun = fns[ty], !.pc = "Call"])
            /\ fns' = [fns EXCEPT ![ty] = AfterTake(ty)]
            /\ cur' = [cur EXCEPT ![t] = LibOf(Head(fns[ty]))]
            /\ mutex' = NoThread
  /\ UNCHANGED <<singletonVars, ordered, unloads, active, libraryVars, budget>>

Repoint_Never(t, f) == UNCHANGED cur

\* The list that the functions f adds for unload go to.
Repoint(t, f) == cur' = [cur EXCEPT ![t] = LibOf(f)]

\* Calls the next function of toRun, without the lock; takes the lock for a
\* moment when the function is another library's.
RunCallNext(t) ==
  /\ At(t, "Run", "Call")
  /\ Top(t).toRun # <<>>
  /\ LET f == Head(Top(t).toRun)
     IN  /\ LibOf(f) # cur[t] => mutex = NoThread
         /\ Repoint(t, f)
         /\ started' = [started EXCEPT ![f] = @ + 1]
         /\ Become(t, Append(Front(stack[t]),
                             [Top(t) EXCEPT !.toRun = Tail(@)]) \o <<FunctionCall(f)>>)
  /\ UNCHANGED <<singletonVars, mutex, listVars, loaded, loads, budget>>

\* All have run: takes the lock again, to look for functions added meanwhile.
RunRelock(t) ==
  /\ At(t, "Run", "Call")
  /\ Top(t).toRun = <<>>
  /\ mutex = NoThread /\ mutex' = t
  /\ Goto(t, "Take")
  /\ UNCHANGED <<singletonVars, listVars, cur, libraryVars, budget>>

-----------------------------------------------------------------------------
(* A registry function makes the calls of its body, and returns. *)

FunctionBody(t) ==
  /\ At(t, "Function", "Body")
  /\ LET f == Top(t).fn
         next == Top(t).done + 1
     IN  \/ /\ next > Len(Body[f])
            /\ Leave(t)
         \/ /\ next <= Len(Body[f])
            /\ Become(t, Append(Front(stack[t]), [Top(t) EXCEPT !.done = next])
                           \o <<Body[f][next]>>)
  /\ ref' = [ref EXCEPT ![t] = 0]
  /\ UNCHANGED <<instance, initState, isInitializing, made, alive, thrown,
                 mutex, listVars, cur, libraryVars, budget>>

\* AddFunctionForUnload, called by the function of the call below.
AddFunctionForUnload(t) ==
  /\ At(t, "AddForUnload", "Lock")
  /\ mutex = NoThread
  /\ LET f == stack[t][Len(stack[t]) - 1].fn
     IN  unloads' = [l \in Libs |-> IF l = cur[t] THEN Append(unloads[l], f)
                                                  ELSE unloads[l]]
  /\ Leave(t)
  /\ UNCHANGED <<singletonVars, mutex, ordered, fns, active, cur, libraryVars, budget>>

-----------------------------------------------------------------------------
(* SubscribeTo and UnsubscribeFrom. *)

SubscribeLock(t) ==
  /\ At(t, "Subscribe", "Lock")
  /\ LockAndProcess(t, "Insert")

\* Only the first subscriber runs the functions.
SubscribeInsert(t) ==
  /\ At(t, "Subscribe", "Insert")
  /\ LET ty == Top(t).type
     IN  \/ /\ Subscribed(ty)
            /\ Goto(t, "Unlock")
            /\ UNCHANGED ordered
         \/ /\ ~Subscribed(ty)
            /\ ordered' = Append(ordered, ty)
            /\ GotoAndEnter(t, "Unlock", RunCall(t, ty))
  /\ UNCHANGED <<singletonVars, mutex, fns, unloads, active, cur, libraryVars, budget>>

SubscribeUnlock(t) ==
  /\ At(t, "Subscribe", "Unlock")
  /\ UnlockAndLeave(t)

\* T's constructor subscribes, and its destructor unsubscribes (enum.cpp).
ConstructorSubscribe(t) ==
  /\ At(t, "Constructor", "Subscribe")
  /\ GotoAndEnter(t, "Return", SubscribeCall(Managed))
  /\ UNCHANGED <<singletonVars, mutex, listVars, cur, libraryVars, budget>>

DestructorUnsubscribe(t) ==
  /\ At(t, "Delete", "Destructor")
  /\ mutex = NoThread
  /\ ordered' = Only(ordered, Types \ {Managed})
  /\ Goto(t, "Destroy")
  /\ UNCHANGED <<singletonVars, mutex, fns, unloads, active, cur, libraryVars, budget>>

\* An exception of T's constructor ends the registry function that asked for
\* the instance, whose caller goes on with the next one, or the thread's call.
ConstructorThrow(t) ==
  /\ LET below == SubSeq(stack[t], 1, Len(stack[t]) - 2)
     IN  /\ below # <<>> => Last(below).op = "Function"
         /\ Throw(t, IF below = <<>> THEN <<>> ELSE Front(below))
  /\ UNCHANGED <<mutex, listVars, cur, libraryVars, budget>>

-----------------------------------------------------------------------------
(* Loading and unloading libraries.  The dynamic loader's lock is recursive *)
(* and held while a library's constructors run.                            *)

Executing(t, l) ==
  \E call \in Calls(t) : call.op = "Load" /\ call.pc # "Open" /\ call.lib = l
LoaderFree(t) == \A u \in Threads \ {t}, l \in Libs : ~Executing(u, l)

\* dlopen does nothing for a library that is loaded or being loaded.
LoadOpen(t) ==
  /\ At(t, "Load", "Open")
  /\ LoaderFree(t)
  /\ LET l == Top(t).lib
     IN  \/ /\ l \in loaded \/ Executing(t, l)
            /\ Leave(t)
            /\ UNCHANGED loads
         \/ /\ l \notin loaded /\ ~Executing(t, l)
            /\ loads[l] < MaxLoads
            /\ loads' = [loads EXCEPT ![l] = @ + 1]
            /\ Goto(t, "Add")
  /\ UNCHANGED <<singletonVars, mutex, listVars, cur, loaded, started, budget>>

\* AddRegistryFunction, once for each function of the library.  The first call
\* processes the library that was active and makes this one active.
LoadAdd(t) ==
  /\ At(t, "Load", "Add")
  /\ LET l == Top(t).lib
     IN  /\ Top(t).added < Len(Adds[l])
         /\ \/ /\ active[t].lib # l
               /\ LockAndProcess(t, "Activate")
            \/ /\ active[t].lib = l
               /\ active' = [active EXCEPT ![t].fns = Append(@, Adds[l][Top(t).added + 1])]
               /\ Update(t, [Top(t) EXCEPT !.added = @ + 1])
               /\ UNCHANGED <<singletonVars, mutex, ordered, fns, unloads, cur,
                              libraryVars, budget>>

LoadActivate(t) ==
  /\ At(t, "Load", "Activate")
  /\ mutex' = NoThread
  /\ active' = [active EXCEPT ![t] = [lib |-> Top(t).lib, fns |-> <<>>]]
  /\ Goto(t, "Add")
  /\ UNCHANGED <<singletonVars, ordered, fns, unloads, cur, libraryVars, budget>>

\* A constructor of a global object may run before Tf_RegistryInitCtor.
LoadGlobal(t) ==
  /\ At(t, "Load", "Add")
  /\ Top(t).added = Len(Adds[Top(t).lib])
  /\ \/ Goto(t, "Close")
     \/ \E call \in Globals[Top(t).lib] : GotoAndEnter(t, "Close", call)
  /\ UNCHANGED <<singletonVars, mutex, listVars, cur, libraryVars, budget>>

\* ClearActiveLibrary: the library may have been processed by then.
LoadClose(t) ==
  /\ At(t, "Load", "Close")
  /\ ref[t] = 0
  /\ IF active[t].lib = Top(t).lib
     THEN LockAndProcess(t, "Unlock")
     ELSE /\ loaded' = loaded \cup {Top(t).lib}
          /\ Leave(t)
          /\ UNCHANGED <<singletonVars, mutex, listVars, cur, loads, started, budget>>

LoadUnlock(t) ==
  /\ At(t, "Load", "Unlock")
  /\ mutex' = NoThread
  /\ loaded' = loaded \cup {Top(t).lib}
  /\ Leave(t)
  /\ UNCHANGED <<singletonVars, listVars, cur, loads, started, budget>>

ToRun(t) == UNION {Range(call.toRun) : call \in {c \in Calls(t) : c.op = "Run"}}
Running(t) == {call.fn : call \in {c \in Calls(t) : c.op = "Function"}}
CodeInUse(l) == \E t \in Threads : (ToRun(t) \cup Running(t)) \cap FnsOf(l) # {}

ForgetFns(l, ty) == Only(fns[ty], Fns \ FnsOf(l))

\* dlclose: the library's destructor (UnloadLibrary) runs its unload functions
\* under the mutex and forgets its registry functions; then its code is gone.
UnloadLibrary(t, l) ==
  /\ stack[t] = <<>> /\ budget[t] > 0 /\ ref[t] = 0
  /\ NobodyDeletes /\ LoaderFree(t)
  /\ mutex = NoThread
  /\ l \in loaded
  /\ \A u \in Threads : Running(u) \cap FnsOf(l) = {}
  /\ AwaitsCode => ~CodeInUse(l)
  /\ unloads' = [unloads EXCEPT ![l] = <<>>]
  /\ fns' = [ty \in Types |-> ForgetFns(l, ty)]
  /\ loaded' = loaded \ {l}
  /\ started' = [f \in Fns |-> IF f \in FnsOf(l) THEN 0 ELSE started[f]]
  /\ budget' = [budget EXCEPT ![t] = @ - 1]
  /\ UNCHANGED <<stack, singletonVars, mutex, ordered, active, cur, loads>>

-----------------------------------------------------------------------------
(* What a thread does of its own accord. *)

UserCalls ==
  {GetCall} \cup {SubscribeCall(ty) : ty \in Types} \cup {LoadCall(l) : l \in Libs}

\* A registry function may make any of these calls and add for unload; it and a
\* global object leave DeleteInstance to the user, as singleton.h:179 asks.
ASSUME CallsAssumption ==
  /\ Body \in [Fns -> Seq(UserCalls \cup {AddForUnloadCall})]
  /\ Globals \in [Libs -> SUBSET UserCalls]

Begin(t, call) ==
  /\ stack[t] = <<>> /\ budget[t] > 0 /\ ref[t] = 0
  /\ Enter(t, call)
  /\ budget' = [budget EXCEPT ![t] = @ - 1]
  /\ UNCHANGED <<singletonVars, mutex, listVars, cur, libraryVars>>

BeginCall(t) == NobodyDeletes /\ \E call \in UserCalls : Begin(t, call)

BeginDelete(t) == NobodyUses /\ Begin(t, DeleteCall)

\* The user, or a global object's constructor, is done with the reference.
Drop(t) ==
  /\ ref[t] # 0
  /\ stack[t] = <<>> \/ At(t, "Load", "Close")
  /\ ref' = [ref EXCEPT ![t] = 0]
  /\ UNCHANGED <<stack, instance, initState, isInitializing, made, alive, thrown,
                 mutex, listVars, cur, libraryVars, budget>>

OfSingleton(t) ==
  /\ SingletonStep(t)
  /\ UNCHANGED <<mutex, listVars, cur, libraryVars, budget>>

Step(t) ==
  \/ OfSingleton(t) \/ ConstructorSubscribe(t) \/ DestructorUnsubscribe(t)
  \/ SubscribeLock(t) \/ SubscribeInsert(t) \/ SubscribeUnlock(t)
  \/ UpdateNext(t) \/ RunTake(t) \/ RunCallNext(t) \/ RunRelock(t)
  \/ FunctionBody(t) \/ AddFunctionForUnload(t)
  \/ LoadOpen(t) \/ LoadAdd(t) \/ LoadActivate(t) \/ LoadGlobal(t)
  \/ LoadClose(t) \/ LoadUnlock(t) \/ Drop(t)

Next ==
  \E t \in Threads :
    \/ Step(t) \/ ConstructorThrow(t) \/ BeginCall(t) \/ BeginDelete(t)
    \/ \E l \in Libs : UnloadLibrary(t, l)

Spec == Init /\ [][Next]_vars

\* Some thread that can go on does.
FairSpec == Spec /\ WF_vars(\E t \in Threads : Step(t))

-----------------------------------------------------------------------------
(* Properties. *)

Ops == {"Get", "Constructor", "Delete", "Subscribe", "Update", "Run", "Function",
        "AddForUnload", "Load"}

\* Types; the list of subscriptions holds each member of the set once.
TypeOK ==
  /\ \A t \in Threads : stack[t] \in Seq(Calls(t)) /\ \A c \in Calls(t) : c.op \in Ops
  /\ instance \in 0..made /\ made \in 0..MaxObjects /\ alive \subseteq 1..made
  /\ initState \in [thread : Threads \cup {NoThread}, object : 0..made]
  /\ isInitializing \in BOOLEAN /\ thrown \in 0..MaxThrows
  /\ ref \in [Threads -> 0..made]
  /\ mutex \in Threads \cup {NoThread}
  /\ ordered \in Seq(Types) /\ IsInjective(ordered)
  /\ fns \in [Types -> Seq(Fns)] /\ unloads \in [Libs -> Seq(Fns)]
  /\ cur \in [Threads -> Libs \cup {NoLib}]
  /\ active \in [Threads -> [lib : Libs \cup {NoLib}, fns : Seq(Fns)]]
  /\ loaded \subseteq Libs /\ loads \in [Libs -> 0..MaxLoads]
  /\ started \in [Fns -> Nat] /\ budget \in [Threads -> 0..MaxCalls]

\* However many threads subscribe, update and load at once, a registry function
\* runs at most once while its library stays loaded.
RunAtMostOnce == \A f \in Fns : started[f] <= 1

\* "When new code is dynamically loaded then any functions of type T in the new
\* code will automatically be run" (registryManager.h): a function in the list
\* of a type that is subscribed to is never left there; some thread has yet to
\* look at the list, inside a loop over it or over the subscriptions.
Pending(t, ty) ==
  \E call \in Calls(t) :
    \/ call.op = "Run" /\ call.type = ty
    \/ call.op = "Update" /\ ty \in Range(NextSubscription(call.type))
SubscribedFunctionsRun ==
  \A ty \in Types :
    Subscribed(ty) /\ fns[ty] # <<>> => \E t \in Threads : Pending(t, ty)

\* The types; and every function of a subscribed type runs once.
FunctionsRunOnce == TypeOK /\ RunAtMostOnce /\ SubscribedFunctionsRun

\* A function added for unload is filed under the library of the registry
\* function that adds it, though that function's calls may run functions of
\* other libraries in between, on the same thread; and it is not lost.
EndedFns(l) ==
  {f \in FnsOf(l) : started[f] > 0 /\ \A t \in Threads : f \notin Running(t)}
FiledForUnload ==
  \A l \in Libs :
    /\ Range(unloads[l]) \subseteq FnsOf(l)
    /\ thrown = 0 => \A f \in EndedFns(l) :
         AddForUnloadCall \in Range(Body[f]) => f \in Range(unloads[l])

\* "Prevents crashes where the registry manager could attempt to execute a
\* registry function from the unloaded library" (registryManager.cpp:468-471).
CalledCodeIsLoaded ==
  \A t \in Threads : \A f \in ToRun(t) \cup Running(t) :
    LibOf(f) \in loaded \/ \E u \in Threads : Executing(u, LibOf(f))

\* What an unloaded library added is undone, and nothing of it is called again.
UnloadIsComplete == FiledForUnload /\ CalledCodeIsLoaded

\* Every call comes to an end, over the mutex, the loader's lock, the wait for
\* isInitializing's owner and calls inside calls; unless a constructor of T has
\* thrown, which leaves isInitializing set.
EveryCallReturns == []<>(thrown > 0 \/ \A t \in Threads : stack[t] = <<>>)
=============================================================================
