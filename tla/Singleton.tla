------------------------------ MODULE Singleton ------------------------------
(***************************************************************************)
(* TfSingleton<T> (singleton.h, instantiateSingleton.h), for one class T   *)
(* whose constructor calls SetInstanceConstructed and then code that may   *)
(* ask for the instance again, as the constructors of TfEnum's and         *)
(* TfType's registries do.                                                 *)
(*                                                                         *)
(* A thread has a stack of the calls it is in.  A call is a record whose   *)
(* "op" names the function and whose "pc" is the access that comes next;   *)
(* an action is that access to _instance, _initState or isInitializing,    *)
(* with the local code after it.  What T's constructor and destructor do   *)
(* belongs to the module that extends this one: it takes the constructor   *)
(* from "Subscribe" to "Return", the other from "Destructor" to "Destroy". *)
(***************************************************************************)
EXTENDS Integers, Sequences, FiniteSets, SequencesExt

CONSTANTS
  Threads,
  NoThread,
  MaxObjects,  \* bound: objects of T that are ever made
  MaxThrows    \* bound: constructors of T that throw

ASSUME SingletonAssumption ==
  /\ NoThread \notin Threads
  /\ MaxObjects \in Nat /\ MaxThrows \in Nat

VARIABLES
  stack,           \* stack[t]: the calls that t is in, the innermost last
  instance,        \* _instance: an object, or 0
  initState,       \* _initState: the thread and the object, or NoInit
  isInitializing,  \* the static of _CreateOrWaitForInstance
  made,            \* objects 1..made have been allocated
  alive,           \* those whose memory has not been freed
  ref,             \* ref[t]: the reference that t uses, or 0
  thrown           \* constructors that have thrown

singletonVars == <<instance, initState, isInitializing, made, alive, ref, thrown>>

NoInit == [thread |-> NoThread, object |-> 0]

SingletonInit ==
  /\ stack = [t \in Threads |-> <<>>]
  /\ instance = 0 /\ initState = NoInit /\ isInitializing = FALSE
  /\ made = 0 /\ alive = {} /\ thrown = 0
  /\ ref = [t \in Threads |-> 0]

-----------------------------------------------------------------------------
(* Stacks of calls. *)

Top(t) == Last(stack[t])
Calls(t) == Range(stack[t])
At(t, op, pc) == stack[t] # <<>> /\ Top(t).op = op /\ Top(t).pc = pc

Become(t, calls) == stack' = [stack EXCEPT ![t] = calls]
Enter(t, call) == Become(t, Append(stack[t], call))
Update(t, call) == Become(t, Append(Front(stack[t]), call))
Goto(t, pc) == Update(t, [Top(t) EXCEPT !.pc = pc])
GotoAndEnter(t, pc, call) ==
  Become(t, Append(Front(stack[t]), [Top(t) EXCEPT !.pc = pc]) \o <<call>>)
Leave(t) == Become(t, Front(stack[t]))

GetCall == [op |-> "Get", pc |-> "Load", object |-> 0]
ConstructorCall(o) == [op |-> "Constructor", pc |-> "Declare", object |-> o]
DeleteCall == [op |-> "Delete", pc |-> "Load", object |-> 0]

-----------------------------------------------------------------------------
(* GetInstance and _CreateOrWaitForInstance. *)

\* GetInstance returns a reference to o.
ReturnReference(t, o) ==
  /\ Leave(t)
  /\ ref' = [ref EXCEPT ![t] = o]

GetLoad(t) ==
  /\ At(t, "Get", "Load")
  /\ \/ /\ instance # 0
        /\ ReturnReference(t, instance)
     \/ /\ instance = 0
        /\ Goto(t, "Owner")
        /\ UNCHANGED ref
  /\ UNCHANGED <<instance, initState, isInitializing, made, alive, thrown>>

\* The thread inside the constructor gets the object under construction.
IsInitializer(t) == initState.thread = t

GetOwner(t) ==
  /\ At(t, "Get", "Owner")
  /\ \/ /\ IsInitializer(t)
        /\ ReturnReference(t, initState.object)
     \/ /\ ~IsInitializer(t)
        /\ Goto(t, "Exchange")
        /\ UNCHANGED ref
  /\ UNCHANGED <<instance, initState, isInitializing, made, alive, thrown>>

GetExchange(t) ==
  /\ At(t, "Get", "Exchange")
  /\ isInitializing' = TRUE
  /\ Goto(t, IF isInitializing THEN "Wait" ELSE "Check")
  /\ UNCHANGED <<instance, initState, made, alive, ref, thrown>>

MustCreate_Always == TRUE

\* Whoever waited for isInitializing may find that the instance is there.
MustCreate == instance = 0

GetCheck(t) ==
  /\ At(t, "Get", "Check")
  /\ \/ /\ MustCreate
        /\ made < MaxObjects
        /\ made' = made + 1
        /\ alive' = alive \cup {made'}
        /\ GotoAndEnter(t, "Publish", ConstructorCall(made'))
     \/ /\ ~MustCreate
        /\ Goto(t, "Clear")
        /\ UNCHANGED <<made, alive>>
  /\ UNCHANGED <<instance, initState, isInitializing, ref, thrown>>

\* The constructor is done: newInst is what SetInstanceConstructed was given.
GetPublish(t) ==
  /\ At(t, "Get", "Publish")
  /\ instance' = Top(t).object
  /\ Goto(t, "Clear")
  /\ UNCHANGED <<initState, isInitializing, made, alive, ref, thrown>>

GetClear(t) ==
  /\ At(t, "Get", "Clear")
  /\ isInitializing' = FALSE
  /\ Goto(t, "Reload")
  /\ UNCHANGED <<instance, initState, made, alive, ref, thrown>>

\* One iteration of the loop that yields: it ends when the instance is there.
GetWait(t) ==
  /\ At(t, "Get", "Wait")
  /\ instance # 0
  /\ Goto(t, "Reload")
  /\ UNCHANGED singletonVars

GetReload(t) ==
  /\ At(t, "Get", "Reload")
  /\ ReturnReference(t, instance)
  /\ UNCHANGED <<instance, initState, isInitializing, made, alive, thrown>>

-----------------------------------------------------------------------------
(* The constructor. *)

\* SetInstanceConstructed; MayDeclare is what it checks before TF_FATAL_ERROR.
MayDeclare == instance = 0 /\ initState = NoInit

Declare(t) ==
  /\ At(t, "Constructor", "Declare")
  /\ initState' = [thread |-> t, object |-> Top(t).object]
  /\ Goto(t, "Subscribe")
  /\ UNCHANGED <<instance, isInitializing, made, alive, ref, thrown>>

\* The constructor returns, and newInst gets the object.
ConstructorReturn(t) ==
  /\ At(t, "Constructor", "Return")
  /\ LET get == stack[t][Len(stack[t]) - 1]
     IN  Become(t, Append(Front(Front(stack[t])),
                          [get EXCEPT !.object = Top(t).object]))
  /\ UNCHANGED singletonVars

AfterThrow == NoInit

\* The constructor throws: operator new's memory is freed, the handler deletes
\* _initState, isInitializing stays set, and the exception leaves GetInstance
\* for the call below it, which must be one that catches.
Throw(t, handled) ==
  /\ thrown < MaxThrows
  /\ At(t, "Constructor", "Return")
  /\ thrown' = thrown + 1
  /\ alive' = alive \ {Top(t).object}
  /\ initState' = AfterThrow
  /\ Become(t, handled)
  /\ UNCHANGED <<instance, isInitializing, made, ref>>

-----------------------------------------------------------------------------
(* DeleteInstance.  The user has to see to it that nobody uses the         *)
(* instance meanwhile (singleton.h:179): a thread begins to delete only    *)
(* when NobodyUses, and begins nothing else unless NobodyDeletes.          *)

NobodyUses ==
  \A t \in Threads : ref[t] = 0 /\ \A call \in Calls(t) : call.op = "Delete"
NobodyDeletes ==
  \A t \in Threads : \A call \in Calls(t) : call.op # "Delete"

DeleteLoad(t) ==
  /\ At(t, "Delete", "Load")
  /\ \/ instance = 0 /\ Leave(t)
     \/ instance # 0 /\ Update(t, [Top(t) EXCEPT !.pc = "Swap", !.object = instance])
  /\ UNCHANGED singletonVars

TakesInstance(o) == instance = o

\* The compare_exchange_strong: the thread that swaps the instance out deletes.
DeleteSwap(t) ==
  /\ At(t, "Delete", "Swap")
  /\ \/ /\ TakesInstance(Top(t).object)
        /\ instance' = 0
        /\ Goto(t, "Destructor")
     \/ /\ ~TakesInstance(Top(t).object)
        /\ Leave(t)
        /\ UNCHANGED instance
  /\ UNCHANGED <<initState, isInitializing, made, alive, ref, thrown>>

\* The end of ~T, whose body takes the call from "Destructor" to "Destroy".
Destroy(t) ==
  /\ At(t, "Delete", "Destroy")
  /\ alive' = alive \ {Top(t).object}
  /\ Goto(t, "Reset")
  /\ UNCHANGED <<instance, initState, isInitializing, made, ref, thrown>>

AfterDelete == NoInit

DeleteReset(t) ==
  /\ At(t, "Delete", "Reset")
  /\ initState' = AfterDelete
  /\ Leave(t)
  /\ UNCHANGED <<instance, isInitializing, made, alive, ref, thrown>>

-----------------------------------------------------------------------------

SingletonStep(t) ==
  \/ GetLoad(t) \/ GetOwner(t) \/ GetExchange(t) \/ GetCheck(t)
  \/ GetPublish(t) \/ GetClear(t) \/ GetWait(t) \/ GetReload(t)
  \/ Declare(t) \/ ConstructorReturn(t)
  \/ DeleteLoad(t) \/ DeleteSwap(t) \/ Destroy(t) \/ DeleteReset(t)

-----------------------------------------------------------------------------
(* Properties. *)

\* Of the threads that call DeleteInstance at once one deletes, and what it
\* deletes exists ("will not result in double deletion", singleton.h:178).
DeletedOnce ==
  \A t \in Threads : At(t, "Delete", "Destroy") =>
    /\ Top(t).object \in alive
    /\ \A u \in Threads \ {t} :
         At(u, "Delete", "Destroy") => Top(u).object # Top(t).object

\* "Simultaneous attempts to create an object result in only one object being
\* created" (singleton.h:118): no thread constructs, publishes or deletes an
\* object while another object of T exists.
OneObject == Cardinality(alive) <= 1 /\ DeletedOnce

\* GetInstance never hands out an object that is freed, and only the thread
\* that runs the constructor gets it before it is complete; every other thread
\* gets the published instance (singleton.h:155).
ReferenceIsUsable ==
  \A t \in Threads : ref[t] # 0 =>
    /\ ref[t] \in alive
    /\ \/ ref[t] = instance
       \/ initState = [thread |-> t, object |-> ref[t]]

\* SetInstanceConstructed never finds an instance or an initialization that it
\* would call a fatal error, and a constructed object is published where there
\* is none: the error and the TF_AXIOMs of _CreateOrWaitForInstance never fire,
\* over constructors that call back, deletions and constructors that throw.
ConstructionsNeverCollide ==
  \A t \in Threads :
    /\ At(t, "Constructor", "Declare") => MayDeclare
    /\ At(t, "Get", "Publish") =>
         instance = 0 /\ initState = [thread |-> t, object |-> Top(t).object]

\* One object at a time, usable by whoever gets it (instantiateSingleton.h).
SingletonIsUsable == OneObject /\ ReferenceIsUsable /\ ConstructionsNeverCollide
=============================================================================
