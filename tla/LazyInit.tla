------------------------------ MODULE LazyInit ------------------------------
(***************************************************************************)
(* TfStaticData and TfStacked: objects made by whoever uses them first,    *)
(* without a lock.  A static datum is a pointer, null at first; here its   *)
(* object is a set that threads insert into.  A stacked class keeps a      *)
(* stack of its living objects for each thread, in a storage that is made  *)
(* in the same way, and on first use in a thread the stack is given what   *)
(* _InitializeStack pushes (which itself uses the stack).                  *)
(***************************************************************************)
EXTENDS Integers, Sequences, FiniteSets

CONSTANTS
  LazyUsers,     \* the threads
  MaxStacked,    \* bounds the objects a thread has alive
  Preloaded      \* how many objects _InitializeStack pushes

ASSUME LazyAssumption == Preloaded \in Nat

VARIABLES
  pointer,       \* pointer[w]: the object published for w, 0 if null
  contents,      \* contents[o]: what has been inserted into static datum o; grows as they are made
  stacks,        \* stacks[o][u]: the stack of u in the storage o
  alive,         \* alive[u]: the stacked objects of u that live, the oldest first; not in the code
  inserted,      \* what threads have inserted; not in the code
  lazyCall       \* lazyCall[u]: what u is doing

lazyVars == <<pointer, contents, stacks, alive, inserted, lazyCall>>

NotYet == [ready |-> FALSE, items |-> <<>>]
Resting == [at |-> "Rest"]

LazyInit ==
  /\ pointer = [w \in {"data", "stack"} |-> 0]
  /\ contents = <<>>
  /\ stacks = <<>>
  /\ alive = [u \in LazyUsers |-> <<>>]
  /\ inserted = {}
  /\ lazyCall = [u \in LazyUsers |-> Resting]

At(u, place) == lazyCall[u].at = place
Do(u, step) == lazyCall' = [lazyCall EXCEPT ![u] = step]

\* A plain store in its place.
Publish_Stores(w, o) == o

\* compare_exchange_strong from null: the loser deletes its object and uses the other.
Publish(w, o) == IF pointer[w] = 0 THEN o ELSE pointer[w]

-----------------------------------------------------------------------------
(* TfStaticData: load, create, publish or delete, and use. *)

DataLoad(u) ==
  /\ At(u, "Rest") /\ u \notin inserted
  /\ Do(u, [at |-> IF pointer["data"] = 0 THEN "DataNew" ELSE "DataUse", object |-> pointer["data"]])
  /\ UNCHANGED <<pointer, contents, stacks, alive, inserted>>

DataNew(u) ==
  /\ At(u, "DataNew")
  /\ contents' = Append(contents, {})
  /\ Do(u, [at |-> "DataPublish", object |-> Len(contents) + 1])
  /\ UNCHANGED <<pointer, stacks, alive, inserted>>

DataPublish(u) ==
  /\ At(u, "DataPublish")
  /\ pointer' = [pointer EXCEPT !["data"] = Publish("data", lazyCall[u].object)]
  /\ Do(u, [at |-> "DataUse", object |-> Publish("data", lazyCall[u].object)])
  /\ UNCHANGED <<contents, stacks, alive, inserted>>

DataUse(u) ==
  /\ At(u, "DataUse")
  /\ contents' = [contents EXCEPT ![lazyCall[u].object] = @ \cup {u}]
  /\ inserted' = inserted \cup {u}
  /\ Do(u, Resting)
  /\ UNCHANGED <<pointer, stacks, alive>>

-----------------------------------------------------------------------------
(* TfStacked: a constructor pushes, a destructor pops. *)

StackLoad(u, op) ==
  /\ At(u, "Rest")
  /\ op = "Push" => Len(alive[u]) < MaxStacked
  /\ op = "Pop" => alive[u] # <<>>
  /\ Do(u, [at |-> IF pointer["stack"] = 0 THEN "StackNew" ELSE op, op |-> op])
  /\ UNCHANGED <<pointer, contents, stacks, alive, inserted>>

StackNew(u) ==
  /\ At(u, "StackNew")
  /\ stacks' = Append(stacks, [v \in LazyUsers |-> NotYet])
  /\ Do(u, [at |-> "StackPublish", op |-> lazyCall[u].op, object |-> Len(stacks) + 1])
  /\ UNCHANGED <<pointer, contents, alive, inserted>>

StackPublish(u) ==
  /\ At(u, "StackPublish")
  /\ pointer' = [pointer EXCEPT !["stack"] = Publish("stack", lazyCall[u].object)]
  /\ Do(u, [at |-> lazyCall[u].op, op |-> lazyCall[u].op])
  /\ UNCHANGED <<contents, stacks, alive, inserted>>

\* The storage is loaded again.  _StackHolder::Get marks the stack as initialised
\* before it initialises it: _InitializeStack comes back here.
Own(u) == stacks[pointer["stack"]][u]
Filled(u) == IF Own(u).ready THEN Own(u).items ELSE [n \in 1..Preloaded |-> 0]
SetOwn(u, items) == stacks' = [stacks EXCEPT ![pointer["stack"]][u] =
                                 [ready |-> TRUE, items |-> items]]

Push(u) ==
  /\ At(u, "Push")
  /\ SetOwn(u, Append(Filled(u), Len(alive[u]) + 1))
  /\ alive' = [alive EXCEPT ![u] = Append(@, Len(@) + 1)]
  /\ Do(u, Resting)
  /\ UNCHANGED <<pointer, contents, inserted>>

\* Objects die in the reverse order of their creation; a top that is another object
\* is a fatal error.
Pop(u) ==
  LET items == Filled(u)
      last == alive[u][Len(alive[u])]
  IN /\ At(u, "Pop")
     /\ IF items # <<>> /\ items[Len(items)] = last
        THEN /\ SetOwn(u, SubSeq(items, 1, Len(items) - 1))
             /\ alive' = [alive EXCEPT ![u] = SubSeq(@, 1, Len(@) - 1)]
             /\ Do(u, Resting)
        ELSE /\ Do(u, [at |-> "Fatal"])
             /\ UNCHANGED <<stacks, alive>>
     /\ UNCHANGED <<pointer, contents, inserted>>

LazyStep(u) ==
  \/ DataLoad(u) \/ DataNew(u) \/ DataPublish(u) \/ DataUse(u)
  \/ \E op \in {"Push", "Pop"} : StackLoad(u, op)
  \/ StackNew(u) \/ StackPublish(u) \/ Push(u) \/ Pop(u)

LazyNext == \E u \in LazyUsers : LazyStep(u)

LazySpec == LazyInit /\ [][LazyNext]_lazyVars

-----------------------------------------------------------------------------
(* Properties. *)

\* However many threads find the pointer null at once: what any of them has put into
\* a static datum is in the one object all others will see, each thread's stack holds
\* exactly its living objects in their order on top of what the stack was given at
\* first, and no destructor finds another object on top.
NothingIsLost ==
  /\ inserted # {} => inserted \subseteq contents[pointer["data"]]
  /\ \A u \in LazyUsers :
       /\ ~At(u, "Fatal")
       /\ alive[u] # <<>> => Own(u).items = [n \in 1..Preloaded |-> 0] \o alive[u]
=============================================================================
