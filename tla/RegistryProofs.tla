---------------------------- MODULE RegistryProofs ----------------------------
(***************************************************************************)
(* Proofs about Tf_RegistryManagerImpl and the TfSingleton that holds it,  *)
(* for any threads, types, libraries and registry functions.               *)
(*                                                                         *)
(* The singleton comes first: there is one object at a time, and whoever   *)
(* gets it can use it, though its constructor runs registry functions that *)
(* ask for the instance again, load libraries or end with an exception.    *)
(* The thread that has won isInitializing is the only one to construct or  *)
(* publish: one frame of one stack of calls owns the initialization, until *)
(* it is over.  What _instance, _initState and the memory are follows from *)
(* where that frame is, or the one that deletes, or from there being none. *)
(* The frames of the registry manager are part of that invariant only in   *)
(* what they call and in their types (Shaped, RTypes): whatever its        *)
(* functions do, they own no initialization.                               *)
(*                                                                         *)
(* The registry manager's proofs go on from there.                         *)
(*                                                                         *)
(* A list that somebody subscribes to is not forgotten: as long as it has  *)
(* functions, a call on some stack loops over them, or over the            *)
(* subscriptions and has not reached that one.  Such a call returns only   *)
(* when it finds nothing, and whoever fills the lists makes one.           *)
(*                                                                         *)
(* What a function adds for unload is filed under its own library: the     *)
(* loops above it on its stack put back the list that was in use (UInv).   *)
(*                                                                         *)
(* A function waits in one place, from when its library adds it until it   *)
(* is called, and its library stays while it waits or runs, provided that  *)
(* nobody unloads code in use (RInv).                                      *)
(***************************************************************************)
EXTENDS RegistryManager, Lemmas

SingletonOps == {"Get", "Constructor", "Delete"}

\* A call that may ask for the instance.
Hosts(call) == call.op = "Function" \/ (call.op = "Load" /\ call.pc = "Close")

\* What this call may have called, or call.
MayMake(call, c) ==
  /\ c.op = "Get" => Hosts(call)
  /\ c.op = "AddForUnload" => call.op = "Function"

\* Calls that somebody else has to make.
Inner == {"Constructor", "AddForUnload"}

LibOrNone == Libs \cup {NoLib}

\* What a call may be, whoever makes it.
Shaped(call) ==
  /\ call.op \in Ops
  /\ call.op \in SingletonOps =>
       call = [op |-> call.op, pc |-> call.pc, object |-> call.object]
  /\ call.op = "Get" =>
       call.pc \in {"Load", "Owner", "Exchange", "Check", "Publish", "Clear", "Wait", "Reload"}
  /\ call.op = "Constructor" => call.pc \in {"Declare", "Subscribe", "Return"}
  /\ call.op = "Delete" => call.pc \in {"Load", "Swap", "Destructor", "Destroy", "Reset"}
  /\ call.op = "Function" =>
       /\ call = [op |-> "Function", pc |-> "Body", fn |-> call.fn, done |-> call.done]
       /\ call.fn \in Fns /\ call.done \in Nat
  /\ call.op = "AddForUnload" => call = AddForUnloadCall
  /\ call.op = "Subscribe" =>
       /\ call = [op |-> "Subscribe", pc |-> call.pc, type |-> call.type]
       /\ call.type \in Types
  /\ call.op = "Update" => call = UpdateCall(call.type) /\ call.type \in Types
  /\ call.op = "Run" =>
       /\ call = [op |-> "Run", pc |-> call.pc, type |-> call.type, toRun |-> call.toRun,
                  saved |-> call.saved]
       /\ call.type \in Types /\ call.toRun \in Seq(Fns) /\ call.saved \in LibOrNone
  /\ call.op = "Load" =>
       /\ call = [op |-> "Load", pc |-> call.pc, lib |-> call.lib, added |-> call.added]
       /\ call.lib \in Libs /\ call.added \in 0 .. Len(Adds[call.lib])

\* A GetInstance that calls the constructor waits for it, and the constructor for
\* its subscription; and a call that deletes makes no other.
StackOK(s) ==
  /\ IsList(s)
  /\ \A i \in DOMAIN s :
       /\ Shaped(s[i])
       /\ s[i].op = "Delete" => Len(s) = 1
       /\ i = 1 => s[i].op \notin Inner
  /\ \A i \in 1 .. Len(s) - 1 :
       /\ s[i + 1].op = "Constructor" <=> s[i].op = "Get"
       /\ s[i].op = "Get" => s[i].pc = "Publish"
       /\ s[i].op = "Constructor" => s[i].pc = "Return"
       /\ MayMake(s[i], s[i + 1])

\* The initialization is under way in this call.
OwnerCall(call) == call.op = "Get" /\ call.pc \in {"Check", "Publish", "Clear"}
DeleterCall(call) == call.op = "Delete" /\ call.pc \in {"Destructor", "Destroy", "Reset"}

StacksOK ==
  /\ DOMAIN stack = Threads
  /\ \A t \in Threads : StackOK(stack[t])

OneOwner ==
  /\ \A t, u \in Threads : \A i \in DOMAIN stack[t], j \in DOMAIN stack[u] :
       OwnerCall(stack[t][i]) /\ OwnerCall(stack[u][j]) => t = u /\ i = j
  /\ \A t \in Threads : \A i \in DOMAIN stack[t] : OwnerCall(stack[t][i]) => isInitializing = TRUE

\* While an instance is deleted, nobody does anything else.
OneDeleter ==
  /\ \A t \in Threads : \A i \in DOMAIN stack[t] : stack[t][i].op = "Delete" =>
       \A u \in Threads : ref[u] = 0 /\ \A j \in DOMAIN stack[u] : stack[u][j].op = "Delete"
  /\ \A t, u \in Threads : \A i \in DOMAIN stack[t], j \in DOMAIN stack[u] :
       DeleterCall(stack[t][i]) /\ DeleterCall(stack[u][j]) => t = u
  /\ \A t \in Threads : \A i \in DOMAIN stack[t] :
       stack[t][i].op = "Delete" /\ stack[t][i].pc = "Swap" => stack[t][i].object # 0

\* The object that this call constructs, or has constructed.
Builds(t, i) ==
  \/ stack[t][i].op = "Constructor"
  \/ stack[t][i].op = "Get" /\ stack[t][i].pc = "Publish" /\ i = Len(stack[t])

BuildersOK ==
  \A t \in Threads : \A i \in DOMAIN stack[t] : Builds(t, i) =>
    /\ instance = 0 /\ stack[t][i].object # 0
    /\ alive = {stack[t][i].object}
    /\ initState = IF stack[t][i].pc = "Declare" THEN NoInit
                   ELSE [thread |-> t, object |-> stack[t][i].object]

DeletersOK ==
  \A t \in Threads : \A i \in DOMAIN stack[t] : DeleterCall(stack[t][i]) =>
    /\ instance = 0
    /\ alive = IF stack[t][i].pc = "Reset" THEN {} ELSE {stack[t][i].object}

\* Otherwise there is an instance, or nothing at all.
Published == instance # 0 => alive = {instance} /\ initState.object = instance

Vacant ==
  \/ instance # 0
  \/ \E t \in Threads : \E i \in DOMAIN stack[t] :
       DeleterCall(stack[t][i]) \/ (stack[t][i].op = "Get" /\ stack[t][i].pc = "Publish")
  \/ alive = {} /\ initState = NoInit

\* A thread has a reference only between two calls of whoever asked for it.
RefOK(t) ==
  ref[t] # 0 =>
    /\ ref[t] \in alive
    /\ ref[t] = instance \/ initState = [thread |-> t, object |-> ref[t]]
    /\ stack[t] = <<>> \/ Hosts(stack[t][Len(stack[t])])

RefsOK == DOMAIN ref = Threads /\ \A t \in Threads : RefOK(t)

SInv ==
  /\ StacksOK /\ OneOwner /\ OneDeleter /\ BuildersOK /\ DeletersOK /\ Published /\ Vacant
  /\ RefsOK
  /\ made \in 0 .. MaxObjects /\ alive \subseteq 1 .. made
  /\ initState \in [thread : Threads \cup {NoThread}, object : 0 .. made]

\* The registry.  A subscriber that is updated has not unsubscribed.
Listed(ty, list) == \E i \in DOMAIN list : list[i] = ty

UpdatesListed ==
  \A t \in Threads : \A i \in DOMAIN stack[t] :
    stack[t][i].op = "Update" => Listed(stack[t][i].type, ordered)

VarTypes ==
  /\ mutex \in Threads \cup {NoThread}
  /\ ordered \in Seq(Types) /\ \A i, j \in DOMAIN ordered : ordered[i] = ordered[j] => i = j
  /\ fns \in [Types -> Seq(Fns)] /\ unloads \in [Libs -> Seq(Fns)]
  /\ cur \in [Threads -> LibOrNone]
  /\ active \in [Threads -> [lib : LibOrNone, fns : Seq(Fns)]]

RTypes == VarTypes /\ UpdatesListed

-----------------------------------------------------------------------------
(* Stacks of calls. *)

\* A stack without its last frame,
LEMMA Popped ==
  ASSUME NEW s, IsList(s), s # <<>>
  PROVE  /\ IsList(Front(s)) /\ Len(s) \in Nat /\ Len(s) >= 1 /\ Len(Front(s)) = Len(s) - 1
         /\ DOMAIN s = 1 .. Len(s) /\ DOMAIN Front(s) = 1 .. Len(s) - 1
         /\ \A i \in 1 .. Len(s) - 1 : Front(s)[i] = s[i]
<1>1. PICK S : s \in Seq(S)
  BY DEF IsList
<1>2. Len(s) \in Nat /\ Len(s) >= 1 /\ DOMAIN s = 1 .. Len(s)
  BY <1>1
<1>3. Len(s) - 1 \in 0 .. Len(s)
  BY <1>2
<1> QED
  BY <1>2, <1>3, Shortened DEF Front

\* with a new one,
LEMMA Pushed ==
  ASSUME NEW s, IsList(s), NEW c
  PROVE  /\ IsList(Append(s, c)) /\ Len(s) \in Nat /\ Len(Append(s, c)) = Len(s) + 1
         /\ DOMAIN s = 1 .. Len(s) /\ DOMAIN Append(s, c) = 1 .. Len(s) + 1
         /\ \A i \in 1 .. Len(s) : Append(s, c)[i] = s[i]
         /\ Append(s, c)[Len(s) + 1] = c
         /\ s \o <<c>> = Append(s, c)
<1>1. PICK S : s \in Seq(S)
  BY DEF IsList
<1>2. s \in Seq(S \cup {c}) /\ c \in S \cup {c}
  BY <1>1
<1> HIDE DEF IsList
<1>3. Append(s, c) \in Seq(S \cup {c}) /\ Len(s) \in Nat
  BY <1>2
<1>4. IsList(Append(s, c))
  BY <1>3 DEF IsList
<1>5. /\ Len(Append(s, c)) = Len(s) + 1
      /\ DOMAIN s = 1 .. Len(s) /\ DOMAIN Append(s, c) = 1 .. Len(s) + 1
      /\ \A i \in 1 .. Len(s) : Append(s, c)[i] = s[i]
      /\ Append(s, c)[Len(s) + 1] = c
  BY <1>2, <1>3
<1>6. s \o <<c>> = Append(s, c)
  BY <1>2
<1> QED
  BY <1>4, <1>5, <1>6, <1>3

\* and with the last one changed.
LEMMA Replaced ==
  ASSUME NEW s, IsList(s), s # <<>>, NEW c
  PROVE  /\ IsList(Append(Front(s), c)) /\ Len(s) \in Nat /\ Len(s) >= 1
         /\ Len(Append(Front(s), c)) = Len(s)
         /\ DOMAIN s = 1 .. Len(s) /\ DOMAIN Append(Front(s), c) = 1 .. Len(s)
         /\ \A i \in 1 .. Len(s) - 1 : Append(Front(s), c)[i] = s[i]
         /\ Append(Front(s), c)[Len(s)] = c
<1>1. /\ IsList(Front(s)) /\ Len(s) \in Nat /\ Len(s) >= 1 /\ Len(Front(s)) = Len(s) - 1
      /\ DOMAIN s = 1 .. Len(s)
      /\ \A i \in 1 .. Len(s) - 1 : Front(s)[i] = s[i]
  BY Popped
<1> QED
  BY <1>1, Pushed

\* The innermost call returns.
LEMMA PopOK ==
  ASSUME NEW s, StackOK(s), s # <<>>
  PROVE  StackOK(Front(s))
<1> DEFINE r == Front(s)
<1>1. IsList(s)
  BY DEF StackOK
<1>2. /\ IsList(r) /\ Len(s) \in Nat /\ Len(s) >= 1 /\ Len(r) = Len(s) - 1
      /\ DOMAIN s = 1 .. Len(s) /\ DOMAIN r = 1 .. Len(s) - 1
      /\ \A i \in 1 .. Len(s) - 1 : r[i] = s[i]
  BY <1>1, Popped
<1> HIDE DEF r
<1>3. ASSUME NEW i \in DOMAIN r
      PROVE  /\ Shaped(r[i])
             /\ r[i].op = "Delete" => Len(r) = 1
             /\ i = 1 => r[i].op \notin Inner
  BY <1>2 DEF StackOK
<1>4. ASSUME NEW i \in 1 .. Len(r) - 1
      PROVE  /\ r[i + 1].op = "Constructor" <=> r[i].op = "Get"
             /\ r[i].op = "Get" => r[i].pc = "Publish"
             /\ r[i].op = "Constructor" => r[i].pc = "Return"
             /\ MayMake(r[i], r[i + 1])
  <2>1. /\ i \in 1 .. Len(s) - 1 /\ i + 1 \in 1 .. Len(s) - 1
        /\ r[i] = s[i] /\ r[i + 1] = s[i + 1]
    BY <1>2
  <2> QED
    BY <2>1 DEF StackOK
<1>5. StackOK(r)
  BY <1>2, <1>3, <1>4 DEF StackOK
<1> QED
  BY <1>5 DEF r

\* It goes on.
LEMMA ReplaceOK ==
  ASSUME NEW s, StackOK(s), s # <<>>, NEW c, Shaped(c), c.op = s[Len(s)].op
  PROVE  StackOK(Append(Front(s), c))
<1>1. IsList(s)
  BY DEF StackOK
<1> DEFINE r == Append(Front(s), c)
<1>2. /\ IsList(r) /\ Len(s) \in Nat /\ Len(s) >= 1 /\ Len(r) = Len(s)
      /\ DOMAIN s = 1 .. Len(s) /\ DOMAIN r = 1 .. Len(s)
      /\ \A i \in 1 .. Len(s) - 1 : r[i] = s[i]
      /\ r[Len(s)] = c
  BY <1>1, Replaced
<1> HIDE DEF r
<1>3. \A i \in DOMAIN r : r[i].op = s[i].op
  BY <1>2
<1>4. \A i \in DOMAIN r :
        /\ Shaped(r[i])
        /\ r[i].op = "Delete" => Len(r) = 1
        /\ i = 1 => r[i].op \notin Inner
  BY <1>2, <1>3 DEF StackOK
<1>5. \A i \in 1 .. Len(r) - 1 : r[i] = s[i] /\ r[i + 1].op = s[i + 1].op
  BY <1>2, <1>3
<1> HIDE DEF r
<1>6. \A i \in 1 .. Len(s) - 1 : MayMake(s[i], s[i + 1]) => MayMake(r[i], r[i + 1])
  BY <1>2, <1>5 DEF MayMake
<1>7. \A i \in 1 .. Len(r) - 1 :
        /\ r[i + 1].op = "Constructor" <=> r[i].op = "Get"
        /\ r[i].op = "Get" => r[i].pc = "Publish"
        /\ r[i].op = "Constructor" => r[i].pc = "Return"
        /\ MayMake(r[i], r[i + 1])
  BY <1>2, <1>5, <1>6 DEF StackOK
<1>8. StackOK(r)
  BY <1>2, <1>4, <1>7 DEF StackOK
<1> QED
  BY <1>8 DEF r

\* It makes another call.
LEMMA PushOK ==
  ASSUME NEW s, StackOK(s), NEW c, Shaped(c),
         s = <<>> => c.op \notin Inner,
         s # <<>> =>
           LET top == s[Len(s)] IN
           /\ c.op # "Delete" /\ top.op # "Delete"
           /\ c.op = "Constructor" <=> top.op = "Get"
           /\ top.op = "Get" => top.pc = "Publish"
           /\ top.op = "Constructor" => top.pc = "Return"
           /\ MayMake(top, c)
  PROVE  StackOK(Append(s, c))
<1>1. IsList(s)
  BY DEF StackOK
<1> DEFINE r == Append(s, c)
<1>2. /\ IsList(r) /\ Len(s) \in Nat /\ Len(r) = Len(s) + 1
      /\ DOMAIN s = 1 .. Len(s) /\ DOMAIN r = 1 .. Len(s) + 1
      /\ \A i \in 1 .. Len(s) : r[i] = s[i]
      /\ r[Len(s) + 1] = c
  BY <1>1, Pushed
<1>3. s = <<>> <=> Len(s) = 0
  BY <1>1 DEF IsList
<1> HIDE DEF r
<1>4. \A i \in DOMAIN r :
        /\ Shaped(r[i])
        /\ r[i].op = "Delete" => Len(r) = 1
        /\ i = 1 => r[i].op \notin Inner
  <2>1. CASE s = <<>>
    BY <1>2, <1>3, <2>1
  <2>2. CASE s # <<>>
    <3>1. \A i \in 1 .. Len(s) : s[i].op # "Delete"
      BY <1>2, <1>3, <2>2 DEF StackOK
    <3> QED
      BY <1>2, <1>3, <2>2, <3>1 DEF StackOK
  <2> QED
    BY <2>1, <2>2
<1>5. ASSUME NEW i \in 1 .. Len(r) - 1
      PROVE  /\ r[i + 1].op = "Constructor" <=> r[i].op = "Get"
             /\ r[i].op = "Get" => r[i].pc = "Publish"
             /\ r[i].op = "Constructor" => r[i].pc = "Return"
             /\ MayMake(r[i], r[i + 1])
  <2>1. CASE i = Len(s)
    BY <1>2, <1>3, <2>1
  <2>2. CASE i # Len(s)
    <3> DEFINE n == Len(s)
    <3>0. n \in Nat /\ Len(r) = n + 1
      BY <1>2
    <3>a. n \in Nat /\ i \in 1 .. n + 1 - 1 /\ i # n
      BY <3>0, <2>2
    <3> HIDE DEF n
    <3>b. i \in 1 .. n - 1 /\ i \in 1 .. n /\ i + 1 \in 1 .. n
      BY <3>a
    <3>1. i \in 1 .. Len(s) - 1 /\ i \in 1 .. Len(s) /\ i + 1 \in 1 .. Len(s)
      BY <3>b DEF n
    <3>2. r[i] = s[i] /\ r[i + 1] = s[i + 1]
      BY <1>2, <3>1
    <3> QED
      BY <3>1, <3>2 DEF StackOK
  <2> QED
    BY <2>1, <2>2
<1>6. StackOK(r)
  <2>1. \A i \in 1 .. Len(r) - 1 :
          /\ r[i + 1].op = "Constructor" <=> r[i].op = "Get"
          /\ r[i].op = "Get" => r[i].pc = "Publish"
          /\ r[i].op = "Constructor" => r[i].pc = "Return"
          /\ MayMake(r[i], r[i + 1])
    BY <1>5
  <2>2. IsList(r)
    BY <1>2
  <2> QED
    BY <2>1, <2>2, <1>4 DEF StackOK
<1> QED
  BY <1>6 DEF r

-----------------------------------------------------------------------------
(* Steps that leave the initialization and the deletion where they are. *)

\* A call that takes no part in either.
Idle(call) == ~OwnerCall(call) /\ ~DeleterCall(call) /\ call.op # "Constructor"

\* The same constructor, that has declared its object.
Alike(c, d) ==
  \/ c = d
  \/ /\ c.op = "Constructor" /\ d.op = "Constructor" /\ c.object = d.object
     /\ c.pc # "Declare" /\ d.pc # "Declare"

\* The stack s becomes r, and the calls that take part stay.
Roles(s, r) ==
  /\ StackOK(r)
  /\ \A i \in DOMAIN r : Idle(r[i]) \/ (i \in DOMAIN s /\ Alike(s[i], r[i]))
  /\ \A i \in DOMAIN s : Idle(s[i]) \/ (i \in DOMAIN r /\ Alike(s[i], r[i]))
  /\ \A i \in DOMAIN r :
       i = Len(r) /\ r[i].op = "Get" /\ r[i].pc = "Publish" => Len(s) = Len(r)

KeepsRoles(t) ==
  /\ DOMAIN stack' = Threads
  /\ \A u \in Threads \ {t} : stack'[u] = stack[u]
  /\ Roles(stack[t], stack'[t])

\* A step that changes no owner, no deleter and nothing they speak of is sound.
LEMMA RolesKept ==
  ASSUME SInv, NEW t \in Threads, KeepsRoles(t),
         UNCHANGED <<instance, initState, made, alive>>,
         isInitializing' \in {isInitializing, TRUE},
         DOMAIN ref' = Threads, \A u \in Threads \ {t} : ref'[u] = ref[u],
         RefOK(t)', OneDeleter'
  PROVE  SInv'
<1> USE DEF SInv
<1>1. StacksOK'
  BY DEF StacksOK, KeepsRoles, Roles
<1>2. \A u \in Threads : \A i \in DOMAIN stack'[u] :
        Idle(stack'[u][i]) \/ (i \in DOMAIN stack[u] /\ Alike(stack[u][i], stack'[u][i]))
  BY DEF KeepsRoles, Roles, Alike
<1>3. \A u \in Threads : \A i \in DOMAIN stack[u] :
        Idle(stack[u][i]) \/ (i \in DOMAIN stack'[u] /\ Alike(stack[u][i], stack'[u][i]))
  BY DEF KeepsRoles, Roles, Alike
<1>4. \A u \in Threads : \A i \in DOMAIN stack'[u] : OwnerCall(stack'[u][i]) =>
        i \in DOMAIN stack[u] /\ OwnerCall(stack[u][i])
  BY <1>2 DEF Idle, Alike, OwnerCall
<1>5. OneOwner'
  <2>1. \A u, v \in Threads : \A i \in DOMAIN stack'[u], j \in DOMAIN stack'[v] :
          OwnerCall(stack'[u][i]) /\ OwnerCall(stack'[v][j]) => u = v /\ i = j
    BY <1>4 DEF OneOwner
  <2>2. ASSUME NEW u \in Threads, NEW i \in DOMAIN stack'[u], OwnerCall(stack'[u][i])
        PROVE  isInitializing' = TRUE
    <3>1. isInitializing = TRUE
      BY <1>4, <2>2 DEF OneOwner
    <3> QED
      BY <3>1
  <2> QED
    BY <2>1, <2>2 DEF OneOwner, OwnerCall
<1>6. \A u \in Threads : \A i \in DOMAIN stack'[u] : Builds(u, i)' =>
        /\ i \in DOMAIN stack[u] /\ Builds(u, i)
        /\ stack[u][i].object = stack'[u][i].object
        /\ stack[u][i].pc = "Declare" <=> stack'[u][i].pc = "Declare"
  BY <1>2 DEF Idle, Alike, OwnerCall, Builds, KeepsRoles, Roles
<1>7. BuildersOK'
  BY <1>6 DEF BuildersOK
<1>8. DeletersOK'
  BY <1>2 DEF DeletersOK, Idle, Alike, DeleterCall
<1>9. Published'
  BY DEF Published
<1>10. Vacant'
  BY <1>3 DEF Vacant, Idle, Alike, OwnerCall, DeleterCall
<1>11. RefsOK'
  <2>1. \A u \in Threads \ {t} : RefOK(u)'
    BY DEF RefsOK, RefOK, KeepsRoles
  <2> QED
    BY <2>1 DEF RefsOK
<1> QED
  BY <1>1, <1>5, <1>7, <1>8, <1>9, <1>10, <1>11

\* No call of anybody deletes.
NoDeletes == \A u \in Threads : \A i \in DOMAIN stack[u] : stack[u][i].op # "Delete"

\* In particular one among calls that do not delete.
LEMMA CallsKept ==
  ASSUME SInv, NEW t \in Threads, KeepsRoles(t), NoDeletes,
         UNCHANGED <<instance, initState, made, alive>>,
         isInitializing' \in {isInitializing, TRUE},
         DOMAIN ref' = Threads, \A u \in Threads \ {t} : ref'[u] = ref[u],
         RefOK(t)',
         \A i \in DOMAIN stack'[t] : stack'[t][i].op # "Delete"
  PROVE  SInv'
<1>1. NoDeletes'
  BY DEF NoDeletes, KeepsRoles
<1>2. OneDeleter'
  BY <1>1 DEF NoDeletes, OneDeleter, DeleterCall
<1> QED
  BY <1>2, RolesKept

\* Changes of a stack that keep roles can be done one after the other.
LEMMA RolesCompose ==
  ASSUME NEW s, NEW r, NEW q, Roles(s, r), Roles(r, q), StackOK(s)
  PROVE  Roles(s, q)
<1>1. StackOK(q)
  BY DEF Roles
<1>2. \A i \in DOMAIN q : Idle(q[i]) \/ (i \in DOMAIN s /\ Alike(s[i], q[i]))
  BY DEF Roles, Alike, Idle
<1>3. \A i \in DOMAIN s : Idle(s[i]) \/ (i \in DOMAIN q /\ Alike(s[i], q[i]))
  BY DEF Roles, Alike, Idle
<1>4. ASSUME NEW i \in DOMAIN q, i = Len(q), q[i].op = "Get", q[i].pc = "Publish"
      PROVE  Len(s) = Len(q)
  <2>1. Len(r) = Len(q) /\ ~Idle(q[i])
    BY <1>4 DEF Roles, Idle, OwnerCall
  <2>2. i \in DOMAIN r /\ r[i] = q[i]
    BY <2>1, <1>4 DEF Roles, Alike
  <2> QED
    BY <2>1, <2>2, <1>4 DEF Roles
<1> QED
  BY <1>1, <1>2, <1>3, <1>4 DEF Roles

\* A frame without a role may return,
LEMMA RolesReturn ==
  ASSUME NEW s, StackOK(s), s # <<>>, Idle(s[Len(s)])
  PROVE  Roles(s, Front(s))
<1> DEFINE r == Front(s)
<1>1. IsList(s)
  BY DEF StackOK
<1>2. /\ Len(s) \in Nat /\ Len(s) >= 1 /\ Len(r) = Len(s) - 1
      /\ DOMAIN s = 1 .. Len(s) /\ DOMAIN r = 1 .. Len(s) - 1
      /\ \A i \in 1 .. Len(s) - 1 : r[i] = s[i]
  BY <1>1, Popped
<1>3. StackOK(r)
  BY PopOK
<1> HIDE DEF r
<1>4. \A i \in DOMAIN r : i \in DOMAIN s /\ r[i] = s[i]
  BY <1>2
<1>5. ASSUME NEW i \in DOMAIN s PROVE Idle(s[i]) \/ (i \in DOMAIN r /\ s[i] = r[i])
  BY <1>2
<1>6. ASSUME NEW i \in DOMAIN r, i = Len(r), r[i].op = "Get"
      PROVE  FALSE
  <2>1. i \in 1 .. Len(s) - 1 /\ i + 1 = Len(s) /\ s[i].op = "Get"
    BY <1>2, <1>6
  <2>2. s[Len(s)].op = "Constructor"
    BY <2>1 DEF StackOK
  <2> QED
    BY <2>2 DEF Idle
<1>7. Roles(s, r)
  BY <1>3, <1>4, <1>5, <1>6 DEF Roles, Alike
<1> QED
  BY <1>7 DEF r

\* go on,
LEMMA RolesGoOn ==
  ASSUME NEW s, StackOK(s), s # <<>>, NEW c, Shaped(c), c.op = s[Len(s)].op,
         (Idle(s[Len(s)]) /\ Idle(c)) \/ Alike(s[Len(s)], c)
  PROVE  Roles(s, Append(Front(s), c))
<1> DEFINE r == Append(Front(s), c)
<1>1. IsList(s)
  BY DEF StackOK
<1>2. /\ Len(s) \in Nat /\ Len(s) >= 1 /\ Len(r) = Len(s)
      /\ DOMAIN s = 1 .. Len(s) /\ DOMAIN r = 1 .. Len(s)
      /\ \A i \in 1 .. Len(s) - 1 : r[i] = s[i]
      /\ r[Len(s)] = c
  BY <1>1, Replaced
<1>3. StackOK(r)
  BY ReplaceOK
<1> HIDE DEF r
<1>4. \A i \in DOMAIN r : i = Len(s) \/ r[i] = s[i]
  BY <1>2
<1>5. \A i \in DOMAIN r : (Idle(s[i]) /\ Idle(r[i])) \/ Alike(s[i], r[i])
  BY <1>2, <1>4 DEF Alike
<1>6. Roles(s, r)
  BY <1>2, <1>3, <1>5 DEF Roles
<1> QED
  BY <1>6 DEF r

\* What a call may be that top calls, other than the constructor's.
MayCall(top, c) ==
  /\ Shaped(c) /\ c.op \notin {"Constructor", "Delete"}
  /\ top.op \notin {"Get", "Delete"}
  /\ top.op = "Constructor" => top.pc = "Return"
  /\ MayMake(top, c)

\* or call, and the roles of the stack stay.
LEMMA RolesCall ==
  ASSUME NEW s, StackOK(s), NEW c, Shaped(c), Idle(c),
         IF s = <<>> THEN c.op \notin Inner ELSE MayCall(s[Len(s)], c)
  PROVE  Roles(s, Append(s, c))
<1> DEFINE r == Append(s, c)
<1>1. IsList(s)
  BY DEF StackOK
<1>2. /\ Len(s) \in Nat /\ Len(r) = Len(s) + 1
      /\ DOMAIN s = 1 .. Len(s) /\ DOMAIN r = 1 .. Len(s) + 1
      /\ \A i \in 1 .. Len(s) : r[i] = s[i]
      /\ r[Len(s) + 1] = c
  BY <1>1, Pushed
<1>3. StackOK(r)
  BY PushOK DEF MayCall, Idle
<1> HIDE DEF r
<1>4. \A i \in DOMAIN s : i \in DOMAIN r /\ r[i] = s[i]
  BY <1>2
<1>5. \A i \in DOMAIN r : Idle(r[i]) \/ (i \in DOMAIN s /\ r[i] = s[i])
  BY <1>2
<1>6. ASSUME NEW i \in DOMAIN r, i = Len(r), r[i].op = "Get", r[i].pc = "Publish"
      PROVE  FALSE
  BY <1>2, <1>6 DEF Idle, OwnerCall
<1>7. Roles(s, r)
  BY <1>3, <1>4, <1>5, <1>6 DEF Roles, Alike
<1> QED
  BY <1>7 DEF r

-----------------------------------------------------------------------------
(* Steps of calls that are none of T's. *)

Plain(call) == Shaped(call) /\ call.op \notin SingletonOps

DeletesNot(s) == \A i \in DOMAIN s : s[i].op # "Delete"

\* A step may make r of the stack s.
Moves(s, r) == StackOK(s) /\ Roles(s, r) /\ (DeletesNot(s) => DeletesNot(r))

\* The same for changes among the calls of the registry manager:
LEMMA MovesCompose ==
  ASSUME NEW s, NEW r, NEW q, Moves(s, r), Moves(r, q)
  PROVE  Moves(s, q)
  BY RolesCompose DEF Moves

\* a return,
LEMMA PlainReturns ==
  ASSUME NEW s, StackOK(s), s # <<>>, Plain(s[Len(s)])
  PROVE  Moves(s, Front(s))
<1>1. Roles(s, Front(s))
  BY RolesReturn DEF Plain, SingletonOps, Idle, OwnerCall, DeleterCall
<1>2. IsList(s)
  BY DEF StackOK
<1>3. \A i \in DOMAIN Front(s) : i \in DOMAIN s /\ Front(s)[i] = s[i]
  <2>1. /\ Len(s) \in Nat /\ Len(s) >= 1
        /\ DOMAIN s = 1 .. Len(s) /\ DOMAIN Front(s) = 1 .. Len(s) - 1
        /\ \A i \in 1 .. Len(s) - 1 : Front(s)[i] = s[i]
    BY <1>2, Popped
  <2> QED
    BY <2>1
<1> QED
  BY <1>1, <1>3 DEF Moves, DeletesNot

\* a step of the last call,
LEMMA PlainGoesOn ==
  ASSUME NEW s, StackOK(s), s # <<>>, Plain(s[Len(s)]), NEW c, Plain(c), c.op = s[Len(s)].op
  PROVE  /\ Moves(s, Append(Front(s), c))
         /\ Append(Front(s), c) # <<>>
         /\ Append(Front(s), c)[Len(Append(Front(s), c))] = c
<1> DEFINE r == Append(Front(s), c)
<1>0. IsList(s)
  BY DEF StackOK
<1>1. Roles(s, r)
  BY RolesGoOn DEF Plain, SingletonOps, Idle, OwnerCall, DeleterCall, Shaped
<1>2. /\ Len(s) \in Nat /\ Len(s) >= 1 /\ Len(r) = Len(s)
      /\ DOMAIN s = 1 .. Len(s) /\ DOMAIN r = 1 .. Len(s)
      /\ \A i \in 1 .. Len(s) - 1 : r[i] = s[i]
      /\ r[Len(s)] = c
  BY <1>0, Replaced
<1> HIDE DEF r
<1>3. \A i \in DOMAIN r : i = Len(s) \/ (i \in DOMAIN s /\ r[i] = s[i])
  BY <1>2
<1>4. DeletesNot(s) => DeletesNot(r)
  BY <1>2, <1>3 DEF DeletesNot
<1>5. r # <<>> /\ r[Len(r)] = c /\ Moves(s, r)
  BY <1>1, <1>2, <1>4 DEF Moves
<1> QED
  BY <1>5 DEF r

\* A call that top, one of the others', may make.
PlainMayCall(top, c) == Plain(top) /\ (Plain(c) \/ c = GetCall) /\ MayMake(top, c)

\* and a new call.
LEMMA PlainCalls ==
  ASSUME NEW s, StackOK(s), NEW c, Plain(c) \/ c = GetCall,
         IF s = <<>> THEN c.op \notin Inner ELSE PlainMayCall(s[Len(s)], c)
  PROVE  /\ Moves(s, Append(s, c))
         /\ Append(s, c) # <<>> /\ Append(s, c)[Len(Append(s, c))] = c
<1> DEFINE r == Append(s, c)
<1>1. Shaped(c) /\ Idle(c) /\ c.op \notin {"Constructor", "Delete"}
  BY DEF Plain, SingletonOps, Idle, OwnerCall, DeleterCall, Shaped, GetCall, Ops
<1>2. IF s = <<>> THEN c.op \notin Inner ELSE MayCall(s[Len(s)], c)
  BY <1>1 DEF PlainMayCall, MayCall, Plain, SingletonOps
<1>3. Roles(s, r)
  BY <1>1, <1>2, RolesCall
<1>4. /\ Len(s) \in Nat /\ Len(r) = Len(s) + 1
      /\ DOMAIN s = 1 .. Len(s) /\ DOMAIN r = 1 .. Len(s) + 1
      /\ \A i \in 1 .. Len(s) : r[i] = s[i]
      /\ r[Len(s) + 1] = c
  BY Pushed DEF StackOK
<1> HIDE DEF r
<1>5. \A i \in DOMAIN r : i = Len(s) + 1 \/ (i \in DOMAIN s /\ r[i] = s[i])
  BY <1>4
<1>6. DeletesNot(s) => DeletesNot(r)
  BY <1>1, <1>4, <1>5 DEF DeletesNot
<1>7. r # <<>> /\ r[Len(r)] = c /\ Moves(s, r)
  BY <1>3, <1>4, <1>6 DEF Moves
<1> QED
  BY <1>7 DEF r

\* The innermost call is one of the others', and it makes its stack r.
PlainStep(t, r) ==
  /\ stack[t] # <<>> /\ Plain(stack[t][Len(stack[t])])
  /\ stack' = [stack EXCEPT ![t] = r] /\ Moves(stack[t], r)
  /\ UNCHANGED <<instance, initState, isInitializing, made, alive>>
  /\ \/ ref' = ref /\ (Hosts(stack[t][Len(stack[t])]) => ref[t] = 0)
     \/ ref' = [ref EXCEPT ![t] = 0]

\* Who refers to the instance, or is in another call, keeps everybody from deleting.
LEMMA BusyMeansNoDeletes ==
  ASSUME SInv, NEW t \in Threads,
         ref[t] # 0 \/ \E i \in DOMAIN stack[t] : stack[t][i].op # "Delete"
  PROVE  NoDeletes
  BY DEF SInv, OneDeleter, NoDeletes

\* A step of the registry manager that touches no variable of the singleton is sound.
LEMMA PlainStepKeeps ==
  ASSUME SInv, NEW t \in Threads, NEW r, PlainStep(t, r)
  PROVE  SInv'
<1>1. DOMAIN stack = Threads /\ DOMAIN ref = Threads /\ StackOK(stack[t]) /\ RefOK(t)
  BY DEF SInv, StacksOK, RefsOK
<1>2. Len(stack[t]) \in DOMAIN stack[t]
  BY <1>1, Popped DEF PlainStep, StackOK
<1>3. NoDeletes
  BY <1>2, BusyMeansNoDeletes DEF PlainStep, Plain, SingletonOps
<1>4. stack'[t] = r /\ DOMAIN stack' = Threads /\ \A u \in Threads \ {t} : stack'[u] = stack[u]
  BY <1>1 DEF PlainStep
<1>5. KeepsRoles(t)
  BY <1>4 DEF KeepsRoles, PlainStep, Moves
<1>6. \A i \in DOMAIN stack'[t] : stack'[t][i].op # "Delete"
  BY <1>3, <1>4 DEF PlainStep, Moves, DeletesNot, NoDeletes
<1>7. DOMAIN ref' = Threads /\ ref'[t] = 0 /\ \A u \in Threads \ {t} : ref'[u] = ref[u]
  BY <1>1 DEF PlainStep, RefOK
<1>8. RefOK(t)'
  BY <1>7 DEF RefOK
<1> QED
  BY <1>3, <1>5, <1>6, <1>7, <1>8, CallsKept DEF PlainStep

\* Calls made in one step are pushed one after the other.
LEMMA Append2 ==
  ASSUME NEW s, IsList(s), NEW c, NEW d
  PROVE  s \o <<c, d>> = Append(Append(s, c), d) /\ s \o <<>> = s /\ s \o <<c>> = Append(s, c)
<1>1. PICK S : s \in Seq(S)
  BY DEF IsList
<1> DEFINE S2 == S \cup {c, d}
<1>2. s \in Seq(S2) /\ c \in S2 /\ d \in S2
  BY <1>1
<1> HIDE DEF S2, IsList
<1> QED
  BY <1>2

\* The last frame of a thread that is in a call.
LEMMA PlainTop ==
  ASSUME SInv, NEW t \in Threads, stack[t] # <<>>
  PROVE  /\ StackOK(stack[t]) /\ IsList(stack[t]) /\ IsList(Front(stack[t]))
         /\ Top(t) = stack[t][Len(stack[t])]
         /\ ~Hosts(Top(t)) => ref[t] = 0
<1>1. StackOK(stack[t]) /\ IsList(stack[t])
  BY DEF SInv, StacksOK, StackOK
<1>2. IsList(Front(stack[t]))
  BY <1>1, Popped
<1>3. Top(t) = stack[t][Len(stack[t])]
  BY DEF Top, Last
<1>4. ~Hosts(Top(t)) => ref[t] = 0
  BY <1>3 DEF SInv, RefsOK, RefOK
<1> QED
  BY <1>1, <1>2, <1>3, <1>4

\* What such a call leaves alone: t has no reference afterwards.
PlainRest(t) ==
  /\ stack[t] # <<>> /\ Plain(Top(t))
  /\ UNCHANGED <<instance, initState, isInitializing, made, alive>>
  /\ \/ ref' = ref /\ (Hosts(Top(t)) => ref[t] = 0)
     \/ ref' = [ref EXCEPT ![t] = 0]

\* Four shapes of the steps of the registry manager: it returns,
LEMMA PlainLeaves ==
  ASSUME SInv, NEW t \in Threads, PlainRest(t), Leave(t)
  PROVE  SInv'
<1>1. StackOK(stack[t]) /\ Top(t) = stack[t][Len(stack[t])]
  BY PlainTop DEF PlainRest
<1>2. Moves(stack[t], Front(stack[t]))
  BY <1>1, PlainReturns DEF PlainRest
<1>3. PlainStep(t, Front(stack[t]))
  BY <1>1, <1>2 DEF PlainStep, PlainRest, Leave, Become
<1> QED
  BY <1>3, PlainStepKeeps

\* goes on,
LEMMA PlainUpdates ==
  ASSUME SInv, NEW t \in Threads, PlainRest(t), NEW c, Plain(c), c.op = Top(t).op, Update(t, c)
  PROVE  SInv'
<1> DEFINE r == Append(Front(stack[t]), c)
<1>1. StackOK(stack[t]) /\ Top(t) = stack[t][Len(stack[t])]
  BY PlainTop DEF PlainRest
<1>2. Moves(stack[t], r)
  BY <1>1, PlainGoesOn DEF PlainRest
<1>3. stack' = [stack EXCEPT ![t] = r]
  BY DEF Update, Become
<1> HIDE DEF r
<1>4. PlainStep(t, r)
  BY <1>1, <1>2, <1>3 DEF PlainStep, PlainRest
<1> QED
  BY <1>4, PlainStepKeeps

\* goes on and calls,
LEMMA PlainUpdatesAndCalls ==
  ASSUME SInv, NEW t \in Threads, PlainRest(t), NEW c, Plain(c), c.op = Top(t).op, NEW d,
         PlainMayCall(c, d), Become(t, Append(Front(stack[t]), c) \o <<d>>)
  PROVE  SInv'
<1> DEFINE r == Append(Front(stack[t]), c)
           q == Append(r, d)
<1>1. /\ StackOK(stack[t]) /\ Top(t) = stack[t][Len(stack[t])]
      /\ IsList(Front(stack[t]))
  BY PlainTop DEF PlainRest
<1>2. Moves(stack[t], r) /\ r # <<>> /\ r[Len(r)] = c
  BY <1>1, PlainGoesOn DEF PlainRest
<1>3. stack' = [stack EXCEPT ![t] = r \o <<d>>]
  BY DEF Become
<1> HIDE DEF r
<1>4. StackOK(r) /\ IsList(r)
  BY <1>2 DEF Moves, Roles, StackOK
<1>5. r \o <<d>> = q
  BY <1>4, Pushed
<1>6. Moves(r, q)
  BY <1>2, <1>4, PlainCalls DEF PlainMayCall
<1> HIDE DEF q
<1>7. Moves(stack[t], q)
  BY <1>2, <1>6, MovesCompose
<1>8. PlainStep(t, q)
  BY <1>1, <1>7, <1>3, <1>5 DEF PlainStep, PlainRest
<1> QED
  BY <1>8, PlainStepKeeps

\* or calls twice.
LEMMA PlainUpdatesAndCallsTwo ==
  ASSUME SInv, NEW t \in Threads, PlainRest(t), NEW c, Plain(c), c.op = Top(t).op, NEW d, NEW e,
         Plain(d), Plain(e), d.op \notin Inner \cup {"Get"}, e.op \notin Inner \cup {"Get"},
         stack' = [stack EXCEPT ![t] = Append(Append(Append(Front(stack[t]), c), d), e)]
  PROVE  SInv'
<1> DEFINE r == Append(Front(stack[t]), c)
           q == Append(r, d)
           p == Append(q, e)
<1>1. /\ StackOK(stack[t]) /\ Top(t) = stack[t][Len(stack[t])] /\ Plain(c)
      /\ IsList(Front(stack[t]))
  BY PlainTop DEF PlainRest, Plain
<1>2. Moves(stack[t], r) /\ r # <<>> /\ r[Len(r)] = c
  BY <1>1, PlainGoesOn DEF PlainRest
<1>3. stack' = [stack EXCEPT ![t] = p]
  OBVIOUS
<1> HIDE DEF r
<1>4. StackOK(r)
  BY <1>2 DEF Moves, Roles
<1>5. Moves(r, q) /\ q # <<>> /\ q[Len(q)] = d
  BY <1>1, <1>2, <1>4, PlainCalls DEF PlainMayCall, MayMake, Inner
<1> HIDE DEF q
<1>6. StackOK(q)
  BY <1>5 DEF Moves, Roles
<1>7. Moves(q, p)
  BY <1>5, <1>6, PlainCalls DEF PlainMayCall, MayMake, Inner
<1> HIDE DEF p
<1>8. Moves(stack[t], p)
  BY <1>2, <1>5, <1>7, MovesCompose
<1>9. PlainStep(t, p)
  BY <1>1, <1>8, <1>3 DEF PlainStep, PlainRest
<1> QED
  BY <1>9, PlainStepKeeps

-----------------------------------------------------------------------------
(* What becomes of t's stack: the calls below the innermost one stay.      *)

Depth(t) == Len(stack[t])

OthersStay(t, n) ==
  /\ DOMAIN stack' = Threads /\ \A u \in Threads \ {t} : stack'[u] = stack[u]
  /\ \A i \in 1 .. n : stack'[t][i] = stack[t][i]

HasLeft(t) ==
  /\ OthersStay(t, Depth(t) - 1)
  /\ DOMAIN stack'[t] = 1 .. Depth(t) - 1

HasBecome(t, c) ==
  /\ OthersStay(t, Depth(t) - 1)
  /\ DOMAIN stack'[t] = 1 .. Depth(t)
  /\ stack'[t][Depth(t)] = c

HasCalled(t, c, d) ==
  /\ OthersStay(t, Depth(t) - 1)
  /\ DOMAIN stack'[t] = 1 .. Depth(t) + 1
  /\ stack'[t][Depth(t)] = c /\ stack'[t][Depth(t) + 1] = d

HasCalledTwo(t, c, d, e) ==
  /\ OthersStay(t, Depth(t) - 1)
  /\ DOMAIN stack'[t] = 1 .. Depth(t) + 2
  /\ stack'[t][Depth(t)] = c /\ stack'[t][Depth(t) + 1] = d /\ stack'[t][Depth(t) + 2] = e

HasBegun(t, c) ==
  /\ OthersStay(t, 0)
  /\ DOMAIN stack'[t] = 1 .. 1 /\ stack'[t][1] = c

\* What is known of the stack of a thread.
LEMMA StackOf ==
  ASSUME SInv, NEW t \in Threads
  PROVE  /\ DOMAIN stack = Threads /\ StackOK(stack[t]) /\ IsList(stack[t])
         /\ Depth(t) \in Nat /\ DOMAIN stack[t] = 1 .. Depth(t)
         /\ stack[t] # <<>> =>
              /\ Depth(t) >= 1 /\ Depth(t) \in DOMAIN stack[t]
              /\ Top(t) = stack[t][Depth(t)] /\ Shaped(Top(t))
              /\ ~Hosts(Top(t)) => ref[t] = 0
<1>1. DOMAIN stack = Threads /\ StackOK(stack[t]) /\ IsList(stack[t])
  BY DEF SInv, StacksOK, StackOK
<1>2. Depth(t) \in Nat /\ DOMAIN stack[t] = 1 .. Depth(t)
  BY <1>1 DEF IsList, Depth
<1>3. ASSUME stack[t] # <<>>
      PROVE  /\ Depth(t) >= 1 /\ Depth(t) \in DOMAIN stack[t]
             /\ Top(t) = stack[t][Depth(t)] /\ Shaped(Top(t))
             /\ ~Hosts(Top(t)) => ref[t] = 0
  <2>1. Depth(t) >= 1
    BY <1>1, <1>3, Popped DEF Depth
  <2>2. Depth(t) \in DOMAIN stack[t]
    BY <1>2, <2>1
  <2> QED
    BY <1>1, <1>3, <2>1, <2>2, PlainTop DEF StackOK, Depth
<1> QED
  BY <1>1, <1>2, <1>3

\* What the same shapes do to the frames of the thread: a return,
LEMMA Leaves ==
  ASSUME SInv, NEW t \in Threads, stack[t] # <<>>, Leave(t)
  PROVE  HasLeft(t)
<1>1. /\ Len(stack[t]) \in Nat
      /\ DOMAIN Front(stack[t]) = 1 .. Len(stack[t]) - 1
      /\ \A i \in 1 .. Len(stack[t]) - 1 : Front(stack[t])[i] = stack[t][i]
  BY StackOf, Popped
<1>2. /\ stack'[t] = Front(stack[t]) /\ DOMAIN stack' = Threads
      /\ \A u \in Threads \ {t} : stack'[u] = stack[u]
  BY StackOf DEF Leave, Become
<1> QED
  BY <1>1, <1>2 DEF HasLeft, OthersStay, Depth

\* a step,
LEMMA Becomes ==
  ASSUME SInv, NEW t \in Threads, stack[t] # <<>>, NEW c, Update(t, c)
  PROVE  HasBecome(t, c)
<1> DEFINE r == Append(Front(stack[t]), c)
<1>0. IsList(stack[t])
  BY StackOf
<1>1. /\ Len(stack[t]) \in Nat /\ DOMAIN r = 1 .. Len(stack[t])
      /\ \A i \in 1 .. Len(stack[t]) - 1 : r[i] = stack[t][i]
      /\ r[Len(stack[t])] = c
  BY <1>0, Replaced
<1>2. /\ stack'[t] = r /\ DOMAIN stack' = Threads
      /\ \A u \in Threads \ {t} : stack'[u] = stack[u]
  BY StackOf DEF Update, Become
<1> HIDE DEF r
<1> QED
  BY <1>1, <1>2 DEF HasBecome, OthersStay, Depth

\* a step and a call,
LEMMA BecomesAndCalls ==
  ASSUME SInv, NEW t \in Threads, stack[t] # <<>>, NEW c, NEW d,
         Become(t, Append(Front(stack[t]), c) \o <<d>>)
  PROVE  /\ HasCalled(t, c, d)
         /\ stack' = [stack EXCEPT ![t] = Append(Append(Front(stack[t]), c), d)]
<1> DEFINE r == Append(Front(stack[t]), c)
           q == Append(r, d)
           n == Len(stack[t])
<1>0. IsList(stack[t])
  BY StackOf
<1>1. /\ n \in Nat /\ n >= 1 /\ IsList(r) /\ Len(r) = n /\ DOMAIN r = 1 .. n
      /\ \A i \in 1 .. n - 1 : r[i] = stack[t][i]
      /\ r[n] = c
  BY <1>0, Replaced
<1>2. stack' = [stack EXCEPT ![t] = r \o <<d>>]
  BY DEF Become
<1> HIDE DEF r
<1>3. /\ DOMAIN q = 1 .. Len(r) + 1 /\ q = r \o <<d>>
      /\ \A i \in 1 .. Len(r) : q[i] = r[i]
      /\ q[Len(r) + 1] = d
  BY <1>1, Pushed
<1> HIDE DEF q
<1>4. /\ stack'[t] = q /\ DOMAIN stack' = Threads
      /\ \A u \in Threads \ {t} : stack'[u] = stack[u]
  BY <1>2, <1>3, StackOf
<1>5. HasCalled(t, c, d)
  BY <1>1, <1>3, <1>4 DEF HasCalled, OthersStay, Depth
<1> QED
  BY <1>2, <1>3, <1>5 DEF q, r

\* a step and two calls,
LEMMA BecomesAndCallsTwo ==
  ASSUME SInv, NEW t \in Threads, stack[t] # <<>>, NEW c, NEW d, NEW e,
         Become(t, Append(Front(stack[t]), c) \o <<d, e>>)
  PROVE  /\ HasCalledTwo(t, c, d, e)
         /\ stack' = [stack EXCEPT ![t] = Append(Append(Append(Front(stack[t]), c), d), e)]
<1> DEFINE r == Append(Front(stack[t]), c)
           q == Append(r, d)
           p == Append(q, e)
           n == Len(stack[t])
<1>0. IsList(stack[t])
  BY StackOf
<1>1. /\ n \in Nat /\ n >= 1 /\ IsList(r) /\ Len(r) = n
      /\ \A i \in 1 .. n - 1 : r[i] = stack[t][i]
      /\ r[n] = c
  BY <1>0, Replaced
<1>2. stack' = [stack EXCEPT ![t] = r \o <<d, e>>]
  BY DEF Become
<1> HIDE DEF r
<1>3. /\ IsList(q) /\ Len(q) = n + 1
      /\ \A i \in 1 .. n : q[i] = r[i]
      /\ q[n + 1] = d
  BY <1>1, Pushed
<1> HIDE DEF q
<1>4. /\ DOMAIN p = 1 .. n + 1 + 1
      /\ \A i \in 1 .. n + 1 : p[i] = q[i]
      /\ p[n + 1 + 1] = e
  BY <1>1, <1>3, Pushed
<1>5. p = r \o <<d, e>>
  BY <1>1, Append2 DEF q
<1> HIDE DEF p
<1>6. /\ stack'[t] = p /\ DOMAIN stack' = Threads
      /\ \A u \in Threads \ {t} : stack'[u] = stack[u]
  BY <1>2, <1>5, StackOf
<1>7. n + 1 + 1 = n + 2 /\ n \in 1 .. n /\ n \in 1 .. n + 1 /\ n + 1 \in 1 .. n + 1
  BY <1>1
<1>8. \A i \in 1 .. n - 1 : i \in 1 .. n /\ i \in 1 .. n + 1
  BY <1>1
<1>9. HasCalledTwo(t, c, d, e)
  BY <1>1, <1>3, <1>4, <1>6, <1>7, <1>8 DEF HasCalledTwo, OthersStay, Depth
<1> QED
  BY <1>2, <1>5, <1>9 DEF p, q, r

\* the first call of a thread that was idle.
LEMMA Begins ==
  ASSUME SInv, NEW t \in Threads, stack[t] = <<>>, NEW c, Enter(t, c)
  PROVE  HasBegun(t, c)
<1>1. IsList(stack[t]) /\ Len(stack[t]) = 0
  BY StackOf
<1>2. DOMAIN Append(stack[t], c) = 1 .. 0 + 1 /\ Append(stack[t], c)[0 + 1] = c
  BY <1>1, Pushed
<1>3. /\ stack'[t] = Append(stack[t], c) /\ DOMAIN stack' = Threads
      /\ \A u \in Threads \ {t} : stack'[u] = stack[u]
  BY StackOf DEF Enter, Become
<1> QED
  BY <1>2, <1>3 DEF HasBegun, OthersStay

-----------------------------------------------------------------------------
(* The registry's own steps. *)

\* Who is updated stays subscribed: types are not taken from the list.
LEMMA UpdatesStayListed ==
  ASSUME SInv, RTypes, NEW t \in Threads,
         DOMAIN stack' = Threads, \A u \in Threads \ {t} : stack'[u] = stack[u],
         \A ty : Listed(ty, ordered) => Listed(ty, ordered'),
         \A i \in DOMAIN stack'[t] :
           \/ stack'[t][i].op = "Update" => Listed(stack'[t][i].type, ordered')
           \/ i \in DOMAIN stack[t] /\ stack'[t][i] = stack[t][i]
  PROVE  UpdatesListed'
<1>1. ASSUME NEW u \in Threads, NEW i \in DOMAIN stack'[u], stack'[u][i].op = "Update"
      PROVE  Listed(stack'[u][i].type, ordered')
  <2>1. CASE i \in DOMAIN stack[u] /\ stack'[u][i] = stack[u][i]
    BY <1>1, <2>1 DEF RTypes, UpdatesListed
  <2>2. CASE ~(i \in DOMAIN stack[u] /\ stack'[u][i] = stack[u][i])
    BY <1>1, <2>2
  <2> QED
    BY <2>1, <2>2
<1> QED
  BY <1>1 DEF UpdatesListed

\* What the registry's steps have in common: the list of subscriptions only grows.
ListsKeep == VarTypes' /\ \A ty : Listed(ty, ordered) => Listed(ty, ordered')

\* The types of the registry, if the step keeps its lists.
LEMMA ListsKept ==
  ASSUME SInv, RTypes, NEW t \in Threads, ListsKeep,
         DOMAIN stack' = Threads, \A u \in Threads \ {t} : stack'[u] = stack[u],
         \A i \in DOMAIN stack'[t] :
           \/ stack'[t][i].op = "Update" => Listed(stack'[t][i].type, ordered')
           \/ i \in DOMAIN stack[t] /\ stack'[t][i] = stack[t][i]
  PROVE  RTypes'
<1>1. UpdatesListed'
  BY UpdatesStayListed DEF ListsKeep
<1> QED
  BY <1>1 DEF RTypes, ListsKeep

\* A call of the others', that updates from a listed subscription if it updates.
Sound(c) == Plain(c) /\ (c.op = "Update" => Listed(c.type, ordered'))

\* The shapes with the singleton and the registry together: a return,
LEMMA StepLeaves ==
  ASSUME SInv, RTypes, NEW t \in Threads, ListsKeep, PlainRest(t), Leave(t)
  PROVE  SInv' /\ RTypes' /\ HasLeft(t)
<1>1. SInv' /\ HasLeft(t)
  BY PlainLeaves, Leaves DEF PlainRest
<1>2. \A i \in DOMAIN stack'[t] : i \in DOMAIN stack[t] /\ stack'[t][i] = stack[t][i]
  BY <1>1, StackOf DEF HasLeft, OthersStay
<1> QED
  BY <1>1, <1>2, ListsKept DEF HasLeft, OthersStay

\* a step,
LEMMA StepUpdates ==
  ASSUME SInv, RTypes, NEW t \in Threads, ListsKeep, PlainRest(t),
         NEW c, Sound(c), c.op = Top(t).op, Update(t, c)
  PROVE  SInv' /\ RTypes' /\ HasBecome(t, c)
<1>1. SInv' /\ HasBecome(t, c)
  BY PlainUpdates, Becomes DEF PlainRest, Sound
<1>2. \A i \in DOMAIN stack'[t] :
        \/ stack'[t][i].op = "Update" => Listed(stack'[t][i].type, ordered')
        \/ i \in DOMAIN stack[t] /\ stack'[t][i] = stack[t][i]
  BY <1>1, StackOf DEF HasBecome, OthersStay, Sound
<1> QED
  BY <1>1, <1>2, ListsKept DEF HasBecome, OthersStay

\* a step and a call,
LEMMA StepCalls ==
  ASSUME SInv, RTypes, NEW t \in Threads, ListsKeep, PlainRest(t),
         NEW c, Sound(c), c.op = Top(t).op, NEW d, Sound(d) \/ d = GetCall, MayMake(c, d),
         Become(t, Append(Front(stack[t]), c) \o <<d>>)
  PROVE  SInv' /\ RTypes' /\ HasCalled(t, c, d)
<1>1. SInv' /\ HasCalled(t, c, d)
  BY PlainUpdatesAndCalls, BecomesAndCalls DEF PlainRest, Sound, PlainMayCall
<1>2. \A i \in DOMAIN stack'[t] :
        \/ stack'[t][i].op = "Update" => Listed(stack'[t][i].type, ordered')
        \/ i \in DOMAIN stack[t] /\ stack'[t][i] = stack[t][i]
  BY <1>1, StackOf DEF HasCalled, OthersStay, Sound, GetCall
<1> QED
  BY <1>1, <1>2, ListsKept DEF HasCalled, OthersStay

\* a step and two calls.
LEMMA StepCallsTwo ==
  ASSUME SInv, RTypes, NEW t \in Threads, ListsKeep, PlainRest(t),
         NEW c, Sound(c), c.op = Top(t).op, NEW d, Sound(d), NEW e, Sound(e),
         d.op \notin Inner \cup {"Get"}, e.op \notin Inner \cup {"Get"},
         Become(t, Append(Front(stack[t]), c) \o <<d, e>>)
  PROVE  SInv' /\ RTypes' /\ HasCalledTwo(t, c, d, e)
<1>1. /\ HasCalledTwo(t, c, d, e)
      /\ stack' = [stack EXCEPT ![t] = Append(Append(Append(Front(stack[t]), c), d), e)]
  <2>1. stack[t] # <<>>
    BY DEF PlainRest
  <2> HIDE DEF HasCalledTwo, PlainRest
  <2>2. HasCalledTwo(t, c, d, e)
    BY <2>1, BecomesAndCallsTwo
  <2>3. stack' = [stack EXCEPT ![t] = Append(Append(Append(Front(stack[t]), c), d), e)]
    BY <2>1, BecomesAndCallsTwo
  <2> QED
    BY <2>2, <2>3
<1>2. SInv'
  BY <1>1, PlainUpdatesAndCallsTwo DEF Sound
<1>3. \A i \in DOMAIN stack'[t] :
        \/ stack'[t][i].op = "Update" => Listed(stack'[t][i].type, ordered')
        \/ i \in DOMAIN stack[t] /\ stack'[t][i] = stack[t][i]
  BY <1>1, StackOf DEF HasCalledTwo, OthersStay, Sound
<1> QED
  BY <1>1, <1>2, <1>3, ListsKept DEF HasCalledTwo, OthersStay

\* _TransferActiveLibraryNoLock.
LEMMA TransferTypes ==
  ASSUME VarTypes, NEW t \in Threads, Transfer(t)
  PROVE  /\ fns' \in [Types -> Seq(Fns)]
         /\ active' \in [Threads -> [lib : LibOrNone, fns : Seq(Fns)]]
<1>1. \A ty \in Types : fns[ty] \o Only(active[t].fns, {f \in Fns : TypeOf[f] = ty}) \in Seq(Fns)
  <2> SUFFICES ASSUME NEW ty \in Types
      PROVE  fns[ty] \o Only(active[t].fns, {f \in Fns : TypeOf[f] = ty}) \in Seq(Fns)
    OBVIOUS
  <2>1. fns[ty] \in Seq(Fns) /\ active[t].fns \in Seq(Fns)
    BY DEF VarTypes
  <2> DEFINE S == {f \in Fns : TypeOf[f] = ty}
  <2>2. Fns \cap S = S /\ S \subseteq Fns
    OBVIOUS
  <2> HIDE DEF S
  <2>3. Only(active[t].fns, S) \in Seq(Fns \cap S)
    BY <2>1, OnlyMembers
  <2>4. Only(active[t].fns, S) \in Seq(Fns)
    BY <2>2, <2>3
  <2>5. fns[ty] \o Only(active[t].fns, S) \in Seq(Fns)
    BY <2>1, <2>4
  <2> QED
    BY <2>5 DEF S
<1>2. NoActive \in [lib : LibOrNone, fns : Seq(Fns)]
  BY DEF NoActive, LibOrNone
<1> QED
  BY <1>1, <1>2 DEF Transfer, VarTypes

\* t takes _mutex and processes its active library: the call goes on at pc, under
\* the two calls that update the subscribers if there is something to run.
LEMMA LockKeeps ==
  ASSUME SInv, RTypes, NEW t \in Threads, stack[t] # <<>>,
         Top(t).op \in {"Subscribe", "Load"}, Hosts(Top(t)) => ref[t] = 0,
         NEW pc, LockAndProcess(t, pc)
  PROVE  /\ SInv' /\ RTypes'
         /\ IF MovedAny(t) THEN HasCalledTwo(t, [Top(t) EXCEPT !.pc = pc],
                                             UpdateCall(Head(ordered)), RunCall(t, Head(ordered)))
                           ELSE HasBecome(t, [Top(t) EXCEPT !.pc = pc])
<1> DEFINE c == [Top(t) EXCEPT !.pc = pc]
           ty == Head(ordered)
           d == UpdateCall(ty)
           e == RunCall(t, ty)
<1>1. Shaped(Top(t)) /\ Plain(Top(t))
  BY StackOf DEF Plain, SingletonOps
<1>2. PlainRest(t)
  BY <1>1 DEF PlainRest, LockAndProcess, singletonVars
<1>3. Sound(c) /\ c.op = Top(t).op
  BY <1>1 DEF Plain, Shaped, SingletonOps, Sound
<1>4. /\ Transfer(t) /\ mutex' = t /\ UNCHANGED <<ordered, unloads, cur>>
  BY DEF LockAndProcess
<1>5. ListsKeep
  BY <1>4, TransferTypes DEF RTypes, VarTypes, ListsKeep
<1>6. MovedAny(t) => ty \in Types /\ Listed(ty, ordered')
  <2>1. SUFFICES ASSUME MovedAny(t) PROVE ty \in Types /\ Listed(ty, ordered)
    BY <1>4
  <2>2. ordered # <<>> /\ ordered \in Seq(Types)
    BY <2>1 DEF MovedAny, Subscribed, Range, RTypes, VarTypes
  <2>3. ty = ordered[1] /\ 1 \in DOMAIN ordered /\ ty \in Types
    BY <2>2
  <2> QED
    BY <2>3 DEF Listed
<1>7. MovedAny(t) => /\ Sound(d) /\ d.op \notin Inner \cup {"Get"}
                     /\ Sound(e) /\ e.op \notin Inner \cup {"Get"}
  BY <1>6, EmptyList DEF Plain, SingletonOps, Shaped, UpdateCall, RunCall, RTypes, VarTypes,
    Ops, Sound, Inner
<1>8. Become(t, Append(Front(stack[t]), c) \o (IF MovedAny(t) THEN <<d, e>> ELSE <<>>))
  BY DEF LockAndProcess
<1>9. IsList(Append(Front(stack[t]), c))
  BY PlainTop, Pushed
<1> HIDE DEF c, d, e, ty
<1>10. CASE MovedAny(t)
  <2>1. Become(t, Append(Front(stack[t]), c) \o <<d, e>>)
    BY <1>8, <1>10
  <2>2. SInv' /\ RTypes' /\ HasCalledTwo(t, c, d, e)
    BY <1>2, <1>3, <1>5, <1>7, <1>10, <2>1, StepCallsTwo
  <2> QED
    BY <1>10, <2>2 DEF c, d, e, ty
<1>11. CASE ~MovedAny(t)
  <2>1. Update(t, c)
    BY <1>8, <1>9, <1>11, Append2 DEF Become, Update
  <2>2. SInv' /\ RTypes' /\ HasBecome(t, c)
    BY <1>2, <1>3, <1>5, <2>1, StepUpdates
  <2> QED
    BY <1>11, <2>2 DEF c
<1> QED
  BY <1>10, <1>11

\* SubscribeTo: the lock, the list, and the unlocking.
LEMMA SubscribeKeeps ==
  ASSUME SInv, RTypes, NEW t \in Threads,
         SubscribeLock(t) \/ SubscribeInsert(t) \/ SubscribeUnlock(t)
  PROVE  SInv' /\ RTypes'
<1>1. stack[t] # <<>> /\ Top(t).op = "Subscribe" /\ ~Hosts(Top(t))
  BY DEF SubscribeLock, SubscribeInsert, SubscribeUnlock, At, Hosts
<1>2. Shaped(Top(t)) /\ Plain(Top(t)) /\ Top(t).type \in Types
  BY <1>1, StackOf DEF Plain, SingletonOps, Shaped
<1>3. CASE SubscribeLock(t)
  BY <1>1, <1>3, LockKeeps DEF SubscribeLock
<1>4. CASE SubscribeInsert(t)
  <2> DEFINE c == [Top(t) EXCEPT !.pc = "Unlock"]
             d == RunCall(t, Top(t).type)
  <2>1. PlainRest(t)
    BY <1>1, <1>2, <1>4 DEF PlainRest, SubscribeInsert, singletonVars
  <2>2. ListsKeep
    <3>1. CASE UNCHANGED ordered
      BY <1>4, <3>1 DEF ListsKeep, RTypes, VarTypes, SubscribeInsert
    <3>2. CASE ordered' = Append(ordered, Top(t).type) /\ ~Subscribed(Top(t).type)
      <4> DEFINE ty == Top(t).type
                 list == Append(ordered, ty)
                 n == Len(ordered)
      <4>1. /\ ordered \in Seq(Types) /\ n \in Nat /\ DOMAIN ordered = 1 .. n
            /\ \A i, j \in DOMAIN ordered : ordered[i] = ordered[j] => i = j
        BY DEF RTypes, VarTypes
      <4>2. /\ list \in Seq(Types) /\ DOMAIN list = 1 .. n + 1 /\ list[n + 1] = ty
            /\ \A i \in 1 .. n : list[i] = ordered[i]
        BY <4>1, <1>2
      <4>3. \A i \in 1 .. n : ordered[i] # ty
        BY <3>2, <4>1 DEF Subscribed, Range
      <4> HIDE DEF list
      <4>4. \A i, j \in DOMAIN list : list[i] = list[j] => i = j
        <5>1. \A i \in DOMAIN list : i \in 1 .. n \/ i = n + 1
          BY <4>1, <4>2
        <5> QED
          BY <4>1, <4>2, <4>3, <5>1
      <4>5. \A x : Listed(x, ordered) => Listed(x, list)
        BY <4>1, <4>2 DEF Listed
      <4>6. ordered' = list
        BY <3>2 DEF list
      <4> QED
        BY <1>4, <4>2, <4>4, <4>5, <4>6 DEF ListsKeep, RTypes, VarTypes, SubscribeInsert
    <3> QED
      BY <1>4, <3>1, <3>2 DEF SubscribeInsert
  <2>3. Sound(c) /\ c.op = Top(t).op
    BY <1>1, <1>2 DEF Plain, Shaped, SingletonOps, Sound
  <2>4. Sound(d) /\ MayMake(c, d)
    BY <1>2, EmptyList DEF Plain, SingletonOps, Shaped, RunCall, RTypes, VarTypes, Ops, Sound,
      MayMake
  <2>5. Update(t, c) \/ Become(t, Append(Front(stack[t]), c) \o <<d>>)
    BY <1>4 DEF SubscribeInsert, Goto, GotoAndEnter
  <2> HIDE DEF c, d
  <2> QED
    BY <2>1, <2>2, <2>3, <2>4, <2>5, StepUpdates, StepCalls
<1>5. CASE SubscribeUnlock(t)
  <2>1. PlainRest(t) /\ Leave(t)
    BY <1>1, <1>2, <1>5 DEF PlainRest, SubscribeUnlock, UnlockAndLeave, singletonVars
  <2>2. ListsKeep
    BY <1>5 DEF ListsKeep, RTypes, VarTypes, SubscribeUnlock, UnlockAndLeave, listVars
  <2> QED
    BY <2>1, <2>2, StepLeaves
<1> QED
  BY <1>3, <1>4, <1>5

\* What an iterator over the subscriptions has yet to reach.
LEMMA NextSubscriptions ==
  ASSUME VarTypes, NEW ty, Listed(ty, ordered)
  PROVE  \E i \in DOMAIN ordered :
           /\ ordered[i] = ty
           /\ NextSubscription(ty) = SubSeq(ordered, i + 1, Len(ordered))
           /\ NextSubscription(ty) \in Seq(Types)
           /\ \A j \in DOMAIN ordered :
                ordered[j] \in Range(NextSubscription(ty)) <=> j > i
           /\ NextSubscription(ty) # <<>> =>
                /\ i + 1 \in DOMAIN ordered
                /\ Head(NextSubscription(ty)) = ordered[i + 1]
<1> DEFINE n == Len(ordered)
           i == CHOOSE i \in DOMAIN ordered : ordered[i] = ty
           rest == SubSeq(ordered, i + 1, n)
<1>1. /\ ordered \in Seq(Types) /\ n \in Nat /\ DOMAIN ordered = 1 .. n
      /\ \A k, l \in DOMAIN ordered : ordered[k] = ordered[l] => k = l
  BY DEF VarTypes
<1>2. i \in DOMAIN ordered /\ ordered[i] = ty
  BY DEF Listed
<1>3. NextSubscription(ty) = rest
  BY DEF NextSubscription
<1> HIDE DEF i
<1>4. rest \in Seq(Types) /\ Len(rest) = n - i /\ DOMAIN rest = 1 .. n - i /\ \A k \in 1 .. n - i : rest[k] = ordered[i + k]
  BY <1>1, <1>2
<1> HIDE DEF rest
<1>5. Range(rest) = {ordered[i + k] : k \in 1 .. n - i}
  <2>1. Range(rest) = {rest[k] : k \in 1 .. n - i}
    BY <1>4 DEF Range
  <2> QED
    BY <1>4, <2>1
<1>6. ASSUME NEW j \in DOMAIN ordered PROVE ordered[j] \in Range(rest) <=> j > i
  <2>1. ASSUME j > i PROVE ordered[j] \in Range(rest)
    <3>1. j - i \in 1 .. n - i /\ i + (j - i) = j
      BY <1>1, <1>2, <2>1
    <3> QED
      BY <1>5, <3>1
  <2>2. ASSUME ordered[j] \in Range(rest) PROVE j > i
    <3>1. PICK k \in 1 .. n - i : ordered[j] = ordered[i + k]
      BY <1>5, <2>2
    <3>2. i + k \in DOMAIN ordered /\ i + k > i
      BY <1>1, <1>2
    <3> QED
      BY <1>1, <3>1, <3>2
  <2> QED
    BY <2>1, <2>2
<1>7. ASSUME rest # <<>> PROVE i + 1 \in DOMAIN ordered /\ Head(rest) = ordered[i + 1]
  <2>1. Len(rest) >= 1 /\ Head(rest) = rest[1]
    BY <1>4, <1>7
  <2> QED
    BY <1>1, <1>2, <1>4, <2>1
<1> QED
  BY <1>2, <1>3, <1>4, <1>6, <1>7 DEF rest

\* _UpdateSubscribersNoLock, a subscriber at a time.
LEMMA UpdateKeeps ==
  ASSUME SInv, RTypes, NEW t \in Threads, UpdateNext(t)
  PROVE  SInv' /\ RTypes'
<1>1. stack[t] # <<>> /\ Top(t).op = "Update" /\ ~Hosts(Top(t))
  BY DEF UpdateNext, At, Hosts
<1>2. /\ Shaped(Top(t)) /\ Plain(Top(t)) /\ Top(t) = UpdateCall(Top(t).type)
      /\ Listed(Top(t).type, ordered)
  BY <1>1, StackOf DEF Plain, SingletonOps, Shaped, RTypes, UpdatesListed
<1>3. PlainRest(t)
  BY <1>1, <1>2 DEF PlainRest, UpdateNext, singletonVars
<1>4. ListsKeep
  BY DEF ListsKeep, RTypes, VarTypes, UpdateNext, listVars
<1> DEFINE rest == NextSubscription(Top(t).type)
           ty == Head(rest)
           c == UpdateCall(ty)
           d == RunCall(t, ty)
<1>5. CASE rest = <<>>
  <2>1. Leave(t)
    BY <1>5 DEF UpdateNext
  <2> QED
    BY <1>3, <1>4, <2>1, StepLeaves
<1>6. CASE rest # <<>>
  <2>1. PICK i \in DOMAIN ordered : i + 1 \in DOMAIN ordered /\ ty = ordered[i + 1]
    BY <1>2, <1>6, NextSubscriptions DEF RTypes
  <2>2. ty \in Types /\ Listed(ty, ordered')
    BY <2>1 DEF RTypes, VarTypes, Listed, UpdateNext, listVars
  <2>3. Become(t, Front(stack[t]) \o <<c, d>>)
    BY <1>6 DEF UpdateNext
  <2>4. Sound(c) /\ Sound(d) /\ c.op = Top(t).op /\ MayMake(c, d)
    BY <1>1, <2>2, EmptyList DEF Sound, Plain, Shaped, UpdateCall, RunCall, SingletonOps, Ops,
      RTypes, VarTypes, MayMake
  <2> HIDE DEF c, d
  <2>5. /\ Front(stack[t]) \o <<c, d>> = Append(Append(Front(stack[t]), c), d)
        /\ Append(Front(stack[t]), c) \o <<d>> = Append(Append(Front(stack[t]), c), d)
    BY <1>1, PlainTop, Pushed, Append2
  <2>6. Become(t, Append(Front(stack[t]), c) \o <<d>>)
    BY <2>3, <2>5
  <2> QED
    BY <1>3, <1>4, <2>4, <2>6, StepCalls
<1> QED
  BY <1>5, <1>6

\* A function that can be registered is in a library.
LEMMA FunctionsHaveLibraries ==
  ASSUME NEW f \in Fns
  PROVE  LibOf(f) \in Libs /\ f \in FnsOf(LibOf(f))
<1>1. \E l \in Libs : f \in Range(Adds[l])
  BY FunctionsAssumption
<1> QED
  BY <1>1 DEF LibOf, FnsOf

\* The frame of _RunRegistryFunctionsNoLock, changed.
LEMMA RunRecord ==
  ASSUME NEW r, r = [op |-> "Run", pc |-> r.pc, type |-> r.type, toRun |-> r.toRun,
                     saved |-> r.saved], NEW q, NEW list
  PROVE  /\ [r EXCEPT !.toRun = list, !.pc = q] =
              [op |-> "Run", pc |-> q, type |-> r.type, toRun |-> list, saved |-> r.saved]
         /\ [r EXCEPT !.toRun = Tail(@)] =
              [op |-> "Run", pc |-> r.pc, type |-> r.type, toRun |-> Tail(r.toRun),
               saved |-> r.saved]
<1>1. \A list2 : [r EXCEPT !.toRun = list2] =
        [op |-> "Run", pc |-> r.pc, type |-> r.type, toRun |-> list2, saved |-> r.saved]
  OBVIOUS
<1>2. [r EXCEPT !.toRun = Tail(@)] = [r EXCEPT !.toRun = Tail(r.toRun)]
  OBVIOUS
<1>3. [r EXCEPT !.toRun = list, !.pc = q] = [[r EXCEPT !.toRun = list] EXCEPT !.pc = q]
  OBVIOUS
<1>4. ASSUME NEW s, s = [op |-> "Run", pc |-> r.pc, type |-> r.type, toRun |-> list,
                         saved |-> r.saved]
      PROVE  [s EXCEPT !.pc = q] =
               [op |-> "Run", pc |-> q, type |-> r.type, toRun |-> list, saved |-> r.saved]
  BY <1>4
<1> DEFINE s == [r EXCEPT !.toRun = list]
<1>5. /\ s = [op |-> "Run", pc |-> r.pc, type |-> r.type, toRun |-> list, saved |-> r.saved]
      /\ [r EXCEPT !.toRun = list, !.pc = q] = [s EXCEPT !.pc = q]
  BY <1>1, <1>3
<1> HIDE DEF s
<1>6. [r EXCEPT !.toRun = list, !.pc = q] =
        [op |-> "Run", pc |-> q, type |-> r.type, toRun |-> list, saved |-> r.saved]
  BY <1>4, <1>5
<1> QED
  BY <1>1, <1>2, <1>6

\* _RunRegistryFunctionsNoLock: taking the list, the next function, the mutex again.
LEMMA RunKeeps ==
  ASSUME SInv, RTypes, NEW t \in Threads, RunTake(t) \/ RunCallNext(t) \/ RunRelock(t)
  PROVE  SInv' /\ RTypes'
<1>1. stack[t] # <<>> /\ Top(t).op = "Run" /\ ~Hosts(Top(t))
  BY DEF RunTake, RunCallNext, RunRelock, At, Hosts
<1>2. Shaped(Top(t)) /\ Plain(Top(t))
  BY <1>1, StackOf DEF Plain, SingletonOps
<1> DEFINE call(pc, toRun) == [op |-> "Run", pc |-> pc, type |-> Top(t).type,
                               toRun |-> toRun, saved |-> Top(t).saved]
<1>3. /\ Top(t) = call(Top(t).pc, Top(t).toRun)
      /\ Top(t).type \in Types /\ Top(t).toRun \in Seq(Fns) /\ Top(t).saved \in LibOrNone
  BY <1>1, <1>2 DEF Shaped
<1>4. \A pc, toRun : toRun \in Seq(Fns) => Sound(call(pc, toRun)) /\ call(pc, toRun).op = Top(t).op
  BY <1>1, <1>3 DEF Sound, Plain, Shaped, SingletonOps, Ops
<1>5. PlainRest(t)
  BY <1>1, <1>2 DEF PlainRest, RunTake, RunCallNext, RunRelock, singletonVars
<1>6. CASE RunTake(t)
  <2> DEFINE ty == Top(t).type
             c == [Top(t) EXCEPT !.toRun = fns[ty], !.pc = "Call"]
  <2>1. fns[ty] \in Seq(Fns)
    BY <1>3 DEF RTypes, VarTypes
  <2>2. CASE fns[ty] = <<>>
    <3>1. Leave(t)
      BY <1>6, <2>2 DEF RunTake
    <3>2. ListsKeep
      BY <1>3, <1>6, <2>2 DEF RunTake, ListsKeep, RTypes, VarTypes
    <3> QED
      BY <1>5, <3>1, <3>2, StepLeaves
  <2>3. CASE fns[ty] # <<>>
    <3>1. c = call("Call", fns[ty])
      BY <1>3, RunRecord
    <3>2. Update(t, c) /\ fns' = [fns EXCEPT ![ty] = <<>>]
      BY <1>6, <2>3 DEF RunTake, AfterTake
    <3>3. Sound(c) /\ c.op = Top(t).op
      BY <1>4, <2>1, <3>1
    <3>4. fns' \in [Types -> Seq(Fns)]
      <4>1. <<>> \in Seq(Fns) /\ fns \in [Types -> Seq(Fns)]
        BY DEF RTypes, VarTypes
      <4> QED
        BY <3>2, <4>1
    <3>5. cur' \in [Threads -> LibOrNone]
      <4>1. Head(fns[ty]) \in Fns
        BY <2>1, <2>3
      <4>2. LibOf(Head(fns[ty])) \in LibOrNone
        BY <4>1, FunctionsHaveLibraries DEF LibOrNone
      <4>3. cur' = [cur EXCEPT ![t] = LibOf(Head(fns[ty]))]
        BY <1>6, <2>3 DEF RunTake
      <4> HIDE DEF LibOf
      <4> QED
        BY <4>2, <4>3 DEF RTypes, VarTypes
    <3>6. ListsKeep
      BY <1>6, <2>3, <3>4, <3>5 DEF RunTake, ListsKeep, RTypes, VarTypes
    <3> HIDE DEF c
    <3> QED
      BY <1>5, <3>2, <3>3, <3>6, StepUpdates
  <2> QED
    BY <2>2, <2>3
<1>7. CASE RunCallNext(t)
  <2> DEFINE f == Head(Top(t).toRun)
             c == [Top(t) EXCEPT !.toRun = Tail(@)]
             d == FunctionCall(f)
  <2>1. Top(t).toRun # <<>>
    BY <1>7 DEF RunCallNext
  <2>2. f \in Fns /\ Tail(Top(t).toRun) \in Seq(Fns)
    BY <1>3, <2>1
  <2>3. c = call(Top(t).pc, Tail(Top(t).toRun))
    BY <1>3, RunRecord
  <2>4. Sound(c) /\ c.op = Top(t).op
    BY <1>4, <2>2, <2>3
  <2>5. Sound(d) /\ MayMake(c, d)
    BY <2>2 DEF Sound, Plain, FunctionCall, SingletonOps, Shaped, Ops, MayMake
  <2>6. Become(t, Append(Front(stack[t]), c) \o <<d>>)
    BY <1>7 DEF RunCallNext
  <2>7. cur' \in [Threads -> LibOrNone]
    <3>1. LibOf(f) \in LibOrNone
      BY <2>2, FunctionsHaveLibraries DEF LibOrNone
    <3>2. cur' = [cur EXCEPT ![t] = LibOf(f)]
      BY <1>7 DEF RunCallNext, Repoint
    <3> HIDE DEF LibOf, f
    <3> QED
      BY <3>1, <3>2 DEF RTypes, VarTypes
  <2>8. ListsKeep
    BY <1>7, <2>7 DEF RunCallNext, ListsKeep, RTypes, VarTypes, listVars
  <2> HIDE DEF c, d
  <2> QED
    BY <1>5, <2>4, <2>5, <2>6, <2>8, StepCalls
<1>8. CASE RunRelock(t)
  <2> DEFINE c == [Top(t) EXCEPT !.pc = "Take"]
  <2>1. c = call("Take", Top(t).toRun)
    BY <1>3
  <2>2. Sound(c) /\ c.op = Top(t).op
    BY <1>3, <1>4, <2>1
  <2>4. Update(t, c)
    BY <1>8 DEF RunRelock, Goto
  <2>3. ListsKeep
    BY <1>8 DEF RunRelock, ListsKeep, RTypes, VarTypes, listVars
  <2> HIDE DEF c
  <2> QED
    BY <1>5, <2>2, <2>3, <2>4, StepUpdates
<1> QED
  BY <1>6, <1>7, <1>8

\* The calls that a registry function or a global object may make.
LEMMA UserCallsAreSound ==
  ASSUME NEW d \in UserCalls \cup {AddForUnloadCall}
  PROVE  Sound(d) \/ d = GetCall
<1>1. CASE d = GetCall
  BY <1>1
<1>2. ASSUME NEW ty \in Types, d = SubscribeCall(ty) PROVE Sound(d)
  BY <1>2 DEF Sound, Plain, SingletonOps, Shaped, Ops, SubscribeCall
<1>3. ASSUME NEW l \in Libs, d = LoadCall(l) PROVE Sound(d)
  <2>1. Len(Adds[l]) \in Nat
    BY RegistryAssumption
  <2> QED
    BY <1>3, <2>1 DEF Sound, Plain, SingletonOps, Shaped, Ops, LoadCall
<1>4. CASE d = AddForUnloadCall
  BY <1>4 DEF Sound, Plain, SingletonOps, Shaped, Ops, AddForUnloadCall
<1> QED
  BY <1>1, <1>2, <1>3, <1>4 DEF UserCalls

\* A registry function: its body, and what it adds for unload.
LEMMA FunctionKeeps ==
  ASSUME SInv, RTypes, NEW t \in Threads, FunctionBody(t) \/ AddFunctionForUnload(t)
  PROVE  SInv' /\ RTypes'
<1>1. stack[t] # <<>> /\ Top(t).op \in {"Function", "AddForUnload"}
  BY DEF FunctionBody, AddFunctionForUnload, At
<1>2. Shaped(Top(t)) /\ Plain(Top(t))
  BY <1>1, StackOf DEF Plain, SingletonOps
<1>3. CASE FunctionBody(t)
  <2>1. Top(t).op = "Function" /\ PlainRest(t)
    BY <1>1, <1>2, <1>3 DEF PlainRest, FunctionBody, At
  <2>2. ListsKeep
    BY <1>3 DEF FunctionBody, ListsKeep, RTypes, VarTypes, listVars
  <2>3. CASE Leave(t)
    BY <2>1, <2>2, <2>3, StepLeaves
  <2>4. CASE ~Leave(t)
    <3> DEFINE f == Top(t).fn
               next == Top(t).done + 1
               c == [Top(t) EXCEPT !.done = next]
               d == Body[f][next]
    <3>1. next <= Len(Body[f]) /\ Become(t, Append(Front(stack[t]), c) \o <<d>>)
      BY <1>3, <2>4 DEF FunctionBody
    <3>2. /\ Top(t) = [op |-> "Function", pc |-> "Body", fn |-> f, done |-> Top(t).done]
          /\ f \in Fns /\ Top(t).done \in Nat
      BY <1>2, <2>1 DEF Shaped
    <3>3. c = [op |-> "Function", pc |-> "Body", fn |-> f, done |-> next]
      BY <3>2
    <3>4. Sound(c) /\ c.op = Top(t).op /\ Hosts(c)
      BY <2>1, <3>2, <3>3 DEF Sound, Plain, Hosts, Shaped, Ops, SingletonOps
    <3>5. d \in UserCalls \cup {AddForUnloadCall}
      <4>1. Body[f] \in Seq(UserCalls \cup {AddForUnloadCall})
        BY <3>2, CallsAssumption
      <4>2. next \in 1 .. Len(Body[f])
        BY <3>1, <3>2, <4>1
      <4> HIDE DEF next
      <4> QED
        BY <4>1, <4>2
    <3>6. (Sound(d) \/ d = GetCall) /\ MayMake(c, d)
      BY <3>3, <3>4, <3>5, UserCallsAreSound DEF MayMake
    <3> HIDE DEF c, d
    <3> QED
      BY <2>1, <2>2, <3>1, <3>4, <3>6, StepCalls
  <2> QED
    BY <2>3, <2>4
<1>4. CASE AddFunctionForUnload(t)
  <2>1. Top(t).op = "AddForUnload" /\ Leave(t)
    BY <1>4 DEF AddFunctionForUnload, At
  <2>2. PlainRest(t)
    BY <1>1, <1>2, <1>4, <2>1 DEF PlainRest, AddFunctionForUnload, Hosts, singletonVars
  <2>3. stack[t][Len(stack[t]) - 1].fn \in Fns
    <3> DEFINE n == Depth(t)
    <3>1. n \in Nat /\ n >= 1 /\ stack[t][n].op = "AddForUnload" /\ StackOK(stack[t])
      BY <1>1, <2>1, StackOf
    <3>2. n # 1
      BY <1>1, <3>1, StackOf DEF StackOK, Inner
    <3>a. Len(stack[t]) = n /\ DOMAIN stack[t] = 1 .. n
      BY StackOf DEF Depth
    <3> HIDE DEF n
    <3>3. n - 1 \in 1 .. Len(stack[t]) - 1 /\ n = (n - 1) + 1 /\ n - 1 \in DOMAIN stack[t]
      BY <3>1, <3>2, <3>a
    <3>4. stack[t][n - 1].op = "Function" /\ Shaped(stack[t][n - 1])
      BY <3>1, <3>3 DEF StackOK, MayMake
    <3> QED
      BY <3>4, <3>a DEF Shaped, n
  <2>4. ListsKeep
    BY <1>4, <2>3 DEF AddFunctionForUnload, ListsKeep, RTypes, VarTypes
  <2> QED
    BY <2>1, <2>2, <2>4, StepLeaves
<1> QED
  BY <1>3, <1>4

\* Loading a library: its static constructors and the end of TfDlopen.
LEMMA LoadKeeps ==
  ASSUME SInv, RTypes, NEW t \in Threads,
         \/ LoadOpen(t) \/ LoadAdd(t) \/ LoadActivate(t)
         \/ LoadGlobal(t) \/ LoadClose(t) \/ LoadUnlock(t)
  PROVE  SInv' /\ RTypes'
<1> DEFINE l == Top(t).lib
           call(pc, added) == [op |-> "Load", pc |-> pc, lib |-> l, added |-> added]
<1>1. stack[t] # <<>> /\ Top(t).op = "Load"
  BY DEF LoadOpen, LoadAdd, LoadActivate, LoadGlobal, LoadClose, LoadUnlock, At
<1>2. Shaped(Top(t)) /\ Plain(Top(t))
  BY <1>1, StackOf DEF Plain, SingletonOps
<1>3. Top(t) = call(Top(t).pc, Top(t).added) /\ l \in Libs /\ Top(t).added \in 0 .. Len(Adds[l])
  BY <1>1, <1>2 DEF Shaped
<1>4. \A pc : /\ [Top(t) EXCEPT !.pc = pc] = call(pc, Top(t).added)
              /\ Sound(call(pc, Top(t).added))
              /\ call(pc, Top(t).added).op = Top(t).op
  BY <1>1, <1>3 DEF Sound, Plain, Shaped, SingletonOps, Ops
<1>5. Adds[l] \in Seq(Fns) /\ Len(Adds[l]) \in Nat
  BY <1>3, RegistryAssumption
<1>6. /\ Hosts(Top(t)) <=> Top(t).pc = "Close"
      /\ ~Hosts(Top(t)) => ref[t] = 0
  BY <1>1, StackOf DEF Hosts
<1>7. ASSUME LoadOpen(t) PROVE SInv' /\ RTypes'
  <2>1. PlainRest(t)
    BY <1>1, <1>2, <1>6, <1>7 DEF PlainRest, LoadOpen, singletonVars, At
  <2>2. ListsKeep
    BY <1>7 DEF LoadOpen, ListsKeep, RTypes, VarTypes, listVars
  <2>3. Leave(t) \/ Update(t, [Top(t) EXCEPT !.pc = "Add"])
    BY <1>7 DEF LoadOpen, Goto
  <2> HIDE DEF call
  <2> QED
    BY <1>4, <2>1, <2>2, <2>3, StepLeaves, StepUpdates
<1>8. ASSUME LoadAdd(t) PROVE SInv' /\ RTypes'
  <2>1. Top(t).pc = "Add" /\ Top(t).added < Len(Adds[l])
    BY <1>8 DEF LoadAdd, At
  <2>2. CASE LockAndProcess(t, "Activate")
    BY <1>1, <1>6, <2>1, <2>2, LockKeeps
  <2>3. CASE ~LockAndProcess(t, "Activate")
    <3> DEFINE c == [Top(t) EXCEPT !.added = @ + 1]
               f == Adds[l][Top(t).added + 1]
    <3>1. /\ active' = [active EXCEPT ![t].fns = Append(@, f)] /\ Update(t, c)
          /\ UNCHANGED <<singletonVars, mutex, ordered, fns, unloads, cur>>
      BY <1>8, <2>3 DEF LoadAdd
    <3>2. Top(t).added + 1 \in 1 .. Len(Adds[l]) /\ Top(t).added \in Nat
      BY <1>3, <1>5, <2>1
    <3>3. f \in Fns
      BY <1>5, <3>2
    <3>4. c = call(Top(t).pc, Top(t).added + 1)
      BY <1>3
    <3>5. Sound(c) /\ c.op = Top(t).op
      BY <1>1, <1>3, <3>2, <3>4 DEF Sound, Plain, Shaped, SingletonOps, Ops
    <3>6. PlainRest(t)
      BY <1>1, <1>2, <1>6, <2>1, <3>1 DEF PlainRest, singletonVars
    <3>7. active' \in [Threads -> [lib : LibOrNone, fns : Seq(Fns)]]
      <4> HIDE DEF f, c
      <4>1. /\ active \in [Threads -> [lib : LibOrNone, fns : Seq(Fns)]]
            /\ active[t] = [lib |-> active[t].lib, fns |-> active[t].fns]
            /\ active[t].lib \in LibOrNone /\ active[t].fns \in Seq(Fns)
        BY DEF RTypes, VarTypes
      <4>2. Append(active[t].fns, f) \in Seq(Fns)
        BY <3>3, <4>1
      <4> DEFINE list == Append(active[t].fns, f)
      <4>3. active' = [active EXCEPT ![t].fns = list]
        BY <3>1, <4>1
      <4> HIDE DEF list
      <4>4. active' = [active EXCEPT ![t] = [lib |-> active[t].lib, fns |-> list]]
        <5>1. active' = [active EXCEPT ![t] = [active[t] EXCEPT !.fns = list]]
          BY <4>1, <4>3
        <5>2. [active[t] EXCEPT !.fns = list] = [lib |-> active[t].lib, fns |-> list]
          BY <4>1
        <5> QED
          BY <5>1, <5>2
      <4> QED
        BY <4>1, <4>2, <4>4 DEF list
    <3>8. ListsKeep
      BY <3>1, <3>7 DEF ListsKeep, RTypes, VarTypes
    <3> HIDE DEF c
    <3> QED
      BY <3>1, <3>5, <3>6, <3>8, StepUpdates
  <2> QED
    BY <2>2, <2>3
<1>9. ASSUME LoadActivate(t) PROVE SInv' /\ RTypes'
  <2>1. PlainRest(t)
    BY <1>1, <1>2, <1>6, <1>9 DEF PlainRest, LoadActivate, singletonVars, At
  <2>2. [lib |-> l, fns |-> <<>>] \in [lib : LibOrNone, fns : Seq(Fns)]
    BY <1>3 DEF LibOrNone
  <2>3. ListsKeep
    BY <1>9, <2>2 DEF LoadActivate, ListsKeep, RTypes, VarTypes
  <2>4. Update(t, [Top(t) EXCEPT !.pc = "Add"])
    BY <1>9 DEF LoadActivate, Goto
  <2> HIDE DEF call
  <2> QED
    BY <1>4, <2>1, <2>3, <2>4, StepUpdates
<1>10. ASSUME LoadGlobal(t) PROVE SInv' /\ RTypes'
  <2>1. PlainRest(t)
    BY <1>1, <1>2, <1>6, <1>10 DEF PlainRest, LoadGlobal, singletonVars, At
  <2>2. ListsKeep
    BY <1>10 DEF LoadGlobal, ListsKeep, RTypes, VarTypes, listVars
  <2> DEFINE c == [Top(t) EXCEPT !.pc = "Close"]
  <2>3. CASE Update(t, c)
    <3> HIDE DEF call
    <3> QED
      BY <1>4, <2>1, <2>2, <2>3, StepUpdates
  <2>4. CASE \E d \in Globals[l] : Become(t, Append(Front(stack[t]), c) \o <<d>>)
    <3>1. PICK d \in Globals[l] : Become(t, Append(Front(stack[t]), c) \o <<d>>)
      BY <2>4
    <3>2. d \in UserCalls
      BY <1>3, CallsAssumption
    <3>3. Sound(d) \/ d = GetCall
      BY <3>2, UserCallsAreSound
    <3>4. c.op = "Load" /\ c.pc = "Close"
      BY <1>3
    <3>5. d.op # "AddForUnload"
      BY <3>2 DEF UserCalls, GetCall, SubscribeCall, LoadCall
    <3>6. MayMake(c, d)
      BY <3>4, <3>5 DEF MayMake, Hosts
    <3>7. Sound(c) /\ c.op = Top(t).op
      BY <1>4
    <3> HIDE DEF c
    <3> QED
      BY <2>1, <2>2, <3>1, <3>3, <3>6, <3>7, StepCalls
  <2> QED
    BY <1>10, <2>3, <2>4 DEF LoadGlobal, Goto, GotoAndEnter
<1>11. ASSUME LoadClose(t) PROVE SInv' /\ RTypes'
  <2>1. ref[t] = 0
    BY <1>11 DEF LoadClose
  <2>2. CASE LockAndProcess(t, "Unlock")
    BY <1>1, <2>1, <2>2, LockKeeps
  <2>3. CASE ~LockAndProcess(t, "Unlock")
    <3>1. PlainRest(t) /\ Leave(t)
      BY <1>1, <1>2, <1>11, <2>1, <2>3 DEF PlainRest, LoadClose, singletonVars
    <3>2. ListsKeep
      BY <1>11, <2>3 DEF LoadClose, ListsKeep, RTypes, VarTypes, listVars
    <3> QED
      BY <3>1, <3>2, StepLeaves
  <2> QED
    BY <2>2, <2>3
<1>12. ASSUME LoadUnlock(t) PROVE SInv' /\ RTypes'
  <2>1. PlainRest(t) /\ Leave(t)
    BY <1>1, <1>2, <1>6, <1>12 DEF PlainRest, LoadUnlock, singletonVars, At
  <2>2. ListsKeep
    BY <1>12 DEF LoadUnlock, ListsKeep, RTypes, VarTypes, listVars
  <2> QED
    BY <2>1, <2>2, StepLeaves
<1> QED
  BY <1>7, <1>8, <1>9, <1>10, <1>11, <1>12

-----------------------------------------------------------------------------
(* Steps that begin or end with no call of T's that takes part.            *)

\* A step that touches no stack keeps the roles.
LEMMA StackStays ==
  ASSUME SInv, NEW t \in Threads, UNCHANGED stack
  PROVE  KeepsRoles(t)
<1>1. DOMAIN stack = Threads /\ StackOK(stack[t])
  BY StackOf
<1>2. Roles(stack[t], stack[t])
  BY <1>1 DEF Roles, Alike
<1> QED
  BY <1>1, <1>2 DEF KeepsRoles

\* Unloading a library.
LEMMA UnloadKeeps ==
  ASSUME SInv, RTypes, NEW t \in Threads, NEW l \in Libs, UnloadLibrary(t, l)
  PROVE  SInv' /\ RTypes'
<1>1. UNCHANGED <<stack, instance, initState, isInitializing, made, alive, ref>>
  BY DEF UnloadLibrary, singletonVars
<1>2. SInv'
  <2>1. OneDeleter' /\ RefOK(t)'
    BY <1>1 DEF SInv, RefsOK, RefOK, OneDeleter
  <2> QED
    BY <1>1, <2>1, StackStays, RolesKept DEF SInv, RefsOK
<1>3. fns' \in [Types -> Seq(Fns)]
  <2>1. ASSUME NEW ty \in Types PROVE ForgetFns(l, ty) \in Seq(Fns)
    <3>1. fns[ty] \in Seq(Fns)
      BY DEF RTypes, VarTypes
    <3> DEFINE S == Fns \ FnsOf(l)
    <3>2. Fns \cap S = S /\ S \subseteq Fns
      OBVIOUS
    <3> HIDE DEF S
    <3>3. Only(fns[ty], S) \in Seq(Fns \cap S)
      BY <3>1, OnlyMembers
    <3>4. Only(fns[ty], S) \in Seq(Fns)
      BY <3>2, <3>3
    <3> QED
      BY <3>4 DEF ForgetFns, S
  <2> QED
    BY <2>1 DEF UnloadLibrary
<1>4. unloads' \in [Libs -> Seq(Fns)]
  <2>1. <<>> \in Seq(Fns)
    OBVIOUS
  <2> QED
    BY <2>1 DEF UnloadLibrary, RTypes, VarTypes
<1>5. RTypes'
  BY <1>1, <1>3, <1>4 DEF UnloadLibrary, RTypes, VarTypes, UpdatesListed
<1> QED
  BY <1>2, <1>5

\* A thread that forgets its reference.
LEMMA DropKeeps ==
  ASSUME SInv, RTypes, NEW t \in Threads, Drop(t)
  PROVE  SInv' /\ RTypes'
<1>1. /\ UNCHANGED <<stack, instance, initState, isInitializing, made, alive>>
      /\ ref[t] # 0 /\ ref' = [ref EXCEPT ![t] = 0] /\ DOMAIN ref = Threads
  BY DEF Drop, SInv, RefsOK
<1>2. NoDeletes
  BY <1>1, BusyMeansNoDeletes
<1>3. RefOK(t)' /\ \A i \in DOMAIN stack'[t] : stack'[t][i].op # "Delete"
  BY <1>1, <1>2 DEF RefOK, NoDeletes
<1>4. SInv'
  BY <1>1, <1>2, <1>3, StackStays, CallsKept
<1>5. RTypes'
  BY <1>1 DEF Drop, listVars, RTypes, VarTypes, UpdatesListed
<1> QED
  BY <1>4, <1>5

\* A thread that begins a call, other than to delete.
LEMMA BeginKeeps ==
  ASSUME SInv, RTypes, NEW t \in Threads, BeginCall(t)
  PROVE  SInv' /\ RTypes'
<1>1. PICK call \in UserCalls : Begin(t, call)
  BY DEF BeginCall
<1>2. stack[t] = <<>> /\ ref[t] = 0 /\ Enter(t, call) /\ UNCHANGED <<singletonVars, mutex, listVars, cur>>
  BY <1>1 DEF Begin
<1>3. Sound(call) \/ call = GetCall
  BY UserCallsAreSound
<1>4. call.op \notin Inner /\ call.op # "Delete"
  BY DEF UserCalls, GetCall, SubscribeCall, LoadCall, Inner
<1>5. NoDeletes
  BY DEF BeginCall, NobodyDeletes, NoDeletes, Calls, Range
<1>6. HasBegun(t, call)
  BY <1>2, Begins
<1>7. Moves(stack[t], Append(stack[t], call))
  <2>1. StackOK(stack[t])
    BY StackOf
  <2> QED
    BY <1>2, <1>3, <1>4, <2>1, PlainCalls DEF Sound
<1>8. stack'[t] = Append(stack[t], call)
  BY <1>2, StackOf DEF Enter, Become
<1>9. KeepsRoles(t)
  BY <1>6, <1>7, <1>8 DEF KeepsRoles, HasBegun, OthersStay, Moves
<1>10. \A i \in DOMAIN stack'[t] : stack'[t][i].op # "Delete"
  BY <1>4, <1>6 DEF HasBegun
<1>11. DOMAIN ref' = Threads /\ (\A u \in Threads \ {t} : ref'[u] = ref[u]) /\ RefOK(t)'
  BY <1>2 DEF SInv, RefsOK, RefOK, singletonVars
<1>12. SInv'
  BY <1>2, <1>5, <1>9, <1>10, <1>11, CallsKept DEF singletonVars
<1>13. ListsKeep
  BY <1>2 DEF ListsKeep, RTypes, VarTypes, listVars
<1>14. \A i \in DOMAIN stack'[t] : stack'[t][i].op = "Update" => Listed(stack'[t][i].type, ordered')
  BY <1>3, <1>6 DEF HasBegun, Sound, GetCall
<1>15. RTypes'
  BY <1>6, <1>13, <1>14, ListsKept DEF HasBegun, OthersStay
<1> QED
  BY <1>12, <1>15

-----------------------------------------------------------------------------
(* GetInstance. *)

\* The registry does not see what T's calls do.
LEMMA TypesUnseen ==
  ASSUME SInv, RTypes, NEW t \in Threads, UNCHANGED <<mutex, listVars, cur>>,
         DOMAIN stack' = Threads, \A u \in Threads \ {t} : stack'[u] = stack[u],
         \A i \in DOMAIN stack'[t] :
           \/ stack'[t][i].op # "Update"
           \/ i \in DOMAIN stack[t] /\ stack'[t][i] = stack[t][i]
  PROVE  RTypes'
<1>1. ListsKeep
  BY DEF ListsKeep, RTypes, VarTypes, listVars
<1> QED
  BY <1>1, ListsKept

\* The singleton does not touch the registry: returns
LEMMA TypesAfterLeave ==
  ASSUME SInv, RTypes, NEW t \in Threads, stack[t] # <<>>, HasLeft(t), UNCHANGED <<mutex, listVars, cur>>
  PROVE  RTypes'
<1>1. \A i \in DOMAIN stack'[t] : i \in DOMAIN stack[t] /\ stack'[t][i] = stack[t][i]
  BY StackOf DEF HasLeft, OthersStay
<1> QED
  BY <1>1, TypesUnseen DEF HasLeft, OthersStay

\* and other steps of its calls.
LEMMA TypesAfterUpdate ==
  ASSUME SInv, RTypes, NEW t \in Threads, stack[t] # <<>>, NEW c, HasBecome(t, c),
         c.op # "Update", UNCHANGED <<mutex, listVars, cur>>
  PROVE  RTypes'
<1>1. \A i \in DOMAIN stack'[t] :
         \/ stack'[t][i].op # "Update"
         \/ i \in DOMAIN stack[t] /\ stack'[t][i] = stack[t][i]
  BY StackOf DEF HasBecome, OthersStay
<1> QED
  BY <1>1, TypesUnseen DEF HasBecome, OthersStay

GetRecord(pc, object) == [op |-> "Get", pc |-> pc, object |-> object]

\* What is known of a thread in GetInstance.
LEMMA GetAt ==
  ASSUME SInv, NEW t \in Threads, NEW pc, At(t, "Get", pc)
  PROVE  /\ stack[t] # <<>> /\ Top(t) = GetRecord(pc, Top(t).object)
         /\ pc \in {"Load", "Owner", "Exchange", "Check", "Publish", "Clear", "Wait", "Reload"}
         /\ \A pc2 : [Top(t) EXCEPT !.pc = pc2] = GetRecord(pc2, Top(t).object)
         /\ ref[t] = 0 /\ NoDeletes /\ Shaped(Top(t))
         /\ Depth(t) \in DOMAIN stack[t] /\ Depth(t) \in Nat /\ Depth(t) >= 1
         /\ Top(t) = stack[t][Depth(t)]
         /\ Depth(t) - 1 \in DOMAIN stack[t] => Hosts(stack[t][Depth(t) - 1])
<1>1. stack[t] # <<>> /\ Top(t).op = "Get" /\ Top(t).pc = pc
  BY DEF At
<1>2. /\ Top(t) = GetRecord(pc, Top(t).object) /\ Shaped(Top(t))
      /\ pc \in {"Load", "Owner", "Exchange", "Check", "Publish", "Clear", "Wait", "Reload"}
  BY <1>1, StackOf DEF Shaped, SingletonOps, GetRecord
<1>3. \A pc2 : [Top(t) EXCEPT !.pc = pc2] = GetRecord(pc2, Top(t).object)
  BY <1>2 DEF GetRecord
<1>4. /\ Depth(t) \in DOMAIN stack[t] /\ Depth(t) \in Nat /\ Depth(t) >= 1
      /\ Top(t) = stack[t][Depth(t)] /\ DOMAIN stack[t] = 1 .. Depth(t) /\ StackOK(stack[t])
  BY <1>1, StackOf
<1>5. ref[t] = 0
  BY <1>1, StackOf DEF Hosts
<1>6. NoDeletes
  BY <1>1, <1>4, BusyMeansNoDeletes
<1>7. Depth(t) - 1 \in DOMAIN stack[t] => Hosts(stack[t][Depth(t) - 1])
  <2> SUFFICES ASSUME Depth(t) - 1 \in DOMAIN stack[t] PROVE Hosts(stack[t][Depth(t) - 1])
    OBVIOUS
  <2> DEFINE n == Depth(t)
             k == n - 1
  <2>1. k \in 1 .. Len(stack[t]) - 1 /\ k + 1 = n
    BY <1>4 DEF Depth
  <2>2. stack[t][k + 1].op = "Get"
    BY <1>1, <1>4, <2>1
  <2> HIDE DEF k
  <2>3. Hosts(stack[t][k])
    BY <1>4, <2>1, <2>2 DEF StackOK, MayMake
  <2> QED
    BY <2>3 DEF k
<1> QED
  BY <1>1, <1>2, <1>3, <1>4, <1>5, <1>6, <1>7

GetReturns(t, o) ==
  /\ stack[t] # <<>> /\ ReturnReference(t, o)
  /\ UNCHANGED <<instance, initState, isInitializing, made, alive, mutex, listVars, cur>>
  /\ o # 0 => o \in alive /\ (o = instance \/ initState = [thread |-> t, object |-> o])

\* GetInstance returns what is published, or what its own thread constructs.
LEMMA GetReturnKeeps ==
  ASSUME SInv, RTypes, NEW t \in Threads,
         NEW pc \in {"Load", "Owner", "Reload"}, At(t, "Get", pc), NEW o, GetReturns(t, o)
  PROVE  SInv' /\ RTypes'
<1> DEFINE n == Depth(t)
<1>1. /\ n \in Nat /\ n >= 1 /\ Top(t) = stack[t][n] /\ Top(t) = GetRecord(pc, Top(t).object)
      /\ NoDeletes /\ StackOK(stack[t]) /\ DOMAIN stack[t] = 1 .. n
      /\ n - 1 \in DOMAIN stack[t] => Hosts(stack[t][n - 1])
  BY GetAt, StackOf
<1>2. HasLeft(t)
  BY Leaves DEF GetReturns, ReturnReference
<1>3. Idle(stack[t][n])
  BY <1>1 DEF Idle, GetRecord, OwnerCall, DeleterCall
<1>4. Roles(stack[t], Front(stack[t]))
  BY <1>1, <1>3, RolesReturn DEF GetReturns, Depth
<1>5. stack'[t] = Front(stack[t])
  BY StackOf DEF GetReturns, ReturnReference, Leave, Become
<1>6. KeepsRoles(t)
  BY <1>2, <1>4, <1>5 DEF KeepsRoles, HasLeft, OthersStay
<1>7. \A i \in DOMAIN stack'[t] : i \in DOMAIN stack[t] /\ stack'[t][i] = stack[t][i]
  BY <1>1, <1>2 DEF HasLeft, OthersStay
<1>8. \A i \in DOMAIN stack'[t] : stack'[t][i].op # "Delete"
  BY <1>1, <1>7 DEF NoDeletes
<1>9. DOMAIN ref' = Threads /\ ref'[t] = o /\ \A u \in Threads \ {t} : ref'[u] = ref[u]
  BY DEF SInv, RefsOK, GetReturns, ReturnReference
<1>10. RefOK(t)'
  <2>1. SUFFICES ASSUME o # 0 PROVE stack'[t] = <<>> \/ Hosts(stack'[t][Len(stack'[t])])
    BY <1>9 DEF RefOK, GetReturns
  <2>2. IsList(stack'[t]) /\ Len(stack'[t]) = n - 1
    BY <1>1, <1>5, Popped DEF StackOK, GetReturns, Depth
  <2>3. CASE n = 1
    BY <2>2, <2>3 DEF IsList
  <2>4. CASE n # 1
    BY <1>1, <1>7, <1>2, <2>2, <2>4 DEF HasLeft
  <2> QED
    BY <2>3, <2>4
<1>11. SInv'
  BY <1>1, <1>6, <1>8, <1>9, <1>10, CallsKept DEF GetReturns
<1>12. RTypes'
  BY <1>2, TypesAfterLeave DEF GetReturns
<1> QED
  BY <1>11, <1>12

\* Steps of GetInstance that win and write nothing.
LEMMA GetGoesOnKeeps ==
  ASSUME SInv, RTypes, NEW t \in Threads,
         NEW pc \in {"Load", "Owner", "Exchange", "Wait"}, At(t, "Get", pc),
         NEW pc2 \in {"Owner", "Exchange", "Wait", "Reload"}, Goto(t, pc2),
         UNCHANGED <<instance, initState, made, alive, ref, mutex, listVars, cur>>,
         isInitializing' \in {isInitializing, TRUE}
  PROVE  SInv' /\ RTypes'
<1> DEFINE c == [Top(t) EXCEPT !.pc = pc2]
           n == Depth(t)
<1>1. /\ stack[t] # <<>> /\ ref[t] = 0 /\ NoDeletes /\ StackOK(stack[t])
      /\ Top(t) = stack[t][n] /\ Top(t) = GetRecord(pc, Top(t).object)
      /\ c = GetRecord(pc2, Top(t).object)
  BY GetAt, StackOf
<1>2. Update(t, c)
  BY DEF Goto
<1>3. Shaped(c) /\ Idle(c) /\ c.op = "Get" /\ Idle(Top(t)) /\ Top(t).op = "Get"
  BY <1>1 DEF Shaped, Idle, GetRecord, OwnerCall, DeleterCall, Ops, SingletonOps
<1> HIDE DEF c
<1>4. Roles(stack[t], Append(Front(stack[t]), c))
  BY <1>1, <1>3, RolesGoOn DEF Depth
<1>5. HasBecome(t, c) /\ stack'[t] = Append(Front(stack[t]), c)
  BY <1>1, <1>2, Becomes, StackOf DEF Update, Become
<1>6. KeepsRoles(t)
  BY <1>4, <1>5 DEF KeepsRoles, HasBecome, OthersStay
<1>7. \A i \in DOMAIN stack'[t] : stack'[t][i].op # "Delete"
  <2>1. \A i \in DOMAIN stack'[t] : stack'[t][i] = c \/ (i \in DOMAIN stack[t] /\ stack'[t][i] = stack[t][i])
    BY <1>5, StackOf DEF HasBecome, OthersStay
  <2> QED
    BY <1>1, <1>3, <2>1 DEF NoDeletes
<1>8. DOMAIN ref' = Threads /\ (\A u \in Threads \ {t} : ref'[u] = ref[u]) /\ RefOK(t)'
  BY <1>1 DEF SInv, RefsOK, RefOK
<1>9. SInv'
  BY <1>1, <1>6, <1>7, <1>8, CallsKept
<1>10. RTypes'
  BY <1>1, <1>3, <1>5, TypesAfterUpdate
<1> QED
  BY <1>9, <1>10

\* While a GetInstance waits for the constructor, it or the constructor builds.
LEMMA PublishersBuild ==
  ASSUME SInv, NEW u \in Threads, NEW i \in DOMAIN stack[u],
         stack[u][i].op = "Get", stack[u][i].pc = "Publish"
  PROVE  \E j \in DOMAIN stack[u] : Builds(u, j)
<1> DEFINE n == Depth(u)
<1>1. StackOK(stack[u]) /\ n \in Nat /\ DOMAIN stack[u] = 1 .. n
  BY StackOf
<1>2. CASE i = n
  BY <1>2 DEF Builds, Depth
<1>3. CASE i # n
  <2>1. i \in 1 .. n - 1 /\ i + 1 \in 1 .. n
    BY <1>1, <1>3
  <2>2. stack[u][i + 1].op = "Constructor"
    BY <1>1, <2>1 DEF StackOK, Depth
  <2> QED
    BY <1>1, <2>1, <2>2 DEF Builds
<1> QED
  BY <1>2, <1>3

\* What builds has the initialization, it or the GetInstance that it was called by.
LEMMA BuildersOwn ==
  ASSUME SInv, NEW u \in Threads, NEW i \in DOMAIN stack[u], Builds(u, i)
  PROVE  \E j \in DOMAIN stack[u] :
           /\ OwnerCall(stack[u][j])
           /\ stack[u][j].op = "Get" /\ stack[u][j].pc = "Publish"
           /\ IF stack[u][i].op = "Constructor" THEN j + 1 = i ELSE j = i
<1> DEFINE n == Depth(u)
<1>1. StackOK(stack[u]) /\ n \in Nat /\ DOMAIN stack[u] = 1 .. n
  BY StackOf
<1>2. CASE stack[u][i].op = "Constructor"
  <2> DEFINE j == i - 1
  <2>1. i # 1
    BY <1>1, <1>2 DEF StackOK, Inner
  <2>2. j \in 1 .. n - 1 /\ j \in 1 .. n /\ j + 1 = i
    BY <1>1, <2>1
  <2> HIDE DEF j
  <2>3. stack[u][j].op = "Get" /\ stack[u][j].pc = "Publish"
    BY <1>1, <1>2, <2>2 DEF StackOK, Depth
  <2> QED
    BY <1>1, <1>2, <2>2, <2>3 DEF OwnerCall
<1>3. CASE stack[u][i].op # "Constructor"
  BY <1>3 DEF Builds, OwnerCall
<1> QED
  BY <1>2, <1>3

\* The object of _initState exists.
LEMMA DeclaredObjectLives ==
  ASSUME SInv, NoDeletes, initState.object # 0
  PROVE  initState.object \in alive
<1>1. CASE instance # 0
  BY <1>1 DEF SInv, Published
<1>2. CASE alive = {} /\ initState = NoInit
  BY <1>2 DEF NoInit
<1>3. ASSUME NEW u \in Threads, NEW i \in DOMAIN stack[u],
             stack[u][i].op = "Get", stack[u][i].pc = "Publish"
      PROVE  initState.object \in alive
  <2>1. PICK j \in DOMAIN stack[u] : Builds(u, j)
    BY <1>3, PublishersBuild
  <2>2. /\ alive = {stack[u][j].object}
        /\ initState = IF stack[u][j].pc = "Declare" THEN NoInit
                       ELSE [thread |-> u, object |-> stack[u][j].object]
    BY <2>1 DEF SInv, BuildersOK
  <2> QED
    BY <2>2 DEF NoInit
<1> QED
  BY <1>1, <1>2, <1>3 DEF SInv, Vacant, NoDeletes, DeleterCall

\* The steps in which GetInstance finds somebody else's object, or waits.
LEMMA GetKeeps ==
  ASSUME SInv, RTypes, NEW t \in Threads, UNCHANGED <<mutex, listVars, cur>>,
         \/ GetLoad(t) \/ GetOwner(t) \/ GetWait(t) \/ GetReload(t)
         \/ GetExchange(t) /\ isInitializing = TRUE
  PROVE  SInv' /\ RTypes'
<1>1. CASE GetLoad(t)
  <2>1. At(t, "Get", "Load") /\ stack[t] # <<>>
    BY <1>1 DEF GetLoad, At
  <2>2. CASE ReturnReference(t, instance) /\ instance # 0
    <3>1. GetReturns(t, instance)
      BY <1>1, <2>1, <2>2 DEF GetReturns, GetLoad, SInv, Published
    <3> QED
      BY <2>1, <3>1, GetReturnKeeps
  <2>3. CASE Goto(t, "Owner") /\ UNCHANGED ref
    BY <1>1, <2>1, <2>3, GetGoesOnKeeps DEF GetLoad
  <2> QED
    BY <1>1, <2>2, <2>3 DEF GetLoad
<1>2. CASE GetOwner(t)
  <2>1. At(t, "Get", "Owner") /\ stack[t] # <<>>
    BY <1>2 DEF GetOwner, At
  <2>2. CASE ReturnReference(t, initState.object) /\ IsInitializer(t)
    <3>1. NoDeletes
      BY <2>1, GetAt
    <3>2. initState.object # 0 => initState.object \in alive
      BY <3>1, DeclaredObjectLives
    <3>3. initState = [thread |-> t, object |-> initState.object]
      BY <2>2 DEF SInv, IsInitializer
    <3>4. GetReturns(t, initState.object)
      BY <1>2, <2>1, <2>2, <3>2, <3>3 DEF GetReturns, GetOwner
    <3> QED
      BY <2>1, <3>4, GetReturnKeeps
  <2>3. CASE Goto(t, "Exchange") /\ UNCHANGED ref
    BY <1>2, <2>1, <2>3, GetGoesOnKeeps DEF GetOwner
  <2> QED
    BY <1>2, <2>2, <2>3 DEF GetOwner
<1>3. CASE GetWait(t)
  <2>1. At(t, "Get", "Wait") /\ Goto(t, "Reload")
    BY <1>3 DEF GetWait
  <2> QED
    BY <1>3, <2>1, GetGoesOnKeeps DEF GetWait, singletonVars
<1>4. CASE GetReload(t)
  <2>1. At(t, "Get", "Reload") /\ stack[t] # <<>>
    BY <1>4 DEF GetReload, At
  <2>2. GetReturns(t, instance)
    BY <1>4, <2>1 DEF GetReturns, GetReload, SInv, Published
  <2> QED
    BY <2>1, <2>2, GetReturnKeeps
<1>5. CASE GetExchange(t) /\ isInitializing = TRUE
  <2>1. At(t, "Get", "Exchange") /\ Goto(t, "Wait")
    BY <1>5 DEF GetExchange
  <2> QED
    BY <1>5, <2>1, GetGoesOnKeeps DEF GetExchange
<1> QED
  BY <1>1, <1>2, <1>3, <1>4, <1>5

-----------------------------------------------------------------------------
(* The initialization: its owner wins it, constructs, publishes, ends it.  *)

OnlyOwner(t, n) ==
  \A u \in Threads : \A i \in DOMAIN stack[u] : OwnerCall(stack[u][i]) => u = t /\ i = n

\* What becomes of the parts that the four steps of the owner have in common.
OwnerStep(t, n, c) ==
  /\ HasBecome(t, c) /\ Depth(t) = n
  /\ n \in DOMAIN stack[t] /\ DOMAIN stack'[t] = DOMAIN stack[t] /\ Len(stack'[t]) = n
  /\ OnlyOwner(t, n) /\ OnlyOwner(t, n)'
  /\ NoDeletes /\ NoDeletes'
  /\ StacksOK' /\ OneOwner' /\ OneDeleter' /\ DeletersOK' /\ RTypes'
  /\ \A u \in Threads : \A i \in DOMAIN stack'[u] :
       (u = t /\ i = n) \/ (i \in DOMAIN stack[u] /\ stack'[u][i] = stack[u][i])
  /\ \A u \in Threads : \A i \in DOMAIN stack[u] :
       (u = t /\ i = n) \/ (i \in DOMAIN stack'[u] /\ stack'[u][i] = stack[u][i])
  /\ \A u \in Threads : \A i \in DOMAIN stack'[u] :
       Builds(u, i)' => (u = t /\ i = n) \/ Builds(u, i)

\* Steps of the frame that has won isInitializing.
LEMMA OwnerGoesOn ==
  ASSUME SInv, RTypes, NEW t \in Threads,
         NEW pc \in {"Exchange", "Check", "Publish", "Clear"}, At(t, "Get", pc),
         NEW pc2 \in {"Check", "Clear", "Reload"}, Goto(t, pc2),
         pc = "Exchange" => isInitializing = FALSE,
         pc2 # "Reload" => isInitializing' = TRUE,
         UNCHANGED <<ref, mutex, listVars, cur>>, NEW n, n = Depth(t)
  PROVE  OwnerStep(t, n, GetRecord(pc2, Top(t).object))
<1> DEFINE c == GetRecord(pc2, Top(t).object)
<1>1. /\ stack[t] # <<>> /\ ref[t] = 0 /\ NoDeletes /\ StackOK(stack[t])
      /\ Top(t) = stack[t][n] /\ Top(t) = GetRecord(pc, Top(t).object)
      /\ c = [Top(t) EXCEPT !.pc = pc2]
      /\ n \in Nat /\ n \in DOMAIN stack[t] /\ DOMAIN stack[t] = 1 .. n
  BY GetAt, StackOf
<1>2. Update(t, c)
  BY <1>1 DEF Goto
<1>3. Shaped(c) /\ c.op = "Get" /\ c.op = stack[t][Len(stack[t])].op
  BY <1>1 DEF Shaped, GetRecord, Ops, SingletonOps, Depth
<1>4. Top(t).op = "Get" /\ Top(t).pc = pc /\ c.pc = pc2
  BY <1>1 DEF GetRecord
<1> HIDE DEF c
<1>5. HasBecome(t, c) /\ stack'[t] = Append(Front(stack[t]), c)
  BY <1>1, <1>2, Becomes, StackOf DEF Update, Become
<1>6. StackOK(stack'[t])
  BY <1>1, <1>3, <1>5, ReplaceOK
<1>7. DOMAIN stack'[t] = DOMAIN stack[t] /\ Len(stack'[t]) = n
  <2>1. IsList(stack[t]) /\ Len(stack[t]) = n
    BY <1>1 DEF StackOK, Depth
  <2>2. /\ Len(Append(Front(stack[t]), c)) = Len(stack[t])
        /\ DOMAIN Append(Front(stack[t]), c) = 1 .. Len(stack[t])
    BY <1>1, <2>1, Replaced
  <2> QED
    BY <1>1, <1>5, <2>1, <2>2
<1>8. DOMAIN stack' = Threads /\ \A u \in Threads \ {t} : stack'[u] = stack[u]
  BY <1>5 DEF HasBecome, OthersStay
<1>9. \A i \in 1 .. n : i = n \/ stack'[t][i] = stack[t][i]
  BY <1>1, <1>5 DEF HasBecome, OthersStay
<1>10. stack'[t][n] = c
  BY <1>5 DEF HasBecome
<1>11. \A u \in Threads : \A i \in DOMAIN stack'[u] :
         (u = t /\ i = n) \/ (i \in DOMAIN stack[u] /\ stack'[u][i] = stack[u][i])
  BY <1>1, <1>7, <1>8, <1>9
<1>12. \A u \in Threads : \A i \in DOMAIN stack[u] :
         (u = t /\ i = n) \/ (i \in DOMAIN stack'[u] /\ stack'[u][i] = stack[u][i])
  BY <1>1, <1>7, <1>8, <1>9
<1>13. OnlyOwner(t, n)
  <2>1. CASE pc = "Exchange"
    BY <2>1 DEF SInv, OneOwner, OnlyOwner
  <2>2. CASE pc # "Exchange"
    <3>1. OwnerCall(stack[t][n])
      BY <1>1, <1>4, <2>2 DEF OwnerCall
    <3> QED
      BY <1>1, <3>1 DEF SInv, OneOwner, OnlyOwner
  <2> QED
    BY <2>1, <2>2
<1>14. OnlyOwner(t, n)'
  BY <1>11, <1>13 DEF OnlyOwner, OwnerCall
<1>15. NoDeletes'
  <2>1. stack'[t][n].op # "Delete"
    BY <1>3, <1>10
  <2>2. \A u \in Threads : \A i \in DOMAIN stack'[u] : stack'[u][i].op # "Delete"
    BY <1>1, <1>11, <2>1 DEF NoDeletes
  <2> QED
    BY <2>2 DEF NoDeletes
<1>16. StacksOK'
  BY <1>6, <1>8 DEF SInv, StacksOK
<1>17. OneOwner'
  <2>1. \A u, v \in Threads : \A i \in DOMAIN stack'[u], j \in DOMAIN stack'[v] :
          OwnerCall(stack'[u][i]) /\ OwnerCall(stack'[v][j]) => u = v /\ i = j
    BY <1>14 DEF OnlyOwner, OwnerCall
  <2>2. ASSUME NEW u \in Threads, NEW i \in DOMAIN stack'[u], OwnerCall(stack'[u][i])
        PROVE  isInitializing' = TRUE
    <3>1. u = t /\ i = n
      BY <1>14, <2>2 DEF OnlyOwner, OwnerCall
    <3>2. pc2 # "Reload"
      BY <1>4, <1>10, <2>2, <3>1 DEF OwnerCall
    <3> QED
      BY <3>2
  <2> QED
    BY <2>1, <2>2 DEF OneOwner, OwnerCall
<1>18. OneDeleter' /\ DeletersOK'
  BY <1>15 DEF NoDeletes, OneDeleter, DeletersOK, DeleterCall
<1>19. RTypes'
  BY <1>1, <1>3, <1>5, TypesAfterUpdate
<1>20. \A u \in Threads : \A i \in DOMAIN stack'[u] :
         Builds(u, i)' => (u = t /\ i = n) \/ Builds(u, i)
  BY <1>7, <1>8, <1>11 DEF Builds, Depth
<1> QED
  BY <1>1, <1>5, <1>7, <1>11, <1>12, <1>13, <1>14, <1>15, <1>16, <1>17, <1>18, <1>19, <1>20
    DEF OwnerStep, c

\* It wins, it finds the instance made, it publishes, and it is done.
LEMMA OwnerKeeps ==
  ASSUME SInv, RTypes, NEW t \in Threads, UNCHANGED <<mutex, listVars, cur>>,
         \/ GetExchange(t) /\ isInitializing = FALSE
         \/ GetCheck(t) /\ ~MustCreate
         \/ GetPublish(t) \/ GetClear(t)
  PROVE  SInv' /\ RTypes'
<1> DEFINE o == Top(t).object
<1>0. PICK n : n = Depth(t)
  OBVIOUS
<1>1. /\ stack[t] # <<>> /\ Top(t).op = "Get" /\ Top(t) = stack[t][n] /\ n \in DOMAIN stack[t]
      /\ DOMAIN ref = Threads
  BY <1>0, GetAt DEF GetExchange, GetCheck, GetPublish, GetClear, At, SInv, RefsOK
<1>2. CASE \/ GetExchange(t) /\ isInitializing = FALSE
           \/ GetCheck(t) /\ ~MustCreate
           \/ GetClear(t)
  <2>1. UNCHANGED <<instance, initState, made, alive, ref>>
    BY <1>2 DEF GetExchange, GetCheck, GetClear
  <2>2. PICK pc2 \in {"Check", "Clear", "Reload"} : OwnerStep(t, n, GetRecord(pc2, o))
    <3>1. CASE GetExchange(t) /\ isInitializing = FALSE
      <4>1. At(t, "Get", "Exchange") /\ Goto(t, "Check") /\ isInitializing' = TRUE
        BY <3>1 DEF GetExchange
      <4> QED
        BY <1>0, <2>1, <3>1, <4>1, OwnerGoesOn
    <3>2. CASE GetCheck(t) /\ ~MustCreate
      <4>1. At(t, "Get", "Check") /\ Goto(t, "Clear") /\ isInitializing' = isInitializing
        BY <3>2 DEF GetCheck
      <4>2. OwnerCall(stack[t][n])
        BY <1>1, <4>1 DEF OwnerCall, At
      <4>3. isInitializing = TRUE
        BY <1>1, <4>2 DEF SInv, OneOwner
      <4> QED
        BY <1>0, <2>1, <4>1, <4>3, OwnerGoesOn
    <3>3. CASE GetClear(t)
      <4>1. At(t, "Get", "Clear") /\ Goto(t, "Reload")
        BY <3>3 DEF GetClear
      <4> QED
        BY <1>0, <2>1, <4>1, OwnerGoesOn
    <3> QED
      BY <1>2, <3>1, <3>2, <3>3
  <2>3. Top(t).pc # "Publish"
    BY <1>2 DEF GetExchange, GetCheck, GetClear, At
  <2>4. ~Builds(t, n)'
    BY <2>2 DEF OwnerStep, HasBecome, GetRecord, Builds
  <2>5. BuildersOK'
    <3> SUFFICES ASSUME NEW u \in Threads, NEW i \in DOMAIN stack'[u], Builds(u, i)'
        PROVE  /\ instance' = 0 /\ stack'[u][i].object # 0
               /\ alive' = {stack'[u][i].object}
               /\ initState' = IF stack'[u][i].pc = "Declare" THEN NoInit
                               ELSE [thread |-> u, object |-> stack'[u][i].object]
      BY DEF BuildersOK
    <3>1. ~(u = t /\ i = n)
      BY <2>4
    <3>2. i \in DOMAIN stack[u] /\ stack'[u][i] = stack[u][i] /\ Builds(u, i)
      BY <2>2, <3>1 DEF OwnerStep
    <3> QED
      BY <2>1, <3>2 DEF SInv, BuildersOK
  <2>6. Vacant'
    <3>1. \A u \in Threads : \A i \in DOMAIN stack[u] :
            stack[u][i].op = "Get" /\ stack[u][i].pc = "Publish" =>
              i \in DOMAIN stack'[u] /\ stack'[u][i] = stack[u][i]
      BY <1>1, <2>2, <2>3 DEF OwnerStep
    <3>2. NoDeletes
      BY <2>2 DEF OwnerStep
    <3> QED
      BY <2>1, <3>1, <3>2 DEF SInv, Vacant, NoDeletes, DeleterCall
  <2>7. RefsOK'
    <3>1. ASSUME NEW u \in Threads PROVE RefOK(u)'
      <4>1. CASE u = t
        <5>1. ref[t] = 0
          BY <1>2, GetAt DEF GetExchange, GetCheck, GetClear
        <5> QED
          BY <2>1, <4>1, <5>1 DEF RefOK
      <4>2. CASE u # t
        BY <2>1, <2>2, <4>2 DEF OwnerStep, HasBecome, OthersStay, SInv, RefsOK, RefOK
      <4> QED
        BY <4>1, <4>2
    <3> QED
      BY <1>1, <2>1, <3>1 DEF RefsOK
  <2>8. Published' /\ made' \in 0 .. MaxObjects /\ alive' \subseteq 1 .. made'
        /\ initState' \in [thread : Threads \cup {NoThread}, object : 0 .. made']
    BY <2>1 DEF SInv, Published
  <2> QED
    BY <2>2, <2>5, <2>6, <2>7, <2>8 DEF SInv, OwnerStep
<1>3. CASE GetPublish(t)
  <2>1. /\ At(t, "Get", "Publish") /\ Goto(t, "Clear") /\ instance' = o
        /\ UNCHANGED <<initState, isInitializing, made, alive, ref>>
    BY <1>3 DEF GetPublish
  <2>2. Builds(t, n) /\ OwnerCall(stack[t][n])
    BY <1>0, <1>1, <2>1 DEF Builds, OwnerCall, At, Depth
  <2>3. isInitializing = TRUE
    BY <1>1, <2>2 DEF SInv, OneOwner
  <2>4. OwnerStep(t, n, GetRecord("Clear", o))
    BY <1>0, <2>1, <2>3, OwnerGoesOn
  <2>5. /\ instance = 0 /\ o # 0 /\ alive = {o}
        /\ initState = [thread |-> t, object |-> o]
    BY <1>1, <2>1, <2>2 DEF SInv, BuildersOK, At
  <2>6. BuildersOK'
    <3> SUFFICES ASSUME NEW u \in Threads, NEW i \in DOMAIN stack'[u], Builds(u, i)'
        PROVE  FALSE
      BY DEF BuildersOK
    <3>1. ~Builds(t, n)'
      BY <2>4 DEF OwnerStep, HasBecome, GetRecord, Builds
    <3>2. i \in DOMAIN stack[u] /\ stack'[u][i] = stack[u][i] /\ Builds(u, i) /\ ~(u = t /\ i = n)
      BY <2>4, <3>1 DEF OwnerStep
    <3>3. PICK j \in DOMAIN stack[u] :
            /\ OwnerCall(stack[u][j])
            /\ IF stack[u][i].op = "Constructor" THEN j + 1 = i ELSE j = i
      BY <3>2, BuildersOwn
    <3>4. u = t /\ j = n
      BY <2>4, <3>3 DEF OwnerStep, OnlyOwner
    <3>5. n + 1 \in 1 .. n /\ n \in Nat
      BY <1>0, <3>2, <3>3, <3>4, StackOf
    <3> QED
      BY <3>5
  <2>7. RefsOK'
    <3>1. ASSUME NEW u \in Threads PROVE RefOK(u)'
      <4>1. CASE u = t
        <5>1. ref[t] = 0
          BY <2>1, GetAt
        <5> QED
          BY <2>1, <4>1, <5>1 DEF RefOK
      <4>2. CASE u # t
        BY <2>1, <2>4, <2>5, <4>2 DEF OwnerStep, HasBecome, OthersStay, SInv, RefsOK, RefOK
      <4> QED
        BY <4>1, <4>2
    <3> QED
      BY <1>1, <2>1, <3>1 DEF RefsOK
  <2>8. Published' /\ Vacant'
    BY <2>1, <2>5 DEF Published, Vacant
  <2>9. /\ made' \in 0 .. MaxObjects /\ alive' \subseteq 1 .. made'
        /\ initState' \in [thread : Threads \cup {NoThread}, object : 0 .. made']
    BY <2>1 DEF SInv
  <2> QED
    BY <2>4, <2>6, <2>7, <2>8, <2>9 DEF SInv, OwnerStep
<1> QED
  BY <1>2, <1>3

\* What the thread that constructs knows.
LEMMA BuilderAlone ==
  ASSUME SInv, NEW t \in Threads, NEW n \in DOMAIN stack[t], Builds(t, n)
  PROVE  /\ \A u \in Threads : \A i \in DOMAIN stack[u] : Builds(u, i) => u = t /\ i = n
         /\ \A u \in Threads : ref[u] # 0 => u = t /\ stack[t][n].pc # "Declare"
         /\ instance = 0 /\ stack[t][n].object # 0 /\ alive = {stack[t][n].object}
         /\ initState = IF stack[t][n].pc = "Declare" THEN NoInit
                        ELSE [thread |-> t, object |-> stack[t][n].object]
         /\ NoDeletes
<1>1. /\ instance = 0 /\ stack[t][n].object # 0 /\ alive = {stack[t][n].object}
      /\ initState = IF stack[t][n].pc = "Declare" THEN NoInit
                     ELSE [thread |-> t, object |-> stack[t][n].object]
  BY DEF SInv, BuildersOK
<1>2. ASSUME NEW u \in Threads, NEW i \in DOMAIN stack[u], Builds(u, i)
      PROVE  u = t /\ i = n
  <2>1. PICK k \in DOMAIN stack[t] :
          /\ OwnerCall(stack[t][k])
          /\ IF stack[t][n].op = "Constructor" THEN k + 1 = n ELSE k = n
    BY BuildersOwn
  <2>2. PICK j \in DOMAIN stack[u] :
          /\ OwnerCall(stack[u][j])
          /\ IF stack[u][i].op = "Constructor" THEN j + 1 = i ELSE j = i
    BY <1>2, BuildersOwn
  <2>3. u = t /\ j = k
    BY <2>1, <2>2 DEF SInv, OneOwner
  <2>4. CASE stack[t][n].op = "Constructor" <=> stack[t][i].op = "Constructor"
    BY <2>1, <2>2, <2>3, <2>4
  <2>5. CASE stack[t][n].op = "Constructor" /\ stack[t][i].op # "Constructor"
    <3>1. i = Len(stack[t]) /\ n = i + 1
      BY <1>2, <2>1, <2>2, <2>3, <2>5 DEF Builds
    <3>2. Depth(t) \in Nat /\ Depth(t) + 1 \in 1 .. Depth(t)
      BY <3>1, StackOf DEF Depth
    <3> QED
      BY <3>2
  <2>6. CASE stack[t][n].op # "Constructor" /\ stack[t][i].op = "Constructor"
    <3>1. n = Len(stack[t]) /\ i = n + 1
      BY <1>2, <2>1, <2>2, <2>3, <2>6 DEF Builds
    <3>2. Depth(t) \in Nat /\ Depth(t) + 1 \in 1 .. Depth(t)
      BY <1>2, <2>3, <3>1, StackOf DEF Depth
    <3> QED
      BY <3>2
  <2> QED
    BY <2>3, <2>4, <2>5, <2>6
<1>3. ASSUME NEW u \in Threads, ref[u] # 0 PROVE u = t /\ stack[t][n].pc # "Declare"
  <2>1. ref[u] \in alive /\ (ref[u] = instance \/ initState = [thread |-> u, object |-> ref[u]])
    BY <1>3 DEF SInv, RefsOK, RefOK
  <2>2. initState.thread = u
    BY <1>1, <1>3, <2>1
  <2> QED
    BY <1>1, <2>2, SingletonAssumption DEF NoInit
<1>4. stack[t][n].op # "Delete"
  BY DEF Builds
<1>5. NoDeletes
  BY <1>4, BusyMeansNoDeletes
<1> QED
  BY <1>1, <1>2, <1>3, <1>5

\* GetInstance finds that there is no instance, and begins to construct one.
LEMMA CreateKeeps ==
  ASSUME SInv, RTypes, NEW t \in Threads, UNCHANGED <<mutex, listVars, cur>>,
         GetCheck(t), MustCreate
  PROVE  SInv' /\ RTypes'
<1>0. PICK n : n = Depth(t)
  OBVIOUS
<1> DEFINE c == GetRecord("Publish", Top(t).object)
           d == ConstructorCall(made + 1)
           r == Append(Front(stack[t]), c)
<1>1. /\ stack[t] # <<>> /\ ref[t] = 0 /\ NoDeletes /\ StackOK(stack[t]) /\ IsList(stack[t])
      /\ Top(t) = stack[t][n] /\ Top(t).op = "Get" /\ Top(t).pc = "Check"
      /\ c = [Top(t) EXCEPT !.pc = "Publish"]
      /\ n \in Nat /\ n >= 1 /\ n \in DOMAIN stack[t] /\ DOMAIN stack[t] = 1 .. n
      /\ DOMAIN ref = Threads /\ made \in Nat
  <2>1. At(t, "Get", "Check")
    BY DEF GetCheck
  <2>2. Top(t).op = "Get" /\ Top(t).pc = "Check" /\ stack[t] # <<>>
    BY <2>1 DEF At
  <2>3. c = [Top(t) EXCEPT !.pc = "Publish"]
    BY <2>1, GetAt
  <2>4. /\ ref[t] = 0 /\ NoDeletes /\ Top(t) = stack[t][n]
        /\ n \in Nat /\ n >= 1 /\ n \in DOMAIN stack[t]
    BY <1>0, <2>1, GetAt
  <2>5. StackOK(stack[t]) /\ IsList(stack[t]) /\ DOMAIN stack[t] = 1 .. n
    BY <1>0, StackOf
  <2>6. DOMAIN ref = Threads /\ made \in Nat
    BY DEF SInv, RefsOK
  <2> QED
    BY <2>2, <2>3, <2>4, <2>5, <2>6
<1>2. /\ instance = 0 /\ made < MaxObjects /\ made' = made + 1 /\ alive' = alive \cup {made + 1}
      /\ GotoAndEnter(t, "Publish", d)
      /\ UNCHANGED <<instance, initState, isInitializing, ref>>
  BY DEF GetCheck, MustCreate
<1>3. Become(t, r \o <<d>>)
  BY <1>1, <1>2 DEF GotoAndEnter
<1>4. /\ Shaped(c) /\ c.op = stack[t][Len(stack[t])].op /\ c.op = "Get" /\ c.pc = "Publish"
      /\ Shaped(d) /\ d.op = "Constructor" /\ d.pc = "Declare" /\ d.object = made + 1
  BY <1>0, <1>1 DEF Shaped, GetRecord, ConstructorCall, Ops, SingletonOps, Depth
<1> HIDE DEF c, d
<1>5. HasCalled(t, c, d) /\ stack' = [stack EXCEPT ![t] = Append(r, d)]
  <2>1. HasCalled(t, c, d)
    BY <1>1, <1>3, BecomesAndCalls
  <2>2. stack' = [stack EXCEPT ![t] = Append(Append(Front(stack[t]), c), d)]
    BY <1>1, <1>3, BecomesAndCalls
  <2> QED
    BY <2>1, <2>2
<1>6. StackOK(r) /\ r # <<>> /\ r[Len(r)] = c /\ Len(r) = n
  <2>1. StackOK(r)
    BY <1>1, <1>4, ReplaceOK
  <2>2. Len(r) = n /\ DOMAIN r = 1 .. n /\ r[n] = c
    <3>1. IsList(stack[t]) /\ stack[t] # <<>> /\ Len(stack[t]) = n
      BY <1>0, <1>1 DEF Depth
    <3> QED
      BY <3>1, Replaced
  <2> HIDE DEF r
  <2> QED
    BY <1>1, <2>1, <2>2
<1> HIDE DEF r
<1>7. StackOK(Append(r, d)) /\ Len(Append(r, d)) = n + 1
  <2>1. MayMake(c, d)
    BY <1>4 DEF MayMake
  <2>2. StackOK(Append(r, d))
    BY <1>4, <1>6, <2>1, PushOK
  <2>3. IsList(r)
    BY <1>6 DEF StackOK
  <2>4. Len(Append(r, d)) = n + 1
    BY <1>6, <2>3, Pushed
  <2> QED
    BY <2>2, <2>4
<1>8. /\ DOMAIN stack' = Threads /\ stack'[t] = Append(r, d)
      /\ \A u \in Threads \ {t} : stack'[u] = stack[u]
      /\ \A i \in 1 .. n - 1 : stack'[t][i] = stack[t][i]
      /\ DOMAIN stack'[t] = 1 .. n + 1
      /\ stack'[t][n] = c /\ stack'[t][n + 1] = d
  BY <1>0, <1>1, <1>5, StackOf DEF HasCalled, OthersStay
<1>9. OwnerCall(stack[t][n])
  BY <1>1 DEF OwnerCall
<1>10. \A u \in Threads : \A i \in DOMAIN stack[u] : OwnerCall(stack[u][i]) => u = t /\ i = n
  BY <1>1, <1>9 DEF SInv, OneOwner
<1>11. \A u \in Threads : \A i \in DOMAIN stack[u] : ~Builds(u, i)
  <2> SUFFICES ASSUME NEW u \in Threads, NEW i \in DOMAIN stack[u], Builds(u, i) PROVE FALSE
    OBVIOUS
  <2>1. PICK j \in DOMAIN stack[u] : OwnerCall(stack[u][j]) /\ stack[u][j].pc = "Publish"
    BY BuildersOwn
  <2>2. u = t /\ j = n
    BY <1>10, <2>1
  <2> QED
    BY <1>1, <2>1, <2>2
<1>12. alive = {} /\ initState = NoInit
  BY <1>1, <1>2, <1>11, PublishersBuild DEF SInv, Vacant, NoDeletes, DeleterCall
<1>13. \A u \in Threads : ref[u] = 0
  BY <1>12 DEF SInv, RefsOK, RefOK
<1>14. \A u \in Threads : \A i \in DOMAIN stack'[u] :
         \/ u = t /\ i = n
         \/ u = t /\ i = n + 1
         \/ u = t /\ i \in DOMAIN stack[u] /\ i <= n - 1 /\ stack'[u][i] = stack[u][i]
         \/ u # t /\ i \in DOMAIN stack[u] /\ stack'[u] = stack[u]
  <2>1. \A i \in 1 .. n + 1 : i = n \/ i = n + 1 \/ (i \in 1 .. n - 1 /\ i \in 1 .. n /\ i <= n - 1)
    BY <1>1
  <2>2. \A i \in DOMAIN stack'[t] :
          \/ i = n \/ i = n + 1
          \/ i \in DOMAIN stack[t] /\ i <= n - 1 /\ stack'[t][i] = stack[t][i]
    BY <1>1, <1>8, <2>1
  <2>3. \A u \in Threads : u # t => stack'[u] = stack[u]
    BY <1>8
  <2> QED
    BY <2>2, <2>3
<1>15. StacksOK'
  BY <1>7, <1>8 DEF SInv, StacksOK
<1>16. \A u \in Threads : \A i \in DOMAIN stack'[u] : OwnerCall(stack'[u][i]) => u = t /\ i = n
  BY <1>4, <1>8, <1>10, <1>14 DEF OwnerCall
<1>17. OneOwner'
  <2>1. isInitializing = TRUE
    BY <1>1, <1>9 DEF SInv, OneOwner
  <2> QED
    BY <1>2, <1>16, <2>1 DEF OneOwner, OwnerCall
<1>18. NoDeletes'
  <2>1. stack'[t][n].op # "Delete" /\ stack'[t][n + 1].op # "Delete"
    BY <1>4, <1>8
  <2>2. \A u \in Threads : \A i \in DOMAIN stack'[u] : stack'[u][i].op # "Delete"
    BY <1>1, <1>14, <2>1 DEF NoDeletes
  <2> QED
    BY <2>2 DEF NoDeletes
<1>19. OneDeleter' /\ DeletersOK'
  BY <1>18 DEF NoDeletes, OneDeleter, DeletersOK, DeleterCall
<1>20. BuildersOK'
  <2> SUFFICES ASSUME NEW u \in Threads, NEW i \in DOMAIN stack'[u], Builds(u, i)'
      PROVE  /\ instance' = 0 /\ stack'[u][i].object # 0
             /\ alive' = {stack'[u][i].object}
             /\ initState' = IF stack'[u][i].pc = "Declare" THEN NoInit
                             ELSE [thread |-> u, object |-> stack'[u][i].object]
    BY DEF BuildersOK
  <2>1. u = t /\ i = n + 1
    <3>1. ASSUME u # t, i \in DOMAIN stack[u], stack'[u] = stack[u] PROVE FALSE
      BY <1>11, <3>1 DEF Builds
    <3>2. ASSUME u = t, i \in DOMAIN stack[u], i <= n - 1, stack'[u][i] = stack[u][i] PROVE FALSE
      <4>1. i # n + 1
        BY <1>1, <3>2
      <4>2. stack[u][i].op = "Constructor"
        BY <1>7, <1>8, <3>2, <4>1 DEF Builds
      <4> QED
        BY <1>11, <3>2, <4>2 DEF Builds
    <3>3. ASSUME u = t, i = n PROVE FALSE
      <4>1. stack'[t][n] = c /\ Len(stack'[t]) = n + 1 /\ n # n + 1
        BY <1>1, <1>7, <1>8
      <4> QED
        BY <1>4, <3>3, <4>1 DEF Builds
    <3> QED
      BY <1>14, <3>1, <3>2, <3>3
  <2>2. stack'[u][i] = d
    BY <1>8, <2>1
  <2> QED
    BY <1>1, <1>2, <1>4, <1>12, <2>2
<1>21. Published' /\ Vacant'
  <2>1. n \in DOMAIN stack'[t]
    BY <1>1, <1>8
  <2>2. Vacant'
    BY <1>4, <1>8, <2>1 DEF Vacant
  <2> QED
    BY <1>2, <2>2 DEF Published
<1>22. RefsOK'
  BY <1>1, <1>2, <1>13 DEF RefsOK, RefOK
<1>23. /\ made' \in 0 .. MaxObjects /\ alive' \subseteq 1 .. made'
       /\ initState' \in [thread : Threads \cup {NoThread}, object : 0 .. made']
  <2>1. MaxObjects \in Nat
    BY SingletonAssumption
  <2>2. made + 1 \in 0 .. MaxObjects /\ made + 1 \in 1 .. made + 1 /\ 0 \in 0 .. made + 1
    BY <1>1, <1>2, <2>1
  <2> QED
    BY <1>2, <1>12, <2>2 DEF NoInit
<1>24. RTypes'
  <2>1. \A i \in DOMAIN stack'[t] :
          \/ stack'[t][i].op # "Update"
          \/ i \in DOMAIN stack[t] /\ stack'[t][i] = stack[t][i]
    BY <1>4, <1>8, <1>14
  <2> QED
    BY <1>8, <2>1, TypesUnseen
<1> QED
  BY <1>15, <1>17, <1>19, <1>20, <1>21, <1>22, <1>23, <1>24 DEF SInv

\* What is known of a thread in the constructor.
LEMMA ConstructorAt ==
  ASSUME SInv, NEW t \in Threads, NEW pc, At(t, "Constructor", pc), NEW n, n = Depth(t)
  PROVE  /\ stack[t] # <<>> /\ Top(t).op = "Constructor" /\ Top(t).pc = pc
         /\ Top(t) = stack[t][n] /\ Shaped(Top(t)) /\ StackOK(stack[t]) /\ IsList(stack[t])
         /\ n \in Nat /\ n >= 2 /\ n \in DOMAIN stack[t] /\ DOMAIN stack[t] = 1 .. n
         /\ Builds(t, n) /\ ref[t] = 0
         /\ n - 1 \in DOMAIN stack[t]
         /\ stack[t][n - 1].op = "Get" /\ stack[t][n - 1].pc = "Publish"
         /\ \A u \in Threads : \A i \in DOMAIN stack[u] :
              OwnerCall(stack[u][i]) => u = t /\ i = n - 1
<1>1. stack[t] # <<>> /\ Top(t).op = "Constructor" /\ Top(t).pc = pc
  BY DEF At
<1>2. /\ Top(t) = stack[t][n] /\ Shaped(Top(t)) /\ StackOK(stack[t]) /\ IsList(stack[t])
      /\ n \in Nat /\ n \in DOMAIN stack[t] /\ DOMAIN stack[t] = 1 .. n
      /\ ref[t] = 0
  BY <1>1, StackOf DEF Hosts
<1>3. Builds(t, n)
  BY <1>1, <1>2 DEF Builds
<1>4. PICK j \in DOMAIN stack[t] :
        /\ OwnerCall(stack[t][j])
        /\ stack[t][j].op = "Get" /\ stack[t][j].pc = "Publish" /\ j + 1 = n
  <2>1. stack[t][n].op = "Constructor"
    BY <1>1, <1>2
  <2>2. \E j \in DOMAIN stack[t] :
          /\ OwnerCall(stack[t][j])
          /\ stack[t][j].op = "Get" /\ stack[t][j].pc = "Publish"
          /\ IF stack[t][n].op = "Constructor" THEN j + 1 = n ELSE j = n
    BY <1>2, <1>3, BuildersOwn
  <2> QED
    BY <2>1, <2>2
<1>5. j = n - 1 /\ n >= 2
  BY <1>2, <1>4
<1>6. \A u \in Threads : \A i \in DOMAIN stack[u] :
        OwnerCall(stack[u][i]) => u = t /\ i = n - 1
  BY <1>4, <1>5 DEF SInv, OneOwner
<1> QED
  BY <1>1, <1>2, <1>3, <1>4, <1>5, <1>6

\* SetInstanceConstructed.
LEMMA DeclareKeeps ==
  ASSUME SInv, RTypes, NEW t \in Threads, UNCHANGED <<mutex, listVars, cur>>, Declare(t)
  PROVE  SInv' /\ RTypes'
<1>0. PICK n : n = Depth(t)
  OBVIOUS
<1>0a. PICK o : o = Top(t).object
  OBVIOUS
<1> DEFINE c == [Top(t) EXCEPT !.pc = "Subscribe"]
<1>1. At(t, "Constructor", "Declare")
  BY DEF Declare
<1>2. /\ stack[t] # <<>> /\ Top(t).op = "Constructor" /\ Top(t).pc = "Declare"
      /\ Top(t) = stack[t][n] /\ Shaped(Top(t)) /\ StackOK(stack[t]) /\ IsList(stack[t])
      /\ n \in Nat /\ n >= 2 /\ n \in DOMAIN stack[t] /\ DOMAIN stack[t] = 1 .. n
      /\ Builds(t, n) /\ n - 1 \in DOMAIN stack[t]
      /\ stack[t][n - 1].op = "Get" /\ stack[t][n - 1].pc = "Publish"
      /\ \A u \in Threads : \A i \in DOMAIN stack[u] :
           OwnerCall(stack[u][i]) => u = t /\ i = n - 1
  BY <1>0, <1>1, ConstructorAt
<1>3. /\ \A u \in Threads : \A i \in DOMAIN stack[u] : Builds(u, i) => u = t /\ i = n
      /\ \A u \in Threads : ref[u] = 0
      /\ instance = 0 /\ o # 0 /\ alive = {o}
      /\ initState = NoInit /\ NoDeletes
  BY <1>0a, <1>2, BuilderAlone
<1>4. /\ initState' = [thread |-> t, object |-> o] /\ Update(t, c)
      /\ UNCHANGED <<instance, isInitializing, made, alive, ref>>
  BY <1>0a DEF Declare, Goto
<1>5. /\ c = [op |-> "Constructor", pc |-> "Subscribe", object |-> o]
      /\ Shaped(c) /\ c.op = "Constructor" /\ c.pc = "Subscribe" /\ c.object = o
  <2>1. Top(t) = [op |-> "Constructor", pc |-> "Declare", object |-> o]
    BY <1>0a, <1>2 DEF Shaped, SingletonOps
  <2>2. c = [op |-> "Constructor", pc |-> "Subscribe", object |-> o]
    BY <2>1
  <2> QED
    BY <2>2 DEF Shaped, SingletonOps, Ops
<1> HIDE DEF c
<1>6. HasBecome(t, c) /\ stack'[t] = Append(Front(stack[t]), c)
  BY <1>2, <1>4, Becomes, StackOf DEF Update, Become
<1>7. StackOK(stack'[t])
  BY <1>0, <1>2, <1>5, <1>6, ReplaceOK DEF Depth
<1>8. /\ DOMAIN stack' = Threads /\ DOMAIN stack'[t] = 1 .. n /\ stack'[t][n] = c
      /\ \A u \in Threads \ {t} : stack'[u] = stack[u]
      /\ \A i \in 1 .. n - 1 : stack'[t][i] = stack[t][i]
  BY <1>0, <1>6 DEF HasBecome, OthersStay
<1>9. Len(stack'[t]) = n /\ Len(stack[t]) = n
  BY <1>0, <1>2, <1>6, Replaced DEF Depth
<1>10. \A u \in Threads : \A i \in DOMAIN stack'[u] :
         \/ u = t /\ i = n
         \/ i \in DOMAIN stack[u] /\ stack'[u][i] = stack[u][i]
  <2>1. \A i \in 1 .. n : i = n \/ i \in 1 .. n - 1
    BY <1>2
  <2> QED
    BY <1>2, <1>8, <2>1
<1>11. StacksOK'
  BY <1>7, <1>8 DEF SInv, StacksOK
<1>12. \A u \in Threads : \A i \in DOMAIN stack'[u] :
         OwnerCall(stack'[u][i]) => i \in DOMAIN stack[u] /\ OwnerCall(stack[u][i])
  BY <1>5, <1>8, <1>10 DEF OwnerCall
<1>13. OneOwner'
  BY <1>4, <1>12 DEF SInv, OneOwner, OwnerCall
<1>14. NoDeletes'
  <2>1. stack'[t][n].op # "Delete"
    BY <1>5, <1>8
  <2>2. \A u \in Threads : \A i \in DOMAIN stack'[u] : stack'[u][i].op # "Delete"
    BY <1>3, <1>10, <2>1 DEF NoDeletes
  <2> QED
    BY <2>2 DEF NoDeletes
<1>15. OneDeleter' /\ DeletersOK'
  BY <1>14 DEF NoDeletes, OneDeleter, DeletersOK, DeleterCall
<1>16. \A u \in Threads : \A i \in DOMAIN stack'[u] : Builds(u, i)' => u = t /\ i = n
  BY <1>3, <1>8, <1>9, <1>10 DEF Builds
<1>17. BuildersOK'
  BY <1>3, <1>4, <1>5, <1>8, <1>16 DEF BuildersOK
<1>18. Published' /\ Vacant'
  <2>1. n - 1 \in DOMAIN stack'[t] /\ stack'[t][n - 1] = stack[t][n - 1]
    BY <1>2, <1>8
  <2>2. Vacant'
    BY <1>2, <2>1 DEF Vacant
  <2> QED
    BY <1>3, <1>4, <2>2 DEF Published
<1>19. RefsOK'
  BY <1>3, <1>4 DEF SInv, RefsOK, RefOK
<1>20. /\ made' \in 0 .. MaxObjects /\ alive' \subseteq 1 .. made'
       /\ initState' \in [thread : Threads \cup {NoThread}, object : 0 .. made']
  <2>1. o \in 1 .. made /\ made \in Nat
    BY <1>3 DEF SInv
  <2>2. o \in 0 .. made
    BY <2>1
  <2> QED
    BY <1>4, <2>2 DEF SInv
<1>21. RTypes'
  BY <1>2, <1>5, <1>6, TypesAfterUpdate
<1> QED
  BY <1>11, <1>13, <1>15, <1>17, <1>18, <1>19, <1>20, <1>21 DEF SInv

\* T's constructor subscribes.
LEMMA ConstructorSubscribeKeeps ==
  ASSUME SInv, RTypes, NEW t \in Threads, ConstructorSubscribe(t)
  PROVE  SInv' /\ RTypes'
<1>0. PICK n : n = Depth(t)
  OBVIOUS
<1> DEFINE c == [Top(t) EXCEPT !.pc = "Return"]
           d == SubscribeCall(Managed)
           r == Append(Front(stack[t]), c)
<1>1. At(t, "Constructor", "Subscribe")
  BY DEF ConstructorSubscribe
<1>2. /\ stack[t] # <<>> /\ Top(t).op = "Constructor" /\ Top(t).pc = "Subscribe"
      /\ Top(t) = stack[t][n] /\ Shaped(Top(t)) /\ StackOK(stack[t]) /\ IsList(stack[t])
      /\ n \in Nat /\ n \in DOMAIN stack[t] /\ DOMAIN stack[t] = 1 .. n
      /\ ref[t] = 0
  BY <1>0, <1>1, ConstructorAt
<1>3. /\ Become(t, r \o <<d>>)
      /\ UNCHANGED <<instance, initState, isInitializing, made, alive, ref, mutex, listVars, cur>>
  BY DEF ConstructorSubscribe, GotoAndEnter, singletonVars
<1>4. Shaped(c) /\ Alike(Top(t), c) /\ c.op = "Constructor" /\ c.pc = "Return"
  <2>1. Top(t) = [op |-> "Constructor", pc |-> "Subscribe", object |-> Top(t).object]
    BY <1>2 DEF Shaped, SingletonOps
  <2>2. c = [op |-> "Constructor", pc |-> "Return", object |-> Top(t).object]
    BY <2>1
  <2> QED
    BY <2>1, <2>2 DEF Shaped, SingletonOps, Ops, Alike
<1>5. Shaped(d) /\ Idle(d) /\ d.op = "Subscribe" /\ MayCall(c, d)
  <2>1. Managed \in Types
    BY RegistryAssumption
  <2> QED
    BY <1>4, <2>1
      DEF SubscribeCall, Shaped, SingletonOps, Ops, Idle, OwnerCall, DeleterCall, MayCall, MayMake
<1> HIDE DEF c, d
<1>6. HasCalled(t, c, d)
  BY <1>2, <1>3, BecomesAndCalls
<1>7. stack' = [stack EXCEPT ![t] = Append(r, d)]
  BY <1>2, <1>3, BecomesAndCalls
<1>8. Roles(stack[t], r)
  BY <1>0, <1>2, <1>4, RolesGoOn DEF Depth
<1>9. StackOK(r) /\ r # <<>> /\ r[Len(r)] = c
  <2>1. Len(r) = n /\ DOMAIN r = 1 .. n /\ r[n] = c
    <3>1. IsList(stack[t]) /\ stack[t] # <<>> /\ Len(stack[t]) = n
      BY <1>0, <1>2 DEF Depth
    <3> QED
      BY <3>1, Replaced
  <2> HIDE DEF r
  <2> QED
    BY <1>2, <1>8, <2>1 DEF Roles
<1> HIDE DEF r
<1>10. Roles(r, Append(r, d))
  BY <1>5, <1>9, RolesCall
<1>11. Roles(stack[t], Append(r, d))
  BY <1>2, <1>8, <1>10, RolesCompose
<1>12. KeepsRoles(t)
  BY <1>2, <1>6, <1>7, <1>11, StackOf DEF KeepsRoles, HasCalled, OthersStay
<1>13. \A i \in DOMAIN stack'[t] :
         stack'[t][i] = c \/ stack'[t][i] = d \/ (i \in DOMAIN stack[t] /\ stack'[t][i] = stack[t][i])
  <2>1. \A i \in 1 .. n + 1 : i = n \/ i = n + 1 \/ (i \in 1 .. n - 1 /\ i \in 1 .. n)
    BY <1>2
  <2> QED
    BY <1>0, <1>2, <1>6, <2>1 DEF HasCalled, OthersStay
<1>14. NoDeletes
  BY <1>2, BusyMeansNoDeletes
<1>15. \A i \in DOMAIN stack'[t] : stack'[t][i].op # "Delete"
  BY <1>2, <1>4, <1>5, <1>13, <1>14 DEF NoDeletes
<1>16. DOMAIN ref' = Threads /\ (\A u \in Threads \ {t} : ref'[u] = ref[u]) /\ RefOK(t)'
  BY <1>2, <1>3 DEF SInv, RefsOK, RefOK
<1>17. SInv'
  BY <1>3, <1>12, <1>14, <1>15, <1>16, CallsKept
<1>18. RTypes'
  <2>1. \A i \in DOMAIN stack'[t] :
          \/ stack'[t][i].op # "Update"
          \/ i \in DOMAIN stack[t] /\ stack'[t][i] = stack[t][i]
    BY <1>4, <1>5, <1>13
  <2> QED
    BY <1>3, <1>6, <2>1, TypesUnseen DEF HasCalled, OthersStay
<1> QED
  BY <1>17, <1>18

\* What is left when calls have returned.
LEMMA BelowOK ==
  ASSUME NEW s, StackOK(s), s # <<>>, Front(s) # <<>>
  PROVE  /\ StackOK(Front(Front(s))) /\ Len(s) \in Nat /\ Len(s) >= 2
         /\ DOMAIN Front(Front(s)) = 1 .. Len(s) - 2
         /\ \A i \in 1 .. Len(s) - 2 : Front(Front(s))[i] = s[i]
<1> DEFINE r == Front(s)
<1>1. /\ IsList(r) /\ Len(s) \in Nat /\ Len(s) >= 1 /\ Len(r) = Len(s) - 1
      /\ \A i \in 1 .. Len(s) - 1 : r[i] = s[i]
  BY Popped DEF StackOK
<1>2. StackOK(r)
  BY PopOK
<1> HIDE DEF r
<1>3. r # <<>>
  BY DEF r
<1>4. /\ Len(r) >= 1 /\ Len(r) \in Nat
      /\ DOMAIN Front(r) = 1 .. Len(r) - 1
      /\ \A i \in 1 .. Len(r) - 1 : Front(r)[i] = r[i]
  BY <1>1, <1>3, Popped
<1>5. StackOK(Front(r))
  BY <1>2, <1>3, PopOK
<1>6. Len(r) - 1 = Len(s) - 2 /\ Len(s) >= 2
  BY <1>1, <1>4
<1>7. \A i \in 1 .. Len(s) - 2 : i \in 1 .. Len(r) - 1 /\ i \in 1 .. Len(s) - 1
  BY <1>1, <1>6
<1>8. /\ StackOK(Front(r)) /\ DOMAIN Front(r) = 1 .. Len(s) - 2
      /\ \A i \in 1 .. Len(s) - 2 : Front(r)[i] = s[i]
  BY <1>1, <1>4, <1>5, <1>6, <1>7
<1> QED
  BY <1>1, <1>6, <1>8 DEF r

\* The constructor returns to the frame that will publish.
LEMMA ConstructorReturnKeeps ==
  ASSUME SInv, RTypes, NEW t \in Threads, UNCHANGED <<mutex, listVars, cur>>,
         ConstructorReturn(t)
  PROVE  SInv' /\ RTypes'
<1>0. PICK n : n = Depth(t)
  OBVIOUS
<1>0a. PICK o : o = Top(t).object
  OBVIOUS
<1> DEFINE k == n - 1
           c == [stack[t][k] EXCEPT !.object = Top(t).object]
           s == Front(stack[t])
           r == Append(Front(s), c)
<1>1. At(t, "Constructor", "Return")
  BY DEF ConstructorReturn
<1>2. /\ stack[t] # <<>> /\ Top(t).op = "Constructor" /\ Top(t).pc = "Return"
      /\ Top(t) = stack[t][n] /\ Shaped(Top(t)) /\ StackOK(stack[t]) /\ IsList(stack[t])
      /\ n \in Nat /\ n >= 2 /\ n \in DOMAIN stack[t] /\ DOMAIN stack[t] = 1 .. n
      /\ Builds(t, n) /\ k \in DOMAIN stack[t]
      /\ stack[t][k].op = "Get" /\ stack[t][k].pc = "Publish"
      /\ \A u \in Threads : \A i \in DOMAIN stack[u] :
           OwnerCall(stack[u][i]) => u = t /\ i = k
  BY <1>0, <1>1, ConstructorAt
<1>3. /\ \A u \in Threads : \A i \in DOMAIN stack[u] : Builds(u, i) => u = t /\ i = n
      /\ instance = 0 /\ o # 0 /\ alive = {o}
      /\ initState = [thread |-> t, object |-> o] /\ NoDeletes
  BY <1>0a, <1>2, BuilderAlone
<1>3a. \A u \in Threads : ref[u] = 0
  <2>1. ref[t] = 0
    BY <1>0, <1>1, ConstructorAt
  <2> QED
    BY <1>2, <2>1, BuilderAlone
<1>4. /\ Become(t, r)
      /\ UNCHANGED <<instance, initState, isInitializing, made, alive, ref>>
  BY <1>0 DEF ConstructorReturn, singletonVars, Depth
<1>5. /\ Shaped(c) /\ c.op = "Get" /\ c.pc = "Publish" /\ c.object = o
  <2>1. stack[t][k] = [op |-> "Get", pc |-> "Publish", object |-> stack[t][k].object]
    <3>1. Shaped(stack[t][k])
      BY <1>2 DEF StackOK
    <3> QED
      BY <1>2, <3>1 DEF Shaped, SingletonOps
  <2>2. c = [op |-> "Get", pc |-> "Publish", object |-> o]
    BY <1>0a, <2>1
  <2> QED
    BY <2>2 DEF Shaped, SingletonOps, Ops
<1>6. /\ IsList(s) /\ StackOK(s) /\ Len(s) = k /\ DOMAIN s = 1 .. k
      /\ \A i \in 1 .. k : s[i] = stack[t][i]
  BY <1>0, <1>2, Popped, PopOK DEF Depth
<1>7. k \in Nat /\ k >= 1 /\ k + 1 = n /\ k # n
  BY <1>2
<1> HIDE DEF c, s, k
<1>8. s # <<>> /\ s[Len(s)].op = c.op
  BY <1>2, <1>5, <1>6, <1>7
<1>9. StackOK(r)
  BY <1>5, <1>6, <1>8, ReplaceOK
<1>10. /\ Len(r) = k /\ DOMAIN r = 1 .. k /\ r[k] = c
       /\ \A i \in 1 .. k - 1 : r[i] = s[i]
  BY <1>6, <1>8, Replaced
<1> HIDE DEF r
<1>11. stack'[t] = r /\ DOMAIN stack' = Threads /\ \A u \in Threads \ {t} : stack'[u] = stack[u]
  BY <1>4, StackOf DEF Become
<1>12. \A i \in 1 .. k : i = k \/ (i \in 1 .. k - 1 /\ i \in 1 .. n)
  BY <1>2, <1>7
<1>13. \A u \in Threads : \A i \in DOMAIN stack'[u] :
         \/ u = t /\ i = k
         \/ i \in DOMAIN stack[u] /\ stack'[u][i] = stack[u][i]
  <2>1. \A i \in DOMAIN stack'[t] : i = k \/ (i \in DOMAIN stack[t] /\ stack'[t][i] = stack[t][i])
    BY <1>2, <1>6, <1>10, <1>11, <1>12
  <2> QED
    BY <1>11, <2>1
<1>14. StacksOK'
  BY <1>9, <1>11 DEF SInv, StacksOK
<1>15. \A u \in Threads : \A i \in DOMAIN stack'[u] :
         OwnerCall(stack'[u][i]) => i \in DOMAIN stack[u] /\ OwnerCall(stack[u][i])
  BY <1>2, <1>13 DEF OwnerCall
<1>16. OneOwner'
  BY <1>4, <1>15 DEF SInv, OneOwner, OwnerCall
<1>17. NoDeletes'
  <2>1. stack'[t][k].op # "Delete"
    BY <1>5, <1>10, <1>11
  <2>2. \A u \in Threads : \A i \in DOMAIN stack'[u] : stack'[u][i].op # "Delete"
    BY <1>3, <1>13, <2>1 DEF NoDeletes
  <2> QED
    BY <2>2 DEF NoDeletes
<1>18. OneDeleter' /\ DeletersOK'
  BY <1>17 DEF NoDeletes, OneDeleter, DeletersOK, DeleterCall
<1>19. \A u \in Threads : \A i \in DOMAIN stack'[u] : Builds(u, i)' => u = t /\ i = k
  <2> SUFFICES ASSUME NEW u \in Threads, NEW i \in DOMAIN stack'[u], Builds(u, i)', ~(u = t /\ i = k)
      PROVE  FALSE
    OBVIOUS
  <2>1. i \in DOMAIN stack[u] /\ stack'[u][i] = stack[u][i]
    BY <1>13
  <2>2. CASE u = t
    <3>1. i # k /\ Len(stack'[t]) = k
      BY <1>10, <1>11, <2>2
    <3>2. stack[t][i].op = "Constructor"
      BY <2>1, <2>2, <3>1 DEF Builds
    <3>3. i = n
      BY <1>3, <2>1, <2>2, <3>2 DEF Builds
    <3>4. n \in 1 .. k
      BY <1>10, <1>11, <2>2, <3>3
    <3> QED
      BY <1>7, <3>4
  <2>3. CASE u # t
    <3>1. Builds(u, i)
      BY <1>11, <2>1, <2>3 DEF Builds
    <3> QED
      BY <1>3, <2>1, <2>3, <3>1
  <2> QED
    BY <2>2, <2>3
<1>20. BuildersOK'
  BY <1>3, <1>4, <1>5, <1>10, <1>11, <1>19 DEF BuildersOK
<1>21. Published' /\ Vacant'
  <2>1. k \in DOMAIN stack'[t] /\ stack'[t][k] = c
    BY <1>7, <1>10, <1>11
  <2>2. Vacant'
    BY <1>5, <2>1 DEF Vacant
  <2> QED
    BY <1>3, <1>4, <2>2 DEF Published
<1>22. RefsOK'
  BY <1>3a, <1>4 DEF SInv, RefsOK, RefOK
<1>23. /\ made' \in 0 .. MaxObjects /\ alive' \subseteq 1 .. made'
       /\ initState' \in [thread : Threads \cup {NoThread}, object : 0 .. made']
  BY <1>4 DEF SInv
<1>24. RTypes'
  <2>1. \A i \in DOMAIN stack'[t] :
          \/ stack'[t][i].op # "Update"
          \/ i \in DOMAIN stack[t] /\ stack'[t][i] = stack[t][i]
    BY <1>5, <1>10, <1>11, <1>13
  <2> QED
    BY <1>11, <2>1, TypesUnseen
<1> QED
  BY <1>14, <1>16, <1>18, <1>20, <1>21, <1>22, <1>23, <1>24 DEF SInv

\* The constructor throws.
LEMMA ThrowKeeps ==
  ASSUME SInv, RTypes, NEW t \in Threads, ConstructorThrow(t)
  PROVE  SInv' /\ RTypes'
<1>0. PICK n : n = Depth(t)
  OBVIOUS
<1> DEFINE below == SubSeq(stack[t], 1, Len(stack[t]) - 2)
           r == IF below = <<>> THEN <<>> ELSE Front(below)
<1>1. /\ At(t, "Constructor", "Return") /\ Become(t, r) /\ initState' = NoInit
      /\ alive' = alive \ {Top(t).object}
      /\ UNCHANGED <<made, instance, isInitializing, ref, mutex, listVars, cur>>
  BY DEF ConstructorThrow, Throw, AfterThrow
<1>2. /\ stack[t] # <<>> /\ Top(t).op = "Constructor" /\ Top(t).pc = "Return"
      /\ Top(t) = stack[t][n] /\ StackOK(stack[t]) /\ IsList(stack[t])
      /\ n \in Nat /\ n >= 2 /\ n \in DOMAIN stack[t] /\ DOMAIN stack[t] = 1 .. n
      /\ Builds(t, n) /\ ref[t] = 0
      /\ \A u \in Threads : \A i \in DOMAIN stack[u] :
           OwnerCall(stack[u][i]) => u = t /\ i = n - 1
  BY <1>0, <1>1, ConstructorAt
<1>3. /\ \A u \in Threads : \A i \in DOMAIN stack[u] : Builds(u, i) => u = t /\ i = n
      /\ \A u \in Threads : ref[u] = 0
      /\ instance = 0 /\ alive = {Top(t).object} /\ NoDeletes
  BY <1>2, BuilderAlone
<1>4. below = Front(Front(stack[t])) /\ IsList(below) /\ Len(below) = n - 2
  <2> DEFINE s == stack[t]
             q == Front(s)
  <2>1. PICK S : s \in Seq(S)
    BY <1>2 DEF IsList
  <2>2. Len(s) = n
    BY <1>0 DEF Depth
  <2> HIDE DEF s
  <2>3. q = SubSeq(s, 1, n - 1) /\ q \in Seq(S) /\ Len(q) = n - 1
    BY <1>2, <2>1, <2>2 DEF Front
  <2>4. \A i \in 1 .. n - 1 : q[i] = s[i]
    BY <1>2, <2>1, <2>2, <2>3
  <2> HIDE DEF q
  <2>5. Front(q) = SubSeq(q, 1, n - 2)
    BY <2>3, <1>2 DEF Front
  <2>6. SubSeq(q, 1, n - 2) = SubSeq(s, 1, n - 2)
    BY <1>2, <2>1, <2>2, <2>3, <2>4
  <2>7. SubSeq(s, 1, n - 2) \in Seq(S) /\ Len(SubSeq(s, 1, n - 2)) = n - 2
    BY <1>2, <2>1, <2>2
  <2>8. IsList(SubSeq(s, 1, n - 2))
    BY <2>7 DEF IsList
  <2> QED
    BY <2>2, <2>5, <2>6, <2>7, <2>8 DEF q, s
<1>5. /\ StackOK(r) /\ \A i \in DOMAIN r : i \in DOMAIN stack[t] /\ i <= n - 2 /\ r[i] = stack[t][i]
  <2>1. Front(stack[t]) # <<>>
    BY <1>0, <1>2, Popped DEF Depth
  <2> DEFINE b == below
  <2> HIDE DEF b
  <2>0. r = IF b = <<>> THEN <<>> ELSE Front(b)
    BY DEF b
  <2>2. b = Front(Front(stack[t])) /\ IsList(b) /\ Len(b) = n - 2
    BY <1>4 DEF b
  <2> HIDE DEF below, r
  <2>5. /\ StackOK(b) /\ DOMAIN b = 1 .. n - 2
        /\ \A i \in 1 .. n - 2 : b[i] = stack[t][i]
    <3> DEFINE s == stack[t]
    <3>1. StackOK(s) /\ s # <<>> /\ Front(s) # <<>> /\ Len(s) = n
      BY <1>0, <1>2, <2>1 DEF Depth
    <3> HIDE DEF s
    <3>2. /\ StackOK(Front(Front(s)))
          /\ DOMAIN Front(Front(s)) = 1 .. Len(s) - 2
          /\ \A i \in 1 .. Len(s) - 2 : Front(Front(s))[i] = s[i]
      BY <3>1, BelowOK
    <3> QED
      BY <2>2, <3>1, <3>2 DEF s
  <2>3. CASE b = <<>>
    <3>1. StackOK(r) /\ r = <<>>
      BY <2>0, <2>3, <2>5
    <3> QED
      BY <3>1
  <2>4. CASE b # <<>>
    <3>1. /\ StackOK(Front(b)) /\ DOMAIN Front(b) = 1 .. Len(b) - 1
          /\ \A i \in 1 .. Len(b) - 1 : Front(b)[i] = b[i]
      BY <2>2, <2>4, <2>5, PopOK, Popped
    <3>2. \A i \in 1 .. Len(b) - 1 : i \in 1 .. n - 2 /\ i \in 1 .. n /\ i <= n - 2
      BY <1>2, <2>2
    <3> QED
      BY <1>2, <2>0, <2>4, <2>5, <3>1, <3>2
  <2> QED
    BY <2>3, <2>4
<1> HIDE DEF r
<1>6. stack'[t] = r /\ DOMAIN stack' = Threads /\ \A u \in Threads \ {t} : stack'[u] = stack[u]
  BY <1>1, StackOf DEF Become
<1>7. \A u \in Threads : \A i \in DOMAIN stack'[u] :
        /\ i \in DOMAIN stack[u] /\ stack'[u][i] = stack[u][i]
        /\ u = t => i <= n - 2
  BY <1>5, <1>6
<1>8. \A u \in Threads : \A i \in DOMAIN stack'[u] :
        /\ ~OwnerCall(stack'[u][i]) /\ stack'[u][i].op # "Delete"
        /\ ~(stack'[u][i].op = "Get" /\ stack'[u][i].pc = "Publish")
        /\ stack'[u][i].op # "Constructor"
  <2> SUFFICES ASSUME NEW u \in Threads, NEW i \in DOMAIN stack'[u]
      PROVE  /\ ~OwnerCall(stack'[u][i]) /\ stack'[u][i].op # "Delete"
             /\ stack'[u][i].op # "Constructor"
    BY DEF OwnerCall
  <2>1. /\ i \in DOMAIN stack[u] /\ stack'[u][i] = stack[u][i]
        /\ u = t => i <= n - 2
    BY <1>7
  <2>2. ~(u = t /\ i = n - 1) /\ ~(u = t /\ i = n)
    BY <1>2, <2>1
  <2>3. stack[u][i].op # "Constructor"
    BY <1>3, <2>1, <2>2 DEF Builds
  <2> QED
    BY <1>2, <1>3, <2>1, <2>2, <2>3 DEF NoDeletes
<1>9. StacksOK'
  BY <1>5, <1>6 DEF SInv, StacksOK
<1>10. OneOwner'
  BY <1>8 DEF OneOwner, OwnerCall
<1>11. OneDeleter' /\ DeletersOK'
  BY <1>8 DEF OneDeleter, DeletersOK, DeleterCall
<1>12. BuildersOK'
  <2>1. \A u \in Threads : \A i \in DOMAIN stack'[u] : ~Builds(u, i)'
    BY <1>8 DEF Builds
  <2> QED
    BY <2>1 DEF BuildersOK
<1>13. Published' /\ Vacant'
  BY <1>1, <1>3 DEF Published, Vacant
<1>14. RefsOK'
  BY <1>1, <1>3 DEF SInv, RefsOK, RefOK
<1>15. /\ made' \in 0 .. MaxObjects /\ alive' \subseteq 1 .. made'
       /\ initState' \in [thread : Threads \cup {NoThread}, object : 0 .. made']
  <2>1. 0 \in 0 .. made
    BY DEF SInv
  <2> QED
    BY <1>1, <2>1 DEF SInv, NoInit
<1>16. RTypes'
  BY <1>1, <1>5, <1>6, TypesUnseen
<1> QED
  BY <1>9, <1>10, <1>11, <1>12, <1>13, <1>14, <1>15, <1>16 DEF SInv

-----------------------------------------------------------------------------
(* DeleteInstance. *)

OnlyDeletes ==
  \A u \in Threads : ref[u] = 0 /\ \A i \in DOMAIN stack[u] : stack[u][i].op = "Delete"

NoDeleter == \A u \in Threads : \A i \in DOMAIN stack[u] : ~DeleterCall(stack[u][i])

DeleteRecord(pc, object) == [op |-> "Delete", pc |-> pc, object |-> object]

\* Steps of deletions, while there are only those.
LEMMA DeletesGoOn ==
  ASSUME SInv, NEW t \in Threads, OnlyDeletes, UNCHANGED ref,
         DOMAIN stack' = Threads, \A u \in Threads \ {t} : stack'[u] = stack[u],
         StackOK(stack'[t]),
         \A i \in DOMAIN stack'[t] :
           /\ stack'[t][i].op = "Delete"
           /\ stack'[t][i].pc = "Swap" => stack'[t][i].object # 0
           /\ DeleterCall(stack'[t][i]) =>
                NoDeleter \/ \E j \in DOMAIN stack[t] : DeleterCall(stack[t][j])
  PROVE  StacksOK' /\ OneOwner' /\ OneDeleter' /\ BuildersOK' /\ RefsOK' /\ OnlyDeletes'
<1>1. OnlyDeletes'
  BY DEF OnlyDeletes
<1>2. StacksOK'
  BY DEF SInv, StacksOK
<1>3. \A u \in Threads : \A i \in DOMAIN stack'[u] : ~OwnerCall(stack'[u][i]) /\ ~Builds(u, i)'
  BY <1>1 DEF OnlyDeletes, OwnerCall, Builds
<1>4. OneOwner' /\ BuildersOK'
  BY <1>3 DEF OneOwner, BuildersOK, OwnerCall
<1>5. RefsOK'
  BY <1>1 DEF OnlyDeletes, SInv, RefsOK, RefOK
<1>6. ASSUME NEW u \in Threads, NEW v \in Threads, NEW i \in DOMAIN stack'[u], NEW j \in DOMAIN stack'[v],
             DeleterCall(stack'[u][i]), DeleterCall(stack'[v][j]), u # v
      PROVE  FALSE
  <2>1. CASE u # t /\ v # t
    BY <1>6, <2>1 DEF SInv, OneDeleter
  <2>2. CASE u = t
    <3>1. stack'[v] = stack[v]
      BY <1>6, <2>2
    <3>2. ~NoDeleter
      BY <1>6, <3>1 DEF NoDeleter
    <3>3. PICK k \in DOMAIN stack[t] : DeleterCall(stack[t][k])
      BY <1>6, <2>2, <3>2
    <3> QED
      BY <1>6, <2>2, <3>1, <3>3 DEF SInv, OneDeleter
  <2>3. CASE v = t
    <3>1. stack'[u] = stack[u]
      BY <1>6, <2>3
    <3>2. ~NoDeleter
      BY <1>6, <3>1 DEF NoDeleter
    <3>3. PICK k \in DOMAIN stack[t] : DeleterCall(stack[t][k])
      BY <1>6, <2>3, <3>2
    <3> QED
      BY <1>6, <2>3, <3>1, <3>3 DEF SInv, OneDeleter
  <2> QED
    BY <1>6, <2>1, <2>2, <2>3
<1>7. \A u \in Threads : \A i \in DOMAIN stack'[u] :
        stack'[u][i].op = "Delete" /\ stack'[u][i].pc = "Swap" => stack'[u][i].object # 0
  BY DEF SInv, OneDeleter
<1>8. OneDeleter'
  BY <1>1, <1>6, <1>7 DEF OneDeleter, OnlyDeletes, DeleterCall
<1> QED
  BY <1>1, <1>2, <1>4, <1>5, <1>8

\* What is known of a thread in DeleteInstance.
LEMMA DeleteAt ==
  ASSUME SInv, NEW t \in Threads, NEW pc, At(t, "Delete", pc)
  PROVE  /\ stack[t] # <<>> /\ OnlyDeletes /\ Depth(t) = 1
         /\ DOMAIN stack[t] = 1 .. 1 /\ 1 \in DOMAIN stack[t] /\ stack[t][1] = Top(t)
         /\ Top(t) = DeleteRecord(pc, Top(t).object)
         /\ pc \in {"Load", "Swap", "Destructor", "Destroy", "Reset"}
         /\ pc = "Swap" => Top(t).object # 0
<1>1. stack[t] # <<>> /\ Top(t).op = "Delete" /\ Top(t).pc = pc
  BY DEF At
<1>2. /\ StackOK(stack[t]) /\ DOMAIN stack[t] = 1 .. Depth(t)
      /\ Depth(t) \in DOMAIN stack[t] /\ Top(t) = stack[t][Depth(t)] /\ Shaped(Top(t))
  BY <1>1, StackOf
<1>3. Depth(t) = 1
  BY <1>1, <1>2 DEF StackOK, Depth
<1>4. OnlyDeletes
  BY <1>1, <1>2 DEF SInv, OneDeleter, OnlyDeletes
<1>5. /\ Top(t) = DeleteRecord(pc, Top(t).object)
      /\ pc \in {"Load", "Swap", "Destructor", "Destroy", "Reset"}
  BY <1>1, <1>2 DEF Shaped, SingletonOps, DeleteRecord
<1>6. pc = "Swap" => Top(t).object # 0
  BY <1>1, <1>2 DEF SInv, OneDeleter
<1> QED
  BY <1>1, <1>2, <1>3, <1>4, <1>5, <1>6

\* t begins to delete, goes on or is done.
LEMMA DeleteUpdates ==
  ASSUME SInv, NEW t \in Threads, NEW pc, At(t, "Delete", pc), UNCHANGED ref,
         NEW pc2 \in {"Swap", "Destructor", "Destroy", "Reset"}, NEW o,
         Update(t, DeleteRecord(pc2, o)), pc2 = "Swap" => o # 0,
         NoDeleter \/ pc2 = "Swap" \/ DeleterCall(Top(t))
  PROVE  /\ StacksOK' /\ OneOwner' /\ OneDeleter' /\ BuildersOK' /\ RefsOK'
         /\ HasBecome(t, DeleteRecord(pc2, o)) /\ DOMAIN stack' = Threads
         /\ DOMAIN stack'[t] = 1 .. 1 /\ stack'[t][1] = DeleteRecord(pc2, o)
         /\ \A u \in Threads \ {t} : stack'[u] = stack[u]
<1> DEFINE c == DeleteRecord(pc2, o)
<1>1. /\ stack[t] # <<>> /\ OnlyDeletes /\ Depth(t) = 1
      /\ DOMAIN stack[t] = 1 .. 1 /\ 1 \in DOMAIN stack[t] /\ stack[t][1] = Top(t)
      /\ Top(t).op = "Delete" /\ StackOK(stack[t])
  BY DeleteAt, StackOf DEF At
<1>2. /\ Shaped(c) /\ c.op = "Delete" /\ c.pc = pc2 /\ c.object = o
      /\ DeleterCall(c) => pc2 # "Swap"
  BY DEF Shaped, SingletonOps, Ops, DeleteRecord, DeleterCall
<1> HIDE DEF c
<1>3. HasBecome(t, c) /\ stack'[t] = Append(Front(stack[t]), c)
  BY <1>1, Becomes, StackOf DEF Update, Become, c
<1>4. StackOK(stack'[t])
  BY <1>1, <1>2, <1>3, ReplaceOK DEF Depth
<1>5. /\ DOMAIN stack' = Threads /\ DOMAIN stack'[t] = 1 .. 1 /\ stack'[t][1] = c
      /\ \A u \in Threads \ {t} : stack'[u] = stack[u]
  BY <1>1, <1>3 DEF HasBecome, OthersStay
<1>6. \A i \in DOMAIN stack'[t] : stack'[t][i] = c
  BY <1>5
<1>7. \A i \in DOMAIN stack'[t] :
        /\ stack'[t][i].op = "Delete"
        /\ stack'[t][i].pc = "Swap" => stack'[t][i].object # 0
        /\ DeleterCall(stack'[t][i]) =>
             NoDeleter \/ \E j \in DOMAIN stack[t] : DeleterCall(stack[t][j])
  BY <1>1, <1>2, <1>6
<1>8. StacksOK' /\ OneOwner' /\ OneDeleter' /\ BuildersOK' /\ RefsOK'
  BY <1>1, <1>4, <1>5, <1>7, DeletesGoOn
<1> QED
  BY <1>3, <1>5, <1>8 DEF c

\* DeleteInstance returns.
LEMMA DeleteLeaves ==
  ASSUME SInv, NEW t \in Threads, NEW pc, At(t, "Delete", pc), UNCHANGED ref, Leave(t)
  PROVE  /\ StacksOK' /\ OneOwner' /\ OneDeleter' /\ BuildersOK' /\ RefsOK'
         /\ HasLeft(t) /\ DOMAIN stack' = Threads /\ DOMAIN stack'[t] = {}
         /\ \A u \in Threads \ {t} : stack'[u] = stack[u]
<1>1. stack[t] # <<>> /\ OnlyDeletes /\ Depth(t) = 1 /\ StackOK(stack[t])
  BY DeleteAt, StackOf
<1>2. HasLeft(t) /\ stack'[t] = Front(stack[t])
  BY <1>1, Leaves, StackOf DEF Leave, Become
<1>3. StackOK(stack'[t])
  BY <1>1, <1>2, PopOK
<1>4. /\ DOMAIN stack' = Threads /\ DOMAIN stack'[t] = {}
      /\ \A u \in Threads \ {t} : stack'[u] = stack[u]
  BY <1>1, <1>2 DEF HasLeft, OthersStay
<1>5. StacksOK' /\ OneOwner' /\ OneDeleter' /\ BuildersOK' /\ RefsOK'
  BY <1>1, <1>3, <1>4, DeletesGoOn
<1> QED
  BY <1>2, <1>4, <1>5

\* A deletion begins when nobody uses the instance.
LEMMA BeginDeleteKeeps ==
  ASSUME SInv, RTypes, NEW t \in Threads, BeginDelete(t)
  PROVE  SInv' /\ RTypes'
<1>1. /\ stack[t] = <<>> /\ Enter(t, DeleteCall)
      /\ UNCHANGED <<instance, initState, isInitializing, made, alive, ref, mutex, listVars, cur>>
  BY DEF BeginDelete, Begin, singletonVars
<1>2. OnlyDeletes
  BY DEF BeginDelete, NobodyUses, OnlyDeletes, Calls, Range
<1>3. HasBegun(t, DeleteCall) /\ stack'[t] = Append(stack[t], DeleteCall)
  BY <1>1, Begins, StackOf DEF Enter, Become
<1>4. Shaped(DeleteCall) /\ DeleteCall.op = "Delete" /\ DeleteCall.pc = "Load"
  BY DEF Shaped, SingletonOps, Ops, DeleteCall
<1>5. StackOK(stack'[t])
  BY <1>1, <1>3, <1>4, StackOf, PushOK DEF Inner
<1>6. /\ DOMAIN stack' = Threads /\ \A u \in Threads \ {t} : stack'[u] = stack[u]
      /\ DOMAIN stack'[t] = 1 .. 1 /\ \A i \in DOMAIN stack'[t] : stack'[t][i] = DeleteCall
  BY <1>3 DEF HasBegun, OthersStay
<1>7. StacksOK' /\ OneOwner' /\ OneDeleter' /\ BuildersOK' /\ RefsOK'
  BY <1>1, <1>2, <1>4, <1>5, <1>6, DeletesGoOn DEF DeleterCall
<1>8. DeletersOK'
  BY <1>1, <1>4, <1>6 DEF SInv, DeletersOK, DeleterCall
<1>9. Published' /\ Vacant'
  <2>1. \A u \in Threads : \A i \in DOMAIN stack[u] :
          i \in DOMAIN stack'[u] /\ stack'[u][i] = stack[u][i]
    BY <1>1, <1>6
  <2> QED
    BY <1>1, <2>1 DEF SInv, Published, Vacant, DeleterCall
<1>10. RTypes'
  BY <1>1, <1>4, <1>6, TypesUnseen
<1> QED
  BY <1>1, <1>7, <1>8, <1>9, <1>10 DEF SInv

\* The steps of DeleteInstance.
LEMMA DeleteKeeps ==
  ASSUME SInv, RTypes, NEW t \in Threads, UNCHANGED <<mutex, listVars, cur>>,
         DeleteLoad(t) \/ DeleteSwap(t) \/ Destroy(t) \/ DeleteReset(t)
  PROVE  SInv' /\ RTypes'
<1>0. PICK o : o = Top(t).object
  OBVIOUS
<1>1. /\ stack[t] # <<>> /\ OnlyDeletes /\ 1 \in DOMAIN stack[t] /\ stack[t][1] = Top(t)
      /\ DOMAIN stack[t] = 1 .. 1 /\ Top(t) = DeleteRecord(Top(t).pc, o)
  BY <1>0, DeleteAt DEF DeleteLoad, DeleteSwap, Destroy, DeleteReset, At
<1>2. \A u \in Threads : \A i \in DOMAIN stack[u] : stack[u][i].op # "Get"
  BY <1>1 DEF OnlyDeletes
<1>3. CASE DeleteLoad(t)
  <2>1. At(t, "Delete", "Load") /\ UNCHANGED singletonVars /\ ~DeleterCall(Top(t))
    BY <1>3 DEF DeleteLoad, At, DeleterCall
  <2>2. CASE Leave(t)
    <3>1. /\ StacksOK' /\ OneOwner' /\ OneDeleter' /\ BuildersOK' /\ RefsOK'
          /\ HasLeft(t) /\ DOMAIN stack' = Threads /\ DOMAIN stack'[t] = {}
          /\ \A u \in Threads \ {t} : stack'[u] = stack[u]
      BY <2>1, <2>2, DeleteLeaves DEF singletonVars
    <3>2. DeletersOK' /\ Published' /\ Vacant'
      <4>1. \A u \in Threads : \A i \in DOMAIN stack'[u] :
              i \in DOMAIN stack[u] /\ stack'[u][i] = stack[u][i]
        BY <3>1
      <4>2. \A u \in Threads : \A i \in DOMAIN stack[u] :
              DeleterCall(stack[u][i]) => i \in DOMAIN stack'[u] /\ stack'[u][i] = stack[u][i]
        BY <1>1, <2>1, <3>1
      <4> QED
        BY <1>2, <2>1, <4>1, <4>2
          DEF SInv, DeletersOK, Published, Vacant, singletonVars, DeleterCall
    <3>3. RTypes'
      BY <1>1, <3>1, TypesAfterLeave
    <3> QED
      BY <2>1, <3>1, <3>2, <3>3 DEF SInv, singletonVars
  <2>3. CASE instance # 0 /\ Update(t, [Top(t) EXCEPT !.pc = "Swap", !.object = instance])
    <3>1. [Top(t) EXCEPT !.pc = "Swap", !.object = instance] = DeleteRecord("Swap", instance)
      <4> DEFINE r == [Top(t) EXCEPT !.pc = "Swap"]
      <4>1. [Top(t) EXCEPT !.pc = "Swap", !.object = instance] = [r EXCEPT !.object = instance]
        OBVIOUS
      <4>2. r = DeleteRecord("Swap", o)
        BY <1>1 DEF DeleteRecord
      <4> HIDE DEF r
      <4>3. [r EXCEPT !.object = instance] = DeleteRecord("Swap", instance)
        BY <4>2 DEF DeleteRecord
      <4> QED
        BY <4>1, <4>3
    <3>2. PICK x : x = instance
      OBVIOUS
    <3>3. Update(t, DeleteRecord("Swap", x)) /\ x # 0
      BY <2>3, <3>1, <3>2
    <3>4. /\ StacksOK' /\ OneOwner' /\ OneDeleter' /\ BuildersOK' /\ RefsOK'
          /\ HasBecome(t, DeleteRecord("Swap", x)) /\ DOMAIN stack' = Threads
          /\ DOMAIN stack'[t] = 1 .. 1 /\ stack'[t][1] = DeleteRecord("Swap", x)
          /\ \A u \in Threads \ {t} : stack'[u] = stack[u]
      BY <2>1, <3>3, DeleteUpdates DEF singletonVars
    <3>5. ~DeleterCall(stack'[t][1]) /\ \A i \in DOMAIN stack'[t] : i = 1
      BY <3>4 DEF DeleteRecord, DeleterCall
    <3>6. DeletersOK'
      BY <2>1, <3>4, <3>5 DEF SInv, DeletersOK, singletonVars, DeleterCall
    <3>7. Published' /\ Vacant'
      BY <2>1, <2>3 DEF SInv, Published, Vacant, singletonVars
    <3>8. RTypes'
      <4>1. DeleteRecord("Swap", x).op # "Update"
        BY DEF DeleteRecord
      <4> QED
        BY <1>1, <3>4, <4>1, TypesAfterUpdate
    <3> QED
      BY <2>1, <3>4, <3>6, <3>7, <3>8 DEF SInv, singletonVars
  <2> QED
    BY <1>3, <2>2, <2>3 DEF DeleteLoad
<1>4. CASE DeleteSwap(t)
  <2>1. /\ At(t, "Delete", "Swap") /\ o # 0 /\ ~DeleterCall(Top(t))
        /\ UNCHANGED <<initState, isInitializing, made, alive, ref>>
    BY <1>0, <1>4, DeleteAt DEF DeleteSwap, At, DeleterCall
  <2>2. CASE Leave(t) /\ UNCHANGED instance
    <3>1. /\ StacksOK' /\ OneOwner' /\ OneDeleter' /\ BuildersOK' /\ RefsOK'
          /\ HasLeft(t) /\ DOMAIN stack' = Threads /\ DOMAIN stack'[t] = {}
          /\ \A u \in Threads \ {t} : stack'[u] = stack[u]
      BY <2>1, <2>2, DeleteLeaves
    <3>2. DeletersOK' /\ Published' /\ Vacant'
      <4>1. \A u \in Threads : \A i \in DOMAIN stack'[u] :
              i \in DOMAIN stack[u] /\ stack'[u][i] = stack[u][i]
        BY <3>1
      <4>2. \A u \in Threads : \A i \in DOMAIN stack[u] :
              DeleterCall(stack[u][i]) => i \in DOMAIN stack'[u] /\ stack'[u][i] = stack[u][i]
        BY <1>1, <2>1, <3>1
      <4> QED
        BY <1>2, <2>1, <2>2, <4>1, <4>2 DEF SInv, DeletersOK, Published, Vacant, DeleterCall
    <3>3. RTypes'
      BY <1>1, <3>1, TypesAfterLeave
    <3> QED
      BY <2>1, <2>2, <3>1, <3>2, <3>3 DEF SInv
  <2>3. CASE instance = o /\ instance' = 0 /\ Goto(t, "Destructor")
    <3>1. Update(t, DeleteRecord("Destructor", o))
      BY <1>1, <2>3 DEF DeleteRecord, Goto
    <3>2. NoDeleter /\ alive = {o}
      BY <2>1, <2>3 DEF SInv, DeletersOK, NoDeleter, Published
    <3>3. /\ StacksOK' /\ OneOwner' /\ OneDeleter' /\ BuildersOK' /\ RefsOK'
          /\ HasBecome(t, DeleteRecord("Destructor", o)) /\ DOMAIN stack' = Threads
          /\ DOMAIN stack'[t] = 1 .. 1 /\ stack'[t][1] = DeleteRecord("Destructor", o)
          /\ \A u \in Threads \ {t} : stack'[u] = stack[u]
      BY <2>1, <3>1, <3>2, DeleteUpdates
    <3>4. /\ stack'[t][1].pc = "Destructor" /\ stack'[t][1].object = o
          /\ DeleterCall(stack'[t][1]) /\ 1 \in DOMAIN stack'[t]
          /\ \A i \in DOMAIN stack'[t] : i = 1
      BY <3>3 DEF DeleteRecord, DeleterCall
    <3>5. \A u \in Threads : \A i \in DOMAIN stack'[u] : DeleterCall(stack'[u][i]) => u = t /\ i = 1
      BY <3>2, <3>3, <3>4 DEF NoDeleter, DeleterCall
    <3>6. DeletersOK'
      <4>1. alive' = {o}
        BY <2>1, <3>2
      <4> QED
        BY <2>3, <3>4, <3>5, <4>1 DEF DeletersOK, DeleterCall
    <3>7. Published' /\ Vacant'
      BY <2>3, <3>4 DEF Published, Vacant, DeleterCall
    <3>8. RTypes'
      <4>1. DeleteRecord("Destructor", o).op # "Update"
        BY DEF DeleteRecord
      <4> QED
        BY <1>1, <3>3, <4>1, TypesAfterUpdate
    <3> QED
      BY <2>1, <3>3, <3>6, <3>7, <3>8 DEF SInv
  <2> QED
    BY <1>0, <1>4, <2>2, <2>3 DEF DeleteSwap, TakesInstance
<1>5. CASE Destroy(t)
  <2>1. /\ At(t, "Delete", "Destroy") /\ Top(t).pc = "Destroy" /\ Top(t).op = "Delete"
        /\ alive' = alive \ {o} /\ Goto(t, "Reset")
        /\ UNCHANGED <<instance, initState, isInitializing, made, ref>>
    BY <1>0, <1>5 DEF Destroy, At
  <2>2. DeleterCall(Top(t)) /\ instance = 0 /\ alive = {o}
    BY <1>0, <1>1, <2>1 DEF DeleterCall, SInv, DeletersOK
  <2>3. Update(t, DeleteRecord("Reset", o))
    BY <1>1, <2>1 DEF DeleteRecord, Goto
  <2>4. /\ StacksOK' /\ OneOwner' /\ OneDeleter' /\ BuildersOK' /\ RefsOK'
        /\ HasBecome(t, DeleteRecord("Reset", o)) /\ DOMAIN stack' = Threads
        /\ DOMAIN stack'[t] = 1 .. 1 /\ stack'[t][1] = DeleteRecord("Reset", o)
        /\ \A u \in Threads \ {t} : stack'[u] = stack[u]
    BY <2>1, <2>2, <2>3, DeleteUpdates
  <2>5. /\ stack'[t][1].pc = "Reset" /\ DeleterCall(stack'[t][1]) /\ 1 \in DOMAIN stack'[t]
        /\ \A i \in DOMAIN stack'[t] : i = 1
    BY <2>4 DEF DeleteRecord, DeleterCall
  <2>6. \A u \in Threads : \A i \in DOMAIN stack'[u] : DeleterCall(stack'[u][i]) => u = t /\ i = 1
    BY <1>1, <2>2, <2>4, <2>5 DEF SInv, OneDeleter, DeleterCall
  <2>7. DeletersOK'
    <3>1. alive' = {} /\ instance' = 0
      BY <2>1, <2>2
    <3> QED
      BY <2>5, <2>6, <3>1 DEF DeletersOK, DeleterCall
  <2>8. Published' /\ Vacant'
    BY <2>1, <2>2, <2>5 DEF Published, Vacant, DeleterCall
  <2>9. RTypes'
    <3>1. DeleteRecord("Reset", o).op # "Update"
      BY DEF DeleteRecord
    <3> QED
      BY <1>1, <2>4, <3>1, TypesAfterUpdate
  <2> QED
    BY <2>1, <2>4, <2>7, <2>8, <2>9 DEF SInv
<1>6. CASE DeleteReset(t)
  <2>1. /\ At(t, "Delete", "Reset") /\ Top(t).pc = "Reset" /\ Top(t).op = "Delete"
        /\ initState' = NoInit /\ Leave(t)
        /\ UNCHANGED <<instance, isInitializing, made, alive, ref>>
    BY <1>6 DEF DeleteReset, At, AfterDelete
  <2>2. DeleterCall(Top(t)) /\ instance = 0 /\ alive = {}
    BY <1>1, <2>1 DEF DeleterCall, SInv, DeletersOK
  <2>3. /\ StacksOK' /\ OneOwner' /\ OneDeleter' /\ BuildersOK' /\ RefsOK'
        /\ HasLeft(t) /\ DOMAIN stack' = Threads /\ DOMAIN stack'[t] = {}
        /\ \A u \in Threads \ {t} : stack'[u] = stack[u]
    BY <2>1, DeleteLeaves
  <2>4. DeletersOK'
    <3>1. \A u \in Threads : \A i \in DOMAIN stack'[u] : ~DeleterCall(stack'[u][i])
      BY <1>1, <2>2, <2>3 DEF SInv, OneDeleter, DeleterCall
    <3> QED
      BY <3>1 DEF DeletersOK, DeleterCall
  <2>5. Published' /\ Vacant'
    BY <2>1, <2>2 DEF Published, Vacant
  <2>6. initState' \in [thread : Threads \cup {NoThread}, object : 0 .. made]
    <3>1. 0 \in 0 .. made
      BY DEF SInv
    <3> QED
      BY <2>1, <3>1 DEF NoInit
  <2>7. RTypes'
    BY <1>1, <2>3, TypesAfterLeave
  <2> QED
    BY <2>1, <2>3, <2>4, <2>5, <2>6, <2>7 DEF SInv
<1> QED
  BY <1>3, <1>4, <1>5, <1>6

\* T's destructor unsubscribes: nobody updates the subscribers then.
LEMMA DestructorUnsubscribeKeeps ==
  ASSUME SInv, RTypes, NEW t \in Threads, DestructorUnsubscribe(t)
  PROVE  SInv' /\ RTypes'
<1>0. PICK o : o = Top(t).object
  OBVIOUS
<1>1. /\ At(t, "Delete", "Destructor") /\ Top(t).pc = "Destructor" /\ Top(t).op = "Delete"
      /\ ordered' = Only(ordered, Types \ {Managed}) /\ Goto(t, "Destroy")
      /\ UNCHANGED <<instance, initState, isInitializing, made, alive, ref, mutex, fns, unloads,
                     active, cur>>
  BY DEF DestructorUnsubscribe, singletonVars, At
<1>2. /\ stack[t] # <<>> /\ OnlyDeletes /\ 1 \in DOMAIN stack[t] /\ stack[t][1] = Top(t)
      /\ DOMAIN stack[t] = 1 .. 1 /\ Top(t) = DeleteRecord("Destructor", o)
  BY <1>0, <1>1, DeleteAt
<1>3. DeleterCall(Top(t)) /\ instance = 0 /\ alive = {o}
  BY <1>0, <1>1, <1>2 DEF DeleterCall, SInv, DeletersOK
<1>4. Update(t, DeleteRecord("Destroy", o))
  BY <1>1, <1>2 DEF DeleteRecord, Goto
<1>5. /\ StacksOK' /\ OneOwner' /\ OneDeleter' /\ BuildersOK' /\ RefsOK'
      /\ HasBecome(t, DeleteRecord("Destroy", o)) /\ DOMAIN stack' = Threads
      /\ DOMAIN stack'[t] = 1 .. 1 /\ stack'[t][1] = DeleteRecord("Destroy", o)
      /\ \A u \in Threads \ {t} : stack'[u] = stack[u]
  BY <1>1, <1>3, <1>4, DeleteUpdates
<1>6. /\ stack'[t][1].pc = "Destroy" /\ stack'[t][1].object = o /\ stack'[t][1].op = "Delete"
      /\ DeleterCall(stack'[t][1]) /\ 1 \in DOMAIN stack'[t]
      /\ \A i \in DOMAIN stack'[t] : i = 1
  BY <1>5 DEF DeleteRecord, DeleterCall
<1>7. \A u \in Threads : \A i \in DOMAIN stack'[u] : DeleterCall(stack'[u][i]) => u = t /\ i = 1
  BY <1>2, <1>3, <1>5, <1>6 DEF SInv, OneDeleter, DeleterCall
<1>8. DeletersOK'
  <2>1. alive' = {o} /\ instance' = 0
    BY <1>1, <1>3
  <2> QED
    BY <1>6, <1>7, <2>1 DEF DeletersOK, DeleterCall
<1>9. Published' /\ Vacant'
  BY <1>1, <1>3, <1>6 DEF Published, Vacant, DeleterCall
<1>10. VarTypes'
  <2>1. ordered \in Seq(Types) /\ \A i, j \in DOMAIN ordered : ordered[i] = ordered[j] => i = j
    BY DEF RTypes, VarTypes
  <2> DEFINE S == Types \ {Managed}
             list == Only(ordered, S)
  <2>2. Types \cap S = S /\ S \subseteq Types
    OBVIOUS
  <2> HIDE DEF S
  <2>3. list \in Seq(Types \cap S) /\ \A i, j \in DOMAIN list : list[i] = list[j] => i = j
    BY <2>1, OnlyMembers
  <2> HIDE DEF list
  <2>4. list \in Seq(Types)
    BY <2>2, <2>3
  <2>5. ordered' = list
    BY <1>1 DEF list, S
  <2> QED
    BY <1>1, <2>3, <2>4, <2>5 DEF RTypes, VarTypes
<1>11. UpdatesListed'
  <2>1. \A u \in Threads : \A i \in DOMAIN stack'[u] : stack'[u][i].op = "Delete"
    BY <1>2, <1>5, <1>6 DEF OnlyDeletes
  <2> QED
    BY <2>1 DEF UpdatesListed
<1> QED
  BY <1>1, <1>5, <1>8, <1>9, <1>10, <1>11 DEF SInv, RTypes

-----------------------------------------------------------------------------
(* The specification. *)

\* Before the first call the invariant holds.
LEMMA InitiallySound == Init => SInv /\ RTypes
<1> SUFFICES ASSUME Init PROVE SInv /\ RTypes
  OBVIOUS
<1>1. /\ stack = [t \in Threads |-> <<>>] /\ ref = [t \in Threads |-> 0]
      /\ instance = 0 /\ initState = NoInit /\ isInitializing = FALSE
      /\ made = 0 /\ alive = {}
  BY DEF Init, SingletonInit
<1>2. DOMAIN stack = Threads /\ \A t \in Threads : stack[t] = <<>> /\ DOMAIN stack[t] = {}
  BY <1>1
<1>3. StackOK(<<>>)
  BY EmptyList DEF StackOK
<1>4. StacksOK /\ OneOwner /\ OneDeleter /\ BuildersOK /\ DeletersOK
  BY <1>2, <1>3 DEF StacksOK, OneOwner, OneDeleter, BuildersOK, DeletersOK
<1>5. Published /\ Vacant /\ RefsOK
  BY <1>1 DEF Published, Vacant, RefsOK, RefOK
<1>6. /\ made \in 0 .. MaxObjects /\ alive \subseteq 1 .. made
      /\ initState \in [thread : Threads \cup {NoThread}, object : 0 .. made]
  BY <1>1, SingletonAssumption DEF NoInit
<1>7. VarTypes
  <2>1. ordered = <<>> /\ mutex = NoThread
    BY DEF Init
  <2>2. fns \in [Types -> Seq(Fns)] /\ unloads \in [Libs -> Seq(Fns)]
    BY DEF Init
  <2>3. cur \in [Threads -> LibOrNone]
    BY DEF Init, LibOrNone
  <2>4. active \in [Threads -> [lib : LibOrNone, fns : Seq(Fns)]]
    BY DEF Init, NoActive, LibOrNone
  <2> QED
    BY <2>1, <2>2, <2>3, <2>4 DEF VarTypes
<1>8. UpdatesListed
  BY <1>2 DEF UpdatesListed
<1> QED
  BY <1>4, <1>5, <1>6, <1>7, <1>8 DEF SInv, RTypes

Flag == isInitializing \in BOOLEAN

\* isInitializing is a boolean.
LEMMA FlagKept == Flag /\ [Next]_vars => Flag'
<1> SUFFICES ASSUME Flag, [Next]_vars PROVE Flag'
  OBVIOUS
<1>1. ASSUME NEW t \in Threads, OfSingleton(t) PROVE isInitializing' \in {isInitializing, TRUE, FALSE}
  BY <1>1 DEF OfSingleton, SingletonStep, GetLoad, GetOwner, GetExchange, GetCheck, GetPublish,
    GetClear, GetWait, GetReload, Declare, ConstructorReturn, DeleteLoad, DeleteSwap, Destroy,
    DeleteReset, singletonVars
<1>2. ASSUME NEW t \in Threads, LoadAdd(t) \/ LoadClose(t) \/ SubscribeLock(t)
      PROVE  isInitializing' = isInitializing
  BY <1>2 DEF LoadAdd, LoadClose, SubscribeLock, LockAndProcess, singletonVars
<1>3. ASSUME NEW t \in Threads, Step(t) PROVE isInitializing' \in {isInitializing, TRUE, FALSE}
  BY <1>1, <1>2, <1>3 DEF Step, ConstructorSubscribe, DestructorUnsubscribe, SubscribeInsert,
    SubscribeUnlock, UnlockAndLeave, UpdateNext, RunTake, RunCallNext, RunRelock, FunctionBody,
    AddFunctionForUnload, LoadOpen, LoadActivate, LoadGlobal, LoadUnlock, Drop, singletonVars
<1>4. ASSUME NEW t \in Threads,
             \/ ConstructorThrow(t) \/ BeginCall(t) \/ BeginDelete(t)
             \/ \E l \in Libs : UnloadLibrary(t, l)
      PROVE  isInitializing' = isInitializing
  BY <1>4 DEF ConstructorThrow, Throw, BeginCall, BeginDelete, Begin, UnloadLibrary, singletonVars
<1>5. ASSUME UNCHANGED vars PROVE isInitializing' = isInitializing
  BY <1>5 DEF vars, singletonVars
<1>6. isInitializing' \in {isInitializing, TRUE, FALSE}
  BY <1>3, <1>4, <1>5 DEF Next
<1> QED
  BY <1>6 DEF Flag

\* Every step of every thread preserves the invariant.
LEMMA StepsKeep == SInv /\ RTypes /\ Flag /\ [Next]_vars => SInv' /\ RTypes'
<1> SUFFICES ASSUME SInv, RTypes, Flag, [Next]_vars PROVE SInv' /\ RTypes'
  OBVIOUS
<1>1. CASE UNCHANGED vars
  <2>1. UNCHANGED <<stack, instance, initState, isInitializing, made, alive, ref, mutex, ordered,
                    fns, unloads, cur, active>>
    BY <1>1 DEF vars, singletonVars, listVars
  <2>2. SInv'
    BY <2>1 DEF SInv, StacksOK, OneOwner, OneDeleter, BuildersOK, Builds, DeletersOK, Published,
      Vacant, RefsOK, RefOK
  <2>3. RTypes'
    BY <2>1 DEF RTypes, VarTypes, UpdatesListed
  <2> QED
    BY <2>2, <2>3
<1>2. ASSUME NEW t \in Threads, OfSingleton(t) PROVE SInv' /\ RTypes'
  <2>1. UNCHANGED <<mutex, listVars, cur>> /\ SingletonStep(t)
    BY <1>2 DEF OfSingleton
  <2>2. CASE \/ GetLoad(t) \/ GetOwner(t) \/ GetWait(t) \/ GetReload(t)
             \/ GetExchange(t) /\ isInitializing = TRUE
    BY <2>1, <2>2, GetKeeps
  <2>3. CASE \/ GetExchange(t) /\ isInitializing = FALSE
             \/ GetCheck(t) /\ ~MustCreate
             \/ GetPublish(t) \/ GetClear(t)
    BY <2>1, <2>3, OwnerKeeps
  <2>4. CASE GetCheck(t) /\ MustCreate
    BY <2>1, <2>4, CreateKeeps
  <2>5. CASE Declare(t)
    BY <2>1, <2>5, DeclareKeeps
  <2>6. CASE ConstructorReturn(t)
    BY <2>1, <2>6, ConstructorReturnKeeps
  <2>7. CASE DeleteLoad(t) \/ DeleteSwap(t) \/ Destroy(t) \/ DeleteReset(t)
    BY <2>1, <2>7, DeleteKeeps
  <2>8. CASE GetExchange(t) /\ isInitializing \notin BOOLEAN
    BY <2>8 DEF Flag
  <2> QED
    BY <2>1, <2>2, <2>3, <2>4, <2>5, <2>6, <2>7, <2>8 DEF SingletonStep
<1>3. ASSUME NEW t \in Threads, Step(t) PROVE SInv' /\ RTypes'
  BY <1>2, <1>3, ConstructorSubscribeKeeps, DestructorUnsubscribeKeeps, SubscribeKeeps, UpdateKeeps,
    RunKeeps, FunctionKeeps, LoadKeeps, DropKeeps DEF Step
<1>4. ASSUME NEW t \in Threads, ConstructorThrow(t) PROVE SInv' /\ RTypes'
  BY <1>4, ThrowKeeps
<1>5. ASSUME NEW t \in Threads, BeginCall(t) PROVE SInv' /\ RTypes'
  BY <1>5, BeginKeeps
<1>6. ASSUME NEW t \in Threads, BeginDelete(t) PROVE SInv' /\ RTypes'
  BY <1>6, BeginDeleteKeeps
<1>7. ASSUME NEW t \in Threads, NEW l \in Libs, UnloadLibrary(t, l) PROVE SInv' /\ RTypes'
  BY <1>7, UnloadKeeps
<1> QED
  BY <1>1, <1>3, <1>4, <1>5, <1>6, <1>7 DEF Next

\* The inductive invariant: who has the initialization, or deletes, tells what
\* _instance, _initState and the memory are; and the types of the registry.
THEOREM InitializationInvariant == Spec => [](SInv /\ RTypes /\ Flag)
<1>1. Init => Flag
  BY DEF Init, SingletonInit, Flag
<1> QED
  BY <1>1, InitiallySound, StepsKeep, FlagKept, PTL DEF Spec

\* What the invariant says of those who have the instance.
LEMMA SoundMeansUsable == SInv => SingletonIsUsable
<1> SUFFICES ASSUME SInv PROVE SingletonIsUsable
  OBVIOUS
<1>1. ASSUME NEW t \in Threads, At(t, "Delete", "Destroy")
      PROVE  DeleterCall(stack[t][1]) /\ 1 \in DOMAIN stack[t] /\ Top(t) = stack[t][1]
             /\ Top(t).object \in alive
  <2>1. Top(t).op = "Delete" /\ Top(t).pc = "Destroy" /\ 1 \in DOMAIN stack[t] /\ Top(t) = stack[t][1]
    BY <1>1, DeleteAt DEF At
  <2>2. DeleterCall(stack[t][1])
    BY <2>1 DEF DeleterCall
  <2>3. alive = {stack[t][1].object}
    BY <2>1, <2>2 DEF SInv, DeletersOK
  <2> QED
    BY <2>1, <2>2, <2>3
<1>2. DeletedOnce
  BY <1>1 DEF DeletedOnce, SInv, OneDeleter
<1>3. alive = {} \/ \E o : alive = {o}
  <2>1. CASE instance # 0
    BY <2>1 DEF SInv, Published
  <2>2. ASSUME NEW t \in Threads, NEW i \in DOMAIN stack[t], DeleterCall(stack[t][i])
        PROVE  alive = {} \/ \E o : alive = {o}
    BY <2>2 DEF SInv, DeletersOK
  <2>3. ASSUME NEW t \in Threads, NEW i \in DOMAIN stack[t],
               stack[t][i].op = "Get", stack[t][i].pc = "Publish"
        PROVE  \E o : alive = {o}
    <3>1. PICK j \in DOMAIN stack[t] : Builds(t, j)
      BY <2>3, PublishersBuild
    <3> QED
      BY <3>1 DEF SInv, BuildersOK
  <2> QED
    BY <2>1, <2>2, <2>3 DEF SInv, Vacant
<1>4. Cardinality(alive) <= 1
  <2>1. CASE alive = {}
    BY <2>1, FS_EmptySet
  <2>2. ASSUME NEW o, alive = {o} PROVE Cardinality(alive) <= 1
    <3>1. Cardinality({o}) = 1
      BY FS_Singleton
    <3> QED
      BY <2>2, <3>1
  <2> QED
    BY <1>3, <2>1, <2>2
<1>5. ReferenceIsUsable
  BY DEF SInv, RefsOK, RefOK, ReferenceIsUsable
<1>6. ConstructionsNeverCollide
  <2>1. ASSUME NEW t \in Threads, At(t, "Constructor", "Declare") PROVE MayDeclare
    <3>1. PICK n : n = Depth(t)
      OBVIOUS
    <3>2. n \in DOMAIN stack[t] /\ Builds(t, n) /\ stack[t][n].pc = "Declare"
      BY <2>1, <3>1, ConstructorAt
    <3> QED
      BY <3>2, BuilderAlone DEF MayDeclare
  <2>2. ASSUME NEW t \in Threads, At(t, "Get", "Publish")
        PROVE  instance = 0 /\ initState = [thread |-> t, object |-> Top(t).object]
    <3>1. PICK n : n = Depth(t)
      OBVIOUS
    <3>2. n \in DOMAIN stack[t] /\ Top(t) = stack[t][n]
      BY <2>2, <3>1, GetAt
    <3>3. Builds(t, n) /\ stack[t][n].pc # "Declare"
      BY <2>2, <3>1, <3>2 DEF Builds, At, Depth
    <3> QED
      BY <3>2, <3>3, BuilderAlone
  <2> QED
    BY <2>1, <2>2 DEF ConstructionsNeverCollide
<1> QED
  BY <1>2, <1>4, <1>5, <1>6 DEF SingletonIsUsable, OneObject

\* There is one object at a time, and whoever gets it can use it: a constructor
\* never finds another's instance or initialization, and nobody's is freed twice.
THEOREM InstanceIsUsable == Spec => []SingletonIsUsable
  BY InitializationInvariant, SoundMeansUsable, PTL

-----------------------------------------------------------------------------
(* The registry manager: the calls that see to the functions of a type. *)

Loops(call) == call.op \in {"Run", "Update"}

\* What call does for the types of a list of subscriptions, d does too.
Alternates(call, d) == d.op = call.op /\ d.type = call.type

\* The i-th call of t will look at the list of ty.
SeesTo(t, i, ty) ==
  \/ stack[t][i].op = "Run" /\ stack[t][i].type = ty
  \/ stack[t][i].op = "Update" /\ ty \in Range(NextSubscription(stack[t][i].type))

\* A pending type is one that some call of a stack sees to,
LEMMA PendingMeans ==
  ASSUME NEW t, NEW ty
  PROVE  Pending(t, ty) <=> \E i \in DOMAIN stack[t] : SeesTo(t, i, ty)
  BY DEF Pending, Calls, Range, SeesTo

\* after a step too.
LEMMA PendingMeansNext ==
  ASSUME NEW t, NEW ty
  PROVE  Pending(t, ty)' <=> \E i \in DOMAIN stack'[t] : SeesTo(t, i, ty)'
  BY DEF Pending, Calls, Range, SeesTo

\* The loops of every thread go on.
KeepsLoops(t) ==
  /\ DOMAIN stack' = Threads /\ \A u \in Threads \ {t} : stack'[u] = stack[u]
  /\ \A i \in DOMAIN stack[t] : Loops(stack[t][i]) =>
       i \in DOMAIN stack'[t] /\ Alternates(stack[t][i], stack'[t][i])

\* No list of a type gets functions.
NothingAdded == \A ty \in Types : fns'[ty] # <<>> => fns[ty] # <<>>

\* Where the loops go on and nothing is added, nothing is forgotten.
LEMMA LoopsGoOn ==
  ASSUME SubscribedFunctionsRun, NEW t \in Threads, KeepsLoops(t), NothingAdded,
         UNCHANGED ordered
  PROVE  SubscribedFunctionsRun'
<1> SUFFICES ASSUME NEW ty \in Types, Subscribed(ty)', fns'[ty] # <<>>
             PROVE  \E u \in Threads : Pending(u, ty)'
  BY DEF SubscribedFunctionsRun
<1>1. Subscribed(ty) /\ fns[ty] # <<>>
  BY DEF Subscribed, NothingAdded
<1>2. PICK u \in Threads : Pending(u, ty)
  BY <1>1 DEF SubscribedFunctionsRun
<1>3. PICK i \in DOMAIN stack[u] : SeesTo(u, i, ty)
  BY <1>2, PendingMeans
<1>4. Loops(stack[u][i])
  BY <1>3 DEF SeesTo, Loops
<1>5. i \in DOMAIN stack'[u] /\ Alternates(stack[u][i], stack'[u][i])
  BY <1>4 DEF KeepsLoops, Alternates
<1>6. SeesTo(u, i, ty)'
  BY <1>3, <1>5 DEF SeesTo, Alternates, NextSubscription
<1> QED
  BY <1>5, <1>6, PendingMeansNext

-----------------------------------------------------------------------------
(* The calls below the innermost one stay, and it is no loop, or stays one. *)

\* A call returns,
LEMMA LoopsUnderReturn ==
  ASSUME SInv, NEW t \in Threads, stack[t] # <<>>, ~Loops(Top(t)), Leave(t)
  PROVE  KeepsLoops(t)
<1>1. HasLeft(t)
  BY Leaves
<1>2. /\ Depth(t) \in Nat /\ DOMAIN stack[t] = 1 .. Depth(t) /\ Top(t) = stack[t][Depth(t)]
  BY StackOf
<1> QED
  BY <1>1, <1>2 DEF HasLeft, OthersStay, KeepsLoops, Alternates

\* goes on,
LEMMA LoopsUnderUpdate ==
  ASSUME SInv, NEW t \in Threads, stack[t] # <<>>, NEW c,
         ~Loops(Top(t)) \/ Alternates(Top(t), c), Update(t, c)
  PROVE  KeepsLoops(t)
<1>1. HasBecome(t, c)
  BY Becomes
<1>2. /\ Depth(t) \in Nat /\ DOMAIN stack[t] = 1 .. Depth(t) /\ Top(t) = stack[t][Depth(t)]
  BY StackOf
<1> QED
  BY <1>1, <1>2 DEF HasBecome, OthersStay, KeepsLoops, Alternates

\* or calls,
LEMMA LoopsUnderCall ==
  ASSUME SInv, NEW t \in Threads, stack[t] # <<>>, NEW c, NEW d,
         ~Loops(Top(t)) \/ Alternates(Top(t), c), Become(t, Append(Front(stack[t]), c) \o <<d>>)
  PROVE  KeepsLoops(t)
<1>1. HasCalled(t, c, d)
  BY BecomesAndCalls
<1>2. /\ Depth(t) \in Nat /\ DOMAIN stack[t] = 1 .. Depth(t) /\ Top(t) = stack[t][Depth(t)]
  BY StackOf
<1> QED
  BY <1>1, <1>2 DEF HasCalled, OthersStay, KeepsLoops, Alternates

\* or is the first one, or nothing happens.
LEMMA LoopsUnderNothing ==
  ASSUME SInv, NEW t \in Threads, NEW c,
         \/ UNCHANGED stack
         \/ stack[t] = <<>> /\ Enter(t, c)
  PROVE  KeepsLoops(t)
<1>1. CASE UNCHANGED stack
  BY <1>1, StackOf DEF KeepsLoops, Alternates
<1>2. CASE stack[t] = <<>> /\ Enter(t, c)
  BY <1>2, Begins DEF HasBegun, OthersStay, KeepsLoops
<1> QED
  BY <1>1, <1>2

\* T's constructor returns or throws: the calls that end are no loops.
LEMMA LoopsUnderCut ==
  ASSUME SInv, NEW t \in Threads, NEW n \in Nat,
         DOMAIN stack' = Threads, \A u \in Threads \ {t} : stack'[u] = stack[u],
         \A i \in DOMAIN stack[t] : i > n => ~Loops(stack[t][i]),
         \A i \in DOMAIN stack[t] : i <= n => i \in DOMAIN stack'[t] /\ stack'[t][i] = stack[t][i]
  PROVE  KeepsLoops(t)
<1>1. DOMAIN stack[t] = 1 .. Depth(t) /\ Depth(t) \in Nat
  BY StackOf
<1> QED
  BY <1>1 DEF KeepsLoops, Alternates

\* T's constructor returns to the call that asked for the instance.
LEMMA ConstructorReturnFrames ==
  ASSUME SInv, NEW t \in Threads, ConstructorReturn(t), NEW n, n = Depth(t)
  PROVE  /\ n \in Nat /\ n >= 2 /\ DOMAIN stack[t] = 1 .. n /\ DOMAIN stack'[t] = 1 .. n - 1
         /\ DOMAIN stack' = Threads /\ \A u \in Threads \ {t} : stack'[u] = stack[u]
         /\ \A i \in 1 .. n - 2 : stack'[t][i] = stack[t][i]
         /\ stack[t][n].op = "Constructor" /\ stack[t][n - 1].op = "Get"
         /\ stack'[t][n - 1].op = "Get"
<1> DEFINE c == [stack[t][n - 1] EXCEPT !.object = Top(t).object]
           s == Front(stack[t])
<1>1. /\ stack[t] # <<>> /\ IsList(stack[t]) /\ Top(t) = stack[t][n] /\ Top(t).op = "Constructor"
      /\ n \in Nat /\ n >= 2 /\ DOMAIN stack[t] = 1 .. n
      /\ n - 1 \in DOMAIN stack[t] /\ stack[t][n - 1].op = "Get" /\ StackOK(stack[t])
  BY ConstructorAt DEF ConstructorReturn
<1>2. Become(t, Append(Front(s), c))
  BY DEF ConstructorReturn, Depth
<1>3. /\ IsList(s) /\ Len(s) = n - 1 /\ \A i \in 1 .. n - 1 : s[i] = stack[t][i]
  BY <1>1, Popped DEF Depth
<1>4. c.op = "Get"
  <2>1. Shaped(stack[t][n - 1])
    BY <1>1 DEF StackOK
  <2>2. stack[t][n - 1] = [op |-> "Get", pc |-> stack[t][n - 1].pc, object |-> stack[t][n - 1].object]
    BY <1>1, <2>1 DEF Shaped, SingletonOps
  <2> QED
    BY <2>2
<1> HIDE DEF c, s
<1>5. s # <<>>
  BY <1>1, <1>3
<1>6. /\ DOMAIN Append(Front(s), c) = 1 .. n - 1
      /\ \A i \in 1 .. n - 1 - 1 : Append(Front(s), c)[i] = s[i]
      /\ Append(Front(s), c)[n - 1] = c
  <2>1. /\ DOMAIN Append(Front(s), c) = 1 .. Len(s)
        /\ \A i \in 1 .. Len(s) - 1 : Append(Front(s), c)[i] = s[i]
        /\ Append(Front(s), c)[Len(s)] = c
    <3>1. IsList(s)
      BY <1>3
    <3> QED
      BY <3>1, <1>5, Replaced
  <2> QED
    BY <1>3, <2>1
<1>7. /\ stack'[t] = Append(Front(s), c) /\ DOMAIN stack' = Threads
      /\ \A u \in Threads \ {t} : stack'[u] = stack[u]
  BY <1>2, StackOf DEF Become
<1>8. \A i \in 1 .. n - 2 : i \in 1 .. n - 1 - 1 /\ i \in 1 .. n - 1
  BY <1>1
<1> QED
  BY <1>1, <1>3, <1>4, <1>6, <1>7, <1>8

\* It throws: the function that asked for the instance ends, or the thread's call.
LEMMA ThrowFrames ==
  ASSUME SInv, NEW t \in Threads, ConstructorThrow(t), NEW n, n = Depth(t)
  PROVE  /\ n \in Nat /\ n >= 2 /\ DOMAIN stack[t] = 1 .. n
         /\ DOMAIN stack' = Threads /\ \A u \in Threads \ {t} : stack'[u] = stack[u]
         /\ stack[t][n].op = "Constructor" /\ stack[t][n - 1].op = "Get"
         /\ \/ n = 2 /\ DOMAIN stack'[t] = {}
            \/ /\ n >= 3 /\ stack[t][n - 2].op = "Function" /\ DOMAIN stack'[t] = 1 .. n - 3
               /\ \A i \in 1 .. n - 3 : stack'[t][i] = stack[t][i]
<1> DEFINE b == SubSeq(stack[t], 1, n - 2)
<1>1. /\ IsList(stack[t]) /\ n \in Nat /\ n >= 2 /\ DOMAIN stack[t] = 1 .. n /\ Len(stack[t]) = n
      /\ Top(t) = stack[t][n] /\ Top(t).op = "Constructor" /\ stack[t][n - 1].op = "Get"
  BY ConstructorAt DEF ConstructorThrow, Throw, Depth
<1>2. /\ IsList(b) /\ Len(b) = n - 2 /\ DOMAIN b = 1 .. n - 2
      /\ \A i \in 1 .. n - 2 : b[i] = stack[t][i]
  <2>1. n - 2 \in 0 .. Len(stack[t])
    BY <1>1
  <2> QED
    BY <1>1, <2>1, Shortened
<1>3. /\ b # <<>> => Last(b).op = "Function"
      /\ stack' = [stack EXCEPT ![t] = IF b = <<>> THEN <<>> ELSE Front(b)]
  BY DEF ConstructorThrow, Throw, Become, Depth
<1> HIDE DEF b
<1>4. CASE b = <<>>
  <2>1. n = 2
    BY <1>1, <1>2, <1>4
  <2>2. stack'[t] = <<>> /\ DOMAIN stack' = Threads /\ \A u \in Threads \ {t} : stack'[u] = stack[u]
    BY <1>3, <1>4, StackOf
  <2> QED
    BY <1>1, <2>1, <2>2
<1>5. CASE b # <<>>
  <2>1. /\ Len(b) >= 1 /\ DOMAIN Front(b) = 1 .. Len(b) - 1
        /\ \A i \in 1 .. Len(b) - 1 : Front(b)[i] = b[i]
    BY <1>2, <1>5, Popped
  <2>2. n >= 3 /\ Len(b) - 1 = n - 3
    BY <1>1, <1>2, <2>1
  <2>3. stack[t][n - 2].op = "Function"
    <3>1. n - 2 \in 1 .. n - 2
      BY <1>1, <2>2
    <3> QED
      BY <1>2, <1>3, <1>5, <3>1 DEF Last
  <2>4. stack'[t] = Front(b) /\ DOMAIN stack' = Threads /\ \A u \in Threads \ {t} : stack'[u] = stack[u]
    BY <1>3, <1>5, StackOf
  <2>5. \A i \in 1 .. n - 3 : i \in 1 .. Len(b) - 1 /\ i \in 1 .. n - 2
    BY <1>1, <2>2
  <2> QED
    BY <1>1, <1>2, <2>1, <2>2, <2>3, <2>4, <2>5
<1> QED
  BY <1>4, <1>5

\* The calls that end so are no loops.
LEMMA LoopsUnderConstructor ==
  ASSUME SInv, NEW t \in Threads, ConstructorReturn(t) \/ ConstructorThrow(t)
  PROVE  KeepsLoops(t)
<1>0. PICK n : n = Depth(t)
  OBVIOUS
<1>1. CASE ConstructorReturn(t)
  <2>1. /\ n \in Nat /\ n >= 2 /\ DOMAIN stack[t] = 1 .. n /\ DOMAIN stack'[t] = 1 .. n - 1
        /\ DOMAIN stack' = Threads /\ \A u \in Threads \ {t} : stack'[u] = stack[u]
        /\ \A i \in 1 .. n - 2 : stack'[t][i] = stack[t][i]
        /\ stack[t][n].op = "Constructor" /\ stack[t][n - 1].op = "Get"
    BY <1>0, <1>1, ConstructorReturnFrames
  <2>2. \A i \in 1 .. n : i = n \/ i = n - 1 \/ (i \in 1 .. n - 2 /\ i \in 1 .. n - 1)
    BY <2>1
  <2> QED
    BY <2>1, <2>2 DEF KeepsLoops, Loops, Alternates
<1>2. CASE ConstructorThrow(t)
  <2>1. /\ n \in Nat /\ n >= 2 /\ DOMAIN stack[t] = 1 .. n
        /\ DOMAIN stack' = Threads /\ \A u \in Threads \ {t} : stack'[u] = stack[u]
        /\ stack[t][n].op = "Constructor" /\ stack[t][n - 1].op = "Get"
        /\ \/ n = 2
           \/ /\ n >= 3 /\ stack[t][n - 2].op = "Function" /\ DOMAIN stack'[t] = 1 .. n - 3
              /\ \A i \in 1 .. n - 3 : stack'[t][i] = stack[t][i]
    BY <1>0, <1>2, ThrowFrames
  <2>2. \A i \in 1 .. n : i = n \/ i = n - 1 \/ (n >= 3 /\ (i = n - 2 \/ i \in 1 .. n - 3))
    BY <2>1
  <2> QED
    BY <2>1, <2>2 DEF KeepsLoops, Loops, Alternates
<1> QED
  BY <1>1, <1>2

-----------------------------------------------------------------------------
(* The steps of calls that are no loops. *)

\* The innermost call is no loop; it returns, goes on or calls.
QuietFrames(t) ==
  /\ stack[t] # <<>> /\ ~Loops(Top(t))
  /\ \/ Leave(t)
     \/ \E c : Update(t, c)
     \/ \E c, d : Become(t, Append(Front(stack[t]), c) \o <<d>>)

\* Such a step keeps the loops.
LEMMA QuietFramesKeep ==
  ASSUME SInv, NEW t \in Threads, QuietFrames(t)
  PROVE  KeepsLoops(t)
<1>1. stack[t] # <<>> /\ ~Loops(Top(t))
  BY DEF QuietFrames
<1>2. ASSUME NEW c, Update(t, c) PROVE KeepsLoops(t)
  BY <1>1, <1>2, LoopsUnderUpdate
<1>3. ASSUME NEW c, NEW d, Become(t, Append(Front(stack[t]), c) \o <<d>>) PROVE KeepsLoops(t)
  BY <1>1, <1>3, LoopsUnderCall
<1>4. CASE Leave(t)
  BY <1>1, <1>4, LoopsUnderReturn
<1> QED
  BY <1>2, <1>3, <1>4 DEF QuietFrames

\* All that the singleton does,
LEMMA SingletonKeepsLoops ==
  ASSUME SInv, NEW t \in Threads, SingletonStep(t)
  PROVE  KeepsLoops(t)
<1>1. CASE ConstructorReturn(t)
  BY <1>1, LoopsUnderConstructor
<1>2. CASE \/ GetLoad(t) \/ GetOwner(t) \/ GetExchange(t) \/ GetCheck(t) \/ GetPublish(t)
           \/ GetClear(t) \/ GetWait(t) \/ GetReload(t) \/ Declare(t) \/ DeleteLoad(t)
           \/ DeleteSwap(t) \/ Destroy(t) \/ DeleteReset(t)
  <2>1. stack[t] # <<>> /\ Top(t).op \in SingletonOps
    BY <1>2 DEF GetLoad, GetOwner, GetExchange, GetCheck, GetPublish, GetClear, GetWait, GetReload,
      Declare, DeleteLoad, DeleteSwap, Destroy, DeleteReset, At, SingletonOps
  <2>2. ~Loops(Top(t))
    BY <2>1 DEF Loops, SingletonOps
  <2>3. \/ Leave(t)
        \/ \E c : Update(t, c)
        \/ \E c, d : Become(t, Append(Front(stack[t]), c) \o <<d>>)
    BY <1>2 DEF GetLoad, GetOwner, GetExchange, GetCheck, GetPublish, GetClear, GetWait, GetReload,
      Declare, DeleteLoad, DeleteSwap, Destroy, DeleteReset, ReturnReference, Goto, GotoAndEnter
  <2> QED
    BY <2>1, <2>2, <2>3, QuietFramesKeep DEF QuietFrames
<1> QED
  BY <1>1, <1>2 DEF SingletonStep

\* and what the registry does without looking at its lists.
LEMMA OthersKeepLoops ==
  ASSUME SInv, NEW t \in Threads,
         \/ ConstructorSubscribe(t) \/ SubscribeUnlock(t) \/ FunctionBody(t)
         \/ AddFunctionForUnload(t) \/ LoadOpen(t) \/ LoadActivate(t) \/ LoadGlobal(t)
         \/ LoadUnlock(t) \/ DestructorUnsubscribe(t)
         \/ (LoadAdd(t) \/ LoadClose(t)) /\ ~\E pc : LockAndProcess(t, pc)
  PROVE  KeepsLoops(t)
<1>1. stack[t] # <<>> /\ Top(t).op \in {"Constructor", "Subscribe", "Function", "AddForUnload", "Load", "Delete"}
  BY DEF ConstructorSubscribe, SubscribeUnlock, FunctionBody, AddFunctionForUnload, LoadOpen,
    LoadActivate, LoadGlobal, LoadUnlock, DestructorUnsubscribe, LoadAdd, LoadClose, At
<1>2. ~Loops(Top(t))
  BY <1>1 DEF Loops
<1>3. \/ Leave(t)
      \/ \E c : Update(t, c)
      \/ \E c, d : Become(t, Append(Front(stack[t]), c) \o <<d>>)
  BY DEF ConstructorSubscribe, SubscribeUnlock, FunctionBody, AddFunctionForUnload, LoadOpen,
    LoadActivate, LoadGlobal, LoadUnlock, DestructorUnsubscribe, LoadAdd, LoadClose,
    UnlockAndLeave, Goto, GotoAndEnter
<1> QED
  BY <1>1, <1>2, <1>3, QuietFramesKeep DEF QuietFrames

-----------------------------------------------------------------------------
(* The steps that fill, empty or look at the registry's lists. *)

\* A list of which nothing is kept becomes empty.
LEMMA NoneIsKept ==
  ASSUME NEW X, NEW s \in Seq(X), NEW S, \A i \in DOMAIN s : s[i] \notin S
  PROVE  Only(s, S) = <<>>
<1> DEFINE list == Only(s, S)
<1>1. list \in Seq(X \cap S) /\ \A k \in DOMAIN list : \E i \in DOMAIN s : list[k] = s[i]
  BY OnlyMembers
<1> HIDE DEF list
<1>2. \A k \in DOMAIN list : list[k] \in X \cap S
  BY <1>1
<1>3. \A k \in DOMAIN list : FALSE
  BY <1>1, <1>2
<1>4. list = <<>>
  BY <1>1, <1>3
<1> QED
  BY <1>4 DEF list

\* The active library's functions are moved: the list of a type to which none of
\* them belongs stays as it was.
LEMMA TransferFills ==
  ASSUME VarTypes, NEW t \in Threads, Transfer(t), NEW ty \in Types,
         \A i \in DOMAIN active[t].fns : TypeOf[active[t].fns[i]] # ty
  PROVE  fns'[ty] = fns[ty]
<1> DEFINE S == {f \in Fns : TypeOf[f] = ty}
           list == Only(active[t].fns, S)
<1>1. active[t].fns \in Seq(Fns) /\ fns[ty] \in Seq(Fns)
  BY DEF VarTypes
<1>2. list = <<>>
  BY <1>1, NoneIsKept
<1>3. fns'[ty] = fns[ty] \o list
  BY DEF Transfer
<1> HIDE DEF list
<1> QED
  BY <1>1, <1>2, <1>3

\* Any subscriber but the first comes after it.
LEMMA AfterTheFirst ==
  ASSUME VarTypes, NEW ty \in Range(ordered)
  PROVE  ty = Head(ordered) \/ ty \in Range(NextSubscription(Head(ordered)))
<1>1. PICK j \in DOMAIN ordered : ordered[j] = ty
  BY DEF Range
<1>2. /\ ordered \in Seq(Types) /\ \A i, k \in DOMAIN ordered : ordered[i] = ordered[k] => i = k
  BY DEF VarTypes
<1>3. Head(ordered) = ordered[1] /\ 1 \in DOMAIN ordered /\ j \in Nat /\ j >= 1
  BY <1>1, <1>2
<1>4. Listed(Head(ordered), ordered)
  BY <1>3 DEF Listed
<1>5. PICK i \in DOMAIN ordered :
        /\ ordered[i] = Head(ordered)
        /\ \A k \in DOMAIN ordered : ordered[k] \in Range(NextSubscription(Head(ordered))) <=> k > i
  BY <1>4, NextSubscriptions
<1>6. i = 1
  BY <1>2, <1>3, <1>5
<1> QED
  BY <1>1, <1>3, <1>5, <1>6

\* Who takes the lock and fills a list that is subscribed to, updates the
\* subscribers from the first on.
LEMMA LockSees ==
  ASSUME SInv, RTypes, SubscribedFunctionsRun, NEW t \in Threads, stack[t] # <<>>,
         Top(t).op \in {"Subscribe", "Load"}, Hosts(Top(t)) => ref[t] = 0,
         NEW pc, LockAndProcess(t, pc)
  PROVE  SubscribedFunctionsRun'
<1>0. PICK n : n = Depth(t)
  OBVIOUS
<1>1. /\ n \in Nat /\ DOMAIN stack[t] = 1 .. n /\ Top(t) = stack[t][n] /\ n >= 1
  BY <1>0, StackOf
<1>2. Transfer(t) /\ ordered' = ordered
  BY DEF LockAndProcess
<1>3. ~Loops(Top(t))
  BY DEF Loops
<1>4. CASE MovedAny(t)
  <2>0. PICK first : first = Head(ordered)
    OBVIOUS
  <2>1. HasCalledTwo(t, [Top(t) EXCEPT !.pc = pc], UpdateCall(first), RunCall(t, first))
    BY <1>4, <2>0, LockKeeps
  <2>2. /\ n + 1 \in DOMAIN stack'[t] /\ n + 2 \in DOMAIN stack'[t]
        /\ stack'[t][n + 1] = UpdateCall(first) /\ stack'[t][n + 2] = RunCall(t, first)
    BY <1>0, <1>1, <2>1 DEF HasCalledTwo
  <2>3. ASSUME NEW ty \in Types, Subscribed(ty)' PROVE Pending(t, ty)'
    <3>1. ty \in Range(ordered)
      BY <1>2, <2>3 DEF Subscribed
    <3>2. ty = first \/ ty \in Range(NextSubscription(first)')
      BY <1>2, <2>0, <3>1, AfterTheFirst DEF RTypes, NextSubscription
    <3>3. /\ stack'[t][n + 1].op = "Update" /\ stack'[t][n + 1].type = first
          /\ stack'[t][n + 2].op = "Run" /\ stack'[t][n + 2].type = first
      BY <2>2 DEF UpdateCall, RunCall
    <3>5. SeesTo(t, n + 1, ty)' \/ SeesTo(t, n + 2, ty)'
      BY <3>2, <3>3 DEF SeesTo, NextSubscription
    <3> QED
      BY <2>2, <3>5, PendingMeansNext
  <2> QED
    BY <2>3 DEF SubscribedFunctionsRun
<1>5. CASE ~MovedAny(t)
  <2>1. HasBecome(t, [Top(t) EXCEPT !.pc = pc])
    BY <1>5, LockKeeps
  <2>2. KeepsLoops(t)
    BY <1>0, <1>1, <1>3, <2>1 DEF HasBecome, OthersStay, KeepsLoops, Alternates
  <2>3. ASSUME NEW ty \in Types, Subscribed(ty) PROVE fns'[ty] = fns[ty]
    BY <1>2, <1>5, <2>3, TransferFills DEF MovedAny, RTypes
  <2> SUFFICES ASSUME NEW ty \in Types, Subscribed(ty)', fns'[ty] # <<>>
               PROVE  \E u \in Threads : Pending(u, ty)'
    BY DEF SubscribedFunctionsRun
  <2>4. Subscribed(ty) /\ fns[ty] # <<>>
    BY <1>2, <2>3 DEF Subscribed
  <2>5. PICK u \in Threads : Pending(u, ty)
    BY <2>4 DEF SubscribedFunctionsRun
  <2>6. PICK i \in DOMAIN stack[u] : SeesTo(u, i, ty)
    BY <2>5, PendingMeans
  <2>7. i \in DOMAIN stack'[u] /\ Alternates(stack[u][i], stack'[u][i])
    BY <2>2, <2>6 DEF KeepsLoops, Alternates, SeesTo, Loops
  <2>8. SeesTo(u, i, ty)'
    BY <1>2, <2>6, <2>7 DEF SeesTo, Alternates, NextSubscription
  <2> QED
    BY <2>7, <2>8, PendingMeansNext
<1> QED
  BY <1>4, <1>5

\* What comes after x in a list.
After(list, x) == SubSeq(list, (CHOOSE i \in DOMAIN list : list[i] = x) + 1, Len(list))

\* In a list without duplicates, that is what has a greater index.
LEMMA WhatComesAfter ==
  ASSUME NEW list \in Seq(Types), \A i, j \in DOMAIN list : list[i] = list[j] => i = j,
         NEW k \in DOMAIN list
  PROVE  \A y : y \in Range(After(list, list[k])) <=> \E j \in DOMAIN list : j > k /\ y = list[j]
<1> DEFINE n == Len(list)
           i == CHOOSE i \in DOMAIN list : list[i] = list[k]
           rest == SubSeq(list, k + 1, n)
<1>1. n \in Nat /\ DOMAIN list = 1 .. n /\ i = k
  OBVIOUS
<1>2. After(list, list[k]) = rest
  BY <1>1 DEF After
<1> HIDE DEF i
<1>3. DOMAIN rest = 1 .. n - k /\ \A m \in 1 .. n - k : rest[m] = list[k + m]
  BY <1>1
<1> HIDE DEF rest
<1>4. ASSUME NEW y, y \in Range(rest) PROVE \E j \in DOMAIN list : j > k /\ y = list[j]
  <2>1. PICK m \in 1 .. n - k : y = list[k + m]
    BY <1>3, <1>4 DEF Range
  <2>2. k + m \in DOMAIN list /\ k + m > k
    BY <1>1
  <2> QED
    BY <2>1, <2>2
<1>5. ASSUME NEW j \in DOMAIN list, j > k PROVE list[j] \in Range(rest)
  <2>1. j - k \in 1 .. n - k /\ k + (j - k) = j
    BY <1>1, <1>5
  <2> QED
    BY <1>3, <2>1 DEF Range
<1> QED
  BY <1>2, <1>4, <1>5

\* A subscriber that is added to the list comes after all the others.
LEMMA AddedComesLast ==
  ASSUME NEW list \in Seq(Types), \A i, j \in DOMAIN list : list[i] = list[j] => i = j,
         NEW ty \in Types, \A i \in DOMAIN list : list[i] # ty,
         NEW x, Listed(x, list), NEW y \in Range(After(list, x))
  PROVE  y \in Range(After(Append(list, ty), x))
<1> DEFINE n == Len(list)
           more == Append(list, ty)
<1>1. n \in Nat /\ DOMAIN list = 1 .. n
  OBVIOUS
<1>2. /\ more \in Seq(Types) /\ DOMAIN more = 1 .. n + 1 /\ more[n + 1] = ty
      /\ \A i \in 1 .. n : more[i] = list[i]
  OBVIOUS
<1> HIDE DEF more
<1>3. \A i, j \in DOMAIN more : more[i] = more[j] => i = j
  <2>1. \A i \in DOMAIN more : i \in 1 .. n \/ i = n + 1
    BY <1>1, <1>2
  <2> QED
    BY <1>1, <1>2, <2>1
<1>4. PICK k \in DOMAIN list : list[k] = x
  BY DEF Listed
<1>5. PICK j \in DOMAIN list : j > k /\ y = list[j]
  BY <1>4, WhatComesAfter
<1>6. k \in DOMAIN more /\ more[k] = x /\ j \in DOMAIN more /\ more[j] = y
  BY <1>1, <1>2, <1>4, <1>5
<1> QED
  BY <1>2, <1>3, <1>5, <1>6, WhatComesAfter DEF more

\* The first subscriber of a type looks at its functions.
LEMMA InsertSees ==
  ASSUME SInv, RTypes, SubscribedFunctionsRun, NEW t \in Threads, SubscribeInsert(t)
  PROVE  SubscribedFunctionsRun'
<1>1. /\ stack[t] # <<>> /\ Top(t).op = "Subscribe" /\ ~Loops(Top(t)) /\ fns' = fns
      /\ Top(t).type \in Types
  <2>1. stack[t] # <<>> /\ Top(t).op = "Subscribe" /\ fns' = fns
    BY DEF SubscribeInsert, At
  <2> QED
    BY <2>1, StackOf DEF Loops, Shaped
<1>2. CASE Goto(t, "Unlock") /\ UNCHANGED ordered
  <2>1. KeepsLoops(t)
    BY <1>1, <1>2, LoopsUnderUpdate DEF Goto
  <2> QED
    BY <1>1, <1>2, <2>1, LoopsGoOn DEF NothingAdded
<1>3. ASSUME ~Subscribed(Top(t).type), ordered' = Append(ordered, Top(t).type),
             GotoAndEnter(t, "Unlock", RunCall(t, Top(t).type))
      PROVE  SubscribedFunctionsRun'
  <2>0. PICK new : new = Top(t).type
    OBVIOUS
  <2>1. HasCalled(t, [Top(t) EXCEPT !.pc = "Unlock"], RunCall(t, new)) /\ KeepsLoops(t)
    BY <1>1, <1>3, <2>0, BecomesAndCalls, LoopsUnderCall DEF GotoAndEnter
  <2>2. PICK n : n \in DOMAIN stack'[t] /\ stack'[t][n] = RunCall(t, new)
    <3>1. Depth(t) \in Nat
      BY StackOf
    <3> QED
      BY <2>1, <3>1 DEF HasCalled
  <2>3. /\ ordered \in Seq(Types) /\ \A i, j \in DOMAIN ordered : ordered[i] = ordered[j] => i = j
        /\ \A i \in DOMAIN ordered : ordered[i] # new
        /\ new \in Types
    BY <1>1, <1>3, <2>0 DEF RTypes, VarTypes, Subscribed, Range
  <2> SUFFICES ASSUME NEW ty \in Types, Subscribed(ty)', fns'[ty] # <<>>
               PROVE  \E u \in Threads : Pending(u, ty)'
    BY DEF SubscribedFunctionsRun
  <2>4. CASE ty = new
    <3>1. SeesTo(t, n, ty)'
      BY <2>2, <2>4 DEF SeesTo, RunCall
    <3> QED
      BY <2>2, <3>1, PendingMeansNext
  <2>5. CASE ty # new
    <3>1. Subscribed(ty) /\ fns[ty] # <<>>
      <4>1. PICK i \in DOMAIN Append(ordered, new) : Append(ordered, new)[i] = ty
        BY <1>3, <2>0 DEF Subscribed, Range
      <4>2. i \in DOMAIN ordered /\ ordered[i] = ty
        BY <2>3, <2>5, <4>1
      <4> QED
        BY <1>1, <4>2 DEF Subscribed, Range
    <3>2. PICK u \in Threads : Pending(u, ty)
      BY <3>1 DEF SubscribedFunctionsRun
    <3>3. PICK i \in DOMAIN stack[u] : SeesTo(u, i, ty)
      BY <3>2, PendingMeans
    <3>4. i \in DOMAIN stack'[u] /\ Alternates(stack[u][i], stack'[u][i])
      BY <2>1, <3>3 DEF KeepsLoops, Alternates, SeesTo, Loops
    <3>5. CASE stack[u][i].op = "Run" /\ stack[u][i].type = ty
      BY <3>4, <3>5, PendingMeansNext DEF SeesTo, Alternates
    <3>6. CASE stack[u][i].op = "Update" /\ ty \in Range(NextSubscription(stack[u][i].type))
      <4>1. PICK x : x = stack[u][i].type
        OBVIOUS
      <4>2. Listed(x, ordered) /\ ty \in Range(After(ordered, x))
        BY <3>6, <4>1 DEF RTypes, UpdatesListed, NextSubscription, After
      <4>3. ty \in Range(After(ordered', x))
        BY <1>3, <2>0, <2>3, <4>2, AddedComesLast
      <4>4. stack'[u][i].op = "Update" /\ stack'[u][i].type = x
        BY <3>4, <3>6, <4>1 DEF Alternates
      <4>5. SeesTo(u, i, ty)'
        BY <4>3, <4>4 DEF SeesTo, NextSubscription, After
      <4> QED
        BY <3>4, <4>5, PendingMeansNext
    <3> QED
      BY <3>3, <3>5, <3>6 DEF SeesTo
  <2> QED
    BY <2>4, <2>5
<1> QED
  BY <1>2, <1>3 DEF SubscribeInsert

\* The loop over the subscriptions hands the next one to a loop over its list.
LEMMA UpdateSees ==
  ASSUME SInv, RTypes, SubscribedFunctionsRun, NEW t \in Threads, UpdateNext(t)
  PROVE  SubscribedFunctionsRun'
<1>0. PICK n, x, rest : n = Depth(t) /\ x = Top(t).type /\ rest = After(ordered, x)
  OBVIOUS
<1>1. /\ stack[t] # <<>> /\ Top(t).op = "Update" /\ fns' = fns /\ ordered' = ordered
      /\ DOMAIN stack = Threads /\ n \in Nat /\ n >= 1 /\ DOMAIN stack[t] = 1 .. n
      /\ Top(t) = stack[t][n]
  <2>1. stack[t] # <<>> /\ Top(t).op = "Update" /\ fns' = fns /\ ordered' = ordered
    BY DEF UpdateNext, At, listVars
  <2> QED
    BY <1>0, <2>1, StackOf
<1>2. NextSubscription(x) = rest /\ Listed(x, ordered)
  <2>1. n \in DOMAIN stack[t] /\ stack[t][n].op = "Update" /\ stack[t][n].type = x
    BY <1>0, <1>1
  <2> QED
    BY <1>0, <2>1 DEF NextSubscription, After, RTypes, UpdatesListed
<1>3. /\ ordered \in Seq(Types) /\ \A i, j \in DOMAIN ordered : ordered[i] = ordered[j] => i = j
  BY DEF RTypes, VarTypes
<1>4. rest \in Seq(Types)
  <2>1. PICK k \in DOMAIN ordered :
          /\ NextSubscription(x) \in Seq(Types)
    BY <1>2, NextSubscriptions DEF RTypes
  <2> QED
    BY <1>2, <2>1
<1>5. CASE rest = <<>>
  <2>1. Leave(t)
    BY <1>0, <1>2, <1>5 DEF UpdateNext
  <2>2. HasLeft(t)
    BY <1>1, <2>1, Leaves
  <2>3. \A u \in Threads : \A i \in DOMAIN stack[u] :
          (u = t /\ i = n) \/ (i \in DOMAIN stack'[u] /\ stack'[u][i] = stack[u][i])
    BY <1>0, <1>1, <2>2 DEF HasLeft, OthersStay
  <2> SUFFICES ASSUME NEW ty \in Types, Subscribed(ty)', fns'[ty] # <<>>
               PROVE  \E u \in Threads : Pending(u, ty)'
    BY DEF SubscribedFunctionsRun
  <2>4. PICK u \in Threads : Pending(u, ty)
    BY <1>1 DEF SubscribedFunctionsRun, Subscribed
  <2>5. PICK i \in DOMAIN stack[u] : SeesTo(u, i, ty)
    BY <2>4, PendingMeans
  <2>6. ~(u = t /\ i = n)
    BY <1>0, <1>1, <1>2, <1>5, <2>5 DEF SeesTo, Range
  <2>7. i \in DOMAIN stack'[u] /\ stack'[u][i] = stack[u][i]
    BY <2>3, <2>6
  <2>8. SeesTo(u, i, ty)'
    BY <1>1, <2>5, <2>7 DEF SeesTo, NextSubscription
  <2> QED
    BY <2>7, <2>8, PendingMeansNext
<1>6. CASE rest # <<>>
  <2>0. PICK h : h = Head(rest)
    OBVIOUS
  <2>1. Become(t, Front(stack[t]) \o <<UpdateCall(h), RunCall(t, h)>>)
    BY <1>0, <1>2, <1>6, <2>0 DEF UpdateNext
  <2>2. /\ Front(stack[t]) \o <<UpdateCall(h), RunCall(t, h)>>
             = Append(Append(Front(stack[t]), UpdateCall(h)), RunCall(t, h))
        /\ Append(Front(stack[t]), UpdateCall(h)) \o <<RunCall(t, h)>>
             = Append(Append(Front(stack[t]), UpdateCall(h)), RunCall(t, h))
    BY <1>1, PlainTop, Pushed, Append2
  <2>3. HasCalled(t, UpdateCall(h), RunCall(t, h))
    BY <1>1, <2>1, <2>2, BecomesAndCalls
  <2>4. /\ n \in DOMAIN stack'[t] /\ n + 1 \in DOMAIN stack'[t]
        /\ stack'[t][n].op = "Update" /\ stack'[t][n].type = h
        /\ stack'[t][n + 1].op = "Run" /\ stack'[t][n + 1].type = h
    BY <1>0, <1>1, <2>3 DEF HasCalled, UpdateCall, RunCall
  <2>5. \A u \in Threads : \A i \in DOMAIN stack[u] :
          (u = t /\ i = n) \/ (i \in DOMAIN stack'[u] /\ stack'[u][i] = stack[u][i])
    BY <1>0, <1>1, <2>3 DEF HasCalled, OthersStay
  <2>6. ASSUME NEW y \in Range(rest) PROVE y = h \/ y \in Range(After(ordered, h))
    <3>1. PICK k \in DOMAIN ordered : ordered[k] = x
      BY <1>2 DEF Listed
    <3>2. PICK j \in DOMAIN ordered : j > k /\ y = ordered[j]
      BY <1>0, <1>3, <2>6, <3>1, WhatComesAfter
    <3>3. k + 1 \in DOMAIN ordered /\ h = ordered[k + 1]
      <4>1. PICK i \in DOMAIN ordered :
              /\ ordered[i] = x
              /\ NextSubscription(x) # <<>> =>
                   i + 1 \in DOMAIN ordered /\ Head(NextSubscription(x)) = ordered[i + 1]
        BY <1>2, NextSubscriptions DEF RTypes
      <4>2. i = k
        BY <1>3, <3>1, <4>1
      <4> QED
        BY <1>2, <1>6, <2>0, <4>1, <4>2
    <3>4. j = k + 1 \/ j > k + 1
      BY <1>3, <3>2
    <3> QED
      BY <1>3, <3>2, <3>3, <3>4, WhatComesAfter
  <2> SUFFICES ASSUME NEW ty \in Types, Subscribed(ty)', fns'[ty] # <<>>
               PROVE  \E u \in Threads : Pending(u, ty)'
    BY DEF SubscribedFunctionsRun
  <2>7. PICK u \in Threads : Pending(u, ty)
    BY <1>1 DEF SubscribedFunctionsRun, Subscribed
  <2>8. PICK i \in DOMAIN stack[u] : SeesTo(u, i, ty)
    BY <2>7, PendingMeans
  <2>9. CASE u = t /\ i = n
    <3>1. ty \in Range(rest)
      BY <1>0, <1>1, <1>2, <2>8, <2>9 DEF SeesTo
    <3>2. SeesTo(t, n, ty)' \/ SeesTo(t, n + 1, ty)'
      BY <1>1, <2>4, <2>6, <3>1 DEF SeesTo, NextSubscription, After
    <3> QED
      BY <2>4, <3>2, PendingMeansNext
  <2>10. CASE ~(u = t /\ i = n)
    <3>1. i \in DOMAIN stack'[u] /\ stack'[u][i] = stack[u][i]
      BY <2>5, <2>10
    <3>2. SeesTo(u, i, ty)'
      BY <1>1, <2>8, <3>1 DEF SeesTo, NextSubscription
    <3> QED
      BY <3>1, <3>2, PendingMeansNext
  <2> QED
    BY <2>9, <2>10
<1> QED
  BY <1>5, <1>6

\* The loop over the list of a type: it returns when it finds the list empty.
LEMMA RunSees ==
  ASSUME SInv, RTypes, SubscribedFunctionsRun, NEW t \in Threads,
         RunTake(t) \/ RunCallNext(t) \/ RunRelock(t)
  PROVE  SubscribedFunctionsRun'
<1>0. PICK n, x : n = Depth(t) /\ x = Top(t).type
  OBVIOUS
<1>1. /\ stack[t] # <<>> /\ Top(t).op = "Run" /\ ordered' = ordered
      /\ DOMAIN stack = Threads /\ n \in Nat /\ n >= 1 /\ DOMAIN stack[t] = 1 .. n
      /\ Top(t) = stack[t][n]
      /\ Top(t) = [op |-> "Run", pc |-> Top(t).pc, type |-> Top(t).type, toRun |-> Top(t).toRun,
                   saved |-> Top(t).saved]
      /\ x \in Types
  <2>1. stack[t] # <<>> /\ Top(t).op = "Run" /\ ordered' = ordered
    BY DEF RunTake, RunCallNext, RunRelock, At, listVars
  <2>2. /\ DOMAIN stack = Threads /\ n \in Nat /\ n >= 1 /\ DOMAIN stack[t] = 1 .. n
        /\ Top(t) = stack[t][n] /\ Shaped(Top(t))
    BY <1>0, <2>1, StackOf
  <2> QED
    BY <1>0, <2>1, <2>2 DEF Shaped
<1>2. CASE RunTake(t) /\ fns[x] = <<>>
  <2>1. Leave(t) /\ fns' = fns
    BY <1>0, <1>2 DEF RunTake
  <2>2. HasLeft(t)
    BY <1>1, <2>1, Leaves
  <2>3. \A u \in Threads : \A i \in DOMAIN stack[u] :
          (u = t /\ i = n) \/ (i \in DOMAIN stack'[u] /\ stack'[u][i] = stack[u][i])
    BY <1>0, <1>1, <2>2 DEF HasLeft, OthersStay
  <2> SUFFICES ASSUME NEW ty \in Types, Subscribed(ty)', fns'[ty] # <<>>
               PROVE  \E u \in Threads : Pending(u, ty)'
    BY DEF SubscribedFunctionsRun
  <2>4. PICK u \in Threads : Pending(u, ty)
    BY <1>1, <2>1 DEF SubscribedFunctionsRun, Subscribed
  <2>5. PICK i \in DOMAIN stack[u] : SeesTo(u, i, ty)
    BY <2>4, PendingMeans
  <2>6. ~(u = t /\ i = n)
    BY <1>0, <1>1, <1>2, <2>1, <2>5 DEF SeesTo
  <2>7. i \in DOMAIN stack'[u] /\ stack'[u][i] = stack[u][i]
    BY <2>3, <2>6
  <2>8. SeesTo(u, i, ty)'
    BY <1>1, <2>5, <2>7 DEF SeesTo, NextSubscription
  <2> QED
    BY <2>7, <2>8, PendingMeansNext
<1>3. CASE RunTake(t) /\ fns[x] # <<>>
  <2>1. PICK c : c = [Top(t) EXCEPT !.toRun = fns[x], !.pc = "Call"]
    OBVIOUS
  <2>2. Update(t, c) /\ fns' = [fns EXCEPT ![x] = <<>>]
    BY <1>0, <1>3, <2>1 DEF RunTake, AfterTake
  <2>3. c.op = "Run" /\ c.type = x
    <3>1. c = [op |-> "Run", pc |-> "Call", type |-> Top(t).type, toRun |-> fns[x],
               saved |-> Top(t).saved]
      BY <1>1, <2>1, RunRecord
    <3> QED
      BY <1>0, <3>1
  <2>4. KeepsLoops(t)
    BY <1>0, <1>1, <2>2, <2>3, LoopsUnderUpdate DEF Alternates
  <2>5. NothingAdded
    BY <2>2 DEF NothingAdded, RTypes, VarTypes
  <2> QED
    BY <1>1, <2>4, <2>5, LoopsGoOn
<1>4. CASE RunCallNext(t)
  <2>1. PICK c : c = [Top(t) EXCEPT !.toRun = Tail(@)]
    OBVIOUS
  <2>2. Become(t, Append(Front(stack[t]), c) \o <<FunctionCall(Head(Top(t).toRun))>>) /\ fns' = fns
    BY <1>4, <2>1 DEF RunCallNext, listVars
  <2>3. c.op = "Run" /\ c.type = x
    <3>1. c = [op |-> "Run", pc |-> Top(t).pc, type |-> Top(t).type,
               toRun |-> Tail(Top(t).toRun), saved |-> Top(t).saved]
      BY <1>1, <2>1, RunRecord
    <3> QED
      BY <1>0, <3>1
  <2>4. KeepsLoops(t)
    BY <1>0, <1>1, <2>2, <2>3, LoopsUnderCall DEF Alternates
  <2> QED
    BY <1>1, <2>2, <2>4, LoopsGoOn DEF NothingAdded
<1>5. CASE RunRelock(t)
  <2>1. PICK c : c = [Top(t) EXCEPT !.pc = "Take"]
    OBVIOUS
  <2>2. Update(t, c) /\ fns' = fns
    BY <1>5, <2>1 DEF RunRelock, listVars, Goto
  <2>3. c.op = "Run" /\ c.type = x
    <3>1. Top(t) = [op |-> "Run", pc |-> Top(t).pc, type |-> Top(t).type, toRun |-> Top(t).toRun,
                    saved |-> Top(t).saved]
      BY <1>1
    <3>2. c = [op |-> "Run", pc |-> "Take", type |-> Top(t).type, toRun |-> Top(t).toRun,
               saved |-> Top(t).saved]
      BY <2>1, <3>1
    <3> QED
      BY <1>0, <3>2
  <2>4. KeepsLoops(t)
    BY <1>0, <1>1, <2>2, <2>3, LoopsUnderUpdate DEF Alternates
  <2> QED
    BY <1>1, <2>2, <2>4, LoopsGoOn DEF NothingAdded
<1> QED
  BY <1>0, <1>2, <1>3, <1>4, <1>5

\* T's destructor unsubscribes when no call is pending: what is subscribed to has
\* nothing to run.
LEMMA UnsubscribeSees ==
  ASSUME SInv, RTypes, SubscribedFunctionsRun, NEW t \in Threads, DestructorUnsubscribe(t)
  PROVE  SubscribedFunctionsRun'
<1>1. OnlyDeletes
  BY DeleteAt DEF DestructorUnsubscribe
<1>2. ASSUME NEW u \in Threads, NEW ty \in Types PROVE ~Pending(u, ty)
  BY <1>1, PendingMeans DEF OnlyDeletes, SeesTo
<1>3. \A ty \in Types : Subscribed(ty) => fns[ty] = <<>>
  BY <1>2 DEF SubscribedFunctionsRun
<1>4. \A ty : Subscribed(ty)' => Subscribed(ty)
  <2>1. ordered \in Seq(Types) /\ ordered' = Only(ordered, Types \ {Managed})
    BY DEF RTypes, VarTypes, DestructorUnsubscribe
  <2>2. \A k \in DOMAIN ordered' : \E i \in DOMAIN ordered : ordered'[k] = ordered[i]
    BY <2>1, OnlyMembers
  <2> QED
    BY <2>2 DEF Subscribed, Range
<1> QED
  BY <1>3, <1>4 DEF SubscribedFunctionsRun, DestructorUnsubscribe

\* A library that is unloaded takes its functions away.
LEMMA UnloadSees ==
  ASSUME SInv, RTypes, SubscribedFunctionsRun, NEW t \in Threads, NEW l \in Libs, UnloadLibrary(t, l)
  PROVE  SubscribedFunctionsRun'
<1>1. stack' = stack /\ ordered' = ordered /\ fns' = [ty \in Types |-> ForgetFns(l, ty)]
  BY DEF UnloadLibrary
<1>2. NothingAdded
  <2> SUFFICES ASSUME NEW ty \in Types, fns[ty] = <<>> PROVE fns'[ty] = <<>>
    BY DEF NothingAdded
  <2>1. fns[ty] \in Seq(Fns)
    BY DEF RTypes, VarTypes
  <2>2. \A i \in DOMAIN fns[ty] : fns[ty][i] \notin Fns \ FnsOf(l)
    OBVIOUS
  <2>3. Only(fns[ty], Fns \ FnsOf(l)) = <<>>
    BY <2>1, <2>2, NoneIsKept
  <2> QED
    BY <1>1, <2>3 DEF ForgetFns
<1>3. KeepsLoops(t)
  BY <1>1, LoopsUnderNothing
<1> QED
  BY <1>1, <1>2, <1>3, LoopsGoOn

\* Every step of every thread sees to the functions of those subscribed to.
LEMMA StepsSee ==
  ASSUME SInv, RTypes, SubscribedFunctionsRun, [Next]_vars
  PROVE  SubscribedFunctionsRun'
<1>1. CASE UNCHANGED vars
  BY <1>1 DEF vars, listVars, SubscribedFunctionsRun, Subscribed, Pending, NextSubscription, Calls
<1>2. ASSUME NEW t \in Threads, OfSingleton(t) PROVE SubscribedFunctionsRun'
  BY <1>2, SingletonKeepsLoops, LoopsGoOn DEF OfSingleton, listVars, NothingAdded
<1>3. ASSUME NEW t \in Threads,
             \/ ConstructorSubscribe(t) \/ SubscribeUnlock(t) \/ FunctionBody(t)
             \/ AddFunctionForUnload(t) \/ LoadOpen(t) \/ LoadActivate(t) \/ LoadGlobal(t)
             \/ LoadUnlock(t)
      PROVE  SubscribedFunctionsRun'
  <2>1. fns' = fns /\ ordered' = ordered
    BY <1>3 DEF ConstructorSubscribe, SubscribeUnlock, UnlockAndLeave, FunctionBody,
      AddFunctionForUnload, LoadOpen, LoadActivate, LoadGlobal, LoadUnlock, listVars
  <2> QED
    BY <1>3, <2>1, OthersKeepLoops, LoopsGoOn DEF NothingAdded
<1>4. ASSUME NEW t \in Threads, LoadAdd(t) \/ LoadClose(t) PROVE SubscribedFunctionsRun'
  <2>1. stack[t] # <<>> /\ Top(t).op = "Load"
    BY <1>4 DEF LoadAdd, LoadClose, At
  <2>2. ASSUME NEW pc, LockAndProcess(t, pc) PROVE SubscribedFunctionsRun'
    <3>1. Hosts(Top(t)) => ref[t] = 0
      BY <1>4, <2>1, StackOf DEF LoadAdd, LoadClose, At, Hosts
    <3> QED
      BY <2>1, <2>2, <3>1, LockSees
  <2>3. CASE ~\E pc : LockAndProcess(t, pc)
    <3>1. fns' = fns /\ ordered' = ordered
      BY <1>4, <2>3 DEF LoadAdd, LoadClose, listVars
    <3> QED
      BY <1>4, <2>3, <3>1, OthersKeepLoops, LoopsGoOn DEF NothingAdded
  <2> QED
    BY <2>2, <2>3
<1>5. ASSUME NEW t \in Threads, SubscribeLock(t) PROVE SubscribedFunctionsRun'
  BY <1>5, LockSees DEF SubscribeLock, At, Hosts
<1>6. ASSUME NEW t \in Threads, ConstructorThrow(t) PROVE SubscribedFunctionsRun'
  BY <1>6, LoopsUnderConstructor, LoopsGoOn DEF NothingAdded, ConstructorThrow, listVars
<1>7. ASSUME NEW t \in Threads, NEW c, Begin(t, c) PROVE SubscribedFunctionsRun'
  BY <1>7, LoopsUnderNothing, LoopsGoOn DEF NothingAdded, Begin, listVars
<1>8. ASSUME NEW t \in Threads, Drop(t) PROVE SubscribedFunctionsRun'
  BY <1>8, LoopsUnderNothing, LoopsGoOn DEF NothingAdded, Drop, listVars
<1>9. ASSUME NEW t \in Threads, Step(t) PROVE SubscribedFunctionsRun'
  BY <1>2, <1>3, <1>4, <1>5, <1>8, <1>9, UnsubscribeSees, InsertSees, UpdateSees, RunSees DEF Step
<1> QED
  BY <1>1, <1>6, <1>7, <1>9, UnloadSees DEF Next, BeginCall, BeginDelete

\* A function of a type that is subscribed to is never left in its list: some
\* thread has yet to look there.
THEOREM SubscribersAreServed == Spec => []SubscribedFunctionsRun
<1>1. Init => SubscribedFunctionsRun
  BY DEF Init, SubscribedFunctionsRun, Subscribed, Range
<1>2. SInv /\ RTypes /\ SubscribedFunctionsRun /\ [Next]_vars => SubscribedFunctionsRun'
  BY StepsSee
<1> QED
  BY <1>1, <1>2, InitializationInvariant, PTL DEF Spec

-----------------------------------------------------------------------------
(* The invariants of what is added for unload, and of what is run. *)

\* What the calls above the k-th of a stack will have set cur to, when they are
\* over: the innermost loop right above it restores what it has saved.
Restores(s, c, k, l) ==
  \/ c = l /\ \A m \in DOMAIN s : m > k => s[m].op # "Run"
  \/ \E m \in DOMAIN s :
       /\ m > k /\ s[m].op = "Run" /\ s[m].saved = l
       /\ \A j \in DOMAIN s : j > k /\ j < m => s[j].op # "Run"

\* A registry function finds its own library's list.
CurOK ==
  \A t \in Threads : \A k \in DOMAIN stack[t] :
    stack[t][k].op = "Function" => Restores(stack[t], cur[t], k, LibOf(stack[t][k].fn))

Filed(f) == f \in Range(unloads[LibOf(f)])
AddsForUnload(f) == AddForUnloadCall \in Range(Body[f])
AboutToAdd(t, k) == k + 1 \in DOMAIN stack[t] /\ stack[t][k + 1].op = "AddForUnload"
Runs(f) == \E t \in Threads : \E i \in DOMAIN stack[t] : stack[t][i].op = "Function" /\ stack[t][i].fn = f

\* A function that has added something for unload is filed, or about to be.
DoneOK ==
  \A t \in Threads : \A k \in DOMAIN stack[t] : stack[t][k].op = "Function" =>
    \A j \in DOMAIN Body[stack[t][k].fn] :
      j <= stack[t][k].done /\ Body[stack[t][k].fn][j] = AddForUnloadCall =>
        Filed(stack[t][k].fn) \/ AboutToAdd(t, k)

EndedOK ==
  thrown = 0 => \A f \in Fns : started[f] > 0 /\ AddsForUnload(f) => Filed(f) \/ Runs(f)

UnloadsOK == \A l \in Libs : \A i \in DOMAIN unloads[l] : unloads[l][i] \in FnsOf(l)

UInv == CurOK /\ DoneOK /\ EndedOK /\ UnloadsOK

Loading(call) == call.op = "Load" /\ call.pc # "Open"

\* A library is loaded once, and not while it is loaded.
OneLoad ==
  /\ \A t, u \in Threads : \A i \in DOMAIN stack[t], j \in DOMAIN stack[u] :
       Loading(stack[t][i]) /\ Loading(stack[u][j]) /\ stack[t][i].lib = stack[u][j].lib => t = u /\ i = j
  /\ \A t \in Threads : \A i \in DOMAIN stack[t] : Loading(stack[t][i]) => stack[t][i].lib \notin loaded

\* A thread's active library is one that it is adding functions of.
ActiveOK ==
  \A t \in Threads : \A k \in DOMAIN active[t].fns :
    /\ active[t].fns[k] \in FnsOf(active[t].lib) /\ active[t].lib \in Libs
    /\ \E i \in DOMAIN stack[t] : stack[t][i].op = "Load" /\ stack[t][i].pc \in {"Add", "Close"}
                                  /\ stack[t][i].lib = active[t].lib

Added(f) ==
  \/ LibOf(f) \in loaded
  \/ \E t \in Threads : \E i \in DOMAIN stack[t] :
       /\ Loading(stack[t][i]) /\ stack[t][i].lib = LibOf(f)
       /\ \E j \in DOMAIN Adds[LibOf(f)] : j <= stack[t][i].added /\ Adds[LibOf(f)][j] = f

\* Where a function waits to be run: in the list of its type, with the active
\* library of a thread, or with a loop that runs it.
Places == {"List", "Active", "Loop"}
Lies(f, place, a, i) ==
  \/ place = "List" /\ a \in Types /\ i = 0 /\ f \in Range(fns[a])
  \/ place = "Active" /\ a \in Threads /\ i = 0 /\ f \in Range(active[a].fns)
  \/ /\ place = "Loop" /\ a \in Threads /\ i \in DOMAIN stack[a]
     /\ stack[a][i].op = "Run" /\ f \in Range(stack[a][i].toRun)

Distinct(s) == \A i, j \in DOMAIN s : s[i] = s[j] => i = j

AllDistinct ==
  /\ \A ty \in Types : Distinct(fns[ty])
  /\ \A t \in Threads : Distinct(active[t].fns)
  /\ \A t \in Threads : \A i \in DOMAIN stack[t] : stack[t][i].op = "Run" => Distinct(stack[t][i].toRun)

\* It waits in one place,
Apart ==
  \A f \in Fns : \A p, q \in Places, a, b \in Types \cup Threads, i, j \in Nat :
    Lies(f, p, a, i) /\ Lies(f, q, b, j) => p = q /\ a = b /\ i = j

\* until it is started, after its library has added it.
StartOK ==
  \A f \in Fns :
    /\ started[f] <= 1
    /\ \A p \in Places, a \in Types \cup Threads, i \in Nat :
         Lies(f, p, a, i) => started[f] = 0 /\ Added(f)
    /\ started[f] > 0 => Added(f)
    /\ Runs(f) => started[f] > 0

RInv == OneLoad /\ ActiveOK /\ AllDistinct /\ Apart /\ StartOK

-----------------------------------------------------------------------------
(* Steps that start no function and load no library.                       *)

\* The first p calls of t stay as they are.
Kept(t, p) ==
  /\ p \in 0 .. Depth(t)
  /\ DOMAIN stack' = Threads /\ \A u \in Threads \ {t} : stack'[u] = stack[u]
  /\ \A i \in 1 .. p : i \in DOMAIN stack'[t] /\ stack'[t][i] = stack[t][i]

\* A call that t may make, or go on with, in such a step.
Harmless(t, call) ==
  /\ call.op # "Function"
  /\ call.op = "Run" => call = RunCall(t, call.type)

\* Above them only calls of gone were, and only harmless ones come: a loop last.
QuietAbove(t, p, gone) ==
  /\ Kept(t, p)
  /\ \A i \in DOMAIN stack[t] : i > p => stack[t][i].op \in gone
  /\ \A i \in DOMAIN stack'[t] : i > p =>
       /\ Harmless(t, stack'[t][i])
       /\ stack'[t][i].op = "Run" => \A j \in DOMAIN stack'[t] : j <= i

Quiet(t, gone) == \E p \in Nat : QuietAbove(t, p, gone)

\* The libraries that are being loaded go on to be.
LoadsStay(t) ==
  /\ \A i \in DOMAIN stack[t] : Loading(stack[t][i]) => i \in DOMAIN stack'[t] /\ stack'[t][i] = stack[t][i]
  /\ \A i \in DOMAIN stack'[t] : Loading(stack'[t][i]) => i \in DOMAIN stack[t] /\ stack'[t][i] = stack[t][i]

\* A call returns,
LEMMA QuietReturn ==
  ASSUME SInv, NEW t \in Threads, stack[t] # <<>>, Leave(t)
  PROVE  Quiet(t, {Top(t).op}) /\ (~Loading(Top(t)) => LoadsStay(t))
<1>0. PICK n : n = Depth(t)
  OBVIOUS
<1>1. HasLeft(t)
  BY Leaves
<1>2. n \in Nat /\ n >= 1 /\ DOMAIN stack[t] = 1 .. n /\ Top(t) = stack[t][n]
  BY <1>0, StackOf
<1>3. n - 1 \in Nat /\ n - 1 \in 0 .. n /\ \A i \in 1 .. n : i = n \/ i \in 1 .. n - 1
  BY <1>2
<1>4. DOMAIN stack'[t] = 1 .. n - 1 /\ \A i \in 1 .. n - 1 : stack'[t][i] = stack[t][i] /\ i \in 1 .. n
  BY <1>0, <1>1, <1>2 DEF HasLeft, OthersStay
<1>5. Kept(t, n - 1)
  BY <1>0, <1>1, <1>3, <1>4 DEF HasLeft, OthersStay, Kept
<1>6. QuietAbove(t, n - 1, {Top(t).op})
  BY <1>2, <1>4, <1>5 DEF QuietAbove
<1>7. ~Loading(Top(t)) => LoadsStay(t)
  BY <1>2, <1>3, <1>4 DEF LoadsStay
<1> QED
  BY <1>3, <1>6, <1>7 DEF Quiet

\* goes on,
LEMMA QuietBecome ==
  ASSUME SInv, NEW t \in Threads, stack[t] # <<>>, NEW c, Harmless(t, c), c.op # "Run", HasBecome(t, c)
  PROVE  Quiet(t, {Top(t).op}) /\ (~Loading(Top(t)) /\ ~Loading(c) => LoadsStay(t))
<1>0. PICK n : n = Depth(t)
  OBVIOUS
<1>1. HasBecome(t, c)
  OBVIOUS
<1>2. n \in Nat /\ n >= 1 /\ DOMAIN stack[t] = 1 .. n /\ Top(t) = stack[t][n]
  BY <1>0, StackOf
<1>3. n - 1 \in Nat /\ n - 1 \in 0 .. n /\ \A i \in 1 .. n : i = n \/ i \in 1 .. n - 1
  BY <1>2
<1>4. /\ DOMAIN stack'[t] = 1 .. n /\ stack'[t][n] = c
      /\ \A i \in 1 .. n - 1 : stack'[t][i] = stack[t][i] /\ i \in 1 .. n
  BY <1>0, <1>1, <1>2 DEF HasBecome, OthersStay
<1>5. Kept(t, n - 1)
  BY <1>0, <1>1, <1>3, <1>4 DEF HasBecome, OthersStay, Kept
<1>6. QuietAbove(t, n - 1, {Top(t).op})
  BY <1>2, <1>3, <1>4, <1>5 DEF QuietAbove
<1>7. ~Loading(Top(t)) /\ ~Loading(c) => LoadsStay(t)
  BY <1>2, <1>3, <1>4 DEF LoadsStay
<1> QED
  BY <1>3, <1>6, <1>7 DEF Quiet

\* goes on and calls,
LEMMA QuietCall ==
  ASSUME SInv, NEW t \in Threads, stack[t] # <<>>,
         NEW c, Harmless(t, c), c.op # "Run", NEW d, Harmless(t, d),
         Become(t, Append(Front(stack[t]), c) \o <<d>>)
  PROVE  Quiet(t, {Top(t).op}) /\ (~Loading(Top(t)) /\ ~Loading(c) /\ ~Loading(d) => LoadsStay(t))
<1>0. PICK n : n = Depth(t)
  OBVIOUS
<1>1. HasCalled(t, c, d)
  BY BecomesAndCalls
<1>2. n \in Nat /\ n >= 1 /\ DOMAIN stack[t] = 1 .. n /\ Top(t) = stack[t][n]
  BY <1>0, StackOf
<1>3. /\ n - 1 \in Nat /\ n - 1 \in 0 .. n /\ \A i \in 1 .. n : i = n \/ i \in 1 .. n - 1
      /\ \A i \in 1 .. n + 1 : i = n + 1 \/ i = n \/ i \in 1 .. n - 1
  BY <1>2
<1>4. /\ DOMAIN stack'[t] = 1 .. n + 1 /\ stack'[t][n] = c /\ stack'[t][n + 1] = d
      /\ \A i \in 1 .. n - 1 : stack'[t][i] = stack[t][i] /\ i \in 1 .. n /\ i \in 1 .. n + 1
  BY <1>0, <1>1, <1>2 DEF HasCalled, OthersStay
<1>5. Kept(t, n - 1)
  BY <1>0, <1>1, <1>3, <1>4 DEF HasCalled, OthersStay, Kept
<1>6. QuietAbove(t, n - 1, {Top(t).op})
  <2>1. \A i \in DOMAIN stack[t] : i > n - 1 => i = n
    BY <1>2
  <2>2. \A i \in DOMAIN stack'[t] : i > n - 1 => i = n \/ i = n + 1
    BY <1>2, <1>4
  <2>3. \A i \in DOMAIN stack'[t] : i > n - 1 =>
          /\ Harmless(t, stack'[t][i])
          /\ stack'[t][i].op = "Run" => i = n + 1
    BY <1>4, <2>2
  <2>4. \A j \in DOMAIN stack'[t] : j <= n + 1
    BY <1>2, <1>4
  <2> QED
    BY <1>2, <1>5, <2>1, <2>3, <2>4 DEF QuietAbove
<1>7. ~Loading(Top(t)) /\ ~Loading(c) /\ ~Loading(d) => LoadsStay(t)
  BY <1>2, <1>3, <1>4 DEF LoadsStay
<1> QED
  BY <1>3, <1>6, <1>7 DEF Quiet

\* or updates the subscribers.
LEMMA QuietCallTwo ==
  ASSUME SInv, NEW t \in Threads, stack[t] # <<>>,
         NEW c, Harmless(t, c), c.op # "Run", NEW ty, NEW q,
         HasCalledTwo(t, c, UpdateCall(ty), RunCall(t, q))
  PROVE  Quiet(t, {Top(t).op}) /\ (~Loading(Top(t)) /\ ~Loading(c) => LoadsStay(t))
<1>0. PICK n, d, e : n = Depth(t) /\ d = UpdateCall(ty) /\ e = RunCall(t, q)
  OBVIOUS
<1>1. HasCalledTwo(t, c, d, e)
  BY <1>0
<1>2. n \in Nat /\ n >= 1 /\ DOMAIN stack[t] = 1 .. n /\ Top(t) = stack[t][n]
  BY <1>0, StackOf
<1>3. /\ n - 1 \in Nat /\ n - 1 \in 0 .. n /\ \A i \in 1 .. n : i = n \/ i \in 1 .. n - 1
      /\ \A i \in 1 .. n + 2 : i = n + 2 \/ i = n + 1 \/ i = n \/ i \in 1 .. n - 1
  BY <1>2
<1>4. /\ DOMAIN stack'[t] = 1 .. n + 2 /\ stack'[t][n] = c /\ stack'[t][n + 1] = d
      /\ stack'[t][n + 2] = e
      /\ \A i \in 1 .. n - 1 : stack'[t][i] = stack[t][i] /\ i \in 1 .. n /\ i \in 1 .. n + 2
  BY <1>0, <1>1, <1>2 DEF HasCalledTwo, OthersStay
<1>5. Kept(t, n - 1)
  BY <1>0, <1>1, <1>3, <1>4 DEF HasCalledTwo, OthersStay, Kept
<1>6. /\ d.op = "Update" /\ Harmless(t, d) /\ ~Loading(d)
      /\ e.op = "Run" /\ Harmless(t, e) /\ ~Loading(e)
  BY <1>0 DEF UpdateCall, RunCall, Harmless, Loading
<1>7. QuietAbove(t, n - 1, {Top(t).op})
  <2>1. \A i \in DOMAIN stack[t] : i > n - 1 => i = n
    BY <1>2
  <2>2. \A i \in DOMAIN stack'[t] : i > n - 1 => i = n \/ i = n + 1 \/ i = n + 2
    BY <1>2, <1>4
  <2>3. \A i \in DOMAIN stack'[t] : i > n - 1 =>
          /\ Harmless(t, stack'[t][i])
          /\ stack'[t][i].op = "Run" => i = n + 2
    BY <1>4, <1>6, <2>2
  <2>4. \A j \in DOMAIN stack'[t] : j <= n + 2
    BY <1>2, <1>4
  <2> QED
    BY <1>2, <1>5, <2>1, <2>3, <2>4 DEF QuietAbove
<1>8. ~Loading(Top(t)) /\ ~Loading(c) => LoadsStay(t)
  BY <1>2, <1>3, <1>4, <1>6 DEF LoadsStay
<1> QED
  BY <1>3, <1>7, <1>8 DEF Quiet

\* The stack stays, or a thread makes its first call.
LEMMA QuietBegin ==
  ASSUME SInv, NEW t \in Threads, NEW c, Harmless(t, c), ~Loading(c),
         \/ UNCHANGED stack
         \/ stack[t] = <<>> /\ Enter(t, c)
  PROVE  Quiet(t, {}) /\ LoadsStay(t)
<1>1. CASE UNCHANGED stack
  <2>1. PICK n : n = Depth(t)
    OBVIOUS
  <2>2. n \in Nat /\ DOMAIN stack[t] = 1 .. n /\ DOMAIN stack = Threads
    BY <2>1, StackOf
  <2>3. n \in 0 .. n /\ \A i \in 1 .. n : ~(i > n)
    BY <2>2
  <2>4. QuietAbove(t, n, {})
    BY <1>1, <2>1, <2>2, <2>3 DEF QuietAbove, Kept
  <2> QED
    BY <1>1, <2>2, <2>4 DEF Quiet, LoadsStay
<1>2. CASE stack[t] = <<>> /\ Enter(t, c)
  <2>1. HasBegun(t, c) /\ DOMAIN stack[t] = {} /\ Depth(t) \in Nat /\ DOMAIN stack = Threads
    BY <1>2, Begins, StackOf
  <2>2. QuietAbove(t, 0, {})
    <3>1. 0 \in 0 .. Depth(t)
      BY <2>1
    <3> QED
      BY <2>1, <3>1 DEF QuietAbove, Kept, HasBegun, OthersStay
  <2>3. LoadsStay(t)
    BY <2>1 DEF LoadsStay, HasBegun
  <2> QED
    BY <2>2, <2>3 DEF Quiet
<1> QED
  BY <1>1, <1>2

\* T's constructor returns,
LEMMA QuietConstructorReturn ==
  ASSUME SInv, NEW t \in Threads, ConstructorReturn(t)
  PROVE  Quiet(t, {"Get", "Constructor"}) /\ LoadsStay(t)
<1>0. PICK n : n = Depth(t)
  OBVIOUS
<1>1. /\ n \in Nat /\ n >= 2 /\ DOMAIN stack[t] = 1 .. n /\ DOMAIN stack'[t] = 1 .. n - 1
      /\ DOMAIN stack' = Threads /\ \A u \in Threads \ {t} : stack'[u] = stack[u]
      /\ \A i \in 1 .. n - 2 : stack'[t][i] = stack[t][i]
      /\ stack[t][n].op = "Constructor" /\ stack[t][n - 1].op = "Get"
      /\ stack'[t][n - 1].op = "Get"
  BY <1>0, ConstructorReturnFrames
<1>2. /\ \A i \in 1 .. n : i = n \/ i = n - 1 \/ (i \in 1 .. n - 2 /\ i \in 1 .. n - 1)
      /\ \A i \in 1 .. n - 1 : i = n - 1 \/ (i \in 1 .. n - 2 /\ i \in 1 .. n)
      /\ \A i \in 1 .. n - 2 : i \in 1 .. n - 1 /\ ~(i > n - 2)
      /\ n - 2 \in Nat /\ n - 2 \in 0 .. n
  BY <1>1
<1>3. Kept(t, n - 2)
  BY <1>0, <1>1, <1>2 DEF Kept
<1>4. QuietAbove(t, n - 2, {"Get", "Constructor"})
  BY <1>1, <1>2, <1>3 DEF QuietAbove, Harmless
<1>5. LoadsStay(t)
  BY <1>1, <1>2 DEF LoadsStay, Loading
<1> QED
  BY <1>2, <1>4, <1>5 DEF Quiet

\* or throws.
LEMMA QuietThrow ==
  ASSUME SInv, NEW t \in Threads, ConstructorThrow(t)
  PROVE  Quiet(t, {"Get", "Constructor", "Function"}) /\ LoadsStay(t)
<1>0. PICK n : n = Depth(t)
  OBVIOUS
<1>1. /\ n \in Nat /\ n >= 2 /\ DOMAIN stack[t] = 1 .. n
      /\ DOMAIN stack' = Threads /\ \A u \in Threads \ {t} : stack'[u] = stack[u]
      /\ stack[t][n].op = "Constructor" /\ stack[t][n - 1].op = "Get"
      /\ \/ n = 2 /\ DOMAIN stack'[t] = {}
         \/ /\ n >= 3 /\ stack[t][n - 2].op = "Function" /\ DOMAIN stack'[t] = 1 .. n - 3
            /\ \A i \in 1 .. n - 3 : stack'[t][i] = stack[t][i]
  BY <1>0, ThrowFrames
<1>2. CASE n = 2 /\ DOMAIN stack'[t] = {}
  <2>1. \A i \in 1 .. n : i = n \/ i = n - 1
    BY <1>2
  <2>2. Kept(t, 0)
    BY <1>0, <1>1 DEF Kept
  <2>3. QuietAbove(t, 0, {"Get", "Constructor", "Function"})
    BY <1>1, <1>2, <2>1, <2>2 DEF QuietAbove
  <2>4. LoadsStay(t)
    BY <1>1, <1>2, <2>1 DEF LoadsStay, Loading
  <2> QED
    BY <2>3, <2>4 DEF Quiet
<1>3. CASE /\ n >= 3 /\ stack[t][n - 2].op = "Function" /\ DOMAIN stack'[t] = 1 .. n - 3
           /\ \A i \in 1 .. n - 3 : stack'[t][i] = stack[t][i]
  <2>0. n \in Nat /\ n >= 3
    BY <1>1, <1>3
  <2>a. \A i \in 1 .. n : i = n \/ i = n - 1 \/ i = n - 2 \/ i \in 1 .. n - 3
    BY <2>0
  <2>b. \A i \in 1 .. n - 3 : i \in 1 .. n /\ ~(i > n - 3)
    BY <2>0
  <2>c. n - 3 \in Nat /\ n - 3 \in 0 .. n
    BY <2>0
  <2>1. /\ \A i \in 1 .. n : i = n \/ i = n - 1 \/ i = n - 2 \/ i \in 1 .. n - 3
        /\ \A i \in 1 .. n - 3 : i \in 1 .. n /\ ~(i > n - 3)
        /\ n - 3 \in Nat /\ n - 3 \in 0 .. n
    BY <2>a, <2>b, <2>c
  <2>2. Kept(t, n - 3)
    BY <1>0, <1>1, <1>3, <2>1 DEF Kept
  <2>3. QuietAbove(t, n - 3, {"Get", "Constructor", "Function"})
    BY <1>1, <1>3, <2>1, <2>2 DEF QuietAbove
  <2>4. LoadsStay(t)
    BY <1>1, <1>3, <2>1 DEF LoadsStay, Loading
  <2> QED
    BY <2>1, <2>3, <2>4 DEF Quiet
<1> QED
  BY <1>1, <1>2, <1>3

QuietOps == {"Get", "Constructor", "Delete", "Subscribe", "Update", "Load"}

\* What is quiet for some calls is for more.
LEMMA QuietFor ==
  ASSUME NEW t \in Threads, NEW S, Quiet(t, S), S \subseteq QuietOps
  PROVE  Quiet(t, QuietOps)
  BY DEF Quiet, QuietAbove

\* The innermost call does not run functions; it returns, goes on or calls.
LEMMA QuietShapes ==
  ASSUME SInv, NEW t \in Threads, stack[t] # <<>>, Top(t).op \in QuietOps,
         \/ Leave(t)
         \/ \E c : Update(t, c) /\ c.op \in QuietOps /\ (Loading(c) => Loading(Top(t)))
         \/ \E c, d :
              /\ Become(t, Append(Front(stack[t]), c) \o <<d>>) /\ c.op \in QuietOps
              /\ Harmless(t, d) /\ ~Loading(d) /\ (Loading(c) => Loading(Top(t)))
  PROVE  Quiet(t, QuietOps) /\ (~Loading(Top(t)) => LoadsStay(t))
<1>1. {Top(t).op} \subseteq QuietOps
  OBVIOUS
<1>2. \A c : c.op \in QuietOps => Harmless(t, c) /\ c.op # "Run"
  BY DEF QuietOps, Harmless
<1>3. CASE Leave(t)
  BY <1>1, <1>3, QuietReturn, QuietFor
<1>4. ASSUME NEW c, Update(t, c), c.op \in QuietOps, Loading(c) => Loading(Top(t))
      PROVE  Quiet(t, QuietOps) /\ (~Loading(Top(t)) => LoadsStay(t))
  BY <1>1, <1>2, <1>4, Becomes, QuietBecome, QuietFor
<1>5. ASSUME NEW c, NEW d, Become(t, Append(Front(stack[t]), c) \o <<d>>), c.op \in QuietOps,
             Harmless(t, d), ~Loading(d), Loading(c) => Loading(Top(t))
      PROVE  Quiet(t, QuietOps) /\ (~Loading(Top(t)) => LoadsStay(t))
  BY <1>1, <1>2, <1>5, QuietCall, QuietFor
<1> QED
  BY <1>3, <1>4, <1>5

\* The lists of what was added for unload, the counts of what was started and the
\* list in use stay.
RunsStay == UNCHANGED <<cur, unloads, started, thrown>>

\* A step of the singleton is quiet,
LEMMA SingletonIsQuiet ==
  ASSUME SInv, NEW t \in Threads, SingletonStep(t)
  PROVE  Quiet(t, QuietOps) /\ LoadsStay(t) /\ thrown' = thrown
<1>1. CASE ConstructorReturn(t)
  <2>1. Quiet(t, {"Get", "Constructor"}) /\ LoadsStay(t) /\ thrown' = thrown
    BY <1>1, QuietConstructorReturn DEF ConstructorReturn, singletonVars
  <2>2. {"Get", "Constructor"} \subseteq QuietOps
    BY DEF QuietOps
  <2> QED
    BY <2>1, <2>2, QuietFor
<1>2. CASE Declare(t)
  <2>1. /\ stack[t] # <<>> /\ Top(t).op = "Constructor" /\ thrown' = thrown
        /\ Update(t, [Top(t) EXCEPT !.pc = "Subscribe"])
    BY <1>2 DEF Declare, At, Goto
  <2>2. [Top(t) EXCEPT !.pc = "Subscribe"].op = "Constructor"
    BY <2>1, StackOf DEF Shaped, SingletonOps
  <2> QED
    BY <2>1, <2>2, QuietShapes DEF QuietOps, Loading
<1>3. CASE \/ GetLoad(t) \/ GetOwner(t) \/ GetExchange(t) \/ GetCheck(t) \/ GetPublish(t)
           \/ GetClear(t) \/ GetWait(t) \/ GetReload(t)
  <2>1. stack[t] # <<>> /\ Top(t).op = "Get" /\ thrown' = thrown
    BY <1>3 DEF GetLoad, GetOwner, GetExchange, GetCheck, GetPublish, GetClear, GetWait, GetReload, At,
      singletonVars
  <2>2. \A pc : [Top(t) EXCEPT !.pc = pc].op = "Get"
    BY <2>1, StackOf DEF Shaped, SingletonOps
  <2>3. \/ Leave(t)
        \/ \E pc : Update(t, [Top(t) EXCEPT !.pc = pc])
        \/ \E pc, o : Become(t, Append(Front(stack[t]), [Top(t) EXCEPT !.pc = pc]) \o <<ConstructorCall(o)>>)
    BY <1>3 DEF GetLoad, GetOwner, GetExchange, GetCheck, GetPublish, GetClear, GetWait, GetReload,
      ReturnReference, Goto, GotoAndEnter
  <2>4. \A o : Harmless(t, ConstructorCall(o)) /\ ~Loading(ConstructorCall(o))
    BY DEF Harmless, ConstructorCall, Loading
  <2>5. \A c : c.op = "Get" => c.op \in QuietOps /\ ~Loading(c)
    BY DEF QuietOps, Loading
  <2> QED
    BY <2>1, <2>2, <2>3, <2>4, <2>5, QuietShapes
<1>4. CASE DeleteLoad(t) \/ DeleteSwap(t) \/ Destroy(t) \/ DeleteReset(t)
  <2>1. stack[t] # <<>> /\ Top(t).op = "Delete" /\ thrown' = thrown
    BY <1>4 DEF DeleteLoad, DeleteSwap, Destroy, DeleteReset, At, singletonVars
  <2>2. /\ \A pc : [Top(t) EXCEPT !.pc = pc].op = "Delete"
        /\ \A pc, o : [Top(t) EXCEPT !.pc = pc, !.object = o].op = "Delete"
    <3>1. Top(t) = [op |-> "Delete", pc |-> Top(t).pc, object |-> Top(t).object]
      BY <2>1, StackOf DEF Shaped, SingletonOps
    <3> QED
      BY <3>1
  <2>3. \/ Leave(t)
        \/ \E pc : Update(t, [Top(t) EXCEPT !.pc = pc])
        \/ \E pc, o : Update(t, [Top(t) EXCEPT !.pc = pc, !.object = o])
    BY <1>4 DEF DeleteLoad, DeleteSwap, Destroy, DeleteReset, Goto
  <2>4. \A c : c.op = "Delete" => c.op \in QuietOps /\ ~Loading(c)
    BY DEF QuietOps, Loading
  <2> QED
    BY <2>1, <2>2, <2>3, <2>4, QuietShapes
<1> QED
  BY <1>1, <1>2, <1>3, <1>4 DEF SingletonStep

\* A call that the user makes is harmless.
LEMMA UserCallsAreHarmless ==
  ASSUME NEW t \in Threads, NEW d \in UserCalls \cup {AddForUnloadCall, DeleteCall}
  PROVE  Harmless(t, d) /\ ~Loading(d) /\ d.op # "Run"
  BY DEF UserCalls, GetCall, SubscribeCall, LoadCall, AddForUnloadCall, DeleteCall, Harmless, Loading

\* so is who subscribes, unsubscribes or updates the subscribers,
LEMMA SubscribersAreQuiet ==
  ASSUME SInv, RTypes, NEW t \in Threads,
         \/ ConstructorSubscribe(t) \/ DestructorUnsubscribe(t) \/ SubscribeLock(t)
         \/ SubscribeInsert(t) \/ SubscribeUnlock(t) \/ UpdateNext(t)
  PROVE  Quiet(t, QuietOps) /\ LoadsStay(t) /\ RunsStay
<1>0. RunsStay
  BY DEF ConstructorSubscribe, DestructorUnsubscribe, SubscribeLock, SubscribeInsert, SubscribeUnlock,
    UpdateNext, LockAndProcess, UnlockAndLeave, RunsStay, singletonVars, listVars, libraryVars
<1>1. stack[t] # <<>> /\ Top(t).op \in {"Constructor", "Delete", "Subscribe", "Update"} /\ Shaped(Top(t))
  <2>1. stack[t] # <<>> /\ Top(t).op \in {"Constructor", "Delete", "Subscribe", "Update"}
    BY DEF ConstructorSubscribe, DestructorUnsubscribe, SubscribeLock, SubscribeInsert, SubscribeUnlock,
      UpdateNext, At
  <2> QED
    BY <2>1, StackOf
<1>2. Top(t).op \in QuietOps /\ ~Loading(Top(t))
  BY <1>1 DEF QuietOps, Loading
<1>3. Top(t).op # "Update" => \A pc : [Top(t) EXCEPT !.pc = pc].op = Top(t).op
  BY <1>1 DEF Shaped, SingletonOps
<1>4. \A c : c.op = Top(t).op => c.op \in QuietOps /\ ~Loading(c) /\ Harmless(t, c) /\ c.op # "Run"
  BY <1>1 DEF QuietOps, Loading, Harmless
<1>5. \A ty : Harmless(t, RunCall(t, ty)) /\ ~Loading(RunCall(t, ty)) /\ Harmless(t, SubscribeCall(ty))
              /\ ~Loading(SubscribeCall(ty))
  BY DEF Harmless, Loading, RunCall, SubscribeCall
<1>6. CASE SubscribeLock(t)
  <2>0. PICK c : c = [Top(t) EXCEPT !.pc = "Insert"]
    OBVIOUS
  <2>1. Top(t).op = "Subscribe" /\ c.op = "Subscribe"
    BY <1>3, <1>6, <2>0 DEF SubscribeLock, At
  <2>2. IF MovedAny(t) THEN HasCalledTwo(t, c, UpdateCall(Head(ordered)), RunCall(t, Head(ordered)))
                       ELSE HasBecome(t, c)
    BY <1>1, <1>6, <2>0, <2>1, LockKeeps DEF SubscribeLock, Hosts
  <2>3. CASE MovedAny(t)
    BY <1>1, <1>2, <1>4, <2>1, <2>2, <2>3, QuietCallTwo, QuietFor, <1>0
  <2>4. CASE ~MovedAny(t)
    BY <1>1, <1>2, <1>4, <2>1, <2>2, <2>4, QuietBecome, QuietFor, <1>0
  <2> QED
    BY <2>3, <2>4
<1>7. CASE \/ ConstructorSubscribe(t) \/ DestructorUnsubscribe(t) \/ SubscribeInsert(t) \/ SubscribeUnlock(t)
  <2>1. \/ Leave(t)
        \/ \E pc : Update(t, [Top(t) EXCEPT !.pc = pc])
        \/ \E pc, ty : Become(t, Append(Front(stack[t]), [Top(t) EXCEPT !.pc = pc]) \o <<SubscribeCall(ty)>>)
        \/ \E pc, ty : Become(t, Append(Front(stack[t]), [Top(t) EXCEPT !.pc = pc]) \o <<RunCall(t, ty)>>)
    BY <1>7 DEF ConstructorSubscribe, DestructorUnsubscribe, SubscribeInsert, SubscribeUnlock,
      UnlockAndLeave, Goto, GotoAndEnter
  <2>2. \A pc : [Top(t) EXCEPT !.pc = pc].op = Top(t).op
    BY <1>3, <1>7 DEF ConstructorSubscribe, DestructorUnsubscribe, SubscribeInsert, SubscribeUnlock, At
  <2> QED
    BY <1>0, <1>1, <1>2, <1>4, <1>5, <2>1, <2>2, QuietShapes
<1>8. CASE UpdateNext(t)
  <2>1. \/ Leave(t)
        \/ \E ty : Become(t, Front(stack[t]) \o <<UpdateCall(ty), RunCall(t, ty)>>)
    BY <1>8 DEF UpdateNext
  <2>2. ASSUME NEW ty
        PROVE  Front(stack[t]) \o <<UpdateCall(ty), RunCall(t, ty)>>
                 = Append(Front(stack[t]), UpdateCall(ty)) \o <<RunCall(t, ty)>>
    BY <1>1, PlainTop, Pushed, Append2
  <2>3. \A ty : UpdateCall(ty).op = Top(t).op
    BY <1>8 DEF UpdateCall, UpdateNext, At
  <2> QED
    BY <1>0, <1>1, <1>2, <1>4, <1>5, <2>1, <2>2, <2>3, QuietShapes
<1> QED
  BY <1>6, <1>7, <1>8

\* who loads a library,
LEMMA LoadIsQuiet ==
  ASSUME SInv, RTypes, NEW t \in Threads,
         \/ LoadOpen(t) \/ LoadAdd(t) \/ LoadActivate(t)
         \/ LoadGlobal(t) \/ LoadClose(t) \/ LoadUnlock(t)
  PROVE  Quiet(t, QuietOps) /\ RunsStay
<1>0. RunsStay
  BY DEF LoadOpen, LoadAdd, LoadActivate, LoadGlobal, LoadClose, LoadUnlock, LockAndProcess, RunsStay,
    singletonVars, listVars, libraryVars
<1>1. stack[t] # <<>> /\ Top(t).op = "Load" /\ Shaped(Top(t))
  <2>1. stack[t] # <<>> /\ Top(t).op = "Load"
    BY DEF LoadOpen, LoadAdd, LoadActivate, LoadGlobal, LoadClose, LoadUnlock, At
  <2> QED
    BY <2>1, StackOf
<1>2. Top(t).op \in QuietOps /\ (Hosts(Top(t)) => Top(t).pc = "Close")
  BY <1>1 DEF QuietOps, Hosts
<1>3. /\ \A pc : [Top(t) EXCEPT !.pc = pc].op = "Load"
      /\ \A n : [Top(t) EXCEPT !.added = n].op = "Load"
  <2>1. Top(t) = [op |-> "Load", pc |-> Top(t).pc, lib |-> Top(t).lib, added |-> Top(t).added]
    BY <1>1 DEF Shaped
  <2> QED
    BY <2>1
<1>4. \A c : c.op = "Load" => c.op \in QuietOps /\ Harmless(t, c) /\ c.op # "Run"
  BY DEF QuietOps, Harmless
<1>5. ASSUME NEW pc, LockAndProcess(t, pc) PROVE Quiet(t, QuietOps)
  <2>0. PICK c : c = [Top(t) EXCEPT !.pc = pc]
    OBVIOUS
  <2>1. Hosts(Top(t)) => ref[t] = 0
    BY <1>2 DEF LoadOpen, LoadAdd, LoadActivate, LoadGlobal, LoadClose, LoadUnlock, At
  <2>2. IF MovedAny(t) THEN HasCalledTwo(t, c, UpdateCall(Head(ordered)), RunCall(t, Head(ordered)))
                       ELSE HasBecome(t, c)
    BY <1>1, <1>5, <2>0, <2>1, LockKeeps
  <2>3. c.op = "Load"
    BY <1>3, <2>0
  <2>4. {Top(t).op} \subseteq QuietOps
    BY <1>2
  <2>5. CASE MovedAny(t)
    BY <1>1, <1>4, <2>2, <2>3, <2>4, <2>5, QuietCallTwo, QuietFor
  <2>6. CASE ~MovedAny(t)
    BY <1>1, <1>4, <2>2, <2>3, <2>4, <2>6, QuietBecome, QuietFor
  <2> QED
    BY <2>5, <2>6
<1>6. CASE ~\E pc : LockAndProcess(t, pc)
  <2>1. \/ Leave(t)
        \/ \E pc : Update(t, [Top(t) EXCEPT !.pc = pc])
        \/ \E n : Update(t, [Top(t) EXCEPT !.added = n])
        \/ \E pc : \E d \in UserCalls : Become(t, Append(Front(stack[t]), [Top(t) EXCEPT !.pc = pc]) \o <<d>>)
    <3>1. CASE LoadAdd(t)
      BY <1>6, <3>1 DEF LoadAdd
    <3>2. CASE LoadGlobal(t)
      <4>1. Top(t).lib \in Libs
        BY <1>1 DEF Shaped
      <4>2. Globals[Top(t).lib] \subseteq UserCalls
        BY <4>1, CallsAssumption
      <4> QED
        BY <3>2, <4>2 DEF LoadGlobal, Goto, GotoAndEnter
    <3>3. CASE LoadOpen(t) \/ LoadActivate(t) \/ LoadClose(t) \/ LoadUnlock(t)
      BY <1>6, <3>3 DEF LoadOpen, LoadActivate, LoadClose, LoadUnlock, Goto
    <3> QED
      BY <3>1, <3>2, <3>3
  <2>2. {Top(t).op} \subseteq QuietOps
    BY <1>2
  <2>3. \A d \in UserCalls : Harmless(t, d)
    BY UserCallsAreHarmless
  <2>4. ASSUME NEW c, c.op = "Load", Update(t, c) PROVE Quiet(t, QuietOps)
    BY <1>1, <1>4, <2>2, <2>4, Becomes, QuietBecome, QuietFor
  <2>5. ASSUME NEW c, NEW d \in UserCalls, c.op = "Load", Become(t, Append(Front(stack[t]), c) \o <<d>>)
        PROVE  Quiet(t, QuietOps)
    BY <1>1, <1>4, <2>2, <2>3, <2>5, QuietCall, QuietFor
  <2>6. CASE Leave(t)
    <3>1. Quiet(t, {Top(t).op})
      BY <1>1, <2>6, QuietReturn
    <3> QED
      BY <1>0, <2>2, <3>1, QuietFor
  <2>7. ASSUME NEW pc, Update(t, [Top(t) EXCEPT !.pc = pc]) PROVE Quiet(t, QuietOps)
    BY <1>3, <2>4, <2>7
  <2>8. ASSUME NEW n, Update(t, [Top(t) EXCEPT !.added = n]) PROVE Quiet(t, QuietOps)
    BY <1>3, <2>4, <2>8
  <2>9. ASSUME NEW pc, NEW d \in UserCalls,
               Become(t, Append(Front(stack[t]), [Top(t) EXCEPT !.pc = pc]) \o <<d>>)
        PROVE  Quiet(t, QuietOps)
    BY <1>3, <2>5, <2>9
  <2> QED
    BY <1>0, <2>1, <2>6, <2>7, <2>8, <2>9
<1> QED
  BY <1>0, <1>5, <1>6

\* who begins a call or drops a reference, or who does nothing.
LEMMA BeginIsQuiet ==
  ASSUME SInv, NEW t \in Threads, BeginCall(t) \/ BeginDelete(t) \/ Drop(t)
  PROVE  Quiet(t, QuietOps) /\ LoadsStay(t) /\ RunsStay
<1>1. RunsStay
  BY DEF BeginCall, BeginDelete, Begin, Drop, RunsStay, listVars, libraryVars, singletonVars
<1>2. UNCHANGED stack \/ \E c \in UserCalls \cup {DeleteCall} : stack[t] = <<>> /\ Enter(t, c)
  BY DEF BeginCall, BeginDelete, Begin, Drop
<1>3. {} \subseteq QuietOps
  OBVIOUS
<1>4. CASE UNCHANGED stack
  <2>1. Harmless(t, GetCall) /\ ~Loading(GetCall)
    BY DEF Harmless, GetCall, Loading
  <2> QED
    BY <1>1, <1>3, <1>4, <2>1, QuietBegin, QuietFor
<1>5. ASSUME NEW c \in UserCalls \cup {DeleteCall}, stack[t] = <<>>, Enter(t, c)
      PROVE  Quiet(t, QuietOps) /\ LoadsStay(t)
  BY <1>3, <1>5, UserCallsAreHarmless, QuietBegin, QuietFor
<1> QED
  BY <1>1, <1>2, <1>4, <1>5

-----------------------------------------------------------------------------
(* What is added for unload. *)

\* A quiet step leaves a function the list it had, for it saves what it found.
LEMMA CurUnderQuiet ==
  ASSUME SInv, SInv', CurOK, NEW t \in Threads, NEW S, Quiet(t, S), "Run" \notin S, UNCHANGED cur
  PROVE  CurOK'
<1>1. PICK p \in Nat : QuietAbove(t, p, S)
  BY DEF Quiet
<1>2. /\ Kept(t, p)
      /\ \A i \in DOMAIN stack[t] : i > p => stack[t][i].op # "Run"
  BY <1>1 DEF QuietAbove
<1>3. \A i \in DOMAIN stack'[t] : i > p =>
        /\ stack'[t][i].op # "Function"
        /\ stack'[t][i].op = "Run" => stack'[t][i].saved = cur[t]
        /\ stack'[t][i].op = "Run" => \A j \in DOMAIN stack'[t] : j <= i
  <2>1. \A c : Harmless(t, c) => c.op # "Function" /\ (c.op = "Run" => c.saved = cur[t])
    BY DEF Harmless, RunCall
  <2> QED
    BY <1>1, <2>1 DEF QuietAbove
<1>4. /\ Depth(t) \in Nat /\ DOMAIN stack[t] = 1 .. Depth(t) /\ p <= Depth(t)
      /\ \A i \in DOMAIN stack'[t] : i \in Nat /\ i >= 1
      /\ \A i \in 1 .. p : i \in DOMAIN stack'[t] /\ stack'[t][i] = stack[t][i]
      /\ \A u \in Threads \ {t} : stack'[u] = stack[u]
  <2>1. IsList(stack'[t])
    BY DEF SInv, StacksOK, StackOK
  <2> QED
    BY <1>2, <2>1, StackOf DEF Kept, IsList
<1> SUFFICES ASSUME NEW u \in Threads, NEW k \in DOMAIN stack'[u], stack'[u][k].op = "Function"
             PROVE  Restores(stack'[u], cur[u], k, LibOf(stack'[u][k].fn))
  BY DEF CurOK
<1>5. CASE u # t
  BY <1>4, <1>5 DEF CurOK
<1>6. CASE u = t
  <2>1. k <= p /\ k \in 1 .. p /\ k \in DOMAIN stack[t] /\ stack'[t][k] = stack[t][k]
    BY <1>3, <1>4, <1>6
  <2>2. PICK l : l = LibOf(stack[t][k].fn)
    OBVIOUS
  <2>3. Restores(stack[t], cur[t], k, l)
    BY <1>6, <2>1, <2>2 DEF CurOK
  <2>4. \A j \in DOMAIN stack'[t] : j <= p => j \in DOMAIN stack[t] /\ stack'[t][j] = stack[t][j]
    BY <1>4
  <2>5. CASE cur[t] = l /\ \A m \in DOMAIN stack[t] : m > k => stack[t][m].op # "Run"
    <3>1. \A j \in DOMAIN stack'[t] : j > k /\ stack'[t][j].op = "Run" => j > p
      BY <1>4, <2>4, <2>5
    <3>2. ASSUME NEW m \in DOMAIN stack'[t], m > k, stack'[t][m].op = "Run"
          PROVE  Restores(stack'[t], cur[t], k, l)
      <4>1. stack'[t][m].saved = l
        BY <1>3, <2>5, <3>1, <3>2
      <4>2. \A j \in DOMAIN stack'[t] : j > k /\ j < m => stack'[t][j].op # "Run"
        <5>1. ASSUME NEW j \in DOMAIN stack'[t], j > k, j < m, stack'[t][j].op = "Run" PROVE FALSE
          <6>1. m <= j
            BY <1>3, <3>1, <5>1
          <6> QED
            BY <1>4, <5>1, <6>1
        <5> QED
          BY <5>1
      <4> QED
        BY <3>2, <4>1, <4>2 DEF Restores
    <3>3. CASE \A m \in DOMAIN stack'[t] : m > k => stack'[t][m].op # "Run"
      BY <2>1, <2>2, <2>5, <3>3, <1>6 DEF Restores
    <3> QED
      BY <1>6, <2>1, <2>2, <3>2, <3>3
  <2>6. ASSUME NEW m \in DOMAIN stack[t], m > k, stack[t][m].op = "Run", stack[t][m].saved = l,
               \A j \in DOMAIN stack[t] : j > k /\ j < m => stack[t][j].op # "Run"
        PROVE  Restores(stack'[t], cur[t], k, l)
    <3>1. m <= p /\ m \in 1 .. p
      BY <1>2, <1>4, <2>6
    <3>2. m \in DOMAIN stack'[t] /\ stack'[t][m] = stack[t][m]
      BY <1>4, <3>1
    <3>3. \A j \in DOMAIN stack'[t] : j > k /\ j < m => stack'[t][j].op # "Run"
      BY <1>4, <2>4, <2>6, <3>1
    <3> QED
      BY <2>6, <3>2, <3>3 DEF Restores
  <2> QED
    BY <1>6, <2>1, <2>2, <2>3, <2>5, <2>6 DEF Restores
<1> QED
  BY <1>5, <1>6

FiledStays == \A f \in Fns : Filed(f) => Filed(f)'

\* Nor is a function kept from what it is about to add: not by a step that lets the
\* first p calls be, and starts functions but runs none,
LEMMA DoneUnderKept ==
  ASSUME SInv, SInv', DoneOK, NEW t \in Threads, NEW p \in Nat, Kept(t, p), FiledStays,
         \A i \in DOMAIN stack[t] : i > p => stack[t][i].op # "AddForUnload",
         \A i \in DOMAIN stack'[t] : i > p /\ stack'[t][i].op = "Function" => stack'[t][i].done = 0
  PROVE  DoneOK'
<1>3. /\ Depth(t) \in Nat /\ DOMAIN stack[t] = 1 .. Depth(t) /\ p <= Depth(t)
      /\ \A i \in DOMAIN stack'[t] : i \in Nat /\ i >= 1
      /\ \A i \in 1 .. p : i \in DOMAIN stack'[t] /\ stack'[t][i] = stack[t][i]
      /\ \A u \in Threads \ {t} : stack'[u] = stack[u]
  <2>1. IsList(stack'[t])
    BY DEF SInv, StacksOK, StackOK
  <2> QED
    BY <2>1, StackOf DEF Kept, IsList
<1> SUFFICES ASSUME NEW u \in Threads, NEW k, k \in DOMAIN stack'[u], stack'[u][k].op = "Function",
                    NEW f, f = stack'[u][k].fn, NEW j \in DOMAIN Body[f],
                    j <= stack'[u][k].done, Body[f][j] = AddForUnloadCall
             PROVE  Filed(f)' \/ AboutToAdd(u, k)'
  BY DEF DoneOK, Filed, AboutToAdd
<1>4. k \in DOMAIN stack[u] /\ stack'[u][k] = stack[u][k] /\ (u = t => k <= p)
  <2>1. CASE u = t /\ k > p
    <3>1. Shaped(stack'[u][k])
      BY DEF SInv, StacksOK, StackOK
    <3>2. f \in Fns /\ stack'[u][k].done = 0
      BY <2>1, <3>1 DEF Shaped
    <3>3. Body[f] \in Seq(UserCalls \cup {AddForUnloadCall})
      BY <3>2, CallsAssumption
    <3>4. j \in Nat /\ j >= 1
      BY <3>3
    <3> QED
      BY <3>2, <3>4
  <2>2. CASE u # t \/ ~(k > p)
    BY <1>3, <2>2
  <2> QED
    BY <2>1, <2>2
<1>5. f = stack[u][k].fn /\ Shaped(stack[u][k])
  BY <1>4 DEF SInv, StacksOK, StackOK
<1>6. f \in Fns
  BY <1>4, <1>5 DEF Shaped
<1>7. Filed(f) \/ AboutToAdd(u, k)
  BY <1>4, <1>5 DEF DoneOK
<1>8. AboutToAdd(u, k) => AboutToAdd(u, k)'
  <2>1. CASE u # t
    BY <1>3, <2>1 DEF AboutToAdd
  <2>2. ASSUME u = t, AboutToAdd(u, k) PROVE AboutToAdd(u, k)'
    <3>1. k + 1 \in DOMAIN stack[t] /\ stack[t][k + 1].op = "AddForUnload"
      BY <2>2 DEF AboutToAdd
    <3>2. k + 1 \in 1 .. p
      BY <1>3, <3>1
    <3> QED
      BY <1>3, <2>2, <3>1, <3>2 DEF AboutToAdd
  <2> QED
    BY <2>1, <2>2
<1>9. Filed(f) => Filed(f)'
  BY <1>6 DEF FiledStays
<1> QED
  BY <1>4, <1>5, <1>7, <1>8, <1>9

\* nor by a quiet one;
LEMMA DoneUnderQuiet ==
  ASSUME SInv, SInv', DoneOK, NEW t \in Threads, NEW S, Quiet(t, S), "AddForUnload" \notin S, FiledStays
  PROVE  DoneOK'
<1>1. PICK p \in Nat : QuietAbove(t, p, S)
  BY DEF Quiet
<1> QED
  BY <1>1, DoneUnderKept DEF QuietAbove, Harmless

\* and no function ends in it.
LEMMA RunsUnderQuiet ==
  ASSUME SInv, NEW t \in Threads, NEW S, Quiet(t, S), "Function" \notin S, NEW f, Runs(f)
  PROVE  Runs(f)'
<1>1. PICK p \in Nat : QuietAbove(t, p, S)
  BY DEF Quiet
<1>2. /\ Kept(t, p)
      /\ \A i \in DOMAIN stack[t] : i > p => stack[t][i].op # "Function"
  BY <1>1 DEF QuietAbove
<1>3. PICK u \in Threads :
        \E i \in DOMAIN stack[u] : stack[u][i].op = "Function" /\ stack[u][i].fn = f
  BY DEF Runs
<1>4. PICK i \in DOMAIN stack[u] : stack[u][i].op = "Function" /\ stack[u][i].fn = f
  BY <1>3
<1>5. DOMAIN stack[t] = 1 .. Depth(t) /\ Depth(t) \in Nat
  BY StackOf
<1>6. i \in DOMAIN stack'[u] /\ stack'[u][i] = stack[u][i]
  BY <1>2, <1>4, <1>5 DEF Kept
<1> QED
  BY <1>4, <1>6 DEF Runs

\* So what was to be filed still is.
LEMMA EndedUnderQuiet ==
  ASSUME SInv, EndedOK, NEW t \in Threads, NEW S, Quiet(t, S), "Function" \notin S, FiledStays,
         UNCHANGED <<started, thrown>>
  PROVE  EndedOK'
<1> SUFFICES ASSUME thrown' = 0, NEW f \in Fns, started'[f] > 0, AddsForUnload(f)
             PROVE  Filed(f)' \/ Runs(f)'
  BY DEF EndedOK, AddsForUnload
<1>1. Filed(f) \/ Runs(f)
  BY DEF EndedOK
<1> QED
  BY <1>1, RunsUnderQuiet DEF FiledStays

\* The steps of calls that run no functions keep the invariant.
LEMMA FiledUnderQuiet ==
  ASSUME SInv, SInv', UInv, NEW t \in Threads, Quiet(t, QuietOps), RunsStay
  PROVE  UInv'
<1>1. FiledStays /\ UnloadsOK'
  BY DEF FiledStays, Filed, RunsStay, UInv, UnloadsOK
<1>2. "Run" \notin QuietOps /\ "AddForUnload" \notin QuietOps /\ "Function" \notin QuietOps
  BY DEF QuietOps
<1>3. CurOK'
  BY <1>2, CurUnderQuiet DEF RunsStay, UInv
<1>4. DoneOK'
  BY <1>1, <1>2, DoneUnderQuiet DEF UInv
<1>5. EndedOK'
  BY <1>1, <1>2, EndedUnderQuiet DEF RunsStay, UInv
<1> QED
  BY <1>1, <1>3, <1>4, <1>5 DEF UInv

\* An exception ends the function below: from then on nothing is said of what
\* such functions added.
LEMMA FiledUnderThrow ==
  ASSUME SInv, SInv', UInv, thrown \in Nat, NEW t \in Threads, ConstructorThrow(t)
  PROVE  UInv'
<1>1. UNCHANGED <<cur, unloads>> /\ thrown' = thrown + 1
  BY DEF ConstructorThrow, Throw, listVars
<1>2. Quiet(t, {"Get", "Constructor", "Function"})
  BY QuietThrow
<1>3. FiledStays /\ UnloadsOK'
  BY <1>1 DEF FiledStays, Filed, UInv, UnloadsOK
<1>4. "Run" \notin {"Get", "Constructor", "Function"} /\ "AddForUnload" \notin {"Get", "Constructor", "Function"}
  OBVIOUS
<1>5. CurOK'
  BY <1>1, <1>2, <1>4, CurUnderQuiet DEF UInv
<1>6. DoneOK'
  BY <1>2, <1>3, <1>4, DoneUnderQuiet DEF UInv
<1>7. EndedOK'
  BY <1>1 DEF EndedOK
<1> QED
  BY <1>3, <1>5, <1>6, <1>7 DEF UInv

\* A library that is unloaded runs no function: what it had filed is forgotten
\* with it.
LEMMA FiledUnderUnload ==
  ASSUME SInv, RTypes, UInv, started \in [Fns -> Nat],
         NEW t \in Threads, NEW l \in Libs, UnloadLibrary(t, l)
  PROVE  UInv'
<1>1. /\ UNCHANGED <<stack, cur, thrown>>
      /\ unloads' = [unloads EXCEPT ![l] = <<>>]
      /\ \A u \in Threads : Running(u) \cap FnsOf(l) = {}
      /\ started' = [f \in Fns |-> IF f \in FnsOf(l) THEN 0 ELSE started[f]]
  BY DEF UnloadLibrary, singletonVars
<1>2. CurOK'
  BY <1>1 DEF UInv, CurOK
<1>3. \A m \in Libs : unloads'[m] = IF m = l THEN <<>> ELSE unloads[m]
  BY <1>1 DEF RTypes, VarTypes
<1>4. UnloadsOK'
  BY <1>3 DEF UInv, UnloadsOK
<1>5. ASSUME NEW f \in Fns, f \notin FnsOf(l) PROVE Filed(f) => Filed(f)'
  BY <1>3, <1>5, FunctionsHaveLibraries DEF Filed
<1>6. DoneOK'
  <2> SUFFICES ASSUME NEW u \in Threads, NEW k \in DOMAIN stack[u], stack[u][k].op = "Function",
                      NEW j \in DOMAIN Body[stack[u][k].fn],
                      j <= stack[u][k].done, Body[stack[u][k].fn][j] = AddForUnloadCall
               PROVE  Filed(stack[u][k].fn)' \/ AboutToAdd(u, k)'
    BY <1>1 DEF DoneOK
  <2>1. PICK f : f = stack[u][k].fn
    OBVIOUS
  <2>2. f \in Fns
    BY <2>1, StackOf DEF StackOK, Shaped
  <2>3. f \in Running(u)
    BY <2>1 DEF Running, Calls, Range
  <2>4. Filed(f) => Filed(f)'
    BY <1>1, <1>5, <2>2, <2>3
  <2>5. Filed(f) \/ AboutToAdd(u, k)
    BY <2>1 DEF UInv, DoneOK
  <2> QED
    BY <1>1, <2>1, <2>4, <2>5 DEF AboutToAdd
<1>7. EndedOK'
  <2> SUFFICES ASSUME thrown = 0, NEW f \in Fns, started'[f] > 0, AddsForUnload(f)
               PROVE  Filed(f)' \/ Runs(f)'
    BY <1>1 DEF EndedOK, AddsForUnload
  <2>1. f \notin FnsOf(l) /\ started[f] > 0
    BY <1>1
  <2>2. Filed(f) \/ Runs(f)
    BY <2>1 DEF UInv, EndedOK
  <2> QED
    BY <1>1, <1>5, <2>1, <2>2 DEF Runs
<1> QED
  BY <1>2, <1>4, <1>6, <1>7 DEF UInv

-----------------------------------------------------------------------------
(* What the loop over the functions of a type does. *)

RunFrame(pc, type, toRun, saved) ==
  [op |-> "Run", pc |-> pc, type |-> type, toRun |-> toRun, saved |-> saved]

\* It ends, with the list that was in use before,
LoopEnds(t, n) ==
  /\ DOMAIN stack'[t] = 1 .. n - 1
  /\ cur' = [cur EXCEPT ![t] = stack[t][n].saved]
  /\ UNCHANGED <<fns, started>>

\* takes what is in the list of its type,
LoopTakes(t, n) ==
  LET c == stack[t][n]
  IN  /\ c.type \in Types
      /\ DOMAIN stack'[t] = 1 .. n
      /\ stack'[t][n] = RunFrame("Call", c.type, fns[c.type], c.saved)
      /\ fns' = [fns EXCEPT ![c.type] = <<>>]
      /\ cur' = [cur EXCEPT ![t] = LibOf(Head(fns[c.type]))]
      /\ UNCHANGED started

\* calls the next function,
LoopCalls(t, n) ==
  LET c == stack[t][n]
      f == Head(c.toRun)
  IN  /\ c.toRun # <<>> /\ f \in Fns
      /\ DOMAIN stack'[t] = 1 .. n + 1
      /\ stack'[t][n] = RunFrame(c.pc, c.type, Tail(c.toRun), c.saved)
      /\ stack'[t][n + 1] = FunctionCall(f)
      /\ cur' = [cur EXCEPT ![t] = LibOf(f)]
      /\ started' = [started EXCEPT ![f] = @ + 1]
      /\ UNCHANGED fns

\* or takes the lock.
LoopLocks(t, n) ==
  LET c == stack[t][n]
  IN  /\ DOMAIN stack'[t] = 1 .. n
      /\ stack'[t][n] = RunFrame("Take", c.type, c.toRun, c.saved)
      /\ UNCHANGED <<fns, cur, started>>

\* Each of its steps is one of these.
LEMMA LoopFrames ==
  ASSUME SInv, RTypes, NEW t \in Threads, RunTake(t) \/ RunCallNext(t) \/ RunRelock(t),
         NEW n, n = Depth(t)
  PROVE  /\ n \in Nat /\ n >= 1 /\ DOMAIN stack[t] = 1 .. n /\ Kept(t, n - 1)
         /\ stack[t][n].op = "Run" /\ Shaped(stack[t][n])
         /\ LoopEnds(t, n) \/ LoopTakes(t, n) \/ LoopCalls(t, n) \/ LoopLocks(t, n)
         /\ UNCHANGED <<unloads, thrown, loaded, active>>
<1>1. /\ stack[t] # <<>> /\ Top(t).op = "Run" /\ n \in Nat /\ n >= 1 /\ DOMAIN stack[t] = 1 .. n
      /\ Top(t) = stack[t][n] /\ Shaped(Top(t))
  <2>1. stack[t] # <<>> /\ Top(t).op = "Run"
    BY DEF RunTake, RunCallNext, RunRelock, At
  <2> QED
    BY <2>1, StackOf
<1>2. UNCHANGED <<unloads, thrown, loaded, active>>
  BY DEF RunTake, RunCallNext, RunRelock, singletonVars, listVars, libraryVars
<1>3. PICK c : c = Top(t)
  OBVIOUS
<1>4. /\ c = RunFrame(c.pc, c.type, c.toRun, c.saved)
      /\ c.type \in Types /\ c.toRun \in Seq(Fns) /\ c.saved \in LibOrNone
  BY <1>1, <1>3 DEF Shaped, RunFrame
<1>5. OthersStay(t, n - 1) => Kept(t, n - 1) \/ ~(\A i \in 1 .. n - 1 : i \in DOMAIN stack'[t])
  BY <1>1 DEF OthersStay, Kept
<1>6. \A i \in 1 .. n - 1 : i \in 1 .. n /\ i \in 1 .. n + 1
  BY <1>1
<1>7. CASE RunTake(t) /\ fns[c.type] = <<>>
  <2>1. Leave(t) /\ cur' = [cur EXCEPT ![t] = c.saved] /\ UNCHANGED <<fns, started>>
    BY <1>3, <1>7 DEF RunTake, libraryVars
  <2>2. HasLeft(t)
    BY <1>1, <2>1, Leaves
  <2>3. Kept(t, n - 1) /\ LoopEnds(t, n)
    BY <1>1, <1>3, <1>5, <1>6, <2>1, <2>2 DEF HasLeft, LoopEnds
  <2> QED
    BY <1>1, <1>2, <2>3
<1>8. CASE RunTake(t) /\ fns[c.type] # <<>>
  <2>1. /\ Update(t, [c EXCEPT !.toRun = fns[c.type], !.pc = "Call"])
        /\ fns' = [fns EXCEPT ![c.type] = <<>>]
        /\ cur' = [cur EXCEPT ![t] = LibOf(Head(fns[c.type]))]
        /\ UNCHANGED started
    BY <1>3, <1>8 DEF RunTake, AfterTake, libraryVars
  <2>2. [c EXCEPT !.toRun = fns[c.type], !.pc = "Call"] = RunFrame("Call", c.type, fns[c.type], c.saved)
    BY <1>4, RunRecord DEF RunFrame
  <2>3. HasBecome(t, RunFrame("Call", c.type, fns[c.type], c.saved))
    BY <1>1, <2>1, <2>2, Becomes
  <2>4. Kept(t, n - 1) /\ LoopTakes(t, n)
    BY <1>1, <1>3, <1>4, <1>5, <1>6, <2>1, <2>3 DEF HasBecome, LoopTakes
  <2> QED
    BY <1>1, <1>2, <2>4
<1>9. CASE RunCallNext(t)
  <2>1. /\ Become(t, Append(Front(stack[t]), [c EXCEPT !.toRun = Tail(@)]) \o <<FunctionCall(Head(c.toRun))>>)
        /\ c.toRun # <<>>
        /\ cur' = [cur EXCEPT ![t] = LibOf(Head(c.toRun))]
        /\ started' = [started EXCEPT ![Head(c.toRun)] = @ + 1]
        /\ UNCHANGED fns
    BY <1>3, <1>9 DEF RunCallNext, Repoint, listVars
  <2>2. [c EXCEPT !.toRun = Tail(@)] = RunFrame(c.pc, c.type, Tail(c.toRun), c.saved)
    BY <1>4, RunRecord DEF RunFrame
  <2>3. HasCalled(t, RunFrame(c.pc, c.type, Tail(c.toRun), c.saved), FunctionCall(Head(c.toRun)))
    BY <1>1, <2>1, <2>2, BecomesAndCalls
  <2>4. Head(c.toRun) \in Fns
    BY <1>4, <2>1
  <2>5. Kept(t, n - 1) /\ LoopCalls(t, n)
    BY <1>1, <1>3, <1>4, <1>5, <1>6, <2>1, <2>3, <2>4 DEF HasCalled, LoopCalls
  <2> QED
    BY <1>1, <1>2, <2>5
<1>10. CASE RunRelock(t)
  <2>1. Update(t, [c EXCEPT !.pc = "Take"]) /\ UNCHANGED <<fns, cur, started>>
    BY <1>3, <1>10 DEF RunRelock, Goto, listVars, libraryVars
  <2>2. [c EXCEPT !.pc = "Take"] = RunFrame("Take", c.type, c.toRun, c.saved)
    BY <1>4 DEF RunFrame
  <2>3. HasBecome(t, RunFrame("Take", c.type, c.toRun, c.saved))
    BY <1>1, <2>1, <2>2, Becomes
  <2>4. Kept(t, n - 1) /\ LoopLocks(t, n)
    BY <1>1, <1>3, <1>5, <1>6, <2>1, <2>3 DEF HasBecome, LoopLocks
  <2> QED
    BY <1>1, <1>2, <2>4
<1> QED
  BY <1>7, <1>8, <1>9, <1>10

-----------------------------------------------------------------------------
(* What is added for unload, as functions run. *)

\* The list in use, seen from below a loop that ends,
LEMMA RestoresPop ==
  ASSUME NEW n \in Nat, n >= 1, NEW s, NEW r, DOMAIN s = 1 .. n, DOMAIN r = 1 .. n - 1,
         \A i \in 1 .. n - 1 : r[i] = s[i], s[n].op = "Run",
         NEW c, NEW k \in 1 .. n - 1, NEW l, Restores(s, c, k, l)
  PROVE  Restores(r, s[n].saved, k, l)
<1>1. n \in DOMAIN s /\ n > k /\ \A i \in 1 .. n - 1 : i \in DOMAIN s /\ i < n
  OBVIOUS
<1>2. PICK m \in DOMAIN s : /\ m > k /\ s[m].op = "Run" /\ s[m].saved = l
                            /\ \A j \in DOMAIN s : j > k /\ j < m => s[j].op # "Run"
  BY <1>1 DEF Restores
<1>3. CASE m = n
  BY <1>1, <1>2, <1>3 DEF Restores
<1>4. CASE m # n
  <2>1. m \in DOMAIN r
    BY <1>4
  <2> QED
    BY <1>1, <1>2, <2>1 DEF Restores
<1> QED
  BY <1>3, <1>4

\* from below one that goes on,
LEMMA RestoresOn ==
  ASSUME NEW n \in Nat, n >= 1, NEW s, NEW r, DOMAIN s = 1 .. n,
         \A i \in 1 .. n - 1 : i \in DOMAIN r /\ r[i] = s[i],
         \A i \in DOMAIN r : i \in Nat /\ i >= 1,
         n \in DOMAIN r, s[n].op = "Run", r[n].op = "Run", r[n].saved = s[n].saved,
         NEW c, NEW d, NEW k \in 1 .. n - 1, NEW l, Restores(s, c, k, l)
  PROVE  Restores(r, d, k, l)
<1>1. n \in DOMAIN s /\ n > k
  OBVIOUS
<1>2. PICK m \in DOMAIN s : /\ m > k /\ s[m].op = "Run" /\ s[m].saved = l
                            /\ \A j \in DOMAIN s : j > k /\ j < m => s[j].op # "Run"
  BY <1>1 DEF Restores
<1>3. m = n \/ m \in 1 .. n - 1
  OBVIOUS
<1>4. m \in DOMAIN r /\ r[m].op = "Run" /\ r[m].saved = l
  BY <1>2, <1>3
<1>5. \A j \in DOMAIN r : j < m => j \in 1 .. n - 1 /\ j \in DOMAIN s
  OBVIOUS
<1>6. \A j \in DOMAIN r : j > k /\ j < m => r[j].op # "Run"
  BY <1>2, <1>5
<1> QED
  BY <1>2, <1>4, <1>6 DEF Restores

\* and from a function that makes a call.
LEMMA RestoresPush ==
  ASSUME NEW n \in Nat, n >= 1, NEW s, NEW r, DOMAIN s = 1 .. n, DOMAIN r = 1 .. n + 1,
         \A i \in 1 .. n - 1 : r[i] = s[i], s[n].op # "Run", r[n].op # "Run", r[n + 1].op # "Run",
         NEW c, NEW k \in 1 .. n, NEW l, Restores(s, c, k, l)
  PROVE  Restores(r, c, k, l)
<1>1. /\ \A i \in DOMAIN r : i = n + 1 \/ i = n \/ i \in 1 .. n - 1
      /\ \A i \in DOMAIN s : (i = n \/ i \in 1 .. n - 1) /\ i \in DOMAIN r
      /\ \A i \in 1 .. n - 1 : i \in DOMAIN s /\ i \in DOMAIN r
  OBVIOUS
<1>2. CASE c = l /\ \A m \in DOMAIN s : m > k => s[m].op # "Run"
  BY <1>1, <1>2 DEF Restores
<1>3. ASSUME NEW m \in DOMAIN s, m > k, s[m].op = "Run", s[m].saved = l,
             \A j \in DOMAIN s : j > k /\ j < m => s[j].op # "Run"
      PROVE  Restores(r, c, k, l)
  <2>1. m \in 1 .. n - 1 /\ r[m] = s[m] /\ m \in DOMAIN r
    BY <1>1, <1>3
  <2>2. \A j \in DOMAIN r : j < m => j \in 1 .. n - 1
    BY <2>1
  <2>3. \A j \in DOMAIN r : j > k /\ j < m => r[j].op # "Run"
    BY <1>1, <1>3, <2>2
  <2> QED
    BY <1>3, <2>1, <2>3 DEF Restores
<1> QED
  BY <1>2, <1>3 DEF Restores

\* A step of the loop leaves a function the list it had, and gives its own to the
\* one it starts.
LEMMA CurUnderLoop ==
  ASSUME SInv, RTypes, CurOK, NEW t \in Threads, RunTake(t) \/ RunCallNext(t) \/ RunRelock(t)
  PROVE  CurOK'
<1>0. PICK n, c : n = Depth(t) /\ c = stack[t][n]
  OBVIOUS
<1>1. /\ n \in Nat /\ n >= 1 /\ DOMAIN stack[t] = 1 .. n /\ Kept(t, n - 1)
      /\ stack[t][n].op = "Run" /\ Shaped(stack[t][n])
      /\ LoopEnds(t, n) \/ LoopTakes(t, n) \/ LoopCalls(t, n) \/ LoopLocks(t, n)
  BY <1>0, LoopFrames
<1>2. /\ \A u \in Threads \ {t} : stack'[u] = stack[u] /\ cur'[u] = cur[u]
      /\ \A i \in 1 .. n - 1 : i \in DOMAIN stack'[t] /\ stack'[t][i] = stack[t][i] /\ i \in 1 .. n
      /\ cur \in [Threads -> LibOrNone]
  BY <1>1 DEF Kept, LoopEnds, LoopTakes, LoopCalls, LoopLocks, RTypes, VarTypes
<1>3. \A k \in 1 .. n - 1 : stack[t][k].op = "Function" =>
        Restores(stack'[t], cur'[t], k, LibOf(stack[t][k].fn))
  <2> SUFFICES ASSUME NEW k \in 1 .. n - 1, stack[t][k].op = "Function"
               PROVE  Restores(stack'[t], cur'[t], k, LibOf(stack[t][k].fn))
    OBVIOUS
  <2>0. PICK l : l = LibOf(stack[t][k].fn)
    OBVIOUS
  <2>1. Restores(stack[t], cur[t], k, l)
    BY <1>1, <1>2, <2>0 DEF CurOK
  <2>2. CASE LoopEnds(t, n)
    <3>1. cur'[t] = c.saved /\ DOMAIN stack'[t] = 1 .. n - 1
      BY <1>0, <1>2, <2>2 DEF LoopEnds
    <3> QED
      BY <1>0, <1>1, <1>2, <2>0, <2>1, <3>1, RestoresPop
  <2>3. CASE LoopTakes(t, n) \/ LoopCalls(t, n) \/ LoopLocks(t, n)
    <3>1. /\ DOMAIN stack'[t] = 1 .. n \/ DOMAIN stack'[t] = 1 .. n + 1
          /\ stack'[t][n].op = "Run" /\ stack'[t][n].saved = stack[t][n].saved
      BY <2>3 DEF LoopTakes, LoopCalls, LoopLocks, RunFrame
    <3>2. n \in DOMAIN stack'[t] /\ \A i \in DOMAIN stack'[t] : i \in Nat /\ i >= 1
      BY <1>1, <3>1
    <3>3. \A i \in 1 .. n - 1 : i \in DOMAIN stack'[t] /\ stack'[t][i] = stack[t][i]
      BY <1>2
    <3>4. Restores(stack'[t], cur'[t], k, l)
      BY <1>1, <2>1, <3>1, <3>2, <3>3, RestoresOn
    <3> QED
      BY <2>0, <3>4
  <2> QED
    BY <1>1, <2>2, <2>3
<1>4. ASSUME NEW k, k \in DOMAIN stack'[t], stack'[t][k].op = "Function"
      PROVE  Restores(stack'[t], cur'[t], k, LibOf(stack'[t][k].fn))
  <2>1. CASE k \in 1 .. n - 1
    BY <1>2, <1>3, <1>4, <2>1
  <2>2. CASE k \notin 1 .. n - 1
    <3>1. LoopCalls(t, n) /\ k = n + 1
      <4>1. ~LoopEnds(t, n)
        BY <1>4, <2>2 DEF LoopEnds
      <4>2. LoopTakes(t, n) \/ LoopLocks(t, n) => k = n /\ stack'[t][n].op = "Run"
        BY <1>1, <1>4, <2>2 DEF LoopTakes, LoopLocks, RunFrame
      <4>3. LoopCalls(t, n) => k = n + 1 \/ (k = n /\ stack'[t][n].op = "Run")
        BY <1>1, <1>4, <2>2 DEF LoopCalls, RunFrame
      <4> QED
        BY <1>1, <1>4, <4>1, <4>2, <4>3
    <3>2. cur'[t] = LibOf(stack'[t][k].fn) /\ DOMAIN stack'[t] = 1 .. n + 1
      BY <1>2, <3>1 DEF LoopCalls, FunctionCall
    <3>3. \A m \in DOMAIN stack'[t] : ~(m > k)
      BY <1>1, <3>1, <3>2
    <3> QED
      BY <3>2, <3>3 DEF Restores
  <2> QED
    BY <2>1, <2>2
<1>5. ASSUME NEW u \in Threads, NEW k, k \in DOMAIN stack'[u], stack'[u][k].op = "Function"
      PROVE  Restores(stack'[u], cur'[u], k, LibOf(stack'[u][k].fn))
  BY <1>2, <1>4, <1>5 DEF CurOK
<1> QED
  BY <1>5 DEF CurOK

\* The loop keeps the invariant.
LEMMA FiledUnderLoop ==
  ASSUME SInv, SInv', RTypes, UInv, started \in [Fns -> Nat],
         NEW t \in Threads, RunTake(t) \/ RunCallNext(t) \/ RunRelock(t)
  PROVE  UInv'
<1>0. PICK n : n = Depth(t)
  OBVIOUS
<1>1. /\ n \in Nat /\ n >= 1 /\ DOMAIN stack[t] = 1 .. n /\ Kept(t, n - 1)
      /\ stack[t][n].op = "Run" /\ Shaped(stack[t][n])
      /\ LoopEnds(t, n) \/ LoopTakes(t, n) \/ LoopCalls(t, n) \/ LoopLocks(t, n)
      /\ UNCHANGED <<unloads, thrown>>
  BY <1>0, LoopFrames
<1>2. FiledStays /\ UnloadsOK'
  BY <1>1 DEF FiledStays, Filed, UInv, UnloadsOK
<1>3. \A i \in 1 .. n : i = n \/ i \in 1 .. n - 1
  BY <1>1
<1>4. CurOK'
  BY CurUnderLoop DEF UInv
<1>5. DoneOK'
  <2>1. \A i \in DOMAIN stack[t] : i > n - 1 => stack[t][i].op # "AddForUnload"
    BY <1>1, <1>3
  <2>2. ASSUME NEW i, i \in DOMAIN stack'[t], i > n - 1, stack'[t][i].op = "Function"
        PROVE  stack'[t][i].done = 0
    <3>1. ~LoopEnds(t, n)
      BY <1>1, <2>2 DEF LoopEnds
    <3>2. LoopTakes(t, n) \/ LoopLocks(t, n) => i = n /\ stack'[t][n].op = "Run"
      BY <1>1, <2>2 DEF LoopTakes, LoopLocks, RunFrame
    <3>3. LoopCalls(t, n) => (i = n /\ stack'[t][n].op = "Run") \/ (i = n + 1 /\ stack'[t][n + 1].done = 0)
      BY <1>1, <2>2 DEF LoopCalls, RunFrame, FunctionCall
    <3> QED
      BY <1>1, <2>2, <3>1, <3>2, <3>3
  <2>3. n - 1 \in Nat
    BY <1>1
  <2> QED
    BY <1>1, <1>2, <2>1, <2>2, <2>3, DoneUnderKept DEF UInv
<1>6. \A f : Runs(f) => Runs(f)'
  <2> SUFFICES ASSUME NEW f, Runs(f) PROVE Runs(f)'
    OBVIOUS
  <2>1. PICK u \in Threads :
          \E i \in DOMAIN stack[u] : stack[u][i].op = "Function" /\ stack[u][i].fn = f
    BY DEF Runs
  <2>2. PICK i \in DOMAIN stack[u] : stack[u][i].op = "Function" /\ stack[u][i].fn = f
    BY <2>1
  <2>3. u # t \/ i \in 1 .. n - 1
    BY <1>1, <1>3, <2>2
  <2>4. i \in DOMAIN stack'[u] /\ stack'[u][i] = stack[u][i]
    BY <1>1, <2>3 DEF Kept
  <2> QED
    BY <2>2, <2>4 DEF Runs
<1>7. EndedOK'
  <2> SUFFICES ASSUME thrown = 0, NEW f \in Fns, started'[f] > 0, AddsForUnload(f)
               PROVE  Filed(f)' \/ Runs(f)'
    BY <1>1 DEF EndedOK, AddsForUnload
  <2>1. CASE started'[f] = started[f]
    BY <1>2, <1>6, <2>1 DEF UInv, EndedOK, FiledStays
  <2>2. CASE started'[f] # started[f]
    <3>1. LoopCalls(t, n) /\ stack'[t][n + 1] = FunctionCall(f) /\ n + 1 \in DOMAIN stack'[t]
      BY <1>1, <2>2 DEF LoopEnds, LoopTakes, LoopCalls, LoopLocks
    <3> QED
      BY <3>1 DEF Runs, FunctionCall
  <2> QED
    BY <2>1, <2>2
<1> QED
  BY <1>2, <1>4, <1>5, <1>7 DEF UInv

\* A registry function makes the next call of its body.
BodyCalls(t, n) ==
  LET f == stack[t][n].fn
      next == stack[t][n].done + 1
  IN  /\ next \in 1 .. Len(Body[f])
      /\ DOMAIN stack'[t] = 1 .. n + 1
      /\ stack'[t][n] = [op |-> "Function", pc |-> "Body", fn |-> f, done |-> next]
      /\ stack'[t][n + 1] = Body[f][next]

\* It is at the end of its body or does so.
LEMMA BodyFrames ==
  ASSUME SInv, NEW t \in Threads, FunctionBody(t), NEW n, n = Depth(t)
  PROVE  /\ n \in Nat /\ n >= 1 /\ DOMAIN stack[t] = 1 .. n /\ stack[t] # <<>> /\ Top(t) = stack[t][n]
         /\ stack[t][n].op = "Function" /\ stack[t][n].fn \in Fns /\ stack[t][n].done \in Nat
         /\ \/ stack[t][n].done >= Len(Body[stack[t][n].fn]) /\ Leave(t)
            \/ Kept(t, n - 1) /\ BodyCalls(t, n)
         /\ UNCHANGED <<cur, unloads, started, thrown>>
<1>1. /\ stack[t] # <<>> /\ Top(t).op = "Function" /\ n \in Nat /\ n >= 1 /\ DOMAIN stack[t] = 1 .. n
      /\ Top(t) = stack[t][n] /\ Shaped(Top(t))
  <2>1. stack[t] # <<>> /\ Top(t).op = "Function"
    BY DEF FunctionBody, At
  <2> QED
    BY <2>1, StackOf
<1>2. PICK c, f : c = Top(t) /\ f = c.fn
  OBVIOUS
<1>3. c = [op |-> "Function", pc |-> "Body", fn |-> f, done |-> c.done] /\ f \in Fns /\ c.done \in Nat
  BY <1>1, <1>2 DEF Shaped
<1>4. Body[f] \in Seq(UserCalls \cup {AddForUnloadCall})
  BY <1>3, CallsAssumption
<1>5. UNCHANGED <<cur, unloads, started, thrown>>
  BY DEF FunctionBody, listVars, libraryVars
<1>6. CASE c.done + 1 > Len(Body[f]) /\ Leave(t)
  <2>1. c.done >= Len(Body[f])
    BY <1>3, <1>4, <1>6
  <2> QED
    BY <1>1, <1>2, <1>3, <1>5, <1>6, <2>1
<1>7. CASE /\ c.done + 1 <= Len(Body[f])
           /\ Become(t, Append(Front(stack[t]), [c EXCEPT !.done = c.done + 1]) \o <<Body[f][c.done + 1]>>)
  <2>1. [c EXCEPT !.done = c.done + 1] = [op |-> "Function", pc |-> "Body", fn |-> f, done |-> c.done + 1]
    BY <1>3
  <2>2. HasCalled(t, [op |-> "Function", pc |-> "Body", fn |-> f, done |-> c.done + 1], Body[f][c.done + 1])
    BY <1>1, <1>7, <2>1, BecomesAndCalls
  <2>3. c.done + 1 \in 1 .. Len(Body[f]) /\ n - 1 \in 0 .. n /\ \A i \in 1 .. n - 1 : i \in 1 .. n + 1
    BY <1>1, <1>3, <1>4, <1>7
  <2>4. Kept(t, n - 1)
    BY <1>1, <2>2, <2>3 DEF HasCalled, OthersStay, Kept
  <2>5. BodyCalls(t, n)
    BY <1>1, <1>2, <2>2, <2>3 DEF HasCalled, BodyCalls
  <2> QED
    BY <1>1, <1>2, <1>3, <1>5, <2>4, <2>5
<1> QED
  BY <1>2, <1>6, <1>7 DEF FunctionBody

\* A function that returns has added what it adds,
LEMMA FiledUnderReturn ==
  ASSUME SInv, SInv', UInv, NEW t \in Threads, NEW n, n = Depth(t),
         stack[t] # <<>>, n \in Nat, n >= 1, DOMAIN stack[t] = 1 .. n, Top(t) = stack[t][n],
         stack[t][n].op = "Function", stack[t][n].fn \in Fns,
         stack[t][n].done >= Len(Body[stack[t][n].fn]), stack[t][n].done \in Nat, Leave(t),
         UNCHANGED <<cur, unloads, started, thrown>>
  PROVE  UInv'
<1>1. FiledStays /\ UnloadsOK'
  BY DEF FiledStays, Filed, UInv, UnloadsOK
<1>2. Quiet(t, {"Function"})
  BY QuietReturn
<1>3. CurOK' /\ DoneOK'
  BY <1>1, <1>2, CurUnderQuiet, DoneUnderQuiet DEF UInv
<1>4. HasLeft(t)
  BY Leaves
<1>5. PICK g : g = stack[t][n].fn
  OBVIOUS
<1>6. AddsForUnload(g) => Filed(g)
  <2> SUFFICES ASSUME AddsForUnload(g) PROVE Filed(g)
    OBVIOUS
  <2>1. Body[g] \in Seq(UserCalls \cup {AddForUnloadCall})
    BY <1>5, CallsAssumption
  <2>2. PICK j \in DOMAIN Body[g] : Body[g][j] = AddForUnloadCall
    BY DEF AddsForUnload, Range
  <2>3. j <= stack[t][n].done
    BY <1>5, <2>1
  <2>4. n \in DOMAIN stack[t] /\ ~AboutToAdd(t, n)
    BY DEF AboutToAdd
  <2> QED
    BY <1>5, <2>2, <2>3, <2>4 DEF UInv, DoneOK
<1>7. EndedOK'
  <2> SUFFICES ASSUME thrown = 0, NEW f \in Fns, started[f] > 0, AddsForUnload(f)
               PROVE  Filed(f)' \/ Runs(f)'
    BY DEF EndedOK, AddsForUnload
  <2>1. CASE Filed(f)
    BY <1>1, <2>1 DEF FiledStays
  <2>2. CASE Runs(f)
    <3>1. PICK u \in Threads :
            \E i \in DOMAIN stack[u] : stack[u][i].op = "Function" /\ stack[u][i].fn = f
      BY <2>2 DEF Runs
    <3>2. PICK i \in DOMAIN stack[u] : stack[u][i].op = "Function" /\ stack[u][i].fn = f
      BY <3>1
    <3>3. CASE u = t /\ i = n
      BY <1>1, <1>5, <1>6, <3>2, <3>3 DEF FiledStays
    <3>4. CASE u # t \/ i # n
      <4>1. i \in DOMAIN stack'[u] /\ stack'[u][i] = stack[u][i]
        BY <1>4, <3>4 DEF HasLeft, OthersStay
      <4> QED
        BY <3>2, <4>1 DEF Runs
    <3> QED
      BY <3>3, <3>4
  <2> QED
    BY <2>1, <2>2 DEF UInv, EndedOK
<1> QED
  BY <1>1, <1>3, <1>7 DEF UInv

\* and one that makes a call may be about to.
LEMMA FiledUnderBody ==
  ASSUME SInv, SInv', UInv, NEW t \in Threads, FunctionBody(t)
  PROVE  UInv'
<1>0. PICK n, f : n = Depth(t) /\ f = stack[t][n].fn
  OBVIOUS
<1>1. /\ n \in Nat /\ n >= 1 /\ DOMAIN stack[t] = 1 .. n /\ stack[t] # <<>> /\ Top(t) = stack[t][n]
      /\ stack[t][n].op = "Function" /\ stack[t][n].fn \in Fns /\ stack[t][n].done \in Nat
      /\ \/ stack[t][n].done >= Len(Body[stack[t][n].fn]) /\ Leave(t)
         \/ Kept(t, n - 1) /\ BodyCalls(t, n)
      /\ UNCHANGED <<cur, unloads, started, thrown>>
  BY <1>0, BodyFrames
<1>2. CASE stack[t][n].done >= Len(Body[stack[t][n].fn]) /\ Leave(t)
  BY <1>0, <1>1, <1>2, FiledUnderReturn
<1>3. CASE Kept(t, n - 1) /\ BodyCalls(t, n)
  <2>1. FiledStays /\ UnloadsOK'
    BY <1>1 DEF FiledStays, Filed, UInv, UnloadsOK
  <2>2. PICK d, next : d = Body[f][next] /\ next = stack[t][n].done + 1
    OBVIOUS
  <2>3. /\ DOMAIN stack'[t] = 1 .. n + 1 /\ next \in DOMAIN Body[f] /\ next \in Nat
        /\ stack'[t][n] = [op |-> "Function", pc |-> "Body", fn |-> f, done |-> next]
        /\ stack'[t][n + 1] = d /\ d.op # "Run" /\ d.op # "Function"
    <3>1. Body[f] \in Seq(UserCalls \cup {AddForUnloadCall})
      BY <1>0, <1>1, CallsAssumption
    <3>2. /\ DOMAIN stack'[t] = 1 .. n + 1 /\ next \in 1 .. Len(Body[f])
          /\ stack'[t][n] = [op |-> "Function", pc |-> "Body", fn |-> f, done |-> next]
          /\ stack'[t][n + 1] = d
      BY <1>0, <1>3, <2>2 DEF BodyCalls
    <3>3. d \in UserCalls \cup {AddForUnloadCall}
      BY <2>2, <3>1, <3>2
    <3>4. d.op # "Run" /\ d.op # "Function"
      BY <3>3, UserCallsAreHarmless DEF Harmless
    <3> QED
      BY <3>1, <3>2, <3>4
  <2>4. /\ \A u \in Threads \ {t} : stack'[u] = stack[u]
        /\ \A i \in 1 .. n - 1 : i \in DOMAIN stack'[t] /\ stack'[t][i] = stack[t][i] /\ i \in 1 .. n
        /\ \A i \in 1 .. n : i = n \/ i \in 1 .. n - 1
        /\ \A i \in 1 .. n + 1 : i = n + 1 \/ i = n \/ i \in 1 .. n - 1
        /\ n \in 1 .. n /\ n + 1 \in 1 .. n + 1 /\ n \in 1 .. n + 1
    BY <1>1, <1>3 DEF Kept
  <2>5. \A k \in 1 .. n - 1 : AboutToAdd(t, k) => AboutToAdd(t, k)'
    <3> SUFFICES ASSUME NEW k \in 1 .. n - 1, k + 1 \in DOMAIN stack[t], stack[t][k + 1].op = "AddForUnload"
                 PROVE  k + 1 \in DOMAIN stack'[t] /\ stack'[t][k + 1].op = "AddForUnload"
      BY DEF AboutToAdd
    <3>1. k + 1 # n
      BY <1>1
    <3>2. k + 1 \in 1 .. n - 1
      BY <1>1, <3>1
    <3> QED
      BY <2>4, <3>2
  <2>6. CurOK'
    <3>1. ASSUME NEW k, k \in DOMAIN stack'[t], stack'[t][k].op = "Function"
          PROVE  Restores(stack'[t], cur[t], k, LibOf(stack'[t][k].fn))
      <4>1. k \in 1 .. n /\ stack[t][k].op = "Function" /\ stack'[t][k].fn = stack[t][k].fn
        <5>1. k # n + 1
          BY <2>3, <3>1
        <5>2. k = n \/ k \in 1 .. n - 1
          BY <2>3, <2>4, <3>1, <5>1
        <5>3. stack'[t][n].fn = stack[t][n].fn
          BY <1>0, <2>3
        <5> QED
          BY <1>1, <2>4, <3>1, <5>2, <5>3
      <4>2. PICK l : l = LibOf(stack[t][k].fn)
        OBVIOUS
      <4>3. Restores(stack[t], cur[t], k, l)
        BY <1>1, <4>1, <4>2 DEF UInv, CurOK
      <4>4. Restores(stack'[t], cur[t], k, l)
        <5>1. stack[t][n].op # "Run" /\ stack'[t][n].op # "Run" /\ stack'[t][n + 1].op # "Run"
          BY <1>1, <2>3
        <5>2. \A i \in 1 .. n - 1 : stack'[t][i] = stack[t][i]
          BY <2>4
        <5> QED
          BY <1>1, <2>3, <4>1, <4>3, <5>1, <5>2, RestoresPush
      <4> QED
        BY <4>1, <4>2, <4>4
    <3>2. ASSUME NEW u \in Threads, NEW k, k \in DOMAIN stack'[u], stack'[u][k].op = "Function"
          PROVE  Restores(stack'[u], cur[u], k, LibOf(stack'[u][k].fn))
      BY <2>4, <3>1, <3>2 DEF UInv, CurOK
    <3> QED
      BY <1>1, <3>2 DEF CurOK
  <2>7. DoneOK'
    <3> SUFFICES ASSUME NEW u \in Threads, NEW k, k \in DOMAIN stack'[u], stack'[u][k].op = "Function",
                        NEW g, g = stack'[u][k].fn, NEW j \in DOMAIN Body[g],
                        j <= stack'[u][k].done, Body[g][j] = AddForUnloadCall
                 PROVE  Filed(g)' \/ AboutToAdd(u, k)'
      BY DEF DoneOK, Filed, AboutToAdd
    <3>1. CASE u # t
      <4>1. k \in DOMAIN stack[u] /\ stack'[u] = stack[u]
        BY <2>4, <3>1
      <4>2. Filed(g) \/ AboutToAdd(u, k)
        BY <4>1 DEF UInv, DoneOK
      <4> QED
        BY <1>1, <4>1, <4>2 DEF Filed, AboutToAdd
    <3>2. CASE u = t /\ k \in 1 .. n - 1
      <4>1. k \in DOMAIN stack[u] /\ stack'[u][k] = stack[u][k]
        BY <1>1, <2>4, <3>2
      <4>2. Filed(g) \/ AboutToAdd(u, k)
        BY <4>1 DEF UInv, DoneOK
      <4> QED
        BY <1>1, <2>5, <3>2, <4>2 DEF Filed
    <3>3. CASE u = t /\ k = n
      <4>1. g = f /\ stack'[u][k].done = next
        BY <2>3, <3>3
      <4>2. CASE j = next
        BY <2>2, <2>3, <2>4, <3>3, <4>1, <4>2 DEF AboutToAdd, AddForUnloadCall
      <4>3. CASE j # next
        <5>1. j <= stack[t][n].done
          <6>1. Body[f] \in Seq(UserCalls \cup {AddForUnloadCall})
            BY <1>0, <1>1, CallsAssumption
          <6> QED
            BY <1>1, <2>2, <4>1, <4>3, <6>1
        <5>2. ~AboutToAdd(t, n)
          BY <1>1 DEF AboutToAdd
        <5>3. Filed(f)
          BY <1>0, <1>1, <4>1, <5>1, <5>2 DEF UInv, DoneOK
        <5> QED
          BY <1>1, <4>1, <5>3 DEF Filed
      <4> QED
        BY <4>2, <4>3
    <3> QED
      BY <2>3, <2>4, <3>1, <3>2, <3>3
  <2>8. EndedOK'
    <3> SUFFICES ASSUME thrown = 0, NEW g \in Fns, started[g] > 0, AddsForUnload(g)
                 PROVE  Filed(g)' \/ Runs(g)'
      BY <1>1 DEF EndedOK, AddsForUnload
    <3>1. CASE Filed(g)
      BY <2>1, <3>1 DEF FiledStays
    <3>2. CASE Runs(g)
      <4>1. PICK u \in Threads :
              \E i \in DOMAIN stack[u] : stack[u][i].op = "Function" /\ stack[u][i].fn = g
        BY <3>2 DEF Runs
      <4>2. PICK i \in DOMAIN stack[u] : stack[u][i].op = "Function" /\ stack[u][i].fn = g
        BY <4>1
      <4>3. i \in DOMAIN stack'[u] /\ stack'[u][i].op = "Function" /\ stack'[u][i].fn = g
        <5>1. stack'[t][n].op = "Function" /\ stack'[t][n].fn = f
          BY <2>3
        <5>2. u # t \/ i = n \/ i \in 1 .. n - 1
          BY <1>1, <2>4, <4>2
        <5>3. CASE u # t
          BY <2>4, <4>2, <5>3
        <5>4. CASE u = t /\ i = n
          BY <1>0, <2>3, <2>4, <4>2, <5>1, <5>4
        <5>5. CASE u = t /\ i \in 1 .. n - 1
          BY <2>4, <4>2, <5>5
        <5> QED
          BY <5>2, <5>3, <5>4, <5>5
      <4> QED
        BY <4>3 DEF Runs
    <3> QED
      BY <3>1, <3>2 DEF UInv, EndedOK
  <2> QED
    BY <2>1, <2>6, <2>7, <2>8 DEF UInv
<1> QED
  BY <1>1, <1>2, <1>3

\* What it adds goes to its own library.
LEMMA FiledUnderAdd ==
  ASSUME SInv, SInv', RTypes, UInv, NEW t \in Threads, AddFunctionForUnload(t)
  PROVE  UInv'
<1>0. PICK n, f : n = Depth(t) /\ f = stack[t][n - 1].fn
  OBVIOUS
<1>1. /\ stack[t] # <<>> /\ Top(t).op = "AddForUnload" /\ Leave(t)
      /\ UNCHANGED <<cur, started, thrown>>
      /\ unloads' = [l \in Libs |-> IF l = cur[t] THEN Append(unloads[l], f) ELSE unloads[l]]
  BY <1>0 DEF AddFunctionForUnload, At, Depth, singletonVars, libraryVars
<1>2. /\ n \in Nat /\ DOMAIN stack[t] = 1 .. n /\ Len(stack[t]) = n /\ Top(t) = stack[t][n] /\ n >= 1
      /\ StackOK(stack[t])
  BY <1>0, <1>1, StackOf DEF Depth
<1>3. n >= 2
  <2>1. n # 1
    BY <1>1, <1>2 DEF StackOK, Inner
  <2> QED
    BY <1>2, <2>1
<1>4. n - 1 \in 1 .. n - 1 /\ n = (n - 1) + 1 /\ n - 1 \in 1 .. n /\ n \in 1 .. n
  BY <1>2, <1>3
<1>5. stack[t][n - 1].op = "Function" /\ f \in Fns
  <2>1. stack[t][n - 1].op = "Function" /\ Shaped(stack[t][n - 1])
    BY <1>1, <1>2, <1>4 DEF StackOK, MayMake
  <2> QED
    BY <1>0, <2>1 DEF Shaped
<1>6. LibOf(f) \in Libs /\ f \in FnsOf(LibOf(f))
  BY <1>5, FunctionsHaveLibraries
<1>7. cur[t] = LibOf(f)
  <2>1. PICK l : l = LibOf(f)
    OBVIOUS
  <2>2. Restores(stack[t], cur[t], n - 1, l)
    BY <1>0, <1>2, <1>4, <1>5, <2>1 DEF UInv, CurOK
  <2>3. \A m \in 1 .. n : m > n - 1 => m = n
    BY <1>2
  <2> QED
    BY <1>1, <1>2, <2>1, <2>2, <2>3 DEF Restores
<1>8. \A l \in Libs : unloads[l] \in Seq(Fns)
  BY DEF RTypes, VarTypes
<1>9. /\ \A l \in Libs : l # LibOf(f) => unloads'[l] = unloads[l]
      /\ unloads'[LibOf(f)] = Append(unloads[LibOf(f)], f)
  BY <1>1, <1>6, <1>7
<1>10. UnloadsOK'
  <2> SUFFICES ASSUME NEW l \in Libs, NEW i, i \in DOMAIN unloads'[l] PROVE unloads'[l][i] \in FnsOf(l)
    BY DEF UnloadsOK
  <2>1. CASE l = LibOf(f)
    <3>1. PICK s : s = unloads[l] /\ s \in Seq(Fns)
      BY <1>8
    <3>2. unloads'[l] = Append(s, f)
      BY <1>9, <2>1, <3>1
    <3>3. i \in DOMAIN s \/ unloads'[l][i] = f
      BY <1>5, <3>1, <3>2
    <3>4. i \in DOMAIN s => unloads'[l][i] = s[i]
      BY <1>5, <3>1, <3>2
    <3> QED
      BY <1>6, <2>1, <3>1, <3>3, <3>4 DEF UInv, UnloadsOK
  <2>2. CASE l # LibOf(f)
    BY <1>9, <2>2 DEF UInv, UnloadsOK
  <2> QED
    BY <2>1, <2>2
<1>11. Filed(f)'
  <2>1. PICK s : s = unloads[LibOf(f)] /\ s \in Seq(Fns)
    BY <1>6, <1>8
  <2>2. unloads'[LibOf(f)] = Append(s, f)
    BY <1>9, <2>1
  <2>3. Len(s) + 1 \in DOMAIN Append(s, f) /\ Append(s, f)[Len(s) + 1] = f
    BY <1>5, <2>1
  <2> QED
    BY <2>2, <2>3 DEF Filed, Range
<1>12. FiledStays
  <2> SUFFICES ASSUME NEW g \in Fns, Filed(g) PROVE Filed(g)'
    BY DEF FiledStays
  <2>1. LibOf(g) \in Libs
    BY FunctionsHaveLibraries
  <2>2. CASE LibOf(g) = LibOf(f)
    <3>1. PICK s : s = unloads[LibOf(f)] /\ s \in Seq(Fns)
      BY <1>6, <1>8
    <3>2. unloads'[LibOf(g)] = Append(s, f)
      BY <1>9, <2>2, <3>1
    <3>3. PICK i \in DOMAIN s : s[i] = g
      BY <2>2, <3>1 DEF Filed, Range
    <3>4. i \in DOMAIN Append(s, f) /\ Append(s, f)[i] = g
      BY <1>5, <3>1, <3>3
    <3> QED
      BY <3>2, <3>4 DEF Filed, Range
  <2>3. CASE LibOf(g) # LibOf(f)
    BY <1>9, <2>1, <2>3 DEF Filed
  <2> QED
    BY <2>2, <2>3
<1>13. Quiet(t, {"AddForUnload"}) /\ HasLeft(t)
  BY <1>1, QuietReturn, Leaves
<1>14. CurOK'
  BY <1>1, <1>13, CurUnderQuiet DEF UInv
<1>15. EndedOK'
  BY <1>1, <1>12, <1>13, EndedUnderQuiet DEF UInv
<1>16. DoneOK'
  <2> SUFFICES ASSUME NEW u \in Threads, NEW k, k \in DOMAIN stack'[u], stack'[u][k].op = "Function",
                      NEW g, g = stack'[u][k].fn, NEW j \in DOMAIN Body[g],
                      j <= stack'[u][k].done, Body[g][j] = AddForUnloadCall
               PROVE  Filed(g)' \/ AboutToAdd(u, k)'
    BY DEF DoneOK, Filed, AboutToAdd
  <2>1. /\ DOMAIN stack'[t] = 1 .. n - 1 /\ \A v \in Threads \ {t} : stack'[v] = stack[v]
        /\ \A i \in 1 .. n - 1 : stack'[t][i] = stack[t][i] /\ i \in DOMAIN stack[t]
    BY <1>0, <1>2, <1>13 DEF HasLeft, OthersStay
  <2>2. k \in DOMAIN stack[u] /\ stack'[u][k] = stack[u][k] /\ Shaped(stack[u][k])
    <3>1. k \in DOMAIN stack[u] /\ stack'[u][k] = stack[u][k]
      BY <2>1
    <3> QED
      BY <3>1 DEF SInv, StacksOK, StackOK
  <2>3. g \in Fns /\ (Filed(g) \/ AboutToAdd(u, k))
    BY <2>2 DEF UInv, DoneOK, Shaped
  <2>4. CASE Filed(g)
    BY <1>12, <2>3, <2>4 DEF FiledStays
  <2>5. CASE AboutToAdd(u, k) /\ u # t
    BY <2>1, <2>5 DEF AboutToAdd
  <2>6. CASE AboutToAdd(u, k) /\ u = t /\ k = n - 1
    BY <1>0, <1>11, <2>2, <2>6
  <2>7. CASE AboutToAdd(u, k) /\ u = t /\ k # n - 1
    <3>1. k \in 1 .. n /\ k + 1 \in 1 .. n /\ stack[t][k + 1].op = "AddForUnload"
      BY <1>2, <2>2, <2>7 DEF AboutToAdd
    <3>2. k + 1 \in 1 .. n - 1
      BY <1>2, <2>7, <3>1
    <3> QED
      BY <2>1, <2>7, <3>1, <3>2 DEF AboutToAdd
  <2> QED
    BY <2>3, <2>4, <2>5, <2>6, <2>7
<1> QED
  BY <1>10, <1>14, <1>15, <1>16 DEF UInv

-----------------------------------------------------------------------------
(* The counters, and all the types. *)

Counters ==
  /\ thrown \in 0 .. MaxThrows /\ loaded \subseteq Libs /\ loads \in [Libs -> 0 .. MaxLoads]
  /\ started \in [Fns -> Nat] /\ budget \in [Threads -> 0 .. MaxCalls]
  /\ ref = [t \in Threads |-> ref[t]]

\* Every step keeps them.
LEMMA CountersKept ==
  ASSUME SInv, Counters, [Next]_vars
  PROVE  Counters'
<1> DEFINE Rest == UNCHANGED <<thrown, loaded, loads, started, budget>>
           RefStays == ref' = ref \/ \E t \in Threads : \E o : ref' = [ref EXCEPT ![t] = o]
<1>1. Rest /\ RefStays => Counters'
  BY DEF Counters
<1>2. ASSUME NEW t \in Threads, OfSingleton(t) PROVE Rest /\ RefStays
  <2>1. thrown' = thrown /\ SingletonStep(t)
    BY <1>2, SingletonIsQuiet DEF OfSingleton
  <2>2. RefStays
    BY <2>1 DEF SingletonStep, GetLoad, GetOwner, GetExchange, GetCheck, GetPublish, GetClear, GetWait,
      GetReload, Declare, ConstructorReturn, DeleteLoad, DeleteSwap, Destroy, DeleteReset, singletonVars,
      ReturnReference
  <2> QED
    BY <1>2, <2>1, <2>2 DEF OfSingleton, libraryVars
<1>3. ASSUME NEW t \in Threads,
             \/ ConstructorSubscribe(t) \/ DestructorUnsubscribe(t) \/ SubscribeLock(t)
             \/ SubscribeInsert(t) \/ SubscribeUnlock(t) \/ UpdateNext(t) \/ RunTake(t) \/ RunRelock(t)
             \/ AddFunctionForUnload(t) \/ LoadAdd(t) \/ LoadActivate(t) \/ LoadGlobal(t)
      PROVE  Rest /\ RefStays
  BY <1>3 DEF ConstructorSubscribe, DestructorUnsubscribe, SubscribeLock, SubscribeInsert,
    SubscribeUnlock, UnlockAndLeave, UpdateNext, RunTake, RunRelock, AddFunctionForUnload, LoadAdd,
    LoadActivate, LoadGlobal, LockAndProcess, singletonVars, libraryVars
<1>4. ASSUME NEW t \in Threads, FunctionBody(t) \/ Drop(t) PROVE Rest /\ RefStays
  BY <1>4 DEF FunctionBody, Drop, libraryVars
<1>5. ASSUME NEW t \in Threads, RunCallNext(t) PROVE Counters'
  <2>1. /\ UNCHANGED <<thrown, loaded, loads, budget, ref>>
        /\ \E f : started' = [started EXCEPT ![f] = @ + 1]
    BY <1>5 DEF RunCallNext, singletonVars
  <2>2. PICK f : started' = [started EXCEPT ![f] = started[f] + 1]
    BY <2>1
  <2>3. started \in [Fns -> Nat]
    BY DEF Counters
  <2>4. f \in Fns => started[f] + 1 \in Nat
    BY <2>3
  <2>5. started' = [g \in Fns |-> IF g = f THEN started[f] + 1 ELSE started[g]]
    BY <2>2, <2>3
  <2>6. started' \in [Fns -> Nat]
    BY <2>3, <2>4, <2>5
  <2> QED
    BY <2>1, <2>6 DEF Counters
<1>6. ASSUME NEW t \in Threads, LoadOpen(t) PROVE Counters'
  <2>1. /\ UNCHANGED <<thrown, loaded, started, budget, ref>>
        /\ \/ loads' = loads
           \/ \E l : loads[l] < MaxLoads /\ loads' = [loads EXCEPT ![l] = @ + 1]
    BY <1>6 DEF LoadOpen, singletonVars
  <2>2. loads' \in [Libs -> 0 .. MaxLoads]
    <3>1. loads \in [Libs -> 0 .. MaxLoads] /\ MaxLoads \in Nat
      BY RegistryAssumption DEF Counters
    <3> QED
      BY <2>1, <3>1
  <2> QED
    BY <2>1, <2>2 DEF Counters
<1>7. ASSUME NEW t \in Threads, LoadClose(t) \/ LoadUnlock(t) PROVE Counters'
  <2>1. Top(t).lib \in Libs
    <3>1. stack[t] # <<>> /\ Top(t).op = "Load"
      BY <1>7 DEF LoadClose, LoadUnlock, At
    <3> QED
      BY <3>1, StackOf DEF Shaped
  <2>2. /\ UNCHANGED <<thrown, loads, started, budget, ref>>
        /\ loaded' = loaded \/ loaded' = loaded \cup {Top(t).lib}
    BY <1>7 DEF LoadClose, LoadUnlock, LockAndProcess, singletonVars, libraryVars
  <2> QED
    BY <2>1, <2>2 DEF Counters
<1>8. ASSUME NEW t \in Threads, ConstructorThrow(t) PROVE Counters'
  BY <1>8, SingletonAssumption DEF ConstructorThrow, Throw, Counters, libraryVars
<1>9. ASSUME NEW t \in Threads, NEW c, Begin(t, c) PROVE Counters'
  BY <1>9, RegistryAssumption DEF Begin, Counters, libraryVars, singletonVars
<1>10. ASSUME NEW t \in Threads, NEW l \in Libs, UnloadLibrary(t, l) PROVE Counters'
  <2>1. /\ UNCHANGED <<thrown, loads, ref>> /\ loaded' = loaded \ {l}
        /\ started' = [f \in Fns |-> IF f \in FnsOf(l) THEN 0 ELSE started[f]]
        /\ budget[t] > 0 /\ budget' = [budget EXCEPT ![t] = @ - 1]
    BY <1>10 DEF UnloadLibrary, singletonVars
  <2>2. started' \in [Fns -> Nat] /\ loaded' \subseteq Libs
    BY <2>1 DEF Counters
  <2>3. budget' \in [Threads -> 0 .. MaxCalls]
    BY <2>1, RegistryAssumption DEF Counters
  <2> QED
    BY <2>1, <2>2, <2>3 DEF Counters
<1>11. ASSUME UNCHANGED vars PROVE Rest /\ RefStays
  BY <1>11 DEF vars, singletonVars, libraryVars
<1> HIDE DEF Rest, RefStays
<1>12. ASSUME NEW t \in Threads, Step(t) PROVE Counters'
  BY <1>1, <1>2, <1>3, <1>4, <1>5, <1>6, <1>7, <1>12 DEF Step
<1> QED
  BY <1>1, <1>8, <1>9, <1>10, <1>11, <1>12 DEF Next, BeginCall, BeginDelete

\* A state with these invariants has the types.
LEMMA TypesFollow == SInv /\ RTypes /\ Flag /\ Counters => TypeOK
<1> SUFFICES ASSUME SInv, RTypes, Flag, Counters PROVE TypeOK
  OBVIOUS
<1>1. ASSUME NEW t \in Threads PROVE stack[t] \in Seq(Calls(t)) /\ \A c \in Calls(t) : c.op \in Ops
  <2>1. StackOK(stack[t])
    BY StackOf
  <2>2. PICK S : stack[t] \in Seq(S)
    BY <2>1 DEF StackOK, IsList
  <2>3. \A i \in 1 .. Len(stack[t]) : stack[t][i] \in Calls(t)
    BY <2>2 DEF Calls, Range
  <2>4. stack[t] \in Seq(Calls(t))
    BY <2>2, <2>3
  <2> QED
    BY <2>1, <2>4 DEF Calls, Range, StackOK, Shaped
<1>2. instance \in 0 .. made
  BY DEF SInv, Published
<1>3. ref \in [Threads -> 0 .. made]
  <2>1. /\ made \in Nat /\ alive \subseteq 1 .. made
        /\ \A t \in Threads : ref[t] # 0 => ref[t] \in alive
    BY SingletonAssumption DEF SInv, RefsOK, RefOK
  <2>2. ASSUME NEW t \in Threads PROVE ref[t] \in 0 .. made
    <3>1. ref[t] # 0 => ref[t] \in 1 .. made
      BY <2>1
    <3> QED
      BY <2>1, <3>1
  <2> QED
    BY <2>2 DEF Counters
<1>4. IsInjective(ordered)
  BY DEF RTypes, VarTypes, IsInjective
<1> QED
  BY <1>1, <1>2, <1>3, <1>4 DEF TypeOK, SInv, RTypes, VarTypes, Flag, Counters, LibOrNone

\* Every step files what is added.
LEMMA StepsFile ==
  ASSUME SInv, SInv', RTypes, Counters, UInv, [Next]_vars
  PROVE  UInv'
<1>1. CASE UNCHANGED vars
  BY <1>1 DEF vars, singletonVars, listVars, libraryVars, UInv, CurOK, DoneOK, EndedOK, UnloadsOK, Filed,
    AddsForUnload, AboutToAdd, Runs
<1>2. thrown \in Nat /\ started \in [Fns -> Nat]
  BY SingletonAssumption DEF Counters
<1>3. ASSUME NEW t \in Threads, OfSingleton(t) PROVE UInv'
  BY <1>3, SingletonIsQuiet, FiledUnderQuiet DEF OfSingleton, RunsStay, listVars, libraryVars
<1>4. ASSUME NEW t \in Threads, Step(t) PROVE UInv'
  BY <1>2, <1>3, <1>4, SubscribersAreQuiet, LoadIsQuiet, BeginIsQuiet, FiledUnderQuiet, FiledUnderLoop,
    FiledUnderBody, FiledUnderAdd DEF Step
<1>5. ASSUME NEW t \in Threads, ConstructorThrow(t) PROVE UInv'
  BY <1>2, <1>5, FiledUnderThrow
<1>6. ASSUME NEW t \in Threads, BeginCall(t) \/ BeginDelete(t) PROVE UInv'
  BY <1>6, BeginIsQuiet, FiledUnderQuiet
<1>7. ASSUME NEW t \in Threads, NEW l \in Libs, UnloadLibrary(t, l) PROVE UInv'
  BY <1>2, <1>7, FiledUnderUnload
<1> QED
  BY <1>1, <1>4, <1>5, <1>6, <1>7 DEF Next

\* A function belongs to one library.
LEMMA LibraryOf ==
  ASSUME NEW l \in Libs, NEW f \in FnsOf(l)
  PROVE  f \in Fns /\ LibOf(f) = l
<1>1. PICK i \in DOMAIN Adds[l] : Adds[l][i] = f
  BY DEF FnsOf, Range
<1>2. Adds[l] \in Seq(Fns)
  BY RegistryAssumption
<1>3. f \in Fns
  BY <1>1, <1>2
<1>4. LibOf(f) \in Libs /\ f \in FnsOf(LibOf(f))
  BY <1>3, FunctionsHaveLibraries
<1>5. PICK m : m = LibOf(f)
  OBVIOUS
<1>6. PICK j \in DOMAIN Adds[m] : Adds[m][j] = f
  BY <1>4, <1>5 DEF FnsOf, Range
<1> QED
  BY <1>1, <1>3, <1>4, <1>5, <1>6, FunctionsAssumption

\* What is filed is what should be.
LEMMA FiledFollows == UInv => FiledForUnload
<1> SUFFICES ASSUME UInv, NEW l \in Libs
             PROVE  /\ Range(unloads[l]) \subseteq FnsOf(l)
                    /\ thrown = 0 => \A f \in EndedFns(l) :
                         AddForUnloadCall \in Range(Body[f]) => f \in Range(unloads[l])
  BY DEF FiledForUnload
<1>1. Range(unloads[l]) \subseteq FnsOf(l)
  BY DEF UInv, UnloadsOK, Range
<1>2. ASSUME thrown = 0, NEW f \in EndedFns(l), AddForUnloadCall \in Range(Body[f])
      PROVE  f \in Range(unloads[l])
  <2>1. f \in FnsOf(l) /\ started[f] > 0 /\ \A t \in Threads : f \notin Running(t)
    BY DEF EndedFns
  <2>2. f \in Fns /\ LibOf(f) = l
    BY <2>1, LibraryOf
  <2>3. ~Runs(f)
    BY <2>1 DEF Runs, Running, Calls, Range
  <2> QED
    BY <1>2, <2>1, <2>2, <2>3 DEF UInv, EndedOK, AddsForUnload, Filed
<1> QED
  BY <1>1, <1>2

\* The types of RegistryManager: stacks, counters and lists.
THEOREM RegistryTypes == Spec => []TypeOK
<1>1. Init => Counters
  BY RegistryAssumption, SingletonAssumption DEF Init, SingletonInit, Counters
<1>2. SInv /\ Counters /\ [Next]_vars => Counters'
  BY CountersKept
<1> QED
  BY <1>1, <1>2, TypesFollow, InitializationInvariant, PTL DEF Spec

\* A function added for unload goes to the library of the function that adds it,
\* over the calls that this one makes in between, and it is not lost.
THEOREM UnloadFunctionsAreFiled == Spec => []FiledForUnload
<1>1. Init => Counters
  BY RegistryAssumption, SingletonAssumption DEF Init, SingletonInit, Counters
<1>2. Init => UInv
  BY DEF Init, SingletonInit, UInv, CurOK, DoneOK, EndedOK, UnloadsOK
<1>3. SInv /\ Counters /\ [Next]_vars => Counters'
  BY CountersKept
<1>4. SInv /\ SInv' /\ RTypes /\ Counters /\ UInv /\ [Next]_vars => UInv'
  BY StepsFile
<1> QED
  BY <1>1, <1>2, <1>3, <1>4, FiledFollows, InitializationInvariant, PTL DEF Spec

-----------------------------------------------------------------------------
(* Steps that leave the functions where they wait. *)

\* What loops have taken, and what runs, was there before.
CodeStays(t) ==
  /\ DOMAIN stack' = Threads /\ \A u \in Threads \ {t} : stack'[u] = stack[u]
  /\ \A i \in DOMAIN stack'[t] : stack'[t][i].op = "Run" =>
       \/ stack'[t][i].toRun = <<>>
       \/ /\ i \in DOMAIN stack[t] /\ stack[t][i].op = "Run"
          /\ stack'[t][i].toRun = stack[t][i].toRun
  /\ \A i \in DOMAIN stack'[t] : stack'[t][i].op = "Function" =>
       \E j \in DOMAIN stack[t] : stack[t][j].op = "Function" /\ stack[t][j].fn = stack'[t][i].fn

\* Active libraries are left as they were, or nobody's.
ActiveStays == \A u \in Threads : active'[u].fns = active[u].fns \/ active'[u].fns = <<>>

AddedStays == \A f \in Fns : Added(f) => Added(f)'

\* The libraries that are being loaded still are, and have added no less.
LoadsLast(t) ==
  \A i \in DOMAIN stack[t] : Loading(stack[t][i]) =>
    /\ i \in DOMAIN stack'[t] /\ Loading(stack'[t][i]) /\ stack'[t][i].lib = stack[t][i].lib
    /\ stack'[t][i].added >= stack[t][i].added

\* No others are.
LoadsGoOn(t) ==
  /\ LoadsLast(t)
  /\ \A i \in DOMAIN stack'[t] : Loading(stack'[t][i]) =>
       i \in DOMAIN stack[t] /\ Loading(stack[t][i]) /\ stack'[t][i].lib = stack[t][i].lib

\* What lies somewhere lay there,
LEMMA LiesBack ==
  ASSUME NEW t \in Threads, CodeStays(t), UNCHANGED fns, ActiveStays,
         NEW f, NEW p, NEW a, NEW i, Lies(f, p, a, i)'
  PROVE  Lies(f, p, a, i)
<1>1. CASE p = "List" /\ a \in Types /\ i = 0 /\ f \in Range(fns'[a])
  BY <1>1 DEF Lies
<1>2. CASE p = "Active" /\ a \in Threads /\ i = 0 /\ f \in Range(active'[a].fns)
  <2>1. active'[a].fns = active[a].fns
    BY <1>2 DEF ActiveStays, Range
  <2> QED
    BY <1>2, <2>1 DEF Lies
<1>3. CASE /\ p = "Loop" /\ a \in Threads /\ i \in DOMAIN stack'[a]
           /\ stack'[a][i].op = "Run" /\ f \in Range(stack'[a][i].toRun)
  <2>1. stack'[a][i].toRun # <<>>
    BY <1>3 DEF Range
  <2>2. i \in DOMAIN stack[a] /\ stack[a][i].op = "Run" /\ stack'[a][i].toRun = stack[a][i].toRun
    BY <1>3, <2>1 DEF CodeStays
  <2> QED
    BY <1>3, <2>2 DEF Lies
<1> QED
  BY <1>1, <1>2, <1>3 DEF Lies

\* and what runs ran.
LEMMA RunsBack ==
  ASSUME NEW t \in Threads, CodeStays(t), NEW f, Runs(f)'
  PROVE  Runs(f)
<1>1. PICK u \in Threads :
        \E i \in DOMAIN stack'[u] : stack'[u][i].op = "Function" /\ stack'[u][i].fn = f
  BY DEF Runs
<1>2. CASE u # t
  BY <1>1, <1>2 DEF CodeStays, Runs
<1>3. CASE u = t
  BY <1>1, <1>3 DEF CodeStays, Runs
<1> QED
  BY <1>2, <1>3

\* So each function still waits in one place.
LEMMA WaitingKept ==
  ASSUME AllDistinct, Apart, StartOK, NEW t \in Threads, CodeStays(t), ActiveStays, AddedStays,
         UNCHANGED <<fns, started>>
  PROVE  AllDistinct' /\ Apart' /\ StartOK'
<1>1. AllDistinct'
  <2>1. \A ty \in Types : Distinct(fns'[ty])
    BY DEF AllDistinct
  <2>2. ASSUME NEW u \in Threads PROVE Distinct(active'[u].fns)
    BY DEF AllDistinct, ActiveStays, Distinct
  <2>3. ASSUME NEW u \in Threads, NEW i, i \in DOMAIN stack'[u], stack'[u][i].op = "Run"
        PROVE  Distinct(stack'[u][i].toRun)
    <3>1. CASE stack'[u][i].toRun = <<>>
      BY <3>1 DEF Distinct
    <3>2. CASE stack'[u][i].toRun # <<>>
      <4>1. i \in DOMAIN stack[u] /\ stack[u][i].op = "Run" /\ stack'[u][i].toRun = stack[u][i].toRun
        BY <2>3, <3>2 DEF CodeStays
      <4> QED
        BY <4>1 DEF AllDistinct
    <3> QED
      BY <3>1, <3>2
  <2> QED
    BY <2>1, <2>2, <2>3 DEF AllDistinct, Distinct
<1>2. Apart'
  <2> SUFFICES ASSUME NEW f \in Fns, NEW p \in Places, NEW q \in Places, NEW a \in Types \cup Threads,
                      NEW b \in Types \cup Threads, NEW i \in Nat, NEW j \in Nat,
                      Lies(f, p, a, i)', Lies(f, q, b, j)'
               PROVE  p = q /\ a = b /\ i = j
    BY DEF Apart
  <2>1. Lies(f, p, a, i) /\ Lies(f, q, b, j)
    BY LiesBack
  <2> QED
    BY <2>1 DEF Apart
<1>3. StartOK'
  <2> SUFFICES ASSUME NEW f \in Fns
               PROVE  /\ started[f] <= 1
                      /\ \A p \in Places, a \in Types \cup Threads, i \in Nat :
                           Lies(f, p, a, i)' => started[f] = 0 /\ Added(f)'
                      /\ started[f] > 0 => Added(f)'
                      /\ Runs(f)' => started[f] > 0
    BY DEF StartOK
  <2>1. \A p \in Places, a \in Types \cup Threads, i \in Nat :
          Lies(f, p, a, i)' => started[f] = 0 /\ Added(f)'
    BY LiesBack DEF StartOK, AddedStays
  <2> QED
    BY <2>1, RunsBack DEF StartOK, AddedStays
<1> QED
  BY <1>1, <1>2, <1>3

\* Where loads go on, a library is loaded once,
LEMMA OneLoadKept ==
  ASSUME OneLoad, NEW t \in Threads, LoadsGoOn(t), UNCHANGED loaded,
         DOMAIN stack' = Threads, \A u \in Threads \ {t} : stack'[u] = stack[u]
  PROVE  OneLoad'
<1>1. ASSUME NEW u \in Threads, NEW i, i \in DOMAIN stack'[u], Loading(stack'[u][i])
      PROVE  i \in DOMAIN stack[u] /\ Loading(stack[u][i]) /\ stack'[u][i].lib = stack[u][i].lib
  BY <1>1 DEF LoadsGoOn
<1>2. ASSUME NEW u \in Threads, NEW v \in Threads, NEW i, i \in DOMAIN stack'[u],
             NEW j, j \in DOMAIN stack'[v], Loading(stack'[u][i]), Loading(stack'[v][j]),
             stack'[u][i].lib = stack'[v][j].lib
      PROVE  u = v /\ i = j
  BY <1>1, <1>2 DEF OneLoad
<1>3. ASSUME NEW u \in Threads, NEW i, i \in DOMAIN stack'[u], Loading(stack'[u][i])
      PROVE  stack'[u][i].lib \notin loaded
  BY <1>1, <1>3 DEF OneLoad
<1> QED
  BY <1>2, <1>3 DEF OneLoad, Loading

\* and what was added still is.
LEMMA AddedKept ==
  ASSUME SInv, NEW t \in Threads, LoadsLast(t), loaded \subseteq loaded',
         \A i \in DOMAIN stack'[t] : stack'[t][i].op = "Load" => stack'[t][i].added \in Nat,
         \A u \in Threads \ {t} : stack'[u] = stack[u]
  PROVE  AddedStays
<1> SUFFICES ASSUME NEW f \in Fns, Added(f) PROVE Added(f)'
  BY DEF AddedStays
<1>1. CASE LibOf(f) \in loaded
  BY <1>1 DEF Added
<1>2. CASE LibOf(f) \notin loaded
  <2>1. PICK u \in Threads : \E i \in DOMAIN stack[u] :
          /\ Loading(stack[u][i]) /\ stack[u][i].lib = LibOf(f)
          /\ \E j \in DOMAIN Adds[LibOf(f)] : j <= stack[u][i].added /\ Adds[LibOf(f)][j] = f
    BY <1>2 DEF Added
  <2>2. PICK i \in DOMAIN stack[u] :
          /\ Loading(stack[u][i]) /\ stack[u][i].lib = LibOf(f)
          /\ \E j \in DOMAIN Adds[LibOf(f)] : j <= stack[u][i].added /\ Adds[LibOf(f)][j] = f
    BY <2>1
  <2>3. PICK j \in DOMAIN Adds[LibOf(f)] : j <= stack[u][i].added /\ Adds[LibOf(f)][j] = f
    BY <2>2
  <2>4. /\ i \in DOMAIN stack'[u] /\ Loading(stack'[u][i]) /\ stack'[u][i].lib = LibOf(f)
        /\ j <= stack'[u][i].added
    <3>1. CASE u # t
      BY <2>2, <2>3, <3>1
    <3>2. CASE u = t
      <4>1. /\ i \in DOMAIN stack'[t] /\ Loading(stack'[t][i]) /\ stack'[t][i].lib = LibOf(f)
            /\ stack'[t][i].added >= stack[t][i].added
        BY <2>2, <3>2 DEF LoadsLast
      <4>2. Shaped(stack[t][i]) /\ stack[t][i].op = "Load"
        BY <2>2, <3>2, StackOf DEF StackOK, Loading
      <4>3. stack[t][i].added \in Nat /\ stack'[t][i].added \in Nat /\ j \in Nat
        <5>1. Adds[LibOf(f)] \in Seq(Fns) /\ Adds[stack[t][i].lib] \in Seq(Fns)
          BY <2>2, <3>2, FunctionsHaveLibraries, RegistryAssumption
        <5>2. Len(Adds[stack[t][i].lib]) \in Nat
          BY <5>1
        <5> QED
          BY <4>1, <4>2, <5>1, <5>2 DEF Shaped, Loading
      <4> QED
        BY <2>3, <3>2, <4>1, <4>3
    <3> QED
      BY <3>1, <3>2
  <2> QED
    BY <2>3, <2>4 DEF Added
<1> QED
  BY <1>1, <1>2

\* Loads that stay as they are go on,
LEMMA LoadsGoOnIfStay ==
  ASSUME SInv, NEW t \in Threads, LoadsStay(t)
  PROVE  LoadsGoOn(t)
<1>1. ASSUME NEW i \in DOMAIN stack[t], Loading(stack[t][i]) PROVE stack[t][i].added \in Nat
  <2>1. Shaped(stack[t][i]) /\ stack[t][i].op = "Load"
    BY <1>1, StackOf DEF StackOK, Loading
  <2>2. Len(Adds[stack[t][i].lib]) \in Nat
    BY <2>1, RegistryAssumption DEF Shaped
  <2> QED
    BY <2>1, <2>2 DEF Shaped
<1> QED
  BY <1>1 DEF LoadsStay, LoadsGoOn, LoadsLast

\* and with them the active library.
LEMMA ActiveKept ==
  ASSUME ActiveOK, NEW t \in Threads, LoadsStay(t), \A u \in Threads \ {t} : stack'[u] = stack[u],
         \A u \in Threads : active'[u] = active[u] \/ active'[u].fns = <<>>
  PROVE  ActiveOK'
<1> SUFFICES ASSUME NEW u \in Threads, NEW k, k \in DOMAIN active'[u].fns
             PROVE  /\ active'[u].fns[k] \in FnsOf(active'[u].lib) /\ active'[u].lib \in Libs
                    /\ \E i \in DOMAIN stack'[u] :
                         /\ stack'[u][i].op = "Load" /\ stack'[u][i].pc \in {"Add", "Close"}
                         /\ stack'[u][i].lib = active'[u].lib
  BY DEF ActiveOK
<1>1. active'[u] = active[u]
  OBVIOUS
<1>2. PICK i \in DOMAIN stack[u] : /\ stack[u][i].op = "Load" /\ stack[u][i].pc \in {"Add", "Close"}
                                   /\ stack[u][i].lib = active[u].lib
  BY <1>1 DEF ActiveOK
<1>3. i \in DOMAIN stack'[u] /\ stack'[u][i] = stack[u][i]
  BY <1>2 DEF LoadsStay, Loading
<1> QED
  BY <1>1, <1>2, <1>3 DEF ActiveOK

\* How many functions a library has added, after a step.
LEMMA AddedAreNumbers ==
  ASSUME SInv', NEW t \in Threads
  PROVE  \A i \in DOMAIN stack'[t] : stack'[t][i].op = "Load" => stack'[t][i].added \in Nat
<1> SUFFICES ASSUME NEW i, i \in DOMAIN stack'[t], stack'[t][i].op = "Load"
             PROVE  stack'[t][i].added \in Nat
  OBVIOUS
<1>1. Shaped(stack'[t][i])
  BY DEF SInv, StacksOK, StackOK
<1>2. Adds[stack'[t][i].lib] \in Seq(Fns)
  BY <1>1, RegistryAssumption DEF Shaped
<1>3. Len(Adds[stack'[t][i].lib]) \in Nat
  BY <1>2
<1> QED
  BY <1>1, <1>3 DEF Shaped

\* A step that moves no function, and loads nothing, keeps the invariant.
LEMMA NothingMoves ==
  ASSUME SInv, SInv', RInv, NEW t \in Threads, CodeStays(t), LoadsStay(t),
         UNCHANGED <<fns, active, loaded, started>>
  PROVE  RInv'
<1>1. LoadsGoOn(t)
  BY LoadsGoOnIfStay
<1>2. DOMAIN stack' = Threads /\ \A u \in Threads \ {t} : stack'[u] = stack[u]
  BY DEF CodeStays
<1>3. AddedStays
  BY <1>1, <1>2, AddedAreNumbers, AddedKept DEF LoadsGoOn
<1>4. OneLoad'
  BY <1>1, <1>2, OneLoadKept DEF RInv
<1>5. ActiveOK'
  BY <1>2, ActiveKept DEF RInv
<1>6. AllDistinct' /\ Apart' /\ StartOK'
  BY <1>3, WaitingKept DEF RInv, ActiveStays
<1> QED
  BY <1>4, <1>5, <1>6 DEF RInv

\* Such are the quiet steps,
LEMMA QuietMovesNothing ==
  ASSUME SInv, SInv', NEW t \in Threads, NEW S, Quiet(t, S)
  PROVE  CodeStays(t)
<1>1. PICK p \in Nat : QuietAbove(t, p, S)
  BY DEF Quiet
<1>2. Kept(t, p)
  BY <1>1 DEF QuietAbove
<1>3. \A i \in DOMAIN stack'[t] : i > p =>
        /\ stack'[t][i].op # "Function"
        /\ stack'[t][i].op = "Run" => stack'[t][i].toRun = <<>>
  <2>1. \A c : Harmless(t, c) => c.op # "Function" /\ (c.op = "Run" => c.toRun = <<>>)
    BY DEF Harmless, RunCall
  <2> QED
    BY <1>1, <2>1 DEF QuietAbove
<1>4. \A i \in DOMAIN stack'[t] : i > p \/ (i \in DOMAIN stack[t] /\ stack'[t][i] = stack[t][i])
  <2>1. IsList(stack'[t])
    BY DEF SInv, StacksOK, StackOK
  <2>2. \A i \in DOMAIN stack'[t] : i \in Nat /\ i >= 1
    BY <2>1 DEF IsList
  <2>3. DOMAIN stack[t] = 1 .. Depth(t) /\ Depth(t) \in Nat /\ p <= Depth(t)
    BY <1>2, StackOf DEF Kept
  <2>4. \A i \in DOMAIN stack'[t] : i > p \/ (i \in 1 .. p /\ i \in 1 .. Depth(t))
    BY <2>2, <2>3
  <2> QED
    BY <1>2, <2>3, <2>4 DEF Kept
<1> QED
  BY <1>2, <1>3, <1>4 DEF Kept, CodeStays

\* a registry function, what it adds for unload, and the loop when it takes nothing.
LEMMA FunctionsMoveNothing ==
  ASSUME SInv, SInv', RTypes, NEW t \in Threads,
         \/ FunctionBody(t) \/ AddFunctionForUnload(t)
         \/ (RunTake(t) \/ RunCallNext(t) \/ RunRelock(t))
              /\ (LoopEnds(t, Depth(t)) \/ LoopLocks(t, Depth(t)))
  PROVE  CodeStays(t) /\ LoadsStay(t)
<1>0. PICK n : n = Depth(t)
  OBVIOUS
<1>1. CASE AddFunctionForUnload(t)
  <2>1. stack[t] # <<>> /\ Leave(t) /\ ~Loading(Top(t))
    BY <1>1 DEF AddFunctionForUnload, At, Loading
  <2> QED
    BY <2>1, QuietReturn, QuietMovesNothing
<1>2. CASE FunctionBody(t)
  <2>1. /\ n \in Nat /\ n >= 1 /\ DOMAIN stack[t] = 1 .. n /\ stack[t] # <<>> /\ Top(t) = stack[t][n]
        /\ stack[t][n].op = "Function" /\ stack[t][n].fn \in Fns /\ stack[t][n].done \in Nat
        /\ Leave(t) \/ (Kept(t, n - 1) /\ BodyCalls(t, n))
    BY <1>0, <1>2, BodyFrames
  <2>2. CASE Leave(t)
    <3>1. ~Loading(Top(t))
      BY <2>1 DEF Loading
    <3> QED
      BY <2>1, <2>2, <3>1, QuietReturn, QuietMovesNothing
  <2>3. CASE Kept(t, n - 1) /\ BodyCalls(t, n)
    <3>1. PICK f, next : f = stack[t][n].fn /\ next = stack[t][n].done + 1
      OBVIOUS
    <3>2. /\ next \in 1 .. Len(Body[f]) /\ DOMAIN stack'[t] = 1 .. n + 1
          /\ stack'[t][n] = [op |-> "Function", pc |-> "Body", fn |-> f, done |-> next]
          /\ stack'[t][n + 1] = Body[f][next]
      BY <2>3, <3>1 DEF BodyCalls
    <3>3. Harmless(t, stack'[t][n + 1]) /\ ~Loading(stack'[t][n + 1]) /\ stack'[t][n + 1].op # "Run"
      <4>1. Body[f] \in Seq(UserCalls \cup {AddForUnloadCall})
        BY <2>1, <3>1, CallsAssumption
      <4>2. Body[f][next] \in UserCalls \cup {AddForUnloadCall}
        BY <3>2, <4>1
      <4> QED
        BY <3>2, <4>2, UserCallsAreHarmless
    <3>4. /\ \A i \in 1 .. n : i = n \/ i \in 1 .. n - 1
          /\ \A i \in 1 .. n + 1 : i = n + 1 \/ i = n \/ i \in 1 .. n - 1
          /\ n \in 1 .. n /\ \A i \in 1 .. n - 1 : i \in 1 .. n
      BY <2>1
    <3>5. stack'[t][n].op = "Function" /\ stack'[t][n].fn = f
      BY <3>2
    <3>6. CodeStays(t)
      BY <2>1, <2>3, <3>1, <3>2, <3>3, <3>4, <3>5 DEF Kept, CodeStays, Harmless
    <3>7. LoadsStay(t)
      BY <2>1, <2>3, <3>2, <3>3, <3>4, <3>5 DEF Kept, LoadsStay, Loading
    <3> QED
      BY <3>6, <3>7
  <2> QED
    BY <2>1, <2>2, <2>3
<1>3. CASE /\ RunTake(t) \/ RunCallNext(t) \/ RunRelock(t)
           /\ LoopEnds(t, Depth(t)) \/ LoopLocks(t, Depth(t))
  <2>1. /\ n \in Nat /\ n >= 1 /\ DOMAIN stack[t] = 1 .. n /\ Kept(t, n - 1)
        /\ stack[t][n].op = "Run"
    BY <1>0, <1>3, LoopFrames
  <2>2. /\ \A i \in 1 .. n : i = n \/ i \in 1 .. n - 1
        /\ n \in 1 .. n /\ \A i \in 1 .. n - 1 : i \in 1 .. n
    BY <2>1
  <2>3. CASE LoopEnds(t, n)
    <3>1. DOMAIN stack'[t] = 1 .. n - 1
      BY <2>3 DEF LoopEnds
    <3> QED
      BY <2>1, <2>2, <3>1 DEF Kept, CodeStays, LoadsStay, Loading
  <2>4. CASE LoopLocks(t, n)
    <3>1. /\ DOMAIN stack'[t] = 1 .. n /\ stack'[t][n].op = "Run"
          /\ stack'[t][n].toRun = stack[t][n].toRun
      BY <2>4 DEF LoopLocks, RunFrame
    <3> QED
      BY <2>1, <2>2, <3>1 DEF Kept, CodeStays, LoadsStay, Loading
  <2> QED
    BY <1>0, <1>3, <2>3, <2>4
<1> QED
  BY <1>1, <1>2, <1>3

-----------------------------------------------------------------------------
(* The active library's functions go to the lists of their types. *)

\* Two lists that share nothing, in a row.
LEMMA DistinctTogether ==
  ASSUME NEW s \in Seq(Fns), NEW r \in Seq(Fns), Distinct(s), Distinct(r), Range(s) \cap Range(r) = {}
  PROVE  Distinct(s \o r)
<1>1. /\ DOMAIN (s \o r) = 1 .. Len(s) + Len(r) /\ Len(s) \in Nat /\ Len(r) \in Nat
      /\ DOMAIN s = 1 .. Len(s) /\ DOMAIN r = 1 .. Len(r)
      /\ \A i \in 1 .. Len(s) + Len(r) : (s \o r)[i] = IF i <= Len(s) THEN s[i] ELSE r[i - Len(s)]
  OBVIOUS
<1> SUFFICES ASSUME NEW i \in 1 .. Len(s) + Len(r), NEW j \in 1 .. Len(s) + Len(r), (s \o r)[i] = (s \o r)[j]
             PROVE  i = j
  BY <1>1 DEF Distinct
<1>2. \A k \in 1 .. Len(s) + Len(r) : (k <= Len(s) => k \in DOMAIN s) /\ (~(k <= Len(s)) => k - Len(s) \in DOMAIN r)
  BY <1>1
<1>3. \A k \in DOMAIN s, m \in DOMAIN r : s[k] # r[m]
  BY DEF Range
<1>4. CASE i <= Len(s) /\ j <= Len(s)
  BY <1>1, <1>2, <1>4 DEF Distinct
<1>5. CASE ~(i <= Len(s)) /\ ~(j <= Len(s))
  <2>1. i - Len(s) = j - Len(s)
    BY <1>1, <1>2, <1>5 DEF Distinct
  <2> QED
    BY <1>1, <2>1
<1> QED
  BY <1>1, <1>2, <1>3, <1>4, <1>5

\* What is left of a list.
LEMMA DistinctOnly ==
  ASSUME NEW s \in Seq(Fns), NEW S, Distinct(s)
  PROVE  Distinct(Only(s, S))
<1>1. \A i, j \in DOMAIN s : s[i] = s[j] => i = j
  BY DEF Distinct
<1>2. \A k, l \in DOMAIN Only(s, S) : Only(s, S)[k] = Only(s, S)[l] => k = l
  BY <1>1, OnlyMembers
<1> QED
  BY <1>2 DEF Distinct

\* What a loop has taken, it had.
LEMMA LoopsBack ==
  ASSUME NEW t \in Threads, CodeStays(t), NEW f, NEW a, NEW i, Lies(f, "Loop", a, i)'
  PROVE  Lies(f, "Loop", a, i)
<1>1. a \in Threads /\ i \in DOMAIN stack'[a] /\ stack'[a][i].op = "Run" /\ f \in Range(stack'[a][i].toRun)
  BY DEF Lies
<1>2. stack'[a][i].toRun # <<>>
  BY <1>1 DEF Range
<1>3. i \in DOMAIN stack[a] /\ stack[a][i].op = "Run" /\ stack'[a][i].toRun = stack[a][i].toRun
  BY <1>1, <1>2 DEF CodeStays
<1> QED
  BY <1>1, <1>3 DEF Lies

\* A function stays where it was, or was with the active library.
LEMMA TransferMoves ==
  ASSUME RTypes, NEW t \in Threads, Transfer(t), CodeStays(t),
         NEW f, NEW p, NEW a, NEW i, Lies(f, p, a, i)'
  PROVE  \/ Lies(f, p, a, i) /\ ~(p = "Active" /\ a = t)
         \/ p = "List" /\ a = TypeOf[f] /\ i = 0 /\ Lies(f, "Active", t, 0)
<1>1. CASE p = "List"
  <2>1. a \in Types /\ i = 0 /\ f \in Range(fns'[a])
    BY <1>1 DEF Lies
  <2>2. PICK S, list : S = {g \in Fns : TypeOf[g] = a} /\ list = Only(active[t].fns, S)
    OBVIOUS
  <2>3. fns'[a] = fns[a] \o list
    BY <2>1, <2>2 DEF Transfer
  <2>4. fns[a] \in Seq(Fns) /\ active[t].fns \in Seq(Fns)
    BY <2>1 DEF RTypes, VarTypes
  <2>5. list \in Seq(Fns \cap S) /\ \A k \in DOMAIN list : \E m \in DOMAIN active[t].fns : list[k] = active[t].fns[m]
    <3>1. PICK s : s = active[t].fns
      OBVIOUS
    <3>2. s \in Seq(Fns) /\ list = Only(s, S)
      BY <2>2, <2>4, <3>1
    <3>3. Only(s, S) \in Seq(Fns \cap S) /\ \A k \in DOMAIN Only(s, S) : \E m \in DOMAIN s : Only(s, S)[k] = s[m]
      BY <3>2, OnlyMembers
    <3> QED
      BY <3>1, <3>2, <3>3
  <2>6. PICK k \in DOMAIN (fns[a] \o list) : (fns[a] \o list)[k] = f
    BY <2>1, <2>3 DEF Range
  <2>7. list \in Seq(Fns)
    BY <2>5
  <2>8. (\E m \in DOMAIN fns[a] : fns[a][m] = f) \/ (\E m \in DOMAIN list : list[m] = f)
    BY <2>4, <2>6, <2>7
  <2>9. CASE \E m \in DOMAIN fns[a] : fns[a][m] = f
    BY <1>1, <2>1, <2>9 DEF Lies, Range
  <2>10. CASE \E m \in DOMAIN list : list[m] = f
    <3>1. PICK m \in DOMAIN list : list[m] = f
      BY <2>10
    <3>2. f \in S /\ \E o \in DOMAIN active[t].fns : f = active[t].fns[o]
      BY <2>5, <3>1
    <3> QED
      BY <1>1, <2>1, <2>2, <3>2 DEF Lies, Range
  <2> QED
    BY <2>8, <2>9, <2>10
<1>2. CASE p = "Active"
  <2>1. a \in Threads /\ i = 0 /\ f \in Range(active'[a].fns)
    BY <1>2 DEF Lies
  <2>2. active' = [active EXCEPT ![t] = NoActive] /\ DOMAIN active = Threads
    BY DEF Transfer, RTypes, VarTypes
  <2>3. a # t
    BY <2>1, <2>2 DEF NoActive, Range
  <2> QED
    BY <1>2, <2>1, <2>2, <2>3 DEF Lies
<1>3. CASE p = "Loop"
  BY <1>3, LoopsBack
<1> QED
  BY <1>1, <1>2, <1>3 DEF Lies

\* Who takes the lock leaves each function in one place.
LEMMA WaitingUnderTransfer ==
  ASSUME RTypes, AllDistinct, Apart, StartOK, NEW t \in Threads, Transfer(t), CodeStays(t), AddedStays,
         UNCHANGED started
  PROVE  AllDistinct' /\ Apart' /\ StartOK'
<1>0. /\ active' = [active EXCEPT ![t] = NoActive] /\ DOMAIN active = Threads
      /\ active[t].fns \in Seq(Fns) /\ \A ty \in Types : fns[ty] \in Seq(Fns)
  BY DEF Transfer, RTypes, VarTypes
<1>1. AllDistinct'
  <2>1. ASSUME NEW ty \in Types PROVE Distinct(fns'[ty])
    <3>1. PICK S, list : S = {g \in Fns : TypeOf[g] = ty} /\ list = Only(active[t].fns, S)
      OBVIOUS
    <3>2. fns'[ty] = fns[ty] \o list
      BY <3>1 DEF Transfer
    <3>3. /\ list \in Seq(Fns \cap S)
          /\ \A k \in DOMAIN list : \E m \in DOMAIN active[t].fns : list[k] = active[t].fns[m]
          /\ Distinct(active[t].fns) => Distinct(list)
      <4>1. PICK s : s = active[t].fns
        OBVIOUS
      <4>2. s \in Seq(Fns) /\ list = Only(s, S)
        BY <1>0, <3>1, <4>1
      <4>3. /\ Only(s, S) \in Seq(Fns \cap S)
            /\ \A k \in DOMAIN Only(s, S) : \E m \in DOMAIN s : Only(s, S)[k] = s[m]
        BY <4>2, OnlyMembers
      <4>4. Distinct(s) => Distinct(Only(s, S))
        BY <4>2, DistinctOnly
      <4> QED
        BY <4>1, <4>2, <4>3, <4>4
    <3>4. list \in Seq(Fns)
      BY <3>3
    <3>5. Range(fns[ty]) \cap Range(list) = {}
      <4> SUFFICES ASSUME NEW f \in Range(fns[ty]) \cap Range(list) PROVE FALSE
        OBVIOUS
      <4>1. Lies(f, "List", ty, 0) /\ Lies(f, "Active", t, 0) /\ f \in Fns
        <5>1. PICK k \in DOMAIN list : list[k] = f
          BY DEF Range
        <5>2. f \in Range(active[t].fns) /\ f \in Fns
          BY <3>3, <3>4, <5>1 DEF Range
        <5> QED
          BY <5>2 DEF Lies
      <4> QED
        BY <4>1 DEF Apart, Places
    <3>6. Distinct(fns[ty]) /\ Distinct(list)
      BY <3>3 DEF AllDistinct
    <3> QED
      BY <1>0, <3>2, <3>4, <3>5, <3>6, DistinctTogether
  <2>2. ASSUME NEW u \in Threads PROVE Distinct(active'[u].fns)
    <3>1. CASE u = t
      BY <1>0, <3>1 DEF NoActive, Distinct
    <3>2. CASE u # t
      BY <1>0, <3>2 DEF AllDistinct
    <3> QED
      BY <3>1, <3>2
  <2>3. ASSUME NEW u \in Threads, NEW i, i \in DOMAIN stack'[u], stack'[u][i].op = "Run"
        PROVE  Distinct(stack'[u][i].toRun)
    <3>1. CASE stack'[u][i].toRun = <<>>
      BY <3>1 DEF Distinct
    <3>2. CASE stack'[u][i].toRun # <<>>
      <4>1. i \in DOMAIN stack[u] /\ stack[u][i].op = "Run" /\ stack'[u][i].toRun = stack[u][i].toRun
        BY <2>3, <3>2 DEF CodeStays
      <4> QED
        BY <4>1 DEF AllDistinct
    <3> QED
      BY <3>1, <3>2
  <2> QED
    BY <2>1, <2>2, <2>3 DEF AllDistinct, Distinct
<1>2. Apart'
  <2> SUFFICES ASSUME NEW f \in Fns, NEW p \in Places, NEW q \in Places, NEW a \in Types \cup Threads,
                      NEW b \in Types \cup Threads, NEW i \in Nat, NEW j \in Nat,
                      Lies(f, p, a, i)', Lies(f, q, b, j)'
               PROVE  p = q /\ a = b /\ i = j
    BY DEF Apart
  <2>1. \/ Lies(f, p, a, i) /\ ~(p = "Active" /\ a = t)
        \/ p = "List" /\ a = TypeOf[f] /\ i = 0 /\ Lies(f, "Active", t, 0)
    BY TransferMoves
  <2>2. \/ Lies(f, q, b, j) /\ ~(q = "Active" /\ b = t)
        \/ q = "List" /\ b = TypeOf[f] /\ j = 0 /\ Lies(f, "Active", t, 0)
    BY TransferMoves
  <2>3. "Active" \in Places /\ 0 \in Nat /\ t \in Types \cup Threads
    BY DEF Places
  <2> QED
    BY <2>1, <2>2, <2>3 DEF Apart
<1>3. StartOK'
  <2> SUFFICES ASSUME NEW f \in Fns
               PROVE  /\ started[f] <= 1
                      /\ \A p \in Places, a \in Types \cup Threads, i \in Nat :
                           Lies(f, p, a, i)' => started[f] = 0 /\ Added(f)'
                      /\ started[f] > 0 => Added(f)'
                      /\ Runs(f)' => started[f] > 0
    BY DEF StartOK
  <2>1. ASSUME NEW p \in Places, NEW a \in Types \cup Threads, NEW i \in Nat, Lies(f, p, a, i)'
        PROVE  started[f] = 0 /\ Added(f)'
    <3>1. Lies(f, p, a, i) \/ Lies(f, "Active", t, 0)
      BY <2>1, TransferMoves
    <3>2. "Active" \in Places /\ 0 \in Nat /\ t \in Types \cup Threads
      BY DEF Places
    <3> QED
      BY <3>1, <3>2 DEF StartOK, AddedStays
  <2> QED
    BY <2>1, RunsBack DEF StartOK, AddedStays
<1> QED
  BY <1>1, <1>2, <1>3

\* Who takes the lock makes no calls but to update the subscribers,
LEMMA LockFrames ==
  ASSUME SInv, RTypes, NEW t \in Threads, stack[t] # <<>>,
         Top(t).op \in {"Subscribe", "Load"}, Hosts(Top(t)) => ref[t] = 0,
         NEW pc, LockAndProcess(t, pc), NEW n, n = Depth(t), NEW c, c = [Top(t) EXCEPT !.pc = pc]
  PROVE  /\ n \in Nat /\ n >= 1 /\ DOMAIN stack[t] = 1 .. n /\ Top(t) = stack[t][n]
         /\ DOMAIN stack' = Threads /\ \A u \in Threads \ {t} : stack'[u] = stack[u]
         /\ \A i \in 1 .. n - 1 : i \in DOMAIN stack'[t] /\ stack'[t][i] = stack[t][i]
         /\ n \in DOMAIN stack'[t] /\ stack'[t][n] = c
         /\ \A i \in DOMAIN stack'[t] :
              \/ i \in 1 .. n - 1 \/ i = n \/ stack'[t][i].op = "Update"
              \/ stack'[t][i].op = "Run" /\ stack'[t][i].toRun = <<>>
<1>1. n \in Nat /\ n >= 1 /\ DOMAIN stack[t] = 1 .. n /\ Top(t) = stack[t][n]
  BY StackOf
<1>2. PICK d, e : d = UpdateCall(Head(ordered)) /\ e = RunCall(t, Head(ordered))
  OBVIOUS
<1>3. IF MovedAny(t) THEN HasCalledTwo(t, c, d, e) ELSE HasBecome(t, c)
  BY <1>2, LockKeeps
<1>4. d.op = "Update" /\ e.op = "Run" /\ e.toRun = <<>>
  BY <1>2 DEF UpdateCall, RunCall
<1>5. CASE MovedAny(t)
  <2>1. HasCalledTwo(t, c, d, e)
    BY <1>3, <1>5
  <2>2. \A i \in 1 .. n + 2 : i \in 1 .. n - 1 \/ i = n \/ i = n + 1 \/ i = n + 2
    BY <1>1
  <2>3. n \in 1 .. n + 2 /\ \A i \in 1 .. n - 1 : i \in 1 .. n + 2
    BY <1>1
  <2> QED
    BY <1>1, <1>4, <2>1, <2>2, <2>3 DEF HasCalledTwo, OthersStay
<1>6. CASE ~MovedAny(t)
  <2>1. HasBecome(t, c)
    BY <1>3, <1>6
  <2>2. /\ \A i \in 1 .. n : i \in 1 .. n - 1 \/ i = n
        /\ n \in 1 .. n /\ \A i \in 1 .. n - 1 : i \in 1 .. n
    BY <1>1
  <2> QED
    BY <1>1, <2>1, <2>2 DEF HasBecome, OthersStay
<1> QED
  BY <1>5, <1>6

\* and keeps the invariant.
LEMMA LockMoves ==
  ASSUME SInv, SInv', RTypes, RInv, NEW t \in Threads, stack[t] # <<>>,
         Top(t).op \in {"Subscribe", "Load"}, Hosts(Top(t)) => ref[t] = 0,
         Top(t).op = "Load" => Top(t).pc \in {"Add", "Close"},
         NEW pc, pc # "Open", LockAndProcess(t, pc)
  PROVE  RInv'
<1>0. PICK n, c : n = Depth(t) /\ c = [Top(t) EXCEPT !.pc = pc]
  OBVIOUS
<1>1. /\ n \in Nat /\ n >= 1 /\ DOMAIN stack[t] = 1 .. n /\ Top(t) = stack[t][n]
      /\ DOMAIN stack' = Threads /\ \A u \in Threads \ {t} : stack'[u] = stack[u]
      /\ \A i \in 1 .. n - 1 : i \in DOMAIN stack'[t] /\ stack'[t][i] = stack[t][i]
      /\ n \in DOMAIN stack'[t] /\ stack'[t][n] = c
      /\ \A i \in DOMAIN stack'[t] :
           \/ i \in 1 .. n - 1 \/ i = n \/ stack'[t][i].op = "Update"
           \/ stack'[t][i].op = "Run" /\ stack'[t][i].toRun = <<>>
  BY <1>0, LockFrames
<1>2. /\ n \in 1 .. n /\ \A i \in 1 .. n : i = n \/ i \in 1 .. n - 1
      /\ \A i \in 1 .. n - 1 : i \in 1 .. n
  BY <1>1
<1>3. Transfer(t) /\ UNCHANGED <<loaded, started>>
  BY DEF LockAndProcess, libraryVars
<1>4. Top(t).op = "Load" => c = [op |-> "Load", pc |-> pc, lib |-> Top(t).lib, added |-> Top(t).added]
  BY <1>0, StackOf DEF Shaped
<1>5. Top(t).op = "Subscribe" => c.op = "Subscribe"
  BY <1>0, StackOf DEF Shaped
<1>6. CodeStays(t)
  <2>1. c.op \notin {"Run", "Function"}
    BY <1>4, <1>5
  <2>2. \A i \in DOMAIN stack'[t] : stack'[t][i].op = "Run" =>
          stack'[t][i].toRun = <<>> \/ i \in 1 .. n - 1
    BY <1>1, <2>1
  <2>3. \A i \in DOMAIN stack'[t] : stack'[t][i].op = "Function" => i \in 1 .. n - 1
    BY <1>1, <2>1
  <2> QED
    BY <1>1, <1>2, <2>2, <2>3 DEF CodeStays
<1>7. LoadsGoOn(t)
  <2>1. \A i \in DOMAIN stack'[t] : Loading(stack'[t][i]) => i \in 1 .. n - 1 \/ i = n
    BY <1>1 DEF Loading
  <2>2. Loading(c) => Loading(stack[t][n])
    BY <1>1, <1>4, <1>5 DEF Loading
  <2>3. Loading(stack[t][n]) => Loading(c) /\ c.lib = stack[t][n].lib /\ c.added = stack[t][n].added
    BY <1>1, <1>4 DEF Loading
  <2>4. Loading(c) => c.lib = stack[t][n].lib
    BY <2>2, <2>3
  <2>5. ASSUME NEW i \in 1 .. n, Loading(stack[t][i]) PROVE stack[t][i].added \in Nat
    <3>1. Shaped(stack[t][i]) /\ stack[t][i].op = "Load"
      BY <1>1, <2>5, StackOf DEF StackOK, Loading
    <3>2. Len(Adds[stack[t][i].lib]) \in Nat
      BY <3>1, RegistryAssumption DEF Shaped
    <3> QED
      BY <3>1, <3>2 DEF Shaped
  <2> QED
    BY <1>1, <1>2, <2>1, <2>2, <2>3, <2>4, <2>5 DEF LoadsGoOn, LoadsLast
<1>8. AddedStays
  BY <1>1, <1>3, <1>7, AddedAreNumbers, AddedKept DEF LoadsGoOn
<1>9. OneLoad'
  BY <1>1, <1>3, <1>7, OneLoadKept DEF RInv
<1>10. ActiveOK'
  <2>1. active' = [active EXCEPT ![t] = NoActive] /\ DOMAIN active = Threads
    BY <1>3 DEF Transfer, RTypes, VarTypes
  <2> SUFFICES ASSUME NEW u \in Threads, NEW k, k \in DOMAIN active'[u].fns
               PROVE  /\ active'[u].fns[k] \in FnsOf(active'[u].lib) /\ active'[u].lib \in Libs
                      /\ \E i \in DOMAIN stack'[u] :
                           /\ stack'[u][i].op = "Load" /\ stack'[u][i].pc \in {"Add", "Close"}
                           /\ stack'[u][i].lib = active'[u].lib
    BY DEF ActiveOK
  <2>2. u # t
    BY <2>1 DEF NoActive
  <2>3. active'[u] = active[u] /\ stack'[u] = stack[u]
    BY <1>1, <2>1, <2>2
  <2> QED
    BY <2>3 DEF RInv, ActiveOK
<1>11. AllDistinct' /\ Apart' /\ StartOK'
  BY <1>3, <1>6, <1>8, WaitingUnderTransfer DEF RInv
<1> QED
  BY <1>9, <1>10, <1>11 DEF RInv

-----------------------------------------------------------------------------
(* The steps of a load. *)

\* The innermost call becomes c, and calls nothing that loads.
TopChanges(t, n, c) ==
  /\ n \in Nat /\ n >= 1 /\ DOMAIN stack[t] = 1 .. n
  /\ DOMAIN stack' = Threads /\ \A u \in Threads \ {t} : stack'[u] = stack[u]
  /\ \A i \in 1 .. n - 1 : i \in DOMAIN stack'[t] /\ stack'[t][i] = stack[t][i]
  /\ n \in DOMAIN stack'[t] /\ stack'[t][n] = c
  /\ \A i \in DOMAIN stack'[t] : i \in 1 .. n - 1 \/ i = n \/ ~Loading(stack'[t][i])

\* A load that goes on,
LEMMA LoadsUnderChange ==
  ASSUME SInv, NEW t \in Threads, NEW n, NEW c, TopChanges(t, n, c),
         Loading(c), Loading(stack[t][n]), c.lib = stack[t][n].lib, c.added >= stack[t][n].added
  PROVE  LoadsGoOn(t)
<1>1. /\ n \in 1 .. n /\ \A i \in 1 .. n : i = n \/ i \in 1 .. n - 1
      /\ \A i \in 1 .. n - 1 : i \in 1 .. n
  BY DEF TopChanges
<1>2. ASSUME NEW i \in 1 .. n, Loading(stack[t][i]) PROVE stack[t][i].added \in Nat
  <2>1. Shaped(stack[t][i]) /\ stack[t][i].op = "Load"
    BY <1>2, StackOf DEF StackOK, Loading, TopChanges
  <2>2. Len(Adds[stack[t][i].lib]) \in Nat
    BY <2>1, RegistryAssumption DEF Shaped
  <2> QED
    BY <2>1, <2>2 DEF Shaped
<1> QED
  BY <1>1, <1>2 DEF TopChanges, LoadsGoOn, LoadsLast

\* with an active library that it may add to,
LEMMA ActiveUnderChange ==
  ASSUME ActiveOK, NEW t \in Threads, NEW n, NEW c, TopChanges(t, n, c),
         c.op = "Load", c.pc \in {"Add", "Close"}, c.lib = stack[t][n].lib, c.lib \in Libs,
         \A u \in Threads \ {t} : active'[u] = active[u],
         active'[t].lib = active[t].lib,
         \/ active'[t].fns = active[t].fns
         \/ /\ active[t].lib = c.lib
            /\ \A k \in DOMAIN active'[t].fns : active'[t].fns[k] \in FnsOf(c.lib)
  PROVE  ActiveOK'
<1> SUFFICES ASSUME NEW u \in Threads, NEW k, k \in DOMAIN active'[u].fns
             PROVE  /\ active'[u].fns[k] \in FnsOf(active'[u].lib) /\ active'[u].lib \in Libs
                    /\ \E i \in DOMAIN stack'[u] :
                         /\ stack'[u][i].op = "Load" /\ stack'[u][i].pc \in {"Add", "Close"}
                         /\ stack'[u][i].lib = active'[u].lib
  BY DEF ActiveOK
<1>1. CASE u # t
  BY <1>1 DEF ActiveOK, TopChanges
<1>2. CASE u = t /\ active[t].lib = c.lib
  <2>1. active'[t].fns[k] \in FnsOf(c.lib)
    BY <1>2 DEF ActiveOK
  <2>2. n \in DOMAIN stack'[t] /\ stack'[t][n] = c
    BY DEF TopChanges
  <2> QED
    BY <1>2, <2>1, <2>2
<1>3. CASE u = t /\ active[t].lib # c.lib
  <2>1. active'[t].fns = active[t].fns /\ k \in DOMAIN active[t].fns
    BY <1>3
  <2>2. PICK i \in DOMAIN stack[t] : /\ stack[t][i].op = "Load" /\ stack[t][i].pc \in {"Add", "Close"}
                                     /\ stack[t][i].lib = active[t].lib
    BY <2>1 DEF ActiveOK
  <2>3. i # n /\ i \in 1 .. n
    BY <1>3, <2>2 DEF TopChanges
  <2>4. i \in 1 .. n - 1
    BY <2>3 DEF TopChanges
  <2>5. i \in DOMAIN stack'[t] /\ stack'[t][i] = stack[t][i]
    BY <2>4 DEF TopChanges
  <2> QED
    BY <1>3, <2>1, <2>2, <2>5 DEF ActiveOK
<1> QED
  BY <1>1, <1>2, <1>3

\* The record of a load.
LoadFrame(pc, l, added) == [op |-> "Load", pc |-> pc, lib |-> l, added |-> added]

\* What it may be, where it is the innermost call.
LEMMA LoadAt ==
  ASSUME SInv, NEW t \in Threads, stack[t] # <<>>, Top(t).op = "Load", NEW n, n = Depth(t),
         NEW l, l = Top(t).lib
  PROVE  /\ n \in Nat /\ n >= 1 /\ DOMAIN stack[t] = 1 .. n /\ Top(t) = stack[t][n]
         /\ stack[t][n] = LoadFrame(stack[t][n].pc, l, stack[t][n].added)
         /\ stack[t][n].op = "Load" /\ stack[t][n].lib = l
         /\ l \in Libs /\ stack[t][n].added \in Nat /\ Adds[l] \in Seq(Fns)
         /\ \A pc : [Top(t) EXCEPT !.pc = pc] = LoadFrame(pc, l, stack[t][n].added)
<1>1. /\ n \in Nat /\ n >= 1 /\ DOMAIN stack[t] = 1 .. n /\ Top(t) = stack[t][n] /\ Shaped(Top(t))
  BY StackOf
<1>2. /\ stack[t][n] = LoadFrame(stack[t][n].pc, l, stack[t][n].added)
      /\ l \in Libs /\ stack[t][n].added \in 0 .. Len(Adds[l])
      /\ stack[t][n].op = "Load" /\ stack[t][n].lib = l
  BY <1>1 DEF Shaped, LoadFrame
<1>3. Adds[l] \in Seq(Fns)
  BY <1>2, RegistryAssumption
<1>4. Len(Adds[l]) \in Nat
  BY <1>3
<1>5. ASSUME NEW pc PROVE [Top(t) EXCEPT !.pc = pc] = LoadFrame(pc, l, stack[t][n].added)
  BY <1>1, <1>2 DEF LoadFrame
<1> QED
  BY <1>1, <1>2, <1>3, <1>4, <1>5

\* A step of it, with or without a call of a global object.
LEMMA LoadChanges ==
  ASSUME SInv, NEW t \in Threads, stack[t] # <<>>, NEW n, n = Depth(t), NEW c,
         \/ Update(t, c)
         \/ \E d \in UserCalls : Become(t, Append(Front(stack[t]), c) \o <<d>>)
  PROVE  TopChanges(t, n, c)
<1>1. /\ n \in Nat /\ n >= 1 /\ DOMAIN stack[t] = 1 .. n
  BY StackOf
<1>2. /\ n \in 1 .. n /\ n \in 1 .. n + 1
      /\ \A i \in 1 .. n - 1 : i \in 1 .. n /\ i \in 1 .. n + 1
      /\ \A i \in 1 .. n : i = n \/ i \in 1 .. n - 1
      /\ \A i \in 1 .. n + 1 : i = n \/ i = n + 1 \/ i \in 1 .. n - 1
  BY <1>1
<1>3. CASE Update(t, c)
  <2>1. HasBecome(t, c)
    BY <1>3, Becomes
  <2> QED
    BY <1>1, <1>2, <2>1 DEF HasBecome, OthersStay, TopChanges
<1>4. ASSUME NEW d \in UserCalls, Become(t, Append(Front(stack[t]), c) \o <<d>>)
      PROVE  TopChanges(t, n, c)
  <2>1. HasCalled(t, c, d)
    BY <1>4, BecomesAndCalls
  <2>2. ~Loading(d)
    BY UserCallsAreHarmless
  <2> QED
    BY <1>1, <1>2, <2>1, <2>2 DEF HasCalled, OthersStay, TopChanges
<1> QED
  BY <1>3, <1>4

\* A load that adds functions is the only one of its library.
LEMMA OpenMoves ==
  ASSUME SInv, SInv', RTypes, RInv, NEW t \in Threads, LoadOpen(t)
  PROVE  RInv'
<1>0. PICK n, l : n = Depth(t) /\ l = Top(t).lib
  OBVIOUS
<1>1. /\ stack[t] # <<>> /\ Top(t).op = "Load" /\ Top(t).pc = "Open" /\ LoaderFree(t)
      /\ UNCHANGED <<fns, active, loaded, started>>
      /\ \/ Leave(t)
         \/ l \notin loaded /\ ~Executing(t, l) /\ Update(t, [Top(t) EXCEPT !.pc = "Add"])
  BY <1>0 DEF LoadOpen, At, Goto, listVars
<1>2. PICK m : m = stack[t][n].added
  OBVIOUS
<1>3. /\ n \in Nat /\ n >= 1 /\ DOMAIN stack[t] = 1 .. n /\ Top(t) = stack[t][n]
      /\ l \in Libs /\ m \in Nat /\ [Top(t) EXCEPT !.pc = "Add"] = LoadFrame("Add", l, m)
  BY <1>0, <1>1, <1>2, LoadAt
<1>4. CodeStays(t)
  BY LoadIsQuiet, QuietMovesNothing
<1>5. CASE Leave(t)
  <2>1. ~Loading(Top(t))
    BY <1>1 DEF Loading
  <2>2. LoadsStay(t)
    BY <1>1, <1>5, <2>1, QuietReturn
  <2> QED
    BY <1>1, <1>4, <2>2, NothingMoves
<1>6. CASE l \notin loaded /\ ~Executing(t, l) /\ Update(t, LoadFrame("Add", l, m))
  <2>0. PICK c : c = LoadFrame("Add", l, m)
    OBVIOUS
  <2>1. TopChanges(t, n, c) /\ c.op = "Load" /\ c.lib = l /\ c.pc = "Add"
    BY <1>0, <1>1, <1>6, <2>0, LoadChanges DEF LoadFrame
  <2>2. /\ n \in 1 .. n /\ \A i \in 1 .. n : i = n \/ i \in 1 .. n - 1
        /\ \A i \in 1 .. n - 1 : i \in 1 .. n
    BY <1>3
  <2>3. LoadsLast(t)
    <3>1. ASSUME NEW i \in 1 .. n, Loading(stack[t][i]) PROVE i \in 1 .. n - 1 /\ stack[t][i].added \in Nat
      <4>1. Shaped(stack[t][i]) /\ stack[t][i].op = "Load" /\ i # n
        BY <1>1, <1>3, <3>1, StackOf DEF StackOK, Loading
      <4>2. Len(Adds[stack[t][i].lib]) \in Nat
        BY <4>1, RegistryAssumption DEF Shaped
      <4> QED
        BY <2>2, <4>1, <4>2 DEF Shaped
    <3> QED
      BY <1>3, <2>1, <3>1 DEF LoadsLast, TopChanges
  <2>4. AddedStays
    BY <1>1, <2>1, <2>3, AddedAreNumbers, AddedKept DEF TopChanges
  <2>5. OneLoad'
    <3>1. ASSUME NEW u \in Threads, NEW i, i \in DOMAIN stack[u], Loading(stack[u][i])
          PROVE  stack[u][i].lib # l
      <4>1. ~Executing(u, l)
        BY <1>1, <1>3, <1>6 DEF LoaderFree
      <4> QED
        BY <3>1, <4>1 DEF Executing, Calls, Range, Loading
    <3>2. ASSUME NEW u \in Threads, NEW i, i \in DOMAIN stack'[u], Loading(stack'[u][i])
          PROVE  \/ u = t /\ i = n /\ stack'[u][i].lib = l
                 \/ /\ i \in DOMAIN stack[u] /\ Loading(stack[u][i])
                    /\ stack'[u][i] = stack[u][i] /\ stack'[u][i].lib # l
      BY <1>3, <2>1, <2>2, <3>1, <3>2 DEF TopChanges
    <3>3. ASSUME NEW u \in Threads, NEW v \in Threads, NEW i, i \in DOMAIN stack'[u],
                 NEW j, j \in DOMAIN stack'[v], Loading(stack'[u][i]), Loading(stack'[v][j]),
                 stack'[u][i].lib = stack'[v][j].lib
          PROVE  u = v /\ i = j
      <4>1. CASE u = t /\ i = n /\ stack'[u][i].lib = l
        BY <3>2, <3>3, <4>1
      <4>2. CASE /\ i \in DOMAIN stack[u] /\ Loading(stack[u][i])
                 /\ stack'[u][i] = stack[u][i] /\ stack'[u][i].lib # l
        <5>1. /\ j \in DOMAIN stack[v] /\ Loading(stack[v][j]) /\ stack'[v][j] = stack[v][j]
          BY <3>2, <3>3, <4>2
        <5> QED
          BY <3>3, <4>2, <5>1 DEF RInv, OneLoad
      <4> QED
        BY <3>2, <3>3, <4>1, <4>2
    <3>4. ASSUME NEW u \in Threads, NEW i, i \in DOMAIN stack'[u], Loading(stack'[u][i])
          PROVE  stack'[u][i].lib \notin loaded
      BY <1>6, <3>2, <3>4 DEF RInv, OneLoad
    <3> QED
      BY <1>1, <3>3, <3>4 DEF OneLoad, Loading
  <2>6. ActiveOK'
    <3>1. c.lib = stack[t][n].lib
      BY <1>0, <1>3, <2>1
    <3> QED
      BY <1>1, <1>3, <2>1, <3>1, ActiveUnderChange DEF RInv
  <2>7. AllDistinct' /\ Apart' /\ StartOK'
    BY <1>1, <1>4, <2>4, WaitingKept DEF RInv, ActiveStays
  <2> QED
    BY <2>5, <2>6, <2>7 DEF RInv
<1> QED
  BY <1>1, <1>3, <1>5, <1>6

\* It goes on, with its library active or not.
LEMMA GoingOnMoves ==
  ASSUME SInv, SInv', RTypes, RInv, NEW t \in Threads, LoadActivate(t) \/ LoadGlobal(t)
  PROVE  RInv'
<1>0. PICK n, l : n = Depth(t) /\ l = Top(t).lib
  OBVIOUS
<1>1. /\ stack[t] # <<>> /\ Top(t).op = "Load" /\ Top(t).pc \in {"Activate", "Add"}
      /\ UNCHANGED <<fns, loaded, started>>
  BY DEF LoadActivate, LoadGlobal, At, listVars, libraryVars
<1>2. PICK m : m = stack[t][n].added
  OBVIOUS
<1>3. /\ n \in Nat /\ n >= 1 /\ DOMAIN stack[t] = 1 .. n /\ Top(t) = stack[t][n] /\ stack[t][n].lib = l
      /\ l \in Libs /\ m \in Nat /\ \A pc : [Top(t) EXCEPT !.pc = pc] = LoadFrame(pc, l, m)
  BY <1>0, <1>1, <1>2, LoadAt
<1>4. CodeStays(t)
  BY LoadIsQuiet, QuietMovesNothing
<1>5. Loading(stack[t][n])
  BY <1>1, <1>3 DEF Loading
<1>6. DOMAIN active = Threads
  BY DEF RTypes, VarTypes
<1>7. PICK pc \in {"Add", "Close"} :
        /\ \/ Update(t, LoadFrame(pc, l, m))
           \/ \E d \in UserCalls : Become(t, Append(Front(stack[t]), LoadFrame(pc, l, m)) \o <<d>>)
        /\ \/ active' = active
           \/ pc = "Add" /\ active' = [active EXCEPT ![t] = [lib |-> l, fns |-> <<>>]]
  <2>1. CASE LoadActivate(t)
    BY <1>0, <1>3, <2>1 DEF LoadActivate, Goto
  <2>2. CASE LoadGlobal(t)
    <3>1. \A d \in Globals[l] : d \in UserCalls
      BY <1>3, CallsAssumption
    <3> QED
      BY <1>0, <1>3, <2>2, <3>1 DEF LoadGlobal, Goto, GotoAndEnter, listVars
  <2> QED
    BY <2>1, <2>2
<1>8. PICK c : c = LoadFrame(pc, l, m)
  OBVIOUS
<1>9. TopChanges(t, n, c) /\ c.op = "Load" /\ c.lib = l /\ c.pc = pc /\ c.added = m /\ Loading(c)
  BY <1>0, <1>1, <1>7, <1>8, LoadChanges DEF LoadFrame, Loading
<1>10. LoadsGoOn(t)
  <2>1. c.added >= stack[t][n].added
    BY <1>2, <1>3, <1>9
  <2> QED
    BY <1>3, <1>5, <1>9, <2>1, LoadsUnderChange
<1>11. AddedStays
  BY <1>1, <1>9, <1>10, AddedAreNumbers, AddedKept DEF TopChanges, LoadsGoOn
<1>12. OneLoad'
  BY <1>1, <1>9, <1>10, OneLoadKept DEF TopChanges, RInv
<1>13. ActiveOK'
  <2>1. CASE active' = active
    BY <1>3, <1>9, <2>1, ActiveUnderChange DEF RInv
  <2>2. CASE active' = [active EXCEPT ![t] = [lib |-> l, fns |-> <<>>]]
    <3> SUFFICES ASSUME NEW u \in Threads, NEW k, k \in DOMAIN active'[u].fns
                 PROVE  /\ active'[u].fns[k] \in FnsOf(active'[u].lib) /\ active'[u].lib \in Libs
                        /\ \E i \in DOMAIN stack'[u] :
                             /\ stack'[u][i].op = "Load" /\ stack'[u][i].pc \in {"Add", "Close"}
                             /\ stack'[u][i].lib = active'[u].lib
      BY DEF ActiveOK
    <3>1. u # t
      BY <1>6, <2>2
    <3>2. active'[u] = active[u] /\ stack'[u] = stack[u]
      BY <1>9, <2>2, <3>1 DEF TopChanges
    <3> QED
      BY <3>2 DEF RInv, ActiveOK
  <2> QED
    BY <1>7, <2>1, <2>2
<1>14. ActiveStays
  BY <1>6, <1>7 DEF ActiveStays
<1>15. AllDistinct' /\ Apart' /\ StartOK'
  BY <1>1, <1>4, <1>11, <1>14, WaitingKept DEF RInv
<1> QED
  BY <1>12, <1>13, <1>15 DEF RInv

\* A list with one more member.
LEMMA AppendOne ==
  ASSUME NEW s \in Seq(Fns), NEW f \in Fns
  PROVE  /\ Append(s, f) \in Seq(Fns)
         /\ \A g : g \in Range(Append(s, f)) => g \in Range(s) \/ g = f
         /\ f \notin Range(s) /\ Distinct(s) => Distinct(Append(s, f))
<1>1. /\ Len(s) \in Nat /\ DOMAIN s = 1 .. Len(s) /\ DOMAIN Append(s, f) = 1 .. Len(s) + 1
      /\ Append(s, f)[Len(s) + 1] = f /\ \A i \in 1 .. Len(s) : Append(s, f)[i] = s[i]
      /\ Append(s, f) \in Seq(Fns)
  OBVIOUS
<1>2. \A i \in 1 .. Len(s) + 1 : i \in 1 .. Len(s) \/ i = Len(s) + 1
  BY <1>1
<1> QED
  BY <1>1, <1>2 DEF Range, Distinct

\* A load adds the next function: nobody has added it, so it waits nowhere yet.
LEMMA AddMoves ==
  ASSUME SInv, SInv', RTypes, Counters, RInv, NEW t \in Threads, At(t, "Load", "Add"),
         LoadAdd(t), active[t].lib = Top(t).lib
  PROVE  RInv'
<1>0. PICK n, l, m : n = Depth(t) /\ l = Top(t).lib /\ m = stack[t][n].added
  OBVIOUS
<1>1. /\ stack[t] # <<>> /\ Top(t).op = "Load" /\ Top(t).pc = "Add" /\ active[t].lib = l
  BY <1>0 DEF At
<1>2. /\ n \in Nat /\ n >= 1 /\ DOMAIN stack[t] = 1 .. n /\ Top(t) = stack[t][n] /\ stack[t][n].lib = l
      /\ l \in Libs /\ m \in Nat /\ Adds[l] \in Seq(Fns)
      /\ stack[t][n] = LoadFrame(stack[t][n].pc, l, m)
  BY <1>0, <1>1, LoadAt
<1>3. PICK f0 : f0 = Adds[l][m + 1]
  OBVIOUS
<1>4. /\ Top(t).added < Len(Adds[l]) /\ UNCHANGED <<fns, loaded, started>>
      /\ active' = [active EXCEPT ![t].fns = Append(@, f0)]
      /\ Update(t, [Top(t) EXCEPT !.added = @ + 1])
  BY <1>0, <1>1, <1>2, <1>3 DEF LoadAdd, libraryVars
<1>5. m < Len(Adds[l]) /\ Len(Adds[l]) \in Nat /\ m + 1 \in DOMAIN Adds[l] /\ m + 1 \in Nat
  BY <1>0, <1>2, <1>4
<1>6. f0 \in Fns /\ f0 \in FnsOf(l) /\ LibOf(f0) = l
  <2>1. f0 \in FnsOf(l)
    BY <1>3, <1>5 DEF FnsOf, Range
  <2> QED
    BY <1>2, <2>1, LibraryOf
<1>7. PICK c : c = LoadFrame("Add", l, m + 1)
  OBVIOUS
<1>8. [Top(t) EXCEPT !.added = @ + 1] = c
  BY <1>1, <1>2, <1>7 DEF LoadFrame
<1>9. TopChanges(t, n, c) /\ c.op = "Load" /\ c.lib = l /\ c.pc = "Add" /\ c.added = m + 1 /\ Loading(c)
  BY <1>0, <1>1, <1>4, <1>7, <1>8, LoadChanges DEF LoadFrame, Loading
<1>10. CodeStays(t)
  BY LoadIsQuiet, QuietMovesNothing
<1>11. Loading(stack[t][n])
  BY <1>1, <1>2 DEF Loading
<1>12. LoadsGoOn(t)
  <2>1. c.added >= stack[t][n].added
    BY <1>0, <1>2, <1>9
  <2> QED
    BY <1>2, <1>9, <1>11, <2>1, LoadsUnderChange
<1>13. AddedStays
  BY <1>4, <1>9, <1>12, AddedAreNumbers, AddedKept DEF TopChanges, LoadsGoOn
<1>14. OneLoad'
  BY <1>4, <1>9, <1>12, OneLoadKept DEF TopChanges, RInv
<1>15. /\ active[t].fns \in Seq(Fns) /\ active'[t].fns = Append(active[t].fns, f0)
       /\ active'[t].lib = active[t].lib
       /\ \A u \in Threads \ {t} : active'[u] = active[u]
  <2>1. active \in [Threads -> [lib : LibOrNone, fns : Seq(Fns)]]
    BY DEF RTypes, VarTypes
  <2> QED
    BY <1>4, <2>1
<1>16. ActiveOK'
  <2>1. \A k \in DOMAIN active'[t].fns : active'[t].fns[k] \in FnsOf(l)
    <3>1. \A k \in DOMAIN active[t].fns : active[t].fns[k] \in FnsOf(l)
      BY <1>1 DEF RInv, ActiveOK
    <3>2. \A g : g \in Range(active'[t].fns) => g \in Range(active[t].fns) \/ g = f0
      BY <1>6, <1>15, AppendOne
    <3> QED
      BY <1>6, <3>1, <3>2 DEF Range
  <2> QED
    BY <1>1, <1>2, <1>9, <1>15, <2>1, ActiveUnderChange DEF RInv
<1>17. ~Added(f0)
  <2>1. l \notin loaded
    BY <1>2, <1>11 DEF RInv, OneLoad
  <2>2. ASSUME NEW u \in Threads, NEW i \in DOMAIN stack[u], Loading(stack[u][i]), stack[u][i].lib = l,
               NEW j \in DOMAIN Adds[l], j <= stack[u][i].added, Adds[l][j] = f0
        PROVE  FALSE
    <3>1. n \in DOMAIN stack[t]
      BY <1>2
    <3>2. u = t /\ i = n
      BY <1>2, <1>11, <2>2, <3>1 DEF RInv, OneLoad
    <3>3. j = m + 1
      BY <1>2, <1>3, <1>5, <2>2, FunctionsAssumption
    <3>4. j <= m
      BY <1>0, <2>2, <3>2
    <3> QED
      BY <1>2, <3>3, <3>4
  <2> QED
    BY <1>6, <2>1, <2>2 DEF Added
<1>18. Added(f0)'
  <2>1. n \in DOMAIN stack'[t] /\ stack'[t][n] = c
    BY <1>9 DEF TopChanges
  <2>2. m + 1 <= c.added
    BY <1>5, <1>9
  <2> QED
    BY <1>3, <1>5, <1>6, <1>9, <2>1, <2>2 DEF Added, Loading
<1>19. \A p \in Places, a \in Types \cup Threads, i \in Nat : ~Lies(f0, p, a, i)
  BY <1>6, <1>17 DEF RInv, StartOK
<1>20. ASSUME NEW f, NEW p, NEW a, NEW i, Lies(f, p, a, i)'
       PROVE  Lies(f, p, a, i) \/ (f = f0 /\ p = "Active" /\ a = t /\ i = 0)
  <2>1. CASE p = "List"
    BY <1>4, <1>20, <2>1 DEF Lies
  <2>2. CASE p = "Active"
    <3>1. a \in Threads /\ i = 0 /\ f \in Range(active'[a].fns)
      BY <1>20, <2>2 DEF Lies
    <3>2. CASE a = t
      <4>1. f \in Range(active[t].fns) \/ f = f0
        BY <1>6, <1>15, <3>1, <3>2, AppendOne
      <4> QED
        BY <2>2, <3>1, <3>2, <4>1 DEF Lies
    <3>3. CASE a # t
      BY <1>15, <2>2, <3>1, <3>3 DEF Lies
    <3> QED
      BY <3>2, <3>3
  <2>3. CASE p = "Loop"
    BY <1>10, <1>20, <2>3, LoopsBack
  <2> QED
    BY <1>20, <2>1, <2>2, <2>3 DEF Lies
<1>21. AllDistinct'
  <2>1. \A ty \in Types : Distinct(fns'[ty])
    BY <1>4 DEF RInv, AllDistinct
  <2>2. ASSUME NEW u \in Threads PROVE Distinct(active'[u].fns)
    <3>1. CASE u = t
      <4>1. f0 \notin Range(active[t].fns)
        BY <1>19 DEF Lies, Places
      <4>2. Distinct(active[t].fns)
        BY DEF RInv, AllDistinct
      <4>3. PICK s : s = active[t].fns
        OBVIOUS
      <4>4. Distinct(Append(s, f0))
        BY <1>6, <1>15, <4>1, <4>2, <4>3, AppendOne
      <4> QED
        BY <1>15, <3>1, <4>3, <4>4
    <3>2. CASE u # t
      BY <1>15, <3>2 DEF RInv, AllDistinct
    <3> QED
      BY <3>1, <3>2
  <2>3. ASSUME NEW u \in Threads, NEW i, i \in DOMAIN stack'[u], stack'[u][i].op = "Run"
        PROVE  Distinct(stack'[u][i].toRun)
    <3>1. CASE stack'[u][i].toRun = <<>>
      BY <3>1 DEF Distinct
    <3>2. CASE stack'[u][i].toRun # <<>>
      <4>1. i \in DOMAIN stack[u] /\ stack[u][i].op = "Run" /\ stack'[u][i].toRun = stack[u][i].toRun
        BY <1>10, <2>3, <3>2 DEF CodeStays
      <4> QED
        BY <4>1 DEF RInv, AllDistinct
    <3> QED
      BY <3>1, <3>2
  <2> QED
    BY <2>1, <2>2, <2>3 DEF AllDistinct, Distinct
<1>22. Apart'
  <2> SUFFICES ASSUME NEW f \in Fns, NEW p \in Places, NEW q \in Places, NEW a \in Types \cup Threads,
                      NEW b \in Types \cup Threads, NEW i \in Nat, NEW j \in Nat,
                      Lies(f, p, a, i)', Lies(f, q, b, j)'
               PROVE  p = q /\ a = b /\ i = j
    BY DEF Apart
  <2>1. Lies(f, p, a, i) \/ (f = f0 /\ p = "Active" /\ a = t /\ i = 0)
    BY <1>20
  <2>2. Lies(f, q, b, j) \/ (f = f0 /\ q = "Active" /\ b = t /\ j = 0)
    BY <1>20
  <2> QED
    BY <1>19, <2>1, <2>2 DEF RInv, Apart
<1>23. StartOK'
  <2>0. started[f0] = 0
    BY <1>6, <1>17 DEF RInv, StartOK, Counters
  <2> SUFFICES ASSUME NEW f \in Fns
               PROVE  /\ started[f] <= 1
                      /\ \A p \in Places, a \in Types \cup Threads, i \in Nat :
                           Lies(f, p, a, i)' => started[f] = 0 /\ Added(f)'
                      /\ started[f] > 0 => Added(f)'
                      /\ Runs(f)' => started[f] > 0
    BY <1>4 DEF StartOK
  <2>1. ASSUME NEW p \in Places, NEW a \in Types \cup Threads, NEW i \in Nat, Lies(f, p, a, i)'
        PROVE  started[f] = 0 /\ Added(f)'
    <3>1. Lies(f, p, a, i) \/ f = f0
      BY <1>20, <2>1
    <3> QED
      BY <1>13, <1>18, <2>0, <3>1 DEF RInv, StartOK, AddedStays
  <2> QED
    BY <1>10, <1>13, <2>1, RunsBack DEF RInv, StartOK, AddedStays
<1> QED
  BY <1>14, <1>16, <1>21, <1>22, <1>23 DEF RInv

\* It takes the lock to make its library active, or to run what it has added.
LEMMA LoadLockMoves ==
  ASSUME SInv, SInv', RTypes, RInv, NEW t \in Threads,
         \/ LoadAdd(t) /\ active[t].lib # Top(t).lib
         \/ LoadClose(t) /\ active[t].lib = Top(t).lib
         \/ SubscribeLock(t)
  PROVE  RInv'
<1>1. /\ stack[t] # <<>> /\ Top(t).op \in {"Subscribe", "Load"}
      /\ Top(t).op = "Load" => Top(t).pc \in {"Add", "Close"}
      /\ Hosts(Top(t)) => ref[t] = 0
      /\ \E pc \in {"Activate", "Unlock", "Insert"} : LockAndProcess(t, pc)
  BY DEF LoadAdd, LoadClose, SubscribeLock, At, Hosts
<1> QED
  BY <1>1, LockMoves

\* A load ends: its library is loaded.
LEMMA EndMoves ==
  ASSUME SInv, SInv', RTypes, RInv, NEW t \in Threads,
         LoadUnlock(t) \/ (LoadClose(t) /\ active[t].lib # Top(t).lib)
  PROVE  RInv'
<1>0. PICK n, l : n = Depth(t) /\ l = Top(t).lib
  OBVIOUS
<1>1. /\ stack[t] # <<>> /\ Top(t).op = "Load" /\ Top(t).pc \in {"Unlock", "Close"} /\ Leave(t)
      /\ Top(t).pc = "Close" => active[t].lib # l
      /\ loaded' = loaded \cup {l} /\ UNCHANGED <<fns, active, started>>
  BY <1>0 DEF LoadUnlock, LoadClose, At, listVars
<1>2. /\ n \in Nat /\ n >= 1 /\ DOMAIN stack[t] = 1 .. n /\ Top(t) = stack[t][n] /\ stack[t][n].lib = l
  BY <1>0, <1>1, LoadAt
<1>3. CodeStays(t)
  BY LoadIsQuiet, QuietMovesNothing
<1>4. /\ DOMAIN stack' = Threads /\ \A u \in Threads \ {t} : stack'[u] = stack[u]
      /\ DOMAIN stack'[t] = 1 .. n - 1 /\ \A i \in 1 .. n - 1 : stack'[t][i] = stack[t][i]
  BY <1>0, <1>1, Leaves DEF HasLeft, OthersStay
<1>5. /\ n \in 1 .. n /\ \A i \in 1 .. n : i = n \/ i \in 1 .. n - 1
      /\ \A i \in 1 .. n - 1 : i \in 1 .. n /\ i # n
  BY <1>2
<1>6. ASSUME NEW u \in Threads, NEW i, i \in DOMAIN stack'[u]
      PROVE  i \in DOMAIN stack[u] /\ stack'[u][i] = stack[u][i] /\ ~(u = t /\ i = n)
  <2>1. CASE u = t
    BY <1>2, <1>4, <1>5, <1>6, <2>1
  <2>2. CASE u # t
    BY <1>4, <1>6, <2>2
  <2> QED
    BY <2>1, <2>2
<1>7. ASSUME NEW u \in Threads, NEW i, i \in DOMAIN stack[u]
      PROVE  (u = t /\ i = n) \/ (i \in DOMAIN stack'[u] /\ stack'[u][i] = stack[u][i])
  <2>1. CASE u = t
    BY <1>2, <1>4, <1>5, <1>7, <2>1
  <2>2. CASE u # t
    BY <1>4, <1>7, <2>2
  <2> QED
    BY <2>1, <2>2
<1>8. Loading(stack[t][n])
  BY <1>1, <1>2 DEF Loading
<1>9. OneLoad'
  <2>1. ASSUME NEW u \in Threads, NEW v \in Threads, NEW i, i \in DOMAIN stack'[u],
               NEW j, j \in DOMAIN stack'[v], Loading(stack'[u][i]), Loading(stack'[v][j]),
               stack'[u][i].lib = stack'[v][j].lib
        PROVE  u = v /\ i = j
    BY <1>6, <2>1 DEF RInv, OneLoad
  <2>2. ASSUME NEW u \in Threads, NEW i, i \in DOMAIN stack'[u], Loading(stack'[u][i])
        PROVE  stack'[u][i].lib \notin loaded'
    <3>1. i \in DOMAIN stack[u] /\ Loading(stack[u][i]) /\ stack'[u][i] = stack[u][i] /\ ~(u = t /\ i = n)
      BY <1>6, <2>2
    <3>2. n \in DOMAIN stack[t]
      BY <1>2
    <3>3. stack[u][i].lib # l
      BY <1>2, <1>8, <3>1, <3>2 DEF RInv, OneLoad
    <3> QED
      BY <1>1, <3>1, <3>3 DEF RInv, OneLoad
  <2> QED
    BY <2>1, <2>2 DEF OneLoad, Loading
<1>10. AddedStays
  <2> SUFFICES ASSUME NEW f \in Fns, Added(f) PROVE Added(f)'
    BY DEF AddedStays
  <2>1. CASE LibOf(f) \in loaded
    BY <1>1, <2>1 DEF Added
  <2>2. CASE LibOf(f) = l
    BY <1>1, <2>2 DEF Added
  <2>3. CASE LibOf(f) \notin loaded /\ LibOf(f) # l
    <3>1. PICK u \in Threads : \E i \in DOMAIN stack[u] :
            /\ Loading(stack[u][i]) /\ stack[u][i].lib = LibOf(f)
            /\ \E j \in DOMAIN Adds[LibOf(f)] : j <= stack[u][i].added /\ Adds[LibOf(f)][j] = f
      BY <2>3 DEF Added
    <3>2. PICK i \in DOMAIN stack[u] :
            /\ Loading(stack[u][i]) /\ stack[u][i].lib = LibOf(f)
            /\ \E j \in DOMAIN Adds[LibOf(f)] : j <= stack[u][i].added /\ Adds[LibOf(f)][j] = f
      BY <3>1
    <3>3. i \in DOMAIN stack'[u] /\ stack'[u][i] = stack[u][i]
      BY <1>2, <1>7, <2>3, <3>2
    <3> QED
      BY <3>2, <3>3 DEF Added
  <2> QED
    BY <2>1, <2>2, <2>3
<1>11. ActiveOK'
  <2> SUFFICES ASSUME NEW u \in Threads, NEW k, k \in DOMAIN active'[u].fns
               PROVE  /\ active'[u].fns[k] \in FnsOf(active'[u].lib) /\ active'[u].lib \in Libs
                      /\ \E i \in DOMAIN stack'[u] :
                           /\ stack'[u][i].op = "Load" /\ stack'[u][i].pc \in {"Add", "Close"}
                           /\ stack'[u][i].lib = active'[u].lib
    BY DEF ActiveOK
  <2>1. active'[u] = active[u] /\ k \in DOMAIN active[u].fns
    BY <1>1
  <2>2. PICK i \in DOMAIN stack[u] : /\ stack[u][i].op = "Load" /\ stack[u][i].pc \in {"Add", "Close"}
                                     /\ stack[u][i].lib = active[u].lib
    BY <2>1 DEF RInv, ActiveOK
  <2>3. ~(u = t /\ i = n)
    BY <1>1, <1>2, <2>2
  <2>4. i \in DOMAIN stack'[u] /\ stack'[u][i] = stack[u][i]
    BY <1>7, <2>3
  <2> QED
    BY <2>1, <2>2, <2>4 DEF RInv, ActiveOK
<1>12. AllDistinct' /\ Apart' /\ StartOK'
  BY <1>1, <1>3, <1>10, WaitingKept DEF RInv, ActiveStays
<1> QED
  BY <1>9, <1>11, <1>12 DEF RInv

-----------------------------------------------------------------------------
(* The steps of a loop over functions. *)

\* They leave the loads alone,
LEMMA LoadsKept ==
  ASSUME SInv, SInv', RInv, NEW t \in Threads, LoadsStay(t),
         DOMAIN stack' = Threads, \A u \in Threads \ {t} : stack'[u] = stack[u],
         UNCHANGED <<loaded, active>>
  PROVE  OneLoad' /\ ActiveOK' /\ AddedStays
<1>1. LoadsGoOn(t)
  BY LoadsGoOnIfStay
<1>2. AddedStays
  BY <1>1, AddedAreNumbers, AddedKept DEF LoadsGoOn
<1>3. OneLoad'
  BY <1>1, OneLoadKept DEF RInv
<1>4. ActiveOK'
  BY ActiveKept DEF RInv
<1> QED
  BY <1>2, <1>3, <1>4

\* take the functions of a type from its list,
LEMMA TakeMoves ==
  ASSUME SInv, SInv', RTypes, RInv, NEW t \in Threads, NEW n \in Nat, n >= 1, DOMAIN stack[t] = 1 .. n,
         Kept(t, n - 1), stack[t][n].op = "Run", LoopTakes(t, n), UNCHANGED <<loaded, active>>
  PROVE  RInv'
<1>0. PICK ty : ty = stack[t][n].type
  OBVIOUS
<1>1. /\ ty \in Types /\ DOMAIN stack'[t] = 1 .. n
      /\ stack'[t][n].op = "Run" /\ stack'[t][n].toRun = fns[ty]
      /\ fns' = [fns EXCEPT ![ty] = <<>>] /\ started' = started
  BY <1>0 DEF LoopTakes, RunFrame
<1>2. /\ n \in 1 .. n /\ \A i \in 1 .. n : i = n \/ i \in 1 .. n - 1
      /\ \A i \in 1 .. n - 1 : i \in 1 .. n /\ i # n
  OBVIOUS
<1>3. /\ DOMAIN stack' = Threads /\ \A u \in Threads \ {t} : stack'[u] = stack[u]
      /\ \A i \in 1 .. n - 1 : stack'[t][i] = stack[t][i]
  BY DEF Kept
<1>4. ASSUME NEW u \in Threads, NEW i, i \in DOMAIN stack'[u]
      PROVE  i \in DOMAIN stack[u] /\ ((u = t /\ i = n) \/ stack'[u][i] = stack[u][i])
  <2>1. CASE u = t
    BY <1>1, <1>2, <1>3, <1>4, <2>1
  <2>2. CASE u # t
    BY <1>3, <1>4, <2>2
  <2> QED
    BY <2>1, <2>2
<1>5. LoadsStay(t)
  BY <1>1, <1>2, <1>3 DEF LoadsStay, Loading
<1>6. OneLoad' /\ ActiveOK' /\ AddedStays
  BY <1>3, <1>5, LoadsKept
<1>7. DOMAIN fns = Types
  BY DEF RTypes, VarTypes
<1>8. ASSUME NEW f, NEW p, NEW a, NEW i, Lies(f, p, a, i)'
      PROVE  \/ /\ Lies(f, p, a, i)
                /\ ~(p = "List" /\ a = ty) /\ ~(p = "Loop" /\ a = t /\ i = n)
             \/ /\ p = "Loop" /\ a = t /\ i = n /\ Lies(f, "List", ty, 0)
  <2>1. CASE p = "List"
    <3>1. a \in Types /\ i = 0 /\ f \in Range(fns'[a])
      BY <1>8, <2>1 DEF Lies
    <3>2. a # ty
      BY <1>1, <1>7, <3>1 DEF Range
    <3> QED
      BY <1>1, <1>7, <2>1, <3>1, <3>2 DEF Lies
  <2>2. CASE p = "Active"
    BY <1>8, <2>2 DEF Lies
  <2>3. CASE p = "Loop"
    <3>1. /\ a \in Threads /\ i \in DOMAIN stack'[a] /\ stack'[a][i].op = "Run"
          /\ f \in Range(stack'[a][i].toRun)
      BY <1>8, <2>3 DEF Lies
    <3>2. CASE a = t /\ i = n
      BY <1>1, <2>3, <3>1, <3>2 DEF Lies
    <3>3. CASE ~(a = t /\ i = n)
      BY <1>4, <2>3, <3>1, <3>3 DEF Lies
    <3> QED
      BY <3>2, <3>3
  <2> QED
    BY <1>8, <2>1, <2>2, <2>3 DEF Lies
<1>9. ASSUME NEW f, Runs(f)' PROVE Runs(f)
  <2>1. PICK u \in Threads : \E i : /\ i \in DOMAIN stack'[u]
                                    /\ stack'[u][i].op = "Function" /\ stack'[u][i].fn = f
    BY <1>9 DEF Runs
  <2>2. PICK i : i \in DOMAIN stack'[u] /\ stack'[u][i].op = "Function" /\ stack'[u][i].fn = f
    BY <2>1
  <2> QED
    BY <1>1, <1>4, <2>2 DEF Runs
<1>10. AllDistinct'
  <2>1. ASSUME NEW q \in Types PROVE Distinct(fns'[q])
    <3>1. CASE q = ty
      BY <1>1, <1>7, <3>1 DEF Distinct
    <3>2. CASE q # ty
      BY <1>1, <1>7, <3>2 DEF RInv, AllDistinct
    <3> QED
      BY <3>1, <3>2
  <2>2. ASSUME NEW u \in Threads, NEW i, i \in DOMAIN stack'[u], stack'[u][i].op = "Run"
        PROVE  Distinct(stack'[u][i].toRun)
    <3>1. CASE u = t /\ i = n
      BY <1>1, <3>1 DEF RInv, AllDistinct
    <3>2. CASE ~(u = t /\ i = n)
      BY <1>4, <2>2, <3>2 DEF RInv, AllDistinct
    <3> QED
      BY <3>1, <3>2
  <2> QED
    BY <2>1, <2>2 DEF RInv, AllDistinct, Distinct
<1>11. "List" \in Places /\ 0 \in Nat /\ ty \in Types \cup Threads
  BY <1>1 DEF Places
<1>12. Apart'
  <2> SUFFICES ASSUME NEW f \in Fns, NEW p \in Places, NEW q \in Places, NEW a \in Types \cup Threads,
                      NEW b \in Types \cup Threads, NEW i \in Nat, NEW j \in Nat,
                      Lies(f, p, a, i)', Lies(f, q, b, j)'
               PROVE  p = q /\ a = b /\ i = j
    BY DEF Apart
  <2>1. \/ Lies(f, p, a, i) /\ ~(p = "List" /\ a = ty)
        \/ p = "Loop" /\ a = t /\ i = n /\ Lies(f, "List", ty, 0)
    BY <1>8
  <2>2. \/ Lies(f, q, b, j) /\ ~(q = "List" /\ b = ty)
        \/ q = "Loop" /\ b = t /\ j = n /\ Lies(f, "List", ty, 0)
    BY <1>8
  <2> QED
    BY <1>11, <2>1, <2>2 DEF RInv, Apart
<1>13. StartOK'
  <2> SUFFICES ASSUME NEW f \in Fns
               PROVE  /\ started[f] <= 1
                      /\ \A p \in Places, a \in Types \cup Threads, i \in Nat :
                           Lies(f, p, a, i)' => started[f] = 0 /\ Added(f)'
                      /\ started[f] > 0 => Added(f)'
                      /\ Runs(f)' => started[f] > 0
    BY <1>1 DEF StartOK
  <2>1. ASSUME NEW p \in Places, NEW a \in Types \cup Threads, NEW i \in Nat, Lies(f, p, a, i)'
        PROVE  started[f] = 0 /\ Added(f)'
    <3>1. Lies(f, p, a, i) \/ Lies(f, "List", ty, 0)
      BY <1>8, <2>1
    <3> QED
      BY <1>6, <1>11, <3>1 DEF RInv, StartOK, AddedStays
  <2> QED
    BY <1>6, <1>9, <2>1 DEF RInv, StartOK, AddedStays
<1> QED
  BY <1>6, <1>10, <1>12, <1>13 DEF RInv

\* The members of a list but for the first.
LEMMA TailMembers ==
  ASSUME NEW s \in Seq(Fns), s # <<>>
  PROVE  /\ \A f : f \in Range(Tail(s)) => f \in Range(s)
         /\ Head(s) \in Range(s)
         /\ Distinct(s) => Distinct(Tail(s)) /\ Head(s) \notin Range(Tail(s))
<1>1. /\ Len(s) \in Nat /\ Len(s) >= 1 /\ DOMAIN s = 1 .. Len(s) /\ Head(s) = s[1]
      /\ DOMAIN Tail(s) = 1 .. Len(s) - 1 /\ \A i \in 1 .. Len(s) - 1 : Tail(s)[i] = s[i + 1]
  OBVIOUS
<1>2. /\ 1 \in 1 .. Len(s) /\ \A i \in 1 .. Len(s) - 1 : i + 1 \in 1 .. Len(s) /\ i + 1 # 1
      /\ \A i, j \in 1 .. Len(s) - 1 : i + 1 = j + 1 => i = j
  BY <1>1
<1>3. \A f : f \in Range(Tail(s)) => f \in Range(s)
  BY <1>1, <1>2 DEF Range
<1>4. Head(s) \in Range(s)
  BY <1>1, <1>2 DEF Range
<1>5. ASSUME Distinct(s) PROVE Distinct(Tail(s)) /\ Head(s) \notin Range(Tail(s))
  <2>1. \A i, j \in 1 .. Len(s) : s[i] = s[j] => i = j
    BY <1>1, <1>5 DEF Distinct
  <2>2. \A i, j \in 1 .. Len(s) - 1 : Tail(s)[i] = Tail(s)[j] => i = j
    BY <1>1, <1>2, <2>1
  <2>3. \A i \in 1 .. Len(s) - 1 : Tail(s)[i] # Head(s)
    BY <1>1, <1>2, <2>1
  <2> QED
    BY <1>1, <2>2, <2>3 DEF Distinct, Range
<1> QED
  BY <1>3, <1>4, <1>5

\* and call each of them.
LEMMA CallMoves ==
  ASSUME SInv, SInv', RTypes, Counters, RInv, NEW t \in Threads, NEW n \in Nat, n >= 1,
         DOMAIN stack[t] = 1 .. n, Kept(t, n - 1), stack[t][n].op = "Run", Shaped(stack[t][n]),
         LoopCalls(t, n), UNCHANGED <<loaded, active>>
  PROVE  RInv'
<1>0. PICK s, f0 : s = stack[t][n].toRun /\ f0 = Head(s)
  OBVIOUS
<1>1. /\ s \in Seq(Fns) /\ s # <<>> /\ f0 \in Fns /\ DOMAIN stack'[t] = 1 .. n + 1
      /\ stack'[t][n].op = "Run" /\ stack'[t][n].toRun = Tail(s)
      /\ stack'[t][n + 1].op = "Function" /\ stack'[t][n + 1].fn = f0
      /\ started' = [started EXCEPT ![f0] = @ + 1] /\ fns' = fns
  BY <1>0 DEF LoopCalls, RunFrame, FunctionCall, Shaped
<1>2. /\ n \in 1 .. n /\ \A i \in 1 .. n : i = n \/ i \in 1 .. n - 1
      /\ \A i \in 1 .. n - 1 : i \in 1 .. n /\ i # n
      /\ \A i \in 1 .. n + 1 : i = n + 1 \/ i = n \/ i \in 1 .. n - 1
      /\ \A i \in 1 .. n : i \in 1 .. n + 1
  OBVIOUS
<1>3. /\ DOMAIN stack' = Threads /\ \A u \in Threads \ {t} : stack'[u] = stack[u]
      /\ \A i \in 1 .. n - 1 : stack'[t][i] = stack[t][i]
  BY DEF Kept
<1>4. ASSUME NEW u \in Threads, NEW i, i \in DOMAIN stack'[u]
      PROVE  \/ u = t /\ i = n + 1
             \/ u = t /\ i = n
             \/ i \in DOMAIN stack[u] /\ stack'[u][i] = stack[u][i]
  <2>1. CASE u = t
    BY <1>1, <1>2, <1>3, <1>4, <2>1
  <2>2. CASE u # t
    BY <1>3, <1>4, <2>2
  <2> QED
    BY <2>1, <2>2
<1>5. LoadsStay(t)
  BY <1>1, <1>2, <1>3 DEF LoadsStay, Loading
<1>6. OneLoad' /\ ActiveOK' /\ AddedStays
  BY <1>3, <1>5, LoadsKept
<1>7. Distinct(s)
  BY <1>0, <1>2 DEF RInv, AllDistinct
<1>8. /\ \A f : f \in Range(Tail(s)) => f \in Range(s)
      /\ f0 \in Range(s) /\ Distinct(Tail(s)) /\ f0 \notin Range(Tail(s))
  BY <1>0, <1>1, <1>7, TailMembers
<1>9. Lies(f0, "Loop", t, n) /\ "Loop" \in Places /\ t \in Types \cup Threads
  BY <1>0, <1>2, <1>8 DEF Lies, Places
<1>10. started[f0] = 0 /\ Added(f0)
  BY <1>1, <1>9 DEF RInv, StartOK
<1>11. started'[f0] = 1 /\ \A f \in Fns : f # f0 => started'[f] = started[f]
  BY <1>1, <1>10 DEF Counters
<1>12. ASSUME NEW f, NEW p, NEW a, NEW i, Lies(f, p, a, i)'
       PROVE  Lies(f, p, a, i) /\ (p = "Loop" /\ a = t /\ i = n => f # f0)
  <2>1. CASE p = "List" \/ p = "Active"
    BY <1>1, <1>12, <2>1 DEF Lies
  <2>2. CASE p = "Loop"
    <3>1. /\ a \in Threads /\ i \in DOMAIN stack'[a] /\ stack'[a][i].op = "Run"
          /\ f \in Range(stack'[a][i].toRun)
      BY <1>12, <2>2 DEF Lies
    <3>2. CASE a = t /\ i = n
      BY <1>0, <1>1, <1>2, <1>8, <2>2, <3>1, <3>2 DEF Lies
    <3>3. CASE ~(a = t /\ i = n)
      BY <1>1, <1>4, <2>2, <3>1, <3>3 DEF Lies
    <3> QED
      BY <3>2, <3>3
  <2> QED
    BY <1>12, <2>1, <2>2 DEF Lies
<1>13. ASSUME NEW p \in Places, NEW a \in Types \cup Threads, NEW i \in Nat, Lies(f0, p, a, i)'
       PROVE  FALSE
  <2>1. Lies(f0, p, a, i) /\ ~(p = "Loop" /\ a = t /\ i = n)
    BY <1>12, <1>13
  <2> QED
    BY <1>1, <1>9, <2>1 DEF RInv, Apart
<1>14. ASSUME NEW f, Runs(f)' PROVE Runs(f) \/ f = f0
  <2>1. PICK u \in Threads : \E i : /\ i \in DOMAIN stack'[u]
                                    /\ stack'[u][i].op = "Function" /\ stack'[u][i].fn = f
    BY <1>14 DEF Runs
  <2>2. PICK i : i \in DOMAIN stack'[u] /\ stack'[u][i].op = "Function" /\ stack'[u][i].fn = f
    BY <2>1
  <2> QED
    BY <1>1, <1>4, <2>2 DEF Runs
<1>15. AllDistinct'
  <2>1. ASSUME NEW u \in Threads, NEW i, i \in DOMAIN stack'[u], stack'[u][i].op = "Run"
        PROVE  Distinct(stack'[u][i].toRun)
    <3>1. CASE u = t /\ i = n
      BY <1>1, <1>8, <3>1
    <3>2. CASE ~(u = t /\ i = n)
      BY <1>1, <1>4, <2>1, <3>2 DEF RInv, AllDistinct
    <3> QED
      BY <3>1, <3>2
  <2> QED
    BY <1>1, <2>1 DEF RInv, AllDistinct, Distinct
<1>16. Apart'
  <2> SUFFICES ASSUME NEW f \in Fns, NEW p \in Places, NEW q \in Places, NEW a \in Types \cup Threads,
                      NEW b \in Types \cup Threads, NEW i \in Nat, NEW j \in Nat,
                      Lies(f, p, a, i)', Lies(f, q, b, j)'
               PROVE  p = q /\ a = b /\ i = j
    BY DEF Apart
  <2>1. Lies(f, p, a, i) /\ Lies(f, q, b, j)
    BY <1>12
  <2> QED
    BY <2>1 DEF RInv, Apart
<1>17. StartOK'
  <2> SUFFICES ASSUME NEW f \in Fns
               PROVE  /\ started'[f] <= 1
                      /\ \A p \in Places, a \in Types \cup Threads, i \in Nat :
                           Lies(f, p, a, i)' => started'[f] = 0 /\ Added(f)'
                      /\ started'[f] > 0 => Added(f)'
                      /\ Runs(f)' => started'[f] > 0
    BY DEF StartOK
  <2>1. CASE f = f0
    BY <1>1, <1>6, <1>10, <1>11, <1>13, <2>1 DEF AddedStays
  <2>2. CASE f # f0
    <3>1. started'[f] = started[f]
      BY <1>11, <2>2
    <3>2. \A p \in Places, a \in Types \cup Threads, i \in Nat :
            Lies(f, p, a, i)' => started[f] = 0 /\ Added(f)'
      BY <1>6, <1>12 DEF RInv, StartOK, AddedStays
    <3> QED
      BY <1>6, <1>14, <2>2, <3>1, <3>2 DEF RInv, StartOK, AddedStays
  <2> QED
    BY <2>1, <2>2
<1> QED
  BY <1>6, <1>15, <1>16, <1>17 DEF RInv

-----------------------------------------------------------------------------
(* Unloading a library. *)

\* Where no code is unloaded that is in use, nothing of the library is left.
LEMMA UnloadMoves ==
  ASSUME SInv, SInv', RTypes, RInv, AwaitsCode, NEW t \in Threads, NEW l \in Libs, UnloadLibrary(t, l)
  PROVE  RInv'
<1>1. /\ UNCHANGED <<stack, active>> /\ l \in loaded /\ ~CodeInUse(l) /\ loaded' = loaded \ {l}
      /\ fns' = [ty \in Types |-> ForgetFns(l, ty)]
      /\ started' = [f \in Fns |-> IF f \in FnsOf(l) THEN 0 ELSE started[f]]
  BY DEF UnloadLibrary
<1>2. ASSUME NEW u \in Threads, NEW i \in DOMAIN stack[u], stack[u][i].op = "Run",
             NEW f \in Range(stack[u][i].toRun)
      PROVE  f \notin FnsOf(l)
  <2>1. stack[u][i] \in {c \in Calls(u) : c.op = "Run"}
    BY <1>2 DEF Calls, Range
  <2>2. f \in ToRun(u)
    BY <2>1 DEF ToRun
  <2> QED
    BY <1>1, <2>2 DEF CodeInUse
<1>3. ASSUME NEW u \in Threads, NEW i \in DOMAIN stack[u], stack[u][i].op = "Function"
      PROVE  stack[u][i].fn \notin FnsOf(l)
  <2>1. stack[u][i] \in {c \in Calls(u) : c.op = "Function"}
    BY <1>3 DEF Calls, Range
  <2>2. stack[u][i].fn \in Running(u)
    BY <2>1 DEF Running
  <2> QED
    BY <1>1, <2>2 DEF CodeInUse
<1>4. ASSUME NEW ty \in Types
      PROVE  /\ \A f \in Range(fns'[ty]) : f \in Range(fns[ty]) /\ f \notin FnsOf(l)
             /\ Distinct(fns'[ty])
  <2>1. PICK s, S : s = fns[ty] /\ S = Fns \ FnsOf(l)
    OBVIOUS
  <2>2. s \in Seq(Fns) /\ fns'[ty] = Only(s, S)
    BY <1>1, <2>1 DEF RTypes, VarTypes, ForgetFns
  <2>3. PICK r : r = Only(s, S)
    OBVIOUS
  <2>4. /\ r \in Seq(Fns \cap S) /\ \A k \in DOMAIN r : \E m \in DOMAIN s : r[k] = s[m]
    BY <2>2, <2>3, OnlyMembers
  <2>5. Distinct(s) => Distinct(r)
    BY <2>2, <2>3, DistinctOnly
  <2>6. Distinct(s)
    BY <2>1 DEF RInv, AllDistinct
  <2>7. ASSUME NEW f \in Range(r) PROVE f \in Range(s) /\ f \notin FnsOf(l)
    <3>1. PICK k \in DOMAIN r : r[k] = f
      BY DEF Range
    <3>2. f \in S
      BY <2>4, <3>1
    <3> QED
      BY <2>1, <2>4, <3>1, <3>2 DEF Range
  <2> QED
    BY <2>1, <2>2, <2>3, <2>5, <2>6, <2>7
<1>5. ASSUME NEW f, NEW p, NEW a, NEW i, Lies(f, p, a, i)'
      PROVE  Lies(f, p, a, i) /\ f \notin FnsOf(l)
  <2>1. CASE p = "List"
    BY <1>4, <1>5, <2>1 DEF Lies
  <2>2. CASE p = "Active"
    <3>1. a \in Threads /\ i = 0 /\ f \in Range(active[a].fns)
      BY <1>1, <1>5, <2>2 DEF Lies
    <3>2. PICK k \in DOMAIN active[a].fns : active[a].fns[k] = f
      BY <3>1 DEF Range
    <3>3. /\ f \in FnsOf(active[a].lib) /\ active[a].lib \in Libs
          /\ \E j \in DOMAIN stack[a] : Loading(stack[a][j]) /\ stack[a][j].lib = active[a].lib
      BY <3>1, <3>2 DEF RInv, ActiveOK, Loading
    <3>4. active[a].lib # l
      BY <1>1, <3>1, <3>3 DEF RInv, OneLoad
    <3>5. f \notin FnsOf(l)
      BY <3>3, <3>4, LibraryOf
    <3> QED
      BY <2>2, <3>1, <3>5 DEF Lies
  <2>3. CASE p = "Loop"
    BY <1>1, <1>2, <1>5, <2>3 DEF Lies
  <2> QED
    BY <1>5, <2>1, <2>2, <2>3 DEF Lies
<1>6. OneLoad' /\ ActiveOK'
  BY <1>1 DEF RInv, OneLoad, ActiveOK
<1>7. AllDistinct'
  BY <1>1, <1>4 DEF RInv, AllDistinct, Distinct
<1>8. Apart'
  <2> SUFFICES ASSUME NEW f \in Fns, NEW p \in Places, NEW q \in Places, NEW a \in Types \cup Threads,
                      NEW b \in Types \cup Threads, NEW i \in Nat, NEW j \in Nat,
                      Lies(f, p, a, i)', Lies(f, q, b, j)'
               PROVE  p = q /\ a = b /\ i = j
    BY DEF Apart
  <2>1. Lies(f, p, a, i) /\ Lies(f, q, b, j)
    BY <1>5
  <2> QED
    BY <2>1 DEF RInv, Apart
<1>9. StartOK'
  <2> SUFFICES ASSUME NEW f \in Fns
               PROVE  /\ started'[f] <= 1
                      /\ \A p \in Places, a \in Types \cup Threads, i \in Nat :
                           Lies(f, p, a, i)' => started'[f] = 0 /\ Added(f)'
                      /\ started'[f] > 0 => Added(f)'
                      /\ Runs(f)' => started'[f] > 0
    BY DEF StartOK
  <2>1. Runs(f)' => Runs(f) /\ f \notin FnsOf(l)
    BY <1>1, <1>3 DEF Runs
  <2>2. CASE f \in FnsOf(l)
    <3>1. started'[f] = 0
      BY <1>1, <2>2
    <3> QED
      BY <1>5, <2>1, <2>2, <3>1
  <2>3. CASE f \notin FnsOf(l)
    <3>1. started'[f] = started[f]
      BY <1>1, <2>3
    <3>2. LibOf(f) # l
      BY <2>3, FunctionsHaveLibraries
    <3>3. Added(f) => Added(f)'
      BY <1>1, <3>2 DEF Added, Loading
    <3> QED
      BY <1>5, <2>1, <3>1, <3>3 DEF RInv, StartOK
  <2> QED
    BY <2>2, <2>3
<1> QED
  BY <1>6, <1>7, <1>8, <1>9 DEF RInv

-----------------------------------------------------------------------------
(* Every step. *)

\* Those of a load,
LEMMA LoadsMove ==
  ASSUME SInv, SInv', RTypes, Counters, RInv, NEW t \in Threads,
         \/ LoadOpen(t) \/ LoadAdd(t) \/ LoadActivate(t)
         \/ LoadGlobal(t) \/ LoadClose(t) \/ LoadUnlock(t)
  PROVE  RInv'
<1>1. CASE LoadAdd(t)
  <2>1. At(t, "Load", "Add")
    BY <1>1 DEF LoadAdd
  <2> QED
    BY <1>1, <2>1, AddMoves, LoadLockMoves
<1>2. CASE LoadOpen(t)
  BY <1>2, OpenMoves
<1>3. CASE LoadActivate(t) \/ LoadGlobal(t)
  BY <1>3, GoingOnMoves
<1>4. CASE LoadClose(t) \/ LoadUnlock(t)
  BY <1>4, LoadLockMoves, EndMoves
<1> QED
  BY <1>1, <1>2, <1>3, <1>4

\* of the loop over functions and of the functions it calls,
LEMMA LoopsMove ==
  ASSUME SInv, SInv', RTypes, Counters, RInv, NEW t \in Threads,
         \/ RunTake(t) \/ RunCallNext(t) \/ RunRelock(t)
         \/ FunctionBody(t) \/ AddFunctionForUnload(t)
  PROVE  RInv'
<1>1. CASE FunctionBody(t) \/ AddFunctionForUnload(t)
  <2>1. CodeStays(t) /\ LoadsStay(t)
    BY <1>1, FunctionsMoveNothing
  <2>2. UNCHANGED <<fns, active, loaded, started>>
    BY <1>1 DEF FunctionBody, AddFunctionForUnload, listVars, libraryVars
  <2> QED
    BY <2>1, <2>2, NothingMoves
<1>2. CASE RunTake(t) \/ RunCallNext(t) \/ RunRelock(t)
  <2>1. PICK n : n = Depth(t)
    OBVIOUS
  <2>2. /\ n \in Nat /\ n >= 1 /\ DOMAIN stack[t] = 1 .. n /\ Kept(t, n - 1)
        /\ stack[t][n].op = "Run" /\ Shaped(stack[t][n])
        /\ LoopEnds(t, n) \/ LoopTakes(t, n) \/ LoopCalls(t, n) \/ LoopLocks(t, n)
        /\ UNCHANGED <<loaded, active>>
    BY <1>2, <2>1, LoopFrames
  <2>3. CASE LoopEnds(t, n) \/ LoopLocks(t, n)
    <3>1. CodeStays(t) /\ LoadsStay(t)
      BY <1>2, <2>1, <2>3, FunctionsMoveNothing
    <3>2. UNCHANGED <<fns, started>>
      BY <2>3 DEF LoopEnds, LoopLocks
    <3> QED
      BY <2>2, <3>1, <3>2, NothingMoves
  <2>4. CASE LoopTakes(t, n)
    BY <2>2, <2>4, TakeMoves
  <2>5. CASE LoopCalls(t, n)
    BY <2>2, <2>5, CallMoves
  <2> QED
    BY <2>2, <2>3, <2>4, <2>5
<1> QED
  BY <1>1, <1>2

\* and all the others.
LEMMA StepsMove ==
  ASSUME SInv, SInv', RTypes, Counters, RInv, AwaitsCode, [Next]_vars
  PROVE  RInv'
<1>1. CASE UNCHANGED vars
  BY <1>1 DEF vars, singletonVars, listVars, libraryVars, RInv, OneLoad, ActiveOK, AllDistinct, Apart,
    StartOK, Lies, Added, Runs, Loading, Distinct
<1>2. ASSUME NEW t \in Threads, OfSingleton(t) PROVE RInv'
  <2>1. CodeStays(t) /\ LoadsStay(t)
    BY <1>2, SingletonIsQuiet, QuietMovesNothing DEF OfSingleton
  <2>2. UNCHANGED <<fns, active, loaded, started>>
    BY <1>2 DEF OfSingleton, listVars, libraryVars
  <2> QED
    BY <2>1, <2>2, NothingMoves
<1>3. ASSUME NEW t \in Threads,
             \/ ConstructorSubscribe(t) \/ DestructorUnsubscribe(t)
             \/ SubscribeInsert(t) \/ SubscribeUnlock(t) \/ UpdateNext(t)
      PROVE  RInv'
  <2>1. CodeStays(t) /\ LoadsStay(t)
    BY <1>3, SubscribersAreQuiet, QuietMovesNothing
  <2>2. UNCHANGED <<fns, active, loaded, started>>
    BY <1>3 DEF ConstructorSubscribe, DestructorUnsubscribe, SubscribeInsert, SubscribeUnlock,
      UpdateNext, UnlockAndLeave, listVars, libraryVars
  <2> QED
    BY <2>1, <2>2, NothingMoves
<1>4. ASSUME NEW t \in Threads, BeginCall(t) \/ BeginDelete(t) \/ Drop(t) PROVE RInv'
  <2>1. CodeStays(t) /\ LoadsStay(t)
    BY <1>4, BeginIsQuiet, QuietMovesNothing
  <2>2. UNCHANGED <<fns, active, loaded, started>>
    BY <1>4 DEF BeginCall, BeginDelete, Begin, Drop, listVars, libraryVars
  <2> QED
    BY <2>1, <2>2, NothingMoves
<1>5. ASSUME NEW t \in Threads, ConstructorThrow(t) PROVE RInv'
  <2>1. CodeStays(t) /\ LoadsStay(t)
    BY <1>5, QuietThrow, QuietMovesNothing
  <2>2. UNCHANGED <<fns, active, loaded, started>>
    BY <1>5 DEF ConstructorThrow, listVars, libraryVars
  <2> QED
    BY <2>1, <2>2, NothingMoves
<1>6. ASSUME NEW t \in Threads, Step(t) PROVE RInv'
  BY <1>2, <1>3, <1>4, <1>6, LoadLockMoves, LoadsMove, LoopsMove DEF Step
<1> QED
  BY <1>1, <1>4, <1>5, <1>6, UnloadMoves DEF Next

\* It says that functions run once, and while their library is loaded.
LEMMA OnceAndLoaded ==
  ASSUME SInv, Counters, RInv
  PROVE  RunAtMostOnce /\ CalledCodeIsLoaded
<1>1. RunAtMostOnce
  BY DEF RInv, StartOK, RunAtMostOnce
<1>2. ASSUME NEW f \in Fns, Added(f)
      PROVE  LibOf(f) \in loaded \/ \E u \in Threads : Executing(u, LibOf(f))
  BY <1>2 DEF Added, Executing, Calls, Range, Loading
<1>3. ASSUME NEW t \in Threads, NEW f \in ToRun(t) PROVE f \in Fns /\ Added(f)
  <2>1. PICK c \in Calls(t) : c.op = "Run" /\ f \in Range(c.toRun)
    BY DEF ToRun
  <2>2. PICK i \in DOMAIN stack[t] : stack[t][i] = c
    BY DEF Calls, Range
  <2>3. c.toRun \in Seq(Fns)
    BY <2>1, <2>2, StackOf DEF StackOK, Shaped
  <2>4. f \in Fns
    BY <2>1, <2>3 DEF Range
  <2>5. Lies(f, "Loop", t, i) /\ "Loop" \in Places /\ i \in Nat /\ t \in Types \cup Threads
    BY <2>1, <2>2, StackOf DEF Lies, Places
  <2> QED
    BY <2>4, <2>5 DEF RInv, StartOK
<1>4. ASSUME NEW t \in Threads, NEW f \in Running(t) PROVE f \in Fns /\ Added(f)
  <2>1. PICK c \in Calls(t) : c.op = "Function" /\ c.fn = f
    BY DEF Running
  <2>2. PICK i \in DOMAIN stack[t] : stack[t][i] = c
    BY DEF Calls, Range
  <2>3. f \in Fns
    BY <2>1, <2>2, StackOf DEF StackOK, Shaped
  <2>4. Runs(f)
    BY <2>1, <2>2 DEF Runs
  <2> QED
    BY <2>3, <2>4 DEF RInv, StartOK
<1> QED
  BY <1>1, <1>2, <1>3, <1>4 DEF CalledCodeIsLoaded

\* Where nobody unloads code that is in use, functions wait in one place, and are
\* called once, from a library that is loaded.
LEMMA FunctionsWait == AwaitsCode => (Spec => [](RunAtMostOnce /\ CalledCodeIsLoaded))
<1> SUFFICES ASSUME AwaitsCode PROVE Spec => [](RunAtMostOnce /\ CalledCodeIsLoaded)
  OBVIOUS
<1>1. Init => Counters
  BY RegistryAssumption, SingletonAssumption DEF Init, SingletonInit, Counters
<1>2. Init => RInv
  BY DEF Init, SingletonInit, RInv, OneLoad, ActiveOK, AllDistinct, Apart, StartOK, Lies, Runs, Distinct,
    NoActive, Range
<1>3. SInv /\ Counters /\ [Next]_vars => Counters'
  BY CountersKept
<1>4. SInv /\ SInv' /\ RTypes /\ Counters /\ RInv /\ [Next]_vars => RInv'
  BY StepsMove
<1>5. SInv /\ Counters /\ RInv => RunAtMostOnce /\ CalledCodeIsLoaded
  BY OnceAndLoaded
<1> QED
  BY <1>1, <1>2, <1>3, <1>4, <1>5, InitializationInvariant, PTL DEF Spec

\* However many threads subscribe, update and load at once, a registry function
\* runs once while its library stays loaded, when its type is subscribed to.
THEOREM RegistryRunsFunctionsOnce == AwaitsCode => (Spec => []FunctionsRunOnce)
<1> SUFFICES ASSUME AwaitsCode PROVE Spec => []FunctionsRunOnce
  OBVIOUS
<1>1. TypeOK /\ RunAtMostOnce /\ SubscribedFunctionsRun => FunctionsRunOnce
  BY DEF FunctionsRunOnce
<1> QED
  BY <1>1, RegistryTypes, FunctionsWait, SubscribersAreServed, PTL

\* What an unloaded library added is undone, and no function of it is called.
THEOREM RegistryForgetsUnloaded == AwaitsCode => (Spec => []UnloadIsComplete)
<1> SUFFICES ASSUME AwaitsCode PROVE Spec => []UnloadIsComplete
  OBVIOUS
<1>1. FiledForUnload /\ CalledCodeIsLoaded => UnloadIsComplete
  BY DEF UnloadIsComplete
<1> QED
  BY <1>1, UnloadFunctionsAreFiled, FunctionsWait, PTL
===============================================================================
