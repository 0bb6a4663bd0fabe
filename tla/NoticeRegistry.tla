--------------------------- MODULE NoticeRegistry ---------------------------
(***************************************************************************)
(* Tf_NoticeRegistry and TfNotice::_DelivererBase (noticeRegistry.h/.cpp,  *)
(* notice.h/.cpp): registering listeners, sending notices and revoking     *)
(* listeners, by several threads at once and from inside handlers.         *)
(*                                                                         *)
(* Deliverer lists are traversed without a lock.  A deliverer is unlinked  *)
(* and deleted only when no other execution context uses the registry;     *)
(* until then it is deactivated and remembered as a dead entry.            *)
(*                                                                         *)
(* An action is one critical section, one access to a deliverer's atomic   *)
(* counter or one unlocked read, with the local code after it.             *)
(***************************************************************************)
EXTENDS Integers, FiniteSets, Sequences

CONSTANTS
  Threads,
  Depth,          \* how deep calls nest: a handler may call the registry
  Deliverers,     \* one for each call of Register
  Lists,          \* deliverer lists: one per notice type, or per type and sender
  ListOf,         \* ListOf[d]: the list that deliverer d is registered in
  Walks,          \* the sequences of lists a send visits, up the base types
  Ops,            \* Ops[t]: what thread t calls outside handlers
  HandlerOps,     \* what handlers call
  Revocable,      \* deliverers whose keys are revoked
  Expirable,      \* deliverers whose listener or sender may be destroyed
  Nobody          \* no deliverer: the end of a list

AllOps == {"Register", "Send", "Revoke", "RevokeAndWait"}

ASSUME ThreadsAssumption == IsFiniteSet(Threads)
ASSUME DepthAssumption == Depth \in Nat \ {0}
ASSUME DeliverersAssumption == IsFiniteSet(Deliverers) /\ ListOf \in [Deliverers -> Lists]
\* A notice type has one base type: a send goes up a chain and meets no list twice.
ASSUME WalksAssumption ==
  /\ Walks \subseteq Seq(Lists)
  /\ \A walk \in Walks : \A i, j \in DOMAIN walk : walk[i] = walk[j] => i = j
ASSUME OpsAssumption == Ops \in [Threads -> SUBSET AllOps] /\ HandlerOps \subseteq AllOps
ASSUME SubsetsAssumption == Revocable \subseteq Deliverers /\ Expirable \subseteq Deliverers
ASSUME NobodyAssumption == Nobody \notin Deliverers

\* Execution contexts: a thread and how deep its calls into the registry nest.
Contexts == Threads \X (1 .. Depth)

VARIABLES
  userCount,
  deadEntries,
  rank,        \* rank[d]: when d was prepended to its list, 0 before that
  freed,       \* deliverers that were unlinked and deleted
  inactive,    \* deliverers with _active = false
  marked,      \* deliverers with _markedForRemoval
  busy,        \* busy[d]: the count in _busy
  waitBit,     \* waitBit[d]: the _waitBit in _busy
  expired,     \* deliverers whose listener or sender is gone
  keys,        \* deliverers whose Register has returned the key
  crashed,     \* a null pointer was dereferenced
  at,          \* at[c]: the next step of context c
  cursor,      \* cursor[c]: the deliverer c is at, or Nobody
  todo,        \* todo[c]: lists a send has yet to visit
  due,         \* history: who could expect the notice when the send began
  got,         \* history: whose handler has returned in this send
  waited       \* history: deliverers on which RevokeAndWait has returned true

registry == <<userCount, deadEntries, rank, freed, inactive, marked>>
counters == <<busy, waitBit>>
contexts == <<at, cursor, todo, due, got>>
vars == <<registry, counters, expired, keys, crashed, contexts, waited>>

Places ==
  {"Idle",
   "RegisterEnter", "Prepend", "RegisterLeave",
   "SendEnter", "NextList", "Visit", "Begin", "Undo", "Check", "Handler",
   "EndDelivered", "EndExpired", "EndThrown", "Mark", "SendLeave", "Unwind",
   "Revoke", "RevokeWaiting", "SetWaitBit", "WaitSends", "RevokeLeave"}

Init ==
  /\ userCount = 0
  /\ deadEntries = {}
  /\ rank = [d \in Deliverers |-> 0]
  /\ freed = {} /\ inactive = {} /\ marked = {}
  /\ busy = [d \in Deliverers |-> 0]
  /\ waitBit = [d \in Deliverers |-> FALSE]
  /\ expired = {} /\ keys = {} /\ crashed = FALSE
  /\ at = [c \in Contexts |-> "Idle"]
  /\ cursor = [c \in Contexts |-> Nobody]
  /\ todo = [c \in Contexts |-> <<>>]
  /\ due = [c \in Contexts |-> {}]
  /\ got = [c \in Contexts |-> {}]
  /\ waited = {}

-----------------------------------------------------------------------------
(* Control flow. *)

Goto(c, place) == at' = [at EXCEPT ![c] = place]

PointTo(c, d) == cursor' = [cursor EXCEPT ![c] = d]

\* The handler that c runs is not itself inside the registry.
NoCallee(c) == c[2] < Depth => at[<<c[1], c[2] + 1>>] = "Idle"

\* Context c may call op: the thread is outside the registry, or in a handler.
CanCall(c, op) ==
  /\ at[c] = "Idle"
  /\ IF c[2] = 1 THEN op \in Ops[c[1]]
                 ELSE op \in HandlerOps /\ at[<<c[1], c[2] - 1>>] = "Handler"

\* The call of c is over.
Return(c) ==
  /\ at' = [at EXCEPT ![c] = "Idle"]
  /\ cursor' = [cursor EXCEPT ![c] = Nobody]
  /\ todo' = [todo EXCEPT ![c] = <<>>]
  /\ due' = [due EXCEPT ![c] = {}]
  /\ got' = [got EXCEPT ![c] = {}]

\* _IncrementUserCount
Enter(c, place) ==
  /\ userCount' = userCount + 1
  /\ Goto(c, place)
  /\ UNCHANGED <<deadEntries, rank, freed, inactive, marked, counters, expired,
                 keys, crashed, cursor, todo, due, got, waited>>

-----------------------------------------------------------------------------
(* Lists: new deliverers go to the front. *)

Linked(d) == rank[d] > 0 /\ d \notin freed

\* The deliverer that follows rank r in a list, or Nobody at its end.
Following(list, r) ==
  LET rest == {d \in Deliverers : ListOf[d] = list /\ Linked(d) /\ rank[d] < r}
  IN  IF rest = {} THEN Nobody
      ELSE CHOOSE d \in rest : \A e \in rest : rank[e] <= rank[d]

InFront == Cardinality(Deliverers) + 1

\* The iterator of c moves on (++i); at the end of a list the send looks for
\* the next list.
Advance(c) ==
  LET d == cursor[c]
      next == Following(ListOf[d], rank[d])
  IN  /\ PointTo(c, next)
      /\ Goto(c, IF next = Nobody THEN "NextList" ELSE "Visit")

-----------------------------------------------------------------------------
(* Registering. *)

StartRegister(c, d) ==
  /\ CanCall(c, "Register")
  /\ rank[d] = 0 /\ \A e \in Contexts : cursor[e] # d
  /\ PointTo(c, d)
  /\ Goto(c, "RegisterEnter")
  /\ UNCHANGED <<registry, counters, expired, keys, crashed, todo, due, got, waited>>

RegisterEnter(c) == at[c] = "RegisterEnter" /\ Enter(c, "Prepend")

Prepend(c) ==
  /\ at[c] = "Prepend"
  /\ rank' = [rank EXCEPT ![cursor[c]] =
                Cardinality({d \in Deliverers : rank[d] > 0}) + 1]
  /\ Goto(c, "RegisterLeave")
  /\ UNCHANGED <<userCount, deadEntries, freed, inactive, marked, counters, expired,
                 keys, crashed, cursor, todo, due, got, waited>>

\* The registering context leaves without cleaning up and returns the key.
RegisterLeave(c) ==
  /\ at[c] = "RegisterLeave"
  /\ userCount' = userCount - 1
  /\ keys' = keys \cup {cursor[c]}
  /\ Return(c)
  /\ UNCHANGED <<deadEntries, rank, freed, inactive, marked, counters, expired,
                 crashed, waited>>

-----------------------------------------------------------------------------
(* Sending. *)

\* Who can expect the notice: listeners that are registered when it is sent.
Expecting(walk) ==
  {d \in keys \ (inactive \cup expired \cup freed) :
     \E i \in DOMAIN walk : walk[i] = ListOf[d]}

StartSend(c, walk) ==
  /\ CanCall(c, "Send")
  /\ todo' = [todo EXCEPT ![c] = walk]
  /\ due' = [due EXCEPT ![c] = Expecting(walk)]
  /\ Goto(c, "SendEnter")
  /\ UNCHANGED <<registry, counters, expired, keys, crashed, cursor, got, waited>>

SendEnter(c) == at[c] = "SendEnter" /\ Enter(c, "NextList")

\* _GetHead or _GetHeadForSender of the next list.
NextList(c) ==
  /\ at[c] = "NextList"
  /\ IF todo[c] = <<>>
       THEN /\ Goto(c, "SendLeave")
            /\ UNCHANGED <<cursor, todo>>
       ELSE LET first == Following(Head(todo[c]), InFront)
            IN  /\ todo' = [todo EXCEPT ![c] = Tail(@)]
                /\ PointTo(c, first)
                /\ Goto(c, IF first = Nobody THEN "NextList" ELSE "Visit")
  /\ UNCHANGED <<registry, counters, expired, keys, crashed, due, got, waited>>

\* The unlocked read of _active.
Visit(c) ==
  /\ at[c] = "Visit"
  /\ Goto(c, IF cursor[c] \in inactive THEN "Mark" ELSE "Begin")
  /\ UNCHANGED <<registry, counters, expired, keys, crashed, cursor, todo, due,
                 got, waited>>

\* _SendToListener counts itself busy, unless someone waits to revoke.
MayBegin_Always(d) == TRUE

MayBegin(d) == ~waitBit[d]

Begin(c) ==
  /\ at[c] = "Begin"
  /\ busy' = [busy EXCEPT ![cursor[c]] = @ + 1]
  /\ Goto(c, IF MayBegin(cursor[c]) THEN "Check" ELSE "Undo")
  /\ UNCHANGED <<registry, waitBit, expired, keys, crashed, cursor, todo, due,
                 got, waited>>

\* _SendToListenerImpl looks at the listener and the sender, and calls.
Check(c) ==
  /\ at[c] = "Check"
  /\ Goto(c, IF cursor[c] \in expired THEN "EndExpired" ELSE "Handler")
  /\ UNCHANGED <<registry, counters, expired, keys, crashed, cursor, todo, due,
                 got, waited>>

\* The handler returns or throws.
HandlerEnds(c) ==
  /\ at[c] = "Handler" /\ NoCallee(c)
  /\ \E end \in {"EndDelivered", "EndThrown"} : Goto(c, end)
  /\ UNCHANGED <<registry, counters, expired, keys, crashed, cursor, todo, due,
                 got, waited>>

\* The busy count goes down whatever the outcome.  After an exception the
\* send unwinds; after a failed delivery the deliverer gets marked.
BusyAfter_NotIfThrown(c) ==
  IF at[c] = "EndThrown" THEN busy[cursor[c]] ELSE busy[cursor[c]] - 1

BusyAfter(c) == busy[cursor[c]] - 1

EndDelivery(c) ==
  /\ at[c] \in {"EndDelivered", "EndExpired", "EndThrown", "Undo"}
  /\ busy' = [busy EXCEPT ![cursor[c]] = BusyAfter(c)]
  /\ \/ /\ at[c] = "EndDelivered"
        /\ got' = [got EXCEPT ![c] = @ \cup {cursor[c]}]
        /\ Advance(c)
     \/ /\ at[c] = "EndThrown"
        /\ Goto(c, "Unwind")
        /\ UNCHANGED <<cursor, got>>
     \/ /\ at[c] \in {"EndExpired", "Undo"}
        /\ Goto(c, "Mark")
        /\ UNCHANGED <<cursor, got>>
  /\ UNCHANGED <<registry, waitBit, expired, keys, crashed, todo, due, waited>>

\* Under _userCountMutex: deactivate d and make it a dead entry, once.
Bury(d) ==
  IF d \in marked
    THEN UNCHANGED <<deadEntries, inactive, marked>>
    ELSE /\ inactive' = inactive \cup {d}
         /\ marked' = marked \cup {d}
         /\ deadEntries' = deadEntries \cup {d}

Mark_EndsTheList(c) ==
  /\ at[c] = "Mark"
  /\ Bury(cursor[c])
  /\ Goto(c, "NextList")
  /\ UNCHANGED <<userCount, rank, freed, counters, expired, keys, crashed, todo,
                 due, got, waited, cursor>>

Mark(c) ==
  /\ at[c] = "Mark"
  /\ Bury(cursor[c])
  /\ Advance(c)
  /\ UNCHANGED <<userCount, rank, freed, counters, expired, keys, crashed, todo,
                 due, got, waited>>

\* The end of a send, also after an exception: the last context in the
\* registry deletes the dead entries.
LastOut_Anyone(count) == count >= 1

LastOut(count) == count = 1

SendLeave(c) ==
  /\ at[c] \in {"SendLeave", "Unwind"}
  /\ IF LastOut(userCount)
       THEN freed' = freed \cup deadEntries /\ deadEntries' = {}
       ELSE UNCHANGED <<freed, deadEntries>>
  /\ userCount' = userCount - 1
  /\ Return(c)
  /\ UNCHANGED <<rank, inactive, marked, counters, expired, keys, crashed, waited>>

-----------------------------------------------------------------------------
(* Revoking. *)

\* Key::IsValid
IsValid(d) == d \notin freed /\ d \notin inactive

\* Revoke and RevokeAndWait return false at once, and do nothing, when the key
\* is not valid.
StartRevoke(c, d) ==
  /\ d \in keys /\ IsValid(d)
  /\ \/ CanCall(c, "Revoke") /\ Goto(c, "Revoke")
     \/ CanCall(c, "RevokeAndWait") /\ Goto(c, "RevokeWaiting")
  /\ PointTo(c, d)
  /\ UNCHANGED <<registry, counters, expired, keys, crashed, todo, due, got, waited>>

WaitReturns(d) == waited' = waited \cup {d}

\* Nobody uses the registry: the deliverer is deleted if it still exists.
RevokeAlone(c) ==
  /\ at[c] \in {"Revoke", "RevokeWaiting"}
  /\ userCount = 0
  /\ freed' = freed \cup {cursor[c]}
  /\ IF at[c] = "RevokeWaiting" THEN WaitReturns(cursor[c]) ELSE UNCHANGED waited
  /\ Return(c)
  /\ UNCHANGED <<userCount, deadEntries, rank, inactive, marked, counters, expired,
                 keys, crashed>>

\* Otherwise it becomes a dead entry; a waiting caller stays a user of the
\* registry so that the deliverer survives the wait.
RevokeCount(waiting) == IF waiting THEN 1 ELSE 0

RevokeAmongOthers(c) ==
  /\ at[c] \in {"Revoke", "RevokeWaiting"}
  /\ userCount # 0 /\ cursor[c] \notin freed
  /\ Bury(cursor[c])
  /\ userCount' = userCount + RevokeCount(at[c] = "RevokeWaiting")
  /\ IF at[c] = "Revoke"
       THEN Return(c)
       ELSE Goto(c, "SetWaitBit") /\ UNCHANGED <<cursor, todo, due, got>>
  /\ UNCHANGED <<rank, freed, counters, expired, keys, crashed, waited>>

\* get_pointer of a weak pointer to a deleted deliverer is null, and the code
\* dereferences it.
RevokeNull(c) ==
  /\ at[c] \in {"Revoke", "RevokeWaiting"}
  /\ userCount # 0 /\ cursor[c] \in freed
  /\ crashed' = TRUE
  /\ UNCHANGED <<registry, counters, expired, keys, contexts, waited>>

\* _WaitForSendsToFinish sets the bit for good; a nonzero old value means
\* that deliveries, or another waiter, are there.
SetWaitBit(c) ==
  /\ at[c] = "SetWaitBit"
  /\ waitBit' = [waitBit EXCEPT ![cursor[c]] = TRUE]
  /\ Goto(c, IF busy[cursor[c]] # 0 \/ waitBit[cursor[c]] THEN "WaitSends"
                                                         ELSE "RevokeLeave")
  /\ UNCHANGED <<registry, busy, expired, keys, crashed, cursor, todo, due, got,
                 waited>>

WaitSends(c) ==
  /\ at[c] = "WaitSends"
  /\ busy[cursor[c]] = 0
  /\ Goto(c, "RevokeLeave")
  /\ UNCHANGED <<registry, counters, expired, keys, crashed, cursor, todo, due,
                 got, waited>>

RevokeLeave(c) ==
  /\ at[c] = "RevokeLeave"
  /\ userCount' = userCount - 1
  /\ WaitReturns(cursor[c])
  /\ Return(c)
  /\ UNCHANGED <<deadEntries, rank, freed, inactive, marked, counters, expired,
                 keys, crashed>>

-----------------------------------------------------------------------------

\* A listener or a sender is destroyed elsewhere.
Expire(d) ==
  /\ d \in Expirable \ expired
  /\ expired' = expired \cup {d}
  /\ UNCHANGED <<registry, counters, keys, crashed, contexts, waited>>

Call(c) ==
  \/ \E d \in Deliverers : StartRegister(c, d)
  \/ \E walk \in Walks : StartSend(c, walk)
  \/ \E d \in Revocable : StartRevoke(c, d)

Step(c) ==
  \/ RegisterEnter(c) \/ Prepend(c) \/ RegisterLeave(c)
  \/ SendEnter(c) \/ NextList(c) \/ Visit(c) \/ Begin(c) \/ Check(c)
  \/ HandlerEnds(c) \/ EndDelivery(c) \/ Mark(c) \/ SendLeave(c)
  \/ RevokeAlone(c) \/ RevokeAmongOthers(c) \/ RevokeNull(c)
  \/ SetWaitBit(c) \/ WaitSends(c) \/ RevokeLeave(c)

Next ==
  /\ ~crashed
  /\ \/ \E c \in Contexts : Call(c) \/ Step(c)
     \/ \E d \in Deliverers : Expire(d)

Spec == Init /\ [][Next]_vars

\* Every thread goes on with the call it is in, and handlers end.
FairSpec == Spec /\ \A c \in Contexts : WF_vars(~crashed /\ Step(c))

-----------------------------------------------------------------------------
(* Properties. *)

SendPlaces ==
  {"Visit", "Begin", "Undo", "Check", "Handler", "EndDelivered", "EndExpired",
   "EndThrown", "Mark"}

WaitPlaces == {"SetWaitBit", "WaitSends", "RevokeLeave"}

\* Contexts that the user count stands for.
Inside(c) ==
  at[c] \in SendPlaces \cup WaitPlaces
             \cup {"NextList", "SendLeave", "Unwind", "Prepend", "RegisterLeave"}

Delivering(c) ==
  at[c] \in {"Check", "Handler", "EndDelivered", "EndExpired", "EndThrown", "Undo"}

TypeOK ==
  /\ userCount \in Nat
  /\ rank \in [Deliverers -> Nat]
  /\ deadEntries \subseteq Deliverers /\ freed \subseteq Deliverers
  /\ inactive \subseteq Deliverers /\ marked \subseteq Deliverers
  /\ busy \in [Deliverers -> Nat]
  /\ waitBit \in [Deliverers -> BOOLEAN]
  /\ expired \subseteq Deliverers /\ keys \subseteq Deliverers
  /\ crashed \in BOOLEAN
  /\ at \in [Contexts -> Places]
  /\ cursor \in [Contexts -> Deliverers \cup {Nobody}]
  /\ todo \in [Contexts -> Seq(Lists)]
  /\ due \in [Contexts -> SUBSET Deliverers]
  /\ got \in [Contexts -> SUBSET Deliverers]
  /\ waited \subseteq Deliverers

\* A deliverer that a send traverses, or that a revoker waits on, is not
\* deleted under it, however calls nest and interleave.
NoDanglingDeliverer ==
  \A c \in Contexts :
    at[c] \in SendPlaces \cup WaitPlaces => cursor[c] \in Deliverers \ freed

\* The user count is the number of contexts inside, also when handlers throw
\* and when calls nest.
UsersCounted == userCount = Cardinality({c \in Contexts : Inside(c)})

\* _busy counts the deliveries in progress, failed and thrown ones included.
BusyCounted ==
  \A d \in Deliverers :
    busy[d] = Cardinality({c \in Contexts : Delivering(c) /\ cursor[c] = d})

\* No deliverer leaks: one that was marked is deleted or a dead entry.
MarkedAreDeadEntries == marked \ freed \subseteq deadEntries

\* The types, what the two counters of the protocol stand for, and where the
\* deliverers are that wait for the counters to fall.
CountersAccount == TypeOK /\ UsersCounted /\ BusyCounted /\ MarkedAreDeadEntries

\* A send reaches every listener that was registered when it began and has
\* neither been revoked nor expired since, whatever handlers do in between.
NoticeReachesAll ==
  \A c \in Contexts :
    at[c] = "SendLeave" => due[c] \subseteq got[c] \cup inactive \cup expired \cup freed

\* A send calls no listener twice.
NoticeReachesOnce ==
  \A c \in Contexts : at[c] = "Handler" => cursor[c] \notin got[c]

\* A send reaches each listener it owes the notice, and reaches it once
\* (noticeRegistry.cpp:152-249).
NoticeReachesEachOnce == NoticeReachesAll /\ NoticeReachesOnce

\* Once RevokeAndWait has returned true for a listener, no thread is in its
\* handler and none will enter it.
WaitedRevokeIsFinal ==
  \A c \in Contexts : at[c] = "Handler" => cursor[c] \notin waited

\* RevokeAndWait comes back, though other threads keep sending.
WaitingRevokeReturns ==
  \A c \in Contexts :
    at[c] \in {"RevokeWaiting", "SetWaitBit", "WaitSends"} ~> at[c] = "Idle"

\* "Revoke will return a bool value indicating whether or not the key was
\* successfully revoked" (notice.h): a call for a key that is being cleaned
\* up by another thread returns instead of following a null pointer.
RevokeSurvivesCleanup == ~crashed
=============================================================================
