------------------------ MODULE NoticeRegistryProofs ------------------------
(***************************************************************************)
(* Proofs about Tf_NoticeRegistry, for every finite set of threads and     *)
(* deliverers, any depth of nested calls and any calls that threads and    *)
(* handlers make.                                                          *)
(***************************************************************************)
EXTENDS NoticeRegistry, Lemmas

Move(c) == Call(c) \/ Step(c)

RegisterPlaces == {"RegisterEnter", "Prepend", "RegisterLeave"}
RevokePlaces == {"Revoke", "RevokeWaiting"} \cup WaitPlaces

\* Whoever registers, visits or revokes a deliverer knows which.
HasCursor(c) ==
  at[c] \in RegisterPlaces \cup SendPlaces \cup RevokePlaces => cursor[c] \in Deliverers

\* The types, but for the counters, of which it takes more to say that they do
\* not fall below zero.
TypesOK ==
  /\ userCount \in Int
  /\ rank \in [Deliverers -> Nat]
  /\ deadEntries \subseteq Deliverers /\ freed \subseteq Deliverers
  /\ inactive \subseteq Deliverers /\ marked \subseteq Deliverers
  /\ busy \in [Deliverers -> Int]
  /\ waitBit \in [Deliverers -> BOOLEAN]
  /\ expired \subseteq Deliverers /\ keys \subseteq Deliverers
  /\ crashed \in BOOLEAN
  /\ at \in [Contexts -> Places]
  /\ cursor \in [Contexts -> Deliverers \cup {Nobody}]
  /\ todo \in [Contexts -> Seq(Lists)]
  /\ due \in [Contexts -> SUBSET Deliverers]
  /\ got \in [Contexts -> SUBSET Deliverers]
  /\ waited \subseteq Deliverers

ControlOK == TypesOK /\ \A c \in Contexts : HasCursor(c)

\* A step of c leaves the other contexts alone.
OnlyMoves(c) ==
  \A e \in Contexts \ {c} :
    /\ at'[e] = at[e] /\ cursor'[e] = cursor[e] /\ todo'[e] = todo[e]
    /\ due'[e] = due[e] /\ got'[e] = got[e]

-----------------------------------------------------------------------------
(* Lists. *)

\* A context is a thread and a depth: there are finitely many.
LEMMA FiniteContexts == IsFiniteSet(Contexts)
<1>1. IsFiniteSet(1 .. Depth)
  BY DepthAssumption, FS_Interval
<1> QED
  BY <1>1, ThreadsAssumption, FS_Product DEF Contexts

\* What follows a rank in a list is the linked deliverer of the next lower rank.
LEMMA FollowingIsNext ==
  ASSUME rank \in [Deliverers -> Nat], NEW list, NEW r \in Nat
  PROVE  LET next == Following(list, r)
             rest == {d \in Deliverers : ListOf[d] = list /\ Linked(d) /\ rank[d] < r}
         IN  /\ next = Nobody => rest = {}
             /\ next # Nobody => /\ next \in rest
                                 /\ \A e \in rest : rank[e] <= rank[next]
             /\ next \in Deliverers \cup {Nobody}
<1> DEFINE rest == {d \in Deliverers : ListOf[d] = list /\ Linked(d) /\ rank[d] < r}
<1>1. CASE rest = {}
  BY <1>1, NobodyAssumption DEF Following
<1>2. CASE rest # {}
  <2>1. \E d \in rest : \A e \in rest : rank[e] <= rank[d]
    <3>1. \A d \in rest : rank[d] <= r
      OBVIOUS
    <3>2. rest \in SUBSET Deliverers
      OBVIOUS
    <3> HIDE DEF rest
    <3> QED
      BY <1>2, <3>1, <3>2, Highest
  <2>2. Following(list, r) = CHOOSE d \in rest : \A e \in rest : rank[e] <= rank[d]
    BY <1>2 DEF Following
  <2> HIDE DEF rest
  <2>3. Following(list, r) \in rest /\ \A e \in rest : rank[e] <= rank[Following(list, r)]
    BY <2>1, <2>2
  <2>4. Following(list, r) # Nobody
    BY <2>3, NobodyAssumption DEF rest
  <2> QED
    BY <2>3, <2>4 DEF rest
<1> QED
  BY <1>1, <1>2

-----------------------------------------------------------------------------
(* Control. *)

\* Prepended to a list by now.
Prepended == {d \in Deliverers : rank[d] > 0}

\* So every set of deliverers can be counted.
LEMMA FiniteDeliverers ==
  ASSUME NEW S \in SUBSET Deliverers
  PROVE  IsFiniteSet(S) /\ Cardinality(S) \in Nat
  BY DeliverersAssumption, FS_Subset, FS_CardinalityType

\* The iterator moves on to a deliverer, or past the last one.
LEMMA AdvanceTyped ==
  ASSUME rank \in [Deliverers -> Nat], NEW c, cursor[c] \in Deliverers, Advance(c)
  PROVE  \E next \in Deliverers \cup {Nobody} :
           /\ next = Following(ListOf[cursor[c]], rank[cursor[c]])
           /\ cursor' = [cursor EXCEPT ![c] = next]
           /\ at' = [at EXCEPT ![c] = IF next = Nobody THEN "NextList" ELSE "Visit"]
<1>1. rank[cursor[c]] \in Nat
  OBVIOUS
<1> DEFINE next == Following(ListOf[cursor[c]], rank[cursor[c]])
<1>2. next \in Deliverers \cup {Nobody}
  BY <1>1, FollowingIsNext
<1> QED
  BY <1>2 DEF Advance, PointTo, Goto

\* A step keeps every context where its call can be, and moves one context only.
LEMMA ControlStep ==
  ASSUME ControlOK, NEW c \in Contexts, Move(c)
  PROVE  ControlOK' /\ OnlyMoves(c)
<1> USE DEF ControlOK, TypesOK, HasCursor, OnlyMoves, Goto, PointTo, Return, Enter,
            RegisterPlaces, SendPlaces, RevokePlaces, WaitPlaces, Places,
            registry, counters, contexts
<1>1. ASSUME NEW d \in Deliverers, StartRegister(c, d) PROVE ControlOK' /\ OnlyMoves(c)
  BY <1>1 DEF StartRegister, CanCall
<1>2. ASSUME NEW walk \in Walks, StartSend(c, walk) PROVE ControlOK' /\ OnlyMoves(c)
  BY <1>2, WalksAssumption DEF StartSend, CanCall, Expecting
<1>3. ASSUME NEW d \in Revocable, StartRevoke(c, d) PROVE ControlOK' /\ OnlyMoves(c)
  <2>1. d \in Deliverers
    BY SubsetsAssumption
  <2>2. PICK place \in {"Revoke", "RevokeWaiting"} :
          at' = [at EXCEPT ![c] = place] /\ cursor' = [cursor EXCEPT ![c] = d]
    BY <1>3 DEF StartRevoke
  <2>3. UNCHANGED <<registry, counters, expired, keys, crashed, todo, due, got, waited>>
    BY <1>3 DEF StartRevoke
  <2>4. OnlyMoves(c)
    BY <2>2, <2>3
  <2>5. ControlOK'
    BY <2>1, <2>2, <2>3
  <2> QED
    BY <2>4, <2>5
<1>4. CASE RegisterEnter(c)
  BY <1>4 DEF RegisterEnter
<1>5. CASE Prepend(c)
  <2>1. Cardinality(Prepended) + 1 \in Nat
    <3>1. Prepended \in SUBSET Deliverers
      BY DEF Prepended
    <3> QED
      BY <3>1, FiniteDeliverers
  <2> QED
    BY <1>5, <2>1 DEF Prepend, Prepended
<1>6. CASE RegisterLeave(c)
  BY <1>6 DEF RegisterLeave
<1>7. CASE SendEnter(c)
  BY <1>7 DEF SendEnter
<1>8. CASE NextList(c)
  <2>1. CASE todo[c] = <<>>
    <3>1. /\ at' = [at EXCEPT ![c] = "SendLeave"]
          /\ UNCHANGED <<registry, counters, expired, keys, crashed, cursor, todo, due, got, waited>>
      BY <1>8, <2>1 DEF NextList
    <3> QED
      BY <3>1
  <2>2. CASE todo[c] # <<>>
    <3> DEFINE first == Following(Head(todo[c]), InFront)
    <3>1. first \in Deliverers \cup {Nobody}
      BY FiniteDeliverers, FollowingIsNext DEF InFront
    <3>2. Tail(todo[c]) \in Seq(Lists)
      BY <2>2
    <3> HIDE DEF first
    <3>3. /\ at' = [at EXCEPT ![c] = IF first = Nobody THEN "NextList" ELSE "Visit"]
          /\ cursor' = [cursor EXCEPT ![c] = first]
          /\ todo' = [todo EXCEPT ![c] = Tail(todo[c])]
      BY <1>8, <2>2 DEF NextList, first
    <3> QED
      BY <1>8, <3>1, <3>2, <3>3 DEF NextList
  <2> QED
    BY <2>1, <2>2
<1>9. CASE Visit(c)
  BY <1>9 DEF Visit
<1>10. CASE Begin(c)
  BY <1>10 DEF Begin
<1>11. CASE Check(c)
  BY <1>11 DEF Check
<1>12. CASE HandlerEnds(c)
  BY <1>12 DEF HandlerEnds
<1>13. CASE EndDelivery(c)
  <2>1. BusyAfter(c) \in Int
    BY <1>13 DEF EndDelivery, BusyAfter
  <2>2. CASE at[c] = "EndDelivered"
    <3>1. Advance(c) /\ got' = [got EXCEPT ![c] = @ \cup {cursor[c]}]
      BY <1>13, <2>2 DEF EndDelivery
    <3>2. PICK next \in Deliverers \cup {Nobody} :
            /\ cursor' = [cursor EXCEPT ![c] = next]
            /\ at' = [at EXCEPT ![c] = IF next = Nobody THEN "NextList" ELSE "Visit"]
      BY <3>1, <2>2, AdvanceTyped
    <3> QED
      BY <1>13, <2>1, <2>2, <3>1, <3>2 DEF EndDelivery
  <2>3. CASE at[c] # "EndDelivered"
    BY <1>13, <2>1, <2>3 DEF EndDelivery
  <2> QED
    BY <2>2, <2>3
<1>14. CASE Mark(c)
  <2>1. Advance(c) /\ Bury(cursor[c]) /\ cursor[c] \in Deliverers
    BY <1>14 DEF Mark
  <2>2. PICK next \in Deliverers \cup {Nobody} :
          /\ cursor' = [cursor EXCEPT ![c] = next]
          /\ at' = [at EXCEPT ![c] = IF next = Nobody THEN "NextList" ELSE "Visit"]
    BY <2>1, AdvanceTyped
  <2>3. deadEntries' \subseteq Deliverers /\ inactive' \subseteq Deliverers /\ marked' \subseteq Deliverers
    BY <2>1 DEF Bury
  <2> QED
    BY <1>14, <2>1, <2>2, <2>3 DEF Mark
<1>15. CASE SendLeave(c)
  BY <1>15 DEF SendLeave
<1>16. CASE RevokeAlone(c)
  BY <1>16 DEF RevokeAlone, WaitReturns
<1>17. CASE RevokeAmongOthers(c)
  <2>1. at[c] \in {"Revoke", "RevokeWaiting"} /\ Bury(cursor[c]) /\ cursor[c] \in Deliverers
    BY <1>17 DEF RevokeAmongOthers
  <2>4. deadEntries' \subseteq Deliverers /\ inactive' \subseteq Deliverers /\ marked' \subseteq Deliverers
    BY <2>1 DEF Bury
  <2>5. userCount' \in Int
    BY <1>17 DEF RevokeAmongOthers, RevokeCount
  <2>2. CASE at[c] = "Revoke"
    <3>1. Return(c) /\ UNCHANGED <<rank, freed, counters, expired, keys, crashed, waited>>
      BY <1>17, <2>2 DEF RevokeAmongOthers
    <3> QED
      BY <2>1, <2>4, <2>5, <3>1
  <2>3. CASE at[c] = "RevokeWaiting"
    <3>1. /\ Goto(c, "SetWaitBit")
          /\ UNCHANGED <<rank, freed, counters, expired, keys, crashed, cursor, todo, due, got, waited>>
      BY <1>17, <2>3 DEF RevokeAmongOthers
    <3> QED
      BY <2>1, <2>3, <2>4, <2>5, <3>1
  <2> QED
    BY <2>1, <2>2, <2>3
<1>18. CASE RevokeNull(c)
  BY <1>18 DEF RevokeNull
<1>19. CASE SetWaitBit(c)
  BY <1>19 DEF SetWaitBit
<1>20. CASE WaitSends(c)
  BY <1>20 DEF WaitSends
<1>21. CASE RevokeLeave(c)
  BY <1>21 DEF RevokeLeave, WaitReturns
<1> QED
  BY <1>1, <1>2, <1>3, <1>4, <1>5, <1>6, <1>7, <1>8, <1>9, <1>10, <1>11, <1>12, <1>13, <1>14, <1>15, <1>16, <1>17, <1>18, <1>19, <1>20, <1>21 DEF Move, Call, Step

-----------------------------------------------------------------------------
(* The counters. *)

Insiders == {c \in Contexts : Inside(c)}

Delivers(c, d) == Delivering(c) /\ cursor[c] = d

\* A step of c adds c to those that a counter counts, or takes it away.
CountsItself(c) ==
  /\ userCount' = userCount + Ones(Inside(c)') - Ones(Inside(c))
  /\ \A d \in Deliverers : busy'[d] = busy[d] + Ones(Delivers(c, d)') - Ones(Delivers(c, d))

\* A step changes the counts by what its own context joins or leaves.
LEMMA CountsStep ==
  ASSUME ControlOK, NEW c \in Contexts, Move(c)
  PROVE  CountsItself(c)
<1> USE DEF ControlOK, TypesOK, HasCursor, CountsItself, Inside, Delivering, Delivers, Ones,
            Goto, PointTo, Return, Enter, SendPlaces, WaitPlaces, registry, counters, contexts
<1>1. ASSUME NEW d \in Deliverers, StartRegister(c, d) PROVE CountsItself(c)
  BY <1>1 DEF StartRegister, CanCall
<1>2. ASSUME NEW walk \in Walks, StartSend(c, walk) PROVE CountsItself(c)
  BY <1>2 DEF StartSend, CanCall
<1>3. ASSUME NEW d \in Revocable, StartRevoke(c, d) PROVE CountsItself(c)
  <2>1. PICK place \in {"Revoke", "RevokeWaiting"} : at' = [at EXCEPT ![c] = place]
    BY <1>3 DEF StartRevoke
  <2>2. at[c] = "Idle" /\ UNCHANGED <<userCount, busy>>
    BY <1>3 DEF StartRevoke, CanCall
  <2> QED
    BY <2>1, <2>2
<1>4. CASE RegisterEnter(c)
  BY <1>4 DEF RegisterEnter
<1>5. CASE Prepend(c)
  BY <1>5 DEF Prepend
<1>6. CASE RegisterLeave(c)
  BY <1>6 DEF RegisterLeave
<1>7. CASE SendEnter(c)
  BY <1>7 DEF SendEnter
<1>8. CASE NextList(c)
  BY <1>8 DEF NextList
<1>9. CASE Visit(c)
  BY <1>9 DEF Visit
<1>10. CASE Begin(c)
  BY <1>10 DEF Begin
<1>11. CASE Check(c)
  BY <1>11 DEF Check
<1>12. CASE HandlerEnds(c)
  BY <1>12 DEF HandlerEnds
<1>13. CASE EndDelivery(c)
  BY <1>13 DEF EndDelivery, BusyAfter, Advance
<1>14. CASE Mark(c)
  BY <1>14 DEF Mark, Advance
<1>15. CASE SendLeave(c)
  BY <1>15 DEF SendLeave
<1>16. CASE RevokeAlone(c)
  BY <1>16 DEF RevokeAlone
<1>17. CASE RevokeAmongOthers(c)
  <2>1. CASE at[c] = "Revoke"
    BY <1>17, <2>1 DEF RevokeAmongOthers, RevokeCount
  <2>2. CASE at[c] = "RevokeWaiting"
    BY <1>17, <2>2 DEF RevokeAmongOthers, RevokeCount
  <2> QED
    BY <1>17, <2>1, <2>2 DEF RevokeAmongOthers
<1>18. CASE RevokeNull(c)
  BY <1>18 DEF RevokeNull
<1>19. CASE SetWaitBit(c)
  BY <1>19 DEF SetWaitBit
<1>20. CASE WaitSends(c)
  BY <1>20 DEF WaitSends
<1>21. CASE RevokeLeave(c)
  BY <1>21 DEF RevokeLeave
<1> QED
  BY <1>1, <1>2, <1>3, <1>4, <1>5, <1>6, <1>7, <1>8, <1>9, <1>10, <1>11, <1>12, <1>13, <1>14, <1>15, <1>16, <1>17, <1>18, <1>19, <1>20, <1>21 DEF Move, Call, Step

\* How many of a set there are, when c alone may join or leave it.
LEMMA AccountStep ==
  ASSUME ControlOK, UsersCounted, BusyCounted, NEW c \in Contexts, Move(c)
  PROVE  UsersCounted' /\ BusyCounted'
<1>1. OnlyMoves(c) /\ CountsItself(c)
  BY ControlStep, CountsStep
<1>2. UsersCounted'
  <2>1. IsFiniteSet(Insiders)
    BY FiniteContexts, FS_Subset DEF Insiders
  <2>2. Insiders \ {c} = Insiders' \ {c}
    BY <1>1 DEF Insiders, Inside, OnlyMoves
  <2>3. Inside(c) <=> c \in Insiders
    BY DEF Insiders
  <2>4. Inside(c)' <=> c \in Insiders'
    BY DEF Insiders
  <2>5. Cardinality(Insiders') =
          Cardinality(Insiders) + Ones(c \in Insiders') - Ones(c \in Insiders)
    BY <2>1, <2>2, CardinalityStep
  <2>6. userCount = Cardinality(Insiders)
    BY DEF UsersCounted, Insiders
  <2>7. userCount' = userCount + Ones(c \in Insiders') - Ones(c \in Insiders)
    BY <1>1, <2>3, <2>4 DEF CountsItself, Ones
  <2> QED
    BY <2>5, <2>6, <2>7 DEF UsersCounted, Insiders
<1>3. ASSUME NEW d \in Deliverers
      PROVE  busy'[d] = Cardinality({e \in Contexts : Delivers(e, d)'})
  <2> DEFINE S == {e \in Contexts : Delivers(e, d)}
             T == {e \in Contexts : Delivers(e, d)'}
  <2>1. IsFiniteSet(S)
    BY FiniteContexts, FS_Subset
  <2>2. S \ {c} = T \ {c}
    BY <1>1 DEF Delivers, Delivering, OnlyMoves
  <2>3. Cardinality(T) = Cardinality(S) + Ones(c \in T) - Ones(c \in S)
    BY <2>1, <2>2, CardinalityStep
  <2>4. busy[d] = Cardinality(S)
    BY DEF BusyCounted, Delivers
  <2>5. (Delivers(c, d) <=> c \in S) /\ (Delivers(c, d)' <=> c \in T)
    OBVIOUS
  <2>6. busy'[d] = busy[d] + Ones(c \in T) - Ones(c \in S)
    BY <1>1, <2>5 DEF CountsItself, Ones
  <2> QED
    BY <2>3, <2>4, <2>6
<1>4. BusyCounted'
  BY <1>3 DEF BusyCounted, Delivers, Delivering
<1> QED
  BY <1>2, <1>4

\* What a context learns from the counters.
LEMMA CountersTell ==
  ASSUME ControlOK, UsersCounted, BusyCounted
  PROVE  /\ userCount \in Nat /\ busy \in [Deliverers -> Nat]
         /\ userCount = 0 => \A c \in Contexts : ~Inside(c)
         /\ userCount = 1 => \A c, e \in Contexts : Inside(c) /\ Inside(e) => c = e
         /\ \A d \in Deliverers : busy[d] = 0 => \A c \in Contexts : ~Delivers(c, d)
<1>1. IsFiniteSet(Insiders) /\ userCount = Cardinality(Insiders)
  BY FiniteContexts, FS_Subset DEF Insiders, UsersCounted
<1>2. userCount = 0 => Insiders = {}
  BY <1>1, FS_EmptySet
<1>3. userCount = 1 => \E x : Insiders = {x}
  BY <1>1, FS_Singleton
<1>4. ASSUME NEW d \in Deliverers
      PROVE  busy[d] \in Nat /\ (busy[d] = 0 => \A c \in Contexts : ~Delivers(c, d))
  <2> DEFINE S == {e \in Contexts : Delivers(e, d)}
  <2>1. IsFiniteSet(S) /\ busy[d] = Cardinality(S)
    BY FiniteContexts, FS_Subset DEF BusyCounted, Delivers
  <2>2. busy[d] = 0 => S = {}
    BY <2>1, FS_EmptySet
  <2> QED
    BY <2>1, <2>2, FS_CardinalityType
<1>5. busy \in [Deliverers -> Int] /\ userCount \in Nat
  BY <1>1, FS_CardinalityType DEF ControlOK, TypesOK
<1>6. busy \in [Deliverers -> Nat]
  BY <1>4, <1>5
<1> QED
  BY <1>2, <1>3, <1>4, <1>5, <1>6 DEF Insiders

-----------------------------------------------------------------------------
(* The inductive invariant. *)

\* Every deliverer that was prepended has a rank of its own.
RanksOK ==
  /\ \A d \in Deliverers : rank[d] <= Cardinality(Prepended)
  /\ \A d, e \in Prepended : rank[d] = rank[e] => d = e

\* A deliverer is known to its registrar alone until it is in its list, and to
\* others from there or by its key; what is traversed or waited on is not deleted.
Knows(c) ==
  /\ at[c] \in {"RegisterEnter", "Prepend"} =>
       rank[cursor[c]] = 0 /\ \A e \in Contexts \ {c} : cursor[e] # cursor[c]
  /\ at[c] \in {"RegisterLeave"} \cup SendPlaces \cup RevokePlaces => cursor[c] \in Prepended
  /\ at[c] \in SendPlaces \cup WaitPlaces => cursor[c] \notin freed

ListsOK ==
  /\ marked \subseteq inactive /\ marked \ freed \subseteq deadEntries
  /\ keys \subseteq Prepended
  /\ \A c \in Contexts : Knows(c)

\* No context is in d's handler or on its way there.
Silent(d) == \A c \in Contexts : at[c] \in {"Check", "Handler"} => cursor[c] # d

\* A wait bit closes an inactive deliverer to new deliveries, and a wait ends
\* when the last of the old ones has.
WaitsOK ==
  /\ \A d \in Deliverers : waitBit[d] => d \in inactive
  /\ \A d \in waited : d \in freed \/ (waitBit[d] /\ Silent(d))
  /\ \A c \in Contexts :
       /\ at[c] \in WaitPlaces => cursor[c] \in inactive
       /\ at[c] \in {"WaitSends", "RevokeLeave"} => waitBit[cursor[c]]
       /\ at[c] = "RevokeLeave" => Silent(cursor[c])

Sending == SendPlaces \cup {"NextList", "SendLeave", "Unwind"}

\* A send has yet to visit a list.
Ahead(c, list) == \E i \in DOMAIN todo[c] : todo[c][i] = list

\* It is in a list, at most as far as rank r of it.
NotPast(c, list, r) == at[c] \in SendPlaces /\ ListOf[cursor[c]] = list /\ r <= rank[cursor[c]]

\* No list comes twice, those that got the notice are behind, and those that are
\* owed it are ahead.
SendOK(c) ==
  /\ \A i, j \in DOMAIN todo[c] : todo[c][i] = todo[c][j] => i = j
  /\ at[c] \in SendPlaces => ~Ahead(c, ListOf[cursor[c]])
  /\ at[c] \notin Sending => got[c] = {}
  /\ got[c] \subseteq Prepended /\ due[c] \subseteq Prepended
  /\ \A d \in got[c] : ~Ahead(c, ListOf[d]) /\ ~NotPast(c, ListOf[d], rank[d])
  /\ at[c] \in (Sending \ {"Unwind"}) \cup {"SendEnter"} =>
       \A d \in due[c] \ (got[c] \cup inactive \cup expired \cup freed) :
         Ahead(c, ListOf[d]) \/ NotPast(c, ListOf[d], rank[d])
  /\ at[c] = "EndExpired" => cursor[c] \in expired
  /\ at[c] \in {"Undo", "Mark"} => cursor[c] \in inactive \cup expired
  /\ at[c] = "SendLeave" => todo[c] = <<>>

IInv ==
  /\ ControlOK /\ UsersCounted /\ BusyCounted
  /\ RanksOK /\ ListsOK /\ WaitsOK
  /\ \A c \in Contexts : SendOK(c)

-----------------------------------------------------------------------------
(* Lists are kept in order, and what is used is not deleted. *)

\* Nothing that was known of a deliverer is undone.
Grows ==
  /\ \A d \in Prepended : rank'[d] = rank[d]
  /\ freed \subseteq freed' /\ inactive \subseteq inactive' /\ keys \subseteq keys'
  /\ expired \subseteq expired' /\ \A d \in Deliverers : waitBit[d] => waitBit'[d]

\* Deliverers are deleted by a context that is alone in the registry.
FreesAlone(c) ==
  \/ freed' = freed
  \/ /\ at'[c] = "Idle"
     /\ \A e \in Contexts \ {c} : at[e] \notin SendPlaces \cup WaitPlaces

\* A step forgets nothing of a deliverer, and deletes only if it is alone inside.
LEMMA GrowthStep ==
  ASSUME ControlOK, UsersCounted, BusyCounted, ListsOK, NEW c \in Contexts, Move(c)
  PROVE  Grows /\ FreesAlone(c)
<1> USE DEF Grows, FreesAlone, Goto, PointTo, Return, Enter, registry, counters, contexts
<1>1. ASSUME NEW d \in Deliverers, StartRegister(c, d) PROVE Grows /\ FreesAlone(c)
  BY <1>1 DEF StartRegister
<1>2. ASSUME NEW walk \in Walks, StartSend(c, walk) PROVE Grows /\ FreesAlone(c)
  BY <1>2 DEF StartSend
<1>3. ASSUME NEW d \in Revocable, StartRevoke(c, d) PROVE Grows /\ FreesAlone(c)
  BY <1>3 DEF StartRevoke
<1>4. CASE RegisterEnter(c)
  BY <1>4 DEF RegisterEnter
<1>5. CASE Prepend(c)
  <2>1. cursor[c] \notin Prepended
    BY <1>5 DEF Prepend, ListsOK, Knows, Prepended
  <2> QED
    BY <1>5, <2>1 DEF Prepend, Prepended, ControlOK, TypesOK
<1>6. CASE RegisterLeave(c)
  BY <1>6 DEF RegisterLeave
<1>7. CASE SendEnter(c)
  BY <1>7 DEF SendEnter
<1>8. CASE NextList(c)
  BY <1>8 DEF NextList
<1>9. CASE Visit(c)
  BY <1>9 DEF Visit
<1>10. CASE Begin(c)
  BY <1>10 DEF Begin
<1>11. CASE Check(c)
  BY <1>11 DEF Check
<1>12. CASE HandlerEnds(c)
  BY <1>12 DEF HandlerEnds
<1>13. CASE EndDelivery(c)
  BY <1>13 DEF EndDelivery
<1>14. CASE Mark(c)
  BY <1>14 DEF Mark, Bury
<1>15. CASE SendLeave(c)
  <2>1. Inside(c)
    BY <1>15 DEF SendLeave, Inside
  <2>2. userCount = 1 => \A e \in Contexts \ {c} : ~Inside(e)
    BY <2>1, CountersTell
  <2> QED
    BY <1>15, <2>2 DEF SendLeave, Inside, LastOut, ControlOK, TypesOK
<1>16. CASE RevokeAlone(c)
  <2>1. \A e \in Contexts : ~Inside(e)
    BY <1>16, CountersTell DEF RevokeAlone
  <2> QED
    BY <1>16, <2>1 DEF RevokeAlone, Inside, ControlOK, TypesOK
<1>17. CASE RevokeAmongOthers(c)
  BY <1>17 DEF RevokeAmongOthers, Bury
<1>18. CASE RevokeNull(c)
  BY <1>18 DEF RevokeNull
<1>19. CASE SetWaitBit(c)
  BY <1>19 DEF SetWaitBit, ControlOK, TypesOK
<1>20. CASE WaitSends(c)
  BY <1>20 DEF WaitSends
<1>21. CASE RevokeLeave(c)
  BY <1>21 DEF RevokeLeave
<1> QED
  BY <1>1, <1>2, <1>3, <1>4, <1>5, <1>6, <1>7, <1>8, <1>9, <1>10, <1>11, <1>12, <1>13, <1>14, <1>15, <1>16, <1>17, <1>18, <1>19, <1>20, <1>21 DEF Move, Call, Step

\* Only Prepend gives out a rank, the next one.
LEMMA RanksStep ==
  ASSUME ControlOK, RanksOK, ListsOK, NEW c \in Contexts, Move(c)
  PROVE  /\ RanksOK'
         /\ \/ rank' = rank
            \/ /\ at[c] = "Prepend" /\ at'[c] = "RegisterLeave" /\ cursor[c] \in Deliverers
               /\ rank'[cursor[c]] > 0
               /\ \A d \in Deliverers \ {cursor[c]} : rank'[d] = rank[d]
<1>1. CASE Prepend(c)
  <2> DEFINE d == cursor[c]
             n == Cardinality(Prepended)
  <2>1. d \in Deliverers \ Prepended
    BY <1>1 DEF Prepend, ListsOK, Knows, Prepended, ControlOK, HasCursor, RegisterPlaces
  <2>2. IsFiniteSet(Prepended) /\ n \in Nat
    BY FiniteDeliverers DEF Prepended
  <2>3. rank' = [rank EXCEPT ![d] = n + 1]
    BY <1>1 DEF Prepend, Prepended
  <2>4. rank \in [Deliverers -> Nat]
    BY DEF ControlOK, TypesOK
  <2>5. Prepended' = Prepended \cup {d}
    <3> HIDE DEF n
    <3> QED
      BY <2>1, <2>2, <2>3, <2>4 DEF Prepended
  <2>6. Cardinality(Prepended') = n + 1
    BY <2>1, <2>2, <2>5, FS_AddElement
  <2>7. \A e \in Deliverers : rank[e] <= n
    BY DEF RanksOK
  <2>8. at'[c] = "RegisterLeave"
    BY <1>1 DEF Prepend, Goto, ControlOK, TypesOK
  <2> HIDE DEF n
  <2>9. RanksOK'
    <3>1. \A e \in Deliverers : rank'[e] = IF e = d THEN n + 1 ELSE rank[e]
      BY <2>1, <2>3, <2>4
    <3>2. \A e \in Deliverers : rank'[e] <= Cardinality(Prepended')
      BY <3>1, <2>2, <2>4, <2>6, <2>7
    <3>3. \A e, f \in Prepended : rank[e] = rank[f] => e = f
      BY DEF RanksOK
    <3>4. ASSUME NEW e \in Prepended', NEW f \in Prepended', rank'[e] = rank'[f] PROVE e = f
      <4>1. \A x \in Prepended : x \in Deliverers /\ x # d /\ rank[x] \in Nat /\ rank[x] <= n
        BY <2>1, <2>4, <2>7 DEF Prepended
      <4> QED
        BY <2>1, <2>2, <2>5, <3>1, <3>3, <3>4, <4>1
    <3> QED
      BY <3>2, <3>4 DEF RanksOK, Prepended
  <2> QED
    BY <1>1, <2>1, <2>2, <2>3, <2>4, <2>8, <2>9 DEF Prepend
<1>2. CASE ~Prepend(c)
  <2>1. rank' = rank
    BY <1>2 DEF Move, Call, Step, StartRegister, StartSend, StartRevoke, RegisterEnter,
         RegisterLeave, SendEnter, NextList, Visit, Begin, Check, HandlerEnds, EndDelivery,
         Mark, SendLeave, RevokeAlone, RevokeAmongOthers, RevokeNull, SetWaitBit, WaitSends,
         RevokeLeave, Enter, registry
  <2> QED
    BY <2>1 DEF RanksOK, Prepended
<1> QED
  BY <1>1, <1>2

\* Where the step of c leaves c, and the dead entries.
OwnList(c) ==
  /\ marked' \subseteq inactive' /\ marked' \ freed' \subseteq deadEntries'
  /\ keys' \subseteq Prepended'
  /\ at'[c] \in {"RegisterEnter", "Prepend"} =>
       rank'[cursor'[c]] = 0 /\ \A e \in Contexts \ {c} : cursor[e] # cursor'[c]
  /\ at'[c] \in {"RegisterLeave"} \cup SendPlaces \cup RevokePlaces => cursor'[c] \in Prepended'
  /\ at'[c] \in SendPlaces \cup WaitPlaces => cursor'[c] \notin freed'
  /\ \/ cursor'[c] = cursor[c] \/ cursor'[c] \in Prepended \cup {Nobody}
     \/ at'[c] = "RegisterEnter"

\* The iterator stays among linked deliverers.
LEMMA AdvanceLinked ==
  ASSUME rank \in [Deliverers -> Nat], NEW c, cursor[c] \in Deliverers, Advance(c)
  PROVE  \E next \in Deliverers \cup {Nobody} :
           /\ cursor' = [cursor EXCEPT ![c] = next]
           /\ at' = [at EXCEPT ![c] = IF next = Nobody THEN "NextList" ELSE "Visit"]
           /\ next # Nobody => Linked(next)
<1>1. PICK next \in Deliverers \cup {Nobody} :
        /\ next = Following(ListOf[cursor[c]], rank[cursor[c]])
        /\ cursor' = [cursor EXCEPT ![c] = next]
        /\ at' = [at EXCEPT ![c] = IF next = Nobody THEN "NextList" ELSE "Visit"]
  BY AdvanceTyped
<1>2. next # Nobody => Linked(next)
  BY <1>1, FollowingIsNext
<1> QED
  BY <1>1, <1>2

\* What the moving context goes on with is on a list, or marked, and not deleted.
LEMMA OwnListStep ==
  ASSUME ControlOK, ListsOK, Grows, NEW c \in Contexts, Move(c)
  PROVE  OwnList(c)
<1> USE DEF ControlOK, TypesOK, HasCursor, ListsOK, Knows, OwnList, Goto, PointTo, Return,
            Enter, Prepended, RegisterPlaces, SendPlaces, RevokePlaces, WaitPlaces,
            registry, counters, contexts
<1>1. ASSUME NEW d \in Deliverers, StartRegister(c, d) PROVE OwnList(c)
  BY <1>1 DEF StartRegister, CanCall
<1>2. ASSUME NEW walk \in Walks, StartSend(c, walk) PROVE OwnList(c)
  BY <1>2 DEF StartSend, CanCall
<1>3. ASSUME NEW d \in Revocable, StartRevoke(c, d) PROVE OwnList(c)
  BY <1>3, SubsetsAssumption DEF StartRevoke, CanCall, IsValid
<1>4. CASE RegisterEnter(c)
  BY <1>4 DEF RegisterEnter
<1>5. CASE Prepend(c)
  <2>1. rank'[cursor[c]] > 0 /\ cursor[c] \in Deliverers
    <3>1. Cardinality(Prepended) + 1 \in Nat \ {0}
      BY FiniteDeliverers
    <3> QED
      BY <1>5, <3>1 DEF Prepend
  <2>2. keys' \subseteq Prepended'
    BY <1>5, <2>1 DEF Prepend
  <2> QED
    BY <1>5, <2>1, <2>2 DEF Prepend
<1>6. CASE RegisterLeave(c)
  BY <1>6 DEF RegisterLeave
<1>7. CASE SendEnter(c)
  BY <1>7 DEF SendEnter
<1>8. CASE NextList(c)
  <2>1. CASE todo[c] = <<>>
    BY <1>8, <2>1 DEF NextList
  <2>2. CASE todo[c] # <<>>
    <3> DEFINE first == Following(Head(todo[c]), InFront)
    <3>1. first \in Deliverers \cup {Nobody} /\ (first # Nobody => Linked(first))
      BY FiniteDeliverers, FollowingIsNext DEF InFront
    <3> HIDE DEF first
    <3>2. /\ at' = [at EXCEPT ![c] = IF first = Nobody THEN "NextList" ELSE "Visit"]
          /\ cursor' = [cursor EXCEPT ![c] = first]
      BY <1>8, <2>2 DEF NextList, first
    <3> QED
      BY <1>8, <3>1, <3>2 DEF NextList, Linked
  <2> QED
    BY <2>1, <2>2
<1>9. CASE Visit(c)
  BY <1>9 DEF Visit
<1>10. CASE Begin(c)
  BY <1>10 DEF Begin
<1>11. CASE Check(c)
  BY <1>11 DEF Check
<1>12. CASE HandlerEnds(c)
  BY <1>12 DEF HandlerEnds
<1>13. CASE EndDelivery(c)
  <2>1. CASE at[c] = "EndDelivered" /\ Advance(c)
    <3>1. PICK next \in Deliverers \cup {Nobody} :
            /\ cursor' = [cursor EXCEPT ![c] = next]
            /\ at' = [at EXCEPT ![c] = IF next = Nobody THEN "NextList" ELSE "Visit"]
            /\ next # Nobody => Linked(next)
      BY <2>1, AdvanceLinked
    <3> QED
      BY <1>13, <3>1 DEF EndDelivery, Linked
  <2>2. CASE at[c] # "EndDelivered"
    BY <1>13, <2>2 DEF EndDelivery
  <2> QED
    BY <1>13, <2>1, <2>2 DEF EndDelivery
<1>14. CASE Mark(c)
  <2>1. Advance(c) /\ cursor[c] \in Deliverers
    BY <1>14 DEF Mark
  <2>2. /\ marked' \subseteq inactive' /\ marked' \ freed' \subseteq deadEntries'
        /\ keys' \subseteq Prepended' /\ rank' = rank /\ freed' = freed
    BY <1>14 DEF Mark, Bury
  <2> QED
    <3>1. PICK next \in Deliverers \cup {Nobody} :
            /\ cursor' = [cursor EXCEPT ![c] = next]
            /\ at' = [at EXCEPT ![c] = IF next = Nobody THEN "NextList" ELSE "Visit"]
            /\ next # Nobody => Linked(next)
      BY <2>1, AdvanceLinked
    <3> QED
      BY <1>14, <2>2, <3>1 DEF Linked
<1>15. CASE SendLeave(c)
  BY <1>15 DEF SendLeave
<1>16. CASE RevokeAlone(c)
  BY <1>16 DEF RevokeAlone
<1>17. CASE RevokeAmongOthers(c)
  <2>1. /\ marked' \subseteq inactive' /\ marked' \ freed' \subseteq deadEntries'
        /\ keys' \subseteq Prepended' /\ rank' = rank /\ freed' = freed /\ cursor[c] \notin freed
    BY <1>17 DEF RevokeAmongOthers, Bury
  <2>2. CASE at[c] = "Revoke"
    BY <1>17, <2>1, <2>2 DEF RevokeAmongOthers
  <2>3. CASE at[c] = "RevokeWaiting"
    BY <1>17, <2>1, <2>3 DEF RevokeAmongOthers
  <2> QED
    BY <1>17, <2>2, <2>3 DEF RevokeAmongOthers
<1>18. CASE RevokeNull(c)
  BY <1>18 DEF RevokeNull
<1>19. CASE SetWaitBit(c)
  BY <1>19 DEF SetWaitBit
<1>20. CASE WaitSends(c)
  BY <1>20 DEF WaitSends
<1>21. CASE RevokeLeave(c)
  BY <1>21 DEF RevokeLeave
<1> QED
  BY <1>1, <1>2, <1>3, <1>4, <1>5, <1>6, <1>7, <1>8, <1>9, <1>10, <1>11, <1>12, <1>13, <1>14, <1>15, <1>16, <1>17, <1>18, <1>19, <1>20, <1>21 DEF Move, Call, Step

\* Neither a rank that c gives out nor a deletion by c touches a deliverer that
\* another context knows.
LEMMA ListsStep ==
  ASSUME ControlOK, UsersCounted, BusyCounted, RanksOK, ListsOK, NEW c \in Contexts, Move(c)
  PROVE  ListsOK'
<1>1. Grows /\ FreesAlone(c) /\ OnlyMoves(c)
  BY GrowthStep, ControlStep
<1>2. OwnList(c)
  BY <1>1, OwnListStep
<1>3. \/ rank' = rank
      \/ /\ at[c] = "Prepend" /\ cursor[c] \in Deliverers
         /\ \A d \in Deliverers \ {cursor[c]} : rank'[d] = rank[d]
  BY RanksStep
<1>4. Knows(c)'
  <2>1. \A e \in Contexts \ {c} : cursor'[e] = cursor[e]
    BY <1>1 DEF OnlyMoves
  <2> QED
    BY <1>2, <2>1 DEF Knows, OwnList
<1>5. ASSUME NEW e \in Contexts \ {c} PROVE Knows(e)'
  <2>1. at'[e] = at[e] /\ cursor'[e] = cursor[e] /\ Knows(e) /\ Knows(c)
    BY <1>1 DEF OnlyMoves, ListsOK
  <2>2. ASSUME at[e] \in {"RegisterEnter", "Prepend"}
        PROVE  rank'[cursor[e]] = 0 /\ \A f \in Contexts \ {e} : cursor'[f] # cursor[e]
    <3>1. cursor[e] \in Deliverers /\ rank[cursor[e]] = 0
      BY <2>1, <2>2 DEF ControlOK, HasCursor, RegisterPlaces, Knows
    <3>2. \A f \in Contexts \ {e} : cursor[f] # cursor[e]
      BY <2>1, <2>2 DEF Knows
    <3>3. rank'[cursor[e]] = 0
      BY <1>3, <3>1, <3>2
    <3>4. cursor'[c] # cursor[e]
      BY <1>2, <2>1, <2>2, <3>1, <3>2, NobodyAssumption DEF OwnList, Prepended
    <3>5. \A f \in Contexts \ {e, c} : cursor'[f] # cursor[e]
      BY <1>1, <3>2 DEF OnlyMoves
    <3> QED
      BY <3>3, <3>4, <3>5
  <2>3. at[e] \in {"RegisterLeave"} \cup SendPlaces \cup RevokePlaces => cursor[e] \in Prepended'
    BY <1>1, <2>1 DEF Knows, Grows, Prepended
  <2>4. at[e] \in SendPlaces \cup WaitPlaces => cursor[e] \notin freed'
    BY <1>1, <2>1 DEF Knows, FreesAlone
  <2> QED
    BY <2>1, <2>2, <2>3, <2>4 DEF Knows
<1> QED
  BY <1>2, <1>4, <1>5 DEF ListsOK, OwnList

-----------------------------------------------------------------------------
(* Who waits for the deliveries to end waits for the last of them. *)

\* What the step of c does to deliveries, wait bits and waits.
OwnWait(c) ==
  /\ at'[c] \in {"Check", "Handler"} =>
       cursor'[c] = cursor[c] /\ (at[c] \in {"Check", "Handler"} \/ ~waitBit[cursor[c]])
  /\ \A d \in Deliverers : waitBit'[d] => d \in inactive'
  /\ at'[c] \in WaitPlaces => cursor'[c] \in inactive'
  /\ at'[c] \in {"WaitSends", "RevokeLeave"} => waitBit'[cursor'[c]]
  /\ at'[c] = "RevokeLeave" => Silent(cursor'[c])
  /\ \A d \in waited' \ waited : d \in freed' \/ (at[c] = "RevokeLeave" /\ d = cursor[c])

\* A revoker that stops waiting has seen the busy count at zero.
LEMMA OwnWaitStep ==
  ASSUME ControlOK, UsersCounted, BusyCounted, ListsOK, WaitsOK, NEW c \in Contexts, Move(c)
  PROVE  OwnWait(c)
<1> USE DEF ControlOK, TypesOK, HasCursor, WaitsOK, OwnWait, Goto, PointTo, Return, Enter,
            RevokePlaces, WaitPlaces, registry, counters, contexts
<1>1. ASSUME NEW d \in Deliverers, StartRegister(c, d) PROVE OwnWait(c)
  BY <1>1 DEF StartRegister, CanCall
<1>2. ASSUME NEW walk \in Walks, StartSend(c, walk) PROVE OwnWait(c)
  BY <1>2 DEF StartSend, CanCall
<1>3. ASSUME NEW d \in Revocable, StartRevoke(c, d) PROVE OwnWait(c)
  BY <1>3 DEF StartRevoke, CanCall
<1>4. CASE RegisterEnter(c)
  BY <1>4 DEF RegisterEnter
<1>5. CASE Prepend(c)
  BY <1>5 DEF Prepend
<1>6. CASE RegisterLeave(c)
  BY <1>6 DEF RegisterLeave
<1>7. CASE SendEnter(c)
  BY <1>7 DEF SendEnter
<1>8. CASE NextList(c)
  BY <1>8 DEF NextList
<1>9. CASE Visit(c)
  BY <1>9 DEF Visit
<1>10. CASE Begin(c)
  BY <1>10 DEF Begin, MayBegin
<1>11. CASE Check(c)
  BY <1>11 DEF Check
<1>12. CASE HandlerEnds(c)
  BY <1>12 DEF HandlerEnds
<1>13. CASE EndDelivery(c)
  BY <1>13 DEF EndDelivery, Advance
<1>14. CASE Mark(c)
  BY <1>14 DEF Mark, Bury, Advance
<1>15. CASE SendLeave(c)
  BY <1>15 DEF SendLeave
<1>16. CASE RevokeAlone(c)
  BY <1>16 DEF RevokeAlone, WaitReturns
<1>17. CASE RevokeAmongOthers(c)
  <2>1. /\ inactive \subseteq inactive' /\ cursor[c] \in marked'
        /\ cursor[c] \in marked \/ cursor[c] \in inactive'
    BY <1>17 DEF RevokeAmongOthers, Bury
  <2>2. CASE at[c] = "Revoke"
    BY <1>17, <2>1, <2>2 DEF RevokeAmongOthers
  <2>3. CASE at[c] = "RevokeWaiting"
    BY <1>17, <2>1, <2>3 DEF RevokeAmongOthers, ListsOK
  <2> QED
    BY <1>17, <2>2, <2>3 DEF RevokeAmongOthers
<1>18. CASE RevokeNull(c)
  BY <1>18 DEF RevokeNull
<1>19. CASE SetWaitBit(c)
  <2>1. busy[cursor[c]] = 0 => Silent(cursor[c])
    <3>1. cursor[c] \in Deliverers
      BY <1>19 DEF SetWaitBit
    <3>2. busy[cursor[c]] = 0 => \A e \in Contexts : ~Delivers(e, cursor[c])
      BY <3>1, CountersTell
    <3> QED
      BY <3>2 DEF Silent, Delivers, Delivering
  <2> QED
    BY <1>19, <2>1 DEF SetWaitBit
<1>20. CASE WaitSends(c)
  <2>1. busy[cursor[c]] = 0 => Silent(cursor[c])
    <3>1. cursor[c] \in Deliverers
      BY <1>20 DEF WaitSends
    <3>2. busy[cursor[c]] = 0 => \A e \in Contexts : ~Delivers(e, cursor[c])
      BY <3>1, CountersTell
    <3> QED
      BY <3>2 DEF Silent, Delivers, Delivering
  <2> QED
    BY <1>20, <2>1 DEF WaitSends
<1>21. CASE RevokeLeave(c)
  BY <1>21 DEF RevokeLeave, WaitReturns
<1> QED
  BY <1>1, <1>2, <1>3, <1>4, <1>5, <1>6, <1>7, <1>8, <1>9, <1>10, <1>11, <1>12, <1>13, <1>14, <1>15, <1>16, <1>17, <1>18, <1>19, <1>20, <1>21 DEF Move, Call, Step

\* Waits go on being for sends that are in the listener.
LEMMA WaitsStep ==
  ASSUME ControlOK, UsersCounted, BusyCounted, ListsOK, WaitsOK, NEW c \in Contexts, Move(c)
  PROVE  WaitsOK'
<1>1. Grows /\ OnlyMoves(c) /\ OwnWait(c) /\ ControlOK'
  BY GrowthStep, ControlStep, OwnWaitStep
<1>2. ASSUME NEW d \in Deliverers, waitBit[d], Silent(d)
      PROVE  waitBit'[d] /\ Silent(d)'
  <2>1. waitBit'[d]
    BY <1>1, <1>2 DEF Grows
  <2>2. \A e \in Contexts \ {c} : at'[e] \in {"Check", "Handler"} => cursor'[e] # d
    BY <1>1, <1>2 DEF OnlyMoves, Silent
  <2>3. at'[c] \in {"Check", "Handler"} => cursor'[c] # d
    BY <1>1, <1>2 DEF OwnWait, Silent
  <2> QED
    BY <2>1, <2>2, <2>3 DEF Silent
<1>3. ASSUME NEW d \in waited' PROVE d \in freed' \/ (waitBit'[d] /\ Silent(d)')
  <2>1. d \in Deliverers
    BY <1>1 DEF ControlOK, TypesOK
  <2>2. CASE d \in waited
    BY <1>1, <1>2, <2>1, <2>2 DEF WaitsOK, Grows
  <2>3. CASE at[c] = "RevokeLeave" /\ d = cursor[c]
    BY <1>2, <2>1, <2>3 DEF WaitsOK
  <2> QED
    BY <1>1, <2>2, <2>3 DEF OwnWait
<1>4. ASSUME NEW e \in Contexts
      PROVE  /\ at'[e] \in WaitPlaces => cursor'[e] \in inactive'
             /\ at'[e] \in {"WaitSends", "RevokeLeave"} => waitBit'[cursor'[e]]
             /\ at'[e] = "RevokeLeave" => Silent(cursor[e])'
  <2>1. CASE e = c
    <3>1. ASSUME at'[c] = "RevokeLeave" PROVE Silent(cursor[c])'
      BY <1>1, <3>1 DEF OwnWait, Silent, OnlyMoves
    <3> QED
      BY <1>1, <2>1, <3>1 DEF OwnWait
  <2>2. CASE e # c
    <3>1. at'[e] = at[e] /\ cursor'[e] = cursor[e]
      BY <1>1, <2>2 DEF OnlyMoves
    <3>2. at[e] \in WaitPlaces => cursor[e] \in Deliverers
      BY DEF ControlOK, HasCursor, RevokePlaces
    <3>3. at[e] \in WaitPlaces => cursor[e] \in inactive'
      BY <1>1 DEF WaitsOK, Grows
    <3>4. at[e] \in {"WaitSends", "RevokeLeave"} => waitBit'[cursor[e]]
      BY <1>1, <3>2 DEF WaitsOK, Grows, WaitPlaces
    <3>5. at[e] = "RevokeLeave" => Silent(cursor[e])'
      BY <1>2, <3>1, <3>2 DEF WaitsOK, WaitPlaces, Silent
    <3> QED
      BY <3>1, <3>3, <3>4, <3>5 DEF Silent
  <2> QED
    BY <2>1, <2>2
<1> QED
  BY <1>1, <1>3, <1>4 DEF WaitsOK, OwnWait

-----------------------------------------------------------------------------
(* A send loses nobody and meets nobody twice. *)

\* Deliverers whose notice the send of c owes.
Owed(c) == due[c] \ (got[c] \cup inactive \cup expired \cup freed)

\* What a step that moves no iterator does to the send of c.
Keeps(c) ==
  /\ todo'[c] = todo[c] /\ due'[c] = due[c] /\ got'[c] = got[c]
  /\ at'[c] \in SendPlaces => at[c] \in SendPlaces /\ cursor'[c] = cursor[c]
  /\ at[c] \in SendPlaces => at'[c] \in SendPlaces \cup {"Unwind"}
  /\ at[c] \in Sending => at'[c] \in Sending
  /\ at'[c] \in (Sending \ {"Unwind"}) \cup {"SendEnter"} =>
       at[c] \in (Sending \ {"Unwind"}) \cup {"SendEnter"}
  /\ at'[c] = "EndExpired" => cursor[c] \in expired'
  /\ at'[c] \in {"Undo", "Mark"} => cursor[c] \in inactive' \cup expired'
  /\ at'[c] = "SendLeave" => todo[c] = <<>>

\* What a send has reached and what is ahead of it survives the steps of others.
LEMMA SendKept ==
  ASSUME ControlOK, ListsOK, Grows, NEW e \in Contexts, SendOK(e), Keeps(e)
  PROVE  SendOK(e)'
<1> USE DEF Keeps
<1>1. at[e] \in SendPlaces => cursor[e] \in Prepended
  BY DEF ListsOK, Knows
<1>2. Prepended \subseteq Prepended' /\ \A d \in Prepended : rank'[d] = rank[d]
  BY DEF Grows, Prepended
<1>3. got[e] \subseteq Prepended /\ due[e] \subseteq Prepended
  BY DEF SendOK
<1>4. \A list : Ahead(e, list)' <=> Ahead(e, list)
  BY DEF Ahead
<1>5. \A d \in Prepended : NotPast(e, ListOf[d], rank[d])' => NotPast(e, ListOf[d], rank[d])
  BY <1>1, <1>2 DEF NotPast
<1>6. \A d \in Prepended : NotPast(e, ListOf[d], rank[d]) /\ at'[e] # "Unwind"
                            => NotPast(e, ListOf[d], rank[d])'
  BY <1>1, <1>2 DEF NotPast
<1>7. \A d \in got'[e] : ~Ahead(e, ListOf[d])' /\ ~NotPast(e, ListOf[d], rank[d])'
  BY <1>3, <1>4, <1>5 DEF SendOK
<1>8. ASSUME at'[e] \in (Sending \ {"Unwind"}) \cup {"SendEnter"},
             NEW d \in due'[e] \ (got'[e] \cup inactive' \cup expired' \cup freed')
      PROVE  Ahead(e, ListOf[d])' \/ NotPast(e, ListOf[d], rank[d])'
  <2>1. d \in due[e] \ (got[e] \cup inactive \cup expired \cup freed)
    BY <1>8 DEF Grows
  <2>2. Ahead(e, ListOf[d]) \/ NotPast(e, ListOf[d], rank[d])
    BY <1>8, <2>1 DEF SendOK
  <2>3. d \in Prepended /\ at'[e] # "Unwind"
    BY <1>3, <1>8, <2>1
  <2> QED
    BY <1>4, <1>6, <2>2, <2>3
<1>9. /\ \A i, j \in DOMAIN todo'[e] : todo'[e][i] = todo'[e][j] => i = j
      /\ at'[e] \in SendPlaces => ~Ahead(e, ListOf[cursor[e]])'
      /\ at'[e] \notin Sending => got'[e] = {}
  BY DEF SendOK, Ahead
<1> QED
  BY <1>2, <1>3, <1>7, <1>8, <1>9 DEF SendOK, SendPlaces

\* The iterator moves on from a deliverer that got the notice or may do without.
LEMMA SendAdvances ==
  ASSUME ControlOK, RanksOK, ListsOK, Grows, rank' = rank, NEW c \in Contexts, SendOK(c),
         at[c] \in SendPlaces, Advance(c), todo'[c] = todo[c], due'[c] = due[c],
         got'[c] \in {got[c], got[c] \cup {cursor[c]}},
         cursor[c] \in got'[c] \cup inactive' \cup expired'
  PROVE  SendOK(c)'
<1> DEFINE d == cursor[c]
           next == Following(ListOf[d], rank[d])
           rest == {e \in Deliverers : ListOf[e] = ListOf[d] /\ Linked(e) /\ rank[e] < rank[d]}
<1>1. d \in Prepended /\ d \in Deliverers /\ rank \in [Deliverers -> Nat] /\ rank[d] \in Nat
  BY DEF ListsOK, Knows, Prepended, ControlOK, TypesOK
<1>2. /\ next = Nobody => rest = {}
      /\ next # Nobody => next \in rest /\ \A e \in rest : rank[e] <= rank[next]
  <2> HIDE DEF next, rest
  <2> QED
    BY <1>1, FollowingIsNext DEF next, rest
<1>3. cursor'[c] = next /\ at'[c] = IF next = Nobody THEN "NextList" ELSE "Visit"
  <2> HIDE DEF next
  <2> QED
    BY DEF next, Advance, PointTo, Goto, ControlOK, TypesOK
<1> HIDE DEF next
<1>4. at'[c] \in SendPlaces => next \in rest
  BY <1>2, <1>3 DEF SendPlaces
<1>5. \A list : Ahead(c, list)' <=> Ahead(c, list)
  BY DEF Ahead
<1>6. Prepended' = Prepended /\ got'[c] \subseteq Prepended /\ due'[c] \subseteq Prepended
  BY <1>1 DEF Prepended, SendOK
<1>7. ASSUME NEW x \in got'[c]
      PROVE  ~Ahead(c, ListOf[x])' /\ ~NotPast(c, ListOf[x], rank[x])'
  <2>1. ~Ahead(c, ListOf[x]) /\ (ListOf[x] = ListOf[d] => rank[x] >= rank[d])
    <3>1. CASE x = d
      BY <1>1, <3>1 DEF SendOK
    <3>2. CASE x # d
      <4>1. x \in got[c]
        BY <3>2
      <4>2. ~Ahead(c, ListOf[x]) /\ ~NotPast(c, ListOf[x], rank[x])
        BY <4>1 DEF SendOK
      <4>3. rank[x] \in Nat
        BY <1>1, <4>1 DEF SendOK, Prepended
      <4> QED
        BY <1>1, <4>2, <4>3 DEF NotPast
    <3> QED
      BY <3>1, <3>2
  <2>2. rank[x] \in Nat /\ x \in Deliverers
    BY <1>1, <1>6 DEF Prepended
  <2>3. ~NotPast(c, ListOf[x], rank[x])'
    BY <1>1, <1>3, <1>4, <2>1, <2>2 DEF NotPast
  <2> QED
    BY <1>5, <2>1, <2>3
<1>8. ASSUME NEW x \in due'[c] \ (got'[c] \cup inactive' \cup expired' \cup freed')
      PROVE  Ahead(c, ListOf[x])' \/ NotPast(c, ListOf[x], rank[x])'
  <2>1. x \in due[c] \ (got[c] \cup inactive \cup expired \cup freed) /\ x # d
    BY DEF Grows
  <2>2. Ahead(c, ListOf[x]) \/ NotPast(c, ListOf[x], rank[x])
    BY <2>1 DEF SendOK, Sending, SendPlaces
  <2>3. x \in Prepended /\ x \in Deliverers /\ rank[x] \in Nat /\ Linked(x)
    BY <1>1, <1>6, <2>1 DEF Prepended, Linked
  <2>4. CASE NotPast(c, ListOf[x], rank[x])
    <3>1. ListOf[x] = ListOf[d] /\ rank[x] < rank[d]
      BY <1>1, <2>1, <2>3, <2>4 DEF NotPast, RanksOK
    <3>2. x \in rest
      BY <2>3, <3>1
    <3>3. next # Nobody /\ next \in rest /\ rank[x] <= rank[next]
      BY <1>2, <3>2
    <3> QED
      BY <1>3, <3>1, <3>3 DEF NotPast, SendPlaces
  <2> QED
    BY <1>5, <2>2, <2>4
<1>9. /\ \A i, j \in DOMAIN todo'[c] : todo'[c][i] = todo'[c][j] => i = j
      /\ at'[c] \in SendPlaces => ~Ahead(c, ListOf[cursor[c]])'
  BY <1>3, <1>4, <1>5 DEF SendOK, Ahead
<1>10. at'[c] \in {"NextList", "Visit"}
  BY <1>3
<1> QED
  BY <1>6, <1>7, <1>8, <1>9, <1>10 DEF SendOK, Sending, SendPlaces

\* The send begins its next list, at the front.
LEMMA SendBeginsList ==
  ASSUME ControlOK, RanksOK, ListsOK, NEW c \in Contexts, SendOK(c), NextList(c), todo[c] # <<>>
  PROVE  SendOK(c)'
<1> DEFINE list == Head(todo[c])
           next == Following(list, InFront)
           rest == {e \in Deliverers : ListOf[e] = list /\ Linked(e) /\ rank[e] < InFront}
<1>1. /\ at[c] = "NextList" /\ todo[c] \in Seq(Lists) /\ rank \in [Deliverers -> Nat]
      /\ UNCHANGED <<registry, expired, due, got>>
  BY DEF NextList, ControlOK, TypesOK
<1>2. \A x \in Deliverers : rank[x] < InFront
  <2>1. IsFiniteSet(Prepended) /\ Cardinality(Prepended) \in Nat /\ Cardinality(Deliverers) \in Nat
    BY FiniteDeliverers DEF Prepended
  <2>2. Cardinality(Prepended) <= Cardinality(Deliverers)
    BY DeliverersAssumption, FS_Subset DEF Prepended
  <2> QED
    BY <1>1, <2>1, <2>2 DEF RanksOK, InFront
<1>3. /\ next = Nobody => rest = {}
      /\ next # Nobody => next \in rest /\ \A e \in rest : rank[e] <= rank[next]
  <2>1. InFront \in Nat
    BY FiniteDeliverers DEF InFront
  <2> HIDE DEF list
  <2> QED
    BY <1>1, <2>1, FollowingIsNext
<1>4. /\ cursor'[c] = next /\ todo'[c] = Tail(todo[c])
      /\ at'[c] = IF next = Nobody THEN "NextList" ELSE "Visit"
  <2> HIDE DEF next
  <2> QED
    BY DEF next, list, NextList, PointTo, Goto, ControlOK, TypesOK
<1> HIDE DEF next
<1>5. at'[c] \in {"NextList", "Visit"} /\ (at'[c] \in SendPlaces => next \in rest)
  BY <1>3, <1>4 DEF SendPlaces
<1>6. list = todo[c][1] /\ DOMAIN todo[c] = 1 .. Len(todo[c]) /\ Len(todo[c]) \in Nat \ {0}
  BY <1>1
<1>7. DOMAIN todo'[c] = 1 .. Len(todo[c]) - 1 /\ \A i \in DOMAIN todo'[c] : todo'[c][i] = todo[c][i + 1]
  BY <1>1, <1>4, <1>6
<1>8. \A l : Ahead(c, l)' => Ahead(c, l)
  BY <1>6, <1>7 DEF Ahead
<1>9. \A l : Ahead(c, l) => l = list \/ Ahead(c, l)'
  <2> SUFFICES ASSUME NEW i \in DOMAIN todo[c]
               PROVE  todo[c][i] = list \/ \E j \in DOMAIN todo'[c] : todo'[c][j] = todo[c][i]
    BY DEF Ahead
  <2>1. CASE i # 1
    <3>1. i - 1 \in DOMAIN todo'[c] /\ todo'[c][i - 1] = todo[c][i]
      BY <1>6, <1>7, <2>1
    <3> QED
      BY <3>1
  <2> QED
    BY <1>6, <2>1
<1>10. /\ \A i \in DOMAIN todo'[c] : todo'[c][i] # list
       /\ \A i, j \in DOMAIN todo'[c] : todo'[c][i] = todo'[c][j] => i = j
  <2>1. \A i, j \in DOMAIN todo[c] : todo[c][i] = todo[c][j] => i = j
    BY DEF SendOK
  <2>2. \A i \in DOMAIN todo'[c] : i + 1 \in DOMAIN todo[c] /\ i \in Nat \ {0}
    BY <1>6, <1>7
  <2>3. ASSUME NEW i \in DOMAIN todo'[c] PROVE todo'[c][i] # list
    <3>1. i + 1 \in DOMAIN todo[c] /\ 1 \in DOMAIN todo[c] /\ i + 1 # 1
      BY <1>6, <2>2
    <3>2. todo[c][i + 1] # todo[c][1]
      BY <2>1, <3>1
    <3> QED
      BY <1>6, <1>7, <3>2
  <2>4. ASSUME NEW i \in DOMAIN todo'[c], NEW j \in DOMAIN todo'[c], todo'[c][i] = todo'[c][j]
        PROVE  i = j
    <3>1. i + 1 = j + 1
      BY <1>7, <2>1, <2>2, <2>4
    <3> QED
      BY <2>2, <3>1
  <2> QED
    BY <2>3, <2>4
<1>11. Prepended' = Prepended /\ got'[c] \subseteq Prepended /\ due'[c] \subseteq Prepended
  BY <1>1 DEF Prepended, SendOK, registry
<1>12. Ahead(c, list)
  BY <1>6 DEF Ahead
<1>13. ASSUME NEW x \in got'[c]
       PROVE  ~Ahead(c, ListOf[x])' /\ ~NotPast(c, ListOf[x], rank[x])'
  <2>1. ~Ahead(c, ListOf[x])
    BY <1>1 DEF SendOK
  <2>2. ListOf[x] # list
    BY <1>12, <2>1
  <2>3. ~NotPast(c, ListOf[x], rank[x])'
    BY <1>4, <1>5, <2>2 DEF NotPast
  <2> QED
    BY <1>8, <2>1, <2>3
<1>14. ASSUME NEW x \in due'[c] \ (got'[c] \cup inactive' \cup expired' \cup freed')
       PROVE  Ahead(c, ListOf[x])' \/ NotPast(c, ListOf[x], rank[x])'
  <2>1. x \in due[c] \ (got[c] \cup inactive \cup expired \cup freed)
    BY <1>1 DEF registry
  <2>2. Ahead(c, ListOf[x])
    BY <1>1, <2>1 DEF SendOK, NotPast, Sending, SendPlaces
  <2>3. x \in Deliverers /\ Linked(x)
    BY <1>1, <1>11, <2>1 DEF Prepended, Linked
  <2>4. CASE ListOf[x] = list
    <3>1. x \in rest
      BY <1>2, <2>3, <2>4
    <3>2. next # Nobody /\ next \in rest /\ rank[x] <= rank[next]
      BY <1>3, <3>1
    <3> QED
      BY <1>1, <1>4, <2>4, <3>2 DEF NotPast, SendPlaces, registry
  <2> QED
    BY <1>9, <2>2, <2>4
<1>15. at'[c] \in SendPlaces => ~Ahead(c, ListOf[cursor[c]])'
  BY <1>4, <1>5, <1>10 DEF Ahead
<1> QED
  BY <1>5, <1>10, <1>11, <1>13, <1>14, <1>15 DEF SendOK, Sending, SendPlaces

\* A send that starts owes the notice to all that is registered, and all is ahead.
LEMMA SendStarts ==
  ASSUME ControlOK, ListsOK, NEW c \in Contexts, SendOK(c), NEW walk \in Walks, StartSend(c, walk)
  PROVE  SendOK(c)'
<1>1. /\ at[c] = "Idle" /\ at'[c] = "SendEnter" /\ todo'[c] = walk
      /\ due'[c] = Expecting(walk) /\ got'[c] = got[c]
      /\ UNCHANGED <<registry, expired>>
  BY DEF StartSend, CanCall, Goto, ControlOK, TypesOK
<1>2. got[c] = {}
  BY <1>1 DEF SendOK, Sending, SendPlaces
<1>3. Expecting(walk) \subseteq Prepended /\ Prepended' = Prepended
  BY <1>1 DEF Expecting, ListsOK, Prepended, registry
<1>4. \A d \in Expecting(walk) : Ahead(c, ListOf[d])'
  BY <1>1 DEF Expecting, Ahead
<1>5. \A i, j \in DOMAIN walk : walk[i] = walk[j] => i = j
  BY WalksAssumption
<1> QED
  BY <1>1, <1>2, <1>3, <1>4, <1>5 DEF SendOK, Sending, SendPlaces

\* A call that has returned owes nothing.
LEMMA SendReturns ==
  ASSUME ControlOK, NEW c \in Contexts, Return(c)
  PROVE  SendOK(c)'
<1>1. at'[c] = "Idle" /\ todo'[c] = <<>> /\ due'[c] = {} /\ got'[c] = {}
  BY DEF Return, ControlOK, TypesOK
<1> QED
  BY <1>1 DEF SendOK, Sending, SendPlaces

\* Every step keeps the sends sound.
LEMMA SendStep ==
  ASSUME ControlOK, UsersCounted, BusyCounted, RanksOK, ListsOK, WaitsOK, NEW c \in Contexts,
         \A e \in Contexts : SendOK(e), Move(c)
  PROVE  \A e \in Contexts : SendOK(e)'
<1>a. Grows /\ OnlyMoves(c) /\ SendOK(c)
  BY GrowthStep, ControlStep
<1>b. ASSUME NEW e \in Contexts \ {c} PROVE SendOK(e)'
  <2>1. /\ todo'[e] = todo[e] /\ due'[e] = due[e] /\ got'[e] = got[e]
        /\ at'[e] = at[e] /\ cursor'[e] = cursor[e]
    BY <1>a DEF OnlyMoves
  <2>2. SendOK(e)
    OBVIOUS
  <2>3. /\ at[e] = "EndExpired" => cursor[e] \in expired'
        /\ at[e] \in {"Undo", "Mark"} => cursor[e] \in inactive' \cup expired'
        /\ at[e] = "SendLeave" => todo[e] = <<>>
    BY <1>a, <2>2 DEF SendOK, Grows
  <2> QED
    BY <1>a, <2>1, <2>2, <2>3, SendKept DEF Keeps
<1>c. SendOK(c)'
  <2> USE <1>a
  <2>1. ASSUME NEW d \in Deliverers, StartRegister(c, d) PROVE SendOK(c)'
    <3>1. Keeps(c)
      BY <2>1 DEF Keeps, StartRegister, CanCall, Goto, ControlOK, TypesOK, Sending, SendPlaces, SendOK, WaitsOK, contexts
    <3> QED
      BY <3>1, SendKept
  <2>2. ASSUME NEW walk \in Walks, StartSend(c, walk) PROVE SendOK(c)'
    BY <2>2, SendStarts
  <2>3. ASSUME NEW d \in Revocable, StartRevoke(c, d) PROVE SendOK(c)'
    <3>1. Keeps(c)
      BY <2>3 DEF Keeps, StartRevoke, CanCall, Goto, ControlOK, TypesOK, Sending, SendPlaces, SendOK, WaitsOK, contexts
    <3> QED
      BY <3>1, SendKept
  <2>4. CASE RegisterEnter(c)
    <3>1. Keeps(c)
      BY <2>4 DEF Keeps, RegisterEnter, Enter, Goto, ControlOK, TypesOK, Sending, SendPlaces, SendOK, WaitsOK, contexts
    <3> QED
      BY <3>1, SendKept
  <2>5. CASE Prepend(c)
    <3>1. Keeps(c)
      BY <2>5 DEF Keeps, Prepend, Goto, ControlOK, TypesOK, Sending, SendPlaces, SendOK, WaitsOK, contexts
    <3> QED
      BY <3>1, SendKept
  <2>6. CASE RegisterLeave(c)
    BY <2>6, SendReturns DEF RegisterLeave
  <2>7. CASE SendEnter(c)
    <3>1. Keeps(c)
      BY <2>7 DEF Keeps, SendEnter, Enter, Goto, ControlOK, TypesOK, Sending, SendPlaces, SendOK, WaitsOK, contexts
    <3> QED
      BY <3>1, SendKept
  <2>8. CASE NextList(c)
    <3>1. CASE todo[c] = <<>>
      <4>1. Keeps(c)
        BY <2>8, <3>1 DEF Keeps, NextList, Goto, ControlOK, TypesOK, Sending, SendPlaces
      <4> QED
        BY <4>1, SendKept
    <3>2. CASE todo[c] # <<>>
      BY <2>8, <3>2, SendBeginsList
    <3> QED
      BY <3>1, <3>2
  <2>9. CASE Visit(c)
    <3>1. Keeps(c)
      BY <2>9 DEF Keeps, Visit, registry, Goto, ControlOK, TypesOK, Sending, SendPlaces, SendOK, WaitsOK, contexts
    <3> QED
      BY <3>1, SendKept
  <2>10. CASE Begin(c)
    <3>1. Keeps(c)
      BY <2>10 DEF Keeps, Begin, MayBegin, registry, HasCursor, Goto, ControlOK, TypesOK, Sending, SendPlaces, SendOK, WaitsOK, contexts
    <3> QED
      BY <3>1, SendKept
  <2>11. CASE Check(c)
    <3>1. Keeps(c)
      BY <2>11 DEF Keeps, Check, Goto, ControlOK, TypesOK, Sending, SendPlaces, SendOK, WaitsOK, contexts
    <3> QED
      BY <3>1, SendKept
  <2>12. CASE HandlerEnds(c)
    <3>1. Keeps(c)
      BY <2>12 DEF Keeps, HandlerEnds, Goto, ControlOK, TypesOK, Sending, SendPlaces, SendOK, WaitsOK, contexts
    <3> QED
      BY <3>1, SendKept
  <2>13. CASE EndDelivery(c)
    <3>1. CASE at[c] = "EndDelivered"
      <4>1. /\ Advance(c) /\ rank' = rank /\ todo'[c] = todo[c] /\ due'[c] = due[c]
            /\ got'[c] = got[c] \cup {cursor[c]}
        BY <2>13, <3>1 DEF EndDelivery, registry, ControlOK, TypesOK
      <4>2. at[c] \in SendPlaces
        BY <3>1 DEF SendPlaces
      <4> QED
        BY <4>1, <4>2, SendAdvances
    <3>2. CASE at[c] # "EndDelivered"
      <4>1. Keeps(c)
        BY <2>13, <3>2 DEF Keeps, EndDelivery, Goto, ControlOK, TypesOK, Sending, SendPlaces, SendOK, registry
      <4> QED
        BY <4>1, SendKept
    <3> QED
      BY <3>1, <3>2
  <2>14. CASE Mark(c)
    <3>1. /\ at[c] = "Mark" /\ Advance(c) /\ rank' = rank /\ todo'[c] = todo[c]
          /\ due'[c] = due[c] /\ got'[c] = got[c]
      BY <2>14 DEF Mark
    <3>2. cursor[c] \in inactive' \cup expired' /\ at[c] \in SendPlaces
      BY <3>1 DEF SendOK, Grows, SendPlaces
    <3> QED
      BY <3>1, <3>2, SendAdvances
  <2>15. CASE SendLeave(c)
    BY <2>15, SendReturns DEF SendLeave
  <2>16. CASE RevokeAlone(c)
    BY <2>16, SendReturns DEF RevokeAlone
  <2>17. CASE RevokeAmongOthers(c)
    <3>1. CASE at[c] = "Revoke"
      BY <2>17, <3>1, SendReturns DEF RevokeAmongOthers
    <3>2. CASE at[c] # "Revoke"
      <4>1. Keeps(c)
        BY <2>17, <3>2 DEF Keeps, RevokeAmongOthers, Goto, ControlOK, TypesOK, Sending, SendPlaces
      <4> QED
        BY <4>1, SendKept
    <3> QED
      BY <3>1, <3>2
  <2>18. CASE RevokeNull(c)
    <3>1. Keeps(c)
      BY <2>18 DEF Keeps, RevokeNull, Goto, ControlOK, TypesOK, Sending, SendPlaces, SendOK, WaitsOK, contexts
    <3> QED
      BY <3>1, SendKept
  <2>19. CASE SetWaitBit(c)
    <3>1. Keeps(c)
      BY <2>19 DEF Keeps, SetWaitBit, Goto, ControlOK, TypesOK, Sending, SendPlaces, SendOK, WaitsOK, contexts
    <3> QED
      BY <3>1, SendKept
  <2>20. CASE WaitSends(c)
    <3>1. Keeps(c)
      BY <2>20 DEF Keeps, WaitSends, Goto, ControlOK, TypesOK, Sending, SendPlaces, SendOK, WaitsOK, contexts
    <3> QED
      BY <3>1, SendKept
  <2>21. CASE RevokeLeave(c)
    BY <2>21, SendReturns DEF RevokeLeave
  <2> QED
    BY <2>1, <2>2, <2>3, <2>4, <2>5, <2>6, <2>7, <2>8, <2>9, <2>10, <2>11, <2>12, <2>13, <2>14, <2>15, <2>16, <2>17, <2>18, <2>19, <2>20, <2>21 DEF Move, Call, Step
<1> QED
  BY <1>b, <1>c

-----------------------------------------------------------------------------
(* The theorems. *)

\* An empty registry satisfies the invariant.
LEMMA InitHolds == Init => IInv
<1> SUFFICES ASSUME Init PROVE IInv
  OBVIOUS
<1>1. ControlOK
  <2>1. todo \in [Contexts -> Seq(Lists)]
    <3>1. <<>> \in Seq(Lists)
      OBVIOUS
    <3> QED
      BY <3>1 DEF Init
  <2>2. at \in [Contexts -> Places] /\ cursor \in [Contexts -> Deliverers \cup {Nobody}]
    BY DEF Init, Places
  <2>3. due \in [Contexts -> SUBSET Deliverers] /\ got \in [Contexts -> SUBSET Deliverers]
    BY DEF Init
  <2>4. /\ rank \in [Deliverers -> Nat] /\ busy \in [Deliverers -> Int]
        /\ waitBit \in [Deliverers -> BOOLEAN]
    BY DEF Init
  <2>5. /\ userCount \in Int
        /\ deadEntries = {} /\ freed = {} /\ inactive = {} /\ marked = {}
        /\ expired = {} /\ keys = {} /\ waited = {}
    BY DEF Init
  <2>6. \A c \in Contexts : HasCursor(c)
    BY DEF Init, HasCursor, RegisterPlaces, SendPlaces, RevokePlaces, WaitPlaces
  <2>7. crashed \in BOOLEAN
    BY DEF Init
  <2> QED
    BY <2>1, <2>2, <2>3, <2>4, <2>5, <2>6, <2>7 DEF ControlOK, TypesOK
<1>2. \A c \in Contexts : at[c] = "Idle" /\ todo[c] = <<>> /\ due[c] = {} /\ got[c] = {}
  BY DEF Init
<1>3. UsersCounted
  <2>1. {c \in Contexts : Inside(c)} = {}
    BY <1>2 DEF Inside, SendPlaces, WaitPlaces
  <2> QED
    BY <2>1, FS_EmptySet DEF Init, UsersCounted
<1>4. BusyCounted
  <2>1. \A d \in Deliverers : {c \in Contexts : Delivering(c) /\ cursor[c] = d} = {}
    BY <1>2 DEF Delivering
  <2> QED
    BY <2>1, FS_EmptySet DEF Init, BusyCounted
<1>5. Prepended = {}
  BY DEF Init, Prepended
<1>6. RanksOK
  BY <1>5, FS_EmptySet DEF Init, RanksOK
<1>7. ListsOK
  BY <1>2 DEF Init, ListsOK, Knows, SendPlaces, WaitPlaces, RevokePlaces
<1>8. WaitsOK
  BY <1>2 DEF Init, WaitsOK, WaitPlaces
<1>9. ASSUME NEW c \in Contexts PROVE SendOK(c)
  BY <1>2 DEF SendOK, Sending, SendPlaces
<1> QED
  BY <1>1, <1>3, <1>4, <1>6, <1>7, <1>8, <1>9 DEF IInv

\* A listener's end is no step of the registry: it settles what was owed.
LEMMA ExpireHolds ==
  ASSUME IInv, NEW d \in Deliverers, Expire(d)
  PROVE  IInv'
<1>1. /\ UNCHANGED <<registry, counters, keys, crashed, contexts, waited>>
      /\ expired' = expired \cup {d}
  BY DEF Expire
<1>2. ControlOK' /\ UsersCounted' /\ BusyCounted'
  BY <1>1 DEF IInv, ControlOK, TypesOK, HasCursor, UsersCounted, Inside, BusyCounted, Delivering,
              registry, counters, contexts
<1>3. RanksOK' /\ ListsOK'
  BY <1>1 DEF IInv, RanksOK, ListsOK, Knows, Prepended, registry, contexts
<1>4. WaitsOK'
  BY <1>1 DEF IInv, WaitsOK, Silent, registry, counters, contexts
<1>5. ASSUME NEW c \in Contexts PROVE SendOK(c)'
  <2>1. SendOK(c)
    BY DEF IInv
  <2>2. Keeps(c)
    BY <1>1, <2>1 DEF Keeps, SendOK, contexts, registry
  <2>3. Grows
    BY <1>1 DEF Grows, registry, counters
  <2> QED
    BY <2>1, <2>2, <2>3, SendKept DEF IInv
<1> QED
  BY <1>2, <1>3, <1>4, <1>5 DEF IInv

\* Every step, of whatever context, preserves the invariant.
LEMMA NextHolds == IInv /\ [Next]_vars => IInv'
<1> SUFFICES ASSUME IInv, [Next]_vars PROVE IInv'
  OBVIOUS
<1>1. ASSUME NEW c \in Contexts, Move(c) PROVE IInv'
  <2>1. ControlOK'
    BY <1>1, ControlStep DEF IInv
  <2>2. UsersCounted' /\ BusyCounted'
    BY <1>1, AccountStep DEF IInv
  <2>3. RanksOK'
    BY <1>1, RanksStep DEF IInv
  <2>4. ListsOK'
    BY <1>1, ListsStep DEF IInv
  <2>5. WaitsOK'
    BY <1>1, WaitsStep DEF IInv
  <2>6. \A e \in Contexts : SendOK(e)'
    BY <1>1, SendStep DEF IInv
  <2> QED
    BY <2>1, <2>2, <2>3, <2>4, <2>5, <2>6 DEF IInv
<1>2. ASSUME NEW d \in Deliverers, Expire(d) PROVE IInv'
  BY <1>2, ExpireHolds
<1>3. CASE UNCHANGED vars
  BY <1>3 DEF IInv, vars, registry, counters, contexts, ControlOK, TypesOK, HasCursor,
              UsersCounted, Inside, BusyCounted, Delivering, RanksOK, ListsOK, Knows, Prepended,
              WaitsOK, Silent, SendOK, Ahead, NotPast
<1> QED
  BY <1>1, <1>2, <1>3 DEF Next, Move

\* The lists, the counts and the contexts of Tf_NoticeRegistry fit each other at
\* every step of any number of threads and of the handlers they run.
THEOREM RegistryInvariant == Spec => []IInv
<1> QED
  BY InitHolds, NextHolds, PTL DEF Spec

\* The types; the user count and every busy count are the numbers of contexts
\* they stand for, though handlers throw and calls nest; no marked deliverer
\* leaks (_IncrementUserCount and _DecrementUserCount of _BeginSend and _EndSend;
\* _SendToListener; _MarkDelivererForRemoval).
THEOREM CountersAlwaysAccount == Spec => []CountersAccount
<1>1. IInv => CountersAccount
  <2> SUFFICES ASSUME IInv PROVE CountersAccount
    OBVIOUS
  <2>1. userCount \in Nat /\ busy \in [Deliverers -> Nat]
    BY CountersTell DEF IInv
  <2>2. TypeOK
    BY <2>1 DEF IInv, ControlOK, TypesOK, TypeOK
  <2> QED
    BY <2>2 DEF IInv, ListsOK, CountersAccount, MarkedAreDeadEntries
<1> QED
  BY <1>1, RegistryInvariant, PTL

\* What a send traverses or a revoker waits on is not deleted, though lists are
\* traversed without a lock: who deletes is alone in the registry.
THEOREM DeliverersStay == Spec => []NoDanglingDeliverer
<1>1. IInv => NoDanglingDeliverer
  BY DEF IInv, ListsOK, Knows, ControlOK, HasCursor, RevokePlaces, NoDanglingDeliverer
<1> QED
  BY <1>1, RegistryInvariant, PTL

\* A send reaches each listener it owes the notice and calls none twice, whatever
\* is registered, revoked and destroyed while it runs.
THEOREM SendsReachEachOnce == Spec => []NoticeReachesEachOnce
<1>1. IInv => NoticeReachesEachOnce
  <2> SUFFICES ASSUME IInv, NEW c \in Contexts
               PROVE  /\ at[c] = "SendLeave" =>
                           due[c] \subseteq got[c] \cup inactive \cup expired \cup freed
                      /\ at[c] = "Handler" => cursor[c] \notin got[c]
    BY DEF NoticeReachesEachOnce, NoticeReachesAll, NoticeReachesOnce
  <2>1. SendOK(c) /\ (at[c] \in SendPlaces => cursor[c] \in Prepended)
    BY DEF IInv, ListsOK, Knows
  <2>2. at[c] = "SendLeave" => ~\E d \in Deliverers : Ahead(c, ListOf[d]) \/ NotPast(c, ListOf[d], rank[d])
    BY <2>1 DEF SendOK, Ahead, NotPast, SendPlaces
  <2>3. at[c] = "SendLeave" => due[c] \subseteq got[c] \cup inactive \cup expired \cup freed
    BY <2>1, <2>2 DEF SendOK, Sending, Prepended
  <2>4. at[c] = "Handler" => cursor[c] \notin got[c]
    BY <2>1 DEF SendOK, NotPast, SendPlaces, Prepended, IInv, ControlOK, TypesOK
  <2> QED
    BY <2>3, <2>4
<1> QED
  BY <1>1, RegistryInvariant, PTL

\* Once RevokeAndWait has returned true for a listener, no thread is in its
\* handler and none will enter it (_WaitForSendsToFinish).
THEOREM WaitedRevokesAreFinal == Spec => []WaitedRevokeIsFinal
<1>1. IInv => WaitedRevokeIsFinal
  BY DEF IInv, WaitsOK, Silent, ListsOK, Knows, SendPlaces, WaitedRevokeIsFinal
<1> QED
  BY <1>1, RegistryInvariant, PTL
=============================================================================
