------------------------------ MODULE CountedPtr ------------------------------
(***************************************************************************)
(* TfDelegatedCountPtr over objects that count their references and delete *)
(* themselves, and that hold such a pointer each: what its constructors    *)
(* and assignments do, in their order, when a decrement deletes an object  *)
(* and with it the pointer inside.                                         *)
(***************************************************************************)
EXTENDS Integers, FiniteSets

CONSTANTS
  Objects,
  Roots,          \* pointers outside of the objects
  RawHolders,     \* references taken by hand, as C code has them
  Nothing

ASSUME CountedAssumption == Nothing \notin Objects

\* Every object is also the name of the pointer in it.
Cells == Objects \cup Roots \cup RawHolders

VARIABLE held   \* what cells hold, the counts, the objects that exist, whether freed memory
                \* was used, and whether by an assignment that deleted a cell of its own

countedVars == <<held>>

CountedInit ==
  held = [cell |-> [x \in Cells |-> Nothing], count |-> [o \in Objects |-> 0],
            live |-> {}, misused |-> FALSE, ownDeleted |-> FALSE]

Freed(h, x) == x \in Objects /\ x \notin h.live
Misuse(h) == [h EXCEPT !.misused = TRUE]
Hold(h, x, o) == IF Freed(h, x) THEN Misuse(h) ELSE [h EXCEPT !.cell[x] = o]

\* _IncrementIfValid.
IncrementIfValid(h, o) ==
  IF o = Nothing THEN h ELSE IF Freed(h, o) THEN Misuse(h) ELSE [h EXCEPT !.count[o] = @ + 1]

\* _DecrementIfValid: the last reference deletes the object, its own pointer last.
RECURSIVE DecrementIfValid(_, _)
DecrementIfValid(h, o) ==
  IF o = Nothing THEN h
  ELSE IF Freed(h, o) THEN Misuse(h)
  ELSE IF h.count[o] > 1 THEN [h EXCEPT !.count[o] = @ - 1]
  ELSE DecrementIfValid([h EXCEPT !.count[o] = 0, !.live = @ \ {o}, !.cell[o] = Nothing],
                        h.cell[o])

\* Move assignment of a temporary that holds o.
MovedInto(h, x, o) == Hold(DecrementIfValid(h, h.cell[x]), x, o)

\* Copy assignment: a temporary is copied from y, then moved into x.
CopiedInto_NoTemporary(h, x, y) ==
  LET g == DecrementIfValid(h, h.cell[x])
      o == g.cell[y]
  IN Hold(IncrementIfValid(g, o), x, o)

CopiedInto(h, x, y) ==
  LET o == h.cell[y] IN MovedInto(IncrementIfValid(h, o), x, o)

\* Move assignment from y, which is read after the decrement.
MovedFromCell(h, x, y) ==
  LET g == DecrementIfValid(h, h.cell[x]) IN
  Hold(Hold(IF Freed(g, y) THEN Misuse(g) ELSE g, x, g.cell[y]), y, Nothing)

-----------------------------------------------------------------------------

Usable(x) == x \notin RawHolders /\ ~Freed(held, x)

\* What goes with the object that x holds, once h has counted what x is to hold.
Deletes(h, x) == held.live \ DecrementIfValid(h, h.cell[x]).live

\* The assignment to x made h into g.  Did it delete one of the cells that it uses?
Assigned(h, x, cells, g) ==
  held' = [g EXCEPT !.ownDeleted = g.misused /\ Deletes(h, x) \cap cells # {}]

CopyAssign == \E x, y \in Cells :
  /\ Usable(x) /\ Usable(y)
  /\ Assigned(IncrementIfValid(held, held.cell[y]), x, {x}, CopiedInto(held, x, y))

\* Assigning a pointer to itself included; move construction is into an empty one.
MoveAssign == \E x, y \in Cells :
  /\ Usable(x) /\ Usable(y)
  /\ Assigned(held, x, {x, y}, MovedFromCell(held, x, y))

\* reset(), = nullptr and the destructor.
Reset == \E x \in Cells :
  /\ Usable(x)
  /\ Assigned(held, x, {x}, MovedInto(held, x, Nothing))

SwapCells == \E x, y \in Cells :
  /\ Usable(x) /\ Usable(y)
  /\ held' = [held EXCEPT !.cell = [@ EXCEPT ![x] = held.cell[y], ![y] = held.cell[x]]]

\* x = TfMakeDelegatedCountPtr<...>(), and with TfDelegatedCountIncrementTag.
MakeCounted == \E x \in Cells, o \in Objects \ held.live :
  LET made == IncrementIfValid([held EXCEPT !.live = @ \cup {o}], o) IN
  /\ Usable(x)
  /\ Assigned(held, x, {x}, MovedInto(made, x, o))

\* A reference is counted by hand, and handed over with TfDelegatedCountDoNotIncrementTag.
TakeByHand == \E r \in RawHolders, y \in Cells :
  /\ Usable(y) /\ held.cell[r] = Nothing
  /\ held' = Hold(IncrementIfValid(held, held.cell[y]), r, held.cell[y])

HandOver == \E x \in Cells, r \in RawHolders :
  /\ Usable(x)
  /\ Assigned(held, x, {x}, MovedInto(Hold(held, r, Nothing), x, held.cell[r]))

\* What follows a use of freed memory is anybody's guess.
CountedNext ==
  /\ ~held.misused
  /\ \/ CopyAssign \/ MoveAssign \/ Reset \/ SwapCells \/ MakeCounted \/ TakeByHand
     \/ HandOver

CountedSpec == CountedInit /\ [][CountedNext]_countedVars

-----------------------------------------------------------------------------

\* Until freed memory is used, a count is the number of pointers that hold the object,
\* and an object is deleted with the last of them and never before.  Freed memory is
\* used by no copy out of an object that the assignment deletes, and by no assignment of
\* a pointer to itself: only by one that deletes the cell it assigns to, or that it
\* moves from, as NothingFreedIsUsed says (delegatedCountPtr.h:104-257).
CountsAreOfCells ==
  /\ held.misused => held.ownDeleted
  /\ ~held.misused =>
       /\ \A o \in Objects :
            held.count[o] = Cardinality({x \in Cells : held.cell[x] = o})
       /\ held.live = {o \in Objects : held.count[o] > 0}

\* "Assign by moving from `ptr`.  `ptr` is left in its default state" (delegatedCountPtr.h),
\* from a pointer in the object that the assigned one holds too: head = move(head->next).
NothingFreedIsUsed == ~held.misused
=============================================================================
