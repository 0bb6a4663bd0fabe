------------------------------ MODULE MCLocks ------------------------------
(***************************************************************************)
(* The two readers-writer mutexes for TLC.  They share nothing: a          *)
(* behaviour is about the one that which names, and the other rests in its *)
(* initial state.                                                          *)
(***************************************************************************)
EXTENDS SpinRWMutexOrder, BigRWMutex

VARIABLE which

LocksInit == OrderInit /\ BigInit /\ which \in {"spin", "big"}

SpinMoves == which = "spin" /\ OrderNext /\ UNCHANGED <<which, bigVars>>
BigMoves == which = "big" /\ BigNext /\ UNCHANGED <<which, vars, orderVars>>

LocksSpec ==
  /\ LocksInit
  /\ [][SpinMoves \/ BigMoves]_<<which, vars, orderVars, bigVars>>
  /\ Fairness /\ BigFairness
=============================================================================
