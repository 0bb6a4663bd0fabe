------------------------------- MODULE Token -------------------------------
(***************************************************************************)
(* TfToken and one of the 128 sets of its registry (a string belongs to    *)
(* one set, and sets share nothing).  A representation is in the set for   *)
(* its string; its _refCount counts by twos, with the lowest bit set while *)
(* it is counted at all.  A token has a pointer and a bit that says        *)
(* whether it believes its representation to be counted.                   *)
(*                                                                         *)
(* Looking up takes the set's mutex; copies and drops of tokens do not,    *)
(* and neither do they when a sweep walks the set to erase what nobody     *)
(* refers to.                                                              *)
(***************************************************************************)
EXTENDS Integers, FiniteSets, Functions

CONSTANTS
  Strings,      \* the non-empty strings of this set
  Addresses,    \* where a representation may be allocated
  Tokens,       \* the TfToken objects
  Users,        \* the threads
  UserOf,       \* UserOf[k]: who may assign the token k; Anyone: it is shared and const
  MinInserts    \* _MinInsertsUntilSweepCheck; 32 in the code

CONSTANT Anyone

ASSUME TokenAssumption ==
  /\ MinInserts \in Nat
  /\ UserOf \in [Tokens -> Users \cup {Anyone}]
  /\ Anyone \notin Users /\ "null" \notin Addresses /\ "" \notin Strings
  /\ IsFiniteSet(Tokens) /\ IsFiniteSet(Users)

VARIABLES
  rep,          \* rep[a]: the representation at a, [str, count], or Unused
  sweepIn,      \* insertsUntilSweepCheck
  sweeper,      \* who walks the set and keeps its mutex meanwhile
  token,        \* token[k]: [at, counted]
  made,         \* made[k]: the string the token was made with; not in the code
  tokenCall     \* tokenCall[u]: the call u is in

tokenVars == <<rep, sweepIn, sweeper, token, made, tokenCall>>

Unused == [str |-> "", count |-> 0]
NoToken == [at |-> "null", counted |-> FALSE]
NoCall == [op |-> "None"]

IsCounted(r) == r.count % 2 = 1
Table == {a \in Addresses : rep[a] # Unused}
FindRep(s) == {a \in Table : rep[a].str = s}

TokenInit ==
  /\ rep = [a \in Addresses |-> Unused]
  /\ sweepIn = MinInserts
  /\ sweeper = Anyone
  /\ token = [k \in Tokens |-> NoToken]
  /\ made = [k \in Tokens |-> ""]
  /\ tokenCall = [u \in Users |-> NoCall]

Enters(u, call) == tokenCall' = [tokenCall EXCEPT ![u] = call]
Returns(u) == Enters(u, NoCall)
IsFree(u) == tokenCall[u] = NoCall
InCall(u, op) == tokenCall[u].op = op

Points(k, a, counted, s) ==
  /\ token' = [token EXCEPT ![k] = [at |-> a, counted |-> counted]]
  /\ made' = [made EXCEPT ![k] = s]

\* Of an uncounted representation's count only the lowest bit is ever read, and
\* steps by two wrap around without touching it; so its value is left at 0.
Add(a, n) == rep' = [rep EXCEPT ![a].count = IF IsCounted(rep[a]) THEN @ + n ELSE 0]

-----------------------------------------------------------------------------
(* Lookups.  The result initialises an empty token; a shared token is made *)
(* before the threads use it.                                              *)

MayMake(u, k) ==
  /\ IsFree(u)
  /\ token[k] = NoToken
  /\ UserOf[k] \in {u, Anyone}
  /\ UserOf[k] = Anyone => \A j \in Tokens : UserOf[j] # Anyone => made[j] = ""

\* _GetPtrImpl, the string being there: a counted representation is made immortal or
\* gets a reference; an immortal one stays as it is.
Found(r, immortal) ==
  [r EXCEPT !.count = CASE ~IsCounted(r) -> @
                        [] IsCounted(r) /\ immortal -> 0
                        [] IsCounted(r) /\ ~immortal -> @ + 2]

New(s, immortal) == [str |-> s, count |-> IF immortal THEN 0 ELSE 3]

GetFound(u, k, s, immortal) ==
  \E a \in FindRep(s) :
    /\ MayMake(u, k) /\ sweeper = Anyone
    /\ rep' = [rep EXCEPT ![a] = Found(@, immortal)]
    /\ Points(k, a, IsCounted(rep[a]) /\ ~immortal, s)
    /\ UNCHANGED <<sweepIn, sweeper, tokenCall>>

\* The end of an insertion: the new representation is stored somewhere.
Insert(k, s, immortal) ==
  \E a \in Addresses \ Table :
    /\ rep' = [rep EXCEPT ![a] = New(s, immortal)]
    /\ Points(k, a, ~immortal, s)

\* The string is not there and no sweep is due, or the set's buckets suffice.
GetInserted(u, k, s, immortal) ==
  /\ MayMake(u, k) /\ sweeper = Anyone
  /\ FindRep(s) = {}
  /\ Insert(k, s, immortal)
  /\ sweepIn' = IF sweepIn = 0 THEN 0 ELSE sweepIn - 1
  /\ UNCHANGED <<sweeper, tokenCall>>

\* A sweep is due and the insertion would rehash: all representations are looked at.
GetSweeps(u, k, s, immortal) ==
  /\ MayMake(u, k) /\ sweeper = Anyone
  /\ FindRep(s) = {} /\ sweepIn = 0 /\ Table # {}
  /\ sweeper' = u
  /\ Enters(u, [op |-> "Sweep", to |-> k, str |-> s, immortal |-> immortal,
                todo |-> Table, erase |-> {}])
  /\ UNCHANGED <<rep, sweepIn, token, made>>

IsGarbage_NoBit(r) == r.count \in {0, 1}

IsGarbage(r) == r.count = 1

SweepStep(u) ==
  LET call == tokenCall[u]
  IN /\ InCall(u, "Sweep") /\ call.erase = {}
     /\ \E a \in call.todo :
          Enters(u, [call EXCEPT !.todo = @ \ {a},
                                 !.erase = IF IsGarbage(rep[a]) THEN {a} ELSE {}])
     /\ UNCHANGED <<rep, sweepIn, sweeper, token, made>>

SweepErase(u) ==
  /\ InCall(u, "Sweep") /\ tokenCall[u].erase # {}
  /\ rep' = [a \in Addresses |-> IF a \in tokenCall[u].erase THEN Unused ELSE rep[a]]
  /\ Enters(u, [tokenCall[u] EXCEPT !.erase = {}])
  /\ UNCHANGED <<sweepIn, sweeper, token, made>>

SweepEnds(u) ==
  LET call == tokenCall[u]
  IN /\ InCall(u, "Sweep") /\ call.todo = {} /\ call.erase = {}
     /\ Insert(call.to, call.str, call.immortal)
     /\ sweepIn' = MinInserts
     /\ sweeper' = Anyone
     /\ Returns(u)

\* _FindPtrImpl adds a reference in any case.
Find(u, k, s) ==
  /\ MayMake(u, k) /\ UserOf[k] = u /\ sweeper = Anyone
  /\ \E a \in FindRep(s) :
       /\ Add(a, 2)
       /\ Points(k, a, IsCounted(rep[a]), s)
  /\ UNCHANGED <<sweepIn, sweeper, tokenCall>>

-----------------------------------------------------------------------------
(* Copies, moves and drops. *)

Has(k) == token[k] # NoToken
Readable(u, k) == UserOf[k] \in {u, Anyone} /\ Has(k)

\* The bits of k after _AddRef has found the representation r.
Belief(k, r) == [token[k] EXCEPT !.counted = IsCounted(r)]

\* Copy constructor: the pointer is copied, then _AddRef works on the new token.
CopyBegins(u, from, to) ==
  /\ IsFree(u) /\ Readable(u, from) /\ UserOf[to] = u /\ ~Has(to)
  /\ token' = [token EXCEPT ![to] = token[from]]
  /\ made' = [made EXCEPT ![to] = made[from]]
  /\ IF token[from].counted THEN Enters(u, [op |-> "Copy", to |-> to]) ELSE UNCHANGED tokenCall
  /\ UNCHANGED <<rep, sweepIn, sweeper>>

CopyAddRef(u) ==
  LET to == tokenCall[u].to
  IN /\ InCall(u, "Copy")
     /\ Add(token[to].at, 2)
     /\ token' = [token EXCEPT ![to] = Belief(to, rep[token[to].at])]
     /\ Returns(u)
     /\ UNCHANGED <<sweepIn, sweeper, made>>

\* Copy assignment: _AddRef works on the right-hand token, which may be shared.
AssignBegins(u, from, to) ==
  /\ IsFree(u) /\ Readable(u, from) /\ UserOf[to] = u /\ Has(to) /\ from # to
  /\ Enters(u, [op |-> IF token[from].counted THEN "AssignAdd" ELSE "AssignRemove",
                from |-> from, to |-> to])
  /\ UNCHANGED <<rep, sweepIn, sweeper, token, made>>

AssignAddRef(u) ==
  LET from == tokenCall[u].from
  IN /\ InCall(u, "AssignAdd")
     /\ Add(token[from].at, 2)
     /\ token' = [token EXCEPT ![from] = Belief(from, rep[token[from].at])]
     /\ Enters(u, [tokenCall[u] EXCEPT !.op = "AssignRemove"])
     /\ UNCHANGED <<sweepIn, sweeper, made>>

\* _RemoveRef: the representation may be erased from now on.
RemoveRef(k) == IF token[k].counted THEN Add(token[k].at, -2) ELSE UNCHANGED rep

AssignRemoveRef(u) ==
  /\ InCall(u, "AssignRemove")
  /\ RemoveRef(tokenCall[u].to)
  /\ Enters(u, [tokenCall[u] EXCEPT !.op = "AssignStore"])
  /\ UNCHANGED <<sweepIn, sweeper, token, made>>

AssignStore(u) ==
  LET call == tokenCall[u]
  IN /\ InCall(u, "AssignStore")
     /\ token' = [token EXCEPT ![call.to] = token[call.from]]
     /\ made' = [made EXCEPT ![call.to] = made[call.from]]
     /\ Returns(u)
     /\ UNCHANGED <<rep, sweepIn, sweeper>>

\* Move assignment and, to an empty token, move construction.
Move(u, from, to) ==
  /\ IsFree(u) /\ UserOf[from] = u /\ UserOf[to] = u /\ from # to /\ Has(from)
  /\ RemoveRef(to)
  /\ token' = [token EXCEPT ![to] = token[from], ![from] = NoToken]
  /\ made' = [made EXCEPT ![to] = made[from], ![from] = ""]
  /\ UNCHANGED <<sweepIn, sweeper, tokenCall>>

Drop(u, k) ==
  /\ IsFree(u) /\ UserOf[k] = u /\ Has(k)
  /\ RemoveRef(k)
  /\ Points(k, "null", FALSE, "")
  /\ UNCHANGED <<sweepIn, sweeper, tokenCall>>

\* IsImmortal updates the belief of the token it is asked of.
IsImmortal(u, k) ==
  /\ IsFree(u) /\ Readable(u, k) /\ token[k].counted
  /\ token' = [token EXCEPT ![k] = Belief(k, rep[token[k].at])]
  /\ UNCHANGED <<rep, sweepIn, sweeper, made, tokenCall>>

TokenStep(u) ==
  \/ \E k \in Tokens, s \in Strings, immortal \in BOOLEAN :
       \/ GetFound(u, k, s, immortal)
       \/ GetInserted(u, k, s, immortal)
       \/ GetSweeps(u, k, s, immortal)
  \/ \E k \in Tokens, s \in Strings : Find(u, k, s)
  \/ SweepStep(u) \/ SweepErase(u) \/ SweepEnds(u)
  \/ \E from, to \in Tokens : CopyBegins(u, from, to) \/ AssignBegins(u, from, to)
                              \/ Move(u, from, to)
  \/ CopyAddRef(u) \/ AssignAddRef(u) \/ AssignRemoveRef(u) \/ AssignStore(u)
  \/ \E k \in Tokens : Drop(u, k) \/ IsImmortal(u, k)

TokenNext == \E u \in Users : TokenStep(u)

TokenSpec == TokenInit /\ [][TokenNext]_tokenVars

-----------------------------------------------------------------------------
(* Properties. *)

\* A token that has been assigned away from has let go of its old representation.
HasLetGo(k) == \E u \in Users : InCall(u, "AssignStore") /\ tokenCall[u].to = k

\* Nobody's token ever points at an erased representation, or at one of another
\* string that was put in its place: what it points at is in the set, under the
\* string the token was made with, and is the only one for it (tokens are compared
\* by address).  Sweeps and copies without the mutex are what could break this.
TokensHoldTheirString ==
  /\ \A k \in Tokens : Has(k) /\ ~HasLetGo(k) =>
       token[k].at \in Table /\ rep[token[k].at].str = made[k]
  /\ \A a, b \in Table : rep[a].str = rep[b].str => a = b

\* References to a that are not in a token yet, and tokens without one.
Extra(a) == Cardinality({u \in Users :
  \E from \in Tokens : /\ tokenCall[u].op \in {"AssignRemove", "AssignStore"}
                       /\ from = tokenCall[u].from /\ token[from].at = a})
Lacking(a) == Cardinality({k \in Tokens : token[k].at = a /\
  (HasLetGo(k) \/ \E u \in Users : InCall(u, "Copy") /\ tokenCall[u].to = k)})

\* A counted representation has exactly the references of the tokens that point at
\* it, all of which know that it is counted; so it is collected in the end.
TokenCountsAccount ==
  \A a \in Table : IsCounted(rep[a]) =>
    /\ rep[a].count = 1 + 2 * (Cardinality({k \in Tokens : token[k].at = a})
                               + Extra(a) - Lacking(a))
    /\ \A k \in Tokens : token[k].at = a => token[k].counted

\* Both, of one set and its tokens: what is collected is nobody's, and what is nobody's
\* can be collected (token.cpp:170-280, token.h:73-107, :324-397).
TokensAccount == TokensHoldTheirString /\ TokenCountsAccount

\* An immortal representation stays, at its address, and stays immortal, although
\* tokens that believe otherwise go on counting.
ImmortalsStay ==
  [][\A a \in Table : ~IsCounted(rep[a]) => rep'[a].str = rep[a].str /\ ~IsCounted(rep'[a])]_tokenVars
=============================================================================
