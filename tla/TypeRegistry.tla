---------------------------- MODULE TypeRegistry ----------------------------
(***************************************************************************)
(* Tf_TypeRegistry: types are declared by name, with the names of their    *)
(* bases, then defined; aliases name a type under one of its bases.  Every *)
(* call takes the registry's TfBigRWMutex several times, and other threads *)
(* come in between: one step here is what is done under one acquisition.   *)
(***************************************************************************)
EXTENDS Integers, FiniteSets, Sequences, SequencesExt

CONSTANTS
  TypeNames,    \* the names types are declared with
  AliasNames,   \* the names given as aliases
  TypeUsers,    \* the threads
  Programs,     \* what some may have to declare, each a sequence of [name, bases]
  Queries,      \* what the others look up: the name of a base, and a name
  Aliasings,    \* the aliases they give: the names of a base and a type, and an alias
  MaxInfos      \* how many _TypeInfo may be made; a bound

ASSUME TypeAssumption ==
  \A p \in Programs :
    /\ DOMAIN p \subseteq TypeUsers
    /\ \A u \in DOMAIN p : \A i \in DOMAIN p[u] :
         /\ {p[u][i].name} \cup Range(p[u][i].bases) \subseteq TypeNames
         /\ p[u][i].name \notin Range(p[u][i].bases)

VARIABLES
  infos,        \* the _TypeInfo made so far; a TfType is an index into it
  byName,       \* _typeNameToTypeMap
  misdeclared,  \* the types with a declaration that was reported as an error
  program,      \* what each declarer has still to declare
  typeCall      \* the call each thread is in

typeVars == <<infos, byName, misdeclared, program, typeCall>>

Root == 1
Unknown == 0
LookupNames == TypeNames \cup AliasNames

NewInfo(name) ==
  [name |-> name, bases |-> <<>>, derived |-> <<>>, defined |-> FALSE, casts |-> {},
   aliases |-> [n \in LookupNames |-> Unknown], cache |-> [n \in LookupNames |-> Unknown]]

NoCallOfType == [op |-> "None"]

TypeInit ==
  /\ infos = <<NewInfo("TfType::_Root")>>
  /\ byName = [n \in LookupNames |-> Unknown]
  /\ misdeclared = {}
  /\ program \in Programs
  /\ typeCall = [u \in TypeUsers |-> NoCallOfType]

TypeAt(u, op) == typeCall[u].op = op
Continue(u, call) == typeCall' = [typeCall EXCEPT ![u] = call]
Done(u) == Continue(u, NoCallOfType)

\* _IsAImplNoLock
RECURSIVE IsAImpl(_, _)
IsAImpl(t, query) ==
  \/ t = query
  \/ \E i \in DOMAIN infos[t].bases : IsAImpl(infos[t].bases[i], query)

IsA(t, query) ==
  \/ t = query \/ query = Root
  \/ infos[query].derived # <<>> /\ IsAImpl(t, query)

-----------------------------------------------------------------------------
(* FindDerivedByName, alone or as the start of Declare.  A call that       *)
(* declares has the names still to be looked up, the declared one last,    *)
(* and the types it has got.                                               *)

Lookup(base, name, todo, got) ==
  [op |-> "Look", base |-> base, name |-> name, todo |-> todo, got |-> got]

\* The type is there: Declare goes on to the next name, or to the bases.
Got(u, t) ==
  LET call == typeCall[u] IN
  IF call.todo = <<>> THEN Done(u)
  ELSE LET rest == Tail(call.todo) IN
       Continue(u, IF rest = <<>>
                   THEN [op |-> "AddBases", type |-> t, bases |-> call.got]
                   ELSE Lookup(Root, Head(rest), rest, Append(call.got, t)))

GotNothing(u) ==
  IF typeCall[u].todo = <<>> THEN Done(u)
  ELSE Continue(u, [typeCall[u] EXCEPT !.op = "New"])

FindDerivedByName(u, base, name) ==
  /\ TypeAt(u, "None") /\ u \notin DOMAIN program /\ <<infos[base].name, name>> \in Queries
  /\ Continue(u, Lookup(base, name, <<>>, <<>>))
  /\ UNCHANGED <<infos, byName, misdeclared, program>>

\* The cache, then the aliases under this base.
Look(u) ==
  LET call == typeCall[u]
      cached == infos[call.base].cache[call.name]
      alias == infos[call.base].aliases[call.name]
  IN  /\ TypeAt(u, "Look")
      /\ CASE cached # Unknown -> Got(u, cached)
           [] cached = Unknown /\ alias # Unknown ->
                Continue(u, [call EXCEPT !.op = "Cache"] @@ [found |-> alias])
           [] OTHER -> Continue(u, [call EXCEPT !.op = "ByName"])
      /\ UNCHANGED <<infos, byName, misdeclared, program>>

LookByName(u) ==
  LET call == typeCall[u]
      found == byName[call.name]
  IN  /\ TypeAt(u, "ByName")
      /\ IF found = Unknown THEN GotNothing(u)
         ELSE Continue(u, [call EXCEPT !.op = "IsA"] @@ [found |-> found])
      /\ UNCHANGED <<infos, byName, misdeclared, program>>

LookIsA(u) ==
  LET call == typeCall[u] IN
  /\ TypeAt(u, "IsA")
  /\ IF IsA(call.found, call.base) THEN Continue(u, [call EXCEPT !.op = "Cache"])
                                   ELSE GotNothing(u)
  /\ UNCHANGED <<infos, byName, misdeclared, program>>

\* An entry that is there already is left alone.
PopulateCache(u) ==
  LET call == typeCall[u] IN
  /\ TypeAt(u, "Cache")
  /\ infos' = [infos EXCEPT ![call.base].cache[call.name] =
                 IF @ = Unknown THEN call.found ELSE @]
  /\ Got(u, call.found)
  /\ UNCHANGED <<byName, misdeclared, program>>

-----------------------------------------------------------------------------
(* Declare and Define.                                                     *)

Declare(u) ==
  /\ u \in DOMAIN program /\ TypeAt(u, "None") /\ program[u] # <<>>
  /\ LET names == Append(Head(program[u]).bases, Head(program[u]).name) IN
     Continue(u, Lookup(Root, Head(names), names, <<>>))
  /\ program' = [program EXCEPT ![u] = Tail(@)]
  /\ UNCHANGED <<infos, byName, misdeclared>>

\* NewTypeInfo, whatever was declared since the lookup.
NewTypeInfo(u) ==
  LET call == typeCall[u] IN
  /\ TypeAt(u, "New") /\ Len(infos) < MaxInfos
  /\ infos' = Append(infos, NewInfo(call.name))
  /\ byName' = [byName EXCEPT ![call.name] = Len(infos) + 1]
  /\ Got(u, Len(infos) + 1)
  /\ UNCHANGED <<misdeclared, program>>

Position(list, x) == CHOOSE i \in DOMAIN list : list[i] = x

\* What _AddBasesNoLock reports: a base that is missing now, or another order.
BasesClash(have, new) ==
  \/ \E b \in Range(have) : b \notin Range(new)
  \/ \E i, j \in DOMAIN have : i < j /\ Position(new, have[i]) > Position(new, have[j])

AddDerived_Again(f, new, t) ==
  [i \in DOMAIN f |-> IF i \in Range(new) THEN [f[i] EXCEPT !.derived = Append(@, t)]
                                          ELSE f[i]]

\* The bases that are new are told of the type.
AddDerived(f, new, t) ==
  [i \in DOMAIN f |->
     IF i \in Range(new) /\ i \notin Range(f[t].bases)
     THEN [f[i] EXCEPT !.derived = Append(@, t)] ELSE f[i]]

\* _AddBasesNoLock: a longer list replaces the bases even if it was reported.
AddBasesNoLock(t, new) ==
  /\ infos' = IF Len(new) > Len(infos[t].bases)
              THEN [AddDerived(infos, new, t) EXCEPT ![t].bases = new] ELSE infos
  /\ misdeclared' = IF BasesClash(infos[t].bases, new) THEN misdeclared \cup {t}
                                                       ELSE misdeclared

\* The part of Declare under the write lock.  Bases cannot be added to a type that was
\* declared to have none; no bases at all are only looked at the first time.
AddBases(u) ==
  LET t == typeCall[u].type
      new == typeCall[u].bases
      have == infos[t].bases
  IN  /\ TypeAt(u, "AddBases")
      /\ CASE t = Root \/ (new # <<>> /\ have = <<Root>>) ->
                /\ misdeclared' = misdeclared \cup {t}
                /\ UNCHANGED infos
           [] new = <<>> /\ have # <<>> -> UNCHANGED <<infos, misdeclared>>
           [] OTHER -> AddBasesNoLock(t, IF new = <<>> THEN <<Root>> ELSE new)
      /\ Continue(u, [typeCall[u] EXCEPT !.op = "Define"])
      /\ UNCHANGED <<byName, program>>

\* Declare ends here; Define goes on with _DefineCppType, which the first call does,
DeclareEnds(u) == TypeAt(u, "Define") /\ Done(u) /\ UNCHANGED <<infos, byName, misdeclared, program>>

DefineCppType(u) ==
  /\ TypeAt(u, "Define")
  /\ infos' = [infos EXCEPT ![typeCall[u].type].defined = TRUE]
  /\ Continue(u, [typeCall[u] EXCEPT !.op = "Casts"])
  /\ UNCHANGED <<byName, misdeclared, program>>

\* and with _AddCppCastFunc for each base.
AddCppCastFunc(u) ==
  LET call == typeCall[u] IN
  /\ TypeAt(u, "Casts")
  /\ IF call.bases = <<>> THEN Done(u) /\ UNCHANGED infos
     ELSE /\ infos' = [infos EXCEPT ![call.type].casts = @ \cup {Head(call.bases)}]
          /\ Continue(u, [call EXCEPT !.bases = Tail(@)])
  /\ UNCHANGED <<byName, misdeclared, program>>

\* AddTypeAlias: an alias stays what it is, and no type of that name derives from base.
AddAlias(u, base, t, name) ==
  /\ TypeAt(u, "None") /\ u \notin DOMAIN program
  /\ <<infos[base].name, infos[t].name, name>> \in Aliasings
  /\ infos[base].aliases[name] = Unknown
  /\ byName[name] # Unknown => ~IsAImpl(byName[name], base)
  /\ infos' = [infos EXCEPT ![base].aliases[name] = t]
  /\ UNCHANGED <<byName, misdeclared, program, typeCall>>

-----------------------------------------------------------------------------
TypeNext ==
  \E u \in TypeUsers :
    \/ \E base \in DOMAIN infos, name \in LookupNames : FindDerivedByName(u, base, name)
    \/ Look(u) \/ LookByName(u) \/ LookIsA(u) \/ PopulateCache(u)
    \/ Declare(u) \/ NewTypeInfo(u) \/ AddBases(u) \/ DeclareEnds(u) \/ DefineCppType(u)
    \/ AddCppCastFunc(u)
    \/ \E base, t \in DOMAIN infos, name \in AliasNames : AddAlias(u, base, t, name)

TypeSpec == TypeInit /\ [][TypeNext]_typeVars

-----------------------------------------------------------------------------
(* Questions about the hierarchy.                                          *)

\* _MergeAncestors: the first head of a sequence that is in no tail comes next; "stuck"
\* if there is none, with what was found until then.
RECURSIVE MergeAncestors(_, _)
MergeAncestors(seqs, result) ==
  LET left == SelectSeq(seqs, LAMBDA s : s # <<>>)
      InTail(x) == \E i \in DOMAIN left : x \in Range(Tail(left[i]))
      free == {i \in DOMAIN left : ~InTail(Head(left[i]))}
      first == CHOOSE i \in free : \A j \in free : i <= j
      cand == Head(left[first])
  IN  IF left = <<>> THEN [ok |-> TRUE, types |-> result]
      ELSE IF free = {} THEN [ok |-> FALSE, types |-> result]
      ELSE MergeAncestors([i \in DOMAIN left |->
                             IF Head(left[i]) = cand THEN Tail(left[i]) ELSE left[i]],
                          Append(result, cand))

\* GetAllAncestorTypes; a base whose own merge is stuck still gives what it found.
RECURSIVE Ancestors(_)
Ancestors(t) ==
  LET bases == infos[t].bases
      above == [i \in DOMAIN bases |-> Ancestors(bases[i])]
  IN  CASE bases = <<>> -> [ok |-> TRUE, types |-> <<t>>]
        [] Len(bases) = 1 -> [ok |-> above[1].ok, types |-> <<t>> \o above[1].types]
        [] OTHER -> LET merged == MergeAncestors(<< <<t>>, bases >> \o
                                    [i \in DOMAIN bases |-> above[i].types], <<>>)
                    IN  [merged EXCEPT !.ok = @ /\ \A i \in DOMAIN bases : above[i].ok]

\* CastToAncestor: an only base must have its cast, of several those that have one are
\* tried.  A base that is not defined has the typeid of void, and no cast.
HasCast(t, b) == infos[b].defined /\ b \in infos[t].casts

RECURSIVE CastToAncestor(_, _)
CastToAncestor(t, ancestor) ==
  \/ t = ancestor
  \/ \E i \in DOMAIN infos[t].bases :
       HasCast(t, infos[t].bases[i]) /\ CastToAncestor(infos[t].bases[i], ancestor)

\* GetAllDerivedTypes
RECURSIVE AllDerived(_)
AllDerived(t) ==
  Range(infos[t].derived) \cup UNION {AllDerived(d) : d \in Range(infos[t].derived)}

-----------------------------------------------------------------------------
(* Properties.                                                             *)

\* As long as no declaration was refused, the two directions of inheritance agree and
\* name each type once; the ancestors of a type, if they can be put in an order, are all
\* the types it IsA, each once, and follow the order of every one's own bases; and a cast
\* succeeds to what the type is, once all those types are defined with their casts.
HierarchyAgrees ==
  misdeclared = {} =>
    \A t \in DOMAIN infos :
      LET found == Ancestors(t)
          above == {q \in DOMAIN infos : IsAImpl(t, q)}
          Complete(q) == q # Root => /\ infos[q].defined
                                     /\ Range(infos[q].bases) \subseteq infos[q].casts
      IN  /\ IsInjective(infos[t].derived)
          /\ \A q \in DOMAIN infos : (q \in AllDerived(t)) <=> (t # q /\ IsAImpl(q, t))
          /\ found.ok =>
               /\ IsInjective(found.types) /\ Range(found.types) = above
               /\ \A q \in above : \A i, j \in DOMAIN infos[q].bases :
                    i < j => Position(found.types, infos[q].bases[i])
                               < Position(found.types, infos[q].bases[j])
          /\ Root \notin above /\ (\A q \in above : Complete(q)) =>
               \A q \in DOMAIN infos : CastToAncestor(t, q) <=> q \in above

\* Whoever looked a name up before, with whatever came in between, a cached answer is the
\* one a lookup without the cache gives: the cache is never invalidated (type.cpp:429-432).
\* If two threads have declared one name at a time there are two types of the name, and
\* an answer is one of them.
FreshLookup(base, name) ==
  CASE infos[base].aliases[name] # Unknown -> infos[base].aliases[name]
    [] infos[base].aliases[name] = Unknown /\ byName[name] # Unknown
       /\ IsA(byName[name], base) -> byName[name]
    [] OTHER -> Unknown

DeclaredTwice(name) == \E s, t \in DOMAIN infos : s # t /\ infos[s].name = name /\ infos[t].name = name

LookupsAgree ==
  \A base \in DOMAIN infos, name \in LookupNames :
    LET cached == infos[base].cache[name] IN
    \/ cached \in {Unknown, FreshLookup(base, name)}
    \/ DeclaredTwice(name) /\ infos[cached].name = name /\ IsA(cached, base)

\* "A unique instance of _TypeInfo is allocated for every type declared." (type.cpp:70)
OneInfoPerName == \A s, t \in DOMAIN infos : infos[s].name = infos[t].name => s = t
=============================================================================
