------------------------------ MODULE EnumNames ------------------------------
(***************************************************************************)
(* TfEnum's tables of names.  Registry functions of a library add names as *)
(* it is loaded; each name leaves an unload function that removes its      *)
(* value, and these run, in the same order, as the library is unloaded.    *)
(* Every addition, removal and look-up is made under _tableLock.           *)
(***************************************************************************)
EXTENDS Integers, Sequences, SequencesExt, Functions, Lists

CONSTANTS
  EnumLibraries,  \* the libraries
  NamesOf,        \* NamesOf[l]: the names it adds, a sequence of [type, value, name]
  MaxEnumLoads    \* bounds how often a library is loaded

EnumItems == UNION {ToSet(NamesOf[l]) : l \in EnumLibraries}

\* Names that are not empty: of others _AddName makes nothing.
ASSUME EnumAssumption ==
  /\ NamesOf \in [EnumLibraries -> Seq(EnumItems)]
  /\ \A item \in EnumItems : item.name # ""

VARIABLES
  enumToNames,        \* _enumToNames: [type, value] -> short name
  fullNameToEnum,     \* _fullNameToEnum: [type, name] -> value
  typeNameToNames,    \* _typeNameToNameVector: type -> sequence of short names
  typeNameToType,     \* _typeNameToType: the types that are known
  enumLibrary         \* enumLibrary[l]: [state, at, loads]: at counts its names added or removed

enumVars == <<enumToNames, fullNameToEnum, typeNameToNames, typeNameToType, enumLibrary>>

EnumInit ==
  /\ enumToNames = <<>>
  /\ fullNameToEnum = <<>>
  /\ typeNameToNames = <<>>
  /\ typeNameToType = {}
  /\ enumLibrary = [l \in EnumLibraries |-> [state |-> "Unloaded", at |-> 0, loads |-> 0]]

Put(f, k, x) == [i \in DOMAIN f \cup {k} |-> IF i = k THEN x ELSE f[i]]
EraseKey(f, k) == [i \in DOMAIN f \ {k} |-> f[i]]
NamesOfType(t) == IF t \in DOMAIN typeNameToNames THEN typeNameToNames[t] ELSE <<>>
ValueOf(item) == [type |-> item.type, value |-> item.value]
FullNameOf(item) == [type |-> item.type, name |-> item.name]

\* _AddName: a later name replaces the value's, and a later value the full name's.
AddName(item) ==
  /\ enumToNames' = Put(enumToNames, ValueOf(item), item.name)
  /\ fullNameToEnum' = Put(fullNameToEnum, FullNameOf(item), item.value)
  /\ typeNameToNames' = Put(typeNameToNames, item.type, Append(NamesOfType(item.type), item.name))
  /\ typeNameToType' = typeNameToType \cup {item.type}

\* _Remove of a value, under the name it has now (none, if it was removed before).
NameOf(item) ==
  IF ValueOf(item) \in DOMAIN enumToNames THEN enumToNames[ValueOf(item)] ELSE ""

\* Only the first of them.
NamesLeft_First(names, name) ==
  LET places == {i \in DOMAIN names : names[i] = name}
  IN IF places = {} THEN names
     ELSE LET first == CHOOSE i \in places : \A j \in places : i <= j
          IN SubSeq(names, 1, first - 1) \o SubSeq(names, first + 1, Len(names))

NamesLeft(names, name) == Only(names, ToSet(names) \ {name})

RemoveEnum_KeepsType(item) ==
  /\ UNCHANGED typeNameToType
  /\ typeNameToNames' = Put(typeNameToNames, item.type, NamesLeft(NamesOfType(item.type), NameOf(item)))
  /\ fullNameToEnum' = EraseKey(fullNameToEnum, [type |-> item.type, name |-> NameOf(item)])
  /\ enumToNames' = EraseKey(enumToNames, ValueOf(item))

RemoveEnum(item) ==
  /\ typeNameToType' = typeNameToType \ {item.type}
  /\ typeNameToNames' = Put(typeNameToNames, item.type, NamesLeft(NamesOfType(item.type), NameOf(item)))
  /\ fullNameToEnum' = EraseKey(fullNameToEnum, [type |-> item.type, name |-> NameOf(item)])
  /\ enumToNames' = EraseKey(enumToNames, ValueOf(item))

\* The libraries' registry functions and unload functions, name by name.
NextState(l) ==
  CASE enumLibrary[l].state = "Unloaded" -> "Adding"
    [] enumLibrary[l].state = "Adding" -> "Loaded"
    [] enumLibrary[l].state = "Loaded" -> "Removing"
    [] enumLibrary[l].state = "Removing" -> "Unloaded"

EnumTurns(l) ==
  LET lib == enumLibrary[l]
  IN /\ lib.state \in {"Unloaded", "Loaded"} \/ lib.at = Len(NamesOf[l])
     /\ lib.state = "Unloaded" => lib.loads < MaxEnumLoads
     /\ enumLibrary' = [enumLibrary EXCEPT ![l] = [state |-> NextState(l), at |-> 0,
                          loads |-> IF lib.state = "Unloaded" THEN @.loads + 1 ELSE @.loads]]
     /\ UNCHANGED <<enumToNames, fullNameToEnum, typeNameToNames, typeNameToType>>

EnumAdds(l) ==
  LET lib == enumLibrary[l]
  IN /\ lib.state = "Adding" /\ lib.at < Len(NamesOf[l])
     /\ AddName(NamesOf[l][lib.at + 1])
     /\ enumLibrary' = [enumLibrary EXCEPT ![l].at = @ + 1]

EnumRemoves(l) ==
  LET lib == enumLibrary[l]
  IN /\ lib.state = "Removing" /\ lib.at < Len(NamesOf[l])
     /\ RemoveEnum(NamesOf[l][lib.at + 1])
     /\ enumLibrary' = [enumLibrary EXCEPT ![l].at = @ + 1]

EnumNext == \E l \in EnumLibraries : EnumTurns(l) \/ EnumAdds(l) \/ EnumRemoves(l)

EnumSpec == EnumInit /\ [][EnumNext]_enumVars

\* GetValueFromName, GetName and GetAllNames.
GetValueFromName(t, name) ==
  IF [type |-> t, name |-> name] \in DOMAIN fullNameToEnum
  THEN fullNameToEnum[[type |-> t, name |-> name]] ELSE "none"
GetName(t, value) == NameOf([type |-> t, value |-> value])
GetAllNames(t) == NamesOfType(t)

-----------------------------------------------------------------------------
(* Properties. *)

\* The values that some library gives the name, and the names that some gives the value.
Bearers(t, name) ==
  UNION {{item.value : item \in {i \in ToSet(NamesOf[l]) : i.type = t /\ i.name = name}}
           : l \in EnumLibraries}
Titles(v) ==
  UNION {{item.name : item \in {i \in ToSet(NamesOf[l]) : ValueOf(i) = v}} : l \in EnumLibraries}

\* The i-th name of the library was added when it was last loaded and is not removed.
IsThere(l, i) ==
  \/ enumLibrary[l].state = "Adding" /\ i <= enumLibrary[l].at
  \/ enumLibrary[l].state = "Loaded"
  \/ enumLibrary[l].state = "Removing" /\ i > enumLibrary[l].at

\* The library has taken names back, now or before.
HasRemoved(l) ==
  \/ enumLibrary[l].state \notin {"Adding", "Loaded"} /\ enumLibrary[l].loads > 0
  \/ enumLibrary[l].loads > 1

\* In whatever order libraries come and go, also when they name one value twice,
\* give two values one name or add names to one another's types, the tables agree
\* with each other: the names a type lists are exactly those that can be looked up,
\* a value's name leads back to it unless another value bears the name too, and a
\* name leads to a value of that name unless the value has another name as well.
TablesAgree ==
  /\ \A t \in DOMAIN typeNameToNames :
       ToSet(GetAllNames(t)) = {f.name : f \in {g \in DOMAIN fullNameToEnum : g.type = t}}
  /\ \A v \in DOMAIN enumToNames :
       LET name == GetName(v.type, v.value)
       IN Bearers(v.type, name) = {v.value} => GetValueFromName(v.type, name) = v.value
  /\ \A f \in DOMAIN fullNameToEnum :
       LET v == [type |-> f.type, value |-> GetValueFromName(f.type, f.name)]
       IN Titles(v) = {f.name} => GetName(v.type, v.value) = f.name

\* The tables agree with the libraries.  What is there: the name of a value is one
\* that a library added and has not taken back, and a type is known only while such
\* a library names a value of it, so that with the last of them both are gone.  What
\* is not lost: a value that a library added has a name, and its type is known, as
\* long as no other library has taken back a name of that value, or of that type.
LibrariesAgree ==
  /\ \A v \in DOMAIN enumToNames : \E l \in EnumLibraries : \E i \in DOMAIN NamesOf[l] :
       /\ IsThere(l, i)
       /\ ValueOf(NamesOf[l][i]) = v /\ NamesOf[l][i].name = enumToNames[v]
  /\ \A t \in typeNameToType : \E l \in EnumLibraries : \E i \in DOMAIN NamesOf[l] :
       IsThere(l, i) /\ NamesOf[l][i].type = t
  /\ \A l \in EnumLibraries : \A i \in DOMAIN NamesOf[l] :
       enumLibrary[l].state \in {"Adding", "Loaded"} /\ IsThere(l, i) =>
         /\ \/ ValueOf(NamesOf[l][i]) \in DOMAIN enumToNames
            \/ \E m \in EnumLibraries \ {l} : HasRemoved(m) /\
                 \E j \in DOMAIN NamesOf[m] : ValueOf(NamesOf[m][j]) = ValueOf(NamesOf[l][i])
         /\ \/ NamesOf[l][i].type \in typeNameToType
            \/ \E m \in EnumLibraries \ {l} : HasRemoved(m) /\
                 \E j \in DOMAIN NamesOf[m] : NamesOf[m][j].type = NamesOf[l][i].type

\* Both: through loads and unloads in any order.
EnumTablesAgree == TablesAgree /\ LibrariesAgree

\* enum.h:359-362 of IsKnownEnumType: a type any enum of which was added is known.
\* It does not hold: one library's removal makes the type unknown (enum.cpp:74)
\* while the names that another added are still there.
AddedTypesAreKnown ==
  \A l \in EnumLibraries : \A i \in DOMAIN NamesOf[l] :
    enumLibrary[l].state = "Loaded" => NamesOf[l][i].type \in typeNameToType

\* enum.h:273-275 of GetName, where a name that is registered is returned, and
\* that a name not registered is not found (enum.h:327-331).  Neither holds: a
\* value's removal takes away what another library named it, and only under the name
\* it has then, so that an earlier name is found when no library is left.
RegisteredNamesAreFound ==
  /\ \A l \in EnumLibraries : \A i \in DOMAIN NamesOf[l] :
       enumLibrary[l].state = "Loaded" => ValueOf(NamesOf[l][i]) \in DOMAIN enumToNames
  /\ \A f \in DOMAIN fullNameToEnum : \E l \in EnumLibraries : \E i \in DOMAIN NamesOf[l] :
       IsThere(l, i) /\ FullNameOf(NamesOf[l][i]) = f
=============================================================================
