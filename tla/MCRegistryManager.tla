-------------------------- MODULE MCRegistryManager --------------------------
(***************************************************************************)
(* Instances of RegistryManager for TLC: library A has a function for T's  *)
(* registry, which asks for the instance, and one for another type, which  *)
(* loads library B; B has one for that type, which asks for the instance.  *)
(* Two of them add functions for unload.                                   *)
(***************************************************************************)
EXTENDS RegistryManager, TLC

CONSTANTS t1, t2, A, B, enum, plugin, enumA, pluginA, pluginB

TwoThreads == {t1, t2}
TwoTypes == {enum, plugin}
TwoLibs == {A, B}
ThreeFns == {enumA, pluginA, pluginB}

MCTypeOf == enumA :> enum @@ pluginA :> plugin @@ pluginB :> plugin
MCAdds == A :> <<enumA, pluginA>> @@ B :> <<pluginB>>
MCBody ==
  enumA :> <<GetCall>> @@ pluginA :> <<LoadCall(B), AddForUnloadCall>>
    @@ pluginB :> <<GetCall, AddForUnloadCall>>
MCGlobals == A :> {SubscribeCall(plugin)} @@ B :> {GetCall}
=============================================================================
