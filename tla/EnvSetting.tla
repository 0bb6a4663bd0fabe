----------------------------- MODULE EnvSetting -----------------------------
(***************************************************************************)
(* TfEnvSetting: a variable whose value is taken from the environment when *)
(* it is first asked for, and never changes after that.  The value is      *)
(* found without a lock; the registry, a singleton created by whoever      *)
(* defines the first setting, reads the file named by                      *)
(* PIXAR_TF_ENV_SETTING_FILE into the environment, becomes visible to all, *)
(* and then runs the registry functions, which ask for every setting.      *)
(***************************************************************************)
EXTENDS Integers, Sequences, Functions, FiniteSets

CONSTANTS
  SettingUsers,   \* the threads
  Settings,       \* the TfEnvSetting objects
  VariableOf,     \* VariableOf[x]: its name
  KindOf,         \* KindOf[x]: "int", "bool" or "string"
  DefaultOf,      \* DefaultOf[x]: its default, a value of that kind
  Environments,   \* the environments the program may start in: variable -> text, or ""
  SettingFiles,   \* the files there may be: sequences of lines [key, text]
  NewTexts        \* what TfSetenv is called with

ASSUME EnvAssumption == KindOf \in [Settings -> {"int", "bool", "string"}]

VARIABLES
  env,            \* the environment
  unread,         \* the lines of the file not read yet
  fileSays,       \* the lines of the file, all of them; not in the code
  registry,       \* "None", "Building", "Visible" (still subscribing) or "Ready"
  valuesByName,   \* _valuesByName: variable -> [kind, value]
  cached,         \* cached[x]: *x._value, what it points at
  alerts,         \* alerts[x]: how often the override was announced
  duplicates,     \* the settings reported as defined twice
  answers,        \* answers[x]: what TfGetEnvSetting has returned; not in the code
  frames          \* frames[u]: the calls u is in, the innermost last

envVars == <<env, unread, fileSays, registry, valuesByName, cached, alerts, duplicates,
             answers, frames>>

Null == [kind |-> "null", value |-> ""]
Variables == {VariableOf[x] : x \in Settings}

EnvInit ==
  /\ env \in Environments
  /\ unread \in SettingFiles
  /\ fileSays = unread
  /\ registry = "None"
  /\ valuesByName = [v \in {} |-> Null]
  /\ cached = [x \in Settings |-> Null]
  /\ alerts = [x \in Settings |-> 0]
  /\ duplicates = {}
  /\ answers = [x \in Settings |-> {}]
  /\ frames = [u \in SettingUsers |-> <<>>]

Innermost(u) == frames[u][Len(frames[u])]
Outer(u) == SubSeq(frames[u], 1, Len(frames[u]) - 1)
IsAt(u, place) == frames[u] # <<>> /\ Innermost(u).at = place
Goto(u, frame) == frames' = [frames EXCEPT ![u] = Append(Outer(u), frame)]
Nest(u, frame) == frames' = [frames EXCEPT ![u] = Append(@, frame)]
Leave(u) == frames' = [frames EXCEPT ![u] = Outer(u)]

\* _Getenv: an empty text counts as no text.  (An int's text is a number here: on
\* any other TfGetenvInt throws, before anything is changed.)
Convert(text, kind) ==
  IF kind # "bool" THEN text ELSE IF text \in {"1", "true"} THEN "true" ELSE "false"
GetenvOr(x) == IF env[VariableOf[x]] = "" THEN DefaultOf[x]
               ELSE Convert(env[VariableOf[x]], KindOf[x])

-----------------------------------------------------------------------------
(* TfGetEnvSetting. *)

AskFor(x) == [at |-> "Load", setting |-> x]

EnvGet(u, x) ==
  /\ frames[u] = <<>>
  /\ Nest(u, AskFor(x))
  /\ UNCHANGED <<env, unread, fileSays, registry, valuesByName, cached, alerts, duplicates, answers>>

\* The pointer is loaded; if it is null the environment is read, without the lock.
EnvLoad(u) ==
  LET x == Innermost(u).setting
  IN /\ IsAt(u, "Load")
     /\ IF cached[x] # Null
        THEN /\ answers' = [answers EXCEPT ![x] = @ \cup {cached[x]}]
             /\ Leave(u)
        ELSE /\ Goto(u, [at |-> "Instance", setting |-> x, value |-> GetenvOr(x)])
             /\ UNCHANGED answers
     /\ UNCHANGED <<env, unread, fileSays, registry, valuesByName, cached, alerts, duplicates>>

\* GetInstance: the first to come constructs the registry, others wait till it is visible.
EnvInstance(u) ==
  /\ IsAt(u, "Instance")
  /\ LET define == [Innermost(u) EXCEPT !.at = "Define"]
     IN \/ /\ registry \in {"Visible", "Ready"}
           /\ Goto(u, define)
           /\ UNCHANGED registry
        \/ /\ registry = "None"
           /\ registry' = "Building"
           /\ frames' = [frames EXCEPT ![u] = Append(Append(Outer(u), define),
                                                     [at |-> "ReadFile"])]
  /\ UNCHANGED <<env, unread, fileSays, valuesByName, cached, alerts, duplicates, answers>>

\* Define checks again under the registry's lock, stores an entry if the name has none
\* and points the setting at the name's entry, if that is of the setting's kind.
IsDefined_NeverAgain(x) == FALSE

IsDefined(x) == cached[x] # Null

EnvDefine(u) ==
  LET x == Innermost(u).setting
      v == VariableOf[x]
      entry == [kind |-> KindOf[x], value |-> Innermost(u).value]
      inserted == v \notin DOMAIN valuesByName
      stored == IF inserted THEN entry ELSE valuesByName[v]
  IN /\ IsAt(u, "Define")
     /\ Goto(u, [at |-> "Reload", setting |-> x])
     /\ IF IsDefined(x) THEN UNCHANGED <<valuesByName, cached, alerts, duplicates>>
        ELSE /\ valuesByName' = [w \in DOMAIN valuesByName \cup {v} |->
                                   IF w = v THEN stored ELSE valuesByName[w]]
             /\ cached' = [cached EXCEPT ![x] = IF stored.kind = KindOf[x] THEN stored ELSE Null]
             /\ duplicates' = IF inserted THEN duplicates ELSE duplicates \cup {x}
             /\ alerts' = IF inserted /\ entry.value # DefaultOf[x]
                          THEN [alerts EXCEPT ![x] = @ + 1] ELSE alerts
     /\ UNCHANGED <<env, unread, fileSays, registry, answers>>

\* The pointer is loaded again and followed.
EnvReload(u) ==
  LET x == Innermost(u).setting
  IN /\ IsAt(u, "Reload")
     /\ answers' = [answers EXCEPT ![x] = @ \cup {cached[x]}]
     /\ Leave(u)
     /\ UNCHANGED <<env, unread, fileSays, registry, valuesByName, cached, alerts, duplicates>>

-----------------------------------------------------------------------------
(* The registry's constructor. *)

\* ArchSetEnv without overwriting.  (Comments and malformed lines are skipped.)
EnvReadLine(u) ==
  /\ IsAt(u, "ReadFile") /\ unread # <<>>
  /\ LET line == Head(unread)
     IN env' = [env EXCEPT ![line.key] = IF @ = "" THEN line.text ELSE @]
  /\ unread' = Tail(unread)
  /\ UNCHANGED <<fileSays, registry, valuesByName, cached, alerts, duplicates, answers, frames>>

\* SetInstanceConstructed, then SubscribeTo: one registry function for each setting.
EnvConstructed(u) ==
  /\ IsAt(u, "ReadFile") /\ unread = <<>>
  /\ registry' = "Visible"
  /\ Goto(u, [at |-> "Subscribe", todo |-> Settings])
  /\ UNCHANGED <<env, unread, fileSays, valuesByName, cached, alerts, duplicates, answers>>

EnvSubscribe(u) ==
  /\ IsAt(u, "Subscribe")
  /\ LET todo == Innermost(u).todo
     IN \/ /\ todo = {}
           /\ registry' = "Ready"
           /\ Leave(u)
        \/ \E x \in todo :
             /\ frames' = [frames EXCEPT ![u] =
                  Append(Append(Outer(u), [at |-> "Subscribe", todo |-> todo \ {x}]), AskFor(x))]
             /\ UNCHANGED registry
  /\ UNCHANGED <<env, unread, fileSays, valuesByName, cached, alerts, duplicates, answers>>

\* TfSetenv and, with an empty text, TfUnsetenv.
EnvSet(u, v, text) ==
  /\ frames[u] = <<>> /\ env[v] # text
  /\ env' = [env EXCEPT ![v] = text]
  /\ UNCHANGED <<unread, fileSays, registry, valuesByName, cached, alerts, duplicates, answers, frames>>

EnvStep(u) ==
  \/ \E x \in Settings : EnvGet(u, x)
  \/ EnvLoad(u) \/ EnvInstance(u) \/ EnvDefine(u) \/ EnvReload(u)
  \/ EnvReadLine(u) \/ EnvConstructed(u) \/ EnvSubscribe(u)
  \/ \E v \in Variables, text \in NewTexts : EnvSet(u, v, text)

EnvNext == \E u \in SettingUsers : EnvStep(u)

EnvSpec == EnvInit /\ [][EnvNext]_envVars

-----------------------------------------------------------------------------
(* Properties. *)

\* Whoever asks for a setting, and however its definition raced with others and with
\* changes of the environment, gets one and the same value, which exists; the
\* override is announced exactly once ("Only the caller that successfully set the
\* value should print the alert"); and nobody is told that a setting which is the
\* only one of its name was defined twice.
SettingsAreSettled ==
  \A x \in Settings : (\A y \in Settings : VariableOf[x] = VariableOf[y] => x = y) =>
    /\ answers[x] \subseteq {cached[x]} \ {Null}
    /\ alerts[x] = IF cached[x] # Null /\ cached[x].value # DefaultOf[x] THEN 1 ELSE 0
    /\ x \notin duplicates

\* "For each line read, the environment variable key is set to value" (envSetting.h:87):
\* a setting the environment did not have, and nobody set, has the file's value.
FileIsHeard ==
  \A x \in Settings, n \in DOMAIN fileSays :
    (cached[x] # Null /\ fileSays[n].key = VariableOf[x]) =>
      \E k \in DOMAIN fileSays : /\ fileSays[k].key = VariableOf[x]
                                 /\ cached[x].value = Convert(fileSays[k].text, KindOf[x])
=============================================================================
