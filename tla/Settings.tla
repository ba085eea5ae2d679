------------------------------ MODULE Settings ------------------------------
(***************************************************************************)
(* The server settings (server/src/settings_routes.rs): the effective ones *)
(* in memory, the settings file, and POST /api/settings, which copies the  *)
(* effective settings, merges the body into the copy, writes the file and  *)
(* only then replaces the effective ones, with no lock held in between.    *)
(*                                                                         *)
(* Of the ten keys five stand for their kind: a mode, a number the         *)
(* environment can preset, a number with a range, a list of hosts and a    *)
(* key that comes from the environment only.                               *)
(***************************************************************************)
EXTENDS Integers, Sequences

CONSTANTS
  Requests,      \* POST requests, each handled once
  Bodies,        \* what a body, or a file edited by hand, can say
  Environments,  \* what WRITE_COALESCE_MS and WS_ORIGINS can say
  None,          \* no file, no value
  Truncated,     \* a file opened for writing and not written yet
  Garbled,       \* no JSON object: cut short, two writes mixed, another value
  Faults,        \* creating or writing the file may fail
  MaxRestarts    \* bound on the number of restarts

MAX_BODY_BACKSTOP == 500 * 1024 * 1024
PROXY_MODES == {"any", "allowlist", "disabled"}

(* The order in which merge_clean looks at the keys.                       *)
MergeOrder == <<"proxyMode", "writeCoalesceMs", "maxBodyBytes", "directFetchHosts">>
PersistedKeys == {MergeOrder[i] : i \in DOMAIN MergeOrder}
Keys == PersistedKeys \cup {"wsOrigins"}

(* A value of another JSON type is refused like one out of range.          *)
ValueType(key) ==
  CASE key = "proxyMode"                           -> STRING
    [] key \in {"writeCoalesceMs", "maxBodyBytes"} -> Int
    [] key \in {"directFetchHosts", "wsOrigins"}   -> Seq(STRING)
IsBody(b) == DOMAIN b \subseteq Keys /\ \A k \in DOMAIN b : b[k] \in ValueType(k)
Texts == [PersistedKeys -> STRING \cup Int \cup Seq(STRING)]

ASSUME LiteralsAssumption == PROXY_MODES \cup {"host", ""} \subseteq STRING
ASSUME BodiesAssumption == \A b \in Bodies : IsBody(b)
ASSUME EnvironmentsAssumption ==
  \A e \in Environments : e.writeCoalesceMs \in Nat \cup {None} /\ e.wsOrigins \in Seq(STRING)
ASSUME MarkersAssumption == {None, Truncated, Garbled} \cap Texts = {} /\ Truncated # Garbled
ASSUME FaultsAssumption == Faults \in BOOLEAN
ASSUME MaxRestartsAssumption == MaxRestarts \in Nat

VARIABLES
  env,       \* the environment of the running process
  inner,     \* SettingsState.inner, the effective settings
  file,      \* server-settings.json: what it says, or how it is broken
  pc,        \* request -> next step
  mine,      \* request -> its merged copy of the settings
  resp,      \* request -> status of its response
  contended, \* requests have overlapped since the last start
  restarts   \* number of restarts so far

vars == <<env, inner, file, pc, mine, resp, contended, restarts>>

(* Items of a list: "padded" is "host" with blanks around it, "blank" is   *)
(* nothing but blanks.                                                     *)
Trim(item) == CASE item = "padded" -> "host" [] item = "blank" -> "" [] OTHER -> item

Valid(key, v) ==
  CASE key = "proxyMode"        -> v \in PROXY_MODES
    [] key = "writeCoalesceMs"  -> v >= 0
    [] key = "maxBodyBytes"     -> 0 < v /\ v <= MAX_BODY_BACKSTOP
    [] key = "directFetchHosts" -> \A i \in DOMAIN v : Trim(v[i]) # ""
    [] key = "wsOrigins"        -> TRUE

(* What is assigned: the items of a list without the blanks around them.   *)
Clean(key, v) ==
  IF key = "directFetchHosts" THEN [i \in DOMAIN v |-> Trim(v[i])] ELSE v

ValidSettings(s) ==
  DOMAIN s = Keys /\ \A k \in Keys : Valid(k, s[k]) /\ Clean(k, s[k]) = s[k]

(* DEFAULTS <- env overrides.                                              *)
Base(e) ==
  [k \in Keys |->
     CASE k = "proxyMode"        -> "any"
       [] k = "writeCoalesceMs"  -> IF e[k] = None THEN 0 ELSE e[k]
       [] k = "maxBodyBytes"     -> 50 * 1024 * 1024
       [] k = "directFetchHosts" -> <<>>
       [] k = "wsOrigins"        -> e[k]]

(* merge_clean stops at the first invalid key; what it has assigned by     *)
(* then stays assigned.                                                    *)
Invalid(b) ==
  {i \in DOMAIN MergeOrder :
     MergeOrder[i] \in DOMAIN b /\ ~Valid(MergeOrder[i], b[MergeOrder[i]])}

Rejected(b) == b = Garbled \/ Invalid(b) # {}

(* Mutant: a value is assigned before it is validated.                     *)
AppliedUnchecked(b) ==
  {MergeOrder[i] : i \in {j \in DOMAIN MergeOrder :
     MergeOrder[j] \in DOMAIN b /\ \A k \in Invalid(b) : j <= k}}

(* Mutant: the environment-only keys are merged like the others.           *)
AppliedEnvToo(b) == IF Invalid(b) = {} THEN DOMAIN b ELSE {}

Applied(b) ==
  {MergeOrder[i] : i \in {j \in DOMAIN MergeOrder :
     MergeOrder[j] \in DOMAIN b /\ \A k \in Invalid(b) : j < k}}

Merge(s, b) == [k \in Keys |-> IF k \in Applied(b) THEN Clean(k, b[k]) ELSE s[k]]

(* Mutant: the file replaces the defaults as a whole.                      *)
LoadWhole(e, f) == IF f \in {None, Truncated, Garbled} THEN Base(e) ELSE f

(* load: a file that does not parse counts as none; errors in one that     *)
(* does are ignored.                                                       *)
Load(e, f) == IF f \in {None, Truncated, Garbled} THEN Base(e) ELSE Merge(Base(e), f)

(* Mutant: one key too few is written.                                     *)
PersistedForgetful(s) == [k \in PersistedKeys \ {"directFetchHosts"} |-> s[k]]

(* persist leaves the environment-only keys out.                           *)
Persisted(s) == [k \in PersistedKeys |-> s[k]]

TypeOK ==
  /\ env \in Environments
  /\ DOMAIN inner = Keys
  /\ file \in {None, Truncated, Garbled} \/ DOMAIN file \subseteq Keys
  /\ pc \in [Requests -> {"new", "open", "write", "store", "done"}]
  /\ \A r \in Requests : pc[r] \in {"open", "write", "store"} => ValidSettings(mine[r])
  /\ resp \in [Requests -> {"none", "200", "400", "500", "lost"}]
  /\ contended \in BOOLEAN
  /\ restarts \in 0..MaxRestarts

(* The file may have been edited by hand before the first start.           *)
Init ==
  /\ env \in Environments
  /\ file \in Bodies \cup {None, Garbled}
  /\ inner = Load(env, file)
  /\ pc = [r \in Requests |-> "new"]
  /\ mine = [r \in Requests |-> None]
  /\ resp = [r \in Requests |-> "none"]
  /\ contended = FALSE
  /\ restarts = 0

-----------------------------------------------------------------------------
Active(r) == pc[r] \notin {"new", "done"}

Goto(r, step) == pc' = [pc EXCEPT ![r] = step] /\ UNCHANGED resp
Respond(r, status) ==
  /\ pc' = [pc EXCEPT ![r] = "done"]
  /\ resp' = [resp EXCEPT ![r] = status]

(* post_settings up to the first side effect: snapshot and merge.          *)
Post(r, b) ==
  /\ pc[r] = "new"
  /\ contended' = (contended \/ \E s \in Requests : Active(s))
  /\ IF Rejected(b)
     THEN Respond(r, "400") /\ UNCHANGED mine
     ELSE Goto(r, "open") /\ mine' = [mine EXCEPT ![r] = Merge(inner, b)]
  /\ UNCHANGED <<env, inner, file, restarts>>

(* fs::write of persist: the file is truncated, then written.              *)
OpenFile(r) ==
  /\ pc[r] = "open"
  /\ \/ file' = Truncated /\ Goto(r, "write")
     \/ Faults /\ Respond(r, "500") /\ UNCHANGED file
  /\ UNCHANGED <<env, inner, mine, contended, restarts>>

(* A write over what another request has written since the truncation may  *)
(* leave the end of the longer text behind.                                *)
WriteFile(r) ==
  /\ pc[r] = "write"
  /\ \/ Goto(r, "store") /\ file' = Persisted(mine[r])
     \/ Goto(r, "store") /\ file # Truncated /\ file' = Garbled
     \/ Faults /\ Respond(r, "500") /\ file' \in {Garbled, file}
  /\ UNCHANGED <<env, inner, mine, contended, restarts>>

Store(r) ==
  /\ pc[r] = "store"
  /\ inner' = mine[r]
  /\ mine' = [mine EXCEPT ![r] = None]
  /\ Respond(r, "200")
  /\ UNCHANGED <<env, file, contended, restarts>>

(* The process stops anywhere and starts again, perhaps with another       *)
(* environment.                                                            *)
Restart(e) ==
  /\ restarts < MaxRestarts
  /\ restarts' = restarts + 1
  /\ contended' = FALSE
  /\ env' = e
  /\ inner' = Load(e, file)
  /\ pc' = [r \in Requests |-> IF Active(r) THEN "done" ELSE pc[r]]
  /\ resp' = [r \in Requests |-> IF Active(r) THEN "lost" ELSE resp[r]]
  /\ mine' = [r \in Requests |-> None]
  /\ UNCHANGED file

Next ==
  \/ \E r \in Requests :
       (\E b \in Bodies \cup {Garbled} : Post(r, b)) \/ OpenFile(r) \/ WriteFile(r) \/ Store(r)
  \/ \E e \in Environments : Restart(e)

Spec == Init /\ [][Next]_vars

-----------------------------------------------------------------------------
(* merge_clean and load: whatever was posted, edited into the file by hand *)
(* or left of a file by a crash, the server runs with valid settings.      *)
EffectiveSettingsAreValid == ValidSettings(inner)

(* ENV_ONLY_KEYS: no body and no file, not even after restarts with other  *)
(* environments, changes a key that comes from the environment.            *)
EnvOnlyKeysFollowEnv == inner["wsOrigins"] = env["wsOrigins"]

AllSaved == \A r \in Requests : ~Active(r) /\ resp[r] # "500"

(* post_settings persists before it stores: when no request is under way   *)
(* and none has failed to persist, a restart leads to the settings that    *)
(* are effective now, across earlier restarts with other environments and  *)
(* edited files, as long as requests came one after the other.             *)
ReloadGivesTheSame == (AllSaved /\ ~contended) => Load(env, file) = inner

=============================================================================
