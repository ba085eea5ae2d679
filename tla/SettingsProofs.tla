--------------------------- MODULE SettingsProofs ---------------------------
(***************************************************************************)
(* The settings stay valid and a restart changes nothing, for any bodies,  *)
(* files, environments and number of requests.                             *)
(***************************************************************************)
EXTENDS Settings, SequenceTheorems, TLAPS

USE BodiesAssumption, EnvironmentsAssumption, FaultsAssumption, MaxRestartsAssumption

(* Effective settings: a valid value for every key.                        *)
Well(s) ==
  /\ s = [k \in Keys |-> s[k]]
  /\ \A k \in Keys : s[k] \in ValueType(k)
  /\ ValidSettings(s)

(* The persisted keys, by name.                                            *)
LEMMA KeysByName ==
  /\ DOMAIN MergeOrder = 1..4
  /\ PersistedKeys = {"proxyMode", "writeCoalesceMs", "maxBodyBytes", "directFetchHosts"}
  /\ Keys = PersistedKeys \cup {"wsOrigins"}
  /\ "wsOrigins" \notin PersistedKeys
<1>1. DOMAIN MergeOrder = 1..4
  BY DEF MergeOrder
<1>2. PersistedKeys = {MergeOrder[1], MergeOrder[2], MergeOrder[3], MergeOrder[4]}
  BY <1>1 DEF PersistedKeys
<1>3. QED
  BY <1>1, <1>2 DEF MergeOrder, Keys

(* Trimming twice is trimming once.                                        *)
LEMMA TrimTwice ==
  ASSUME NEW x PROVE Trim(Trim(x)) = Trim(x)
<1>1. Trim("padded") = "host" /\ Trim("host") = "host"
  BY DEF Trim
<1>2. Trim("blank") = ""
  BY DEF Trim
<1>3. Trim("") = ""
  BY DEF Trim
<1>4. CASE x # "padded" /\ x # "blank"
  BY <1>4 DEF Trim
<1>5. CASE x = "padded"
  BY <1>1, <1>5, Zenon
<1>6. CASE x = "blank"
  BY <1>2, <1>3, <1>6, Zenon
<1>7. QED
  BY <1>4, <1>5, <1>6

(* A trimmed text is a text.                                               *)
LEMMA TrimText ==
  ASSUME NEW x \in STRING PROVE Trim(x) \in STRING
<1>1. "host" \in STRING /\ "" \in STRING
  BY LiteralsAssumption
<1>2. Trim(x) \in {x, "host", ""}
  BY DEF Trim
<1>3. QED
  BY <1>1, <1>2

(* Cleaning a valid value leaves a valid and clean one.                    *)
LEMMA CleanIsClean ==
  ASSUME NEW k \in Keys, NEW v \in ValueType(k), Valid(k, v)
  PROVE  /\ Clean(k, v) \in ValueType(k)
         /\ Valid(k, Clean(k, v))
         /\ Clean(k, Clean(k, v)) = Clean(k, v)
<1>1. CASE k # "directFetchHosts"
  BY <1>1 DEF Clean
<1>2. CASE k = "directFetchHosts"
  <2> DEFINE w == [i \in DOMAIN v |-> Trim(v[i])]
  <2>1. v \in Seq(STRING)
    BY <1>2 DEF ValueType
  <2>2. DOMAIN v = 1..Len(v) /\ Len(v) \in Nat /\ \A i \in DOMAIN v : v[i] \in STRING
    BY <2>1, LenProperties, ElementOfSeq
  <2>3. Clean(k, v) = w
    BY <1>2 DEF Clean
  <2>4. \A i \in DOMAIN v : Trim(w[i]) = w[i] /\ w[i] \in STRING /\ w[i] # ""
    BY <1>2, <2>2, TrimTwice, TrimText DEF Valid
  <2>5. w \in Seq(STRING)
    <3>1. w \in [1..Len(v) -> STRING]
      BY <2>2, <2>4
    <3>2. QED
      BY <2>2, <3>1, SeqDef
  <2>6. Clean(k, w) = w
    BY <1>2, <2>4 DEF Clean
  <2>7. Valid(k, w)
    BY <1>2, <2>4 DEF Valid
  <2>8. QED
    BY <1>2, <2>3, <2>5, <2>6, <2>7 DEF ValueType
<1>3. QED
  BY <1>1, <1>2

(* What merge_clean assigns is valid and never from the environment.       *)
LEMMA AppliedIsValid ==
  ASSUME NEW b, NEW k \in Applied(b)
  PROVE  k \in PersistedKeys /\ k \in DOMAIN b /\ Valid(k, b[k])
<1>1. PICK i \in DOMAIN MergeOrder :
        MergeOrder[i] = k /\ k \in DOMAIN b /\ \A j \in Invalid(b) : i < j
  BY DEF Applied
<1>2. i \notin Invalid(b)
  BY <1>1, KeysByName
<1>3. QED
  BY <1>1, <1>2 DEF Invalid, PersistedKeys

(* merge_clean keeps settings valid.                                       *)
LEMMA MergeWell ==
  ASSUME NEW s, Well(s), NEW b, IsBody(b)
  PROVE  Well(Merge(s, b)) /\ Merge(s, b)["wsOrigins"] = s["wsOrigins"]
<1> DEFINE m == Merge(s, b)
<1>1. m = [k \in Keys |-> IF k \in Applied(b) THEN Clean(k, b[k]) ELSE s[k]]
  BY DEF Merge
<1>2. ASSUME NEW k \in Keys
      PROVE  m[k] \in ValueType(k) /\ Valid(k, m[k]) /\ Clean(k, m[k]) = m[k]
  <2>1. CASE k \in Applied(b)
    <3>1. b[k] \in ValueType(k) /\ Valid(k, b[k])
      BY <2>1, AppliedIsValid DEF IsBody
    <3>2. m[k] = Clean(k, b[k])
      BY <1>1, <2>1
    <3>3. QED
      BY <3>1, <3>2, CleanIsClean
  <2>2. CASE k \notin Applied(b)
    BY <1>1, <2>2 DEF Well, ValidSettings
  <2>3. QED
    BY <2>1, <2>2
<1>3. "wsOrigins" \notin Applied(b)
  BY AppliedIsValid, KeysByName
<1>4. m["wsOrigins"] = s["wsOrigins"]
  BY <1>1, <1>3, KeysByName
<1>5. m = [k \in Keys |-> m[k]] /\ DOMAIN m = Keys
  BY <1>1
<1>6. Well(m)
  BY <1>2, <1>5 DEF Well, ValidSettings
<1>7. QED
  BY <1>4, <1>6

(* The defaults are valid in every environment.                            *)
LEMMA BaseWell ==
  ASSUME NEW e \in Environments
  PROVE  Well(Base(e)) /\ Base(e)["wsOrigins"] = e["wsOrigins"]
<1> DEFINE coalesce == IF e.writeCoalesceMs = None THEN 0 ELSE e.writeCoalesceMs
<1>1. Base(e) = [k \in Keys |-> Base(e)[k]] /\ DOMAIN Base(e) = Keys
  <2> DEFINE base(k) ==
        CASE k = "proxyMode"        -> "any"
          [] k = "writeCoalesceMs"  -> IF e[k] = None THEN 0 ELSE e[k]
          [] k = "maxBodyBytes"     -> 50 * 1024 * 1024
          [] k = "directFetchHosts" -> <<>>
          [] k = "wsOrigins"        -> e[k]
  <2>1. Base(e) = [k \in Keys |-> base(k)]
    BY DEF Base
  <2> HIDE DEF base
  <2>2. QED
    BY <2>1
<1>2. /\ Base(e)["proxyMode"] = "any"
      /\ Base(e)["maxBodyBytes"] = 50 * 1024 * 1024
      /\ Base(e)["directFetchHosts"] = <<>>
      /\ Base(e)["wsOrigins"] = e["wsOrigins"]
      /\ Base(e)["writeCoalesceMs"] = coalesce
  BY KeysByName DEF Base
<1>3. <<>> \in Seq(STRING) /\ DOMAIN <<>> = {} /\ e["wsOrigins"] \in Seq(STRING) /\ coalesce \in Nat
  BY EmptySeq
<1> HIDE DEF coalesce
<1>4. /\ ValueType("proxyMode") = STRING
      /\ ValueType("writeCoalesceMs") = Int /\ ValueType("maxBodyBytes") = Int
      /\ ValueType("directFetchHosts") = Seq(STRING) /\ ValueType("wsOrigins") = Seq(STRING)
  BY DEF ValueType
<1>5. ASSUME NEW k \in Keys
      PROVE  /\ Base(e)[k] \in ValueType(k) /\ Valid(k, Base(e)[k])
             /\ Clean(k, Base(e)[k]) = Base(e)[k]
  <2>1. CASE k = "proxyMode"
    <3>1. Base(e)["proxyMode"] \in ValueType("proxyMode")
      <4>1. Base(e)["proxyMode"] \in PROXY_MODES
        BY <1>2 DEF PROXY_MODES
      <4>2. QED
        BY <1>4, <4>1, LiteralsAssumption
    <3>2. Valid("proxyMode", Base(e)["proxyMode"])
      BY <1>2 DEF Valid, PROXY_MODES
    <3>3. Clean("proxyMode", Base(e)["proxyMode"]) = Base(e)["proxyMode"]
      BY <1>2 DEF Clean
    <3>4. QED
      BY <2>1, <3>1, <3>2, <3>3
  <2>2. CASE k = "writeCoalesceMs"
    <3>1. Base(e)["writeCoalesceMs"] \in ValueType("writeCoalesceMs")
      BY <1>2, <1>3, <1>4
    <3>2. Valid("writeCoalesceMs", Base(e)["writeCoalesceMs"])
      BY <1>2, <1>3 DEF Valid
    <3>3. Clean("writeCoalesceMs", Base(e)["writeCoalesceMs"]) = Base(e)["writeCoalesceMs"]
      BY <1>2, <1>3 DEF Clean
    <3>4. QED
      BY <2>2, <3>1, <3>2, <3>3
  <2>3. CASE k = "maxBodyBytes"
    <3>1. Base(e)["maxBodyBytes"] \in ValueType("maxBodyBytes")
      BY <1>2, <1>4
    <3>2. Valid("maxBodyBytes", Base(e)["maxBodyBytes"])
      BY <1>2 DEF Valid, MAX_BODY_BACKSTOP
    <3>3. Clean("maxBodyBytes", Base(e)["maxBodyBytes"]) = Base(e)["maxBodyBytes"]
      BY <1>2 DEF Clean
    <3>4. QED
      BY <2>3, <3>1, <3>2, <3>3
  <2>4. CASE k = "directFetchHosts"
    <3>1. Base(e)["directFetchHosts"] = <<>>
      BY <1>2
    <3>2. Base(e)["directFetchHosts"] \in ValueType("directFetchHosts")
      BY <3>1, <1>4, EmptySeq, Zenon
    <3>3. Valid("directFetchHosts", Base(e)["directFetchHosts"])
      BY <1>2, <1>3 DEF Valid
    <3>4. Clean("directFetchHosts", Base(e)["directFetchHosts"]) = Base(e)["directFetchHosts"]
      BY <1>2, <1>3 DEF Clean
    <3>5. QED
      BY <2>4, <3>2, <3>3, <3>4
  <2>5. CASE k = "wsOrigins"
    <3>1. Base(e)["wsOrigins"] \in ValueType("wsOrigins")
      BY <1>2, <1>3, <1>4
    <3>2. Valid("wsOrigins", Base(e)["wsOrigins"])
      BY <1>2, <1>3 DEF Valid
    <3>3. Clean("wsOrigins", Base(e)["wsOrigins"]) = Base(e)["wsOrigins"]
      BY <1>2, <1>3 DEF Clean
    <3>4. QED
      BY <2>5, <3>1, <3>2, <3>3
  <2>6. QED
    BY <2>1, <2>2, <2>3, <2>4, <2>5, KeysByName
<1>6. QED
  BY <1>1, <1>2, <1>5 DEF Well, ValidSettings

Markers == {None, Truncated, Garbled}

(* load gives valid settings, whatever the file says.                      *)
LEMMA LoadWell ==
  ASSUME NEW e \in Environments, NEW f, f \in Markers \/ IsBody(f)
  PROVE  Well(Load(e, f)) /\ Load(e, f)["wsOrigins"] = e["wsOrigins"]
BY BaseWell, MergeWell DEF Load, Markers

(* What persist writes is a body, and load makes of it what was persisted. *)
LEMMA PersistedReload ==
  ASSUME NEW e \in Environments, NEW s, Well(s), s["wsOrigins"] = e["wsOrigins"]
  PROVE  IsBody(Persisted(s)) /\ Load(e, Persisted(s)) = s
<1> DEFINE p == Persisted(s)
<1>1. DOMAIN p = PersistedKeys /\ \A k \in PersistedKeys : p[k] = s[k]
  BY DEF Persisted
<1>2. IsBody(p)
  BY <1>1, KeysByName DEF IsBody, Well
<1>3. p \in Texts
  <2>1. \A k \in PersistedKeys : ValueType(k) \subseteq STRING \cup Int \cup Seq(STRING)
    BY KeysByName DEF ValueType
  <2>2. \A k \in PersistedKeys : s[k] \in STRING \cup Int \cup Seq(STRING)
    BY <2>1, KeysByName DEF Well
  <2>3. QED
    BY <2>2 DEF Persisted, Texts
<1>4. Load(e, p) = Merge(Base(e), p)
  BY <1>3, MarkersAssumption DEF Load
<1>5. \A i \in DOMAIN MergeOrder : MergeOrder[i] \in PersistedKeys
  BY DEF PersistedKeys
<1>6. Invalid(p) = {}
  BY <1>1, <1>5, KeysByName DEF Invalid, Well, ValidSettings
<1>7. Applied(p) = PersistedKeys
  BY <1>1, <1>5, <1>6 DEF Applied, PersistedKeys
<1>8. ASSUME NEW k \in Keys PROVE Merge(Base(e), p)[k] = s[k]
  <2>1. CASE k \in PersistedKeys
    <3>1. Merge(Base(e), p)[k] = Clean(k, s[k])
      BY <1>1, <1>7, <2>1 DEF Merge
    <3>2. QED
      BY <3>1 DEF Well, ValidSettings
  <2>2. CASE k \notin PersistedKeys
    <3>1. k = "wsOrigins" /\ Merge(Base(e), p)[k] = Base(e)[k]
      BY <1>7, <2>2, KeysByName DEF Merge
    <3>2. QED
      BY <3>1, BaseWell
  <2>3. QED
    BY <2>1, <2>2
<1>9. Merge(Base(e), p) = [k \in Keys |-> Merge(Base(e), p)[k]]
  BY DEF Merge
<1>10. Merge(Base(e), p) = s
  BY <1>8, <1>9 DEF Well
<1>11. QED
  BY <1>2, <1>4, <1>10

-----------------------------------------------------------------------------
Steps == {"new", "open", "write", "store", "done"}
Statuses == {"none", "200", "400", "500", "lost"}

(* Well-made settings of the present environment.                          *)
Sound(s) == Well(s) /\ s["wsOrigins"] = env["wsOrigins"]

(* The inductive invariant: the effective settings and every copy under    *)
(* way are sound, and the file says nothing load could not read.           *)
IInv ==
  /\ env \in Environments
  /\ Sound(inner)
  /\ file \in Markers \/ IsBody(file)
  /\ pc \in [Requests -> Steps]
  /\ resp \in [Requests -> Statuses]
  /\ mine = [r \in Requests |-> mine[r]]
  /\ \A r \in Requests : Active(r) => Sound(mine[r])
  /\ \A r \in Requests : pc[r] # "done" => resp[r] = "none"
  /\ contended \in BOOLEAN
  /\ restarts \in 0..MaxRestarts

(* The starting file is sound, whatever it says.                           *)
LEMMA InitIInv == Init => IInv
<1> SUFFICES ASSUME Init PROVE IInv
  OBVIOUS
<1>1. env \in Environments /\ (file \in Markers \/ IsBody(file))
  BY DEF Init, Markers
<1>2. Sound(inner)
  BY <1>1, LoadWell DEF Init, Sound
<1>3. \A r \in Requests : ~Active(r)
  BY DEF Init, Active
<1>4. /\ pc \in [Requests -> Steps] /\ resp \in [Requests -> Statuses]
      /\ \A r \in Requests : resp[r] = "none"
  BY DEF Init, Steps, Statuses
<1>5. mine = [r \in Requests |-> mine[r]]
  BY DEF Init
<1>6. contended \in BOOLEAN
  BY DEF Init
<1>7. restarts \in 0..MaxRestarts
  BY DEF Init
<1>8. QED
  BY <1>1, <1>2, <1>3, <1>4, <1>5, <1>6, <1>7 DEF IInv

(* One handler step of a request keeps the invariant.                      *)
LEMMA HandlerIInv ==
  ASSUME IInv, NEW r \in Requests, NEW b \in Bodies \cup {Garbled},
         Post(r, b) \/ OpenFile(r) \/ WriteFile(r) \/ Store(r)
  PROVE  IInv'
<1> USE DEF Sound
<1>1. CASE Post(r, b)
  <2>1. /\ pc' \in [Requests -> Steps] /\ resp' \in [Requests -> Statuses]
        /\ \A q \in Requests : q # r => pc'[q] = pc[q]
        /\ \A q \in Requests : pc'[q] # "done" => resp'[q] = "none"
    BY <1>1 DEF IInv, Post, Goto, Respond, Steps, Statuses
  <2>2. contended' \in BOOLEAN /\ UNCHANGED <<env, inner, file, restarts>>
    BY <1>1 DEF Post
  <2>3. CASE Rejected(b)
    <3>1. mine' = mine /\ ~Active(r)' /\ \A q \in Requests : Active(q)' => Active(q)
      BY <1>1, <2>1, <2>3 DEF Post, Respond, Active, IInv
    <3>2. QED
      BY <2>1, <2>2, <3>1 DEF IInv
  <2>4. CASE ~Rejected(b)
    <3>1. IsBody(b)
      BY <2>4 DEF Rejected
    <3>2. Sound(Merge(inner, b))
      BY <3>1, MergeWell DEF IInv
    <3>3. /\ mine' = [mine EXCEPT ![r] = Merge(inner, b)]
          /\ mine' = [q \in Requests |-> mine'[q]]
          /\ \A q \in Requests : mine'[q] = IF q = r THEN Merge(inner, b) ELSE mine[q]
      BY <1>1, <2>4 DEF Post, IInv
    <3>4. \A q \in Requests : Active(q)' => Sound(mine[q])' 
      BY <2>1, <2>2, <3>2, <3>3 DEF IInv, Active
    <3>5. QED
      BY <2>1, <2>2, <3>3, <3>4 DEF IInv
  <2>5. QED
    BY <2>3, <2>4
<1>2. CASE OpenFile(r)
  <2>1. /\ pc' \in [Requests -> Steps] /\ resp' \in [Requests -> Statuses]
        /\ \A q \in Requests : Active(q)' => Active(q)
        /\ \A q \in Requests : pc'[q] # "done" => resp'[q] = "none"
    BY <1>2 DEF IInv, OpenFile, Goto, Respond, Steps, Statuses, Active
  <2>2. file' = Truncated \/ file' = file
    BY <1>2 DEF OpenFile
  <2>3. UNCHANGED <<env, inner, mine, contended, restarts>>
    BY <1>2 DEF OpenFile
  <2>4. file' \in Markers \/ IsBody(file')
    BY <2>2 DEF IInv, Markers
  <2>5. QED
    BY <2>1, <2>3, <2>4 DEF IInv
<1>3. CASE WriteFile(r)
  <2>1. /\ pc' \in [Requests -> Steps] /\ resp' \in [Requests -> Statuses]
        /\ \A q \in Requests : Active(q)' => Active(q)
        /\ \A q \in Requests : pc'[q] # "done" => resp'[q] = "none"
    BY <1>3 DEF IInv, WriteFile, Goto, Respond, Steps, Statuses, Active
  <2>2. file' \in {Persisted(mine[r]), Garbled, file}
    BY <1>3 DEF WriteFile
  <2>3. UNCHANGED <<env, inner, mine, contended, restarts>>
    BY <1>3 DEF WriteFile
  <2>4. Sound(mine[r]) /\ env \in Environments
    BY <1>3 DEF WriteFile, Active, IInv
  <2>5. IsBody(Persisted(mine[r]))
    BY <2>4, PersistedReload
  <2>6. file' \in Markers \/ IsBody(file')
    BY <2>2, <2>5 DEF IInv, Markers
  <2>7. QED
    BY <2>1, <2>3, <2>6 DEF IInv
<1>4. CASE Store(r)
  <2>1. /\ pc' \in [Requests -> Steps] /\ resp' \in [Requests -> Statuses]
        /\ \A q \in Requests : Active(q)' => Active(q) /\ q # r
        /\ \A q \in Requests : pc'[q] # "done" => resp'[q] = "none"
    BY <1>4 DEF IInv, Store, Respond, Steps, Statuses, Active
  <2>2. /\ mine' = [q \in Requests |-> mine'[q]]
        /\ \A q \in Requests : q # r => mine'[q] = mine[q]
    BY <1>4 DEF Store, IInv
  <2>3. inner' = mine[r] /\ UNCHANGED <<env, file, contended, restarts>>
    BY <1>4 DEF Store
  <2>4. Sound(mine[r])
    BY <1>4 DEF Store, Active, IInv
  <2>5. \A q \in Requests : Active(q)' => Sound(mine[q])'
    BY <2>1, <2>2, <2>3 DEF IInv
  <2>6. QED
    BY <2>1, <2>2, <2>3, <2>4, <2>5 DEF IInv
<1>5. QED
  BY <1>1, <1>2, <1>3, <1>4

(* So does a restart, with any environment.                                *)
LEMMA RestartIInv ==
  ASSUME IInv, NEW e \in Environments, Restart(e)
  PROVE  IInv' /\ \A r \in Requests : ~Active(r)'
<1>1. /\ pc' \in [Requests -> Steps] /\ resp' \in [Requests -> Statuses]
      /\ \A r \in Requests : pc'[r] # "done" => resp'[r] = "none"
  BY DEF IInv, Restart, Steps, Statuses, Active
<1>2. \A r \in Requests : ~Active(r)'
  BY DEF Restart, Active
<1>3. env' = e /\ file' = file /\ inner' = Load(e, file) /\ contended' = FALSE
  BY DEF Restart
<1>4. Sound(inner)'
  BY <1>3, LoadWell DEF IInv, Sound
<1>5. mine' = [r \in Requests |-> mine'[r]] /\ restarts' \in 0..MaxRestarts
  BY DEF Restart, IInv
<1>6. QED
  BY <1>1, <1>2, <1>3, <1>4, <1>5 DEF IInv

(* A step is one of a request's handler or a restart.                      *)
LEMMA NextCases ==
  ASSUME Next
  PROVE  \/ \E r \in Requests, b \in Bodies \cup {Garbled} :
              Post(r, b) \/ OpenFile(r) \/ WriteFile(r) \/ Store(r)
         \/ \E e \in Environments : Restart(e)
BY DEF Next

(* merge_clean, persist and load: the invariant holds throughout.          *)
THEOREM SettingsInv == Spec => []IInv
<1>1. IInv /\ [Next]_vars => IInv'
  <2> SUFFICES ASSUME IInv, [Next]_vars PROVE IInv'
    OBVIOUS
  <2>1. CASE Next
    BY <2>1, NextCases, HandlerIInv, RestartIInv
  <2>2. CASE UNCHANGED vars
    BY <2>2 DEF vars, IInv, Sound, Active
  <2>3. QED
    BY <2>1, <2>2
<1>2. QED
  BY InitIInv, <1>1, PTL DEF Spec

(* Every step keeps the state well typed, and every copy of the settings a *)
(* request holds is valid.                                                 *)
THEOREM TypeCorrect == Spec => []TypeOK
<1>1. IInv => TypeOK
  BY DEF IInv, TypeOK, Steps, Statuses, Markers, IsBody, Sound, Well, ValidSettings, Active
<1>2. QED
  BY SettingsInv, <1>1, PTL

(* merge_clean and load: valid settings whatever is posted, edited into    *)
(* the file or left of it, for any number of overlapping requests.         *)
THEOREM SettingsAreValid == Spec => []EffectiveSettingsAreValid
<1>1. IInv => EffectiveSettingsAreValid
  BY DEF IInv, EffectiveSettingsAreValid, Sound, Well
<1>2. QED
  BY SettingsInv, <1>1, PTL

(* ENV_ONLY_KEYS: only the environment sets them.                          *)
THEOREM EnvOnlyKeys == Spec => []EnvOnlyKeysFollowEnv
<1>1. IInv => EnvOnlyKeysFollowEnv
  BY DEF IInv, EnvOnlyKeysFollowEnv, Sound
<1>2. QED
  BY SettingsInv, <1>1, PTL

-----------------------------------------------------------------------------
(* Requests came one after the other and none failed to persist.           *)
InTurn == ~contended /\ \A r \in Requests : resp[r] # "500"

(* Then at most one is under way, and the file is what its step says.      *)
Saved ==
  InTurn =>
    /\ \A r, q \in Requests : Active(r) /\ Active(q) => r = q
    /\ (\A r \in Requests : pc[r] \notin {"write", "store"}) => Load(env, file) = inner
    /\ \A r \in Requests : pc[r] = "write" => file = Truncated
    /\ \A r \in Requests : pc[r] = "store" => file = Persisted(mine[r])

(* A handler step keeps file and memory in step.                           *)
LEMMA HandlerSaved ==
  ASSUME IInv, Saved, NEW r \in Requests, NEW b \in Bodies \cup {Garbled},
         Post(r, b) \/ OpenFile(r) \/ WriteFile(r) \/ Store(r)
  PROVE  Saved'
<1> SUFFICES ASSUME InTurn' PROVE Saved'
  BY DEF Saved
<1>1. pc \in [Requests -> Steps] /\ resp \in [Requests -> Statuses] /\ pc[r] # "done"
  BY DEF IInv, Post, OpenFile, WriteFile, Store
<1>2. \A q \in Requests : q # r => pc'[q] = pc[q] /\ resp'[q] = resp[q]
  BY <1>1 DEF Post, OpenFile, WriteFile, Store, Goto, Respond
<1>3. InTurn
  <2>1. \A q \in Requests : resp[q] # "500"
    BY <1>1, <1>2 DEF IInv, InTurn
  <2>2. ~contended
    BY DEF IInv, InTurn, Post, OpenFile, WriteFile, Store
  <2>3. QED
    BY <2>1, <2>2 DEF InTurn
<1>4. /\ \A p, q \in Requests : Active(p) /\ Active(q) => p = q
      /\ (\A q \in Requests : pc[q] \notin {"write", "store"}) => Load(env, file) = inner
      /\ \A q \in Requests : pc[q] = "write" => file = Truncated
      /\ \A q \in Requests : pc[q] = "store" => file = Persisted(mine[q])
  BY <1>3 DEF Saved
<1>5. CASE Post(r, b)
  <2>1. \A q \in Requests : ~Active(q)
    BY <1>5 DEF Post, InTurn
  <2>2. pc'[r] \in {"open", "done"}
    BY <1>1, <1>5 DEF Post, Goto, Respond
  <2>3. \A q \in Requests : pc'[q] \notin {"write", "store"} /\ (Active(q)' => q = r)
    BY <1>2, <2>1, <2>2 DEF Active
  <2>4. Load(env, file) = inner /\ UNCHANGED <<env, file, inner>>
    BY <1>4, <1>5, <2>1 DEF Post, Active
  <2>5. QED
    BY <2>3, <2>4 DEF Saved
<1>6. ASSUME Active(r) PROVE \A q \in Requests : q # r => ~Active(q) /\ ~Active(q)'
  BY <1>2, <1>4, <1>6 DEF Active
<1>7. CASE OpenFile(r)
  <2>1. Active(r) /\ pc'[r] = "write" /\ file' = Truncated
    BY <1>1, <1>7 DEF OpenFile, Active, Goto, Respond, InTurn
  <2>2. \A q \in Requests : q # r => ~Active(q)'
    BY <1>6, <2>1
  <2>3. QED
    BY <2>1, <2>2 DEF Saved, Active
<1>8. CASE WriteFile(r)
  <2>1. Active(r) /\ pc'[r] = "store" /\ file' = Persisted(mine[r]) /\ mine' = mine
    BY <1>1, <1>4, <1>8 DEF WriteFile, Active, Goto, Respond, InTurn
  <2>2. \A q \in Requests : q # r => ~Active(q)'
    BY <1>6, <2>1
  <2>3. QED
    BY <2>1, <2>2 DEF Saved, Active
<1>9. CASE Store(r)
  <2>1. Active(r) /\ pc'[r] = "done" /\ file = Persisted(mine[r])
    BY <1>1, <1>4, <1>9 DEF Store, Active, Respond
  <2>2. file' = file /\ env' = env /\ inner' = mine[r]
    BY <1>9 DEF Store
  <2>3. \A q \in Requests : ~Active(q)'
    BY <1>6, <2>1 DEF Active
  <2>4. Load(env, Persisted(mine[r])) = mine[r]
    BY <2>1, PersistedReload DEF IInv, Sound
  <2>5. QED
    BY <2>1, <2>2, <2>3, <2>4 DEF Saved, Active
<1>10. QED
  BY <1>5, <1>7, <1>8, <1>9

(* A restart loads what the file says.                                     *)
LEMMA RestartSaved ==
  ASSUME IInv, NEW e \in Environments, Restart(e)
  PROVE  Saved'
<1>1. \A r \in Requests : ~Active(r)'
  BY RestartIInv
<1>2. Load(env, file)' = inner'
  BY DEF Restart
<1>3. QED
  BY <1>1, <1>2 DEF Saved, Active

(* post_settings persists before it stores: with no request under way and  *)
(* none failed or overlapping since the start, a restart changes nothing,  *)
(* for any bodies, files, environments and number of requests.             *)
THEOREM ReloadIsTheSame == Spec => []ReloadGivesTheSame
<1>1. Init => Saved
  BY DEF Init, Saved, Active
<1>2. IInv /\ Saved /\ [Next]_vars => Saved'
  <2> SUFFICES ASSUME IInv, Saved, [Next]_vars PROVE Saved'
    OBVIOUS
  <2>1. CASE Next
    BY <2>1, NextCases, HandlerSaved, RestartSaved
  <2>2. CASE UNCHANGED vars
    BY <2>2 DEF vars, Saved, InTurn, Active
  <2>3. QED
    BY <2>1, <2>2
<1>3. Saved => ReloadGivesTheSame
  BY DEF Saved, InTurn, ReloadGivesTheSame, AllSaved, Active
<1>4. QED
  BY SettingsInv, <1>1, <1>2, <1>3, PTL DEF Spec

=============================================================================
