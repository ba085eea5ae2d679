---------------------------- MODULE HeadlessSync ----------------------------
(***************************************************************************)
(* The headless-sync plugin (server/src/headless_sync.rs): an account      *)
(* token and one sync state per vault, each behind a lock of its own and   *)
(* in a file of its own, and the status messages it sends over the channel *)
(* hub (server/src/plugins.rs) to the /ws sessions (server/src/ws.rs) that *)
(* subscribed to its channel.                                              *)
(*                                                                         *)
(* Handlers run in parallel.  An update of the token or of the states      *)
(* takes the write lock for one step.  Persisting takes the read lock,     *)
(* serialises, truncates the file, writes it and releases the lock, so a   *)
(* handler inside a write keeps updates out but not other persists.        *)
(***************************************************************************)
EXTENDS Naturals, Sequences

CONSTANTS
  Vaults,       \* vault ids
  Remotes,      \* remote vaults a vault can be linked to
  Tokens,       \* account tokens
  Requests,     \* requests, each handled once
  Clients,      \* /ws connections
  None,         \* no token, no sync state, no file, no vault
  Torn,         \* a file that was truncated and not written again
  Capacity,     \* messages a receiver of the hub may be behind
  MaxRestarts   \* bound on the number of restarts

ASSUME NoneAssumption ==
  None \notin Vaults \cup Remotes \cup Tokens /\ Torn \notin Tokens

ASSUME BoundsAssumption == Capacity \in Nat \ {0} /\ MaxRestarts \in Nat

SyncStates == [remote : Remotes, status : {"stopped", "running"}]
StateMaps == [Vaults -> SyncStates \cup {None}]
NoStates == [v \in Vaults |-> None]
ASSUME TornAssumption == {None, Torn} \cap (StateMaps \cup SyncStates) = {}

VARIABLES
  vaults,      \* names in the vault registry
  token,       \* HeadlessSync.token
  tokenFile,   \* token.json
  states,      \* HeadlessSync.states
  statesFile,  \* sync-states.json
  req,         \* request -> operation and its arguments
  pc,          \* request -> next step
  text,        \* request -> what it has serialised and is writing
  reply,       \* request -> the copy of the sync state it reports
  resp,        \* request -> status of its response
  session,     \* connection -> the vault it was opened for
  subscribed,  \* connection -> has it subscribed to the plugin's channel
  bus,         \* connection -> hub messages its receiver has not read
  heard,       \* connection -> last sync state sent to it since it subscribed
  lagged,      \* connection -> its receiver was overrun
  restarts,    \* number of restarts so far
  unsaved,     \* history: files that could not be written when last persisted
  met,         \* history: vaults on which two requests were under way at once
  forgotten    \* history: requests answered before a restart that found no
               \* whole file of the states

tokenVars == <<token, tokenFile>>
stateVars == <<states, statesFile>>
requestVars == <<req, pc, text, reply, resp>>
wsVars == <<session, subscribed, bus, heard, lagged>>
history == <<unsaved, met, forgotten>>
vars == <<vaults, tokenVars, stateVars, requestVars, wsVars, restarts, history>>

VaultOps == {"setup", "start", "stop", "unlink"}
Ops == VaultOps \cup {"login", "logout", "create_remote_vault", "remote_vaults"}
(* vault, remote (to link to, or to create) or token is None where the     *)
(* operation has no such argument or the request leaves it out.            *)
Calls == {c \in [op : Ops, vault : Vaults \cup {None}, remote : Remotes \cup {None},
                 token : Tokens \cup {None}] :
            /\ c.op \notin VaultOps => c.vault = None
            /\ c.op \notin {"setup", "create_remote_vault"} => c.remote = None
            /\ c.op # "login" => c.token = None}
ASSUME CallsAssumption == None \notin Calls
Steps == {"new", "check_auth", "check_vault", "cli", "insert", "set_status",
          "remove", "persist_states", "write_states", "broadcast",
          "set_token", "persist_token", "write_token", "done"}
Statuses == {"none", "200", "400", "401", "404", "500", "lost"}
Messages == [vault : Vaults, state : SyncStates]

TypeOK ==
  /\ vaults \subseteq Vaults
  /\ token \in Tokens \cup {None}
  /\ tokenFile \in Tokens \cup {None, Torn}
  /\ states \in StateMaps
  /\ statesFile \in StateMaps \cup {None, Torn}
  /\ req \in [Requests -> Calls \cup {None}]
  /\ pc \in [Requests -> Steps]
  /\ text \in [Requests -> StateMaps \cup Tokens \cup {None}]
  /\ reply \in [Requests -> SyncStates \cup {None}]
  /\ resp \in [Requests -> Statuses]
  /\ session \in [Clients -> Vaults \cup {None}]
  /\ subscribed \in [Clients -> BOOLEAN]
  /\ bus \in [Clients -> Seq(Messages)]
  /\ \A c \in Clients : Len(bus[c]) <= Capacity
  /\ heard \in [Clients -> SyncStates \cup {None}]
  /\ lagged \in [Clients -> BOOLEAN]
  /\ restarts \in 0..MaxRestarts
  /\ unsaved \subseteq {"token", "states"}
  /\ met \subseteq Vaults
  /\ forgotten \subseteq Requests

(* new: what the files say; one that is missing or does not parse counts   *)
(* as no token or no states.                                               *)
ReadToken(file) == IF file = Torn THEN None ELSE file

(* Mutant: no unwrap_or_default for a missing file.                        *)
ReadStatesRaw(file) == IF file = Torn THEN NoStates ELSE file

ReadStates(file) == IF file \in {None, Torn} THEN NoStates ELSE file

Init ==
  /\ vaults \in SUBSET Vaults
  /\ tokenFile \in Tokens \cup {None, Torn} /\ token = ReadToken(tokenFile)
  /\ statesFile \in StateMaps \cup {None, Torn} /\ states = ReadStates(statesFile)
  /\ req = [r \in Requests |-> None]
  /\ pc = [r \in Requests |-> "new"]
  /\ text = [r \in Requests |-> None]
  /\ reply = [r \in Requests |-> None]
  /\ resp = [r \in Requests |-> "none"]
  /\ session = [c \in Clients |-> None]
  /\ subscribed = [c \in Clients |-> FALSE]
  /\ bus = [c \in Clients |-> <<>>]
  /\ heard = [c \in Clients |-> None]
  /\ lagged = [c \in Clients |-> FALSE]
  /\ restarts = 0
  /\ unsaved = {} /\ met = {} /\ forgotten = {}

-----------------------------------------------------------------------------
Active(r) == pc[r] \notin {"new", "done"}
At(step) == {r \in Requests : pc[r] = step}
Busy(v) == \E r \in Requests : Active(r) /\ req[r].vault = v

(* The arguments a request may not leave out.                              *)
Complete(call) ==
  /\ call.op \in VaultOps => call.vault # None
  /\ call.op \in {"setup", "create_remote_vault"} => call.remote # None
  /\ call.op = "login" => call.token # None

Entry(op) ==
  CASE op \in {"login", "logout"} -> "set_token"
    [] op \in {"start", "stop"}   -> "set_status"
    [] op = "unlink"              -> "remove"
    [] op \in {"setup", "create_remote_vault", "remote_vaults"} -> "check_auth"

Goto(r, step) == pc' = [pc EXCEPT ![r] = step] /\ UNCHANGED resp
Respond(r, status) ==
  /\ pc' = [pc EXCEPT ![r] = "done"]
  /\ resp' = [resp EXCEPT ![r] = status]

Arrive(r, call) ==
  /\ pc[r] = "new"
  /\ req' = [req EXCEPT ![r] = call]
  /\ IF Complete(call) THEN Goto(r, Entry(call.op)) ELSE Respond(r, "400")
  /\ met' = met \cup {v \in Vaults : call.vault = v /\ Busy(v)}
  /\ UNCHANGED <<vaults, tokenVars, stateVars, text, reply, wsVars, restarts,
                 unsaved, forgotten>>

(* setup, create_remote_vault and remote_vaults need a token ...           *)
CheckAuth(r) ==
  /\ pc[r] = "check_auth"
  /\ IF token = None THEN Respond(r, "401")
     ELSE Goto(r, IF req[r].op = "setup" THEN "check_vault" ELSE "cli")
  /\ UNCHANGED <<vaults, tokenVars, stateVars, req, text, reply, wsVars, restarts, history>>

(* ... setup also a registered vault ...                                   *)
CheckVault(r) ==
  /\ pc[r] = "check_vault"
  /\ IF req[r].vault \in vaults THEN Goto(r, "cli") ELSE Respond(r, "404")
  /\ UNCHANGED <<vaults, tokenVars, stateVars, req, text, reply, wsVars, restarts, history>>

(* ... and then run the ob command.  Only a failure to start it counts: its *)
(* exit code is not looked at.                                             *)
RunCli(r) ==
  /\ pc[r] = "cli"
  /\ \/ Respond(r, "500")
     \/ IF req[r].op = "setup" THEN Goto(r, "insert") ELSE Respond(r, "200")
  /\ UNCHANGED <<vaults, tokenVars, stateVars, req, text, reply, wsVars, restarts, history>>

(* Mutant: persist_states serialises under the lock but writes without it. *)
StatesNeverLocked == TRUE

(* Writers of the states wait for the read locks of persist_states.        *)
StatesUnlocked == At("write_states") = {}

UpdateState(r, new) ==
  /\ states' = [states EXCEPT ![req[r].vault] = new]
  /\ reply' = [reply EXCEPT ![r] = new]
  /\ Goto(r, "persist_states")

(* Mutant: setup forgets to persist.                                       *)
InsertStateUnsaved(r) ==
  LET new == [remote |-> req[r].remote, status |-> "stopped"] IN
  /\ pc[r] = "insert"
  /\ StatesUnlocked
  /\ states' = [states EXCEPT ![req[r].vault] = new]
  /\ reply' = [reply EXCEPT ![r] = new]
  /\ Goto(r, "broadcast")
  /\ UNCHANGED <<vaults, tokenVars, statesFile, req, text, wsVars, restarts, history>>

(* setup, whatever has become of the token and of the vault by now.        *)
InsertState(r) ==
  /\ pc[r] = "insert"
  /\ StatesUnlocked
  /\ UpdateState(r, [remote |-> req[r].remote, status |-> "stopped"])
  /\ UNCHANGED <<vaults, tokenVars, statesFile, req, text, wsVars, restarts, history>>

(* set_status, for start and stop.                                         *)
SetStatus(r) ==
  LET old == states[req[r].vault]
      status == IF req[r].op = "start" THEN "running" ELSE "stopped" IN
  /\ pc[r] = "set_status"
  /\ StatesUnlocked
  /\ \/ old = None /\ Respond(r, "404") /\ UNCHANGED <<states, reply>>
     \/ old # None /\ UpdateState(r, [old EXCEPT !.status = status])
  /\ UNCHANGED <<vaults, tokenVars, statesFile, req, text, wsVars, restarts, history>>

RemoveState(r) ==
  /\ pc[r] = "remove"
  /\ StatesUnlocked
  /\ UpdateState(r, None)
  /\ UNCHANGED <<vaults, tokenVars, statesFile, req, text, wsVars, restarts, history>>

(* unlink reports nothing on the channel.                                  *)
AfterPersist(r) ==
  IF req[r].op = "unlink" THEN Respond(r, "200") ELSE Goto(r, "broadcast")

(* The answer is the same whether a file could be written or not.          *)
Wrote(file) == unsaved' = unsaved \ {file} /\ UNCHANGED <<met, forgotten>>
Failed(file) == unsaved' = unsaved \cup {file} /\ UNCHANGED <<met, forgotten>>

(* persist_states: lock, serialise and truncate, then write and unlock.  A *)
(* failure is ignored, at the opening or at the writing of the file.       *)
OpenStates(r) ==
  /\ pc[r] = "persist_states"
  /\ \/ /\ Goto(r, "write_states")
        /\ text' = [text EXCEPT ![r] = states]
        /\ statesFile' = Torn
        /\ UNCHANGED history
     \/ AfterPersist(r) /\ Failed("states") /\ UNCHANGED <<text, statesFile>>
  /\ UNCHANGED <<vaults, tokenVars, states, req, reply, wsVars, restarts>>

WriteStates(r) ==
  /\ pc[r] = "write_states"
  /\ \/ statesFile' = text[r] /\ Wrote("states")
     \/ UNCHANGED statesFile /\ Failed("states")
  /\ text' = [text EXCEPT ![r] = None]
  /\ AfterPersist(r)
  /\ UNCHANGED <<vaults, tokenVars, states, req, reply, wsVars, restarts>>

(* The hub (external: tokio) keeps the last Capacity messages for every    *)
(* receiver, whatever channel or vault they are for.                       *)
Overrun(s) == Len(s) > Capacity
Newest(s) == IF Overrun(s) THEN SubSeq(s, Len(s) - Capacity + 1, Len(s)) ELSE s

BroadcastStatus(r) ==
  LET message == [vault |-> req[r].vault, state |-> reply[r]]
      behind(c) == IF session[c] = None THEN <<>> ELSE Append(bus[c], message) IN
  /\ pc[r] = "broadcast"
  /\ bus' = [c \in Clients |-> Newest(behind(c))]
  /\ lagged' = [c \in Clients |-> lagged[c] \/ Overrun(behind(c))]
  /\ Respond(r, "200")
  /\ UNCHANGED <<vaults, tokenVars, stateVars, req, text, reply, session,
                 subscribed, heard, restarts, history>>

(* login and logout, with the lock of the token.                           *)
SetToken(r) ==
  /\ pc[r] = "set_token"
  /\ At("write_token") = {}
  /\ token' = req[r].token
  /\ Goto(r, "persist_token")
  /\ UNCHANGED <<vaults, tokenFile, stateVars, req, text, reply, wsVars, restarts,
                 history>>

(* persist_token: the token of this moment, which may be another request's *)
(* already; without one the file is removed.                               *)
OpenToken(r) ==
  /\ pc[r] = "persist_token"
  /\ \/ /\ token = None
        /\ tokenFile' = None /\ Wrote("token")
        /\ Respond(r, "200") /\ UNCHANGED text
     \/ /\ token # None
        /\ tokenFile' = Torn /\ UNCHANGED history
        /\ Goto(r, "write_token") /\ text' = [text EXCEPT ![r] = token]
     \/ Failed("token") /\ Respond(r, "200") /\ UNCHANGED <<text, tokenFile>>
  /\ UNCHANGED <<vaults, token, stateVars, req, reply, wsVars, restarts>>

WriteToken(r) ==
  /\ pc[r] = "write_token"
  /\ \/ tokenFile' = text[r] /\ Wrote("token")
     \/ UNCHANGED tokenFile /\ Failed("token")
  /\ text' = [text EXCEPT ![r] = None]
  /\ Respond(r, "200")
  /\ UNCHANGED <<vaults, token, stateVars, req, reply, wsVars, restarts>>

Handler(r) ==
  \/ CheckAuth(r) \/ CheckVault(r) \/ RunCli(r)
  \/ InsertState(r) \/ SetStatus(r) \/ RemoveState(r)
  \/ OpenStates(r) \/ WriteStates(r) \/ BroadcastStatus(r)
  \/ SetToken(r) \/ OpenToken(r) \/ WriteToken(r)

-----------------------------------------------------------------------------
(* The /ws sessions.                                                       *)
Connect(c, v) ==
  /\ session[c] = None
  /\ v \in vaults
  /\ session' = [session EXCEPT ![c] = v]
  /\ UNCHANGED <<vaults, tokenVars, stateVars, requestVars, subscribed, bus, heard,
                 lagged, restarts, history>>

(* handle_control: subscribe-channel and unsubscribe-channel.              *)
SetSubscribed(c, on) ==
  /\ session[c] # None
  /\ subscribed' = [subscribed EXCEPT ![c] = on]
  /\ heard' = IF on THEN heard ELSE [heard EXCEPT ![c] = None]
  /\ UNCHANGED <<vaults, tokenVars, stateVars, requestVars, session, bus, lagged,
                 restarts, history>>

(* Mutant: the session's vault is not compared with the message's.         *)
ForwardAnyVault(c) ==
  LET m == Head(bus[c]) IN
  /\ bus[c] # <<>>
  /\ bus' = [bus EXCEPT ![c] = Tail(@)]
  /\ heard' = IF subscribed[c] THEN [heard EXCEPT ![c] = m.state] ELSE heard
  /\ UNCHANGED <<vaults, tokenVars, stateVars, requestVars, session, subscribed,
                 lagged, restarts, history>>

(* serve_socket's channel branch: a message is forwarded if it is for the  *)
(* session's vault and the session is subscribed when it is read.          *)
ForwardMessage(c) ==
  LET m == Head(bus[c]) IN
  /\ bus[c] # <<>>
  /\ bus' = [bus EXCEPT ![c] = Tail(@)]
  /\ heard' = IF m.vault = session[c] /\ subscribed[c]
              THEN [heard EXCEPT ![c] = m.state] ELSE heard
  /\ UNCHANGED <<vaults, tokenVars, stateVars, requestVars, session, subscribed,
                 lagged, restarts, history>>

Disconnect(c) ==
  /\ session[c] # None
  /\ session' = [session EXCEPT ![c] = None]
  /\ subscribed' = [subscribed EXCEPT ![c] = FALSE]
  /\ bus' = [bus EXCEPT ![c] = <<>>]
  /\ heard' = [heard EXCEPT ![c] = None]
  /\ lagged' = [lagged EXCEPT ![c] = FALSE]
  /\ UNCHANGED <<vaults, tokenVars, stateVars, requestVars, restarts, history>>

Session(c) ==
  \/ \E v \in Vaults : Connect(c, v)
  \/ \E on \in BOOLEAN : SetSubscribed(c, on)
  \/ ForwardMessage(c)
  \/ Disconnect(c)

(* The vault routes add and remove vaults; nobody tells the plugin.        *)
ChangeVaults(v) ==
  /\ vaults' = IF v \in vaults THEN vaults \ {v} ELSE vaults \cup {v}
  /\ UNCHANGED <<tokenVars, stateVars, requestVars, wsVars, restarts, history>>

(* Is the file of the states whole, and of this moment?  Not while it is   *)
(* written, nor after it could not be.                                     *)
StatesSaved == At("write_states") = {} /\ "states" \notin unsaved

(* The process stops, wherever its handlers are, and starts again from the *)
(* files.                                                                  *)
Restart ==
  /\ restarts < MaxRestarts
  /\ restarts' = restarts + 1
  /\ token' = ReadToken(tokenFile)
  /\ states' = ReadStates(statesFile)
  /\ pc' = [r \in Requests |-> IF Active(r) THEN "done" ELSE pc[r]]
  /\ resp' = [r \in Requests |-> IF Active(r) THEN "lost" ELSE resp[r]]
  /\ text' = [r \in Requests |-> None]
  /\ session' = [c \in Clients |-> None]
  /\ subscribed' = [c \in Clients |-> FALSE]
  /\ bus' = [c \in Clients |-> <<>>]
  /\ heard' = [c \in Clients |-> None]
  /\ lagged' = [c \in Clients |-> FALSE]
  /\ unsaved' = {} /\ met' = {}
  /\ forgotten' = IF StatesSaved THEN forgotten
                  ELSE forgotten \cup {r \in Requests : resp[r] = "200"}
  /\ UNCHANGED <<vaults, tokenFile, statesFile, req, reply>>

Next ==
  \/ \E r \in Requests : (\E call \in Calls : Arrive(r, call)) \/ Handler(r)
  \/ \E c \in Clients : Session(c)
  \/ \E v \in Vaults : ChangeVaults(v)
  \/ Restart

Spec == Init /\ [][Next]_vars

-----------------------------------------------------------------------------
(* persist_token, persist_states: in whatever order requests update and    *)
(* persist, once none is between the two and the last write did not fail,  *)
(* the file holds what the plugin has in memory, so that a restart then    *)
(* changes nothing; a failed write is made up for by the next that works.  *)
FilesFollowMemory ==
  /\ At("persist_states") \cup At("write_states") = {} /\ "states" \notin unsaved
       => ReadStates(statesFile) = states
  /\ At("persist_token") \cup At("write_token") = {} /\ "token" \notin unsaved
       => ReadToken(tokenFile) = token

(* setup's answer, and "persists ... per-vault sync state": the state of a *)
(* vault whose setup was acknowledged, and that nobody asked to unlink, is *)
(* there, across restarts that may come at any step of any request.  Only  *)
(* a restart that finds the file truncated by a persist under way, or left *)
(* behind by one that failed, may forget what was acknowledged before it:  *)
(* the plugin keeps one copy of the file and truncates it to rewrite it.   *)
AckedSetupsSurvive ==
  \A r \in Requests \ forgotten :
    (req[r] # None /\ req[r].op = "setup" /\ resp[r] = "200")
      => \/ states[req[r].vault] # None
         \/ \E s \in Requests : req[s] # None /\ req[s].op = "unlink" /\ req[s].vault = req[r].vault

(* "broadcasts sync-status": once nothing is under way on its vault, and   *)
(* unless two requests on the vault ever were at once, the last status a   *)
(* subscribed session was sent is the vault's status.  A vault that was    *)
(* unlinked has none.                                                      *)
UpToDate(c) == heard[c] = None \/ states[session[c]] \in {None, heard[c]}

ShownStatusIsCurrent ==
  \A c \in Clients :
    (~Busy(session[c]) /\ session[c] \notin met /\ bus[c] = <<>> /\ ~lagged[c]) => UpToDate(c)

=============================================================================
