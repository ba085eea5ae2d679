------------------------- MODULE HeadlessSyncProofs -------------------------
(***************************************************************************)
(* What the headless-sync plugin promises, for any number of vaults,       *)
(* requests and sessions: its files follow its memory, an acknowledged     *)
(* setup survives, and the status a session was last sent is the vault's   *)
(* status.                                                                 *)
(***************************************************************************)
EXTENDS HeadlessSync, TLAPS

(* What a handler is writing is what memory holds: the read lock it keeps  *)
(* while it writes shuts out every update.                                 *)
WrittenIsCurrent ==
  \A r \in Requests :
    /\ pc[r] = "write_states" => text[r] = states
    /\ pc[r] = "write_token" => text[r] = token

IInv == TypeOK /\ WrittenIsCurrent

(* A request at a step is one of those the step is for, with the arguments *)
(* it needs, and has a sync state to report once it has stored one.        *)
StepsFit ==
  \A r \in Requests :
    /\ Active(r) => req[r] \in Calls /\ Complete(req[r])
    /\ pc[r] \in {"check_vault", "insert"} => req[r].op = "setup"
    /\ pc[r] \in {"set_status", "remove", "persist_states", "write_states", "broadcast"}
         => req[r].op \in VaultOps
    /\ pc[r] \in {"persist_states", "write_states"} /\ req[r].op # "unlink"
         => reply[r] \in SyncStates
    /\ pc[r] = "remove" => req[r].op = "unlink"
    /\ pc[r] = "broadcast" => reply[r] \in SyncStates

USE NoneAssumption, BoundsAssumption, TornAssumption

(* The ring keeps at most Capacity messages, all of them messages it was   *)
(* given.                                                                  *)
LEMMA NewestType ==
  ASSUME NEW s \in Seq(Messages)
  PROVE  Newest(s) \in Seq(Messages) /\ Len(Newest(s)) <= Capacity
BY DEF Newest, Overrun

(* What load reads has the type of what is in memory.                      *)
LEMMA ReadType ==
  /\ \A f \in Tokens \cup {None, Torn} : ReadToken(f) \in Tokens \cup {None}
  /\ \A f \in StateMaps \cup {None, Torn} : ReadStates(f) \in StateMaps
<1>1. NoStates \in StateMaps
  BY DEF NoStates, StateMaps
<1>2. QED
  BY <1>1 DEF ReadToken, ReadStates

(* A handler goes to a step it has, or answers with a status it has.       *)
LEMMA MoveType ==
  ASSUME NEW r \in Requests, pc \in [Requests -> Steps], resp \in [Requests -> Statuses],
         \/ \E step \in {"check_vault", "cli", "insert", "write_states", "broadcast"} : Goto(r, step)
         \/ \E status \in {"200", "401", "404", "500"} : Respond(r, status)
  PROVE  pc' \in [Requests -> Steps] /\ resp' \in [Requests -> Statuses]
<1>1. ASSUME NEW step \in {"check_vault", "cli", "insert", "write_states", "broadcast"}, Goto(r, step)
      PROVE  pc' \in [Requests -> Steps] /\ resp' \in [Requests -> Statuses]
  <2>1. step \in Steps
    BY DEF Steps
  <2>2. QED
    BY <1>1, <2>1 DEF Goto
<1>2. ASSUME NEW status \in {"200", "401", "404", "500"}, Respond(r, status)
      PROVE  pc' \in [Requests -> Steps] /\ resp' \in [Requests -> Statuses]
  <2>1. status \in Statuses /\ "done" \in Steps
    BY DEF Steps, Statuses
  <2>2. QED
    BY <1>2, <2>1 DEF Respond
<1>3. QED
  BY <1>1, <1>2

(* The plugin starts with nothing being written.                           *)
LEMMA InitIInv == Init => IInv
<1> SUFFICES ASSUME Init PROVE IInv
  OBVIOUS
<1>1. token \in Tokens \cup {None} /\ states \in StateMaps
  BY ReadType DEF Init
<1>2. \A c \in Clients : bus[c] = <<>> /\ Len(bus[c]) = 0
  BY DEF Init
<1>a. bus \in [Clients -> Seq(Messages)]
  BY DEF Init
<1>b. TypeOK
  BY <1>1, <1>2, <1>a DEF Init, TypeOK, Steps, Statuses
<1>3. QED
  BY <1>b DEF Init, IInv, WrittenIsCurrent

(* A new request, complete or refused with 400, writes nothing yet.        *)
LEMMA ArriveIInv ==
  ASSUME IInv, NEW r \in Requests, NEW call \in Calls, Arrive(r, call) PROVE IInv'
<1>1. Entry(call.op) \in Steps
  BY DEF Entry, Steps, Calls, Ops, VaultOps
<1>a. "done" \in Steps /\ "400" \in Statuses
  BY DEF Steps, Statuses
<1>2. pc' \in [Requests -> Steps] /\ resp' \in [Requests -> Statuses]
  <2>1. CASE Complete(call)
    <3>1. pc' = [pc EXCEPT ![r] = Entry(call.op)] /\ resp' = resp
      BY <2>1 DEF Arrive, Goto
    <3>2. QED
      BY <1>1, <3>1 DEF IInv, TypeOK
  <2>2. CASE ~Complete(call)
    <3>1. pc' = [pc EXCEPT ![r] = "done"] /\ resp' = [resp EXCEPT ![r] = "400"]
      BY <2>2 DEF Arrive, Respond
    <3>2. QED
      BY <1>a, <3>1 DEF IInv, TypeOK
  <2>3. QED
    BY <2>1, <2>2
<1>b. req' \in [Requests -> Calls \cup {None}]
  BY DEF IInv, TypeOK, Arrive
<1>3. TypeOK'
  BY <1>2, <1>b DEF IInv, TypeOK, Arrive, tokenVars, history, stateVars, wsVars
<1>4. WrittenIsCurrent'
  BY DEF IInv, TypeOK, WrittenIsCurrent, Arrive, Goto, Respond, Entry, Calls, Ops, VaultOps,
         tokenVars, history, stateVars
<1>5. QED
  BY <1>3, <1>4 DEF IInv

(* The checks of setup, create_remote_vault and remote_vaults and the run  *)
(* of the ob command leave token, states and files alone.                  *)
LEMMA CheckIInv ==
  ASSUME IInv, NEW r \in Requests, CheckAuth(r) \/ CheckVault(r) \/ RunCli(r) PROVE IInv'
<1>1. pc' \in [Requests -> Steps] /\ resp' \in [Requests -> Statuses]
  <2>1. \/ \E step \in {"check_vault", "cli", "insert"} : Goto(r, step)
        \/ \E status \in {"200", "401", "404", "500"} : Respond(r, status)
    BY DEF CheckAuth, CheckVault, RunCli
  <2>2. QED
    BY <2>1, MoveType DEF IInv, TypeOK
<1>2. TypeOK'
  BY <1>1 DEF IInv, TypeOK, CheckAuth, CheckVault, RunCli, tokenVars, history, stateVars, wsVars
<1>3. WrittenIsCurrent'
  BY DEF IInv, TypeOK, WrittenIsCurrent, CheckAuth, CheckVault, RunCli, Goto, Respond, tokenVars, history, stateVars
<1>4. QED
  BY <1>2, <1>3 DEF IInv

(* An update of the states under the write lock: no handler is inside      *)
(* persist_states, so none has serialised the old states.                  *)
LEMMA UpdateIInv ==
  ASSUME IInv, NEW r \in Requests, NEW new \in SyncStates \cup {None},
         StatesUnlocked, req[r].vault \in Vaults, UpdateState(r, new),
         UNCHANGED <<vaults, tokenVars, statesFile, req, text, wsVars, restarts, history>>
  PROVE  IInv'
<1>1. states' \in StateMaps /\ reply' \in [Requests -> SyncStates \cup {None}]
  BY DEF IInv, TypeOK, UpdateState, StateMaps
<1>2. pc' \in [Requests -> Steps] /\ resp' \in [Requests -> Statuses]
  BY DEF IInv, TypeOK, UpdateState, Goto, Steps
<1>3. TypeOK'
  BY <1>1, <1>2 DEF IInv, TypeOK, tokenVars, history, wsVars
<1>4. WrittenIsCurrent'
  BY DEF IInv, TypeOK, WrittenIsCurrent, StatesUnlocked, At, UpdateState, Goto, tokenVars, history
<1>5. QED
  BY <1>3, <1>4 DEF IInv

(* setup stores a stopped state.                                           *)
LEMMA SetupIInv ==
  ASSUME IInv, NEW r \in Requests, req[r].vault \in Vaults, req[r].remote \in Remotes, InsertState(r)
  PROVE  IInv'
<1>1. [remote |-> req[r].remote, status |-> "stopped"] \in SyncStates
  BY DEF SyncStates
<1>2. QED
  BY <1>1, UpdateIInv DEF InsertState

(* start and stop change the status of a state that is there, or answer    *)
(* 404.                                                                    *)
LEMMA SetStatusIInv ==
  ASSUME IInv, NEW r \in Requests, req[r].vault \in Vaults, SetStatus(r)
  PROVE  IInv'
<1> DEFINE old == states[req[r].vault]
           new == [old EXCEPT !.status = IF req[r].op = "start" THEN "running" ELSE "stopped"]
<1>1. old \in SyncStates \cup {None}
  BY DEF IInv, TypeOK, StateMaps
<1>2. CASE old = None
  <2>1. pc' \in [Requests -> Steps] /\ resp' \in [Requests -> Statuses]
    BY <1>2 DEF IInv, TypeOK, SetStatus, Respond, Steps, Statuses
  <2>2. TypeOK'
    BY <2>1, <1>2 DEF IInv, TypeOK, SetStatus, tokenVars, history, wsVars
  <2>3. WrittenIsCurrent'
    BY <1>2 DEF IInv, TypeOK, WrittenIsCurrent, SetStatus, Respond, tokenVars, history
  <2>4. QED
    BY <2>2, <2>3 DEF IInv
<1>3. CASE old # None
  <2>1. new \in SyncStates
    BY <1>1, <1>3 DEF SyncStates
  <2>2. UpdateState(r, new)
    BY <1>3 DEF SetStatus
  <2>3. QED
    BY <2>1, <2>2, UpdateIInv DEF SetStatus
<1>4. QED
  BY <1>2, <1>3

(* unlink drops the state.                                                 *)
LEMMA RemoveIInv ==
  ASSUME IInv, NEW r \in Requests, req[r].vault \in Vaults, RemoveState(r) PROVE IInv'
BY UpdateIInv DEF RemoveState

(* persist_states serialises the states of this moment, and they stay      *)
(* until it has written them.                                              *)
LEMMA PersistStatesIInv ==
  ASSUME IInv, NEW r \in Requests, OpenStates(r) \/ WriteStates(r) PROVE IInv'
<1>1. pc' \in [Requests -> Steps] /\ resp' \in [Requests -> Statuses]
  <2>1. Goto(r, "write_states") \/ Goto(r, "broadcast") \/ Respond(r, "200")
    BY DEF OpenStates, WriteStates, AfterPersist
  <2>2. QED
    BY <2>1, MoveType DEF IInv, TypeOK
<1>2. text' \in [Requests -> StateMaps \cup Tokens \cup {None}]
  BY DEF IInv, TypeOK, OpenStates, WriteStates
<1>3. statesFile' \in StateMaps \cup {None, Torn}
  BY DEF IInv, TypeOK, WrittenIsCurrent, OpenStates, WriteStates
<1>4. TypeOK'
  BY <1>1, <1>2, <1>3 DEF IInv, TypeOK, OpenStates, WriteStates, Wrote, Failed,
                             tokenVars, history, wsVars
<1>5. WrittenIsCurrent'
  <2>1. CASE OpenStates(r)
    BY <2>1 DEF IInv, TypeOK, WrittenIsCurrent, OpenStates, AfterPersist, Goto, Respond, tokenVars, history
  <2>2. CASE WriteStates(r)
    BY <2>2 DEF IInv, TypeOK, WrittenIsCurrent, WriteStates, AfterPersist, Goto, Respond, tokenVars, history
  <2>3. QED
    BY <2>1, <2>2
<1>6. QED
  BY <1>4, <1>5 DEF IInv

(* broadcast_status appends to the receivers' rings and to nothing else.   *)
LEMMA BroadcastIInv ==
  ASSUME IInv, NEW r \in Requests, req[r].vault \in Vaults, reply[r] \in SyncStates, BroadcastStatus(r)
  PROVE  IInv'
<1> DEFINE message == [vault |-> req[r].vault, state |-> reply[r]]
           behind(c) == IF session[c] = None THEN <<>> ELSE Append(bus[c], message)
<1>1. message \in Messages
  BY DEF Messages
<1>2. \A c \in Clients : behind(c) \in Seq(Messages)
  BY <1>1 DEF IInv, TypeOK
<1>3. \A c \in Clients : Newest(behind(c)) \in Seq(Messages) /\ Len(Newest(behind(c))) <= Capacity
  BY <1>2, NewestType
<1>4. bus' = [c \in Clients |-> Newest(behind(c))]
  BY DEF BroadcastStatus
<1>5. bus' \in [Clients -> Seq(Messages)] /\ \A c \in Clients : Len(bus'[c]) <= Capacity
  BY <1>3, <1>4
<1>6. lagged' \in [Clients -> BOOLEAN]
  BY DEF IInv, TypeOK, BroadcastStatus, Overrun
<1>7. pc' \in [Requests -> Steps] /\ resp' \in [Requests -> Statuses]
  BY DEF IInv, TypeOK, BroadcastStatus, Respond, Steps, Statuses
<1>8. TypeOK'
  BY <1>5, <1>6, <1>7 DEF IInv, TypeOK, BroadcastStatus, tokenVars, history, stateVars
<1>9. WrittenIsCurrent'
  BY DEF IInv, TypeOK, WrittenIsCurrent, BroadcastStatus, Respond, tokenVars, history, stateVars
<1>10. QED
  BY <1>8, <1>9 DEF IInv

(* login, logout and persist_token: the same argument with the token's     *)
(* lock.                                                                   *)
LEMMA TokenIInv ==
  ASSUME IInv, NEW r \in Requests, req[r] \in Calls, SetToken(r) \/ OpenToken(r) \/ WriteToken(r)
  PROVE  IInv'
<1>1. pc' \in [Requests -> Steps] /\ resp' \in [Requests -> Statuses]
  BY DEF IInv, TypeOK, SetToken, OpenToken, WriteToken, Goto, Respond, Steps, Statuses
<1>2. text' \in [Requests -> StateMaps \cup Tokens \cup {None}]
  BY DEF IInv, TypeOK, SetToken, OpenToken, WriteToken
<1>3. token' \in Tokens \cup {None} /\ tokenFile' \in Tokens \cup {None, Torn}
  BY DEF IInv, TypeOK, WrittenIsCurrent, SetToken, OpenToken, WriteToken, Calls
<1>4. TypeOK'
  BY <1>1, <1>2, <1>3 DEF IInv, TypeOK, SetToken, OpenToken, WriteToken, stateVars, wsVars,
                             Wrote, Failed, history
<1>5. WrittenIsCurrent'
  BY DEF IInv, TypeOK, WrittenIsCurrent, SetToken, OpenToken, WriteToken, At, Goto, Respond, stateVars
<1>6. QED
  BY <1>4, <1>5 DEF IInv

(* The /ws sessions only touch their own state.                            *)
LEMMA SessionIInv ==
  ASSUME IInv, NEW c \in Clients, Session(c) PROVE IInv'
<1>1. WrittenIsCurrent'
  BY DEF IInv, WrittenIsCurrent, Session, Connect, SetSubscribed, ForwardMessage, Disconnect,
         tokenVars, history, stateVars, requestVars
<1>2. CASE \E v \in Vaults : Connect(c, v)
  BY <1>1, <1>2 DEF IInv, TypeOK, Connect, tokenVars, history, stateVars, requestVars
<1>3. CASE \E on \in BOOLEAN : SetSubscribed(c, on)
  BY <1>1, <1>3 DEF IInv, TypeOK, SetSubscribed, tokenVars, history, stateVars, requestVars
<1>4. CASE ForwardMessage(c)
  <2>1. bus[c] \in Seq(Messages) /\ bus[c] # <<>> /\ Len(bus[c]) <= Capacity
    BY <1>4 DEF IInv, TypeOK, ForwardMessage
  <2>2. Tail(bus[c]) \in Seq(Messages) /\ Len(Tail(bus[c])) <= Capacity
    BY <2>1
  <2>3. Head(bus[c]) \in Messages
    BY <2>1
  <2>4. bus' \in [Clients -> Seq(Messages)] /\ \A d \in Clients : Len(bus'[d]) <= Capacity
    BY <1>4, <2>2 DEF IInv, TypeOK, ForwardMessage
  <2>5. heard' \in [Clients -> SyncStates \cup {None}]
    BY <1>4, <2>3 DEF IInv, TypeOK, ForwardMessage, Messages
  <2>6. QED
    BY <1>1, <1>4, <2>4, <2>5 DEF IInv, TypeOK, ForwardMessage, tokenVars, history, stateVars, requestVars
<1>5. CASE Disconnect(c)
  <2>1. bus' \in [Clients -> Seq(Messages)] /\ \A d \in Clients : Len(bus'[d]) <= Capacity
    BY <1>5 DEF IInv, TypeOK, Disconnect
  <2>2. QED
    BY <1>1, <1>5, <2>1 DEF IInv, TypeOK, Disconnect, tokenVars, history, stateVars, requestVars
<1>6. QED
  BY <1>2, <1>3, <1>4, <1>5 DEF Session

(* A restart ends every handler and loads values of the right type.        *)
LEMMA RestartIInv ==
  ASSUME IInv, Restart PROVE IInv'
<1>1. token' \in Tokens \cup {None} /\ states' \in StateMaps
  BY ReadType DEF IInv, TypeOK, Restart
<1>2. pc' \in [Requests -> Steps] /\ resp' \in [Requests -> Statuses]
  BY DEF IInv, TypeOK, Restart, Steps, Statuses
<1>3. bus' \in [Clients -> Seq(Messages)] /\ \A d \in Clients : Len(bus'[d]) <= Capacity
  BY DEF Restart
<1>4. restarts' \in 0..MaxRestarts
  BY DEF IInv, TypeOK, Restart
<1>5. TypeOK'
  BY <1>1, <1>2, <1>3, <1>4 DEF IInv, TypeOK, Restart
<1>6. WrittenIsCurrent'
  BY DEF IInv, TypeOK, WrittenIsCurrent, Restart, Active
<1>7. QED
  BY <1>5, <1>6 DEF IInv

(* Every step keeps requests at steps that are meant for them.             *)
LEMMA StepsFitStep ==
  ASSUME IInv, StepsFit, [Next]_vars PROVE StepsFit'
<1>1. ASSUME NEW r \in Requests, NEW call \in Calls, Arrive(r, call) PROVE StepsFit'
  <2>1. CASE Complete(call)
    BY <1>1, <2>1 DEF IInv, TypeOK, StepsFit, Arrive, Goto, Entry, Active, Calls, Ops, VaultOps
  <2>2. CASE ~Complete(call)
    BY <1>1, <2>2 DEF IInv, TypeOK, StepsFit, Arrive, Respond, Active
  <2>3. QED
    BY <2>1, <2>2
<1>2. ASSUME NEW r \in Requests, Handler(r) PROVE StepsFit'
  <2>a. CASE CheckAuth(r)
    <3>1. CASE token = None
      BY <2>a, <3>1 DEF IInv, TypeOK, StepsFit, CheckAuth, Respond, Active
    <3>2. CASE token # None /\ req[r].op = "setup"
      BY <2>a, <3>2 DEF IInv, TypeOK, StepsFit, CheckAuth, Goto, Active
    <3>3. CASE token # None /\ req[r].op # "setup"
      BY <2>a, <3>3 DEF IInv, TypeOK, StepsFit, CheckAuth, Goto, Active
    <3>4. QED
      BY <3>1, <3>2, <3>3
  <2>b. CASE CheckVault(r)
    BY <2>b DEF IInv, TypeOK, StepsFit, CheckVault, Goto, Respond, Active
  <2>c. CASE RunCli(r)
    BY <2>c DEF IInv, TypeOK, StepsFit, RunCli, Goto, Respond, Active
  <2>2. CASE InsertState(r)
    BY <2>2 DEF IInv, TypeOK, StepsFit, InsertState, UpdateState, Goto, Active, VaultOps, SyncStates,
                Calls, Complete
  <2>3. CASE SetStatus(r)
    <3> DEFINE old == states[req[r].vault]
               new == [old EXCEPT !.status = IF req[r].op = "start" THEN "running" ELSE "stopped"]
    <3>1. CASE old = None
      BY <2>3, <3>1 DEF IInv, TypeOK, StepsFit, SetStatus, Respond, Active
    <3>2. CASE old # None
      <4>1. req[r].vault \in Vaults
        BY <2>3 DEF IInv, TypeOK, StepsFit, SetStatus, Active, Complete, Calls
      <4>2. new \in SyncStates
        BY <3>2, <4>1 DEF IInv, TypeOK, StateMaps, SyncStates
      <4>3. UpdateState(r, new)
        BY <2>3, <3>2 DEF SetStatus
      <4>4. QED
        BY <2>3, <4>2, <4>3 DEF IInv, TypeOK, StepsFit, SetStatus, UpdateState, Goto, Active
    <3>3. QED
      BY <3>1, <3>2
  <2>4. CASE RemoveState(r)
    BY <2>4 DEF IInv, TypeOK, StepsFit, RemoveState, UpdateState, Goto, Active
  <2>5. CASE OpenStates(r) \/ WriteStates(r)
    BY <2>5 DEF IInv, TypeOK, StepsFit, OpenStates, WriteStates, AfterPersist, Goto, Respond, Active
  <2>6. CASE BroadcastStatus(r)
    BY <2>6 DEF IInv, TypeOK, StepsFit, BroadcastStatus, Respond, Active
  <2>7. CASE SetToken(r) \/ OpenToken(r) \/ WriteToken(r)
    BY <2>7 DEF IInv, TypeOK, StepsFit, SetToken, OpenToken, WriteToken, Goto, Respond, Active
  <2>8. QED
    BY <1>2, <2>a, <2>b, <2>c, <2>2, <2>3, <2>4, <2>5, <2>6, <2>7 DEF Handler
<1>3. ASSUME NEW c \in Clients, Session(c) PROVE StepsFit'
  BY <1>3 DEF StepsFit, Session, Connect, SetSubscribed, ForwardMessage, Disconnect, requestVars, Active
<1>4. ASSUME NEW v \in Vaults, ChangeVaults(v) PROVE StepsFit'
  BY <1>4 DEF StepsFit, ChangeVaults, requestVars, Active
<1>5. CASE Restart
  BY <1>5 DEF IInv, TypeOK, StepsFit, Restart, Active
<1>6. CASE UNCHANGED vars
  BY <1>6 DEF StepsFit, vars, requestVars, Active
<1>7. QED
  BY <1>1, <1>2, <1>3, <1>4, <1>5, <1>6 DEF Next

(* The inductive invariant: types, what is being written is current, and   *)
(* every request is at a step meant for it.                                *)
THEOREM FilesInv == Spec => [](IInv /\ StepsFit)
<1>1. Init => IInv /\ StepsFit
  BY InitIInv DEF Init, StepsFit, Active
<1>2. IInv /\ StepsFit /\ [Next]_vars => (IInv /\ StepsFit)'
  <2> SUFFICES ASSUME IInv, StepsFit, [Next]_vars PROVE IInv'
    BY StepsFitStep
  <2>1. ASSUME NEW r \in Requests, Handler(r) PROVE IInv'
    <3>1. req[r] \in Calls /\ Complete(req[r])
      BY <2>1 DEF StepsFit, Handler, Active, CheckAuth, CheckVault, RunCli, InsertState, SetStatus,
                  RemoveState, OpenStates, WriteStates, BroadcastStatus, SetToken, OpenToken, WriteToken
    <3>2. req[r].op \in VaultOps => req[r].vault \in Vaults
      BY <3>1 DEF Calls, Complete
    <3>3. CASE InsertState(r)
      BY <3>1, <3>2, <3>3, SetupIInv DEF InsertState, StepsFit, Calls, Complete, VaultOps
    <3>4. CASE SetStatus(r) \/ RemoveState(r)
      BY <3>2, <3>4, SetStatusIInv, RemoveIInv DEF SetStatus, RemoveState, StepsFit
    <3>5. CASE BroadcastStatus(r)
      BY <3>2, <3>5, BroadcastIInv DEF BroadcastStatus, StepsFit
    <3>6. QED
      BY <2>1, <3>1, <3>3, <3>4, <3>5, CheckIInv, PersistStatesIInv, TokenIInv DEF Handler
  <2>2. ASSUME NEW v \in Vaults, ChangeVaults(v) PROVE IInv'
    BY <2>2 DEF IInv, TypeOK, WrittenIsCurrent, ChangeVaults, tokenVars, history, stateVars, requestVars, wsVars
  <2>3. CASE UNCHANGED vars
    BY <2>3 DEF IInv, TypeOK, WrittenIsCurrent, vars, tokenVars, history, stateVars, requestVars, wsVars
  <2>4. QED
    BY <2>1, <2>2, <2>3, ArriveIInv, SessionIInv, RestartIInv DEF Next
<1>3. QED
  BY <1>1, <1>2, PTL DEF Spec

(* Type correctness of the plugin: memory, files, requests and sessions,   *)
(* with whatever faults, overlaps and restarts.                            *)
THEOREM TypeCorrect == Spec => []TypeOK
<1>1. IInv /\ StepsFit => TypeOK
  BY DEF IInv
<1>2. QED
  BY <1>1, FilesInv, PTL

(* Memory read back: a value the plugin wrote itself parses to itself.     *)
LEMMA ReadBack ==
  /\ \A m \in StateMaps : ReadStates(m) = m
  /\ \A t \in Tokens \cup {None} : ReadToken(t) = t
BY DEF ReadStates, ReadToken

(* The steps between an update of the states, or of the token, and the end *)
(* of its write.  Is no request at one of them, and did the last write of  *)
(* the file work?                                                          *)
StatesSteps == {"persist_states", "write_states"}
TokenSteps == {"persist_token", "write_token"}
StatesSettled == "states" \notin unsaved /\ \A s \in Requests : pc[s] \notin StatesSteps
TokenSettled == "token" \notin unsaved /\ \A s \in Requests : pc[s] \notin TokenSteps

(* FilesFollowMemory without its sets.                                     *)
LEMMA FollowIff ==
  FilesFollowMemory <=> /\ StatesSettled => ReadStates(statesFile) = states
                        /\ TokenSettled => ReadToken(tokenFile) = token
<1>1. At("persist_states") \cup At("write_states") = {} /\ "states" \notin unsaved <=> StatesSettled
  BY DEF At, StatesSettled, StatesSteps
<1>2. At("persist_token") \cup At("write_token") = {} /\ "token" \notin unsaved <=> TokenSettled
  BY DEF At, TokenSettled, TokenSteps
<1>3. QED
  BY <1>1, <1>2 DEF FilesFollowMemory

(* The same of the next state.                                             *)
LEMMA FollowIffNext ==
  FilesFollowMemory' <=> /\ StatesSettled' => ReadStates(statesFile') = states'
                         /\ TokenSettled' => ReadToken(tokenFile') = token'
<1>1. (At("persist_states") \cup At("write_states") = {} /\ "states" \notin unsaved)' <=> StatesSettled'
  BY DEF At, StatesSettled, StatesSteps
<1>2. (At("persist_token") \cup At("write_token") = {} /\ "token" \notin unsaved)' <=> TokenSettled'
  BY DEF At, TokenSettled, TokenSteps
<1>3. QED
  BY <1>1, <1>2 DEF FilesFollowMemory, ReadStates, ReadToken

(* A step of one request, outside persist_states before and after it, and  *)
(* the states and their file unchanged: they still follow each other.      *)
LEMMA StatesKept ==
  ASSUME StatesSettled => ReadStates(statesFile) = states,
         \A s \in Requests : pc[s] \in StatesSteps => pc'[s] \in StatesSteps,
         "states" \in unsaved => "states" \in unsaved', UNCHANGED <<states, statesFile>>
  PROVE  StatesSettled' => ReadStates(statesFile') = states'
<1>1. StatesSettled' => StatesSettled
  BY DEF StatesSettled, StatesSteps
<1>2. QED
  BY <1>1 DEF ReadStates

(* Steps that leave the token and its file alone keep them equal.          *)
LEMMA TokenKept ==
  ASSUME TokenSettled => ReadToken(tokenFile) = token,
         \A s \in Requests : pc[s] \in TokenSteps => pc'[s] \in TokenSteps,
         "token" \in unsaved => "token" \in unsaved', UNCHANGED <<token, tokenFile>>
  PROVE  TokenSettled' => ReadToken(tokenFile') = token'
<1>1. TokenSettled' => TokenSettled
  BY DEF TokenSettled, TokenSteps
<1>2. QED
  BY <1>1 DEF ReadToken

(* A step of one request moves no other.                                   *)
LEMMA Moves ==
  ASSUME NEW r \in Requests, pc \in [Requests -> Steps],
         NEW step \in STRING, pc' = [pc EXCEPT ![r] = step]
  PROVE  pc'[r] = step /\ \A s \in Requests \ {r} : pc'[s] = pc[s]
OBVIOUS

(* No step lets a file and memory drift apart unless a handler is between  *)
(* its update and the end of its write.                                    *)
LEMMA FilesStep ==
  ASSUME IInv, StepsFit, FilesFollowMemory, [Next]_vars
  PROVE  FilesFollowMemory'
<1>a. pc \in [Requests -> Steps]
  BY DEF IInv, TypeOK
<1>b. StatesSettled => ReadStates(statesFile) = states
  BY FollowIff
<1>c. TokenSettled => ReadToken(tokenFile) = token
  BY FollowIff
<1>1. ASSUME NEW r \in Requests,
             \/ \E call \in Calls : Arrive(r, call)
             \/ CheckAuth(r) \/ CheckVault(r) \/ RunCli(r) \/ BroadcastStatus(r)
      PROVE  FilesFollowMemory'
  <2>1. UNCHANGED <<token, tokenFile>> /\ UNCHANGED <<states, statesFile>> /\ UNCHANGED unsaved
    BY <1>1 DEF Arrive, CheckAuth, CheckVault, RunCli, BroadcastStatus, tokenVars, history, stateVars
  <2>2. pc[r] \in {"new", "check_auth", "check_vault", "cli", "broadcast"}
    BY <1>1 DEF Arrive, CheckAuth, CheckVault, RunCli, BroadcastStatus
  <2>3. \E step : pc' = [pc EXCEPT ![r] = step]
    BY <1>1 DEF Arrive, CheckAuth, CheckVault, RunCli, BroadcastStatus, Goto, Respond
  <2>4. \A s \in Requests \ {r} : pc'[s] = pc[s]
    BY <1>a, <2>3
  <2>5. \A s \in Requests : pc[s] \in StatesSteps => pc'[s] \in StatesSteps
    BY <2>2, <2>4 DEF StatesSteps
  <2>6. \A s \in Requests : pc[s] \in TokenSteps => pc'[s] \in TokenSteps
    BY <2>2, <2>4 DEF TokenSteps
  <2>7. QED
    BY <1>b, <1>c, <2>1, <2>5, <2>6, StatesKept, TokenKept, FollowIffNext
<1>3. ASSUME NEW r \in Requests, InsertState(r) \/ SetStatus(r) \/ RemoveState(r)
      PROVE  FilesFollowMemory'
  <2>1. UNCHANGED <<token, tokenFile>> /\ UNCHANGED statesFile /\ UNCHANGED unsaved
    BY <1>3 DEF InsertState, SetStatus, RemoveState, tokenVars, history
  <2>2. pc[r] \in {"insert", "set_status", "remove"}
    BY <1>3 DEF InsertState, SetStatus, RemoveState
  <2>3. \/ pc' = [pc EXCEPT ![r] = "persist_states"]
        \/ pc' = [pc EXCEPT ![r] = "done"] /\ UNCHANGED states
    BY <1>3 DEF InsertState, SetStatus, RemoveState, UpdateState, Goto, Respond
  <2>4. \A s \in Requests \ {r} : pc'[s] = pc[s]
    BY <1>a, <2>3
  <2>5. \A s \in Requests : pc[s] \in TokenSteps => pc'[s] \in TokenSteps
    BY <2>2, <2>4 DEF TokenSteps
  <2>6. CASE pc' = [pc EXCEPT ![r] = "persist_states"]
    <3>1. pc'[r] = "persist_states"
      BY <1>a, <2>6
    <3>2. ~StatesSettled'
      BY <3>1 DEF StatesSettled, StatesSteps
    <3>3. QED
      BY <1>c, <2>1, <2>5, <3>2, TokenKept, FollowIffNext
  <2>7. CASE UNCHANGED states
    <3>1. \A s \in Requests : pc[s] \in StatesSteps => pc'[s] \in StatesSteps
      BY <2>2, <2>4 DEF StatesSteps
    <3>2. QED
      BY <1>b, <1>c, <2>1, <2>5, <2>7, <3>1, StatesKept, TokenKept, FollowIffNext
  <2>8. QED
    BY <2>3, <2>6, <2>7
<1>4. ASSUME NEW r \in Requests, OpenStates(r) PROVE FilesFollowMemory'
  <2>1. /\ UNCHANGED <<token, tokenFile>> /\ pc[r] = "persist_states"
        /\ "token" \in unsaved => "token" \in unsaved'
    BY <1>4 DEF OpenStates, Failed, tokenVars, history
  <2>2. /\ \E step : pc' = [pc EXCEPT ![r] = step]
        /\ pc' = [pc EXCEPT ![r] = "write_states"] \/ "states" \in unsaved'
    BY <1>4 DEF OpenStates, AfterPersist, Failed, Goto, Respond
  <2>3. \A s \in Requests \ {r} : pc'[s] = pc[s]
    BY <1>a, <2>2
  <2>4. ~StatesSettled'
    BY <1>a, <2>2 DEF StatesSettled, StatesSteps
  <2>5. \A s \in Requests : pc[s] \in TokenSteps => pc'[s] \in TokenSteps
    BY <2>1, <2>3 DEF TokenSteps
  <2>6. QED
    BY <1>c, <2>1, <2>4, <2>5, TokenKept, FollowIffNext
<1>5. ASSUME NEW r \in Requests, WriteStates(r) PROVE FilesFollowMemory'
  <2>1. /\ UNCHANGED <<token, tokenFile>> /\ UNCHANGED states /\ pc[r] = "write_states"
        /\ "token" \in unsaved => "token" \in unsaved'
    BY <1>5 DEF WriteStates, Wrote, Failed, tokenVars, history
  <2>2. text[r] = states /\ states \in StateMaps
    BY <2>1 DEF IInv, TypeOK, WrittenIsCurrent
  <2>3. StatesSettled' => ReadStates(statesFile') = states'
    <3>1. CASE statesFile' = text[r]
      BY <2>1, <2>2, <3>1, ReadBack
    <3>2. CASE Failed("states")
      BY <3>2 DEF Failed, StatesSettled
    <3>3. QED
      BY <1>5, <3>1, <3>2 DEF WriteStates
  <2>4. \E step : pc' = [pc EXCEPT ![r] = step]
    BY <1>5 DEF WriteStates, AfterPersist, Goto, Respond
  <2>5. \A s \in Requests \ {r} : pc'[s] = pc[s]
    BY <1>a, <2>4
  <2>6. \A s \in Requests : pc[s] \in TokenSteps => pc'[s] \in TokenSteps
    BY <2>1, <2>5 DEF TokenSteps
  <2>7. QED
    BY <1>c, <2>1, <2>3, <2>6, TokenKept, FollowIffNext
<1>6. ASSUME NEW r \in Requests, SetToken(r) PROVE FilesFollowMemory'
  <2>1. UNCHANGED <<states, statesFile>> /\ pc[r] = "set_token" /\ UNCHANGED unsaved
    BY <1>6 DEF SetToken, stateVars, history
  <2>2. pc' = [pc EXCEPT ![r] = "persist_token"]
    BY <1>6 DEF SetToken, Goto
  <2>3. pc'[r] = "persist_token" /\ \A s \in Requests \ {r} : pc'[s] = pc[s]
    BY <1>a, <2>2, Moves
  <2>4. ~TokenSettled'
    BY <2>3 DEF TokenSettled, TokenSteps
  <2>5. \A s \in Requests : pc[s] \in StatesSteps => pc'[s] \in StatesSteps
    BY <2>1, <2>3 DEF StatesSteps
  <2>6. QED
    BY <1>b, <2>1, <2>4, <2>5, StatesKept, FollowIffNext
<1>7. ASSUME NEW r \in Requests, OpenToken(r) \/ WriteToken(r) PROVE FilesFollowMemory'
  <2>1. /\ UNCHANGED <<states, statesFile>> /\ UNCHANGED token
        /\ pc[r] \in {"persist_token", "write_token"}
        /\ "states" \in unsaved => "states" \in unsaved'
    BY <1>7 DEF OpenToken, WriteToken, Wrote, Failed, stateVars, history
  <2>2. pc' = [pc EXCEPT ![r] = "write_token"] \/ pc' = [pc EXCEPT ![r] = "done"]
    BY <1>7 DEF OpenToken, WriteToken, Goto, Respond
  <2>3. \A s \in Requests \ {r} : pc'[s] = pc[s]
    BY <1>a, <2>2
  <2>4. \A s \in Requests : pc[s] \in StatesSteps => pc'[s] \in StatesSteps
    BY <2>1, <2>3 DEF StatesSteps
  <2>5. \/ pc'[r] = "write_token"
        \/ "token" \in unsaved'
        \/ ReadToken(tokenFile') = token'
    <3>1. token \in Tokens \cup {None}
      BY DEF IInv, TypeOK
    <3>2. CASE Failed("token")
      BY <3>2 DEF Failed
    <3>3. CASE OpenToken(r) /\ ~Failed("token") /\ token = None
      BY <2>1, <3>1, <3>3, ReadBack DEF OpenToken
    <3>4. CASE OpenToken(r) /\ ~Failed("token") /\ token # None
      BY <1>a, <3>4 DEF OpenToken, Goto
    <3>5. CASE WriteToken(r) /\ ~Failed("token")
      <4>1. text[r] = token
        BY <3>5 DEF WriteToken, IInv, WrittenIsCurrent
      <4>2. QED
        BY <2>1, <3>1, <3>5, <4>1, ReadBack DEF WriteToken
    <3>6. QED
      BY <1>7, <3>2, <3>3, <3>4, <3>5
  <2>6. TokenSettled' => ReadToken(tokenFile') = token'
    BY <2>5 DEF TokenSettled, TokenSteps
  <2>7. QED
    BY <1>b, <2>1, <2>4, <2>6, StatesKept, FollowIffNext
<1>9. CASE Restart
  <2>1. tokenFile \in Tokens \cup {None, Torn} /\ statesFile \in StateMaps \cup {None, Torn}
    BY DEF IInv, TypeOK
  <2>2. token' = ReadToken(tokenFile') /\ states' = ReadStates(statesFile')
    BY <1>9 DEF Restart
  <2>3. QED
    BY <2>2, FollowIffNext
<1>10. ASSUME UNCHANGED <<tokenVars, history, stateVars, pc>> PROVE FilesFollowMemory'
  BY <1>10 DEF FilesFollowMemory, At, ReadStates, ReadToken, tokenVars, history, stateVars
<1>11. ASSUME NEW c \in Clients, Session(c) PROVE FilesFollowMemory'
  BY <1>10, <1>11 DEF Session, Connect, SetSubscribed, ForwardMessage, Disconnect, requestVars
<1>12. ASSUME NEW v \in Vaults, ChangeVaults(v) PROVE FilesFollowMemory'
  BY <1>10, <1>12 DEF ChangeVaults, requestVars
<1>13. CASE UNCHANGED vars
  BY <1>10, <1>13 DEF vars, requestVars
<1>14. QED
  BY <1>1, <1>3, <1>4, <1>5, <1>6, <1>7, <1>9, <1>11, <1>12, <1>13 DEF Next, Handler

(* FilesFollowMemory for any number of vaults, requests, sessions, failed  *)
(* writes and restarts.                                                    *)
THEOREM FilesFollow == Spec => []FilesFollowMemory
<1>1. Init => FilesFollowMemory
  BY DEF Init, FilesFollowMemory
<1>2. IInv /\ StepsFit /\ FilesFollowMemory /\ [Next]_vars => FilesFollowMemory'
  BY FilesStep
<1>3. QED
  BY <1>1, <1>2, FilesInv, PTL DEF Spec

-----------------------------------------------------------------------------
(* A request has no call before it arrives and no answer before it is      *)
(* done; login and logout have steps of their own, so have start and stop, *)
(* and unlink broadcasts nothing.                                          *)
AnswersFit ==
  \A r \in Requests :
    /\ pc[r] = "new" => req[r] = None
    /\ pc[r] # "done" => resp[r] = "none"
    /\ pc[r] \in {"set_token", "persist_token", "write_token"} => req[r].op \in {"login", "logout"}
    /\ pc[r] = "set_status" => req[r].op \in {"start", "stop"}
    /\ pc[r] = "broadcast" => req[r].op # "unlink"

UnlinkAsked(v) == \E s \in Requests : req[s] # None /\ req[s].op = "unlink" /\ req[s].vault = v

(* A setup that has stored its state has it in memory, and, once persisted *)
(* and answered, on disk, unless a write is under way or the last one      *)
(* failed.                                                                 *)
Stored(r) == pc[r] \in {"persist_states", "write_states", "broadcast"} \/ resp[r] = "200"
Saved(r) == pc[r] = "broadcast" \/ resp[r] = "200"
Kept(v) == v \in Vaults /\ states[v] # None
NotTorn == "states" \notin unsaved /\ \A s \in Requests : pc[s] # "write_states"
OnDisk(v) == NotTorn => ReadStates(statesFile)[v] # None

SetupsKept ==
  \A r \in Requests \ forgotten : req[r] # None /\ req[r].op = "setup" =>
    /\ Stored(r) => Kept(req[r].vault) \/ UnlinkAsked(req[r].vault)
    /\ Saved(r) => OnDisk(req[r].vault) \/ UnlinkAsked(req[r].vault)

(* Unless two requests on a vault met, a handler that has yet to report a  *)
(* state reports the state of this moment.                                 *)
Reporting(r) ==
  pc[r] \in {"persist_states", "write_states", "broadcast"} /\ req[r].op # "unlink"

OneAtATime ==
  \A r, s \in Requests :
    r # s /\ Active(r) /\ Active(s) /\ req[r].vault \in Vaults \ met
      => req[r].vault # req[s].vault

ReportsCurrent ==
  \A r \in Requests :
    Reporting(r) /\ req[r].vault \notin met => reply[r] = states[req[r].vault]

(* What a session whose receiver was not overrun was last sent about its   *)
(* vault, or is yet to be sent, is the vault's status, unless a report is  *)
(* still to come or the vault has no status.                               *)
Pending(v) == \E r \in Requests : Reporting(r) /\ req[r].vault = v
Silent(q, v, from) == \A i \in from .. Len(q) : q[i].vault # v
Coming(q, v, state) ==
  \E i \in 1 .. Len(q) : q[i].vault = v /\ q[i].state = state /\ Silent(q, v, i + 1)

Shown(c) ==
  LET v == session[c] IN
  \/ Pending(v)
  \/ states[v] = None
  \/ Coming(bus[c], v, states[v])
  \/ Silent(bus[c], v, 1) /\ heard[c] \in {None, states[v]}

SessionsShown ==
  \A c \in Clients :
    /\ ~subscribed[c] => heard[c] = None
    /\ session[c] = None => bus[c] = <<>> /\ heard[c] = None
    /\ session[c] # None /\ session[c] \notin met /\ ~lagged[c] => Shown(c)

StatusInv == OneAtATime /\ ReportsCurrent /\ SessionsShown

-----------------------------------------------------------------------------
(* What the steps of a handler do to requests: each moves its own on.      *)
LEMMA Moved ==
  ASSUME IInv, NEW r \in Requests
  PROVE  /\ \A step \in Steps : Goto(r, step) =>
              /\ pc'[r] = step /\ resp' = resp
              /\ \A s \in Requests \ {r} : pc'[s] = pc[s]
         /\ \A status \in Statuses : Respond(r, status) =>
              /\ pc'[r] = "done" /\ resp'[r] = status
              /\ \A s \in Requests \ {r} : pc'[s] = pc[s] /\ resp'[s] = resp[s]
<1>1. pc \in [Requests -> Steps] /\ resp \in [Requests -> Statuses]
  BY DEF IInv, TypeOK
<1>2. QED
  BY <1>1 DEF Goto, Respond

OwnMove(r) ==
  /\ req' = req
  /\ \A s \in Requests \ {r} : pc'[s] = pc[s] /\ resp'[s] = resp[s] /\ reply'[s] = reply[s]

(* The checks, the ob command and the token's steps have nothing to do     *)
(* with the states.                                                        *)
LEMMA OtherSteps ==
  ASSUME IInv, StepsFit, AnswersFit, NEW r \in Requests,
         \/ CheckAuth(r) \/ CheckVault(r) \/ RunCli(r)
         \/ SetToken(r) \/ OpenToken(r) \/ WriteToken(r)
  PROVE  /\ OwnMove(r) /\ Active(r)
         /\ UNCHANGED <<states, statesFile, reply, wsVars, met, forgotten>>
         /\ "states" \in unsaved => "states" \in unsaved'
         /\ pc[r] \in {"check_auth", "check_vault", "cli", "set_token", "persist_token", "write_token"}
         /\ pc'[r] \in {"check_vault", "cli", "insert", "persist_token", "write_token", "done"}
         /\ pc'[r] \in {"persist_token", "write_token"} => pc[r] \in {"set_token", "persist_token"}
         /\ pc'[r] # "done" => resp'[r] = "none"
         /\ resp'[r] = "200" => req[r].op # "setup"
<1>1. {"check_vault", "cli", "insert", "persist_token", "write_token", "done"} \subseteq Steps
  BY DEF Steps
<1>2. {"200", "401", "404", "500"} \subseteq Statuses
  BY DEF Statuses
<1>3. /\ UNCHANGED <<req, states, statesFile, reply, wsVars, met, forgotten>>
      /\ "states" \in unsaved => "states" \in unsaved'
      /\ pc[r] \in {"check_auth", "check_vault", "cli", "set_token", "persist_token", "write_token"}
  BY DEF CheckAuth, CheckVault, RunCli, SetToken, OpenToken, WriteToken, Wrote, Failed, stateVars,
         history
<1>4. \/ /\ \E step \in {"check_vault", "cli", "insert"} : Goto(r, step)
         /\ pc[r] \in {"check_auth", "check_vault", "cli"}
      \/ /\ \E step \in {"persist_token", "write_token"} : Goto(r, step)
         /\ pc[r] \in {"set_token", "persist_token"}
      \/ \E status \in {"401", "404", "500"} : Respond(r, status)
      \/ pc[r] = "cli" /\ req[r].op # "setup" /\ Respond(r, "200")
      \/ pc[r] \in {"persist_token", "write_token"} /\ Respond(r, "200")
  <2>1. CASE CheckAuth(r)
    BY <2>1 DEF CheckAuth
  <2>2. CASE CheckVault(r) \/ RunCli(r)
    BY <2>2 DEF CheckVault, RunCli
  <2>3. CASE SetToken(r) \/ OpenToken(r) \/ WriteToken(r)
    BY <2>3 DEF SetToken, OpenToken, WriteToken
  <2>4. QED
    BY <2>1, <2>2, <2>3
<1>5. pc[r] \in {"persist_token", "write_token"} => req[r].op # "setup"
  BY DEF AnswersFit
<1>6. Active(r) /\ resp[r] = "none"
  BY <1>3 DEF Active, AnswersFit
<1>7. OwnMove(r)
  BY <1>1, <1>2, <1>3, <1>4, Moved DEF OwnMove
<1>8. CASE \E step \in {"check_vault", "cli", "insert"} : Goto(r, step) /\ pc[r] \in {"check_auth", "check_vault", "cli"}
  BY <1>1, <1>3, <1>6, <1>7, <1>8, Moved
<1>9. CASE \E step \in {"persist_token", "write_token"} : Goto(r, step) /\ pc[r] \in {"set_token", "persist_token"}
  BY <1>1, <1>3, <1>6, <1>7, <1>9, Moved
<1>10. CASE \E status \in {"401", "404", "500"} : Respond(r, status)
  BY <1>2, <1>3, <1>6, <1>7, <1>10, Moved
<1>11. CASE Respond(r, "200") /\ req[r].op # "setup"
  BY <1>2, <1>3, <1>6, <1>7, <1>11, Moved
<1>12. QED
  BY <1>4, <1>5, <1>8, <1>9, <1>10, <1>11

(* An update of the states changes the entry of its own vault, and the     *)
(* handler goes on to persist it with a copy to report.                    *)
LEMMA UpdateSteps ==
  ASSUME IInv, StepsFit, AnswersFit, NEW r \in Requests, InsertState(r) \/ SetStatus(r) \/ RemoveState(r)
  PROVE  /\ OwnMove(r) /\ Active(r) /\ UNCHANGED <<statesFile, wsVars, unsaved, met, forgotten>>
         /\ req[r] \in Calls /\ req[r].op \in VaultOps /\ req[r].vault \in Vaults
         /\ pc[r] \in {"insert", "set_status", "remove"}
         /\ \A s \in Requests : pc[s] # "write_states"
         /\ \A v \in Vaults : v # req[r].vault => states'[v] = states[v]
         /\ \/ pc'[r] = "done" /\ resp'[r] = "404" /\ UNCHANGED <<states, reply>>
            \/ /\ pc'[r] = "persist_states" /\ resp'[r] = "none"
               /\ reply'[r] = states'[req[r].vault]
               /\ req[r].op # "unlink" => states'[req[r].vault] # None
               /\ req[r].op = "unlink" => states'[req[r].vault] = None
<1> DEFINE v == req[r].vault
<1>1. /\ pc[r] \in {"insert", "set_status", "remove"}
      /\ UNCHANGED <<req, statesFile, wsVars, unsaved, met, forgotten>>
      /\ At("write_states") = {}
  BY DEF InsertState, SetStatus, RemoveState, StatesUnlocked, history
<1>2. Active(r) /\ resp[r] = "none"
  BY <1>1 DEF Active, AnswersFit
<1>3. req[r] \in Calls /\ Complete(req[r])
  BY <1>2 DEF StepsFit
<1>4. /\ req[r].op \in VaultOps
      /\ pc[r] = "remove" => req[r].op = "unlink"
      /\ pc[r] = "insert" => req[r].op = "setup"
      /\ pc[r] = "set_status" => req[r].op # "unlink"
  BY <1>1 DEF StepsFit, AnswersFit, VaultOps
<1>5. v \in Vaults /\ (req[r].op = "setup" => req[r].remote \in Remotes)
  BY <1>3, <1>4 DEF Calls, Complete
<1>6. \A s \in Requests : pc[s] # "write_states"
  BY <1>1 DEF At
<1>7. \/ Respond(r, "404") /\ UNCHANGED <<states, reply>>
      \/ req[r].op # "unlink" /\ \E new \in SyncStates : UpdateState(r, new)
      \/ req[r].op = "unlink" /\ UpdateState(r, None)
  <2>1. CASE InsertState(r)
    <3>1. [remote |-> req[r].remote, status |-> "stopped"] \in SyncStates
      BY <2>1, <1>4, <1>5 DEF InsertState, SyncStates
    <3>2. QED
      BY <1>4, <2>1, <3>1 DEF InsertState
  <2>2. CASE SetStatus(r)
    <3> DEFINE old == states[v]
               new == [old EXCEPT !.status = IF req[r].op = "start" THEN "running" ELSE "stopped"]
    <3>1. ASSUME old # None PROVE new \in SyncStates
      <4>1. old \in SyncStates
        BY <1>5, <3>1 DEF IInv, TypeOK, StateMaps
      <4>2. QED
        BY <4>1 DEF SyncStates
    <3>2. QED
      BY <1>4, <2>2, <3>1 DEF SetStatus
  <2>3. CASE RemoveState(r)
    BY <1>4, <2>3 DEF RemoveState
  <2>4. QED
    BY <2>1, <2>2, <2>3
<1>8. "persist_states" \in Steps /\ "404" \in Statuses
  BY DEF Steps, Statuses
<1>9. states \in StateMaps /\ reply \in [Requests -> SyncStates \cup {None}]
  BY DEF IInv, TypeOK
<1>10. ASSUME NEW new \in SyncStates \cup {None}, UpdateState(r, new)
       PROVE  /\ OwnMove(r)
              /\ \A w \in Vaults : w # v => states'[w] = states[w]
              /\ pc'[r] = "persist_states" /\ resp'[r] = "none"
              /\ reply'[r] = new /\ states'[v] = new
  BY <1>1, <1>2, <1>5, <1>8, <1>9, <1>10, Moved DEF UpdateState, OwnMove, StateMaps
<1>11. CASE Respond(r, "404") /\ UNCHANGED <<states, reply>>
  <2>1. pc'[r] = "done" /\ resp'[r] = "404" /\ OwnMove(r)
    BY <1>1, <1>8, <1>11, Moved DEF OwnMove
  <2>2. QED
    BY <1>1, <1>2, <1>3, <1>4, <1>5, <1>6, <1>11, <2>1
<1>12. CASE req[r].op # "unlink" /\ \E new \in SyncStates : UpdateState(r, new)
  BY <1>1, <1>2, <1>3, <1>4, <1>5, <1>6, <1>10, <1>12
<1>13. CASE req[r].op = "unlink" /\ UpdateState(r, None)
  BY <1>1, <1>2, <1>3, <1>4, <1>5, <1>6, <1>10, <1>13
<1>14. QED
  BY <1>7, <1>11, <1>12, <1>13

(* Persisting and broadcasting leave the states in memory alone.           *)
LEMMA PersistSteps ==
  ASSUME IInv, StepsFit, AnswersFit, NEW r \in Requests, OpenStates(r) \/ WriteStates(r)
  PROVE  /\ OwnMove(r) /\ Active(r) /\ UNCHANGED <<states, reply, wsVars>>
         /\ pc[r] \in {"persist_states", "write_states"}
         /\ \/ pc'[r] = "write_states" /\ resp'[r] = "none"
            \/ pc'[r] = "broadcast" /\ resp'[r] = "none" /\ req[r].op # "unlink"
            \/ pc'[r] = "done" /\ resp'[r] = "200" /\ req[r].op = "unlink"
         /\ UNCHANGED <<met, forgotten>>
         /\ pc'[r] = "write_states" \/ "states" \in unsaved' \/ statesFile' = states
<1>1. /\ pc[r] \in {"persist_states", "write_states"} /\ UNCHANGED <<req, states, reply, wsVars>>
  BY DEF OpenStates, WriteStates
<1>2. Active(r) /\ resp[r] = "none"
  BY <1>1 DEF Active, AnswersFit
<1>3. {"write_states", "broadcast"} \subseteq Steps /\ "200" \in Statuses
  BY DEF Steps, Statuses
<1>4. \/ Goto(r, "write_states") /\ pc[r] = "persist_states"
      \/ AfterPersist(r)
  BY DEF OpenStates, WriteStates
<1>5. /\ UNCHANGED <<met, forgotten>>
      /\ Goto(r, "write_states") \/ "states" \in unsaved' \/ statesFile' = states
  BY DEF OpenStates, WriteStates, IInv, WrittenIsCurrent, Wrote, Failed, history
<1>6. CASE Goto(r, "write_states") /\ pc[r] = "persist_states"
  <2>1. pc'[r] = "write_states" /\ resp'[r] = "none" /\ OwnMove(r)
    BY <1>1, <1>2, <1>3, <1>6, Moved DEF OwnMove
  <2>2. QED
    BY <1>1, <1>2, <1>5, <2>1
<1>7. CASE AfterPersist(r)
  <2>1. /\ OwnMove(r)
        /\ \/ pc'[r] = "broadcast" /\ resp'[r] = "none" /\ req[r].op # "unlink"
           \/ pc'[r] = "done" /\ resp'[r] = "200" /\ req[r].op = "unlink"
    BY <1>1, <1>2, <1>3, <1>7, Moved DEF OwnMove, AfterPersist
  <2>2. QED
    <3>1. Goto(r, "write_states") => pc'[r] = "write_states"
      BY <1>3, Moved
    <3>2. QED
      BY <1>1, <1>2, <1>5, <2>1, <3>1
<1>8. QED
  BY <1>4, <1>6, <1>7

(* The last step of a handler: the state it broadcasts is a sync state of  *)
(* its vault.                                                              *)
LEMMA BroadcastStep ==
  ASSUME IInv, StepsFit, AnswersFit, NEW r \in Requests, BroadcastStatus(r)
  PROVE  /\ OwnMove(r) /\ Active(r) /\ UNCHANGED <<states, statesFile, reply, session, subscribed, heard>>
         /\ UNCHANGED <<unsaved, met, forgotten>>
         /\ req[r].vault \in Vaults /\ reply[r] \in SyncStates
         /\ pc[r] = "broadcast" /\ pc'[r] = "done" /\ resp'[r] = "200"
<1>1. /\ pc[r] = "broadcast" /\ Respond(r, "200")
      /\ UNCHANGED <<req, states, statesFile, reply, session, subscribed, heard>>
      /\ UNCHANGED <<unsaved, met, forgotten>>
  BY DEF BroadcastStatus, stateVars, history
<1>2. Active(r) /\ "200" \in Statuses
  BY <1>1 DEF Active, Statuses
<1>3. req[r].vault \in Vaults /\ reply[r] \in SyncStates
  BY <1>1, <1>2 DEF StepsFit, Calls, Complete
<1>4. QED
  BY <1>1, <1>2, <1>3, Moved DEF OwnMove

(* A request that arrives is new; nothing but the request changes.         *)
LEMMA ArriveStep ==
  ASSUME IInv, StepsFit, AnswersFit, NEW r \in Requests, NEW call \in Calls, Arrive(r, call)
  PROVE  /\ pc[r] = "new" /\ req[r] = None /\ resp[r] = "none" /\ req'[r] = call
         /\ \A s \in Requests \ {r} : req'[s] = req[s] /\ pc'[s] = pc[s] /\ resp'[s] = resp[s]
         /\ UNCHANGED <<states, statesFile, reply, wsVars, unsaved, forgotten>>
         /\ met \subseteq met'
         /\ \A s \in Requests : Active(s) /\ call.vault \in Vaults \ met' => req[s].vault # call.vault
         /\ pc'[r] \in {"check_auth", "set_status", "remove", "set_token", "done"}
         /\ pc'[r] = "set_token" => call.op \in {"login", "logout"}
         /\ pc'[r] = "set_status" => call.op \in {"start", "stop"}
         /\ pc'[r] # "done" => resp'[r] = "none"
         /\ resp'[r] # "200"
<1>0. /\ met \subseteq met'
      /\ \A s \in Requests : Active(s) /\ call.vault \in Vaults \ met' => req[s].vault # call.vault
  BY DEF Arrive, Busy
<1>1. /\ pc[r] = "new" /\ req' = [req EXCEPT ![r] = call]
      /\ UNCHANGED <<states, statesFile, reply, wsVars, unsaved, forgotten>>
  BY DEF Arrive, stateVars
<1>2. req[r] = None /\ resp[r] = "none"
  BY <1>1 DEF AnswersFit
<1>3. req'[r] = call /\ \A s \in Requests \ {r} : req'[s] = req[s]
  BY <1>1 DEF IInv, TypeOK
<1>4. /\ Entry(call.op) \in {"check_auth", "set_status", "remove", "set_token"}
      /\ Entry(call.op) = "set_token" => call.op \in {"login", "logout"}
      /\ Entry(call.op) = "set_status" => call.op \in {"start", "stop"}
  BY DEF Entry, Calls, Ops, VaultOps
<1>5. Goto(r, Entry(call.op)) \/ Respond(r, "400")
  BY DEF Arrive
<1>6. {"check_auth", "set_status", "remove", "set_token"} \subseteq Steps /\ "400" \in Statuses
  BY DEF Steps, Statuses
<1>7. CASE Goto(r, Entry(call.op))
  <2>1. /\ pc'[r] = Entry(call.op) /\ resp' = resp
        /\ \A s \in Requests \ {r} : pc'[s] = pc[s]
    BY <1>4, <1>6, <1>7, Moved
  <2>2. QED
    BY <1>0, <1>1, <1>2, <1>3, <1>4, <2>1
<1>8. CASE Respond(r, "400")
  BY <1>0, <1>1, <1>2, <1>3, <1>6, <1>8, Moved
<1>9. QED
  BY <1>5, <1>7, <1>8

(* A restart ends every request that was under way, without an answer.     *)
LEMMA RestartStep ==
  ASSUME IInv, Restart
  PROVE  /\ req' = req /\ reply' = reply /\ statesFile' = statesFile
         /\ states' = ReadStates(statesFile)
         /\ \A r \in Requests :
              /\ pc'[r] \in {"new", "done"}
              /\ pc'[r] = "new" => pc[r] = "new" /\ resp'[r] = resp[r]
              /\ resp'[r] \in {resp[r], "lost"}
         /\ forgotten \subseteq forgotten'
         /\ NotTorn \/ \A r \in Requests : resp[r] = "200" => r \in forgotten'
         /\ \A c \in Clients : session'[c] = None /\ bus'[c] = <<>> /\ heard'[c] = None
BY DEF Restart, StatesSaved, NotTorn, At, Active

(* The sessions and the vault routes leave requests and states alone.      *)
LEMMA OtherActors ==
  ASSUME \/ \E c \in Clients : Session(c)
         \/ \E v \in Vaults : ChangeVaults(v)
         \/ UNCHANGED vars
  PROVE  UNCHANGED <<req, pc, text, reply, resp, states, statesFile, unsaved, met, forgotten>>
BY DEF Session, Connect, SetSubscribed, ForwardMessage, Disconnect, ChangeVaults, vars,
       requestVars, stateVars, history

(* Every step is one of these.                                             *)
LEMMA NextCases ==
  ASSUME [Next]_vars
  PROVE  \/ \E r \in Requests, call \in Calls : Arrive(r, call)
         \/ \E r \in Requests : \/ CheckAuth(r) \/ CheckVault(r) \/ RunCli(r)
                                \/ SetToken(r) \/ OpenToken(r) \/ WriteToken(r)
         \/ \E r \in Requests : InsertState(r) \/ SetStatus(r) \/ RemoveState(r)
         \/ \E r \in Requests : OpenStates(r) \/ WriteStates(r)
         \/ \E r \in Requests : BroadcastStatus(r)
         \/ \E c \in Clients : Session(c)
         \/ \E v \in Vaults : ChangeVaults(v)
         \/ Restart
         \/ UNCHANGED vars
BY DEF Next, Handler

(* Every step keeps answers and local results in line with the states.     *)
LEMMA AnswersFitStep ==
  ASSUME IInv, StepsFit, AnswersFit, [Next]_vars PROVE AnswersFit'
<1>1. ASSUME NEW r \in Requests, NEW call \in Calls, Arrive(r, call) PROVE AnswersFit'
  <2>1. pc'[r] \notin {"new", "persist_token", "write_token", "broadcast"}
    BY <1>1, ArriveStep
  <2>2. /\ pc'[r] # "done" => resp'[r] = "none"
        /\ pc'[r] = "set_token" => req'[r].op \in {"login", "logout"}
        /\ pc'[r] = "set_status" => req'[r].op \in {"start", "stop"}
    BY <1>1, ArriveStep
  <2>3. \A s \in Requests \ {r} : req'[s] = req[s] /\ pc'[s] = pc[s] /\ resp'[s] = resp[s]
    BY <1>1, ArriveStep
  <2>4. QED
    BY <2>1, <2>2, <2>3 DEF AnswersFit
<1>2. ASSUME NEW r \in Requests, OwnMove(r),
             pc'[r] \notin {"new", "set_status"}, pc'[r] # "done" => resp'[r] = "none",
             pc'[r] = "broadcast" => req[r].op # "unlink",
             pc'[r] \in {"set_token", "persist_token", "write_token"} =>
               pc[r] \in {"set_token", "persist_token", "write_token"}
      PROVE  AnswersFit'
  BY <1>2 DEF AnswersFit, OwnMove
<1>3. ASSUME NEW r \in Requests, \/ CheckAuth(r) \/ CheckVault(r) \/ RunCli(r)
                                 \/ SetToken(r) \/ OpenToken(r) \/ WriteToken(r)
      PROVE  AnswersFit'
  BY <1>2, <1>3, OtherSteps
<1>4. ASSUME NEW r \in Requests, InsertState(r) \/ SetStatus(r) \/ RemoveState(r)
      PROVE  AnswersFit'
  BY <1>2, <1>4, UpdateSteps
<1>5. ASSUME NEW r \in Requests, OpenStates(r) \/ WriteStates(r) PROVE AnswersFit'
  BY <1>2, <1>5, PersistSteps
<1>6. ASSUME NEW r \in Requests, BroadcastStatus(r) PROVE AnswersFit'
  BY <1>2, <1>6, BroadcastStep
<1>7. CASE Restart
  BY <1>7, RestartStep DEF AnswersFit
<1>8. CASE UNCHANGED <<req, pc, resp>>
  BY <1>8 DEF AnswersFit
<1>9. QED
  BY <1>1, <1>3, <1>4, <1>5, <1>6, <1>7, <1>8, NextCases, OtherActors

(* The files' invariant and the one on answers, together.                  *)
THEOREM AnswersInv == Spec => [](IInv /\ StepsFit /\ AnswersFit)
<1>1. Init => AnswersFit
  BY DEF Init, AnswersFit
<1>2. IInv /\ StepsFit /\ AnswersFit /\ [Next]_vars => AnswersFit'
  BY AnswersFitStep
<1>3. QED
  BY <1>1, <1>2, FilesInv, PTL DEF Spec

-----------------------------------------------------------------------------
(* An unlink that was asked for stays asked for.                           *)
LEMMA UnlinkStaysAsked ==
  ASSUME \A s \in Requests : req'[s] = req[s] \/ req[s] = None, NEW v, UnlinkAsked(v)
  PROVE  UnlinkAsked(v)'
BY DEF UnlinkAsked

(* A handler's step keeps the setups if it keeps their entries, in memory  *)
(* and on disk, and its own setup is stored and saved when it says so.     *)
LEMMA SetupsKeptByMove ==
  ASSUME SetupsKept, NEW r \in Requests, OwnMove(r), UNCHANGED forgotten,
         \A v : Kept(v) => Kept(v)' \/ UnlinkAsked(v),
         \A v : Kept(v) /\ OnDisk(v) => OnDisk(v)',
         r \notin forgotten /\ req[r] # None /\ req[r].op = "setup" =>
           /\ Stored(r)' => Stored(r) \/ Kept(req[r].vault)'
           /\ Saved(r)' => Saved(r) \/ OnDisk(req[r].vault)' \/ UnlinkAsked(req[r].vault)
  PROVE  SetupsKept'
<1> SUFFICES ASSUME NEW q \in Requests \ forgotten, req[q] # None, req[q].op = "setup"
             PROVE  /\ Stored(q)' => Kept(req[q].vault)' \/ UnlinkAsked(req[q].vault)'
                    /\ Saved(q)' => OnDisk(req[q].vault)' \/ UnlinkAsked(req[q].vault)'
  BY DEF SetupsKept, OwnMove, Kept, OnDisk, UnlinkAsked
<1>1. req' = req /\ \A v : UnlinkAsked(v)' = UnlinkAsked(v)
  BY DEF OwnMove, UnlinkAsked
<1>2. /\ Stored(q) => Kept(req[q].vault) \/ UnlinkAsked(req[q].vault)
      /\ Saved(q) => OnDisk(req[q].vault) \/ UnlinkAsked(req[q].vault)
      /\ Saved(q) => Stored(q)
  BY DEF SetupsKept, Saved, Stored
<1>3. CASE q = r
  BY <1>1, <1>2, <1>3
<1>4. CASE q # r
  <2>1. Stored(q)' = Stored(q) /\ Saved(q)' = Saved(q)
    BY <1>4 DEF OwnMove, Stored, Saved
  <2>2. QED
    BY <1>1, <1>2, <2>1
<1>5. QED
  BY <1>3, <1>4

(* No step loses a setup but a restart that finds the file torn or stale.  *)
LEMMA SetupsKeptStep ==
  ASSUME IInv, StepsFit, AnswersFit, SetupsKept, [Next]_vars
  PROVE  SetupsKept'
<1>1. ASSUME NEW r \in Requests, NEW call \in Calls, Arrive(r, call) PROVE SetupsKept'
  <2> SUFFICES ASSUME NEW q \in Requests \ forgotten', req'[q] # None, req'[q].op = "setup",
                      NEW v, v = req'[q].vault
               PROVE  /\ Stored(q)' => Kept(v)' \/ UnlinkAsked(v)'
                      /\ Saved(q)' => OnDisk(v)' \/ UnlinkAsked(v)'
    BY DEF SetupsKept, Kept, OnDisk, UnlinkAsked
  <2>1. /\ req[r] = None /\ pc[r] = "new" /\ UNCHANGED <<states, statesFile, unsaved, forgotten>>
        /\ \A s \in Requests \ {r} : req'[s] = req[s] /\ pc'[s] = pc[s] /\ resp'[s] = resp[s]
        /\ pc'[r] \notin {"persist_states", "write_states", "broadcast"} /\ resp'[r] # "200"
    BY <1>1, ArriveStep
  <2>2. UnlinkAsked(v) => UnlinkAsked(v)'
    BY <2>1, UnlinkStaysAsked
  <2>3. Kept(v)' = Kept(v) /\ OnDisk(v)' = OnDisk(v)
    BY <2>1 DEF Kept, OnDisk, NotTorn, ReadStates
  <2>4. CASE q = r
    BY <2>1, <2>4 DEF Stored, Saved
  <2>5. CASE q # r
    <3>1. req'[q] = req[q] /\ Stored(q)' = Stored(q) /\ Saved(q)' = Saved(q)
      BY <2>1, <2>5 DEF Stored, Saved
    <3>2. QED
      BY <2>1, <2>2, <2>3, <3>1 DEF SetupsKept
  <2>6. QED
    BY <2>4, <2>5
<1>2. ASSUME NEW r \in Requests, \/ CheckAuth(r) \/ CheckVault(r) \/ RunCli(r)
                                 \/ SetToken(r) \/ OpenToken(r) \/ WriteToken(r)
      PROVE  SetupsKept'
  <2>1. /\ OwnMove(r) /\ UNCHANGED <<states, statesFile, forgotten>>
        /\ "states" \in unsaved => "states" \in unsaved'
        /\ pc[r] # "write_states" /\ pc'[r] \notin {"persist_states", "write_states", "broadcast"}
        /\ resp'[r] = "200" => req[r].op # "setup"
    BY <1>2, OtherSteps
  <2>2. \A v : Kept(v)' = Kept(v) /\ (OnDisk(v) => OnDisk(v)')
    BY <2>1 DEF Kept, OnDisk, NotTorn, ReadStates, OwnMove
  <2>3. req[r].op = "setup" => ~Stored(r)' /\ ~Saved(r)'
    BY <2>1 DEF Stored, Saved
  <2>4. QED
    BY <2>1, <2>2, <2>3, SetupsKeptByMove
<1>3. ASSUME NEW r \in Requests, InsertState(r) \/ SetStatus(r) \/ RemoveState(r)
      PROVE  SetupsKept'
  <2>1. /\ OwnMove(r) /\ UNCHANGED <<statesFile, unsaved, forgotten>> /\ req[r] \in Calls /\ req[r].vault \in Vaults
        /\ \A s \in Requests : pc[s] # "write_states"
        /\ \A v \in Vaults : v # req[r].vault => states'[v] = states[v]
        /\ \/ pc'[r] = "done" /\ resp'[r] = "404" /\ UNCHANGED states
           \/ /\ pc'[r] = "persist_states" /\ resp'[r] = "none"
              /\ req[r].op # "unlink" => states'[req[r].vault] # None
    BY <1>3, UpdateSteps
  <2>2. req[r] # None
    BY <2>1, CallsAssumption
  <2>3. \A v : Kept(v) => Kept(v)' \/ UnlinkAsked(v)
    BY <2>1, <2>2 DEF Kept, UnlinkAsked
  <2>4. \A v : OnDisk(v) => OnDisk(v)'
    BY <2>1 DEF OnDisk, NotTorn, ReadStates
  <2>5. req[r].op = "setup" => /\ Stored(r)' => Kept(req[r].vault)'
                               /\ ~Saved(r)'
    BY <2>1 DEF Stored, Saved, Kept, OwnMove
  <2>6. QED
    BY <2>1, <2>3, <2>4, <2>5, SetupsKeptByMove
<1>4. ASSUME NEW r \in Requests, OpenStates(r) \/ WriteStates(r) PROVE SetupsKept'
  <2>1. /\ OwnMove(r) /\ UNCHANGED <<states, forgotten>> /\ pc[r] \in {"persist_states", "write_states"}
        /\ pc'[r] = "write_states" \/ "states" \in unsaved' \/ statesFile' = states
        /\ \/ pc'[r] \in {"write_states", "broadcast"} /\ resp'[r] = "none"
           \/ pc'[r] = "done" /\ req[r].op = "unlink"
    BY <1>4, PersistSteps
  <2>2. \A v : Kept(v)' = Kept(v)
    BY <2>1 DEF Kept
  <2>3. \A v : Kept(v) => OnDisk(v)'
    <3> SUFFICES ASSUME NEW v, Kept(v), NotTorn' PROVE ReadStates(statesFile')[v] # None
      BY DEF OnDisk, ReadStates
    <3>1. statesFile' = states /\ states \in StateMaps
      BY <2>1 DEF NotTorn, IInv, TypeOK
    <3>2. QED
      BY <3>1, ReadBack DEF Kept
  <2>4. Stored(r)
    BY <2>1 DEF Stored
  <2>5. r \notin forgotten /\ req[r].op = "setup" /\ Saved(r)' /\ req[r] # None =>
          OnDisk(req[r].vault)' \/ UnlinkAsked(req[r].vault)
    BY <2>1, <2>3, <2>4 DEF SetupsKept, OwnMove, OnDisk, Saved
  <2>6. QED
    BY <2>1, <2>2, <2>3, <2>4, <2>5, SetupsKeptByMove
<1>5. ASSUME NEW r \in Requests, BroadcastStatus(r) PROVE SetupsKept'
  <2>1. OwnMove(r) /\ UNCHANGED <<states, statesFile, unsaved, forgotten>> /\ pc[r] = "broadcast"
        /\ pc'[r] = "done"
    BY <1>5, BroadcastStep
  <2>2. \A v : Kept(v)' = Kept(v) /\ OnDisk(v)' = OnDisk(v)
    BY <2>1 DEF Kept, OnDisk, NotTorn, ReadStates, OwnMove
  <2>3. Stored(r) /\ Saved(r)
    BY <2>1 DEF Stored, Saved
  <2>4. QED
    BY <2>1, <2>2, <2>3, SetupsKeptByMove
<1>6. CASE Restart
  <2> SUFFICES ASSUME NEW q \in Requests \ forgotten', req[q] # None, req[q].op = "setup", Stored(q)'
               PROVE  \/ UnlinkAsked(req[q].vault)'
                      \/ Kept(req[q].vault)' /\ OnDisk(req[q].vault)'
    BY <1>6, RestartStep DEF SetupsKept, Kept, OnDisk, UnlinkAsked, Stored, Saved
  <2>1. /\ req' = req /\ statesFile' = statesFile /\ states' = ReadStates(statesFile)
        /\ q \notin forgotten
    BY <1>6, RestartStep
  <2>2. resp[q] = "200" /\ NotTorn
    BY <1>6, RestartStep DEF Stored
  <2>3. \/ UnlinkAsked(req[q].vault)
        \/ Kept(req[q].vault) /\ OnDisk(req[q].vault)
    BY <2>1, <2>2 DEF SetupsKept, Stored, Saved
  <2>4. UnlinkAsked(req[q].vault) => UnlinkAsked(req[q].vault)'
    BY <2>1 DEF UnlinkAsked
  <2>5. OnDisk(req[q].vault) => ReadStates(statesFile)[req[q].vault] # None
    BY <2>2 DEF OnDisk
  <2>6. ReadStates(statesFile') = ReadStates(statesFile)
    BY <2>1
  <2>7. QED
    BY <2>1, <2>3, <2>4, <2>5, <2>6 DEF Kept, OnDisk
<1>7. CASE UNCHANGED <<req, pc, resp, states, statesFile, unsaved, forgotten>>
  BY <1>7 DEF SetupsKept, Stored, Saved, Kept, OnDisk, NotTorn, ReadStates, UnlinkAsked
<1>8. QED
  BY <1>1, <1>2, <1>3, <1>4, <1>5, <1>6, <1>7, NextCases, OtherActors

(* "persists token + per-vault sync state": an acknowledged setup nobody   *)
(* asked to unlink is in memory, through failed writes and restarts at any *)
(* step; a restart forgets it only if it finds the file of the states      *)
(* truncated by a persist under way, or stale because the last one failed. *)
THEOREM SetupsSurvive == Spec => []AckedSetupsSurvive
<1>1. Init => SetupsKept
  BY DEF Init, SetupsKept
<1>2. IInv /\ StepsFit /\ AnswersFit /\ SetupsKept /\ [Next]_vars => SetupsKept'
  BY SetupsKeptStep
<1>3. SetupsKept => AckedSetupsSurvive
  BY DEF SetupsKept, AckedSetupsSurvive, Stored, Kept, UnlinkAsked
<1>4. QED
  BY <1>1, <1>2, <1>3, AnswersInv, PTL DEF Spec

-----------------------------------------------------------------------------
(* The queue of a receiver: what a new message and a read do to the last   *)
(* message about a vault.                                                  *)
LEMMA QueueAppend ==
  ASSUME NEW q \in Seq(Messages), NEW m \in Messages, NEW v, NEW state
  PROVE  /\ m.vault # v /\ Silent(q, v, 1) => Silent(Append(q, m), v, 1)
         /\ m.vault # v /\ Coming(q, v, state) => Coming(Append(q, m), v, state)
         /\ m.vault = v /\ m.state = state => Coming(Append(q, m), v, state)
<1> DEFINE a == Append(q, m)
<1>1. /\ Len(q) \in Nat /\ Len(a) = Len(q) + 1 /\ a[Len(q) + 1] = m
      /\ \A i \in 1 .. Len(q) : a[i] = q[i]
  OBVIOUS
<1> HIDE DEF a
<1>2. m.vault # v /\ Silent(q, v, 1) => Silent(a, v, 1)
  BY <1>1 DEF Silent
<1>3. ASSUME m.vault # v, Coming(q, v, state) PROVE Coming(a, v, state)
  <2>1. PICK i \in 1 .. Len(q) : q[i].vault = v /\ q[i].state = state /\ Silent(q, v, i + 1)
    BY <1>3 DEF Coming
  <2>2. i \in 1 .. Len(a) /\ a[i].vault = v /\ a[i].state = state
    BY <1>1, <2>1
  <2>3. ASSUME NEW j \in i + 1 .. Len(a) PROVE a[j].vault # v
    <3>1. CASE j = Len(q) + 1
      BY <1>1, <1>3, <3>1
    <3>2. CASE j # Len(q) + 1
      BY <1>1, <2>1, <3>2 DEF Silent
    <3>3. QED
      BY <3>1, <3>2
  <2>4. QED
    BY <2>2, <2>3 DEF Coming, Silent
<1>4. ASSUME m.vault = v, m.state = state PROVE Coming(a, v, state)
  <2>1. Len(q) + 1 \in 1 .. Len(a) /\ Silent(a, v, Len(q) + 2)
    BY <1>1 DEF Silent
  <2>2. QED
    BY <1>1, <1>4, <2>1 DEF Coming
<1>5. QED
  BY <1>2, <1>3, <1>4 DEF a

(* Taking the first message of an inbox keeps the rest silent about the    *)
(* vault.                                                                  *)
LEMMA SilentTail ==
  ASSUME NEW q \in Seq(Messages), q # <<>>, NEW v, Silent(q, v, 1)
  PROVE  Head(q).vault # v /\ Silent(Tail(q), v, 1)
<1> DEFINE t == Tail(q)
<1>1. /\ Len(q) \in Nat \ {0} /\ Len(t) = Len(q) - 1 /\ Head(q) = q[1]
      /\ \A i \in 1 .. Len(t) : t[i] = q[i + 1]
  OBVIOUS
<1> HIDE DEF t
<1>2. \A i \in 1 .. Len(t) : i + 1 \in 1 .. Len(q)
  BY <1>1
<1>3. Head(q).vault # v /\ Silent(t, v, 1)
  BY <1>1, <1>2 DEF Silent
<1>4. QED
  BY <1>3 DEF t

(* A state that is still to come is in the rest of the inbox, or was the   *)
(* message just taken and nothing about the vault follows it.              *)
LEMMA ComingTail ==
  ASSUME NEW q \in Seq(Messages), q # <<>>, NEW v, NEW state, Coming(q, v, state)
  PROVE  \/ Coming(Tail(q), v, state)
         \/ Head(q).vault = v /\ Head(q).state = state /\ Silent(Tail(q), v, 1)
<1> DEFINE t == Tail(q)
<1>1. /\ Len(q) \in Nat \ {0} /\ Len(t) = Len(q) - 1 /\ Head(q) = q[1]
      /\ \A i \in 1 .. Len(t) : t[i] = q[i + 1]
  OBVIOUS
<1> HIDE DEF t
<1>2. \/ Coming(t, v, state)
      \/ Head(q).vault = v /\ Head(q).state = state /\ Silent(t, v, 1)
  <2>1. PICK i \in 1 .. Len(q) : q[i].vault = v /\ q[i].state = state /\ Silent(q, v, i + 1)
    BY DEF Coming
  <2>2. ASSUME NEW j \in 1 .. Len(t), j >= i PROVE t[j].vault # v
    <3>1. j + 1 \in i + 1 .. Len(q)
      BY <1>1, <2>2
    <3>2. QED
      BY <1>1, <2>1, <3>1 DEF Silent
  <2>3. CASE i = 1
    BY <1>1, <2>1, <2>2, <2>3 DEF Silent
  <2>4. CASE i # 1
    <3>1. i - 1 \in 1 .. Len(t) /\ t[i - 1] = q[i]
      BY <1>1, <2>4
    <3>2. Silent(t, v, (i - 1) + 1)
      BY <1>1, <2>2 DEF Silent
    <3>3. QED
      BY <2>1, <3>1, <3>2 DEF Coming
  <2>5. QED
    BY <2>3, <2>4
<1>3. QED
  BY <1>2 DEF t

(* The parts of the invariant about requests, for a step of a handler.     *)
LEMMA OneAtATimeByMove ==
  ASSUME OneAtATime, NEW r \in Requests, OwnMove(r), Active(r), UNCHANGED met PROVE OneAtATime'
<1>1. \A s \in Requests : Active(s)' => Active(s)
  BY DEF OwnMove, Active
<1>2. QED
  BY <1>1 DEF OneAtATime, OwnMove

(* A request that is about to broadcast is a call of a vault.              *)
LEMMA ReportingCall ==
  ASSUME StepsFit, NEW r \in Requests, Reporting(r)
  PROVE  Active(r) /\ req[r] \in Calls /\ req[r].vault \in Vaults
<1>1. Active(r) /\ req[r].op \in VaultOps
  BY DEF Reporting, Active, StepsFit
<1>2. QED
  BY <1>1 DEF StepsFit, Calls, Complete

(* Sessions see no difference when only the requests that are reporting    *)
(* and the states about other vaults change.                               *)
LEMMA ShownStays ==
  ASSUME NEW c \in Clients, UNCHANGED wsVars, Shown(c),
         \/ states'[session[c]] \in {states[session[c]], None}
         \/ \E r \in Requests : Reporting(r)' /\ req'[r].vault = session[c],
         \A r \in Requests : Reporting(r) /\ req[r].vault = session[c] =>
           Reporting(r)' /\ req'[r].vault = session[c]
  PROVE  Shown(c)'
<1>1. session' = session /\ bus' = bus /\ heard' = heard
  BY DEF wsVars
<1>2. CASE Pending(session[c])
  <2>1. Pending(session[c])'
    BY <1>1, <1>2 DEF Pending
  <2>2. QED
    BY <2>1 DEF Shown
<1>3. CASE \E r \in Requests : Reporting(r)' /\ req'[r].vault = session[c]
  <2>1. Pending(session[c])'
    BY <1>1, <1>3 DEF Pending
  <2>2. QED
    BY <2>1 DEF Shown
<1>4. CASE states'[session[c]] = None
  BY <1>1, <1>4 DEF Shown
<1>5. CASE /\ states'[session[c]] = states[session[c]]
           /\ \/ states[session[c]] = None
              \/ Coming(bus[c], session[c], states[session[c]])
              \/ Silent(bus[c], session[c], 1) /\ heard[c] \in {None, states[session[c]]}
  BY <1>1, <1>5 DEF Shown, Coming, Silent
<1>6. QED
  BY <1>2, <1>3, <1>4, <1>5 DEF Shown

(* The handlers that do not broadcast.                                     *)
LEMMA OtherStatus ==
  ASSUME IInv, StepsFit, AnswersFit, StatusInv, NEW r \in Requests,
         \/ CheckAuth(r) \/ CheckVault(r) \/ RunCli(r)
         \/ SetToken(r) \/ OpenToken(r) \/ WriteToken(r)
         \/ OpenStates(r) \/ WriteStates(r)
  PROVE  StatusInv'
<1>1. OwnMove(r) /\ Active(r) /\ UNCHANGED <<states, reply, wsVars, met>>
  BY OtherSteps, PersistSteps
<1>2. Reporting(r)' = Reporting(r)
  <2>1. CASE OpenStates(r) \/ WriteStates(r)
    <3>1. /\ pc[r] \in {"persist_states", "write_states"} /\ req' = req
          /\ \/ pc'[r] \in {"write_states", "broadcast"}
             \/ req[r].op = "unlink"
      BY <2>1, PersistSteps DEF OwnMove
    <3>2. QED
      BY <3>1 DEF Reporting
  <2>2. CASE ~(OpenStates(r) \/ WriteStates(r))
    <3>1. /\ pc[r] \notin {"persist_states", "write_states", "broadcast"}
          /\ pc'[r] \notin {"persist_states", "write_states", "broadcast"}
      BY <2>2, OtherSteps
    <3>2. QED
      BY <3>1 DEF Reporting
  <2>3. QED
    BY <2>1, <2>2
<1>3. req' = req /\ \A q \in Requests : Reporting(q)' = Reporting(q)
  BY <1>1, <1>2 DEF Reporting, OwnMove
<1>4. OneAtATime'
  BY <1>1, OneAtATimeByMove DEF StatusInv
<1>5. ReportsCurrent'
  BY <1>1, <1>3 DEF StatusInv, ReportsCurrent
<1>6. SessionsShown'
  <2>1. ASSUME NEW c \in Clients, Shown(c) PROVE Shown(c)'
    BY <1>1, <1>3, <2>1, ShownStays
  <2>2. QED
    BY <1>1, <2>1 DEF StatusInv, SessionsShown, wsVars
<1>7. QED
  BY <1>4, <1>5, <1>6 DEF StatusInv

(* An update of a vault's state is one nobody else is reporting on.        *)
LEMMA UpdateStatus ==
  ASSUME IInv, StepsFit, AnswersFit, StatusInv, NEW r \in Requests,
         InsertState(r) \/ SetStatus(r) \/ RemoveState(r)
  PROVE  StatusInv'
<1> DEFINE v == req[r].vault
<1>1. /\ OwnMove(r) /\ Active(r) /\ UNCHANGED wsVars /\ UNCHANGED met
      /\ req[r] \in Calls /\ v \in Vaults /\ req' = req
      /\ pc[r] \in {"insert", "set_status", "remove"}
      /\ \A w \in Vaults : w # v => states'[w] = states[w]
  BY UpdateSteps DEF OwnMove
<1>2. \/ pc'[r] = "done" /\ UNCHANGED <<states, reply>>
      \/ /\ pc'[r] = "persist_states"
         /\ reply'[r] = states'[v]
         /\ req[r].op = "unlink" => states'[v] = None
  BY UpdateSteps
<1>3. \A q \in Requests \ {r} : Reporting(q)' = Reporting(q) /\ reply'[q] = reply[q]
  BY <1>1 DEF Reporting, OwnMove
<1>4. ~Reporting(r) /\ v # None
  BY <1>1 DEF Reporting
<1>5. \A q \in Requests \ {r} :
        Reporting(q) /\ req[q].vault \notin met => req[q].vault \in Vaults /\ req[q].vault # v
  BY <1>1, <1>4, ReportingCall DEF StatusInv, OneAtATime
<1>6. OneAtATime'
  BY <1>1, OneAtATimeByMove DEF StatusInv
<1>7. ReportsCurrent'
  <2> SUFFICES ASSUME NEW q \in Requests, Reporting(q)', req[q].vault \notin met
               PROVE  reply'[q] = states'[req[q].vault]
    BY <1>1 DEF ReportsCurrent
  <2>1. CASE q = r
    BY <1>2, <2>1 DEF Reporting
  <2>2. CASE q # r
    BY <1>1, <1>3, <1>5, <2>2 DEF StatusInv, ReportsCurrent
  <2>3. QED
    BY <2>1, <2>2
<1>8. SessionsShown'
  <2>1. ASSUME NEW c \in Clients, Shown(c), session[c] # None PROVE Shown(c)'
    <3>1. session[c] \in Vaults
      BY <2>1 DEF IInv, TypeOK
    <3>2. \/ states'[session[c]] \in {states[session[c]], None}
          \/ \E q \in Requests : Reporting(q)' /\ req'[q].vault = session[c]
      <4>1. CASE session[c] # v \/ UNCHANGED states
        BY <1>1, <3>1, <4>1
      <4>2. CASE session[c] = v /\ pc'[r] = "persist_states"
        <5>1. req[r].op = "unlink" \/ Reporting(r)'
          BY <1>1, <4>2 DEF Reporting
        <5>2. pc'[r] # "done"
          BY <4>2
        <5>3. QED
          BY <1>1, <1>2, <4>2, <5>1, <5>2
      <4>3. QED
        BY <1>2, <4>1, <4>2
    <3>3. \A q \in Requests : Reporting(q) /\ req[q].vault = session[c] =>
            Reporting(q)' /\ req'[q].vault = session[c]
      BY <1>1, <1>3, <1>4
    <3>4. QED
      BY <1>1, <2>1, <3>2, <3>3, ShownStays
  <2>2. QED
    BY <1>1, <2>1 DEF StatusInv, SessionsShown, wsVars
<1>9. QED
  BY <1>6, <1>7, <1>8 DEF StatusInv

(* A broadcast reports the state of this moment to every session, unless   *)
(* it overruns the session's receiver.                                     *)
LEMMA BroadcastStatusInv ==
  ASSUME IInv, StepsFit, AnswersFit, StatusInv, NEW r \in Requests, BroadcastStatus(r)
  PROVE  StatusInv'
<1> DEFINE m == [vault |-> req[r].vault, state |-> reply[r]]
<1>1. /\ OwnMove(r) /\ Active(r) /\ UNCHANGED <<states, reply, session, subscribed, heard, met>>
      /\ req' = req /\ req[r].vault \in Vaults /\ reply[r] \in SyncStates
      /\ pc[r] = "broadcast" /\ pc'[r] = "done"
  BY BroadcastStep DEF OwnMove
<1>2. m \in Messages /\ m.vault = req[r].vault /\ m.state = reply[r]
  BY <1>1 DEF Messages
<1>3. \A q \in Requests \ {r} : Reporting(q)' = Reporting(q)
  BY <1>1 DEF Reporting, OwnMove
<1>4. ~Reporting(r)'
  BY <1>1 DEF Reporting
<1>5. OneAtATime'
  BY <1>1, OneAtATimeByMove DEF StatusInv
<1>6. ReportsCurrent'
  BY <1>1, <1>3, <1>4 DEF StatusInv, ReportsCurrent
<1>7. ASSUME NEW c \in Clients, session[c] # None, ~lagged'[c]
      PROVE  bus'[c] = Append(bus[c], m) /\ ~lagged[c]
  BY <1>7 DEF BroadcastStatus, Newest
<1>8. ASSUME NEW c \in Clients, session[c] = None, bus[c] = <<>> PROVE bus'[c] = <<>>
  BY <1>8 DEF BroadcastStatus, Newest, Overrun
<1>9. ASSUME NEW c \in Clients, session[c] # None, session[c] \notin met, ~lagged'[c] PROVE Shown(c)'
  <2> DEFINE v == session[c]
  <2>1. bus'[c] = Append(bus[c], m) /\ ~lagged[c] /\ bus[c] \in Seq(Messages)
    BY <1>7, <1>9 DEF IInv, TypeOK
  <2>2. Shown(c)
    BY <1>9, <2>1 DEF StatusInv, SessionsShown
  <2>3. CASE v = req[r].vault /\ req[r].op # "unlink"
    <3>1. reply[r] = states[v]
      BY <1>1, <1>9, <2>3 DEF StatusInv, ReportsCurrent, Reporting
    <3>2. Coming(bus'[c], v, states[v])
      BY <1>2, <2>1, <2>3, <3>1, QueueAppend
    <3>3. QED
      BY <1>1, <3>2 DEF Shown, Coming, Silent
  <2>4. CASE v # req[r].vault
    <3>1. CASE Pending(v)
      <4>1. PICK q \in Requests : Reporting(q) /\ req[q].vault = v
        BY <3>1 DEF Pending
      <4>2. q # r /\ Reporting(q)'
        BY <1>3, <2>4, <4>1
      <4>3. Pending(v)'
        BY <1>1, <4>1, <4>2 DEF Pending
      <4>4. QED
        BY <4>3 DEF Shown
    <3>2. CASE states[v] = None
      BY <1>1, <3>2 DEF Shown
    <3>3. CASE Coming(bus[c], v, states[v])
      <4>1. Coming(bus'[c], v, states[v])
        BY <1>2, <2>1, <2>4, <3>3, QueueAppend
      <4>2. QED
        BY <1>1, <4>1 DEF Shown, Coming, Silent
    <3>4. CASE Silent(bus[c], v, 1) /\ heard[c] \in {None, states[v]}
      <4>1. Silent(bus'[c], v, 1)
        BY <1>2, <2>1, <2>4, <3>4, QueueAppend
      <4>2. QED
        BY <1>1, <3>4, <4>1 DEF Shown, Silent
    <3>5. QED
      BY <2>2, <3>1, <3>2, <3>3, <3>4 DEF Shown
  <2>5. req[r].op # "unlink"
    BY <1>1 DEF AnswersFit
  <2>6. QED
    BY <2>3, <2>4, <2>5
<1>10. SessionsShown'
  BY <1>1, <1>8, <1>9 DEF StatusInv, SessionsShown
<1>11. QED
  BY <1>5, <1>6, <1>10 DEF StatusInv

(* A request that finds another on its vault takes the vault out of what   *)
(* is claimed.                                                             *)
LEMMA ArriveStatus ==
  ASSUME IInv, StepsFit, AnswersFit, StatusInv,
         NEW r \in Requests, NEW call \in Calls, Arrive(r, call)
  PROVE  StatusInv'
<1>1. /\ pc[r] = "new" /\ req'[r] = call /\ UNCHANGED <<states, reply, wsVars>>
      /\ pc'[r] \notin {"persist_states", "write_states", "broadcast"}
      /\ \A s \in Requests \ {r} : req'[s] = req[s] /\ pc'[s] = pc[s]
      /\ met \subseteq met'
  BY ArriveStep
<1>2. \A q \in Requests : Reporting(q)' = Reporting(q) /\ (Reporting(q) => req'[q] = req[q])
  BY <1>1 DEF Reporting
<1>3. \A s \in Requests : Active(s) /\ call.vault \in Vaults \ met' => req[s].vault # call.vault
  BY ArriveStep
<1>4. OneAtATime'
  <2> SUFFICES ASSUME NEW a \in Requests, NEW b \in Requests, a # b, Active(a)', Active(b)',
                      req'[a].vault \in Vaults \ met'
               PROVE  req'[a].vault # req'[b].vault
    BY DEF OneAtATime
  <2>1. \A s \in Requests \ {r} : Active(s)' => Active(s) /\ req'[s] = req[s]
    BY <1>1 DEF Active
  <2>2. CASE a = r
    BY <1>1, <1>3, <2>1, <2>2
  <2>3. CASE b = r
    BY <1>1, <1>3, <2>1, <2>3
  <2>4. CASE a # r /\ b # r
    BY <1>1, <2>1, <2>4 DEF StatusInv, OneAtATime
  <2>5. QED
    BY <2>2, <2>3, <2>4
<1>5. ReportsCurrent'
  BY <1>1, <1>2 DEF StatusInv, ReportsCurrent
<1>6. SessionsShown'
  <2>1. ASSUME NEW c \in Clients, Shown(c) PROVE Shown(c)'
    BY <1>1, <1>2, <2>1, ShownStays
  <2>2. QED
    BY <1>1, <2>1 DEF StatusInv, SessionsShown, wsVars
<1>7. QED
  BY <1>4, <1>5, <1>6 DEF StatusInv

(* A session that opens, subscribes, reads a message or closes.            *)
LEMMA SessionStatus ==
  ASSUME IInv, StatusInv, NEW c \in Clients, Session(c)
  PROVE  StatusInv'
<1>1. UNCHANGED <<req, pc, reply, states, met>>
  BY OtherActors
<1>2. OneAtATime' /\ ReportsCurrent'
  BY <1>1 DEF StatusInv, OneAtATime, ReportsCurrent, Reporting, Active
<1>3. \A v : Pending(v)' = Pending(v)
  BY <1>1 DEF Pending, Reporting
<1>4. /\ session \in [Clients -> Vaults \cup {None}] /\ subscribed \in [Clients -> BOOLEAN]
      /\ bus \in [Clients -> Seq(Messages)] /\ heard \in [Clients -> SyncStates \cup {None}]
      /\ lagged \in [Clients -> BOOLEAN]
  BY DEF IInv, TypeOK
<1>5. ASSUME NEW d \in Clients \ {c}
      PROVE  /\ session'[d] = session[d] /\ subscribed'[d] = subscribed[d] /\ bus'[d] = bus[d]
             /\ heard'[d] = heard[d] /\ lagged'[d] = lagged[d]
  BY <1>4 DEF Session, Connect, SetSubscribed, ForwardMessage, Disconnect
<1>6. ASSUME NEW d \in Clients, session'[d] = session[d], bus'[d] = bus[d],
             heard'[d] = heard[d] \/ heard'[d] = None, Shown(d)
      PROVE  Shown(d)'
  <2>1. Pending(session[d])' = Pending(session[d])
    BY <1>1, <1>6 DEF Pending, Reporting
  <2>2. QED
    BY <1>1, <1>6, <2>1 DEF Shown, Coming, Silent
<1>7. ASSUME NEW d \in Clients \ {c}
      PROVE  /\ ~subscribed'[d] => heard'[d] = None
             /\ session'[d] = None => bus'[d] = <<>> /\ heard'[d] = None
             /\ session'[d] # None /\ session'[d] \notin met /\ ~lagged'[d] => Shown(d)'
  BY <1>5, <1>6 DEF StatusInv, SessionsShown
<1>8. /\ ~subscribed'[c] => heard'[c] = None
      /\ session'[c] = None => bus'[c] = <<>> /\ heard'[c] = None
      /\ session'[c] # None /\ session'[c] \notin met /\ ~lagged'[c] => Shown(c)'
  <2>0. /\ ~subscribed[c] => heard[c] = None
        /\ session[c] = None => bus[c] = <<>> /\ heard[c] = None
        /\ session[c] # None /\ session[c] \notin met /\ ~lagged[c] => Shown(c)
    BY DEF StatusInv, SessionsShown
  <2>1. ASSUME NEW v \in Vaults, Connect(c, v)
        PROVE  /\ ~subscribed'[c] => heard'[c] = None
               /\ session'[c] # None /\ Shown(c)'
    <3>1. /\ session'[c] = v /\ session[c] = None
          /\ UNCHANGED <<subscribed, bus, heard>>
      BY <1>4, <2>1 DEF Connect
    <3>2. bus[c] = <<>> /\ heard[c] = None
      BY <2>0, <3>1
    <3>3. Silent(bus'[c], session'[c], 1) /\ heard'[c] = None
      BY <3>1, <3>2 DEF Silent
    <3>4. QED
      BY <2>0, <3>1, <3>3 DEF Shown, Silent
  <2>2. ASSUME NEW on \in BOOLEAN, SetSubscribed(c, on)
        PROVE  /\ ~subscribed'[c] => heard'[c] = None
               /\ session'[c] # None
               /\ session'[c] \notin met /\ ~lagged'[c] => Shown(c)'
    <3>1. /\ session[c] # None /\ UNCHANGED <<session, bus, lagged>> /\ subscribed'[c] = on
      BY <1>4, <2>2 DEF SetSubscribed
    <3>2. heard'[c] = IF on THEN heard[c] ELSE None
      BY <1>4, <2>2 DEF SetSubscribed
    <3>3. session[c] \notin met /\ ~lagged[c] => Shown(c)'
      BY <1>6, <2>0, <3>1, <3>2
    <3>4. QED
      BY <3>1, <3>2, <3>3
  <2>3. ASSUME ForwardMessage(c)
        PROVE  /\ ~subscribed'[c] => heard'[c] = None
               /\ session'[c] # None
               /\ session'[c] \notin met /\ ~lagged'[c] => Shown(c)'
    <3> DEFINE m == Head(bus[c])
               v == session[c]
    <3>1. /\ bus[c] # <<>> /\ bus'[c] = Tail(bus[c]) /\ UNCHANGED <<session, subscribed, lagged>>
          /\ heard'[c] = IF m.vault = v /\ subscribed[c] THEN m.state ELSE heard[c]
      BY <1>4, <2>3 DEF ForwardMessage
    <3>2. v # None
      BY <2>0, <3>1
    <3>3. ~subscribed'[c] => heard'[c] = None
      BY <2>0, <3>1
    <3>4. ASSUME session[c] \notin met, ~lagged[c] PROVE Shown(c)'
      <4>1. CASE Pending(v) \/ states[v] = None
        <5>1. Pending(v)' = Pending(v)
          BY <1>1, <3>1 DEF Pending, Reporting
        <5>2. QED
          BY <1>1, <3>1, <4>1, <5>1 DEF Shown
      <4>2. CASE Coming(bus[c], v, states[v])
        <5>1. \/ Coming(bus'[c], v, states[v])
              \/ m.vault = v /\ m.state = states[v] /\ Silent(bus'[c], v, 1)
          BY <1>4, <3>1, <4>2, ComingTail
        <5>2. m.vault = v /\ m.state = states[v] => heard'[c] \in {None, states[v]}
          BY <2>0, <3>1
        <5>3. QED
          BY <1>1, <3>1, <5>1, <5>2 DEF Shown, Coming, Silent
      <4>3. CASE Silent(bus[c], v, 1) /\ heard[c] \in {None, states[v]}
        <5>0. bus[c] \in Seq(Messages) /\ Silent(bus[c], v, 1)
          BY <1>4, <4>3
        <5>1. m.vault # v /\ Silent(bus'[c], v, 1)
          BY <3>1, <5>0, SilentTail
        <5>2. QED
          BY <1>1, <3>1, <4>3, <5>1 DEF Shown, Silent
      <4>4. QED
        BY <2>0, <3>2, <3>4, <4>1, <4>2, <4>3 DEF Shown
    <3>5. QED
      BY <3>1, <3>2, <3>3, <3>4
  <2>4. CASE Disconnect(c)
    BY <1>4, <2>4 DEF Disconnect
  <2>5. QED
    BY <2>1, <2>2, <2>3, <2>4 DEF Session
<1>9. SessionsShown'
  BY <1>1, <1>7, <1>8 DEF SessionsShown
<1>10. QED
  BY <1>2, <1>9 DEF StatusInv

(* StatusInv is inductive.                                                 *)
LEMMA StatusStep ==
  ASSUME IInv, StepsFit, AnswersFit, StatusInv, [Next]_vars PROVE StatusInv'
<1>1. CASE Restart
  <2>1. /\ \A r \in Requests : pc'[r] \in {"new", "done"}
        /\ \A c \in Clients : session'[c] = None /\ bus'[c] = <<>> /\ heard'[c] = None
    BY <1>1, RestartStep
  <2>2. OneAtATime' /\ ReportsCurrent'
    BY <2>1 DEF OneAtATime, ReportsCurrent, Active, Reporting
  <2>3. SessionsShown'
    BY <2>1 DEF SessionsShown
  <2>4. QED
    BY <2>2, <2>3 DEF StatusInv
<1>2. ASSUME UNCHANGED <<req, pc, reply, states, wsVars, met>> PROVE StatusInv'
  BY <1>2 DEF StatusInv, OneAtATime, ReportsCurrent, SessionsShown, Shown, Pending, Reporting,
              Coming, Silent, Active, wsVars
<1>3. CASE UNCHANGED vars \/ \E v \in Vaults : ChangeVaults(v)
  BY <1>2, <1>3 DEF vars, ChangeVaults, requestVars, stateVars, history
<1>4. QED
  BY <1>1, <1>3, ArriveStatus, OtherStatus, UpdateStatus, BroadcastStatusInv, SessionStatus, NextCases

(* "broadcasts sync-status": on a vault where no two requests ever met, the *)
(* last status a subscribed session was sent is the vault's status once    *)
(* nothing is under way on it, however writes fail, the plugin restarts,   *)
(* requests on other vaults overlap and sessions come and go.              *)
THEOREM StatusShown == Spec => []ShownStatusIsCurrent
<1>1. Init => StatusInv
  BY DEF Init, StatusInv, OneAtATime, ReportsCurrent, SessionsShown, Active, Reporting
<1>2. IInv /\ StepsFit /\ AnswersFit /\ StatusInv /\ [Next]_vars => StatusInv'
  BY StatusStep
<1>3. IInv /\ StatusInv => ShownStatusIsCurrent
  <2> SUFFICES ASSUME IInv, StatusInv, NEW c \in Clients, ~Busy(session[c]),
                      session[c] \notin met, bus[c] = <<>>, ~lagged[c]
               PROVE  UpToDate(c)
    BY DEF ShownStatusIsCurrent
  <2>1. CASE session[c] = None
    BY <2>1 DEF StatusInv, SessionsShown, UpToDate
  <2>2. CASE session[c] # None
    <3>1. Shown(c)
      BY <2>2 DEF StatusInv, SessionsShown
    <3>2. ~Pending(session[c])
      BY DEF Busy, Pending, Reporting, Active
    <3>3. Len(bus[c]) = 0
      OBVIOUS
    <3>4. ~Coming(bus[c], session[c], states[session[c]])
      BY <3>3 DEF Coming
    <3>5. QED
      BY <3>1, <3>2, <3>4 DEF Shown, UpToDate
  <2>3. QED
    BY <2>1, <2>2
<1>4. QED
  BY <1>1, <1>2, <1>3, AnswersInv, PTL DEF Spec

=============================================================================
