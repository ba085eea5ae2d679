------------------------------ MODULE LiveSync ------------------------------
(***************************************************************************)
(* Live sync of one vault: the index of LiveIndex publishes its events on  *)
(* a bounded broadcast channel, every /ws connection (server/src/ws.rs)    *)
(* reads them in order and forwards them, and a client keeps a copy of the *)
(* tree: it connects, fetches GET /api/fs/tree and then replays what its   *)
(* socket delivers.  The client is the most careful one possible: frames   *)
(* that arrive before its fetch are kept and replayed after it.            *)
(***************************************************************************)
EXTENDS LiveIndex

CONSTANTS
  Clients,   \* browser sessions
  Capacity   \* EVENT_CHANNEL_CAPACITY, events a receiver may be behind

ASSUME CapacityAssumption == Capacity \in Nat \ {0}

VARIABLES
  phase,     \* per client: "away", "subscribed" or "synced"
  inbox,     \* events sent since it subscribed that it has not replayed
  mirror,    \* its copy of the tree
  lagged,    \* its receiver was overrun and events were dropped
  midBatch   \* it subscribed while a batch was being applied

clientVars == <<phase, inbox, mirror, lagged, midBatch>>
syncVars == <<vars, clientVars>>

Phases == {"away", "subscribed", "synced"}

SyncTypeOK ==
  /\ TypeOK
  /\ phase \in [Clients -> Phases]
  /\ inbox \in [Clients -> Seq(Events)]
  /\ \A c \in Clients : Len(inbox[c]) <= Capacity
  /\ mirror \in [Clients -> Trees]
  /\ lagged \in [Clients -> BOOLEAN]
  /\ midBatch \in [Clients -> BOOLEAN]

SyncInit ==
  /\ Init
  /\ phase = [c \in Clients |-> "away"]
  /\ inbox = [c \in Clients |-> <<>>]
  /\ mirror = [c \in Clients |-> EmptyTree]
  /\ lagged = [c \in Clients |-> FALSE]
  /\ midBatch = [c \in Clients |-> FALSE]

(* The broadcast channel (external: tokio) keeps the last Capacity events; *)
(* a receiver further behind than that continues with the oldest kept one. *)
Overrun(s) == Len(s) > Capacity
(* Mutant: one event more than the ring holds is kept.                     *)
NewestOffByOne(s) == IF Overrun(s) THEN SubSeq(s, Len(s) - Capacity, Len(s)) ELSE s

Newest(s) == IF Overrun(s) THEN SubSeq(s, Len(s) - Capacity + 1, Len(s)) ELSE s

(* Mutant: events reach only the sessions that have fetched the tree.      *)
BroadcastToSynced(es) ==
  LET behind(c) == IF phase[c] = "synced" THEN inbox[c] \o es ELSE inbox[c] IN
  /\ inbox' = [c \in Clients |-> Newest(behind(c))]
  /\ lagged' = [c \in Clients |-> lagged[c] \/ Overrun(behind(c))]
  /\ UNCHANGED <<phase, mirror, midBatch>>

Broadcast(es) ==
  LET behind(c) == IF phase[c] = "away" THEN <<>> ELSE inbox[c] \o es IN
  /\ inbox' = [c \in Clients |-> Newest(behind(c))]
  /\ lagged' = [c \in Clients |-> lagged[c] \/ Overrun(behind(c))]
  /\ UNCHANGED <<phase, mirror, midBatch>>

(* apply_paths re-stats a path and sends its event, if it has one, before  *)
(* the snapshot that contains the change is stored.                        *)
Publish(p) ==
  /\ ApplyPath(p)
  /\ Broadcast(SubSeq(sent', Len(sent) + 1, Len(sent')))

(* ws_handler: the vault is registered once build_live has returned; the   *)
(* receiver sees the events sent from now on.                              *)
Connect(c) ==
  /\ phase[c] = "away"
  /\ builder = "live"
  /\ phase' = [phase EXCEPT ![c] = "subscribed"]
  /\ midBatch' = [midBatch EXCEPT ![c] = applying]
  /\ lagged' = [lagged EXCEPT ![c] = FALSE]
  /\ UNCHANGED <<vars, inbox, mirror>>

(* Mutant: the receiver is created after the fetch, not before it.         *)
FetchThenSubscribe(c) ==
  /\ phase[c] = "subscribed"
  /\ phase' = [phase EXCEPT ![c] = "synced"]
  /\ mirror' = [mirror EXCEPT ![c] = tree]
  /\ inbox' = [inbox EXCEPT ![c] = <<>>]
  /\ UNCHANGED <<vars, lagged, midBatch>>

(* fs_tree: the snapshot as it is now.                                     *)
Fetch(c) ==
  /\ phase[c] = "subscribed"
  /\ phase' = [phase EXCEPT ![c] = "synced"]
  /\ mirror' = [mirror EXCEPT ![c] = tree]
  /\ UNCHANGED <<vars, inbox, lagged, midBatch>>

(* serve_socket's event branch: forward the oldest unread event.  The      *)
(* Lagged branch only continues: what Broadcast dropped stays dropped.     *)
Forward(c) ==
  /\ phase[c] = "synced"
  /\ inbox[c] # <<>>
  /\ mirror' = [mirror EXCEPT ![c] = ReplayEvent(@, Head(inbox[c]))]
  /\ inbox' = [inbox EXCEPT ![c] = Tail(@)]
  /\ UNCHANGED <<vars, phase, lagged, midBatch>>

(* Close frame, end of stream or a failed send: the receiver is dropped.   *)
Disconnect(c) ==
  /\ phase[c] # "away"
  /\ phase' = [phase EXCEPT ![c] = "away"]
  /\ inbox' = [inbox EXCEPT ![c] = <<>>]
  /\ mirror' = [mirror EXCEPT ![c] = EmptyTree]
  /\ lagged' = [lagged EXCEPT ![c] = FALSE]
  /\ midBatch' = [midBatch EXCEPT ![c] = FALSE]
  /\ UNCHANGED vars

Session(c) == Connect(c) \/ Fetch(c) \/ Forward(c) \/ Disconnect(c)

(* Steps of the index that publish nothing.                                *)
Silent == Environment \/ Unkind \/ Builder \/ ApplyPathsBegin \/ ApplyPathsStore

SyncNext ==
  \/ Silent /\ UNCHANGED clientVars
  \/ \E p \in Paths : Publish(p)
  \/ \E c \in Clients : Session(c)

SyncSpec == SyncInit /\ [][SyncNext]_syncVars

(* The index's threads run and every connection's task forwards; nothing   *)
(* is assumed of who connects, fetches or leaves.                          *)
SyncFairSpec ==
  /\ SyncSpec
  /\ WF_syncVars((Builder \/ ApplyPathsBegin \/ ApplyPathsStore) /\ UNCHANGED clientVars)
  /\ WF_syncVars(\E p \in Paths : Publish(p))
  /\ \A c \in Clients : WF_syncVars(Forward(c))

-----------------------------------------------------------------------------
Synced(c) == phase[c] = "synced"

(* At every moment, for a client that was never overrun and did not        *)
(* subscribe in the middle of a batch: its copy plus the events still on   *)
(* their way is exactly the index's newest state, however its fetch fell   *)
(* among batches, stores and frames.                                       *)
MirrorFollowsIndex ==
  \A c \in Clients :
    (Synced(c) /\ ~lagged[c] /\ ~midBatch[c])
      => FoldLeft(ReplayEvent, mirror[c], inbox[c]) = View

NothingInFlight(c) == ~applying /\ inbox[c] = <<>>

(* ws.rs: "a lagging client recovers": a session that has read all that    *)
(* its socket has for it shows the index once the index is at rest.        *)
LaggingClientRecovers ==
  \A c \in Clients :
    (Synced(c) /\ ~midBatch[c] /\ NothingInFlight(c)) => mirror[c] = tree

(* srLiveSync end to end: once the disk is quiet, every session that is    *)
(* connected, was not overrun and did not join in the middle of a batch    *)
(* shows the disk, and keeps showing it.                                   *)
SessionsCatchUp ==
  \A c \in Clients :
    <>[]((Synced(c) /\ ~lagged[c] /\ ~midBatch[c]) => mirror[c] = disk)

=============================================================================
