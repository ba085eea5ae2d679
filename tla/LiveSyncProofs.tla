--------------------------- MODULE LiveSyncProofs ---------------------------
(***************************************************************************)
(* Proofs about LiveSync for every vault, every number of sessions and     *)
(* every capacity of the channel.                                          *)
(***************************************************************************)
EXTENDS LiveSync, LiveIndexProofs

(* What the sessions do is invisible to the index: seen through the        *)
(* variables of LiveIndex, live sync is the index in its environment.      *)
THEOREM SyncIsIndex == SyncSpec => UnkindSpec
  <1>1. SyncInit => Init
    BY DEF SyncInit
  <1>2. [SyncNext]_syncVars => [Next \/ Unkind]_vars
    <2> SUFFICES ASSUME [SyncNext]_syncVars PROVE [Next \/ Unkind]_vars
      OBVIOUS
    <2>1. CASE Silent
      BY <2>1 DEF Silent, Next, Watcher
    <2>2. ASSUME NEW p \in Paths, Publish(p) PROVE Next
      BY <2>2 DEF Publish, Next, Watcher
    <2>3. ASSUME NEW c \in Clients, Session(c) PROVE UNCHANGED vars
      BY <2>3 DEF Session, Connect, Fetch, Forward, Disconnect
    <2>4. CASE UNCHANGED syncVars
      BY <2>4 DEF syncVars
    <2> QED BY <2>1, <2>2, <2>3, <2>4 DEF SyncNext
  <1> QED BY <1>1, <1>2, PTL DEF SyncSpec, UnkindSpec

-----------------------------------------------------------------------------
(* Type correctness, and the bound on what a receiver is behind.           *)

(* What is left of a channel that overflows is a sequence within its       *)
(* capacity.                                                               *)
LEMMA NewestType ==
  ASSUME NEW s \in Seq(Events)
  PROVE  Newest(s) \in Seq(Events) /\ Len(Newest(s)) <= Capacity
  <1>1. Capacity \in Nat \ {0} /\ Len(s) \in Nat
    BY CapacityAssumption
  <1>2. CASE Len(s) > Capacity
    <2> DEFINE a == Len(s) - Capacity + 1
    <2>1. a \in 1..Len(s) /\ Newest(s) = SubSeq(s, a, Len(s))
      BY <1>1, <1>2 DEF Newest, Overrun
    <2>2. SubSeq(s, a, Len(s)) \in Seq(Events)
      BY <1>1, <2>1
    <2>3. Len(SubSeq(s, a, Len(s))) = Capacity
      BY <1>1, <1>2
    <2> QED BY <1>1, <2>1, <2>2, <2>3
  <1>3. CASE ~(Len(s) > Capacity)
    BY <1>1, <1>3 DEF Newest, Overrun
  <1> QED BY <1>2, <1>3

(* What a re-stat publishes, as the sessions see it.                       *)
LEMMA PublishedIs ==
  ASSUME TypeOK, NEW p \in Paths, ApplyPath(p)
  PROVE  /\ EventsFor(p, next[p], disk[p]) \in Seq(Events)
         /\ SubSeq(sent', Len(sent) + 1, Len(sent')) = EventsFor(p, next[p], disk[p])
  <1> DEFINE es == EventsFor(p, next[p], disk[p])
  <1>1. next[p] \in Nodes /\ disk[p] \in Nodes
    BY DEF TypeOK, Trees
  <1>2. es \in Seq(Events)
    BY <1>1, EventsForType
  <1>3. sent \in Seq(Events) /\ sent' = sent \o es
    BY DEF TypeOK, ApplyPath
  <1> HIDE DEF es
  <1>4. Len(sent) \in Nat /\ Len(es) \in Nat /\ Len(sent') = Len(sent) + Len(es)
    BY <1>2, <1>3
  <1>5. \A i \in 1..Len(es) : sent'[Len(sent) + i] = es[i]
    BY <1>2, <1>3, <1>4
  <1>6. SubSeq(sent', Len(sent) + 1, Len(sent')) = es
    BY <1>2, <1>3, <1>4, <1>5
  <1> QED BY <1>2, <1>6 DEF es

SessionTypeOK ==
  /\ phase \in [Clients -> Phases]
  /\ inbox \in [Clients -> Seq(Events)]
  /\ \A c \in Clients : Len(inbox[c]) <= Capacity
  /\ mirror \in [Clients -> Trees]
  /\ lagged \in [Clients -> BOOLEAN]
  /\ midBatch \in [Clients -> BOOLEAN]

(* A broadcast keeps the sessions' types.                                  *)
LEMMA BroadcastType ==
  ASSUME SessionTypeOK, NEW es \in Seq(Events), Broadcast(es)
  PROVE  SessionTypeOK'
  <1> DEFINE behind(c) == IF phase[c] = "away" THEN <<>> ELSE inbox[c] \o es
  <1>1. ASSUME NEW c \in Clients PROVE behind(c) \in Seq(Events)
    <2>1. inbox[c] \in Seq(Events)
      BY DEF SessionTypeOK
    <2>2. inbox[c] \o es \in Seq(Events)
      BY <2>1
    <2> QED BY <2>2, EmptyTypes
  <1>2. inbox' = [c \in Clients |-> Newest(behind(c))]
    BY DEF Broadcast
  <1>3. lagged' = [c \in Clients |-> lagged[c] \/ Overrun(behind(c))]
    BY DEF Broadcast
  <1>4. UNCHANGED <<phase, mirror, midBatch>>
    BY DEF Broadcast
  <1> HIDE DEF behind
  <1>5. \A c \in Clients : Newest(behind(c)) \in Seq(Events) /\ Len(Newest(behind(c))) <= Capacity
    BY <1>1, NewestType
  <1>6. inbox' \in [Clients -> Seq(Events)] /\ \A c \in Clients : Len(inbox'[c]) <= Capacity
    BY <1>2, <1>5
  <1>7. \A c \in Clients : (lagged[c] \/ Overrun(behind(c))) \in BOOLEAN
    OBVIOUS
  <1>8. lagged' \in [Clients -> BOOLEAN]
    BY <1>3, <1>7
  <1> QED BY <1>4, <1>6, <1>8 DEF SessionTypeOK

(* A step of a session keeps the sessions' types.                          *)
LEMMA SessionType ==
  ASSUME TypeOK, SessionTypeOK, NEW c \in Clients, Session(c)
  PROVE  SessionTypeOK'
  <1> USE DEF SessionTypeOK
  <1>1. tree \in Trees /\ EmptyTree \in Trees /\ applying \in BOOLEAN
    BY EmptyTypes DEF TypeOK
  <1>2. {"away", "subscribed", "synced"} \subseteq Phases
    BY DEF Phases
  <1>3. Len(<<>>) <= Capacity /\ <<>> \in Seq(Events)
    BY CapacityAssumption, EmptyTypes
  <1>4. CASE Connect(c)
    BY <1>1, <1>2, <1>4 DEF Connect
  <1>5. CASE Fetch(c)
    BY <1>1, <1>2, <1>5 DEF Fetch
  <1>6. CASE Forward(c)
    <2>1. inbox[c] \in Seq(Events) /\ inbox[c] # <<>> /\ Len(inbox[c]) <= Capacity
      BY <1>6 DEF Forward
    <2>2. Head(inbox[c]) \in Events /\ Tail(inbox[c]) \in Seq(Events)
      BY <2>1
    <2>3. Len(Tail(inbox[c])) <= Capacity
      BY <2>1, CapacityAssumption
    <2>4. ReplayEvent(mirror[c], Head(inbox[c])) \in Trees
      BY <2>2, ReplayAt
    <2>5. /\ mirror' = [mirror EXCEPT ![c] = ReplayEvent(mirror[c], Head(inbox[c]))]
          /\ inbox' = [inbox EXCEPT ![c] = Tail(inbox[c])]
          /\ UNCHANGED <<phase, lagged, midBatch>>
      BY <1>6 DEF Forward
    <2> QED BY <2>2, <2>3, <2>4, <2>5
  <1>7. CASE Disconnect(c)
    BY <1>1, <1>2, <1>3, <1>7 DEF Disconnect
  <1> QED BY <1>4, <1>5, <1>6, <1>7 DEF Session

(* Every variable keeps its type, and no receiver holds more than the      *)
(* channel's capacity.                                                     *)
THEOREM SyncTypeCorrect == SyncSpec => []SyncTypeOK
  <1>1. SyncInit => SessionTypeOK
    BY EmptyTypes, CapacityAssumption DEF SyncInit, SessionTypeOK, Phases
  <1>2. TypeOK /\ SessionTypeOK /\ [SyncNext]_syncVars => SessionTypeOK'
    <2> SUFFICES ASSUME TypeOK, SessionTypeOK, [SyncNext]_syncVars PROVE SessionTypeOK'
      OBVIOUS
    <2>1. CASE UNCHANGED clientVars
      BY <2>1 DEF clientVars, SessionTypeOK
    <2>2. ASSUME NEW p \in Paths, Publish(p) PROVE SessionTypeOK'
      BY <2>2, PublishedIs, BroadcastType DEF Publish
    <2>3. ASSUME NEW c \in Clients, Session(c) PROVE SessionTypeOK'
      BY <2>3, SessionType
    <2> QED BY <2>1, <2>2, <2>3 DEF SyncNext, syncVars
  <1>3. TypeOK /\ SessionTypeOK => SyncTypeOK
    BY DEF SyncTypeOK, SessionTypeOK
  <1> QED BY <1>1, <1>2, <1>3, SyncIsIndex, TypeCorrect, PTL DEF SyncSpec

-----------------------------------------------------------------------------
(* The mirrors.  A session that was told everything since it subscribed    *)
(* can start from the snapshot of any moment: replayed over it, the events *)
(* in its inbox give the newest state, because every path they affect gets *)
(* the node of the last of them and every other path has not changed.      *)
Following(c) == phase[c] # "away" /\ ~lagged[c] /\ ~midBatch[c]
Base(c) == IF Synced(c) THEN mirror[c] ELSE tree

MirrorOf(c) ==
  /\ phase[c] = "away" => inbox[c] = <<>>
  /\ phase[c] # "away" => builder = "live"
  /\ Following(c) => Settles(Base(c), inbox[c], View)

MirrorInv == \A c \in Clients : MirrorOf(c)

(* A step of the index that publishes nothing leaves the newest state as   *)
(* it is once the vault is live, and the snapshot as it is or equal to the *)
(* newest state.                                                           *)
LEMMA SilentView ==
  ASSUME TypeOK, TellInv, Silent, builder = "live"
  PROVE  View' = View /\ builder' = "live" /\ (tree' = tree \/ tree' = View)
  <1>1. CASE IndexUnchanged
    BY <1>1, ViewUnchanged DEF IndexUnchanged, builderVars
  <1>2. CASE Environment
    BY <1>1, <1>2 DEF Environment, Create, Modify, Delete, Rename, MoveOut
  <1>3. CASE Unkind
    BY <1>1, <1>3 DEF Unkind, MoveIn, RenameFolder, WatchError
  <1>4. CASE Builder
    BY <1>4 DEF Builder, StartWatch, WalkEntry, ReconcileStore
  <1>5. CASE ApplyPathsBegin
    <2>1. ~applying /\ applying' /\ next' = tree /\ tree' = tree /\ builder' = builder
      BY <1>5 DEF ApplyPathsBegin, builderVars
    <2> QED BY <2>1 DEF View
  <1>6. CASE ApplyPathsStore
    <2>1. applying /\ ~applying' /\ tree' = next /\ builder' = builder
      BY <1>6 DEF ApplyPathsStore, builderVars
    <2> QED BY <2>1 DEF View
  <1> QED BY <1>2, <1>3, <1>4, <1>5, <1>6 DEF Silent

(* A step of the index that publishes nothing leaves what the sessions     *)
(* have.                                                                   *)
LEMMA SilentMirrors ==
  ASSUME TypeOK, TellInv, MirrorInv, Silent, UNCHANGED clientVars
  PROVE  MirrorInv'
  <1> SUFFICES ASSUME NEW c \in Clients PROVE MirrorOf(c)'
    BY DEF MirrorInv
  <1>1. UNCHANGED <<phase, inbox, mirror, lagged, midBatch>> /\ MirrorOf(c)
    BY DEF clientVars, MirrorInv
  <1>2. CASE phase[c] = "away"
    BY <1>1, <1>2 DEF MirrorOf, Following
  <1>3. CASE phase[c] # "away"
    <2>1. builder = "live"
      BY <1>1, <1>3 DEF MirrorOf
    <2>2. View' = View /\ builder' = "live" /\ (tree' = tree \/ tree' = View)
      BY <2>1, SilentView
    <2>3. ASSUME Following(c) PROVE Settles(Base(c)', inbox[c], View)
      <3>1. Settles(Base(c), inbox[c], View)
        BY <1>1, <2>3 DEF MirrorOf
      <3>2. Base(c)' = Base(c) \/ Base(c)' = View
        BY <1>1, <2>2 DEF Base, Synced
      <3> QED BY <3>1, <3>2, SettlesAgain
    <2>4. Following(c)' = Following(c)
      BY <1>1 DEF Following
    <2>5. (Following(c) => Settles(Base(c), inbox[c], View))'
      <3> DEFINE b == Base(c)'
                 i == inbox[c]'
                 v == View'
      <3>1. Following(c) => Settles(b, i, v)
        BY <1>1, <2>2, <2>3
      <3> QED BY <2>4, <3>1 DEF Settles
    <2> QED BY <1>1, <1>3, <2>2, <2>5 DEF MirrorOf
  <1> QED BY <1>2, <1>3

(* A batch reaches every open session and settles what the index has       *)
(* become.                                                                 *)
LEMMA PublishMirrors ==
  ASSUME TypeOK, SessionTypeOK, TellInv, MirrorInv, NEW p \in Paths, Publish(p)
  PROVE  MirrorInv'
  <1> SUFFICES ASSUME NEW c \in Clients PROVE MirrorOf(c)'
    BY DEF MirrorInv
  <1> DEFINE es == EventsFor(p, next[p], disk[p])
             behind == IF phase[c] = "away" THEN <<>> ELSE inbox[c] \o es
  <1>1. ApplyPath(p) /\ MirrorOf(c)
    BY DEF Publish, MirrorInv
  <1>2. Broadcast(es)
    BY <1>1, PublishedIs DEF Publish
  <1>3. /\ UNCHANGED <<phase, mirror, midBatch>>
        /\ inbox'[c] = Newest(behind)
        /\ lagged'[c] = (lagged[c] \/ Overrun(behind))
    BY <1>2 DEF Broadcast
  <1>4. /\ applying /\ builder = "live" /\ builder' = "live" /\ tree' = tree
        /\ View = next /\ View' = next' /\ next' = Restat(next, p, disk[p])
        /\ next \in Trees /\ inbox[c] \in Seq(Events)
    BY <1>1 DEF ApplyPath, TellInv, BatchTold, builderVars, View, TypeOK, SessionTypeOK
  <1>5. CASE phase[c] = "away"
    <2>1. behind = <<>>
      BY <1>5
    <2>2. Newest(<<>>) = <<>>
      BY CapacityAssumption DEF Newest, Overrun
    <2> QED BY <1>3, <1>5, <2>1, <2>2 DEF MirrorOf, Following
  <1>6. CASE phase[c] # "away" /\ Following(c)'
    <2>1. Following(c) /\ ~Overrun(behind)
      BY <1>3, <1>6 DEF Following
    <2>2. inbox'[c] = inbox[c] \o es
      BY <1>3, <1>6, <2>1 DEF Newest
    <2>3. Settles(Base(c), inbox[c], next)
      BY <1>1, <1>4, <2>1 DEF MirrorOf
    <2>4. Settles(Base(c), inbox'[c], next')
      <3>1. CASE es = <<>> /\ Restat(next, p, disk[p]) = next
        <4>1. inbox'[c] = inbox[c]
          BY <1>4, <2>2, <3>1
        <4> QED BY <1>4, <2>3, <3>1, <4>1
      <3>2. ASSUME NEW e \in Events, es = <<e>>, Restat(next, p, disk[p]) = ReplayEvent(next, e)
            PROVE  Settles(Base(c), inbox'[c], next')
        <4>1. Settles(Base(c), inbox[c] \o <<e>>, ReplayEvent(next, e))
          BY <1>4, <2>3, SettlesAppend
        <4> HIDE DEF es
        <4> QED BY <1>4, <2>2, <3>2, <4>1
      <3> QED BY <1>4, <3>1, <3>2, RestatTold DEF TellInv
    <2>5. Base(c)' = Base(c)
      BY <1>3, <1>4 DEF Base, Synced
    <2>6. Settles(Base(c)', inbox'[c], View')
      BY <1>4, <2>4, <2>5
    <2>7. Settles(Base(c), inbox[c], View)'
      BY <2>6 DEF Settles
    <2> QED BY <1>3, <1>4, <1>6, <2>7 DEF MirrorOf
  <1>7. CASE phase[c] # "away" /\ ~Following(c)'
    BY <1>3, <1>4, <1>7 DEF MirrorOf
  <1> QED BY <1>5, <1>6, <1>7

(* A step of one session, which leaves the others alone.                   *)
LEMMA SessionMirrors ==
  ASSUME TypeOK, SessionTypeOK, MirrorInv, NEW d \in Clients, Session(d)
  PROVE  MirrorInv'
  <1> SUFFICES ASSUME NEW c \in Clients PROVE MirrorOf(c)'
    BY DEF MirrorInv
  <1>1. UNCHANGED vars /\ View' = View /\ tree' = tree /\ builder' = builder
    BY DEF Session, Connect, Fetch, Forward, Disconnect, vars, View
  <1>2. MirrorOf(c) /\ MirrorOf(d)
    BY DEF MirrorInv
  <1>3. ASSUME phase'[c] = phase[c], inbox'[c] = inbox[c], mirror'[c] = mirror[c],
               lagged'[c] = lagged[c], midBatch'[c] = midBatch[c]
        PROVE  MirrorOf(c)'
    <2>1. Base(c)' = Base(c) /\ Following(c)' = Following(c)
      BY <1>1, <1>3 DEF Base, Synced, Following
    <2>2. Following(c) => Settles(Base(c)', inbox'[c], View')
      BY <1>1, <1>2, <1>3, <2>1 DEF MirrorOf
    <2>3. (Following(c) => Settles(Base(c), inbox[c], View))'
      BY <2>1, <2>2 DEF Settles
    <2> QED BY <1>1, <1>2, <1>3, <2>3 DEF MirrorOf
  <1>4. CASE c # d
    <2>1. /\ phase'[c] = phase[c] /\ inbox'[c] = inbox[c] /\ mirror'[c] = mirror[c]
          /\ lagged'[c] = lagged[c] /\ midBatch'[c] = midBatch[c]
      BY <1>4 DEF Session, Connect, Fetch, Forward, Disconnect, SessionTypeOK
    <2> QED BY <1>3, <2>1
  <1>5. ASSUME c = d, Connect(d) PROVE MirrorOf(c)'
    <2>1. /\ phase[c] = "away" /\ builder = "live" /\ inbox' = inbox
          /\ phase'[c] = "subscribed" /\ midBatch'[c] = applying
      BY <1>5 DEF Connect, SessionTypeOK
    <2>2. inbox'[c] = <<>>
      BY <1>2, <2>1 DEF MirrorOf
    <2>3. ASSUME ~midBatch'[c] PROVE Settles(Base(c)', inbox'[c], View')
      <3>1. View' = tree' /\ Base(c)' = tree'
        BY <1>1, <2>1, <2>3 DEF View, Base, Synced
      <3> QED BY <2>2, <3>1, SettlesNothing
    <2>4. (Following(c) => Settles(Base(c), inbox[c], View))'
      BY <2>3 DEF Settles, Following
    <2> QED BY <1>1, <2>1, <2>4 DEF MirrorOf
  <1>6. ASSUME c = d, Fetch(d) PROVE MirrorOf(c)'
    <2>1. /\ phase[c] = "subscribed" /\ phase'[c] = "synced" /\ mirror'[c] = tree
          /\ UNCHANGED <<inbox, lagged, midBatch>>
      BY <1>6 DEF Fetch, SessionTypeOK
    <2>2. Base(c) = tree /\ Base(c)' = tree /\ Following(c)' = Following(c)
      BY <2>1 DEF Base, Synced, Following
    <2>3. Following(c) => Settles(Base(c)', inbox'[c], View')
      BY <1>1, <1>2, <2>1, <2>2 DEF MirrorOf
    <2>4. (Following(c) => Settles(Base(c), inbox[c], View))'
      BY <2>2, <2>3 DEF Settles
    <2> QED BY <1>1, <1>2, <2>1, <2>4 DEF MirrorOf
  <1>7. ASSUME c = d, Forward(d) PROVE MirrorOf(c)'
    <2>1. /\ phase[c] = "synced" /\ inbox[c] # <<>> /\ inbox[c] \in Seq(Events)
          /\ mirror'[c] = ReplayEvent(mirror[c], Head(inbox[c])) /\ mirror[c] \in Trees
          /\ inbox'[c] = Tail(inbox[c])
          /\ UNCHANGED <<phase, lagged, midBatch>>
      BY <1>7 DEF Forward, SessionTypeOK
    <2>2. Base(c) = mirror[c] /\ Base(c)' = mirror'[c] /\ Following(c)' = Following(c)
      BY <2>1 DEF Base, Synced, Following
    <2>3. ASSUME Following(c) PROVE Settles(Base(c)', inbox'[c], View')
      <3>1. Settles(mirror[c], inbox[c], View)
        BY <1>2, <2>2, <2>3 DEF MirrorOf
      <3>2. Settles(ReplayEvent(mirror[c], Head(inbox[c])), Tail(inbox[c]), View)
        BY <2>1, <3>1, SettlesTail
      <3> QED BY <1>1, <2>1, <2>2, <3>2
    <2>4. (Following(c) => Settles(Base(c), inbox[c], View))'
      BY <2>2, <2>3 DEF Settles
    <2> QED BY <1>1, <1>2, <2>1, <2>4 DEF MirrorOf
  <1>8. ASSUME c = d, Disconnect(d) PROVE MirrorOf(c)'
    <2>1. phase'[c] = "away" /\ inbox'[c] = <<>>
      BY <1>8 DEF Disconnect, SessionTypeOK
    <2> QED BY <2>1 DEF MirrorOf, Following
  <1> QED BY <1>4, <1>5, <1>6, <1>7, <1>8 DEF Session

(* In every session that has not lagged the tree the client has and the    *)
(* events still in its channel settle the index of the server.             *)
THEOREM MirrorInvariant ==
  ASSUME Tellable
  PROVE  SyncSpec => []MirrorInv
  <1>1. SyncInit => MirrorInv
    BY DEF SyncInit, MirrorInv, MirrorOf, Following
  <1>2. SyncTypeOK /\ TellInv /\ MirrorInv /\ [SyncNext]_syncVars => MirrorInv'
    <2> SUFFICES ASSUME SyncTypeOK, TellInv, MirrorInv, [SyncNext]_syncVars PROVE MirrorInv'
      OBVIOUS
    <2>1. TypeOK /\ SessionTypeOK
      BY DEF SyncTypeOK, SessionTypeOK
    <2>2. CASE Silent /\ UNCHANGED clientVars
      BY <2>1, <2>2, SilentMirrors
    <2>3. ASSUME NEW p \in Paths, Publish(p) PROVE MirrorInv'
      BY <2>1, <2>3, PublishMirrors
    <2>4. ASSUME NEW c \in Clients, Session(c) PROVE MirrorInv'
      BY <2>1, <2>4, SessionMirrors
    <2>5. CASE UNCHANGED syncVars
      BY <2>5 DEF syncVars, vars, clientVars, MirrorInv, MirrorOf, Following, Base, Synced,
                  Settles, View
    <2> QED BY <2>2, <2>3, <2>4, <2>5 DEF SyncNext
  <1> QED BY <1>1, <1>2, SyncIsIndex, SyncTypeCorrect, TellInvariant, PTL DEF SyncSpec

(* At every moment the copy of a session that was never overrun and did    *)
(* not subscribe in the middle of a batch, with the events still on their  *)
(* way replayed over it, is the index's newest state: for every number of  *)
(* sessions, every capacity and every interleaving.                        *)
THEOREM MirrorsFollow ==
  ASSUME Tellable
  PROVE  SyncSpec => []MirrorFollowsIndex
  <1>1. SyncTypeOK /\ MirrorInv => MirrorFollowsIndex
    <2> SUFFICES ASSUME SyncTypeOK, MirrorInv, NEW c \in Clients,
                        Synced(c), ~lagged[c], ~midBatch[c]
                 PROVE  FoldLeft(ReplayEvent, mirror[c], inbox[c]) = View
      BY DEF MirrorFollowsIndex
    <2>1. Following(c) /\ Base(c) = mirror[c]
      BY DEF Following, Base, Synced
    <2>2. Settles(mirror[c], inbox[c], View)
      BY <2>1 DEF MirrorInv, MirrorOf
    <2>3. mirror[c] \in Trees /\ inbox[c] \in Seq(Events) /\ View \in Trees
      BY DEF SyncTypeOK, TypeOK, View
    <2> QED BY <2>2, <2>3, SettledIsReplayed
  <1> QED BY <1>1, MirrorInvariant, SyncTypeCorrect, PTL

(* The index keeps its promises with sessions attached: nobody who         *)
(* subscribes, fetches, lags or leaves makes it diverge from the disk or   *)
(* lose an entry.                                                          *)
THEOREM SyncKeepsIndex ==
  ASSUME Harmless
  PROVE  SyncSpec => []NoSilentDivergence /\ UntouchedEntriesStay
  BY SyncIsIndex, IndexFollowsDisk, EntriesStay, PTL

(* A session in which nothing is in flight, of a vault in which nothing is *)
(* undelivered, shows the disk.                                            *)
QuietSessionsShowDisk ==
  \A c \in Clients :
    (Synced(c) /\ ~lagged[c] /\ ~midBatch[c] /\ NothingInFlight(c) /\ queue = {})
      => mirror[c] = disk

(* Where nobody reuses, moves or renames folders while the index looks, a  *)
(* client that has had all its events and whose server has had all of its  *)
(* own shows the disk.                                                     *)
THEOREM SessionsShowDisk ==
  ASSUME Hazards = {}
  PROVE  SyncSpec => []QuietSessionsShowDisk
  <1>1. Harmless /\ Tellable
    BY DEF Harmless, Tellable
  <1>2. SyncTypeOK /\ MirrorInv /\ NoSilentDivergence => QuietSessionsShowDisk
    <2> SUFFICES ASSUME SyncTypeOK, MirrorInv, NoSilentDivergence, NEW c \in Clients,
                        Synced(c), ~lagged[c], ~midBatch[c], NothingInFlight(c), queue = {}
                 PROVE  mirror[c] = disk
      BY DEF QuietSessionsShowDisk
    <2>1. Following(c) /\ Base(c) = mirror[c] /\ inbox[c] = <<>> /\ ~applying
      BY DEF Following, Base, Synced, NothingInFlight
    <2>2. builder = "live" /\ Settles(mirror[c], <<>>, View)
      BY <2>1 DEF MirrorInv, MirrorOf, Following
    <2>3. View = tree /\ tree = disk
      BY <2>1, <2>2 DEF View, NoSilentDivergence
    <2>4. mirror[c] \in Trees /\ View \in Trees
      BY DEF SyncTypeOK, TypeOK, View
    <2>5. mirror[c] = View
      BY <2>2, <2>4, EmptyTypes, SettlesNothing, SettlesOne
    <2> QED BY <2>3, <2>5
  <1> QED BY <1>1, <1>2, SyncTypeCorrect, MirrorInvariant, SyncKeepsIndex, PTL

=============================================================================
