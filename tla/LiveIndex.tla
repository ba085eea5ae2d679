------------------------------ MODULE LiveIndex ------------------------------
(***************************************************************************)
(* The warm in-memory index of one vault (server/src/index.rs) against the *)
(* disk it mirrors.                                                        *)
(*                                                                         *)
(*   environment   other processes and the server's own handlers change    *)
(*                 the vault on disk;                                      *)
(*   debouncer     (external: notify + notify-debouncer-full) collects the *)
(*                 changed paths and hands them over in batches;           *)
(*   watcher       the debouncer's callback, apply_paths: re-stats every   *)
(*                 path of a batch in a copy of the snapshot, publishes    *)
(*                 the events, stores the copy;                            *)
(*   builder       build_live: arms the watcher on an empty snapshot, then *)
(*                 reconcile walks the vault and stores what it found.     *)
(*                                                                         *)
(* A tree is a function from every path to the node found there.  What an  *)
(* index can only get right when the outside world is not too fast or too  *)
(* unkind is collected in the constant Hazards: each name in it removes    *)
(* one guard on the environment (or on its timing), see HazardKinds.       *)
(***************************************************************************)
EXTENDS Naturals, SequencesExt

CONSTANTS
  Names,      \* file and directory names
  Paths,      \* vault-relative paths, non-empty sequences of Names
  Stats,      \* what a file's size, mtime and ctime can be
  Absent,     \* no node at a path
  Directory,  \* a directory node (it carries no metadata)
  Hazards,    \* the hazards the environment is allowed to expose
  MaxOps      \* bound on the number of changes of the disk

(* slowWalk       reconcile's walk outlasts the 300 ms debounce;           *)
(* populatedMove  a directory arrives with contents nobody reported;       *)
(* folderRename   a directory with contents is renamed inside the vault;   *)
(* reuse          a directory leaves and its name is used again before the *)
(*                index has dropped the entries below it;                  *)
(* flicker        a path goes away before the event of its creation is     *)
(*                delivered, although a re-stat or the walk has seen it;   *)
(* kindFlip       a file is replaced by a directory before the index has   *)
(*                dropped the file;                                        *)
(* watchError     the debouncer delivers an error or a rescan request.     *)
HazardKinds ==
  {"slowWalk", "populatedMove", "folderRename", "reuse", "flicker", "kindFlip",
   "watchError"}

ASSUME PathsAssumption ==
  /\ Paths \subseteq Seq(Names) \ {<<>>}
  /\ \A p \in Paths : \A n \in 1..Len(p) : SubSeq(p, 1, n) \in Paths  \* its parents
ASSUME NodesAssumption ==
  /\ Absent # Directory
  /\ Absent \notin Stats
  /\ Directory \notin Stats
ASSUME HazardsAssumption == Hazards \subseteq HazardKinds
ASSUME MaxOpsAssumption == MaxOps \in Nat

VARIABLES
  disk,      \* the vault's directory, the truth
  ops,       \* number of changes of the disk so far
  queue,     \* paths with an undelivered debounced event
  fresh,     \* those whose oldest undelivered event is a creation
  tree,      \* VaultIndex.tree, the snapshot every reader loads
  applying,  \* the watcher is inside apply_paths
  batch,     \* paths it has not re-stat'ed yet
  next,      \* its private copy of the snapshot
  sent,      \* events it has published in this call
  builder,   \* progress of build_live: "starting", "walking" or "live"
  acc,       \* nodes collected by the walk
  visited    \* paths whose fate the walk has decided

diskVars     == <<disk, ops>>
debounceVars == <<queue, fresh>>
watcherVars  == <<applying, batch, next, sent>>
builderVars  == <<builder, acc, visited>>
vars == <<disk, ops, queue, fresh, tree, applying, batch, next, sent,
          builder, acc, visited>>

Nodes == Stats \cup {Absent, Directory}
Trees == [Paths -> Nodes]
EmptyTree == [p \in Paths |-> Absent]

Under(p) == {q \in Paths : IsStrictPrefix(p, q)}
Subtree(p) == {p} \cup Under(p)
Above(p) == {a \in Paths : p \in Under(a)}

(* Everything on disk lies in a directory.                                 *)
WellFormed(t) ==
  \A p \in Paths : \A q \in Under(p) : t[q] # Absent => t[p] = Directory

(* Files are created and modified, with their stat; directories are only   *)
(* created; what is deleted has left nothing.                              *)
Events ==
  [type : {"created", "modified"}, path : Paths, node : Stats]
    \cup [type : {"folder-created"}, path : Paths, node : {Directory}]
    \cup [type : {"deleted"}, path : Paths, node : {Absent}]

(* apply_paths, "derive the Ignis event type": the types, with every event *)
(* of the kind the node at its path calls for.                             *)
TypeOK ==
  /\ disk \in Trees
  /\ ops \in 0..MaxOps
  /\ queue \subseteq Paths
  /\ fresh \subseteq queue
  /\ tree \in Trees
  /\ applying \in BOOLEAN
  /\ batch \subseteq Paths
  /\ next \in Trees
  /\ sent \in Seq(Events)
  /\ builder \in {"starting", "walking", "live"}
  /\ acc \in Trees
  /\ visited \subseteq Paths

Init ==
  /\ disk \in Trees /\ WellFormed(disk)
  /\ ops = 0
  /\ queue = {} /\ fresh = {}
  /\ tree = EmptyTree
  /\ applying = FALSE /\ batch = {} /\ next = EmptyTree /\ sent = <<>>
  /\ builder = "starting" /\ acc = EmptyTree /\ visited = {}

(***************************************************************************)
(* The debouncer (external).  Events exist once the watcher is armed.      *)
(***************************************************************************)
Watched(ps) == IF builder = "starting" THEN {} ELSE ps

(* A creation at p, or a change of what is there.                          *)
PushCreate(p) ==
  /\ queue' = queue \cup Watched({p})
  /\ fresh' = fresh \cup Watched({p} \ queue)

PushChange(p) ==
  /\ queue' = queue \cup Watched({p})
  /\ UNCHANGED fresh


(* A removal drops the undelivered events below p; it cancels an           *)
(* undelivered creation of p and is then not delivered itself.             *)
PushRemove(p) ==
  /\ queue' = (queue \ Subtree(p)) \cup Watched({p} \ fresh)
  /\ fresh' = fresh \ Subtree(p)

(* A rename reports both names; if the creation of the old one is still    *)
(* undelivered it becomes a creation of the new one.                       *)
PushRename(p, q) ==
  IF p \in fresh
  THEN /\ queue' = (queue \ {p}) \cup {q}
       /\ fresh' = (fresh \ {p}) \cup ({q} \ queue)
  ELSE /\ queue' = queue \cup Watched({p, q})
       /\ fresh' = fresh \ {q}

(* A batch of due paths is taken out of the debouncer.                     *)
Deliver(ps) ==
  /\ queue' = queue \ ps
  /\ fresh' = fresh \ ps

(***************************************************************************)
(* The environment.  View is the snapshot under construction; the guards   *)
(* below state what each hazard allows.                                    *)
(***************************************************************************)
View == IF builder # "live" THEN acc ELSE IF applying THEN next ELSE tree

NameFree(p) ==
  "reuse" \in Hazards \/ \A q \in Under(p) : View[q] = Absent

KindStable(p, n) ==
  "kindFlip" \in Hazards \/ n # Directory \/ View[p] \notin Stats

CreationDelivered(p) ==
  p \in fresh => \A q \in Subtree(p) : View[q] = Absent

ParentsKnown(p) ==
  \A r \in Subtree(p) : View[r] = Absent => \A q \in Under(r) : View[q] = Absent

NoFlicker(p) ==
  "flicker" \in Hazards \/ (CreationDelivered(p) /\ ParentsKnown(p))

Creatable(p, n) ==
  /\ disk[p] = Absent
  /\ \A a \in Above(p) : disk[a] = Directory
  /\ NameFree(p)
  /\ KindStable(p, n)

CountOp == ops < MaxOps /\ ops' = ops + 1

IndexUnchanged == UNCHANGED <<tree, watcherVars, builderVars>>

Create(p, n) ==
  /\ CountOp
  /\ Creatable(p, n)
  /\ disk' = [disk EXCEPT ![p] = n]
  /\ PushCreate(p)
  /\ IndexUnchanged

Modify(p, s) ==
  /\ CountOp
  /\ disk[p] \in Stats \ {s}
  /\ disk' = [disk EXCEPT ![p] = s]
  /\ PushChange(p)
  /\ IndexUnchanged

(* A file or an empty directory; rm -r is a sequence of these.             *)
Delete(p) ==
  /\ CountOp
  /\ disk[p] # Absent
  /\ \A q \in Under(p) : disk[q] = Absent
  /\ NoFlicker(p)
  /\ disk' = [disk EXCEPT ![p] = Absent]
  /\ PushRemove(p)
  /\ IndexUnchanged

(* rename(2) inside the vault of a file or an empty directory, to a free   *)
(* name or over a file.                                                    *)
Rename(p, q) ==
  /\ CountOp
  /\ p # q /\ disk[p] # Absent
  /\ \A r \in Under(p) : disk[r] = Absent
  /\ q \notin Under(p)
  /\ Creatable(q, disk[p]) \/ (disk[p] \in Stats /\ disk[q] \in Stats)
  /\ NoFlicker(p)
  /\ disk' = [disk EXCEPT ![p] = Absent, ![q] = disk[p]]
  /\ PushRename(p, q)
  /\ IndexUnchanged

(* A file or a directory with all its contents is moved out of the vault:  *)
(* only its own path is reported.                                          *)
MoveOut(p) ==
  /\ CountOp
  /\ disk[p] # Absent
  /\ NoFlicker(p)
  /\ disk' = [r \in Paths |-> IF r \in Subtree(p) THEN Absent ELSE disk[r]]
  /\ PushChange(p)
  /\ IndexUnchanged

(* A directory arrives with contents: moved in, or filled before its own   *)
(* watch was armed.  Only its own path is reported.                        *)
MoveIn(p, contents) ==
  /\ "populatedMove" \in Hazards
  /\ CountOp
  /\ Creatable(p, Directory)
  /\ disk' = [[r \in Paths |-> IF r \in Under(p) THEN contents[r] ELSE disk[r]]
                EXCEPT ![p] = Directory]
  /\ WellFormed(disk')
  /\ PushCreate(p)
  /\ IndexUnchanged

(* rename(2) inside the vault of a directory with contents, as by POST     *)
(* /api/fs/rename of a folder: everything in it has a new path, and only   *)
(* the directory's two names are reported.  Paths must have room for it.   *)
RenameFolder(p, q) ==
  LET moved(r) == q \o SubSeq(r, Len(p) + 1, Len(r))
      origin(r) == p \o SubSeq(r, Len(q) + 1, Len(r))
      arrived(r) == IF origin(r) \in Paths THEN disk[origin(r)] ELSE Absent IN
  /\ "folderRename" \in Hazards
  /\ CountOp
  /\ disk[p] = Directory
  /\ \E r \in Under(p) : disk[r] # Absent
  /\ q \notin Subtree(p)
  /\ Creatable(q, Directory)
  /\ \A r \in Under(p) : disk[r] # Absent => moved(r) \in Paths
  /\ NoFlicker(p)
  /\ disk' = [r \in Paths |-> IF r \in Subtree(p) THEN Absent
                              ELSE IF r \in Subtree(q) THEN arrived(r)
                              ELSE disk[r]]
  /\ PushRename(p, q)
  /\ IndexUnchanged

(* Undelivered events are lost (an overflow of the kernel's queue, a failed  *)
(* watch): the callback gets Err or an event without paths and does nothing. *)
WatchError ==
  /\ "watchError" \in Hazards
  /\ queue # {}
  /\ Deliver(queue)
  /\ UNCHANGED diskVars
  /\ IndexUnchanged

Environment ==
  \E p \in Paths :
    \/ \E n \in Stats \cup {Directory} : Create(p, n)
    \/ \E s \in Stats : Modify(p, s)
    \/ Delete(p)
    \/ \E q \in Paths : Rename(p, q)
    \/ MoveOut(p)

(* Changes the index cannot learn of in full.                              *)
Unkind ==
  \/ \E p \in Paths :
       \/ \E contents \in [Under(p) -> Stats \cup {Absent}] : MoveIn(p, contents)
       \/ \E q \in Paths : RenameFolder(p, q)
  \/ WatchError

(***************************************************************************)
(* The watcher: apply_paths.                                               *)
(***************************************************************************)
(* Mutant: apply_paths starts from an empty tree instead of a clone.       *)
ApplyPathsBeginEmpty ==
  /\ ~applying
  /\ builder = "live"
  /\ \E ps \in SUBSET queue \ {{}} : batch' = ps /\ Deliver(ps)
  /\ applying' = TRUE
  /\ next' = EmptyTree
  /\ sent' = <<>>
  /\ UNCHANGED <<diskVars, tree, builderVars>>

(* The callback runs in the debouncer's thread, one batch at a time.  The  *)
(* order of a batch is left open: it is an order of arrival, and the disk  *)
(* may have changed since.                                                 *)
ApplyPathsBegin ==
  /\ ~applying
  /\ builder = "live" \/ (builder = "walking" /\ "slowWalk" \in Hazards)
  /\ \E ps \in SUBSET queue \ {{}} :
       /\ batch' = ps
       /\ Deliver(ps)
  /\ applying' = TRUE
  /\ next' = tree
  /\ sent' = <<>>
  /\ UNCHANGED <<diskVars, tree, builderVars>>

(* Mutant: deletions are published for files only.                         *)
EventsForFilesOnly(p, known, n) ==
  LET event(type) == <<[type |-> type, path |-> p, node |-> n]>> IN
  CASE n = Absent /\ known \in Stats    -> event("deleted")
    [] n = Directory /\ known = Absent  -> event("folder-created")
    [] n \in Stats /\ known = Absent    -> event("created")
    [] n \in Stats /\ known # Absent    -> event("modified")
    [] OTHER                            -> <<>>

(* Mutant: a directory over a known entry is published as modified.        *)
EventsForKnownDirectory(p, known, n) ==
  LET event(type) == <<[type |-> type, path |-> p, node |-> n]>> IN
  CASE n = Absent /\ known # Absent    -> event("deleted")
    [] n = Absent /\ known = Absent    -> <<>>
    [] n = Directory /\ known = Absent -> event("folder-created")
    [] n \in Stats /\ known = Absent   -> event("created")
    [] n # Absent /\ known # Absent    -> event("modified")

(* The event for a re-stat that found node n, given the entry the copy had *)
(* (Absent: none).  A directory over any known entry publishes nothing.    *)
EventsFor(p, known, n) ==
  LET event(type) == <<[type |-> type, path |-> p, node |-> n]>> IN
  CASE n = Absent /\ known # Absent    -> event("deleted")
    [] n = Absent /\ known = Absent    -> <<>>
    [] n = Directory /\ known = Absent -> event("folder-created")
    [] n = Directory /\ known # Absent -> <<>>
    [] n \in Stats /\ known = Absent   -> event("created")
    [] n \in Stats /\ known # Absent   -> event("modified")

(* Mutant: the entries below a vanished path are kept (no retain).         *)
RestatKeepsSubtree(t, p, n) == [t EXCEPT ![p] = n]

(* The copy after that re-stat: upsert, or drop the path and its subtree.  *)
Restat(t, p, n) ==
  IF n = Absent
  THEN [r \in Paths |-> IF r \in Subtree(p) THEN Absent ELSE t[r]]
  ELSE [t EXCEPT ![p] = n]

ApplyPath(p) ==
  /\ applying
  /\ p \in batch
  /\ batch' = batch \ {p}
  /\ sent' = sent \o EventsFor(p, next[p], disk[p])
  /\ next' = Restat(next, p, disk[p])
  /\ UNCHANGED <<diskVars, debounceVars, tree, applying, builderVars>>

(* Mutant: the call ends without swapping the copy in.                     *)
ApplyPathsForgets ==
  /\ applying
  /\ batch = {}
  /\ applying' = FALSE
  /\ next' = EmptyTree
  /\ sent' = <<>>
  /\ UNCHANGED <<diskVars, debounceVars, tree, batch, builderVars>>

ApplyPathsStore ==
  /\ applying
  /\ batch = {}
  /\ tree' = next
  /\ applying' = FALSE
  /\ next' = EmptyTree
  /\ sent' = <<>>
  /\ UNCHANGED <<diskVars, debounceVars, batch, builderVars>>

Watcher ==
  \/ ApplyPathsBegin
  \/ \E p \in Paths : ApplyPath(p)
  \/ ApplyPathsStore

(***************************************************************************)
(* The builder: build_live, with build_tree's walk one entry at a time.    *)
(***************************************************************************)
StartWatch ==
  /\ builder = "starting"
  /\ builder' = "walking"
  /\ UNCHANGED <<diskVars, debounceVars, tree, watcherVars, acc, visited>>

(* Mutant: the walk may start before the watcher is armed.                 *)
WalkBeforeWatch(p) ==
  /\ builder \in {"starting", "walking"}
  /\ p \notin visited
  /\ Above(p) \subseteq visited
  /\ acc' = [acc EXCEPT ![p] = disk[p]]
  /\ visited' = visited \cup (IF disk[p] = Directory THEN {p} ELSE Subtree(p))
  /\ UNCHANGED <<diskVars, debounceVars, tree, watcherVars, builder>>

(* Directories are visited before what they contain and only directories   *)
(* are descended into; a path that is not there leaves no entry.           *)
WalkEntry(p) ==
  /\ builder = "walking"
  /\ p \notin visited
  /\ Above(p) \subseteq visited
  /\ acc' = [acc EXCEPT ![p] = disk[p]]
  /\ visited' = visited \cup (IF disk[p] = Directory THEN {p} ELSE Subtree(p))
  /\ UNCHANGED <<diskVars, debounceVars, tree, watcherVars, builder>>

ReconcileStore ==
  /\ builder = "walking"
  /\ visited = Paths
  /\ tree' = acc
  /\ builder' = "live"
  /\ acc' = EmptyTree
  /\ visited' = {}
  /\ UNCHANGED <<diskVars, debounceVars, watcherVars>>

Builder ==
  \/ StartWatch
  \/ \E p \in Paths : WalkEntry(p)
  \/ ReconcileStore

-----------------------------------------------------------------------------
Next == Environment \/ Watcher \/ Builder

Spec == Init /\ [][Next]_vars

UnkindSpec == Init /\ [][Next \/ Unkind]_vars

-----------------------------------------------------------------------------
(* Paths whose last change the index has not looked at yet.                *)
Pending == queue \cup batch

(* The inductive core: a snapshot may disagree with the disk about a path  *)
(* only if the path is pending, or lies below a pending path that is gone  *)
(* (its re-stat will drop the whole subtree).                              *)
Excused(p) == p \in Pending \/ \E a \in Above(p) : a \in Pending /\ disk[a] = Absent

Covers(t, ps) == \A p \in ps : t[p] = disk[p] \/ Excused(p)

Coverage ==
  /\ WellFormed(disk)
  /\ applying => builder = "live"
  /\ ~applying => batch = {}
  /\ builder = "starting" => visited = {}
  /\ \A p \in Paths \ visited : acc[p] = Absent
  /\ builder = "walking" => Covers(acc, visited)
  /\ builder = "live" => Covers(View, Paths)

(* build_live / reconcile: "the index can never silently diverge from      *)
(* disk".  With nothing undelivered and nothing in progress, the snapshot  *)
(* readers load is the disk.                                               *)
NoSilentDivergence ==
  (builder = "live" /\ ~applying /\ queue = {}) => tree = disk

(* What a subscriber of the event stream does with an event: a deletion    *)
(* takes the subtree with it, as in the index.                             *)
ReplayEvent(t, e) == Restat(t, e.path, e.node)

(* apply_paths: the events published for a batch say everything the batch  *)
(* does to the snapshot: replayed over the snapshot that readers still     *)
(* see, they give the copy about to be stored.                             *)
EventsTellTheBatch ==
  (applying /\ builder = "live") => FoldLeft(ReplayEvent, tree, sent) = next

(* apply_paths: only the affected paths are touched.  A path the snapshot  *)
(* has right and nobody changes keeps its entry, whatever the watcher does *)
(* to others.                                                              *)
UntouchedEntriesStay ==
  [][builder = "live" =>
       \A p \in Paths :
         (tree[p] = disk[p] /\ ~Excused(p)) => (tree'[p] = tree[p] \/ disk'[p] # disk[p])]_vars

(* build_live: the watcher keeps the snapshot correct.  The bound on disk  *)
(* changes makes the disk eventually quiet; then the index catches up and  *)
(* stays.                                                                  *)
CatchesUp == <>[](builder = "live" /\ tree = disk)

=============================================================================
