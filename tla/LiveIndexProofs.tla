--------------------------- MODULE LiveIndexProofs ---------------------------
(***************************************************************************)
(* Proofs about LiveIndex for every set of paths and every number of disk  *)
(* changes.                                                                *)
(***************************************************************************)
EXTENDS LiveIndex, TLAPS, WellFoundedInduction

-----------------------------------------------------------------------------
(* Paths and what lies below them.                                         *)

(* The prefix test of apply_paths' retain is transitive.                   *)
LEMMA UnderTransitive ==
  ASSUME NEW p \in Paths, NEW q \in Under(p), NEW r \in Under(q)
  PROVE  r \in Under(p)
  <1>1. p \in Seq(Names) /\ q \in Seq(Names) /\ r \in Seq(Names)
    BY PathsAssumption DEF Under
  <1>2. \A i \in 1..Len(p) : p[i] = q[i]
    BY <1>1 DEF Under, IsStrictPrefix, IsPrefix
  <1>3. \A i \in 1..Len(q) : q[i] = r[i]
    BY <1>1 DEF Under, IsStrictPrefix, IsPrefix
  <1>4. Len(p) <= Len(q) /\ Len(q) <= Len(r)
    BY <1>1 DEF Under, IsStrictPrefix, IsPrefix
  <1>5. p # r
    <2>1. q # r => Len(q) < Len(r)
      BY <1>1, <1>3, <1>4
    <2> QED BY <1>1, <1>4, <2>1 DEF Under, IsStrictPrefix
  <1>6. SubSeq(p, 1, Len(p)) = SubSeq(r, 1, Len(p))
    BY <1>1, <1>2, <1>3, <1>4
  <1> QED BY <1>1, <1>4, <1>5, <1>6 DEF Under, IsStrictPrefix, IsPrefix

(* No path lies below itself.                                              *)
LEMMA UnderIrreflexive ==
  ASSUME NEW p \in Paths
  PROVE  p \notin Under(p)
  BY DEF Under, IsStrictPrefix

(* What lies below a path is a path of the vault.                          *)
LEMMA UnderInPaths == \A p : Under(p) \subseteq Paths
  BY DEF Under

(* The prefix test, letter by letter.                                      *)
LEMMA UnderMeans ==
  ASSUME NEW p \in Paths, NEW q \in Paths
  PROVE  q \in Under(p) <=> Len(p) < Len(q) /\ \A i \in 1..Len(p) : p[i] = q[i]
  <1>1. p \in Seq(Names) /\ q \in Seq(Names)
    BY PathsAssumption
  <1>2. ASSUME q \in Under(p) PROVE Len(p) < Len(q) /\ \A i \in 1..Len(p) : p[i] = q[i]
    <2>1. Len(p) <= Len(q) /\ p # q
      BY <1>1, <1>2 DEF Under, IsStrictPrefix, IsPrefix
    <2>2. \A i \in 1..Len(p) : p[i] = q[i]
      BY <1>1, <1>2 DEF Under, IsStrictPrefix, IsPrefix
    <2>3. Len(p) # Len(q)
      BY <1>1, <2>1, <2>2
    <2> QED BY <1>1, <2>1, <2>2, <2>3
  <1>3. ASSUME Len(p) < Len(q), \A i \in 1..Len(p) : p[i] = q[i] PROVE q \in Under(p)
    <2>1. SubSeq(p, 1, Len(p)) = SubSeq(q, 1, Len(p))
      BY <1>1, <1>3
    <2> QED BY <1>1, <1>3, <2>1 DEF Under, IsStrictPrefix, IsPrefix
  <1> QED BY <1>2, <1>3

(* Of two directories that contain the same path one contains the other.   *)
LEMMA UnderComparable ==
  ASSUME NEW a \in Paths, NEW b \in Paths, NEW r \in Paths,
         r \in Subtree(a), r \in Subtree(b)
  PROVE  a \in Subtree(b) \/ b \in Subtree(a)
  <1>1. a \in Seq(Names) /\ b \in Seq(Names) /\ r \in Seq(Names)
    BY PathsAssumption
  <1>2. Len(a) <= Len(r) /\ \A i \in 1..Len(a) : a[i] = r[i]
    BY <1>1, UnderMeans DEF Subtree
  <1>3. Len(b) <= Len(r) /\ \A i \in 1..Len(b) : b[i] = r[i]
    BY <1>1, UnderMeans DEF Subtree
  <1>4. CASE Len(a) < Len(b)
    BY <1>1, <1>2, <1>3, <1>4, UnderMeans DEF Subtree
  <1>5. CASE Len(b) < Len(a)
    BY <1>1, <1>2, <1>3, <1>5, UnderMeans DEF Subtree
  <1>6. CASE Len(a) = Len(b)
    <2>1. a = b
      BY <1>1, <1>2, <1>3, <1>6
    <2> QED BY <2>1 DEF Subtree
  <1> QED BY <1>1, <1>4, <1>5, <1>6

(* Where a path below the new name q of a folder was below its old name p. *)
Origin(p, q, r) == p \o SubSeq(r, Len(q) + 1, Len(r))

OriginOf(p, q, r, o) ==
  /\ o \in Seq(Names)
  /\ Len(o) = Len(p) + Len(r) - Len(q)
  /\ Len(r) >= Len(q)
  /\ \A i \in 1..Len(p) : o[i] = p[i]
  /\ \A i \in 1..(Len(r) - Len(q)) : o[Len(p) + i] = r[Len(q) + i]

(* What a concatenation consists of.                                       *)
LEMMA ConcatParts ==
  ASSUME NEW A, NEW s \in Seq(A), NEW t \in Seq(A)
  PROVE  /\ s \o t \in Seq(A)
         /\ Len(s \o t) = Len(s) + Len(t)
         /\ \A i \in 1..Len(s) : (s \o t)[i] = s[i]
         /\ \A i \in 1..Len(t) : (s \o t)[Len(s) + i] = t[i]
  <1>1. Len(s) \in Nat /\ Len(t) \in Nat
    OBVIOUS
  <1>2. Len(s \o t) = Len(s) + Len(t)
    OBVIOUS
  <1>3. \A i \in 1..Len(s) : (s \o t)[i] = s[i]
    BY <1>1
  <1>4. \A i \in 1..Len(t) : (s \o t)[Len(s) + i] = t[i]
    BY <1>1
  <1> QED BY <1>2, <1>3, <1>4

(* The parts of a moved path and of its origin, for every path of the      *)
(* moved folder.                                                           *)
LEMMA OriginParts ==
  ASSUME NEW p \in Paths, NEW q \in Paths, NEW r \in Paths, r \in Subtree(q)
  PROVE  OriginOf(p, q, r, Origin(p, q, r))
  <1>1. p \in Seq(Names) /\ q \in Seq(Names) /\ r \in Seq(Names)
    BY PathsAssumption
  <1>2. Len(r) >= Len(q)
    BY <1>1, UnderMeans DEF Subtree
  <1> DEFINE s == SubSeq(r, Len(q) + 1, Len(r))
  <1>3. s \in Seq(Names) /\ Len(s) = Len(r) - Len(q)
    BY <1>1, <1>2
  <1>4. \A i \in 1..(Len(r) - Len(q)) : s[i] = r[Len(q) + i]
    BY <1>1, <1>2
  <1> HIDE DEF s
  <1>5. /\ (p \o s) \in Seq(Names)
        /\ Len(p \o s) = Len(p) + Len(s)
        /\ \A i \in 1..Len(p) : (p \o s)[i] = p[i]
        /\ \A i \in 1..Len(s) : (p \o s)[Len(p) + i] = s[i]
    <2>1. p \in Seq(Names)
      BY <1>1
    <2>2. s \in Seq(Names)
      BY <1>3
    <2> QED BY <2>1, <2>2, ConcatParts
  <1>6. Origin(p, q, r) = p \o s
    BY DEF Origin, s
  <1>7. Len(p) + Len(s) = Len(p) + Len(r) - Len(q)
    BY <1>1, <1>3
  <1> QED BY <1>2, <1>3, <1>4, <1>5, <1>6, <1>7 DEF OriginOf

(* Everything below the new name came from below the old one.              *)
LEMMA OriginUnder ==
  ASSUME NEW p \in Paths, NEW q \in Paths, NEW x \in Paths, NEW y \in Paths,
         x \in Subtree(q), y \in Under(x), Origin(p, q, y) \in Paths
  PROVE  Origin(p, q, x) \in Paths /\ Origin(p, q, y) \in Under(Origin(p, q, x))
  <1> DEFINE ox == Origin(p, q, x)
             oy == Origin(p, q, y)
  <1> HIDE DEF ox, oy
  <1>1. p \in Seq(Names) /\ q \in Seq(Names) /\ x \in Seq(Names) /\ y \in Seq(Names)
    BY PathsAssumption
  <1>2. Len(x) < Len(y) /\ \A i \in 1..Len(x) : x[i] = y[i]
    BY UnderMeans
  <1>3. y \in Subtree(q)
    BY UnderTransitive DEF Subtree
  <1>4. OriginOf(p, q, x, ox)
    BY OriginParts DEF ox
  <1>5. OriginOf(p, q, y, oy)
    BY <1>3, OriginParts DEF oy
  <1> USE DEF OriginOf
  <1>6. /\ Len(p) \in Nat \ {0} /\ Len(q) \in Nat /\ Len(x) \in Nat /\ Len(y) \in Nat
        /\ Len(ox) \in Nat \ {0} /\ Len(ox) < Len(oy)
    <2>1. p # <<>>
      BY PathsAssumption
    <2> QED BY <1>1, <1>2, <1>4, <1>5, <2>1
  <1>7. \A i \in 1..Len(ox) : ox[i] = oy[i]
    <2> TAKE i \in 1..Len(ox)
    <2>1. CASE i <= Len(p)
      BY <1>4, <1>5, <1>6, <2>1
    <2>2. CASE i > Len(p)
      <3> DEFINE j == i - Len(p)
      <3>1. j \in 1..(Len(x) - Len(q)) /\ i = Len(p) + j
        BY <1>4, <1>6, <2>2
      <3> HIDE DEF j
      <3>2. Len(q) + j \in 1..Len(x) /\ j \in 1..(Len(y) - Len(q))
        BY <1>2, <1>6, <3>1
      <3> QED BY <1>2, <1>4, <1>5, <3>1, <3>2
    <2> QED BY <1>6, <2>1, <2>2
  <1>8. ox = SubSeq(oy, 1, Len(ox))
    BY <1>4, <1>5, <1>6, <1>7
  <1>9. ox \in Paths
    <2>1. Len(ox) \in 1..Len(oy)
      BY <1>6
    <2> QED BY <1>8, <2>1, PathsAssumption DEF oy
  <1>10. oy \in Paths
    BY DEF oy
  <1>11. oy \in Under(ox)
    BY <1>6, <1>7, <1>9, <1>10, UnderMeans
  <1> QED BY <1>9, <1>11 DEF ox, oy

-----------------------------------------------------------------------------
(* Type correctness.                                                       *)

(* The empty tree, with which build_live starts, is a tree, and no events  *)
(* are a sequence of events.                                               *)
LEMMA EmptyTypes == EmptyTree \in Trees /\ <<>> \in Seq(Events)
  <1>1. EmptyTree \in Trees
    BY DEF EmptyTree, Trees, Nodes
  <1>2. <<>> \in Seq(Events)
    OBVIOUS
  <1> QED BY <1>1, <1>2

(* A re-stat turns a tree into a tree.                                     *)
LEMMA RestatType ==
  ASSUME NEW t \in Trees, NEW p \in Paths, NEW n \in Nodes
  PROVE  Restat(t, p, n) \in Trees
  BY DEF Restat, Trees, Nodes

(* What apply_paths publishes for a path is a sequence of at most one      *)
(* event.                                                                  *)
LEMMA EventsForType ==
  ASSUME NEW p \in Paths, NEW known \in Nodes, NEW n \in Nodes
  PROVE  EventsFor(p, known, n) \in Seq(Events)
  <1> DEFINE event(type) == [type |-> type, path |-> p, node |-> n]
  <1>1. \A e \in Events : <<e>> \in Seq(Events)
    OBVIOUS
  <1>2. CASE n = Absent
    <2>1. event("deleted") \in Events
      BY <1>2 DEF Events
    <2> QED BY <1>1, <1>2, <2>1, NodesAssumption DEF EventsFor
  <1>3. CASE n = Directory
    <2>1. event("folder-created") \in Events
      BY <1>3 DEF Events
    <2> QED BY <1>1, <1>3, <2>1, NodesAssumption DEF EventsFor
  <1>4. CASE n \in Stats
    <2>1. event("created") \in Events /\ event("modified") \in Events
      BY <1>4 DEF Events
    <2> QED BY <1>1, <1>4, <2>1, NodesAssumption DEF EventsFor
  <1> QED BY <1>2, <1>3, <1>4 DEF Nodes

(* UnkindSpec allows all that Spec allows: what is proved of it below      *)
(* holds of both.                                                          *)
LEMMA UnkindIsMore == Spec => UnkindSpec
  <1>1. [Next]_vars => [Next \/ Unkind]_vars
    OBVIOUS
  <1> QED BY <1>1, PTL DEF Spec, UnkindSpec

(* Every variable keeps its type whatever the hazards are.                 *)
THEOREM TypeCorrect == UnkindSpec => []TypeOK
  <1>1. Init => TypeOK
    <2> SUFFICES ASSUME Init PROVE TypeOK
      OBVIOUS
    <2>1. sent \in Seq(Events)
      BY EmptyTypes DEF Init
    <2>2. applying \in BOOLEAN
      BY DEF Init
    <2>3. ops \in 0..MaxOps
      BY MaxOpsAssumption DEF Init
    <2> QED BY <2>1, <2>2, <2>3, EmptyTypes DEF Init, TypeOK
  <1>2. TypeOK /\ [Next \/ Unkind]_vars => TypeOK'
    <2> SUFFICES ASSUME TypeOK, [Next \/ Unkind]_vars PROVE TypeOK'
      OBVIOUS
    <2> USE MaxOpsAssumption DEF TypeOK
    <2>1. ASSUME NEW p \in Paths, NEW n \in Stats \cup {Directory}, Create(p, n)
          PROVE  TypeOK'
      BY <2>1 DEF Create, CountOp, PushCreate, Watched, IndexUnchanged,
                  watcherVars, builderVars, Trees, Nodes
    <2>2. ASSUME NEW p \in Paths, NEW s \in Stats, Modify(p, s)
          PROVE  TypeOK'
      BY <2>2 DEF Modify, CountOp, PushChange, Watched, IndexUnchanged,
                  watcherVars, builderVars, Trees, Nodes
    <2>3. ASSUME NEW p \in Paths, Delete(p)
          PROVE  TypeOK'
      BY <2>3 DEF Delete, CountOp, PushRemove, Watched, Subtree, Under,
                  IndexUnchanged, watcherVars, builderVars, Trees, Nodes
    <2>4. ASSUME NEW p \in Paths, NEW q \in Paths, Rename(p, q)
          PROVE  TypeOK'
      BY <2>4 DEF Rename, CountOp, PushRename, Watched, IndexUnchanged,
                  watcherVars, builderVars, Trees, Nodes
    <2>5. ASSUME NEW p \in Paths, MoveOut(p)
          PROVE  TypeOK'
      BY <2>5 DEF MoveOut, CountOp, PushChange, Watched, IndexUnchanged,
                  watcherVars, builderVars, Trees, Nodes
    <2>6. ASSUME NEW p \in Paths,
                 NEW contents \in [Under(p) -> Stats \cup {Absent}],
                 MoveIn(p, contents)
          PROVE  TypeOK'
      BY <2>6 DEF MoveIn, CountOp, PushCreate, Watched, IndexUnchanged,
                  watcherVars, builderVars, Trees, Nodes
    <2>7. CASE WatchError
      BY <2>7 DEF WatchError, Deliver, diskVars, IndexUnchanged,
                  watcherVars, builderVars
    <2>8. CASE ApplyPathsBegin
      BY <2>8 DEF ApplyPathsBegin, Deliver, diskVars, builderVars
    <2>9. ASSUME NEW p \in Paths, ApplyPath(p)
          PROVE  TypeOK'
      <3>1. disk[p] \in Nodes /\ next[p] \in Nodes
        BY DEF Trees
      <3>2. next' \in Trees
        BY <2>9, <3>1, RestatType DEF ApplyPath
      <3>3. sent' \in Seq(Events)
        BY <2>9, <3>1, EventsForType DEF ApplyPath
      <3> QED BY <2>9, <3>2, <3>3 DEF ApplyPath, diskVars, debounceVars, builderVars
    <2>10. CASE ApplyPathsStore
      BY <2>10, EmptyTypes DEF ApplyPathsStore, diskVars, debounceVars, builderVars
    <2>11. CASE StartWatch
      BY <2>11 DEF StartWatch, diskVars, debounceVars, watcherVars
    <2>12. ASSUME NEW p \in Paths, WalkEntry(p)
           PROVE  TypeOK'
      BY <2>12 DEF WalkEntry, Subtree, Under, diskVars, debounceVars,
                   watcherVars, Trees
    <2>13. CASE ReconcileStore
      BY <2>13, EmptyTypes DEF ReconcileStore, diskVars, debounceVars, watcherVars
    <2>14. CASE UNCHANGED vars
      BY <2>14 DEF vars
    <2>15. ASSUME NEW p \in Paths, NEW q \in Paths, RenameFolder(p, q)
           PROVE  TypeOK'
      <3>1. disk' \in Trees
        <4> DEFINE origin(r) == p \o SubSeq(r, Len(q) + 1, Len(r))
                   arrived(r) == IF origin(r) \in Paths THEN disk[origin(r)] ELSE Absent
        <4>1. \A r \in Paths : arrived(r) \in Nodes
          BY DEF Trees, Nodes
        <4>2. disk' = [r \in Paths |-> IF r \in Subtree(p) THEN Absent
                                      ELSE IF r \in Subtree(q) THEN arrived(r)
                                      ELSE disk[r]]
          BY <2>15 DEF RenameFolder
        <4> HIDE DEF arrived
        <4> QED BY <4>1, <4>2 DEF Trees, Nodes
      <3>2. queue' \subseteq Paths /\ fresh' \subseteq queue'
        BY <2>15 DEF RenameFolder, PushRename, Watched
      <3>3. ops' \in 0..MaxOps /\ IndexUnchanged
        BY <2>15 DEF RenameFolder, CountOp
      <3> QED BY <3>1, <3>2, <3>3 DEF IndexUnchanged, watcherVars, builderVars
    <2>16. CASE Unkind
      BY <2>6, <2>7, <2>15, <2>16 DEF Unkind
    <2>17. CASE Next
      BY <2>1, <2>2, <2>3, <2>4, <2>5, <2>8, <2>9, <2>10, <2>11, <2>12, <2>13, <2>17
         DEF Next, Environment, Watcher, Builder
    <2> QED BY <2>14, <2>16, <2>17
  <1> QED BY <1>1, <1>2, PTL DEF UnkindSpec

-----------------------------------------------------------------------------
(* The disk stays a tree.                                                  *)

(* A new file or folder in a folder that is there keeps the disk a tree.   *)
LEMMA CreateWellFormed ==
  ASSUME TypeOK, WellFormed(disk), NEW p \in Paths, NEW n, n # Absent,
         disk[p] = Absent, \A a \in Above(p) : disk[a] = Directory,
         disk' = [disk EXCEPT ![p] = n]
  PROVE  WellFormed(disk)'
  <1> SUFFICES ASSUME NEW q \in Paths, NEW r \in Under(q), disk'[r] # Absent
               PROVE  disk'[q] = Directory
    BY DEF WellFormed
  <1>1. \A s \in Under(p) : disk[s] = Absent
    BY NodesAssumption DEF WellFormed
  <1>2. r \in Paths
    BY UnderInPaths
  <1>3. CASE r = p
    BY <1>3, UnderIrreflexive DEF Above, TypeOK, Trees
  <1>4. CASE r # p
    BY <1>1, <1>2, <1>4 DEF WellFormed, TypeOK, Trees
  <1> QED BY <1>3, <1>4

(* A changed file keeps the disk a tree.                                   *)
LEMMA ModifyWellFormed ==
  ASSUME TypeOK, WellFormed(disk), NEW p \in Paths, NEW s \in Stats, Modify(p, s)
  PROVE  WellFormed(disk)'
  BY NodesAssumption DEF Modify, WellFormed, TypeOK, Trees, Under

(* A deletion keeps the disk a tree.                                       *)
LEMMA DeleteWellFormed ==
  ASSUME TypeOK, WellFormed(disk), NEW p \in Paths, Delete(p)
  PROVE  WellFormed(disk)'
  BY UnderInPaths DEF Delete, WellFormed, TypeOK, Trees

(* A folder moved out of the vault leaves a tree.                          *)
LEMMA MoveOutWellFormed ==
  ASSUME TypeOK, WellFormed(disk), NEW p \in Paths, MoveOut(p)
  PROVE  WellFormed(disk)'
  <1>1. disk' = [r \in Paths |-> IF r \in Subtree(p) THEN Absent ELSE disk[r]]
    BY DEF MoveOut
  <1> SUFFICES ASSUME NEW q \in Paths, NEW r \in Under(q), disk'[r] # Absent
               PROVE  disk'[q] = Directory
    BY DEF WellFormed
  <1>2. r \in Paths /\ r \notin Subtree(p) /\ disk[r] # Absent
    BY <1>1, UnderInPaths
  <1>3. q \notin Subtree(p)
    BY <1>2, UnderTransitive DEF Subtree
  <1> QED BY <1>1, <1>2, <1>3 DEF WellFormed

(* A renamed file keeps the disk a tree.                                   *)
LEMMA RenameWellFormed ==
  ASSUME TypeOK, WellFormed(disk), NEW p \in Paths, NEW q \in Paths, Rename(p, q)
  PROVE  WellFormed(disk)'
  <1>1. /\ p # q /\ disk[p] # Absent /\ q \notin Under(p)
        /\ \A r \in Under(p) : disk[r] = Absent
        /\ disk' = [disk EXCEPT ![p] = Absent, ![q] = disk[p]]
    BY DEF Rename
  <1>2. \/ disk[q] = Absent /\ \A a \in Above(q) : disk[a] = Directory
        \/ disk[p] \in Stats /\ disk[q] \in Stats
    BY DEF Rename, Creatable
  <1>3. \A r \in Under(q) : disk[r] = Absent
    BY <1>2, NodesAssumption DEF WellFormed
  <1>4. \A a \in Above(q) : disk[a] = Directory /\ a # p
    BY <1>1, <1>2, NodesAssumption, UnderInPaths DEF WellFormed, Above
  <1>5. /\ disk'[p] = Absent /\ disk'[q] = disk[p]
        /\ \A r \in Paths \ {p, q} : disk'[r] = disk[r]
    BY <1>1 DEF TypeOK, Trees
  <1> SUFFICES ASSUME NEW a \in Paths, NEW r \in Under(a), disk'[r] # Absent
               PROVE  disk'[a] = Directory
    BY DEF WellFormed
  <1>6. r \in Paths /\ r # p /\ a # r
    BY <1>5, UnderInPaths, UnderIrreflexive
  <1>7. CASE r = q
    BY <1>4, <1>5, <1>7, UnderIrreflexive DEF Above
  <1>8. CASE r # q
    <2>1. disk[r] # Absent /\ a # p /\ a # q
      BY <1>1, <1>3, <1>5, <1>6, <1>8
    <2> QED BY <1>5, <1>6, <2>1 DEF WellFormed
  <1> QED BY <1>7, <1>8

(* A renamed folder keeps the disk a tree: the parents of what has moved   *)
(* have moved with it.                                                     *)
LEMMA RenameFolderWellFormed ==
  ASSUME TypeOK, WellFormed(disk), NEW p \in Paths, NEW q \in Paths, RenameFolder(p, q)
  PROVE  WellFormed(disk)'
  <1> DEFINE arrived(r) == IF Origin(p, q, r) \in Paths THEN disk[Origin(p, q, r)] ELSE Absent
  <1>1. disk' = [r \in Paths |-> IF r \in Subtree(p) THEN Absent
                                ELSE IF r \in Subtree(q) THEN arrived(r)
                                ELSE disk[r]]
    BY DEF RenameFolder, Origin
  <1>2. q \notin Subtree(p) /\ \A a \in Above(q) : disk[a] = Directory
    BY DEF RenameFolder, Creatable
  <1> SUFFICES ASSUME NEW x \in Paths, NEW y \in Under(x), disk'[y] # Absent
               PROVE  disk'[x] = Directory
    BY DEF WellFormed
  <1>3. y \in Paths
    BY UnderInPaths
  <1>4. y \notin Subtree(p) /\ x \notin Subtree(p)
    <2>1. y \notin Subtree(p)
      BY <1>1, <1>3
    <2> QED BY <2>1, UnderTransitive DEF Subtree
  <1>5. CASE x \in Subtree(q)
    <2>1. y \in Subtree(q)
      BY <1>5, UnderTransitive DEF Subtree
    <2>2. Origin(p, q, y) \in Paths /\ disk[Origin(p, q, y)] # Absent
      BY <1>1, <1>3, <1>4, <2>1
    <2>3. Origin(p, q, x) \in Paths /\ Origin(p, q, y) \in Under(Origin(p, q, x))
      BY <1>3, <1>5, <2>2, OriginUnder
    <2>4. disk[Origin(p, q, x)] = Directory
      BY <2>2, <2>3 DEF WellFormed
    <2> QED BY <1>1, <1>4, <1>5, <2>3, <2>4
  <1>6. CASE x \notin Subtree(q) /\ y \in Subtree(q)
    <2>1. y \in Subtree(x)
      BY DEF Subtree
    <2>2. q \in Under(x)
      BY <1>3, <1>6, <2>1, UnderComparable DEF Subtree
    <2>3. disk[x] = Directory
      BY <1>2, <2>2 DEF Above
    <2> QED BY <1>1, <1>4, <1>6, <2>3
  <1>7. CASE x \notin Subtree(q) /\ y \notin Subtree(q)
    BY <1>1, <1>3, <1>4, <1>7 DEF WellFormed
  <1> QED BY <1>5, <1>6, <1>7

-----------------------------------------------------------------------------
(* Convergence.  The guards that the proof needs are those the six         *)
(* hazards below would remove; kindFlip only costs events.                 *)
Harmless == Hazards \subseteq {"kindFlip"}

(* Without its hazards nothing unkind happens.                             *)
LEMMA NothingUnkind == Harmless => ~Unkind
  BY DEF Harmless, Unkind, MoveIn, RenameFolder, WatchError

(* The snapshot is right about p, or p will be looked at again.            *)
Matched(p) == View[p] = disk[p] \/ Excused(p)

(* The snapshot under construction does not change when the index does     *)
(* nothing.                                                                *)
LEMMA ViewUnchanged == IndexUnchanged => View' = View /\ batch' = batch
  BY DEF IndexUnchanged, View, watcherVars, builderVars

(* An environment step keeps Coverage if it keeps the disk well-formed and *)
(* leaves every matched path matched.                                      *)
LEMMA EnvironmentCoverage ==
  ASSUME TypeOK, Coverage, IndexUnchanged, WellFormed(disk)',
         builder # "starting" => \A p \in Paths : Matched(p) => Matched(p)'
  PROVE  Coverage'
  <1>1. UNCHANGED <<tree, applying, batch, next, builder, acc, visited>>
    BY DEF IndexUnchanged, watcherVars, builderVars
  <1>2. (builder = "walking" => Covers(acc, visited))'
    <2> SUFFICES ASSUME builder' = "walking", NEW p \in visited'
                 PROVE  (acc[p] = disk[p] \/ Excused(p))'
      BY DEF Covers
    <2>1. p \in Paths /\ View = acc /\ View' = acc'
      BY <1>1 DEF TypeOK, View
    <2>2. Matched(p)
      BY <1>1, <2>1 DEF Coverage, Covers, Matched
    <2> QED BY <1>1, <2>1, <2>2 DEF Matched
  <1>3. (builder = "live" => Covers(View, Paths))'
    BY <1>1, ViewUnchanged DEF Coverage, Covers, Matched
  <1>4. (\A p \in Paths \ visited : acc[p] = Absent)'
    BY <1>1 DEF Coverage
  <1> QED BY <1>1, <1>2, <1>3, <1>4 DEF Coverage

(* A creation on disk, reported by its path, keeps Coverage.               *)
LEMMA CreateCoverage ==
  ASSUME Harmless, TypeOK, Coverage,
         NEW p \in Paths, NEW n \in Stats \cup {Directory}, Create(p, n)
  PROVE  Coverage'
  <1>1. IndexUnchanged /\ disk' = [disk EXCEPT ![p] = n]
    BY DEF Create
  <1>2. disk[p] = Absent /\ n # Absent /\ \A a \in Above(p) : disk[a] = Directory
    BY NodesAssumption DEF Create, Creatable
  <1>3. \A q \in Under(p) : View[q] = Absent /\ disk[q] = Absent
    BY <1>2, NodesAssumption DEF Create, Creatable, NameFree, Harmless, Coverage, WellFormed, Under
  <1>4. WellFormed(disk)'
    BY <1>1, <1>2, CreateWellFormed DEF Coverage
  <1>5. ASSUME builder # "starting", NEW r \in Paths, Matched(r)
        PROVE  Matched(r)'
    <2>1. Pending' = Pending \cup {p}
      BY <1>1, <1>5, ViewUnchanged DEF Create, PushCreate, Watched, Pending
    <2>2. CASE r \in Pending'
      BY <2>2 DEF Matched, Excused
    <2>3. CASE r \notin Pending' /\ View[r] = disk[r]
      BY <1>1, <2>1, <2>3, ViewUnchanged DEF Matched, TypeOK, Trees
    <2>4. ASSUME r \notin Pending', NEW a \in Above(r), a \in Pending, disk[a] = Absent
          PROVE  Matched(r)'
      <3>1. CASE a = p
        <4>1. r \in Under(p)
          BY <2>4, <3>1 DEF Above
        <4> QED BY <1>1, <1>3, <2>1, <2>4, <4>1, ViewUnchanged DEF Matched, TypeOK, Trees
      <3>2. CASE a # p
        <4>1. disk'[a] = Absent
          BY <1>1, <2>4, <3>2 DEF TypeOK, Trees, Above
        <4> QED BY <2>1, <2>4, <4>1 DEF Matched, Excused, Above
      <3> QED BY <3>1, <3>2
    <2> QED BY <1>5, <2>1, <2>2, <2>3, <2>4 DEF Matched, Excused
  <1> QED BY <1>1, <1>4, <1>5, EnvironmentCoverage

(* A modification on disk, reported by its path, keeps Coverage.           *)
LEMMA ModifyCoverage ==
  ASSUME TypeOK, Coverage, NEW p \in Paths, NEW s \in Stats, Modify(p, s)
  PROVE  Coverage'
  <1>1. IndexUnchanged /\ disk' = [disk EXCEPT ![p] = s]
    BY DEF Modify
  <1>2. disk[p] \in Stats
    BY DEF Modify
  <1>3. WellFormed(disk)'
    BY ModifyWellFormed DEF Coverage
  <1>4. ASSUME builder # "starting", NEW r \in Paths, Matched(r)
        PROVE  Matched(r)'
    <2>1. Pending' = Pending \cup {p}
      BY <1>1, <1>4, ViewUnchanged DEF Modify, PushChange, Watched, Pending
    <2>2. \A a \in Paths : disk[a] = Absent => disk'[a] = Absent
      BY <1>1, <1>2, NodesAssumption DEF TypeOK, Trees
    <2>3. Excused(r) => Excused(r)'
      BY <2>1, <2>2 DEF Excused, Above
    <2>4. CASE r # p /\ View[r] = disk[r]
      BY <1>1, <2>4, ViewUnchanged DEF Matched, TypeOK, Trees
    <2>5. CASE r = p
      BY <2>1, <2>5 DEF Matched, Excused
    <2> QED BY <1>4, <2>3, <2>4, <2>5 DEF Matched
  <1> QED BY <1>1, <1>3, <1>4, EnvironmentCoverage

(* Removing p, with the debouncer dropping what was pending below it and   *)
(* cancelling an undelivered creation.                                     *)
LEMMA DeleteCoverage ==
  ASSUME Harmless, TypeOK, Coverage, NEW p \in Paths, Delete(p)
  PROVE  Coverage'
  <1>1. IndexUnchanged /\ disk' = [disk EXCEPT ![p] = Absent]
    BY DEF Delete
  <1>2. disk[p] # Absent /\ \A q \in Under(p) : disk[q] = Absent
    BY DEF Delete
  <1>3. p \in fresh => \A q \in Subtree(p) : View[q] = Absent
    BY DEF Delete, NoFlicker, CreationDelivered, Harmless
  <1>4. WellFormed(disk)'
    BY DeleteWellFormed DEF Coverage
  <1>5. ASSUME builder # "starting", NEW r \in Paths, Matched(r)
        PROVE  Matched(r)'
    <2>1. Pending' = (queue \ Subtree(p)) \cup ({p} \ fresh) \cup batch
      BY <1>1, <1>5, ViewUnchanged DEF Delete, PushRemove, Watched, Pending
    <2>2. disk'[p] = Absent /\ \A a \in Paths : disk[a] = Absent => disk'[a] = Absent
      BY <1>1 DEF TypeOK, Trees
    <2>3. CASE r \in Subtree(p)
      <3>1. disk'[r] = Absent
        BY <1>2, <2>2, <2>3 DEF Subtree
      <3>2. CASE p \in fresh
        BY <1>1, <1>3, <2>3, <3>1, <3>2, ViewUnchanged DEF Matched
      <3>3. CASE p \notin fresh
        BY <2>1, <2>2, <2>3, <3>3 DEF Matched, Excused, Above, Subtree
      <3> QED BY <3>2, <3>3
    <2>4. CASE r \notin Subtree(p) /\ View[r] = disk[r]
      BY <1>1, <2>4, ViewUnchanged DEF Matched, Subtree, TypeOK, Trees
    <2>5. CASE r \notin Subtree(p) /\ r \in Pending
      BY <2>1, <2>5 DEF Matched, Excused, Pending
    <2>6. ASSUME r \notin Subtree(p), NEW a \in Above(r), a \in Pending, disk[a] = Absent
          PROVE  Matched(r)'
      <3>1. a \notin Subtree(p)
        BY <1>2, <2>6, UnderTransitive DEF Above, Subtree
      <3> QED BY <2>1, <2>2, <2>6, <3>1 DEF Matched, Excused, Pending, Above
    <2> QED BY <1>5, <2>3, <2>4, <2>5, <2>6 DEF Matched, Excused
  <1> QED BY <1>1, <1>4, <1>5, EnvironmentCoverage

(* Moving p with everything below it out of the vault.                     *)
LEMMA MoveOutCoverage ==
  ASSUME TypeOK, Coverage, NEW p \in Paths, MoveOut(p)
  PROVE  Coverage'
  <1>1. /\ IndexUnchanged
        /\ disk' = [r \in Paths |-> IF r \in Subtree(p) THEN Absent ELSE disk[r]]
    BY DEF MoveOut
  <1>2. WellFormed(disk)'
    BY MoveOutWellFormed DEF Coverage
  <1>3. ASSUME builder # "starting", NEW r \in Paths, Matched(r)
        PROVE  Matched(r)'
    <2>1. Pending' = Pending \cup {p}
      BY <1>1, <1>3, ViewUnchanged DEF MoveOut, PushChange, Watched, Pending
    <2>2. disk'[p] = Absent /\ \A a \in Paths : disk[a] = Absent => disk'[a] = Absent
      BY <1>1 DEF Subtree
    <2>3. Excused(r) => Excused(r)'
      BY <2>1, <2>2 DEF Excused, Above
    <2>4. CASE r \notin Subtree(p) /\ View[r] = disk[r]
      BY <1>1, <2>4, ViewUnchanged DEF Matched
    <2>5. CASE r \in Subtree(p)
      BY <2>1, <2>2, <2>5 DEF Matched, Excused, Above, Subtree
    <2> QED BY <1>3, <2>3, <2>4, <2>5 DEF Matched
  <1> QED BY <1>1, <1>2, <1>3, EnvironmentCoverage

(* Renaming a file or an empty directory.                                  *)
LEMMA RenameCoverage ==
  ASSUME Harmless, TypeOK, Coverage, NEW p \in Paths, NEW q \in Paths, Rename(p, q)
  PROVE  Coverage'
  <1>1. IndexUnchanged /\ disk' = [disk EXCEPT ![p] = Absent, ![q] = disk[p]]
    BY DEF Rename
  <1>2. /\ p # q /\ disk[p] # Absent /\ q \notin Under(p)
        /\ \A r \in Under(p) : disk[r] = Absent
    BY DEF Rename
  <1>3. p \in fresh => View[p] = Absent
    BY DEF Rename, NoFlicker, CreationDelivered, Harmless, Subtree
  <1>4. \/ /\ disk[q] = Absent
           /\ \A a \in Above(q) : disk[a] = Directory
           /\ \A r \in Under(q) : View[r] = Absent
        \/ disk[p] \in Stats /\ disk[q] \in Stats
    BY DEF Rename, Creatable, NameFree, Harmless
  <1>5. \A r \in Under(q) : disk[r] = Absent
    BY <1>4, NodesAssumption DEF Coverage, WellFormed
  <1>7. /\ disk'[p] = Absent /\ disk'[q] = disk[p]
        /\ \A r \in Paths \ {p, q} : disk'[r] = disk[r]
    BY <1>1, <1>2 DEF TypeOK, Trees
  <1>8. WellFormed(disk)'
    BY RenameWellFormed DEF Coverage
  <1>9. ASSUME builder # "starting", NEW r \in Paths, Matched(r)
        PROVE  Matched(r)'
    <2>1. /\ q \in Pending'
          /\ Pending \ {p} \subseteq Pending'
          /\ p \notin fresh => p \in Pending'
      BY <1>1, <1>9, ViewUnchanged DEF Rename, PushRename, Watched, Pending
    <2>2. CASE r = p
      BY <1>1, <1>3, <1>7, <2>1, <2>2, ViewUnchanged DEF Matched, Excused
    <2>3. CASE r = q
      BY <2>1, <2>3 DEF Matched, Excused
    <2>4. CASE r \notin {p, q} /\ View[r] = disk[r]
      BY <1>1, <1>7, <2>4, ViewUnchanged DEF Matched
    <2>5. CASE r \notin {p, q} /\ r \in Pending
      BY <2>1, <2>5 DEF Matched, Excused
    <2>6. ASSUME r \notin {p, q}, NEW a \in Above(r), a \in Pending, disk[a] = Absent
          PROVE  Matched(r)'
      <3>1. a \in Paths /\ r \in Under(a) /\ a # p
        BY <1>2, <2>6 DEF Above
      <3>2. CASE a = q
        BY <1>1, <1>4, <1>5, <1>7, <2>6, <3>1, <3>2, NodesAssumption, ViewUnchanged
           DEF Matched
      <3>3. CASE a # q
        BY <1>7, <2>1, <2>6, <3>1, <3>3 DEF Matched, Excused
      <3> QED BY <3>2, <3>3
    <2> QED BY <1>9, <2>2, <2>3, <2>4, <2>5, <2>6 DEF Matched, Excused
  <1> QED BY <1>1, <1>8, <1>9, EnvironmentCoverage

(* apply_paths begins: the paths it takes stay pending in its batch.       *)
LEMMA BeginCoverage ==
  ASSUME Harmless, TypeOK, Coverage, ApplyPathsBegin
  PROVE  Coverage'
  <1>1. /\ ~applying /\ applying' = TRUE /\ builder = "live"
        /\ next' = tree
        /\ UNCHANGED <<disk, tree, builder, acc, visited>>
    BY DEF ApplyPathsBegin, Harmless, diskVars, builderVars
  <1>2. Pending' = Pending
    BY <1>1 DEF ApplyPathsBegin, Deliver, Pending, Coverage
  <1>3. View' = View
    BY <1>1 DEF View
  <1>4. Covers(View, Paths)'
    BY <1>1, <1>2, <1>3 DEF Coverage, Covers, Excused
  <1>5. WellFormed(disk)'
    BY <1>1 DEF Coverage, WellFormed
  <1> QED BY <1>1, <1>4, <1>5 DEF Coverage

(* One re-stat: p leaves the batch with its entry equal to the disk, and   *)
(* if p is gone so is everything p excused.                                *)
LEMMA ApplyCoverage ==
  ASSUME TypeOK, Coverage, NEW p \in Paths, ApplyPath(p)
  PROVE  Coverage'
  <1>1. /\ applying /\ builder = "live" /\ p \in batch
        /\ UNCHANGED <<disk, queue, tree, applying, builder, acc, visited>>
        /\ batch' = batch \ {p}
        /\ next' = Restat(next, p, disk[p])
    BY DEF ApplyPath, Coverage, diskVars, debounceVars, builderVars
  <1>2. View = next /\ View' = next'
    BY <1>1 DEF View
  <1>3. Pending \ {p} \subseteq Pending'
    BY <1>1 DEF Pending
  <1>4. WellFormed(disk)'
    BY <1>1 DEF Coverage, WellFormed
  <1>5. ASSUME NEW r \in Paths
        PROVE  next'[r] = disk[r] \/ Excused(r)'
    <2>1. next[r] = disk[r] \/ Excused(r)
      BY <1>1, <1>2 DEF Coverage, Covers
    <2>2. CASE disk[p] = Absent /\ r \in Subtree(p)
      BY <1>1, <2>2, NodesAssumption DEF Restat, Subtree, Coverage, WellFormed
    <2>3. CASE disk[p] # Absent /\ r = p
      BY <1>1, <2>3 DEF Restat, TypeOK, Trees
    <2>4. CASE r # p /\ (disk[p] = Absent => r \notin Subtree(p))
      <3>1. next'[r] = next[r]
        BY <1>1, <2>4 DEF Restat, TypeOK, Trees
      <3>2. Excused(r) => Excused(r)'
        BY <1>1, <1>3, <2>4 DEF Excused, Above, Subtree
      <3> QED BY <2>1, <3>1, <3>2
    <2> QED BY <2>2, <2>3, <2>4 DEF Subtree
  <1>6. Covers(View, Paths)'
    BY <1>1, <1>2, <1>5 DEF Covers
  <1> QED BY <1>1, <1>4, <1>6 DEF Coverage

(* apply_paths ends: readers now see the copy.                             *)
LEMMA StoreCoverage ==
  ASSUME TypeOK, Coverage, ApplyPathsStore
  PROVE  Coverage'
  <1>1. /\ applying /\ applying' = FALSE /\ builder = "live" /\ batch = {}
        /\ tree' = next
        /\ UNCHANGED <<disk, queue, batch, builder, acc, visited>>
    BY DEF ApplyPathsStore, Coverage, diskVars, debounceVars, builderVars
  <1>2. View' = View
    BY <1>1 DEF View
  <1>3. Covers(View, Paths)'
    BY <1>1, <1>2 DEF Coverage, Covers, Excused, Pending
  <1>4. WellFormed(disk)'
    BY <1>1 DEF Coverage, WellFormed
  <1> QED BY <1>1, <1>3, <1>4 DEF Coverage

(* The walk reads one path; below anything but a directory there is        *)
(* nothing to read.                                                        *)
LEMMA WalkCoverage ==
  ASSUME TypeOK, Coverage, NEW p \in Paths, WalkEntry(p)
  PROVE  Coverage'
  <1>1. /\ builder = "walking"
        /\ UNCHANGED <<disk, queue, tree, applying, batch, next, builder>>
        /\ acc' = [acc EXCEPT ![p] = disk[p]]
        /\ visited' = visited \cup (IF disk[p] = Directory THEN {p} ELSE Subtree(p))
    BY DEF WalkEntry, diskVars, debounceVars, watcherVars
  <1>2. Pending' = Pending
    BY <1>1 DEF Pending
  <1>3. \A r \in Paths : Excused(r)' <=> Excused(r)
    BY <1>1, <1>2 DEF Excused
  <1>4. ASSUME NEW r \in visited'
        PROVE  (acc[r] = disk[r] \/ Excused(r))'
    <2>1. r \in Paths
      BY <1>1, UnderInPaths DEF TypeOK, Subtree
    <2>2. CASE r = p
      BY <1>1, <2>2 DEF TypeOK, Trees
    <2>3. CASE r # p /\ r \in visited
      BY <1>1, <1>3, <2>1, <2>3 DEF Coverage, Covers, TypeOK, Trees
    <2>4. CASE r # p /\ r \notin visited
      <3>1. r \in Under(p) /\ disk[p] # Directory
        BY <1>1, <2>4 DEF Subtree
      <3>2. disk[r] = Absent
        BY <3>1 DEF Coverage, WellFormed
      <3>3. acc[r] = Absent
        BY <1>1, <2>1, <2>4 DEF Coverage
      <3> QED BY <1>1, <2>1, <2>4, <3>2, <3>3 DEF TypeOK, Trees
    <2> QED BY <2>2, <2>3, <2>4
  <1>5. WellFormed(disk)'
    BY <1>1 DEF Coverage, WellFormed
  <1>6. \A r \in Paths \ visited' : acc'[r] = Absent
    BY <1>1 DEF Coverage, TypeOK, Trees, Subtree
  <1> QED BY <1>1, <1>4, <1>5, <1>6 DEF Coverage, Covers

(* reconcile stores the walk's result: from here on the index is live.     *)
LEMMA ReconcileCoverage ==
  ASSUME TypeOK, Coverage, ReconcileStore
  PROVE  Coverage'
  <1>1. /\ builder = "walking" /\ builder' = "live" /\ visited = Paths
        /\ tree' = acc /\ acc' = EmptyTree
        /\ UNCHANGED <<disk, queue, applying, batch, next>>
    BY DEF ReconcileStore, diskVars, debounceVars, watcherVars
  <1>2. ~applying /\ View' = acc
    BY <1>1 DEF Coverage, View
  <1>3. Covers(View, Paths)'
    BY <1>1, <1>2 DEF Coverage, Covers, Excused, Pending
  <1>4. WellFormed(disk)'
    BY <1>1 DEF Coverage, WellFormed
  <1> QED BY <1>1, <1>2, <1>3, <1>4 DEF Coverage, EmptyTree

(* Arming the watcher keeps Coverage: nothing has been walked yet.         *)
LEMMA StartCoverage ==
  ASSUME TypeOK, Coverage, StartWatch
  PROVE  Coverage'
  <1>1. /\ builder = "starting" /\ builder' = "walking" /\ visited' = {}
        /\ UNCHANGED <<disk, applying, batch, acc>> /\ visited = {}
    BY DEF StartWatch, Coverage, diskVars, watcherVars
  <1>2. WellFormed(disk)'
    BY <1>1 DEF Coverage, WellFormed
  <1> QED BY <1>1, <1>2 DEF Coverage, Covers

(* A step that changes nothing keeps Coverage.                             *)
LEMMA StutterCoverage ==
  ASSUME Coverage, UNCHANGED vars
  PROVE  Coverage'
  <1>1. View' = View
    BY DEF View, vars
  <1> QED BY <1>1 DEF Coverage, Covers, WellFormed, Excused, Pending, vars

(* Coverage is an invariant of every vault whose environment exposes none  *)
(* of the six hazards.                                                     *)
THEOREM CoverageInvariant ==
  ASSUME Harmless
  PROVE  UnkindSpec => []Coverage
  <1>1. Init => Coverage
    BY DEF Init, Coverage, EmptyTree
  <1>2. TypeOK /\ Coverage /\ [Next]_vars => Coverage'
    <2> SUFFICES ASSUME TypeOK, Coverage, [Next]_vars PROVE Coverage'
      OBVIOUS
    <2>1. CASE Environment
      BY <2>1, CreateCoverage, ModifyCoverage, DeleteCoverage, RenameCoverage,
         MoveOutCoverage DEF Environment
    <2>2. CASE Watcher
      BY <2>2, BeginCoverage, ApplyCoverage, StoreCoverage DEF Watcher
    <2>3. CASE Builder
      BY <2>3, StartCoverage, WalkCoverage, ReconcileCoverage DEF Builder
    <2>4. CASE UNCHANGED vars
      BY <2>4, StutterCoverage
    <2> QED BY <2>1, <2>2, <2>3, <2>4 DEF Next
  <1>3. [Next \/ Unkind]_vars => [Next]_vars
    BY NothingUnkind
  <1> QED BY <1>1, <1>2, <1>3, TypeCorrect, PTL DEF UnkindSpec

(* The index can never silently diverge from the disk, for every vault and *)
(* every interleaving of disk changes, batches and the initial walk,       *)
(* provided the environment exposes none of the six hazards.               *)
THEOREM IndexFollowsDisk ==
  ASSUME Harmless
  PROVE  UnkindSpec => []NoSilentDivergence
  <1>1. TypeOK /\ Coverage => NoSilentDivergence
    <2> SUFFICES ASSUME TypeOK, Coverage, builder = "live", ~applying, queue = {}
                 PROVE  tree = disk
      BY DEF NoSilentDivergence
    <2>1. Pending = {} /\ View = tree
      BY DEF Coverage, Pending, View
    <2>2. \A p \in Paths : tree[p] = disk[p]
      BY <2>1 DEF Coverage, Covers, Excused
    <2> QED BY <2>2 DEF TypeOK, Trees
  <1> QED BY <1>1, TypeCorrect, CoverageInvariant, PTL

(* No step takes away or alters an entry that is right and not pending,    *)
(* unless it changes the disk there.                                       *)
THEOREM EntriesStay ==
  ASSUME Harmless
  PROVE  UnkindSpec => UntouchedEntriesStay
  <1> DEFINE Stays(p) == (tree[p] = disk[p] /\ ~Excused(p))
                           => (tree'[p] = tree[p] \/ disk'[p] # disk[p])
  <1>1. Coverage /\ [Next]_vars => [builder = "live" => \A p \in Paths : Stays(p)]_vars
    <2> SUFFICES ASSUME Coverage, Next, builder = "live", NEW p \in Paths
                 PROVE  Stays(p)
      OBVIOUS
    <2>1. CASE tree' = tree
      BY <2>1
    <2>2. CASE ApplyPathsStore
      <3>1. View = next /\ tree' = next
        BY <2>2 DEF ApplyPathsStore, View
      <3>2. next[p] = disk[p] \/ Excused(p)
        BY <3>1 DEF Coverage, Covers
      <3> QED BY <3>1, <3>2
    <2>3. tree' = tree \/ ApplyPathsStore
      BY DEF Next, Environment, Watcher, Builder, Create, Modify, Delete, Rename,
             MoveOut, IndexUnchanged, ApplyPathsBegin,
             ApplyPath, StartWatch, WalkEntry, ReconcileStore
    <2> QED BY <2>1, <2>2, <2>3
  <1>2. [Next \/ Unkind]_vars => [Next]_vars
    BY NothingUnkind
  <1> QED BY <1>1, <1>2, CoverageInvariant, PTL DEF UnkindSpec, UntouchedEntriesStay

-----------------------------------------------------------------------------
(* Replaying events.                                                       *)

(* Induction over the natural numbers, for a set instead of a predicate.   *)
LEMMA NatSets ==
  ASSUME NEW S, S \subseteq Nat, 0 \in S, \A n \in S : n + 1 \in S
  PROVE  S = Nat
  <1> DEFINE less == {ss \in Nat \X Nat : ss[1] < ss[2]}
             T == Nat \ S
  <1> SUFFICES ASSUME T # {} PROVE FALSE
    OBVIOUS
  <1>1. IsWellFoundedOn(less, Nat)
    BY NatLessThanWellFounded DEF OpToRel
  <1>2. T \subseteq Nat
    OBVIOUS
  <1> HIDE DEF less, T
  <1>3. PICK m \in T : \A y \in T : ~(<<y, m>> \in less)
    BY <1>1, <1>2, WFMin
  <1> USE DEF less, T
  <1>4. m - 1 \in Nat
    BY <1>3
  <1>5. <<m - 1, m>> \in less
    BY <1>3, <1>4
  <1> QED BY <1>3, <1>4, <1>5

(* An event settles what is at its own path and, if it is a deletion,      *)
(* everything below.                                                       *)
Affects(e, p) == p = e.path \/ (e.node = Absent /\ p \in Under(e.path))

(* What a client has after an event, path by path.                         *)
LEMMA ReplayAt ==
  ASSUME NEW t \in Trees, NEW e \in Events
  PROVE  /\ ReplayEvent(t, e) \in Trees
         /\ \A p \in Paths : ReplayEvent(t, e)[p] = IF Affects(e, p) THEN e.node ELSE t[p]
  <1>1. e.path \in Paths /\ e.node \in Nodes
    BY DEF Events, Nodes
  <1>2. ReplayEvent(t, e) \in Trees
    BY <1>1, RestatType DEF ReplayEvent
  <1>3. \A p \in Paths : ReplayEvent(t, e)[p] = IF Affects(e, p) THEN e.node ELSE t[p]
    BY <1>1 DEF ReplayEvent, Restat, Affects, Subtree, Trees
  <1> QED BY <1>2, <1>3

(* u is what the events es make of the tree t: at every path the node of   *)
(* the last event that affects it, or what was there.                      *)
Settles(t, es, u) ==
  \A p \in Paths :
    \/ /\ \A i \in 1..Len(es) : ~Affects(es[i], p)
       /\ u[p] = t[p]
    \/ \E i \in 1..Len(es) :
         /\ Affects(es[i], p)
         /\ \A j \in 1..Len(es) : j > i => ~Affects(es[j], p)
         /\ u[p] = es[i].node

(* Events settle a tree in one way only.                                   *)
LEMMA SettlesOne ==
  ASSUME NEW t, NEW es \in Seq(Events), NEW u \in Trees, NEW v \in Trees,
         Settles(t, es, u), Settles(t, es, v)
  PROVE  u = v
  <1>1. ASSUME NEW p \in Paths PROVE u[p] = v[p]
    <2>1. CASE \A i \in 1..Len(es) : ~Affects(es[i], p)
      BY <2>1 DEF Settles
    <2>2. CASE \E i \in 1..Len(es) : Affects(es[i], p)
      <3>1. PICK i \in 1..Len(es) :
              /\ Affects(es[i], p)
              /\ \A j \in 1..Len(es) : j > i => ~Affects(es[j], p)
              /\ u[p] = es[i].node
        BY <2>2 DEF Settles
      <3>2. PICK k \in 1..Len(es) :
              /\ Affects(es[k], p)
              /\ \A j \in 1..Len(es) : j > k => ~Affects(es[j], p)
              /\ v[p] = es[k].node
        BY <2>2 DEF Settles
      <3>3. i = k
        BY <3>1, <3>2
      <3> QED BY <3>1, <3>2, <3>3
    <2> QED BY <2>1, <2>2
  <1> QED BY <1>1 DEF Trees

(* FoldLeft(ReplayEvent, t, es), and the equation of the function it is    *)
(* the value of.                                                           *)
Replay(t, es) == FoldLeft(ReplayEvent, t, es)
ReplaySet(h, t, es, s) ==
  IF s = {} THEN t ELSE ReplayEvent(h[s \ {Max(s)}], es[Max(s)])

(* The fold over the events, with its library definition expanded.         *)
LEMMA ReplayUnfolded ==
  ASSUME NEW t, NEW es
  PROVE  Replay(t, es)
           = (CHOOSE h : h = [s \in SUBSET (DOMAIN es) |-> ReplaySet(h, t, es, s)])[DOMAIN es]
  BY DEF Replay, FoldLeft, MapThenFoldSet, ReplaySet

(* The maximum by which the library's fold takes its next index.           *)
LEMMA MaxOfUpTo ==
  ASSUME NEW n \in Nat, NEW s \in SUBSET (1..n), n \in s
  PROVE  Max(s) = n
  <1>1. \A x \in s : (\A y \in s : x >= y) <=> x = n
    OBVIOUS
  <1> QED BY <1>1 DEF Max

(* The recursion has a solution.                                           *)
LEMMA ReplaySolution ==
  ASSUME NEW t, NEW es, NEW n \in Nat
  PROVE  \E h : h = [s \in SUBSET (1..n) |-> ReplaySet(h, t, es, s)]
  <1> DEFINE Solves(h, k) == h = [s \in SUBSET (1..k) |-> ReplaySet(h, t, es, s)]
             S == {k \in Nat : \E h : Solves(h, k)}
  <1>1. 0 \in S
    <2> DEFINE h0 == [s \in SUBSET (1..0) |-> t]
    <2>1. Solves(h0, 0)
      BY DEF ReplaySet
    <2> QED BY <2>1
  <1>2. ASSUME NEW k \in S PROVE k + 1 \in S
    <2>1. PICK h : Solves(h, k)
      OBVIOUS
    <2> DEFINE g == [s \in SUBSET (1..(k + 1)) |->
                       IF k + 1 \in s THEN ReplayEvent(h[s \ {k + 1}], es[k + 1]) ELSE h[s]]
    <2>2. \A s \in SUBSET (1..k) : h[s] = ReplaySet(h, t, es, s)
      BY <2>1
    <2>3. \A s \in SUBSET (1..k) : g[s] = h[s]
      OBVIOUS
    <2>4. ASSUME NEW s \in SUBSET (1..(k + 1)) PROVE g[s] = ReplaySet(g, t, es, s)
      <3>1. CASE k + 1 \in s
        <4>1. Max(s) = k + 1
          BY <3>1, MaxOfUpTo
        <4>2. s \ {k + 1} \in SUBSET (1..k)
          OBVIOUS
        <4>3. g[s] = ReplayEvent(h[s \ {k + 1}], es[k + 1])
          BY <3>1
        <4>4. g[s \ {k + 1}] = h[s \ {k + 1}]
          BY <4>2, <2>3
        <4> HIDE DEF g
        <4> QED BY <3>1, <4>1, <4>3, <4>4 DEF ReplaySet
      <3>2. CASE k + 1 \notin s
        <4>0. s \subseteq 1..k
          BY <3>2
        <4>1. s \in SUBSET (1..k) /\ s \ {Max(s)} \in SUBSET (1..k)
          BY <4>0
        <4>2. g[s] = h[s] /\ g[s \ {Max(s)}] = h[s \ {Max(s)}]
          BY <4>1, <2>3
        <4> HIDE DEF g
        <4> QED BY <4>1, <4>2, <2>2 DEF ReplaySet
      <3> QED BY <3>1, <3>2
    <2>5. Solves(g, k + 1)
      BY <2>4
    <2>6. k + 1 \in Nat
      OBVIOUS
    <2> HIDE DEF g, Solves
    <2> QED BY <2>5, <2>6
  <1> HIDE DEF S
  <1>3. S = Nat
    <2>1. S \subseteq Nat
      BY DEF S
    <2> QED BY <1>1, <1>2, <2>1, NatSets
  <1>4. n \in S
    BY <1>3
  <1> QED BY <1>4 DEF S

(* Replaying events one after the other settles every path by the last     *)
(* event that affects it.                                                  *)
LEMMA ReplaySettles ==
  ASSUME NEW t \in Trees, NEW es \in Seq(Events)
  PROVE  Replay(t, es) \in Trees /\ Settles(t, es, Replay(t, es))
  <1> DEFINE n == Len(es)
             h == CHOOSE h : h = [s \in SUBSET (1..n) |-> ReplaySet(h, t, es, s)]
             Right(k) == /\ h[1..k] \in Trees
                         /\ \A p \in Paths :
                              \/ /\ \A i \in 1..k : ~Affects(es[i], p)
                                 /\ h[1..k][p] = t[p]
                              \/ \E i \in 1..k :
                                   /\ Affects(es[i], p)
                                   /\ \A j \in 1..k : j > i => ~Affects(es[j], p)
                                   /\ h[1..k][p] = es[i].node
             S == {k \in Nat : k <= n => Right(k)}
  <1>0. n \in Nat /\ DOMAIN es = 1..n
    OBVIOUS
  <1>1. h = [s \in SUBSET (1..n) |-> ReplaySet(h, t, es, s)]
    BY <1>0, ReplaySolution
  <1>2. Replay(t, es) = h[1..n]
    BY <1>0, ReplayUnfolded
  <1> HIDE DEF h, n
  <1>3. 0 \in S
    <2>1. 1..0 = {} /\ {} \in SUBSET (1..n)
      BY <1>0
    <2>2. h[1..0] = t
      BY <1>1, <2>1 DEF ReplaySet
    <2> QED BY <2>2
  <1>4. ASSUME NEW k \in S PROVE k + 1 \in S
    <2> SUFFICES ASSUME k + 1 <= n PROVE Right(k + 1)
      OBVIOUS
    <2>1. Right(k)
      BY <1>0
    <2>2. Max(1..(k + 1)) = k + 1
      BY MaxOfUpTo
    <2>3. /\ (1..(k + 1)) \ {k + 1} = 1..k
          /\ 1..(k + 1) # {}
          /\ 1..(k + 1) \in SUBSET (1..n)
      <3>0. k \in Nat
        OBVIOUS
      <3>1. \A i \in 1..(k + 1) : i \in 1..n
        BY <1>0, <3>0
      <3>2. k + 1 \in 1..(k + 1)
        BY <3>0
      <3>3. \A i : i \in (1..(k + 1)) \ {k + 1} <=> i \in 1..k
        BY <3>0
      <3> HIDE DEF S
      <3> QED BY <3>1, <3>2, <3>3
    <2>4. h[1..(k + 1)] = ReplayEvent(h[1..k], es[k + 1])
      <3> DEFINE s == 1..(k + 1)
      <3> HIDE DEF s, S
      <3>1. h[s] = ReplaySet(h, t, es, s)
        BY <1>1, <2>3 DEF s
      <3>2. ReplaySet(h, t, es, s) = ReplayEvent(h[1..k], es[k + 1])
        BY <2>2, <2>3 DEF ReplaySet, s
      <3> QED BY <3>1, <3>2 DEF s
    <2>5. es[k + 1] \in Events
      BY <1>0 DEF n
    <2>6. h[1..(k + 1)] \in Trees
      BY <2>1, <2>4, <2>5, ReplayAt, EmptyTypes
    <2>7. ASSUME NEW p \in Paths
          PROVE  \/ /\ \A i \in 1..(k + 1) : ~Affects(es[i], p)
                    /\ h[1..(k + 1)][p] = t[p]
                 \/ \E i \in 1..(k + 1) :
                      /\ Affects(es[i], p)
                      /\ \A j \in 1..(k + 1) : j > i => ~Affects(es[j], p)
                      /\ h[1..(k + 1)][p] = es[i].node
      <3>0. h[1..k] \in Trees
        BY <2>1
      <3>1. h[1..(k + 1)][p] = IF Affects(es[k + 1], p) THEN es[k + 1].node ELSE h[1..k][p]
        <4> DEFINE u == h[1..k]
                   v == h[1..(k + 1)]
                   e == es[k + 1]
        <4>1. u \in Trees /\ e \in Events /\ v = ReplayEvent(u, e)
          BY <3>0, <2>4, <2>5
        <4> HIDE DEF S, Right, u, v, e
        <4>2. v[p] = IF Affects(e, p) THEN e.node ELSE u[p]
          BY <4>1, ReplayAt
        <4> QED BY <4>2 DEF u, v, e
      <3>2. CASE Affects(es[k + 1], p)
        BY <3>1, <3>2
      <3>3. CASE ~Affects(es[k + 1], p)
        <4>1. h[1..(k + 1)][p] = h[1..k][p]
          BY <3>1, <3>3
        <4>2. \A i \in 1..(k + 1) : i = k + 1 \/ i \in 1..k
          OBVIOUS
        <4>3. CASE (\A i \in 1..k : ~Affects(es[i], p)) /\ h[1..k][p] = t[p]
          BY <3>3, <4>1, <4>2, <4>3
        <4>4. ASSUME NEW i \in 1..k, Affects(es[i], p),
                     \A j \in 1..k : j > i => ~Affects(es[j], p), h[1..k][p] = es[i].node
              PROVE  /\ i \in 1..(k + 1)
                     /\ \A j \in 1..(k + 1) : j > i => ~Affects(es[j], p)
                     /\ h[1..(k + 1)][p] = es[i].node
          BY <3>3, <4>1, <4>2, <4>4
        <4> QED BY <2>1, <4>3, <4>4
      <3> QED BY <3>2, <3>3
    <2> QED BY <2>6, <2>7
  <1>5. n \in S
    <2> HIDE DEF S
    <2>1. S \subseteq Nat
      BY DEF S
    <2> QED BY <1>0, <1>3, <1>4, <2>1, NatSets
  <1>6. Right(n)
    BY <1>5, <1>0
  <1> QED BY <1>2, <1>6 DEF n, Settles

(* No events change nothing.                                               *)
LEMMA SettlesNothing ==
  ASSUME NEW t
  PROVE  Settles(t, <<>>, t)
  BY DEF Settles

(* One more event: replayed over the outcome.                              *)
LEMMA SettlesAppend ==
  ASSUME NEW t, NEW es \in Seq(Events), NEW e \in Events, NEW u \in Trees,
         Settles(t, es, u)
  PROVE  Settles(t, es \o <<e>>, ReplayEvent(u, e))
  <1> DEFINE fs == es \o <<e>>
             v == ReplayEvent(u, e)
             n == Len(es)
  <1>1. n \in Nat /\ Len(fs) = n + 1
    OBVIOUS
  <1>2. fs[n + 1] = e
    OBVIOUS
  <1>3. \A i \in 1..n : fs[i] = es[i]
    OBVIOUS
  <1>4. \A p \in Paths : v[p] = IF Affects(e, p) THEN e.node ELSE u[p]
    BY ReplayAt
  <1>5. \A p \in Paths :
          \/ (\A i \in 1..n : ~Affects(es[i], p)) /\ u[p] = t[p]
          \/ \E i \in 1..n : /\ Affects(es[i], p)
                             /\ \A j \in 1..n : j > i => ~Affects(es[j], p)
                             /\ u[p] = es[i].node
    BY DEF Settles
  <1> HIDE DEF fs, v, n
  <1> SUFFICES Settles(t, fs, v)
    BY DEF fs, v
  <1> SUFFICES ASSUME NEW p \in Paths
               PROVE  \/ (\A i \in 1..(n + 1) : ~Affects(fs[i], p)) /\ v[p] = t[p]
                      \/ \E i \in 1..(n + 1) :
                           /\ Affects(fs[i], p)
                           /\ \A j \in 1..(n + 1) : j > i => ~Affects(fs[j], p)
                           /\ v[p] = fs[i].node
    BY <1>1 DEF Settles
  <1>6. \A i \in 1..(n + 1) : i = n + 1 \/ i \in 1..n
    BY <1>1
  <1>7. CASE Affects(e, p)
    <2>1. n + 1 \in 1..(n + 1) /\ \A j \in 1..(n + 1) : ~(j > n + 1)
      BY <1>1
    <2> QED BY <1>2, <1>4, <1>7, <2>1
  <1>8. CASE ~Affects(e, p)
    <2>1. v[p] = u[p]
      BY <1>4, <1>8
    <2>2. CASE (\A i \in 1..n : ~Affects(es[i], p)) /\ u[p] = t[p]
      BY <1>2, <1>3, <1>6, <1>8, <2>1, <2>2
    <2>3. ASSUME NEW i \in 1..n, Affects(es[i], p), u[p] = es[i].node,
                 \A j \in 1..n : j > i => ~Affects(es[j], p)
          PROVE  /\ i \in 1..(n + 1) /\ Affects(fs[i], p) /\ v[p] = fs[i].node
                 /\ \A j \in 1..(n + 1) : j > i => ~Affects(fs[j], p)
      <3>1. i \in 1..(n + 1)
        BY <1>1
      <3> QED BY <1>2, <1>3, <1>6, <1>8, <2>1, <2>3, <3>1
    <2> QED BY <1>5, <2>2, <2>3
  <1> QED BY <1>7, <1>8

(* One event less: replayed over the start.                                *)
LEMMA SettlesTail ==
  ASSUME NEW t \in Trees, NEW es \in Seq(Events), es # <<>>, NEW u, Settles(t, es, u)
  PROVE  Settles(ReplayEvent(t, Head(es)), Tail(es), u)
  <1> DEFINE fs == Tail(es)
             w == ReplayEvent(t, Head(es))
             n == Len(es)
  <1>1. n \in Nat \ {0} /\ Len(fs) = n - 1
    OBVIOUS
  <1>2. Head(es) = es[1] /\ es[1] \in Events
    OBVIOUS
  <1>3. \A i \in 1..(n - 1) : fs[i] = es[i + 1]
    OBVIOUS
  <1>4. \A p \in Paths : w[p] = IF Affects(es[1], p) THEN es[1].node ELSE t[p]
    BY <1>2, ReplayAt
  <1>5. \A p \in Paths :
          \/ (\A i \in 1..n : ~Affects(es[i], p)) /\ u[p] = t[p]
          \/ \E i \in 1..n : /\ Affects(es[i], p)
                             /\ \A j \in 1..n : j > i => ~Affects(es[j], p)
                             /\ u[p] = es[i].node
    BY DEF Settles
  <1> HIDE DEF fs, w, n
  <1> SUFFICES Settles(w, fs, u)
    BY DEF fs, w
  <1> SUFFICES ASSUME NEW p \in Paths
               PROVE  \/ (\A i \in 1..(n - 1) : ~Affects(fs[i], p)) /\ u[p] = w[p]
                      \/ \E i \in 1..(n - 1) :
                           /\ Affects(fs[i], p)
                           /\ \A j \in 1..(n - 1) : j > i => ~Affects(fs[j], p)
                           /\ u[p] = fs[i].node
    BY <1>1 DEF Settles
  <1>6. \A i \in 1..(n - 1) : i + 1 \in 1..n /\ i + 1 > 1
    BY <1>1
  <1>7. 1 \in 1..n
    BY <1>1
  <1>8. CASE (\A i \in 1..n : ~Affects(es[i], p)) /\ u[p] = t[p]
    BY <1>3, <1>4, <1>6, <1>7, <1>8
  <1>9. CASE \E i \in 1..n : /\ Affects(es[i], p)
                             /\ \A j \in 1..n : j > i => ~Affects(es[j], p)
                             /\ u[p] = es[i].node
    <2>1. PICK i \in 1..n : /\ Affects(es[i], p)
                            /\ \A j \in 1..n : j > i => ~Affects(es[j], p)
                            /\ u[p] = es[i].node
      BY <1>9
    <2>2. CASE i = 1
      BY <1>3, <1>4, <1>6, <2>1, <2>2
    <2>3. CASE i # 1
      <3> DEFINE k == i - 1
      <3>1. k \in 1..(n - 1) /\ i = k + 1 /\ \A j \in 1..(n - 1) : j > k => j + 1 > i
        BY <1>1, <2>3
      <3> HIDE DEF k
      <3> QED BY <1>3, <1>6, <2>1, <3>1
    <2> QED BY <2>2, <2>3
  <1> QED BY <1>5, <1>8, <1>9

(* Events replayed over their own outcome change nothing.                  *)
LEMMA SettlesAgain ==
  ASSUME NEW t, NEW es, NEW u, Settles(t, es, u)
  PROVE  Settles(u, es, u)
  BY DEF Settles

(* The outcome is the fold.                                                *)
LEMMA SettledIsReplayed ==
  ASSUME NEW t \in Trees, NEW es \in Seq(Events), NEW u \in Trees, Settles(t, es, u)
  PROVE  FoldLeft(ReplayEvent, t, es) = u
  <1>1. Replay(t, es) = u
    BY ReplaySettles, SettlesOne
  <1> QED BY <1>1 DEF Replay

-----------------------------------------------------------------------------
(* What the events tell.  A batch is told in full when no directory takes  *)
(* the place of a file the snapshot still shows, and when nothing the      *)
(* snapshot shows lies below a path that is gone from both; slowWalk, in   *)
(* addition, swaps the snapshot under a batch.  A renamed folder brings    *)
(* directories along, which the reuse of names would put over files.       *)
Tellable ==
  /\ Hazards \cap {"slowWalk", "flicker", "kindFlip"} = {}
  /\ ~({"reuse", "folderRename"} \subseteq Hazards)

KindsKept == \A p \in Paths : disk[p] = Directory => View[p] \notin Stats

NoOrphans ==
  \A p \in Paths : (disk[p] = Absent /\ View[p] = Absent)
                      => \A q \in Under(p) : View[q] = Absent

BatchTold == applying => builder = "live" /\ Settles(tree, sent, next)

WalkedOnly == \A p \in Paths \ visited : acc[p] = Absent

TellInv == WellFormed(disk) /\ KindsKept /\ NoOrphans /\ BatchTold /\ WalkedOnly

(* A re-stat either publishes an event that does to a copy what it does to *)
(* the index, or it does nothing.                                          *)
LEMMA RestatTold ==
  ASSUME TypeOK, KindsKept, NoOrphans, applying, builder = "live", NEW p \in Paths
  PROVE  \/ /\ EventsFor(p, next[p], disk[p]) = <<>>
            /\ Restat(next, p, disk[p]) = next
         \/ \E e \in Events : /\ EventsFor(p, next[p], disk[p]) = <<e>>
                              /\ Restat(next, p, disk[p]) = ReplayEvent(next, e)
  <1> DEFINE n == disk[p]
             known == next[p]
             event(type) == [type |-> type, path |-> p, node |-> n]
  <1>1. View = next /\ next \in Trees /\ n \in Nodes /\ known \in Nodes
    BY DEF View, TypeOK, Trees
  <1>2. \A type : ReplayEvent(next, event(type)) = Restat(next, p, n)
    BY DEF ReplayEvent
  <1>3. ASSUME NEW type, event(type) \in Events, EventsFor(p, known, n) = <<event(type)>>
        PROVE  \E e \in Events : /\ EventsFor(p, known, n) = <<e>>
                                 /\ Restat(next, p, n) = ReplayEvent(next, e)
    BY <1>2, <1>3
  <1>4. CASE n = Absent /\ known # Absent
    <2>1. EventsFor(p, known, n) = <<event("deleted")>>
      BY <1>4, NodesAssumption DEF EventsFor
    <2>2. event("deleted") \in Events
      BY <1>4 DEF Events
    <2> QED BY <1>3, <2>1, <2>2
  <1>5. CASE n = Absent /\ known = Absent
    <2>1. EventsFor(p, known, n) = <<>>
      BY <1>5, NodesAssumption DEF EventsFor
    <2>2. \A r \in Subtree(p) : next[r] = Absent
      BY <1>1, <1>5 DEF NoOrphans, Subtree
    <2>3. Restat(next, p, n) = next
      BY <1>1, <1>5, <2>2 DEF Restat, Trees
    <2> QED BY <2>1, <2>3
  <1>6. CASE n = Directory /\ known = Absent
    <2>1. EventsFor(p, known, n) = <<event("folder-created")>>
      BY <1>6, NodesAssumption DEF EventsFor
    <2>2. event("folder-created") \in Events
      BY <1>6 DEF Events
    <2> QED BY <1>3, <2>1, <2>2
  <1>7. CASE n = Directory /\ known # Absent
    <2>1. EventsFor(p, known, n) = <<>>
      BY <1>7, NodesAssumption DEF EventsFor
    <2>2. known = Directory
      BY <1>1, <1>7 DEF KindsKept, Nodes
    <2>3. Restat(next, p, n) = next
      BY <1>1, <1>7, <2>2, NodesAssumption DEF Restat, Trees
    <2> QED BY <2>1, <2>3
  <1>8. CASE n \in Stats /\ known = Absent
    <2>1. EventsFor(p, known, n) = <<event("created")>>
      BY <1>8, NodesAssumption DEF EventsFor
    <2>2. event("created") \in Events
      BY <1>8 DEF Events
    <2> QED BY <1>3, <2>1, <2>2
  <1>9. CASE n \in Stats /\ known # Absent
    <2>1. EventsFor(p, known, n) = <<event("modified")>>
      BY <1>9, NodesAssumption DEF EventsFor
    <2>2. event("modified") \in Events
      BY <1>9 DEF Events
    <2> QED BY <1>3, <2>1, <2>2
  <1> QED BY <1>1, <1>4, <1>5, <1>6, <1>7, <1>8, <1>9 DEF Nodes

(* A change of the disk keeps TellInv if it brings no directory over a     *)
(* file of the snapshot and takes nothing away whose parents the snapshot  *)
(* does not know.                                                          *)
LEMMA ChangeTells ==
  ASSUME TellInv, IndexUnchanged, WellFormed(disk)',
         \A r \in Paths : disk'[r] = Directory /\ disk[r] # Directory => View[r] \notin Stats,
         \A r \in Paths : disk'[r] = Absent /\ disk[r] # Absent /\ View[r] = Absent
                              => \A s \in Under(r) : View[s] = Absent
  PROVE  TellInv'
  <1>1. View' = View
    BY ViewUnchanged
  <1>2. KindsKept'
    BY <1>1 DEF TellInv, KindsKept
  <1>3. NoOrphans'
    BY <1>1 DEF TellInv, NoOrphans
  <1>4. BatchTold'
    BY DEF TellInv, BatchTold, IndexUnchanged, watcherVars, builderVars
  <1>5. WalkedOnly'
    BY DEF TellInv, WalkedOnly, IndexUnchanged, builderVars
  <1> QED BY <1>2, <1>3, <1>4, <1>5 DEF TellInv

(* The guard of every removal: the snapshot knows the parents of all it    *)
(* shows below.                                                            *)
LEMMA RemovalKnown ==
  ASSUME Tellable, NEW p \in Paths, NoFlicker(p), NEW r \in Subtree(p), View[r] = Absent
  PROVE  \A s \in Under(r) : View[s] = Absent
  BY DEF Tellable, NoFlicker, ParentsKnown

(* A file or folder is created.                                            *)
LEMMA CreateTells ==
  ASSUME Tellable, TypeOK, TellInv, NEW p \in Paths, NEW n \in Stats \cup {Directory}, Create(p, n)
  PROVE  TellInv'
  <1>1. IndexUnchanged /\ disk' = [disk EXCEPT ![p] = n] /\ disk[p] = Absent /\ n # Absent
    BY NodesAssumption DEF Create, Creatable
  <1>2. WellFormed(disk)'
    BY <1>1, CreateWellFormed DEF TellInv, Create, Creatable
  <1>3. n = Directory => View[p] \notin Stats
    BY DEF Create, Creatable, KindStable, Tellable
  <1>4. \A r \in Paths : r # p => disk'[r] = disk[r]
    BY <1>1 DEF TypeOK, Trees
  <1>5. disk'[p] = n
    BY <1>1 DEF TypeOK, Trees
  <1> QED BY <1>1, <1>2, <1>3, <1>4, <1>5, ChangeTells

(* A file is changed: what the next walk sees is new and will be told.     *)
LEMMA ModifyTells ==
  ASSUME TypeOK, TellInv, NEW p \in Paths, NEW s \in Stats, Modify(p, s)
  PROVE  TellInv'
  <1>1. IndexUnchanged /\ disk' = [disk EXCEPT ![p] = s]
    BY DEF Modify
  <1>2. WellFormed(disk)'
    BY ModifyWellFormed DEF TellInv
  <1>3. disk'[p] = s /\ s # Directory /\ s # Absent
    BY <1>1, NodesAssumption DEF TypeOK, Trees
  <1>4. \A r \in Paths : r # p => disk'[r] = disk[r]
    BY <1>1 DEF TypeOK, Trees
  <1> QED BY <1>1, <1>2, <1>3, <1>4, ChangeTells

(* A file or folder is deleted.                                            *)
LEMMA DeleteTells ==
  ASSUME Tellable, TypeOK, TellInv, NEW p \in Paths, Delete(p)
  PROVE  TellInv'
  <1>1. IndexUnchanged /\ disk' = [disk EXCEPT ![p] = Absent] /\ NoFlicker(p)
    BY DEF Delete
  <1>2. WellFormed(disk)'
    BY DeleteWellFormed DEF TellInv
  <1>3. disk'[p] = Absent /\ \A r \in Paths : r # p => disk'[r] = disk[r]
    BY <1>1 DEF TypeOK, Trees
  <1>4. p \in Subtree(p)
    BY DEF Subtree
  <1>5. View[p] = Absent => \A s \in Under(p) : View[s] = Absent
    BY <1>1, <1>4, RemovalKnown
  <1> QED BY <1>1, <1>2, <1>3, <1>5, NodesAssumption, ChangeTells

(* A folder is moved out of the vault.                                     *)
LEMMA MoveOutTells ==
  ASSUME Tellable, TypeOK, TellInv, NEW p \in Paths, MoveOut(p)
  PROVE  TellInv'
  <1>1. /\ IndexUnchanged /\ NoFlicker(p)
        /\ disk' = [r \in Paths |-> IF r \in Subtree(p) THEN Absent ELSE disk[r]]
    BY DEF MoveOut
  <1>2. WellFormed(disk)'
    BY MoveOutWellFormed DEF TellInv
  <1>3. \A r \in Subtree(p) : View[r] = Absent => \A s \in Under(r) : View[s] = Absent
    BY <1>1, RemovalKnown
  <1>4. \A r \in Paths : disk'[r] = IF r \in Subtree(p) THEN Absent ELSE disk[r]
    BY <1>1
  <1> QED BY <1>1, <1>2, <1>3, <1>4, NodesAssumption, ChangeTells

(* A file is renamed within the vault.                                     *)
LEMMA RenameTells ==
  ASSUME Tellable, TypeOK, TellInv, NEW p \in Paths, NEW q \in Paths, Rename(p, q)
  PROVE  TellInv'
  <1>1. /\ IndexUnchanged /\ NoFlicker(p)
        /\ p # q /\ disk[p] # Absent
        /\ disk' = [disk EXCEPT ![p] = Absent, ![q] = disk[p]]
    BY DEF Rename
  <1>2. WellFormed(disk)'
    BY RenameWellFormed DEF TellInv
  <1>3. /\ disk'[p] = Absent /\ disk'[q] = disk[p]
        /\ \A r \in Paths \ {p, q} : disk'[r] = disk[r]
    BY <1>1 DEF TypeOK, Trees
  <1>4. disk[p] = Directory => View[q] \notin Stats
    BY NodesAssumption DEF Rename, Creatable, KindStable, Tellable
  <1>5. p \in Subtree(p)
    BY DEF Subtree
  <1>6. View[p] = Absent => \A s \in Under(p) : View[s] = Absent
    BY <1>1, <1>5, RemovalKnown
  <1> QED BY <1>1, <1>2, <1>3, <1>4, <1>6, NodesAssumption, ChangeTells

(* A folder is moved in with its contents, some of which no event will     *)
(* name.                                                                   *)
LEMMA MoveInTells ==
  ASSUME Tellable, TypeOK, TellInv, NEW p \in Paths,
         NEW contents \in [Under(p) -> Stats \cup {Absent}], MoveIn(p, contents)
  PROVE  TellInv'
  <1>1. /\ IndexUnchanged /\ WellFormed(disk') /\ disk[p] = Absent
        /\ disk' = [[r \in Paths |-> IF r \in Under(p) THEN contents[r] ELSE disk[r]]
                      EXCEPT ![p] = Directory]
    BY DEF MoveIn, Creatable
  <1>2. View[p] \notin Stats
    BY DEF MoveIn, Creatable, KindStable, Tellable
  <1>3. \A r \in Under(p) : disk[r] = Absent
    BY <1>1, NodesAssumption DEF TellInv, WellFormed
  <1>4. /\ disk'[p] = Directory
        /\ \A r \in Under(p) : r # p => disk'[r] \in Stats \cup {Absent}
        /\ \A r \in Paths : r # p /\ r \notin Under(p) => disk'[r] = disk[r]
    BY <1>1, UnderInPaths
  <1>5. WellFormed(disk)'
    BY <1>1 DEF WellFormed
  <1> QED BY <1>1, <1>2, <1>3, <1>4, <1>5, NodesAssumption, ChangeTells

(* A folder is renamed within the vault.                                   *)
LEMMA RenameFolderTells ==
  ASSUME Tellable, TypeOK, TellInv, NEW p \in Paths, NEW q \in Paths, RenameFolder(p, q)
  PROVE  TellInv'
  <1> DEFINE arrived(r) == IF Origin(p, q, r) \in Paths THEN disk[Origin(p, q, r)] ELSE Absent
  <1>1. disk' = [r \in Paths |-> IF r \in Subtree(p) THEN Absent
                                ELSE IF r \in Subtree(q) THEN arrived(r)
                                ELSE disk[r]]
    BY DEF RenameFolder, Origin
  <1>2. IndexUnchanged /\ NoFlicker(p) /\ disk[q] = Absent
    BY DEF RenameFolder, Creatable
  <1>3. WellFormed(disk)'
    BY RenameFolderWellFormed DEF TellInv
  <1>4. \A r \in Subtree(p) : View[r] = Absent => \A s \in Under(r) : View[s] = Absent
    BY <1>2, RemovalKnown
  <1>5. \A r \in Subtree(q) : View[r] \notin Stats /\ disk[r] = Absent
    <2>1. "folderRename" \in Hazards /\ NameFree(q) /\ KindStable(q, Directory)
      BY DEF RenameFolder, Creatable
    <2>2. \A r \in Under(q) : View[r] = Absent
      BY <2>1 DEF NameFree, Tellable
    <2>3. View[q] \notin Stats
      BY <2>1 DEF KindStable, Tellable
    <2>4. \A r \in Under(q) : disk[r] = Absent
      BY <1>2, NodesAssumption DEF TellInv, WellFormed
    <2> QED BY <1>2, <2>2, <2>3, <2>4, NodesAssumption DEF Subtree
  <1> HIDE DEF arrived
  <1>6. \A r \in Paths : disk'[r] = IF r \in Subtree(p) THEN Absent
                                   ELSE IF r \in Subtree(q) THEN arrived(r)
                                   ELSE disk[r]
    BY <1>1
  <1> QED BY <1>2, <1>3, <1>4, <1>5, <1>6, NodesAssumption, ChangeTells

(* apply_paths re-stats a path.                                            *)
LEMMA ApplyTells ==
  ASSUME TypeOK, TellInv, NEW p \in Paths, ApplyPath(p)
  PROVE  TellInv'
  <1>1. /\ applying /\ builder = "live" /\ applying' /\ builder' = "live"
        /\ tree' = tree /\ disk' = disk
        /\ sent' = sent \o EventsFor(p, next[p], disk[p])
        /\ next' = Restat(next, p, disk[p])
    BY DEF ApplyPath, TellInv, BatchTold, diskVars, builderVars
  <1>2. View = next /\ View' = next'
    BY <1>1 DEF View
  <1>3. next \in Trees /\ disk \in Trees /\ disk[p] \in Nodes /\ sent \in Seq(Events)
    BY DEF TypeOK, Trees
  <1>4. \A r \in Paths : next'[r] = IF r = p \/ (disk[p] = Absent /\ r \in Subtree(p))
                                   THEN disk[p] ELSE next[r]
    BY <1>1, <1>3 DEF Restat, Trees, Subtree
  <1>5. KindsKept'
    BY <1>1, <1>2, <1>4, NodesAssumption DEF TellInv, KindsKept
  <1>6. NoOrphans'
    <2> SUFFICES ASSUME NEW r \in Paths, disk[r] = Absent, next'[r] = Absent,
                        NEW s \in Under(r)
                 PROVE  next'[s] = Absent
      BY <1>1, <1>2 DEF NoOrphans
    <2>1. s \in Paths
      BY UnderInPaths
    <2>2. CASE s \in Subtree(p) /\ disk[p] = Absent
      BY <1>4, <2>1, <2>2
    <2>3. CASE s = p /\ disk[p] # Absent
      BY <2>3, NodesAssumption DEF TellInv, WellFormed
    <2>4. CASE s # p /\ ~(s \in Subtree(p) /\ disk[p] = Absent)
      <3>1. next'[s] = next[s]
        BY <1>4, <2>1, <2>4
      <3>2. r \notin Subtree(p) \/ disk[p] # Absent
        BY <2>4, UnderTransitive DEF Subtree
      <3>3. r = p => disk[p] = Absent
        OBVIOUS
      <3>4. next'[r] = next[r]
        BY <1>4, <3>2, <3>3 DEF Subtree
      <3> QED BY <1>2, <3>1, <3>4 DEF TellInv, NoOrphans
    <2> QED BY <2>2, <2>3, <2>4 DEF Subtree
  <1>7. Settles(tree, sent, next)'
    <2>1. Settles(tree, sent, next)
      BY <1>1 DEF TellInv, BatchTold
    <2>2. CASE EventsFor(p, next[p], disk[p]) = <<>> /\ Restat(next, p, disk[p]) = next
      <3>1. sent' = sent /\ next' = next
        BY <1>1, <1>3, <2>2
      <3> QED BY <1>1, <2>1, <3>1 DEF Settles
    <2>3. ASSUME NEW e \in Events, EventsFor(p, next[p], disk[p]) = <<e>>,
                 Restat(next, p, disk[p]) = ReplayEvent(next, e)
          PROVE  Settles(tree, sent, next)'
      <3>1. Settles(tree, sent \o <<e>>, ReplayEvent(next, e))
        BY <1>3, <2>1, SettlesAppend
      <3>2. Settles(tree', sent', next')
        BY <1>1, <2>3, <3>1
      <3> QED BY <3>2 DEF Settles
    <2> QED BY <1>1, <2>2, <2>3, RestatTold DEF TellInv
  <1>8. WellFormed(disk)'
    BY <1>1 DEF TellInv, WellFormed
  <1>9. WalkedOnly'
    BY DEF TellInv, WalkedOnly, ApplyPath, builderVars
  <1> QED BY <1>1, <1>5, <1>6, <1>7, <1>8, <1>9 DEF TellInv, BatchTold

(* The other steps of the index.                                           *)
LEMMA IndexTells ==
  ASSUME Tellable, TypeOK, TellInv, ApplyPathsBegin \/ ApplyPathsStore \/ Builder
  PROVE  TellInv'
  <1>1. disk' = disk
    BY DEF ApplyPathsBegin, ApplyPathsStore, Builder, StartWatch, WalkEntry, ReconcileStore, diskVars
  <1>2. WellFormed(disk)'
    BY <1>1 DEF TellInv, WellFormed
  <1>3. ASSUME View' = View PROVE KindsKept' /\ NoOrphans'
    BY <1>1, <1>3 DEF TellInv, KindsKept, NoOrphans
  <1>9. ASSUME UNCHANGED <<acc, visited>> PROVE WalkedOnly'
    BY <1>9 DEF TellInv, WalkedOnly
  <1>4. CASE ApplyPathsBegin
    <2>1. /\ ~applying /\ builder = "live" /\ builder' = "live" /\ tree' = tree
          /\ applying' /\ next' = tree /\ sent' = <<>>
          /\ UNCHANGED <<acc, visited>>
      BY <1>4 DEF ApplyPathsBegin, Tellable, builderVars
    <2>2. View' = View
      BY <2>1 DEF View
    <2>3. Settles(tree', sent', next')
      BY <2>1, SettlesNothing
    <2>4. BatchTold'
      BY <2>1, <2>3 DEF BatchTold, Settles
    <2> QED BY <1>2, <1>3, <1>9, <2>1, <2>2, <2>4 DEF TellInv
  <1>5. CASE ApplyPathsStore
    <2>1. /\ applying /\ builder = "live" /\ builder' = "live" /\ tree' = next /\ ~applying'
          /\ UNCHANGED <<acc, visited>>
      BY <1>5 DEF ApplyPathsStore, TellInv, BatchTold, builderVars
    <2>2. View' = View
      BY <2>1 DEF View
    <2> QED BY <1>2, <1>3, <1>9, <2>1, <2>2 DEF TellInv, BatchTold
  <1>6. CASE StartWatch
    <2>1. /\ builder = "starting" /\ builder' = "walking" /\ acc' = acc
          /\ applying' = applying /\ visited' = visited
      BY <1>6 DEF StartWatch, watcherVars
    <2>2. View' = View
      BY <2>1 DEF View
    <2> QED BY <1>2, <1>3, <1>9, <2>1, <2>2 DEF TellInv, BatchTold
  <1>7. ASSUME NEW p \in Paths, WalkEntry(p) PROVE TellInv'
    <2>1. /\ builder = "walking" /\ builder' = "walking" /\ applying' = applying
          /\ acc' = [acc EXCEPT ![p] = disk[p]]
          /\ p \notin visited
          /\ visited' = visited \cup (IF disk[p] = Directory THEN {p} ELSE Subtree(p))
      BY <1>7 DEF WalkEntry, watcherVars
    <2>2. View = acc /\ View' = acc'
      BY <2>1 DEF View
    <2>3. acc'[p] = disk[p] /\ \A r \in Paths : r # p => acc'[r] = acc[r]
      BY <2>1 DEF TypeOK, Trees
    <2>4. KindsKept'
      BY <1>1, <2>2, <2>3, NodesAssumption DEF TellInv, KindsKept
    <2>5. NoOrphans'
      <3> SUFFICES ASSUME NEW r \in Paths, disk[r] = Absent, acc'[r] = Absent, NEW s \in Under(r)
                   PROVE  acc'[s] = Absent
        BY <1>1, <2>2 DEF NoOrphans
      <3>1. s \in Paths /\ disk[s] = Absent
        BY UnderInPaths, NodesAssumption DEF TellInv, WellFormed
      <3>2. CASE s = p
        BY <2>3, <3>1, <3>2
      <3>3. CASE s # p /\ r # p
        BY <2>2, <2>3, <3>1, <3>3 DEF TellInv, NoOrphans
      <3>4. CASE r = p
        <4>1. acc[p] = Absent
          BY <2>1 DEF TellInv, WalkedOnly
        <4> QED BY <2>2, <2>3, <3>1, <3>4, <4>1 DEF TellInv, NoOrphans
      <3> QED BY <3>2, <3>3, <3>4
    <2>6. WalkedOnly'
      BY <2>1, <2>3 DEF TellInv, WalkedOnly, Subtree
    <2> QED BY <1>2, <2>1, <2>4, <2>5, <2>6 DEF TellInv, BatchTold
  <1>8. CASE ReconcileStore
    <2>1. /\ builder = "walking" /\ builder' = "live" /\ tree' = acc /\ applying' = applying
      BY <1>8 DEF ReconcileStore, watcherVars
    <2>2. ~applying
      BY <2>1 DEF TellInv, BatchTold
    <2>3. View' = View
      BY <2>1, <2>2 DEF View
    <2>4. WalkedOnly'
      BY <1>8 DEF ReconcileStore, WalkedOnly, EmptyTree
    <2> QED BY <1>2, <1>3, <2>1, <2>2, <2>3, <2>4 DEF TellInv, BatchTold
  <1> QED BY <1>4, <1>5, <1>6, <1>7, <1>8 DEF Builder

(* TellInv is an invariant of every vault whose environment exposes only   *)
(* hazards that leave the events right about the index.                    *)
THEOREM TellInvariant ==
  ASSUME Tellable
  PROVE  UnkindSpec => []TellInv
  <1>1. Init => TellInv
    <2> SUFFICES ASSUME Init PROVE TellInv
      OBVIOUS
    <2>1. View = EmptyTree /\ ~applying /\ acc = EmptyTree /\ WellFormed(disk)
      BY DEF Init, View
    <2> QED BY <2>1, UnderInPaths, NodesAssumption
            DEF TellInv, KindsKept, NoOrphans, BatchTold, WalkedOnly, EmptyTree
  <1>2. TypeOK /\ TellInv /\ [Next \/ Unkind]_vars => TellInv'
    <2> SUFFICES ASSUME TypeOK, TellInv, [Next \/ Unkind]_vars PROVE TellInv'
      OBVIOUS
    <2>1. CASE Environment
      BY <2>1, CreateTells, ModifyTells, DeleteTells, RenameTells, MoveOutTells DEF Environment
    <2>2. CASE Unkind
      <3>1. CASE WatchError
        <4>1. IndexUnchanged /\ disk' = disk
          BY <3>1 DEF WatchError, diskVars
        <4>2. WellFormed(disk)'
          BY <4>1 DEF TellInv, WellFormed
        <4> QED BY <4>1, <4>2, ChangeTells
      <3> QED BY <2>2, <3>1, MoveInTells, RenameFolderTells DEF Unkind
    <2>3. CASE Watcher
      BY <2>3, ApplyTells, IndexTells DEF Watcher
    <2>4. CASE Builder
      BY <2>4, IndexTells
    <2>5. CASE UNCHANGED vars
      BY <2>5 DEF vars, TellInv, WellFormed, KindsKept, NoOrphans, BatchTold, WalkedOnly,
                  View, Settles
    <2> QED BY <2>1, <2>2, <2>3, <2>4, <2>5 DEF Next
  <1> QED BY <1>1, <1>2, TypeCorrect, PTL DEF UnkindSpec

(* The events published for a batch, replayed one by one over the snapshot *)
(* readers still see, give the copy that apply_paths is about to store:    *)
(* for every vault, every batch and every order in which it is worked off. *)
THEOREM EventsTell ==
  ASSUME Tellable
  PROVE  UnkindSpec => []EventsTellTheBatch
  <1>1. TypeOK /\ TellInv => EventsTellTheBatch
    <2> SUFFICES ASSUME TypeOK, TellInv, applying
                 PROVE  FoldLeft(ReplayEvent, tree, sent) = next
      BY DEF EventsTellTheBatch
    <2> QED BY SettledIsReplayed DEF TypeOK, TellInv, BatchTold
  <1> QED BY <1>1, TypeCorrect, TellInvariant, PTL

=============================================================================
