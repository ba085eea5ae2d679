------------------------------- MODULE UnixFs -------------------------------
(***************************************************************************)
(* The file system as the routes of the server use it: a map from inodes   *)
(* to folders and notes, path lookup with the errors the kernel gives, and *)
(* the calls that change one entry.  A file system is a value; which step  *)
(* of which request computes the next one is FsRoutes' matter.             *)
(***************************************************************************)
EXTENDS Naturals, Sequences, SequencesExt, Functions, FiniteSets, TLC

CONSTANTS
  Ids,         \* inodes
  Top,         \* the inode of the data directory
  Components,  \* names of files and folders
  Zero,        \* the byte of a hole
  None         \* no inode, no error

Errors == {"ENOENT", "ENOTDIR", "EISDIR", "EEXIST", "ENOTEMPTY", "EINVAL", "EIO", "EACCES"}

(* mtime None: the time of the last change.                                *)
Folder == [type |-> "dir", at |-> <<>>, bytes |-> <<>>, mtime |-> None]
Note(bytes) == [type |-> "file", at |-> <<>>, bytes |-> bytes, mtime |-> None]
NoInode == [type |-> "none", at |-> <<>>, bytes |-> <<>>, mtime |-> None]

IsInode(n) ==
  /\ n = [type |-> n.type, at |-> n.at, bytes |-> n.bytes, mtime |-> n.mtime]
  /\ n.type \in {"dir", "file", "none"}
  /\ n.at \in UNION {[S -> Ids] : S \in SUBSET Components}
  /\ n.type # "dir" => n.at = <<>>
IsFs(m) == m = [id \in Ids |-> m[id]] /\ \A id \in Ids : IsInode(m[id])

IsDir(m, id) == m[id].type = "dir"
Names(m, d) == DOMAIN m[d].at

(* The entry of folder d, or why there is none.                            *)
Entry(m, d, name) ==
  IF d \in Errors THEN d
  ELSE IF ~IsDir(m, d) THEN "ENOTDIR"
  ELSE IF name \in Names(m, d) THEN m[d].at[name]
  ELSE "ENOENT"

Walk(m, path) ==
  LET id[k \in 0 .. Len(path)] == IF k = 0 THEN Top ELSE Entry(m, id[k - 1], path[k])
  IN id[Len(path)]

(* The folder a path's last name is looked up in, or why there is none.    *)
ParentOf(m, path) ==
  LET d == Walk(m, Front(path)) IN IF d \notin Errors /\ ~IsDir(m, d) THEN "ENOTDIR" ELSE d

Link(m, d, name, id) ==
  [m EXCEPT ![d].at = [n \in {name} \cup DOMAIN @ |-> IF n = name THEN id ELSE @[n]], ![d].mtime = None]
Unlink(m, d, name) == [m EXCEPT ![d].at = Restrict(@, DOMAIN @ \ {name}), ![d].mtime = None]
WithBytes(m, id, bytes) == [m EXCEPT ![id].bytes = bytes, ![id].mtime = None]

(* Bytes written behind the first n of a file leave what is behind them; a *)
(* file that is shorter is filled up.                                      *)
Overlay(old, n, new) ==
  SubSeq(old \o [i \in 1..n |-> Zero], 1, n) \o new \o SubSeq(old, n + Len(new) + 1, Len(old))

-----------------------------------------------------------------------------
(* No path is longer than there are inodes, so that looking that many times*)
(* finds everything: what there is, every path with its inode.             *)
Tree(m) ==
  LET T[k \in 0 .. Cardinality(Ids)] ==
        IF k = 0 THEN {<<<<>>, Top>>}
        ELSE LET found == T[k - 1] IN
             found \cup UNION {{<<Append(t[1], n), m[t[2]].at[n]>> : n \in Names(m, t[2])} : t \in found}
  IN T[Cardinality(Ids)]
View(m) ==
  LET T == Tree(m) IN
  [p \in {t[1] : t \in T} |-> LET n == m[Walk(m, p)] IN [type |-> n.type, bytes |-> n.bytes]]

(* The inodes that lead from some of them.                                 *)
Reached(m, roots) ==
  LET S[k \in 0 .. Cardinality(Ids)] ==
        IF k = 0 THEN roots
        ELSE LET found == S[k - 1] IN
             found \cup UNION {{m[id].at[n] : n \in Names(m, id)} : id \in found}
  IN S[Cardinality(Ids)]

(* Inodes that nothing leads to and nobody holds open are gone.            *)
Collect(m, held) ==
  LET kept == Reached(m, {Top} \cup held) IN [id \in Ids |-> IF id \in kept THEN m[id] ELSE NoInode]

(* What there is, with the inodes it is in.                                *)
Sight(m) ==
  [p \in {t[1] : t \in Tree(m)} |->
     LET id == Walk(m, p) IN [id |-> id, type |-> m[id].type, bytes |-> m[id].bytes]]

(* Every entry leads to an inode, and no inode has two.                    *)
IsTree(m) ==
  LET T == Tree(m) IN
  \A t \in T : m[t[2]].type # "none" /\ \A u \in T : t[2] = u[2] => t = u

-----------------------------------------------------------------------------
(* What the calls that take two looks at the tree would fail with, or None.*)

(* mkdir(2)                                                                *)
MkdirError(m, path) ==
  LET d == ParentOf(m, path) IN
  IF path = <<>> THEN "EEXIST"
  ELSE IF d \in Errors THEN d
  ELSE IF Last(path) \in Names(m, d) THEN "EEXIST"
  ELSE None

(* open(2) for writing                                                     *)
OpenError(m, path) ==
  LET d == ParentOf(m, path) IN
  IF d \in Errors THEN d
  ELSE IF Last(path) \in Names(m, d) /\ IsDir(m, Walk(m, path)) THEN "EISDIR"
  ELSE None

(* unlink(2) and rmdir(2) of an entry of d                                 *)
UnlinkError(m, d, name) ==
  LET id == Entry(m, d, name) IN
  IF id \in Errors THEN id ELSE IF IsDir(m, id) THEN "EISDIR" ELSE None
RmdirError(m, d, name) ==
  LET id == Entry(m, d, name) IN
  IF id \in Errors THEN id
  ELSE IF ~IsDir(m, id) THEN "ENOTDIR"
  ELSE IF Names(m, id) # {} THEN "ENOTEMPTY"
  ELSE None

(* rename(2)                                                               *)
RenameError(m, from, to) ==
  LET id == Walk(m, from)
      d == ParentOf(m, to)
      old == Walk(m, to)
  IN
  IF id \in Errors THEN id
  ELSE IF d \in Errors THEN d
  ELSE IF IsStrictPrefix(from, to) THEN "EINVAL"
  ELSE IF old \in Errors \/ old = id THEN None
  ELSE IF IsDir(m, id) /\ ~IsDir(m, old) THEN "ENOTDIR"
  ELSE IF ~IsDir(m, id) /\ IsDir(m, old) THEN "EISDIR"
  ELSE IF IsDir(m, id) /\ Names(m, old) # {} THEN "ENOTEMPTY"
  ELSE None
Rename(m, from, to) ==
  LET id == Walk(m, from) IN
  IF from = to THEN m
  ELSE Link(Unlink(m, ParentOf(m, from), Last(from)), ParentOf(m, to), Last(to), id)

=============================================================================
