------------------------------ MODULE FsRoutes ------------------------------
(***************************************************************************)
(* The routes under /api/fs (server/src/fs_routes.rs) and /vault-files     *)
(* (vault_files_handler of static_routes.rs).  A handler does not lock     *)
(* anything: it is a sequence of calls to the file system, and the calls   *)
(* of requests served by different threads interleave.  A call is one      *)
(* step; it may fail, and the machine may go down between any two.         *)
(*                                                                         *)
(* `mem' is the file system as the processes see it and `disk' what a      *)
(* power failure leaves of it.  fsync puts the contents of one file on the *)
(* disk, but no name: names and folders get there when the kernel writes   *)
(* them out, all of them together as a journal does, which may be at any   *)
(* time, with or without the contents of the other files.                  *)
(***************************************************************************)
EXTENDS UnixFs

CONSTANTS
  Requests,    \* one of each is served at most once
  Queries,     \* what is asked for
  Starts,      \* file systems to start from
  Vault,       \* name of the vault's folder in the data directory
  Other,       \* a folder next to it
  BatchLimit,  \* paths a batch-read looks at (1000)
  Binary,      \* bytes that are not UTF-8
  Faults       \* may calls fail and the machine crash?

ASSUME BoundsAssumption == BatchLimit \in Nat /\ Faults \in BOOLEAN
ASSUME NamesAssumption ==
  /\ {Vault, Other} \subseteq Components /\ Vault # Other
  /\ {".", ".."} \cap Components = {}
ASSUME IdsAssumption ==
  /\ IsFiniteSet(Ids) /\ Top \in Ids
  /\ Ids \cap Errors = {} /\ None \notin Ids \cup Errors \cup {"bad"}
Operations == {"write", "append", "mkdir", "rename", "copy", "utimes", "unlink", "rmdir", "rm", "stat",
               "access", "read", "download", "readdir", "zip", "vault_file", "batch_read"}
ASSUME QueriesAssumption ==
  \A q \in Queries :
    /\ q # None /\ q.op \in Operations /\ q.size \in Nat
    /\ q.path = None \/ q.path \in Seq(Components \cup {".", ".."})
    /\ q.to \in Seq(Components \cup {".", ".."})
    /\ q.mtime \in 0..999
    /\ q.paths \in Seq(Seq(Components \cup {".", ".."}))

(* The data directory has the vault and the folder next to it, every entry *)
(* leads to an inode, and no inode has two names.                          *)
ASSUME StartsAssumption ==
  \A m \in Starts :
    /\ IsFs(m) /\ \A id \in Ids : m[id].mtime = None /\ m[id].bytes \in Seq(Range(m[id].bytes))
    /\ m[Top].type = "dir" /\ Names(m, Top) = {Vault, Other} /\ m[m[Top].at[Other]] = Folder
    /\ \A d, e \in Ids : \A x \in Names(m, d), y \in Names(m, e) :
         /\ m[d].at[x] # Top /\ m[m[d].at[x]].type # "none"
         /\ m[d].at[x] = m[e].at[y] => d = e /\ x = y

VARIABLES
  mem, disk,  \* the file system
  crashed,    \* has the machine been down?
  req,        \* the query of a request
  pc,         \* next call of its handler
  loc,        \* its local variables
  answer,     \* its answer, None until then
  before,     \* history: what there was when it started
  views,      \* history: what there was while it ran
  contents,   \* history: what the note it reads has held since it was opened
  rivals,     \* history: the requests that ran at the same time or later
  failed,     \* history: the requests a call of which has failed
  dropped     \* history: the writes whose names a crash has taken

vars == <<mem, disk, crashed, req, pc, loc, answer, before, views, contents, rivals, failed, dropped>>

-----------------------------------------------------------------------------
(* Paths.                                                                  *)

(* Mutant: `..' goes up without looking where.                             *)
StepUnchecked(acc, comp) ==
  CASE comp = "."  -> acc
    [] comp = ".." -> [acc EXCEPT !.out = Front(@), !.depth = @ - 1]
    [] OTHER       -> [acc EXCEPT !.out = Append(@, comp), !.depth = @ + 1]

Step(acc, comp) ==
  CASE comp = "."  -> acc
    [] comp = ".." -> IF acc.depth = 0 THEN [acc EXCEPT !.ok = FALSE]
                      ELSE [acc EXCEPT !.out = Front(@), !.depth = @ - 1]
    [] OTHER       -> [acc EXCEPT !.out = Append(@, comp), !.depth = @ + 1]

(* The absolute path of a relative one, whose leading slashes are gone.    *)
ResolveInVault(rel) ==
  LET acc[k \in 0 .. Len(rel)] ==
        IF k = 0 THEN [out |-> <<Vault>>, depth |-> 0, ok |-> TRUE] ELSE Step(acc[k - 1], rel[k])
  IN acc[Len(rel)]

(* Times.  A time is the milliseconds of a second of this century: the     *)
(* quotient by 1000.0 is rounded to 22 binary places (524288 / 125 is      *)
(* 2^22 / 1000), and what is read back is cut off to milliseconds.         *)

(* Mutant: only whole seconds are kept.                                    *)
FtFromSeconds(ms) == 0

FtFromMs(ms) == (2 * ms * 524288 + 125) \div 250
ToMs(t) == IF t = None THEN None ELSE (t * 125) \div 524288

-----------------------------------------------------------------------------
(* Open files, what has been read or copied of the one, folders to make,   *)
(* folders being walked, the path to read next, paths still to read, and   *)
(* the notes that have been read.                                          *)
Nothing == [fd |-> None, dest |-> None, got |-> <<>>, dirs |-> <<>>, frames |-> <<>>,
            reading |-> None, left |-> <<>>, files |-> {}]

Running == {r \in Requests : pc[r] \notin {"idle", "done", "lost"}}
Held ==
  ({loc[r].fd : r \in Running} \cup {loc[r].dest : r \in Running}
    \cup UNION {{loc[r].frames[i].dir : i \in DOMAIN loc[r].frames} : r \in Running}) \ {None}

(* Bound: there are inodes left where one is made.                         *)
Unused == {id \in Ids : mem[id].type = "none" /\ disk[id].type = "none"}
Free == CHOOSE id \in Ids : id \in Unused

Path(r) == ResolveInVault(req[r].path).out
To(r) == ResolveInVault(req[r].to).out
Content(r) == [i \in 1..req[r].size |-> r]

(* Requests whose answers are compared with what there was meanwhile.      *)
Watched == {"unlink", "rmdir", "rm", "read", "download", "batch_read", "zip", "vault_file"}

(* The file system becomes m, or stays what it is.                         *)
Store(m) ==
  /\ mem' = Collect(m, Held)
  /\ views' = [s \in Requests |-> IF s \in Running /\ req[s].op \in Watched
                                  THEN views[s] \cup {Sight(mem')} ELSE views[s]]
  /\ contents' = [s \in Requests |-> IF pc[s] = "read"
                                     THEN contents[s] \cup {mem'[loc[s].fd].bytes} ELSE contents[s]]
  /\ UNCHANGED disk
Same == UNCHANGED <<mem, views, contents, disk>>

Answer(r, err, out) ==
  /\ pc' = [pc EXCEPT ![r] = "done"]
  /\ answer' = [answer EXCEPT ![r] = [err |-> err, out |-> out]]
  /\ loc' = [loc EXCEPT ![r] = Nothing]
Ok(r) == Answer(r, None, {})
Err(r, err) == Answer(r, err, {})

Goto(r, step, l) ==
  /\ pc' = [pc EXCEPT ![r] = step]
  /\ loc' = [loc EXCEPT ![r] = l]
  /\ UNCHANGED answer

(* r's handler makes the call of this step.                                *)
At(r, step) == pc[r] = step /\ UNCHANGED <<crashed, req, before, rivals, failed, dropped>>

(* ApiError: the status of an answer.                                      *)
Status(err) ==
  CASE err = None     -> 200
    [] err = "bad"    -> 400
    [] err = "ENOENT" -> 404
    [] err = "EACCES" -> 403
    [] OTHER          -> 500

-----------------------------------------------------------------------------
Init ==
  /\ mem \in Starts /\ disk = mem /\ crashed = FALSE
  /\ req = [r \in Requests |-> None]
  /\ pc = [r \in Requests |-> "idle"]
  /\ loc = [r \in Requests |-> Nothing]
  /\ answer = [r \in Requests |-> None]
  /\ before = [r \in Requests |-> None]
  /\ views = [r \in Requests |-> {}]
  /\ contents = [r \in Requests |-> {}]
  /\ rivals = [r \in Requests |-> {}]
  /\ failed = {} /\ dropped = {}

(* vault_root, the required parameters, resolve_in_vault and the decoding. *)
Rejection(q) ==
  IF q.vault = None THEN "bad"
  ELSE IF q.vault # Vault THEN "ENOENT"
  ELSE IF q.op = "batch_read" THEN None
  ELSE IF q.path = None THEN "bad"
  ELSE IF ~ResolveInVault(q.path).ok \/ ~ResolveInVault(q.to).ok THEN "bad"
  ELSE IF ~q.decodes THEN "bad"
  ELSE None

FirstCall(q) ==
  CASE q.op \in {"write", "rename", "copy"}                 -> "mkdirs"
    [] q.op = "mkdir"                                       -> IF q.recursive THEN "mkdirs" ELSE "mkdir"
    [] q.op = "append"                                      -> "open_append"
    [] q.op \in {"read", "download", "readdir", "zip"}      -> "metadata"
    [] q.op = "vault_file"                                  -> "open"
    [] OTHER                                                -> q.op

(* create_dir_all is called on the parent of what is written, or on the    *)
(* folder itself.                                                          *)
Wanted(q) ==
  CASE q.op = "write"            -> Front(ResolveInVault(q.path).out)
    [] q.op \in {"rename", "copy"} -> Front(ResolveInVault(q.to).out)
    [] OTHER                     -> ResolveInVault(q.path).out

Begin(r, q) ==
  /\ pc[r] = "idle"
  /\ req' = [req EXCEPT ![r] = q]
  /\ IF Rejection(q) # None
     THEN Err(r, Rejection(q)) /\ UNCHANGED <<before, views>>
     ELSE /\ Goto(r, FirstCall(q),
                  [Nothing EXCEPT
                     !.dirs = IF FirstCall(q) = "mkdirs" THEN <<[path |-> Wanted(q), again |-> FALSE]>>
                              ELSE <<>>,
                     !.reading = IF q.op = "vault_file" THEN ResolveInVault(q.path).out ELSE None,
                     !.left = IF q.op = "batch_read"
                              THEN SubSeq(q.paths, 1, IF Len(q.paths) < BatchLimit THEN Len(q.paths)
                                                      ELSE BatchLimit)
                              ELSE <<>>])
          /\ before' = [before EXCEPT ![r] = View(mem)]
          /\ views' = [views EXCEPT ![r] = IF q.op \in Watched THEN {Sight(mem)} ELSE {}]
  /\ rivals' = [s \in Requests |-> IF s = r THEN Running
                                   ELSE IF req[s] # None THEN rivals[s] \cup {r} ELSE {}]
  /\ UNCHANGED <<mem, disk, crashed, contents, failed, dropped>>

(* create_dir_all: try; if the parent is missing make that first and try   *)
(* again; an error is none if the folder is there.                         *)
MakeDirs(r) ==
  LET l == loc[r]
      d == Head(l.dirs)
      e == MkdirError(mem, d.path)
      rest == [l EXCEPT !.dirs = Tail(@)]
      Popped == IF rest.dirs # <<>> THEN Goto(r, "mkdirs", rest)
                ELSE IF req[r].op = "mkdir" THEN Ok(r)
                ELSE Goto(r, CASE req[r].op = "write" -> "create"
                               [] req[r].op = "rename" -> "rename"
                               [] req[r].op = "copy" -> "open_source", rest)
      there == LET id == Walk(mem, d.path) IN id \notin Errors /\ IsDir(mem, id)
  IN
  /\ At(r, "mkdirs")
  /\ \/ /\ e = None /\ Unused # {}
        /\ Store(Link([mem EXCEPT ![Free] = Folder], ParentOf(mem, d.path), Last(d.path), Free))
        /\ Popped
     \/ /\ e = "ENOENT" /\ ~d.again
        /\ Goto(r, "mkdirs", [l EXCEPT !.dirs = <<[path |-> Front(d.path), again |-> FALSE],
                                                  [d EXCEPT !.again = TRUE]>> \o Tail(@)])
        /\ Same
     \/ /\ e # None /\ (e = "ENOENT" => d.again)
        /\ IF there THEN Popped ELSE Err(r, e)
        /\ Same

-----------------------------------------------------------------------------
(* writeFile, appendFile and copyFile.                                     *)

(* Opens a file for writing and creates it if it is missing.               *)
Opened(path, bytes) ==
  IF Walk(mem, path) \in Errors
  THEN Link([mem EXCEPT ![Free] = Note(<<>>)], ParentOf(mem, path), Last(path), Free)
  ELSE WithBytes(mem, Walk(mem, path), bytes)
OpenedId(path) == IF Walk(mem, path) \in Errors THEN Free ELSE Walk(mem, path)

(* File::create                                                            *)
Create(r) ==
  /\ At(r, "create")
  /\ \/ /\ OpenError(mem, Path(r)) # None
        /\ Err(r, OpenError(mem, Path(r))) /\ Same
     \/ /\ OpenError(mem, Path(r)) = None /\ Unused # {}
        /\ Store(Opened(Path(r), <<>>))
        /\ Goto(r, "write_all", [loc[r] EXCEPT !.fd = OpenedId(Path(r))])

OpenAppend(r) ==
  /\ At(r, "open_append")
  /\ \/ /\ OpenError(mem, Path(r)) # None
        /\ Err(r, OpenError(mem, Path(r))) /\ Same
     \/ /\ OpenError(mem, Path(r)) = None /\ Unused # {}
        /\ IF Walk(mem, Path(r)) \in Errors THEN Store(Opened(Path(r), <<>>)) ELSE Same
        /\ Goto(r, "write_all", [loc[r] EXCEPT !.fd = OpenedId(Path(r))])

(* n bytes reach the file: at its start, or at its end when appending.     *)
Written(r, n) ==
  LET old == mem[loc[r].fd].bytes
      new == SubSeq(Content(r), 1, n)
  IN WithBytes(mem, loc[r].fd, IF req[r].op = "append" THEN old \o new ELSE Overlay(old, 0, new))

WriteAll(r) ==
  /\ At(r, "write_all")
  /\ Store(Written(r, req[r].size))
  /\ Goto(r, "sync_all", loc[r])

(* The disk is full: some of the bytes are written.                        *)
WriteFails(r) ==
  /\ Faults /\ pc[r] = "write_all"
  /\ \E n \in 0 .. req[r].size - 1 : Store(Written(r, n))
  /\ Err(r, "EIO")
  /\ failed' = failed \cup {r}
  /\ UNCHANGED <<crashed, req, before, rivals, dropped>>

(* Mutant: the answer does not wait for the disk.                          *)
SyncNothing(r) ==
  /\ At(r, "sync_all")
  /\ IF req[r].op = "write" THEN Goto(r, "size", loc[r]) ELSE Ok(r)
  /\ Same

(* What some files hold is on the disk, under whatever names they have     *)
(* there.                                                                  *)
Flushed(ids) == [id \in Ids |-> IF id \in ids /\ mem[id].type = "file" THEN mem[id] ELSE disk[id]]

(* fsync(2) of the file, and of nothing else.                              *)
SyncAll(r) ==
  /\ At(r, "sync_all")
  /\ disk' = Flushed({loc[r].fd})
  /\ UNCHANGED <<mem, views, contents>>
  /\ IF req[r].op = "write" THEN Goto(r, "size", loc[r]) ELSE Ok(r)

(* The size is read back.                                                  *)
ReadBack(r) ==
  /\ At(r, "size")
  /\ Answer(r, None, {[size |-> Len(mem[loc[r].fd].bytes)]})
  /\ Same

(* std::fs::copy: the source, which must be a file, then the destination,  *)
(* then the bytes from the one to the other, as many as a call takes.      *)
OpenSource(r) ==
  LET id == Walk(mem, Path(r)) IN
  /\ At(r, "open_source")
  /\ IF id \in Errors THEN Err(r, id)
     ELSE IF IsDir(mem, id) THEN Err(r, "EINVAL")
     ELSE Goto(r, "create_dest", [loc[r] EXCEPT !.fd = id])
  /\ Same

CreateDest(r) ==
  /\ At(r, "create_dest")
  /\ \/ /\ OpenError(mem, To(r)) # None
        /\ Err(r, OpenError(mem, To(r))) /\ Same
     \/ /\ OpenError(mem, To(r)) = None /\ Unused # {}
        /\ Store(Opened(To(r), <<>>))
        /\ Goto(r, "transfer", [loc[r] EXCEPT !.dest = OpenedId(To(r))])

Transfer(r) ==
  LET l == loc[r]
      bytes == mem[l.fd].bytes
  IN
  /\ At(r, "transfer")
  /\ \/ \E n \in Len(l.got) + 1 .. Len(bytes) :
          LET some == SubSeq(bytes, Len(l.got) + 1, n) IN
          /\ Store(WithBytes(mem, l.dest, Overlay(mem[l.dest].bytes, Len(l.got), some)))
          /\ Goto(r, "transfer", [l EXCEPT !.got = @ \o some])
     \/ Len(bytes) <= Len(l.got) /\ Ok(r) /\ Same

-----------------------------------------------------------------------------
(* mkdir, rename, utimes and the deletions.                                *)

Mkdir(r) ==
  LET e == MkdirError(mem, Path(r)) IN
  /\ At(r, "mkdir")
  /\ \/ e # None /\ Err(r, e) /\ Same
     \/ /\ e = None /\ Unused # {} /\ Ok(r)
        /\ Store(Link([mem EXCEPT ![Free] = Folder], ParentOf(mem, Path(r)), Last(Path(r)), Free))

(* Mutant: the old name stays.                                             *)
RenameLinks(r) ==
  LET e == RenameError(mem, Path(r), To(r)) IN
  /\ At(r, "rename")
  /\ \/ e # None /\ Err(r, e) /\ Same
     \/ /\ e = None /\ Ok(r)
        /\ Store(Link(mem, ParentOf(mem, To(r)), Last(To(r)), Walk(mem, Path(r))))

Move(r) ==
  LET e == RenameError(mem, Path(r), To(r)) IN
  /\ At(r, "rename")
  /\ \/ e # None /\ Err(r, e) /\ Same
     \/ e = None /\ Ok(r) /\ Store(Rename(mem, Path(r), To(r)))

Utimes(r) ==
  LET id == Walk(mem, Path(r)) IN
  /\ At(r, "utimes")
  /\ \/ id \in Errors /\ Err(r, id) /\ Same
     \/ /\ id \notin Errors /\ Ok(r)
        /\ Store([mem EXCEPT ![id].mtime = FtFromMs(req[r].mtime)])

(* remove_file and remove_dir of r's path.                                 *)
RemoveEntry(r) == Store(Unlink(mem, ParentOf(mem, Path(r)), Last(Path(r))))
FileError(r) == UnlinkError(mem, ParentOf(mem, Path(r)), Last(Path(r)))
DirError(r) == RmdirError(mem, ParentOf(mem, Path(r)), Last(Path(r)))

(* Mutant: every error passes for a missing file.                          *)
UnlinkForgiving(r) ==
  /\ At(r, "unlink")
  /\ \/ FileError(r) = None /\ RemoveEntry(r) /\ Ok(r)
     \/ FileError(r) # None /\ Ok(r) /\ Same

(* unlink: what is not there is deleted.                                   *)
UnlinkFile(r) ==
  /\ At(r, "unlink")
  /\ \/ FileError(r) = None /\ RemoveEntry(r) /\ Ok(r)
     \/ FileError(r) = "ENOENT" /\ Ok(r) /\ Same
     \/ FileError(r) \notin {None, "ENOENT"} /\ Err(r, FileError(r)) /\ Same

RemoveDir(r, step) ==
  /\ At(r, step)
  /\ \/ DirError(r) = None /\ RemoveEntry(r) /\ Ok(r)
     \/ DirError(r) # None /\ Err(r, DirError(r)) /\ Same

Rmdir(r) == RemoveDir(r, "rmdir")

(* Mutant: a folder is always removed with what is in it.                  *)
LstatForgetsFlag(r) ==
  LET id == Walk(mem, Path(r)) IN
  /\ At(r, "rm")
  /\ IF id = "ENOENT" THEN Ok(r)
     ELSE IF id \in Errors THEN Err(r, id)
     ELSE Goto(r, IF ~IsDir(mem, id) THEN "remove_file" ELSE "remove_dir_all", loc[r])
  /\ Same

(* rm looks what kind of thing the path is and removes it as that.         *)
Lstat(r) ==
  LET id == Walk(mem, Path(r)) IN
  /\ At(r, "rm")
  /\ IF id = "ENOENT" THEN Ok(r)
     ELSE IF id \in Errors THEN Err(r, id)
     ELSE Goto(r, IF ~IsDir(mem, id) THEN "remove_file"
                  ELSE IF req[r].recursive THEN "remove_dir_all" ELSE "remove_dir", loc[r])
  /\ Same

RemoveFile(r) ==
  /\ At(r, "remove_file")
  /\ \/ FileError(r) = None /\ RemoveEntry(r) /\ Ok(r)
     \/ FileError(r) # None /\ Err(r, FileError(r)) /\ Same

(* remove_dir_all and zip_walk keep the folders they are in open.  The     *)
(* entries of a folder are listed when it is opened.                       *)
Frame(d, path) ==
  [dir |-> d, path |-> path,
   left |-> {[name |-> n, folder |-> IsDir(mem, mem[d].at[n])] : n \in Names(mem, d)}]

OpenTree(r) ==
  LET id == Walk(mem, Path(r)) IN
  /\ At(r, "remove_dir_all")
  /\ IF id \in Errors THEN Err(r, id)
     ELSE IF ~IsDir(mem, id) THEN Err(r, "ENOTDIR")
     ELSE Goto(r, "empty", [loc[r] EXCEPT !.frames = <<Frame(id, Path(r))>>])
  /\ Same

(* One entry of the innermost folder: what is gone already is skipped, a   *)
(* folder is entered, anything else is unlinked.                           *)
RemoveChild(r) ==
  LET n == Len(loc[r].frames)
      f == loc[r].frames[n]
  IN
  /\ At(r, "empty")
  /\ \E c \in f.left :
       LET id == Entry(mem, f.dir, c.name)
           rest == [loc[r] EXCEPT !.frames[n].left = @ \ {c}]
       IN
       \/ id \in Errors /\ Goto(r, "empty", rest) /\ Same
       \/ /\ id \notin Errors /\ IsDir(mem, id) /\ c.folder
          /\ Goto(r, "empty", [rest EXCEPT !.frames = Append(@, Frame(id, Append(f.path, c.name)))])
          /\ Same
       \/ id \notin Errors /\ IsDir(mem, id) /\ ~c.folder /\ Err(r, "EISDIR") /\ Same
       \/ /\ id \notin Errors /\ ~IsDir(mem, id)
          /\ Goto(r, "empty", rest) /\ Store(Unlink(mem, f.dir, c.name))

(* The folder itself, in the folder above or, at the end, by its path.     *)
RemoveEmptied(r) ==
  LET n == Len(loc[r].frames)
      d == IF n = 1 THEN ParentOf(mem, Path(r)) ELSE loc[r].frames[n - 1].dir
      name == Last(loc[r].frames[n].path)
      e == RmdirError(mem, d, name)
  IN
  /\ At(r, "empty")
  /\ loc[r].frames[n].left = {}
  /\ IF e \notin {None, "ENOENT"} THEN Err(r, e)
     ELSE IF n = 1 THEN Ok(r)
     ELSE Goto(r, "empty", [loc[r] EXCEPT !.frames = Front(@)])
  /\ IF e = None THEN Store(Unlink(mem, d, name)) ELSE Same

-----------------------------------------------------------------------------
(* The routes that read.                                                   *)

Stat(r) ==
  LET id == Walk(mem, Path(r)) IN
  /\ At(r, "stat")
  /\ IF id \in Errors THEN Err(r, id)
     ELSE Answer(r, None, {[type |-> mem[id].type, size |-> Len(mem[id].bytes),
                            mtime |-> ToMs(mem[id].mtime)]})
  /\ Same

Access(r) ==
  /\ At(r, "access")
  /\ IF Walk(mem, Path(r)) \in Errors THEN Err(r, "ENOENT") ELSE Ok(r)
  /\ Same

(* readFile and download want a file, readdir and download-zip a folder.   *)
Metadata(r) ==
  LET id == Walk(mem, Path(r))
      file == req[r].op \in {"read", "download"}
  IN
  /\ At(r, "metadata")
  /\ IF id \in Errors THEN Err(r, id)
     ELSE IF IsDir(mem, id) = file THEN Err(r, "bad")
     ELSE Goto(r, IF file THEN "open" ELSE "read_dir", [loc[r] EXCEPT !.reading = Path(r)])
  /\ Same

(* A note that cannot be read: a batch goes on, vault_files_handler finds  *)
(* nothing, the others fail.                                               *)
Missed(r, err) ==
  CASE req[r].op = "batch_read" -> Goto(r, "batch_read", [loc[r] EXCEPT !.reading = None, !.fd = None, !.got = <<>>])
    [] req[r].op = "vault_file" -> Err(r, "ENOENT")
    [] OTHER                    -> Err(r, err)

(* std::fs::read and read_to_string: open(2) ...                           *)
OpenNote(r) ==
  LET id == Walk(mem, loc[r].reading) IN
  /\ At(r, "open") /\ UNCHANGED <<mem, views, disk>>
  /\ \/ id \in Errors /\ Missed(r, id) /\ UNCHANGED contents
     \/ id \notin Errors /\ IsDir(mem, id) /\ Missed(r, "EISDIR") /\ UNCHANGED contents
     \/ /\ id \notin Errors /\ ~IsDir(mem, id)
        /\ Goto(r, "read", [loc[r] EXCEPT !.fd = id])
        /\ contents' = [contents EXCEPT ![r] = {mem[id].bytes}]

IsText(bytes) == Range(bytes) \cap Binary = {}

(* ... and read(2), which gives some of the bytes, until there are no more.*)
(* A batch leaves out what is not UTF-8.                                   *)
ReadUpTo(r, n) ==
  /\ Goto(r, "read", [loc[r] EXCEPT !.got = @ \o SubSeq(mem[loc[r].fd].bytes, Len(@) + 1, n)])
  /\ Same
Finish(r, next) ==
  LET note == [path |-> loc[r].reading, bytes |-> loc[r].got, held |-> contents[r]]
      files == IF req[r].op = "batch_read" /\ ~IsText(note.bytes) THEN loc[r].files ELSE loc[r].files \cup {note}
  IN
  /\ IF req[r].op \in {"zip", "batch_read"}
     THEN Goto(r, req[r].op, [next EXCEPT !.fd = None, !.reading = None, !.files = files])
     ELSE Answer(r, None, files)
  /\ contents' = [contents EXCEPT ![r] = {}]
  /\ UNCHANGED <<mem, views, disk>>

(* Mutant: one buffer for all notes, which is not cleared.                 *)
ReadIntoOneBuffer(r) ==
  LET have == Len(loc[r].got)
      size == Len(mem[loc[r].fd].bytes)
  IN
  /\ At(r, "read")
  /\ \/ \E n \in have + 1 .. size : ReadUpTo(r, n)
     \/ size <= have /\ Finish(r, loc[r])

Read(r) ==
  LET have == Len(loc[r].got)
      size == Len(mem[loc[r].fd].bytes)
  IN
  /\ At(r, "read")
  /\ \/ \E n \in have + 1 .. size : ReadUpTo(r, n)
     \/ size <= have /\ Finish(r, [loc[r] EXCEPT !.got = <<>>])

ReadDir(r) ==
  LET path == loc[r].reading
      id == Walk(mem, path)
  IN
  /\ At(r, "read_dir")
  /\ IF id \in Errors THEN Err(r, id)
     ELSE IF ~IsDir(mem, id) THEN Err(r, "ENOTDIR")
     ELSE IF req[r].op = "readdir"
     THEN Answer(r, None, {[name |-> n, type |-> mem[mem[id].at[n]].type] : n \in Names(mem, id)})
     ELSE Goto(r, "zip", [loc[r] EXCEPT !.frames = Append(@, Frame(id, path))])
  /\ Same

(* Mutant: folders inside the folder are left out.                         *)
ZipFlat(r) ==
  LET n == Len(loc[r].frames)
      f == loc[r].frames[n]
  IN
  /\ At(r, "zip")
  /\ \/ \E c \in f.left :
          LET path == Append(f.path, c.name)
              id == Walk(mem, path)
              rest == [loc[r] EXCEPT !.frames[n].left = @ \ {c}]
          IN IF id \in Errors THEN Err(r, id)
             ELSE IF IsDir(mem, id) THEN Goto(r, "zip", rest)
             ELSE Goto(r, "open", [rest EXCEPT !.reading = path])
     \/ f.left = {} /\ n > 1 /\ Goto(r, "zip", [loc[r] EXCEPT !.frames = Front(@)])
     \/ f.left = {} /\ n = 1 /\ Answer(r, None, loc[r].files)
  /\ Same

(* zip_walk: lstat of the next entry, whose file is read or folder entered;*)
(* an entry that is gone by now fails the archive.                         *)
ZipWalk(r) ==
  LET n == Len(loc[r].frames)
      f == loc[r].frames[n]
  IN
  /\ At(r, "zip")
  /\ \/ \E c \in f.left :
          LET path == Append(f.path, c.name)
              id == Walk(mem, path)
              rest == [loc[r] EXCEPT !.frames[n].left = @ \ {c}, !.reading = path]
          IN IF id \in Errors THEN Err(r, id)
             ELSE Goto(r, IF IsDir(mem, id) THEN "read_dir" ELSE "open", rest)
     \/ f.left = {} /\ n > 1 /\ Goto(r, "zip", [loc[r] EXCEPT !.frames = Front(@)])
     \/ f.left = {} /\ n = 1 /\ Answer(r, None, loc[r].files)
  /\ Same

(* batch-read: what escapes the vault is left out.                         *)
BatchRead(r) ==
  /\ At(r, "batch_read")
  /\ IF loc[r].left = <<>> THEN Answer(r, None, loc[r].files)
     ELSE LET rel == ResolveInVault(Head(loc[r].left))
              rest == [loc[r] EXCEPT !.left = Tail(@)]
          IN IF rel.ok THEN Goto(r, "open", [rest EXCEPT !.reading = rel.out]) ELSE Goto(r, "batch_read", rest)
  /\ Same

-----------------------------------------------------------------------------
(* A call fails.                                                           *)
CallFails(r) ==
  /\ Faults /\ r \in Running /\ pc[r] \notin {"write_all", "batch_read"}
  /\ IF pc[r] \in {"open", "read"} THEN Missed(r, "EIO")
     ELSE Err(r, IF pc[r] = "access" THEN "ENOENT" ELSE "EIO")
  /\ failed' = failed \cup {r}
  /\ contents' = [contents EXCEPT ![r] = {}]
  /\ UNCHANGED <<mem, views, disk, crashed, req, before, rivals, dropped>>

(* The kernel writes out what some files hold, and all the names or none.  *)
(* A name without what is in the file is an empty file.  (Bound: nothing   *)
(* after the one crash, since nobody would see it.)                        *)
Journaled(files) ==
  [id \in Ids |-> IF id \in files \/ mem[id].type # "file" THEN mem[id]
                  ELSE IF disk[id].type = "none" THEN Note(<<>>) ELSE disk[id]]
WriteBack ==
  /\ Faults /\ ~crashed
  /\ \E files \in SUBSET {id \in Ids : mem[id].type = "file"} :
       \/ disk' = Flushed(files)
       \/ disk' = Collect(Journaled(files), {})
  /\ disk' # disk
  /\ UNCHANGED <<mem, crashed, req, pc, loc, answer, before, views, contents, rivals, failed, dropped>>

(* The machine goes down and comes up again; nobody gets an answer.        *)
Crash ==
  /\ Faults /\ ~crashed /\ crashed' = TRUE
  /\ mem' = Collect(disk, {}) /\ disk' = mem'
  /\ pc' = [r \in Requests |-> IF r \in Running THEN "lost" ELSE pc[r]]
  /\ loc' = [r \in Requests |-> Nothing]
  /\ contents' = [r \in Requests |-> {}]
  /\ dropped' = {r \in Requests : /\ pc[r] = "done" /\ req[r].op \in {"write", "append"}
                                  /\ Walk(disk, Path(r)) # Walk(mem, Path(r))}
  /\ UNCHANGED <<req, answer, before, views, rivals, failed>>

Next ==
  \/ \E r \in Requests, q \in Queries : Begin(r, q)
  \/ \E r \in Requests :
       \/ MakeDirs(r) \/ Create(r) \/ OpenAppend(r) \/ WriteAll(r) \/ WriteFails(r)
       \/ SyncAll(r) \/ ReadBack(r) \/ OpenSource(r) \/ CreateDest(r) \/ Transfer(r)
       \/ Mkdir(r) \/ Move(r) \/ Utimes(r) \/ UnlinkFile(r) \/ Rmdir(r) \/ Lstat(r)
       \/ RemoveFile(r) \/ RemoveDir(r, "remove_dir") \/ OpenTree(r)
       \/ RemoveChild(r) \/ RemoveEmptied(r) \/ Stat(r) \/ Access(r) \/ Metadata(r)
       \/ OpenNote(r) \/ Read(r) \/ ReadDir(r) \/ ZipWalk(r) \/ BatchRead(r) \/ CallFails(r)
  \/ WriteBack \/ Crash

Spec == Init /\ [][Next]_vars

-----------------------------------------------------------------------------
TypeOK ==
  /\ IsTree(mem) /\ IsTree(disk)
  /\ req \in [Requests -> Queries \cup {None}]
  /\ \A r \in Requests :
       /\ IF pc[r] = "done" THEN answer[r].err \in Errors \cup {None, "bad"} ELSE answer[r] = None
       /\ rivals[r] \subseteq Requests \ {r}
       /\ loc[r].fd \in Ids \cup {None} /\ loc[r].dest \in Ids \cup {None}

-----------------------------------------------------------------------------
(* What a request does to what there is, by path: the next view, and the   *)
(* status of the answer.                                                   *)
Is(V, p, type) == p \in DOMAIN V /\ V[p].type = type
Blocked(V, p) == \E k \in 1 .. Len(p) - 1 : Is(V, SubSeq(p, 1, k), "file")
Set(V, p, node) == (p :> node) @@ V
Text(bytes) == [type |-> "file", bytes |-> bytes]
DirNode == [type |-> "dir", bytes |-> <<>>]
WithFolders(V, p) == V @@ [q \in {SubSeq(p, 1, k) : k \in 0 .. Len(p)} |-> DirNode]
Within(V, p) == {q \in DOMAIN V : IsPrefix(p, q)}
Without(V, p) == Restrict(V, DOMAIN V \ Within(V, p))
IsLeaf(V, p) == Within(V, p) = {p}

Effect(r, V) ==
  LET q == req[r]
      p == Path(r)
      t == To(r)
      parent == Front(p)
      W == WithFolders(V, Front(t))
      Moved == LET gone == Without(Without(W, t), p) IN
               [x \in DOMAIN gone \cup {t \o SubSeq(y, Len(p) + 1, Len(y)) : y \in Within(W, p)} |->
                     IF IsPrefix(t, x) THEN W[p \o SubSeq(x, Len(t) + 1, Len(x))] ELSE gone[x]]
  IN
  CASE q.op = "write" ->
         IF Blocked(V, p) \/ Is(V, p, "dir") THEN <<V, 500>>
         ELSE <<Set(WithFolders(V, parent), p, Text(Content(r))), 200>>
    [] q.op = "append" ->
         IF Blocked(V, p) \/ Is(V, p, "dir") THEN <<V, 500>>
         ELSE IF parent \notin DOMAIN V THEN <<V, 404>>
         ELSE <<Set(V, p, Text((IF p \in DOMAIN V THEN V[p].bytes ELSE <<>>) \o Content(r))), 200>>
    [] q.op = "mkdir" /\ q.recursive ->
         IF Blocked(V, p) \/ Is(V, p, "file") THEN <<V, 500>> ELSE <<WithFolders(V, p), 200>>
    [] q.op = "mkdir" /\ ~q.recursive ->
         IF Blocked(V, p) \/ p \in DOMAIN V THEN <<V, 500>>
         ELSE IF parent \notin DOMAIN V THEN <<V, 404>>
         ELSE <<Set(V, p, DirNode), 200>>
    [] q.op = "rename" ->
         IF Blocked(V, t) THEN <<V, 500>>
         ELSE IF Blocked(W, p) THEN <<W, 500>>
         ELSE IF p \notin DOMAIN W THEN <<W, 404>>
         ELSE IF p = t THEN <<W, 200>>
         ELSE IF IsPrefix(p, t) \/ (t \in DOMAIN W /\ (W[p].type # W[t].type \/ ~IsLeaf(W, t)))
              THEN <<W, 500>>
         ELSE <<Moved, 200>>
    [] q.op = "copy" ->
         IF Blocked(V, t) THEN <<V, 500>>
         ELSE IF Blocked(W, p) THEN <<W, 500>>
         ELSE IF p \notin DOMAIN W THEN <<W, 404>>
         ELSE IF Is(W, p, "dir") \/ Is(W, t, "dir") THEN <<W, 500>>
         ELSE <<Set(W, t, IF p = t THEN Text(<<>>) ELSE W[p]), 200>>
    [] q.op = "rmdir" ->
         IF Blocked(V, p) \/ Is(V, p, "file") THEN <<V, 500>>
         ELSE IF p \notin DOMAIN V THEN <<V, 404>>
         ELSE IF ~IsLeaf(V, p) THEN <<V, 500>>
         ELSE <<Without(V, p), 200>>
    [] q.op \in {"unlink", "rm"} ->
         IF Blocked(V, p) THEN <<V, 500>>
         ELSE IF p \notin DOMAIN V THEN <<V, 200>>
         ELSE IF V[p].type = "dir"
                 /\ (q.op = "unlink" \/ (~q.recursive /\ ~IsLeaf(V, p))) THEN <<V, 500>>
         ELSE <<Without(V, p), 200>>
    [] q.op = "batch_read" -> <<V, 200>>
    [] q.op = "vault_file" -> <<V, IF Is(V, p, "file") THEN 200 ELSE 404>>
    [] OTHER -> <<V, IF Blocked(V, p) THEN IF q.op = "access" THEN 404 ELSE 500
                     ELSE IF p \notin DOMAIN V THEN 404
                     ELSE IF (q.op \in {"read", "download"} /\ V[p].type = "dir")
                             \/ (q.op \in {"readdir", "zip"} /\ V[p].type = "file") THEN 400
                     ELSE 200>>

(* The statuses and effects of the routes' tests, for every route and from *)
(* every state: a request that no other one runs beside, and whose calls   *)
(* do not fail, changes exactly what it names and answers as it should;    *)
(* among the rest that a rename or a copy that fails has made the folders  *)
(* of its target, and that a note copied to itself is emptied.             *)
AloneIsExact ==
  [][\A r \in Requests :
       (r \in Running /\ pc'[r] = "done" /\ rivals[r] = {} /\ r \notin failed')
         => <<View(mem'), Status(answer'[r].err)>> = Effect(r, before[r])]_vars

(* Can what q does reach the note at p?  A folder without -r is removed    *)
(* only when nothing is in it.                                             *)
MayTouch(q, p) ==
  LET from == ResolveInVault(q.path).out
      to == ResolveInVault(q.to).out
  IN
  \/ q.op \in {"write", "append", "unlink", "rm"} /\ from = p
  \/ q.op = "rm" /\ q.recursive /\ IsPrefix(from, p)
  \/ q.op = "copy" /\ to = p
  \/ q.op = "rename" /\ (IsPrefix(from, p) \/ to = p)

(* What keeps something open, and what may put it in a note's place.       *)
Keeping == {"write", "append", "copy", "rm"}
MovesOnto(q, p) == q.op = "rename" /\ IsPrefix(ResolveInVault(q.to).out, p)

Calm(r) ==
  \A s \in rivals[r] :
    /\ ~MayTouch(req[s], Path(r))
    /\ req[s].op \in Keeping => \A t \in rivals[s] : ~MovesOnto(req[t], Path(r))
Acked(r) == pc[r] = "done" /\ answer[r].err = None /\ req[r].op \in {"write", "append"}
Good(r, bytes) == IF req[r].op = "write" THEN bytes = Content(r) ELSE IsSuffix(Content(r), bytes)

(* "Writes are honest + durable: real bytes to disk + fsync": the bytes of *)
(* an acknowledged write or append are in the note, and are there after a  *)
(* crash, whatever requests for other things run beside and after it.  A   *)
(* request that has something else open counts as one for the note when a  *)
(* rename moves what it has open there.  Only the name of the note may be  *)
(* lost, or that of a folder above it: a crash leaves what the path led to *)
(* on the disk, and if that was the note, its bytes are there.             *)
AckedWritesSurvive ==
  \A r \in Requests :
    Acked(r) /\ Calm(r) /\ r \notin dropped =>
      LET id == Walk(mem, Path(r)) IN
      /\ id \notin Errors /\ Good(r, mem[id].bytes)
      /\ Walk(disk, Path(r)) = id => Good(r, disk[id].bytes)

(* The same of every acknowledged write, that of a new note too, as the    *)
(* comment says; fsync of the note does not put its name on the disk.      *)
WritesAreDurable ==
  \A r \in Requests :
    Acked(r) /\ Calm(r) =>
      LET id == Walk(mem, Path(r)) IN id \notin Errors /\ Good(r, mem[id].bytes)

(* "Every path is resolved WITHIN the vault (traversal rejected)": no      *)
(* request changes the folder next to the vault, or makes or removes       *)
(* anything but the vault's own folder there.                              *)
Confined ==
  \A m \in {mem, disk} :
    /\ Names(m, Top) \subseteq {Vault, Other}
    /\ Other \in Names(m, Top) /\ m[m[Top].at[Other]] = Folder

Succeeded(r, ops) == pc[r] = "done" /\ req[r].op \in ops /\ answer[r].err = None

(* A deletion that answers ok means that the path was free at some moment  *)
(* while it ran, whoever else was moving or making things.                 *)
RemovedMeansGone ==
  \A r \in Requests :
    Succeeded(r, {"unlink", "rmdir", "rm"}) => \E V \in views[r] : Path(r) \notin DOMAIN V

(* What readFile, download, vault-files, batch-read and download-zip give  *)
(* as a note was the note at its path when they opened it; every byte was  *)
(* in its place at some moment while they read, and nothing was behind the *)
(* last one at some moment.  So it is the note, if nobody wrote to it.     *)
ReadsAreHonest ==
  \A r \in Requests :
    Succeeded(r, {"read", "download", "batch_read", "zip", "vault_file"}) =>
      \A f \in answer[r].out :
        /\ \E b \in f.held, V \in views[r] :
             f.path \in DOMAIN V /\ V[f.path].type = "file" /\ V[f.path].bytes = b
        /\ \A i \in DOMAIN f.bytes : \E b \in f.held : i \in DOMAIN b /\ b[i] = f.bytes[i]
        /\ \E b \in f.held : Len(b) <= Len(f.bytes)

(* An archive has every note of the folder that stayed what it was from    *)
(* the beginning to the end, and a batch every such note that is UTF-8     *)
(* among the paths it looks at.                                            *)
ArchivesAreComplete ==
  LET Asked(r) == {p \in UNION {DOMAIN V : V \in views[r]} :
                     IF req[r].op = "zip" THEN IsPrefix(Path(r), p)
                     ELSE \E i \in DOMAIN req[r].paths :
                            /\ i <= BatchLimit /\ ResolveInVault(req[r].paths[i]).ok
                            /\ p = ResolveInVault(req[r].paths[i]).out}
      Steady(r, p) == \E V \in views[r] :
                        /\ p \in DOMAIN V /\ V[p].type = "file"
                        /\ req[r].op = "batch_read" => IsText(V[p].bytes)
                        /\ \A W \in views[r] : p \in DOMAIN W /\ W[p] = V[p]
  IN
  \A r \in Requests :
    Succeeded(r, {"batch_read", "zip"}) /\ r \notin failed
      => {p \in Asked(r) : Steady(r, p)} \subseteq {f.path : f \in answer[r].out}

(* utimes and stat: a time that was set is read back as it is or as one    *)
(* millisecond less, never later.                                          *)
TimesReadBack ==
  \A r \in Requests : Succeeded(r, {"stat"}) =>
    \A a \in answer[r].out :
      a.mtime # None => \E s \in Requests : Succeeded(s, {"utimes"}) /\ req[s].mtime - a.mtime \in {0, 1}

=============================================================================
