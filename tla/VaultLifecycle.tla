--------------------------- MODULE VaultLifecycle ---------------------------
(***************************************************************************)
(* The vault registry (server/src/registry.rs) and the handlers that       *)
(* create, rename and remove vaults (server/src/vault_routes.rs) or write  *)
(* a note into one (write_file of server/src/fs_routes.rs).                *)
(*                                                                         *)
(* Handlers run in parallel on the runtime's worker threads and hold the   *)
(* registry's lock for single lookups and updates only, so every call to   *)
(* the file system and to the registry is a step of its own.  A directory  *)
(* has an identity, the request that made it (or its name, for those found *)
(* at start), so that a directory and a later one of the same name differ. *)
(***************************************************************************)
EXTENDS Naturals, FiniteSets

CONSTANTS
  Names,        \* names of vault directories
  ValidNames,   \* those is_valid_vault_name accepts
  Requests,     \* requests, each handled once
  None,         \* no directory, no registry entry
  Obsidian,     \* the .obsidian directory inside a vault
  Faults,       \* whether a file system call may fail on its own
  MaxRestarts   \* bound on the number of server restarts

ASSUME NamesAssumption == ValidNames \subseteq Names /\ None \notin Names \cup Requests
ASSUME IdentityAssumption == Names \cap Requests = {} /\ Obsidian \notin Requests
ASSUME FaultsAssumption == Faults \in BOOLEAN
ASSUME MaxRestartsAssumption == MaxRestarts \in Nat

VARIABLES
  dir,       \* name -> identity of the directory on disk, or None
  content,   \* identity -> what the directory contains
  reg,       \* VaultRegistry.vaults: name -> directory its live index watches
  req,       \* request -> operation and its arguments
  pc,        \* request -> next step
  index,     \* request -> directory of the index build_live returned to it
  opened,    \* request -> directory its remove_dir_all has open
  left,      \* request -> what remove_dir_all has listed and not yet deleted
  resp,      \* request -> status of its response
  erased,    \* notes a remove has deleted
  contended, \* names on which requests have overlapped since the last start
  restarts   \* number of restarts so far

vars == <<dir, content, reg, req, pc, index, opened, left, resp, erased, contended, restarts>>
fsVars == <<dir, content, erased>>
walkVars == <<opened, left>>
runVars == <<walkVars, contended, restarts>>

Ids == Names \cup Requests
Ops == {"create", "rename", "remove", "write"}
(* Only rename has two arguments.                                          *)
Calls == {c \in [op : Ops, vault : Names, name : Names] :
            c.op # "rename" => c.vault = c.name}
Steps == {"new", "create_dir", "create_obsidian", "contains", "exists",
          "fs_rename", "open_dir", "delete", "unregister", "build", "insert",
          "lookup", "create_dir_all", "open", "done"}
Statuses == {"none", "200", "400", "404", "409", "500", "panic", "lost"}

Entries == Requests \cup {Obsidian}

(* create_dir and rename give no vault a name that is_valid_vault_name     *)
(* refuses: a directory with such a name was there at the start, or a      *)
(* write has made it again.                                                *)
NamesVetted ==
  \A n \in Names \ ValidNames :
    dir[n] \in {None, n} \/ \E r \in Requests : dir[n] = r /\ req[r].op = "write"

(* The types, and the names vaults have on disk.                           *)
TypeOK ==
  /\ dir \in [Names -> Ids \cup {None}]
  /\ NamesVetted
  /\ content \in [Ids -> SUBSET Entries]
  /\ reg \in [Names -> Ids \cup {None}]
  /\ req \in [Requests -> Calls \cup {None}]
  /\ pc \in [Requests -> Steps]
  /\ index \in [Requests -> Ids \cup {None}]
  /\ opened \in [Requests -> Ids \cup {None}]
  /\ left \in [Requests -> SUBSET Entries]
  /\ resp \in [Requests -> Statuses]
  /\ erased \subseteq Requests
  /\ contended \subseteq Names
  /\ restarts \in 0..MaxRestarts

(* discover: every directory of the vault root becomes a vault.            *)
Discovered == [n \in Names |-> dir[n]]

Init ==
  /\ \E there \in SUBSET Names :
       /\ dir = [n \in Names |-> IF n \in there THEN n ELSE None]
       /\ content = [i \in Ids |-> IF i \in there THEN {Obsidian} ELSE {}]
  /\ reg = Discovered
  /\ req = [r \in Requests |-> None]
  /\ pc = [r \in Requests |-> "new"]
  /\ index = [r \in Requests |-> None]
  /\ opened = [r \in Requests |-> None]
  /\ left = [r \in Requests |-> {}]
  /\ resp = [r \in Requests |-> "none"]
  /\ erased = {}
  /\ contended = {}
  /\ restarts = 0

-----------------------------------------------------------------------------
Active(r) == pc[r] \notin {"new", "done"}
Touches(call) == {call.vault, call.name}

(* Two operations meet on a vault.  The single user the handlers are       *)
(* written for waits for an answer before the next operation on a vault;   *)
(* writes of several notes do go on side by side.                          *)
Clash(c, d) ==
  /\ Touches(c) \cap Touches(d) # {}
  /\ c.op # "write" \/ d.op # "write"

(* The names that are contended once the call has started: where it meets  *)
(* another operation, or a name that was contended before.                 *)
Contended(call) ==
  LET met == {s \in Requests : Active(s) /\ Clash(call, req[s])} IN
  contended \cup
    IF met # {} \/ Touches(call) \cap contended # {}
    THEN Touches(call) \cup UNION {Touches(req[s]) : s \in met}
    ELSE {}

Entry(op) ==
  CASE op = "create" -> "create_dir"
    [] op = "write"  -> "lookup"
    [] op \in {"rename", "remove"} -> "contains"

Goto(r, step) == pc' = [pc EXCEPT ![r] = step] /\ UNCHANGED resp
Respond(r, status) ==
  /\ pc' = [pc EXCEPT ![r] = "done"]
  /\ resp' = [resp EXCEPT ![r] = status]

(* A call succeeds if the state allows it and the system does not fail it. *)
Attempt(possible, success, failure) ==
  \/ possible /\ success
  \/ (~possible \/ Faults) /\ failure

(* Mutant: only create checks the name.                                    *)
StartRenameUnchecked(r, call) ==
  /\ pc[r] = "new"
  /\ req' = [req EXCEPT ![r] = call]
  /\ contended' = Contended(call)
  /\ IF call.op = "create" /\ call.name \notin ValidNames
     THEN Respond(r, "400")
     ELSE Goto(r, Entry(call.op))
  /\ UNCHANGED <<fsVars, reg, index, walkVars, restarts>>

(* A request arrives.  create and rename check the new name first.         *)
Start(r, call) ==
  /\ pc[r] = "new"
  /\ req' = [req EXCEPT ![r] = call]
  /\ contended' = Contended(call)
  /\ IF call.op \in {"create", "rename"} /\ call.name \notin ValidNames
     THEN Respond(r, "400")
     ELSE Goto(r, Entry(call.op))
  /\ UNCHANGED <<fsVars, reg, index, walkVars, restarts>>

(* create_dir: one atomic test-and-create.                                 *)
CreateDir(r) ==
  LET n == req[r].name IN
  /\ pc[r] = "create_dir"
  /\ \/ dir[n] # None /\ Respond(r, "409") /\ UNCHANGED dir
     \/ dir[n] = None /\ dir' = [dir EXCEPT ![n] = r] /\ Goto(r, "create_obsidian")
     \/ Faults /\ Respond(r, "500") /\ UNCHANGED dir
  /\ UNCHANGED <<content, erased, reg, req, index, runVars>>

CreateObsidian(r) ==
  LET d == dir[req[r].name] IN
  /\ pc[r] = "create_obsidian"
  /\ Attempt(d # None /\ Obsidian \notin content[d],
             content' = [content EXCEPT ![d] = @ \cup {Obsidian}] /\ Goto(r, "build"),
             Respond(r, "500") /\ UNCHANGED content)
  /\ UNCHANGED <<dir, erased, reg, req, index, runVars>>

(* rename and remove look the vault up in the registry.                    *)
Contains(r) ==
  /\ pc[r] = "contains"
  /\ IF reg[req[r].vault] = None THEN Respond(r, "404")
     ELSE Goto(r, IF req[r].op = "rename" THEN "exists" ELSE "open_dir")
  /\ UNCHANGED <<fsVars, reg, req, index, runVars>>

Exists(r) ==
  /\ pc[r] = "exists"
  /\ IF dir[req[r].name] # None THEN Respond(r, "409") ELSE Goto(r, "fs_rename")
  /\ UNCHANGED <<fsVars, reg, req, index, runVars>>

(* Mutant: rename goes on after a rename(2) that failed.                   *)
FsRenameUnchecked(r) ==
  LET v == req[r].vault
      n == req[r].name IN
  /\ pc[r] = "fs_rename"
  /\ Goto(r, "unregister")
  /\ Attempt(dir[v] # None /\ (dir[n] \notin {None, dir[v]} => content[dir[n]] = {}),
             dir' = [dir EXCEPT ![v] = None, ![n] = dir[v]],
             UNCHANGED dir)
  /\ UNCHANGED <<content, erased, reg, req, index, runVars>>

(* rename(2): the old directory must be there; another directory that      *)
(* appeared under the new name since is replaced if it is empty.           *)
FsRename(r) ==
  LET v == req[r].vault
      n == req[r].name IN
  /\ pc[r] = "fs_rename"
  /\ Attempt(dir[v] # None /\ (dir[n] \notin {None, dir[v]} => content[dir[n]] = {}),
             dir' = [dir EXCEPT ![v] = None, ![n] = dir[v]] /\ Goto(r, "unregister"),
             Respond(r, "500") /\ UNCHANGED dir)
  /\ UNCHANGED <<content, erased, reg, req, index, runVars>>

(* remove_dir_all opens the directory and lists it.                        *)
OpenDir(r) ==
  LET d == dir[req[r].vault] IN
  /\ pc[r] = "open_dir"
  /\ Attempt(d # None,
             /\ Goto(r, "delete")
             /\ opened' = [opened EXCEPT ![r] = d]
             /\ left' = [left EXCEPT ![r] = content[d]],
             Respond(r, "500") /\ UNCHANGED walkVars)
  /\ UNCHANGED <<fsVars, reg, req, index, contended, restarts>>

(* It has done with the directory it opened.                               *)
Close(r) ==
  /\ opened' = [opened EXCEPT ![r] = None]
  /\ left' = [left EXCEPT ![r] = {}]

(* It deletes what it listed, one entry after the other, in the directory  *)
(* it opened, whatever that is called by now; an entry that has gone is    *)
(* passed over, a failure leaves the rest.                                 *)
DeleteEntry(r) ==
  LET d == opened[r] IN
  /\ pc[r] = "delete"
  /\ \E entry \in left[r] :
       \/ /\ content' = [content EXCEPT ![d] = @ \ {entry}]
          /\ erased' = erased \cup ((content[d] \cap {entry}) \ {Obsidian})
          /\ left' = [left EXCEPT ![r] = @ \ {entry}]
          /\ Goto(r, "delete") /\ UNCHANGED opened
       \/ Faults /\ Respond(r, "500") /\ Close(r) /\ UNCHANGED <<content, erased>>
  /\ UNCHANGED <<dir, reg, req, index, contended, restarts>>

(* Mutant: the directory goes even if something was written in between.    *)
RemoveDirForced(r) ==
  LET v == req[r].vault IN
  /\ pc[r] = "delete" /\ left[r] = {}
  /\ Attempt(TRUE,
             dir' = [dir EXCEPT ![v] = None] /\ Goto(r, "unregister"),
             Respond(r, "500") /\ UNCHANGED dir)
  /\ Close(r)
  /\ UNCHANGED <<content, erased, reg, req, index, contended, restarts>>

(* The directory of that name goes in the end if it is empty; that there   *)
(* is none any more is no failure.                                         *)
RemoveDir(r) ==
  LET v == req[r].vault IN
  /\ pc[r] = "delete" /\ left[r] = {}
  /\ Attempt(dir[v] # None => content[dir[v]] = {},
             dir' = [dir EXCEPT ![v] = None] /\ Goto(r, "unregister"),
             Respond(r, "500") /\ UNCHANGED dir)
  /\ Close(r)
  /\ UNCHANGED <<content, erased, reg, req, index, contended, restarts>>

(* Mutant: remove and rename forget to drop the old entry.                 *)
UnregisterSkipped(r) ==
  /\ pc[r] = "unregister"
  /\ IF req[r].op = "remove" THEN Respond(r, "200") ELSE Goto(r, "build")
  /\ UNCHANGED <<fsVars, reg, req, index, runVars>>

(* remove_vault, whatever the entry is by now.                             *)
Unregister(r) ==
  /\ pc[r] = "unregister"
  /\ reg' = [reg EXCEPT ![req[r].vault] = None]
  /\ IF req[r].op = "remove" THEN Respond(r, "200") ELSE Goto(r, "build")
  /\ UNCHANGED <<fsVars, req, index, runVars>>

(* insert_vault: the index is built before the lock is taken; build_live   *)
(* panics when there is nothing to watch.                                  *)
Build(r) ==
  LET d == dir[req[r].name] IN
  /\ pc[r] = "build"
  /\ IF d = None
     THEN Respond(r, "panic") /\ UNCHANGED index
     ELSE Goto(r, "insert") /\ index' = [index EXCEPT ![r] = d]
  /\ UNCHANGED <<fsVars, reg, req, runVars>>

(* Mutant: rename registers the new index under the old name.              *)
InsertOldName(r) ==
  /\ pc[r] = "insert"
  /\ reg' = [reg EXCEPT ![req[r].vault] = index[r]]
  /\ Respond(r, "200")
  /\ UNCHANGED <<fsVars, req, index, runVars>>

Insert(r) ==
  /\ pc[r] = "insert"
  /\ reg' = [reg EXCEPT ![req[r].name] = index[r]]
  /\ Respond(r, "200")
  /\ UNCHANGED <<fsVars, req, index, runVars>>

(* write_file: the root comes from the registry, then the parent directory *)
(* is created if needed, then the file is created, written and synced.     *)
Lookup(r) ==
  /\ pc[r] = "lookup"
  /\ IF reg[req[r].vault] = None THEN Respond(r, "404") ELSE Goto(r, "create_dir_all")
  /\ UNCHANGED <<fsVars, reg, req, index, runVars>>

CreateDirAll(r) ==
  LET v == req[r].vault IN
  /\ pc[r] = "create_dir_all"
  /\ \/ dir' = [dir EXCEPT ![v] = IF @ = None THEN r ELSE @] /\ Goto(r, "open")
     \/ Faults /\ Respond(r, "500") /\ UNCHANGED dir
  /\ UNCHANGED <<content, erased, reg, req, index, runVars>>

Open(r) ==
  LET d == dir[req[r].vault]
      written == content' = [content EXCEPT ![d] = @ \cup {r}] IN
  /\ pc[r] = "open"
  /\ Attempt(d # None,
             written /\ Respond(r, "200"),
             IF d = None THEN Respond(r, "404") /\ UNCHANGED content
             ELSE Respond(r, "500") /\ (written \/ UNCHANGED content))
  /\ UNCHANGED <<dir, erased, reg, req, index, runVars>>

Handler(r) ==
  \/ CreateDir(r) \/ CreateObsidian(r)
  \/ Contains(r) \/ Exists(r) \/ FsRename(r)
  \/ OpenDir(r) \/ DeleteEntry(r) \/ RemoveDir(r)
  \/ Unregister(r) \/ Build(r) \/ Insert(r)
  \/ Lookup(r) \/ CreateDirAll(r) \/ Open(r)

(* The process stops in the middle of whatever it is doing and starts      *)
(* again: the registry is what discover finds.                             *)
Restart ==
  /\ restarts < MaxRestarts
  /\ restarts' = restarts + 1
  /\ reg' = Discovered
  /\ contended' = {}
  /\ pc' = [r \in Requests |-> IF Active(r) THEN "done" ELSE pc[r]]
  /\ resp' = [r \in Requests |-> IF Active(r) THEN "lost" ELSE resp[r]]
  /\ opened' = [r \in Requests |-> None]
  /\ left' = [r \in Requests |-> {}]
  /\ UNCHANGED <<fsVars, req, index>>

Next ==
  \/ \E r \in Requests : (\E call \in Calls : Start(r, call)) \/ Handler(r)
  \/ Restart

Spec == Init /\ [][Next]_vars

-----------------------------------------------------------------------------
Busy(n) == \E r \in Requests : Active(r) /\ n \in Touches(req[r])
Quiet == \A r \in Requests : ~Active(r)
Acked(r) == resp[r] = "200" /\ req[r].op = "write"
Holds(n, note) == dir[n] # None /\ note \in content[dir[n]]

(* The registry serves what is on disk: a vault nobody is working on, and  *)
(* on which no requests have overlapped, has an index exactly if it has a  *)
(* directory, and the index watches that directory and no earlier one of   *)
(* the same name.  The one exception is a creation that failed after its   *)
(* first step: it answered 500 and left a directory that no index serves.  *)
LeftBehind(n) ==
  /\ reg[n] = None
  /\ dir[n] \in Requests
  /\ req[dir[n]].op = "create" /\ resp[dir[n]] = "500"

RegistryServesDisk ==
  \A n \in Names \ contended : Busy(n) \/ reg[n] = dir[n] \/ LeftBehind(n)

(* write_file: an acknowledged note is in the vault it was written to,     *)
(* wherever that vault has been renamed to since, and the vault is served; *)
(* only a remove, or requests that overlapped on the vault, take it away.  *)
AckedNotesAreServed ==
  Quiet => \A r \in Requests :
    Acked(r) => \/ r \in erased
                \/ \E n \in Names : Holds(n, r) /\ (reg[n] = dir[n] \/ n \in contended)

(* write_file, "honest + durable": however requests overlap, fail or are   *)
(* cut short, an acknowledged note is in some directory of the vault root  *)
(* until a remove deletes it.                                              *)
AckedNotesStayOnDisk ==
  \A r \in Requests : Acked(r) => r \in erased \/ \E n \in Names : Holds(n, r)

(* build_live asserts, with expect("watch vault root"), that the directory *)
(* it is asked to index is there.  It is, unless another request was under *)
(* way on the vault.                                                       *)
VaultRootIsThere ==
  \A r \in Requests :
    (pc[r] = "build" /\ req[r].name \notin contended) => dir[req[r].name] # None

=============================================================================
