# Ignite server: formal specification

Ignite (`server/`, Rust) is a self-hosted server for Obsidian vaults in the
browser. It keeps a warm in-memory index of every vault, serves it over HTTP,
streams changes over WebSockets, and lets clients create, rename and remove
vaults, read and write notes, change settings, drive a sync plugin and fetch
foreign URLs. This directory holds TLA+ models of that server, TLC configurations
that check them on small instances, and TLAPS proofs about all of them, two of
which are refinements. `PROJECT.json` lists components,
runs, hazards, findings and theorems, and maps each definition to the lines it
models.

## 1. Inventory

| component | state | operations that change it | interacts with |
|---|---|---|---|
| `index.rs` `VaultIndex` | `tree` (an `ArcSwap` snapshot), event channel, debouncer | `build_live`, `reconcile` (builder thread), `apply_paths` (debouncer thread) | disk, `/ws` sessions, every reader of the tree |
| `ws.rs` `/ws` sessions | per connection: event receiver, hub receiver, subscribed channels | `ws_handler`, `serve_socket`, `handle_control` | index events, `ChannelHub` |
| `registry.rs` | `RwLock<HashMap<name, Arc<VaultIndex>>>` | `discover`, `insert_vault`, `remove_vault` | vault routes, everything that looks a vault up |
| `vault_routes.rs` | none of its own (disk and registry) | create, rename, remove | file system, registry |
| `fs_routes.rs` | none of its own (disk) | write, append, mkdir, rename, copy, unlink, rmdir, rm, utimes | registry (vault root), file system, index through the watcher |
| `headless_sync.rs` | `token`, `states`, `logs` behind three locks; two files | login, logout, setup, start, stop, unlink, create-remote-vault, remote-vaults | CLI, registry, `ChannelHub` |
| `plugins.rs` `ChannelHub` | one bounded broadcast bus | `broadcast` | sessions |
| `settings_routes.rs` | `inner` settings behind a lock; one file | POST settings, start-up | environment, file |
| `proxy_routes.rs` | per request: URL, headers, hop counter, body encoder | proxy request | network |
| `static_routes.rs`, `app.rs`, `main.rs` | configuration | start-up | all |

What is hard here, and what makes each part correct:

* **Index.** Two threads store the same snapshot; every event is looked at up
  to 300 ms after the change; the debouncer merges and cancels events. Correct:
  once nothing is pending the snapshot is the disk; the events of a batch say
  everything the batch does; entries nobody touches stay; both threads finish.
* **Live sync.** A client subscribes, fetches and replays while batches are
  sent and stored; the channel is bounded. Correct: copy plus frames on their
  way is the newest state, and every session ends up showing the disk.
* **Vault lifecycle.** Handlers are sequences of unlocked file-system and
  registry calls; any call can fail and the process can stop anywhere, half-way
  through the deletion of a vault too. Correct: the registry serves exactly the directories on disk, no acknowledged note is
  lost, no handler panics.
* **Headless sync.** Update, persist and broadcast are separate critical
  sections; writes fail unnoticed, and the only copy of a file is truncated to
  write it. Correct: the files follow the memory, acknowledged set-ups survive a
  restart that finds the file whole and up to date, a session shows the current
  status.
* **Settings.** Copy, merge, persist and store without a lock. Correct:
  effective settings are valid whatever the file says, environment-only keys
  come from the environment, a reload changes nothing.
* **File routes.** A handler is a sequence of unlocked file-system calls beside
  those of other requests; calls fail and the machine goes down in between.
  Correct: no path leaves the vault, acknowledged bytes are durable (their name
  need not be), a deletion that succeeds told the truth at some moment while it
  ran, what is read was in the note, archives leave out no note that stayed, and
  a request that runs alone does exactly what it names.
* **Proxy.** Redirects wander through origins, names resolve differently at
  every hop, bodies arrive cut anywhere. Correct: credentials stay with the
  origin they were meant for, every hop's addresses were checked for that hop, the
  number of upstream requests and the size of a response are bounded, and the
  answer is the encoding of the body.

## 2. Modules

| module | models | composition |
|---|---|---|
| `LiveIndex` | `index.rs` against disk and debouncer | |
| `LiveSync` | `/ws` sessions and clients of one vault | extends `LiveIndex`: its `Publish` is `ApplyPath` plus the send |
| `VaultLifecycle` | `registry.rs`, `vault_routes.rs`, `write_file` | |
| `HeadlessSync` | `headless_sync.rs`, `plugins.rs`, the channel half of `ws.rs` | |
| `Settings` | `settings_routes.rs` | |
| `UnixFs` | path lookup, inodes and the system calls the routes make (external) | |
| `FsRoutes` | `fs_routes.rs`, `vault_files_handler` of `static_routes.rs` | extends `UnixFs` |
| `Base64` | grouping of bytes (external: the base64 crate) | |
| `ProxyService` | what `POST /api/proxy` promises its caller | extends `Base64` |
| `Proxy` | `proxy_routes.rs` | extends `Base64`, instantiates `ProxyService` |
| `LiveIndexProofs`, `VaultLifecycleProofs`, `HeadlessSyncProofs`, `SettingsProofs`, `FsRoutesProofs`, `ProxyProofs` | theorems | extend the component and `TLAPS` |
| `LiveSyncProofs` | theorems | extends `LiveSync` and `LiveIndexProofs` |
| `FsNotesProofs` | theorems about what is in notes | extends `FsRoutesProofs` |
| `MC...` | values of the constants for TLC | extend the component |

Operators whose comment begins with "Mutant" are plausible mistakes in the
definition that follows; no specification uses them. Each is put in place of
that definition to see that the property named in `PROJECT.json` notices.

### LiveIndex

A tree is a function from every path to a node: `Absent`, `Directory` or a
file's metadata (size, mtime and ctime as one value). `disk` is the truth,
`tree` the `ArcSwap`. `build_live` is `StartWatch` (watcher armed on the empty
tree), one `WalkEntry` per entry of `build_tree`, and `ReconcileStore`. The
callback is `ApplyPathsBegin` (clone the snapshot), one `ApplyPath` per path
(`EventsFor` is the match on kind and presence, `Restat` the upsert or the
removal with `retain`), `ApplyPathsStore`. A batch is any non-empty set of the
queued paths and is worked off in any order, because the age of the events and
their order of arrival are the debouncer's business.

External, modelled from how the code uses them: the file system (`Create`,
`Modify`, `Delete`, `Rename`, `MoveOut`, `MoveIn`, `RenameFolder`) and notify with
notify-debouncer-full (`Push...`, `Deliver`): one undelivered event per path, a
removal drops what is undelivered below the path and cancels an undelivered
creation, a rename of a path with an undelivered creation becomes a creation of
the new name.

`Hazards` names what an index of this design can only get right if the outside
is not too fast or too unkind. Each hazard removes one guard of the environment:

| hazard | what it allows | code |
|---|---|---|
| `slowWalk` | a batch is delivered during the walk | `index.rs:292` |
| `populatedMove` | a directory arrives with contents nobody reported | `index.rs:157` |
| `folderRename` | a directory with contents is renamed inside the vault | `index.rs:157` |
| `reuse` | a directory leaves and its name is reused before the index dropped its entries | `index.rs:193` |
| `flicker` | a path the index has seen goes away before its creation is delivered | `index.rs:259` |
| `kindFlip` | a file becomes a directory before the index dropped the file | `index.rs:179` |
| `watchError` | the debouncer reports an error or a rescan instead of paths | `index.rs:263` |

With none of them the index is correct (proved, below). `Spec` has the actions
of a kind environment; `UnkindSpec` adds those that only a hazard enables
(`MoveIn`, `RenameFolder`, `WatchError`), so that a run without hazards has no
action that can never happen. The proofs are about `UnkindSpec`, of which `Spec`
is a special case. `LiveIndexSlowWalk` allows the first hazard, which
contradicts the comment on `build_live`, and `LiveIndexFolderRename` the third,
which contradicts the comment on `apply_paths`. Of the others only `watchError`
is mentioned in the code: `reconcile` is said to be available for it, and
nothing calls it then. Under `UnkindSpec`, `populatedMove`, `reuse`, `flicker`
and `watchError` each break `NoSilentDivergence` as well, and `kindFlip` breaks
`EventsTellTheBatch` (the served tree changes without an event).

### LiveSync

A client is the most careful one possible: it keeps frames that arrive before
its fetch and replays them after it. `inbox` is what its broadcast receiver has
not read; `Newest` is tokio's behaviour at capacity. `Fetch` is `GET
/api/fs/tree`, `Forward` the event branch of `serve_socket`, `Disconnect` any
end of the loop (close frame, end of stream, failed send or failed heartbeat).
`lagged` and `midBatch` are history: the receiver was overrun; the client
subscribed while a batch was being applied. Without the exception for
`midBatch`, `MirrorFollowsIndex` fails: an event is sent when its path is
re-stat'ed, the snapshot is stored at the end of the batch, and a client that
subscribes after the one and fetches before the other has neither.

### VaultLifecycle

Each file-system or registry call of a handler is one action (`CreateDir`,
`CreateObsidian`, `Contains`, `Exists`, `FsRename`, `OpenDir`, `DeleteEntry`,
`RemoveDir`, `Unregister`, `Build`, `Insert`; for `write_file` `Lookup`,
`CreateDirAll`, `Open`). `pc` is the handler's position. A directory has an
identity, so that an index of a directory that is gone differs from one of its
successor. `remove_dir_all` opens and lists the directory (`OpenDir`; `opened` is
the directory, `left` what it has still to delete), deletes what it listed entry
by entry, wherever the directory has been renamed to by then (`DeleteEntry`), and
removes the directory of the vault's name if that is empty (`RemoveDir`); it can
fail or be cut short after any of these, which leaves part of the vault. What
was in the vault before the requests is one entry (`Obsidian`); the entries of a
vault are otherwise the notes written to it, without folders between them
(`FsRoutes` has those). `TypeOK` includes `NamesVetted`: no handler gives a vault
a name that `is_valid_vault_name` refuses.
`Faults` lets any file-system call fail, `Restart` stops the process anywhere
and runs `discover`. Requests overlap in every way. `contended` is history: the
names on which operations met since the last start (writes of notes side by side
do not count). `AckedNotesStayOnDisk` holds for every vault; the other properties
are about the vaults that are not contended, which is what one user sees who
waits for each answer. A build can panic, and a registry entry can name a vanished
directory, on contended vaults only.

### HeadlessSync

`RwLock`s are modelled by the step that holds them: an update is one step and
waits until nobody is in `write_states` (`write_token`), where the read lock is
held while the file is truncated and written. Every write can fail, at the
opening or after the file was truncated, and the process can stop at any step,
inside a write too; both are always possible. Only a failure to start the CLI
counts, as in the code. The hub is a queue per session with messages of all
vaults. `ChangeVaults` is the vault routes seen from here.

Three variables are history and appear in the exceptions of the properties:
`unsaved` has the files that could not be written when they were last persisted
(the code ignores the result, and the next write that works makes up for it);
`forgotten` has the requests answered before a restart that found the file of
the states truncated or out of date; `met` has the vaults at which two requests
were at once since the last start. So `AckedSetupsSurvive` says: the state of an
acknowledged set-up survives a restart at any step of any request, unless that
restart comes inside a write of the states or after a write that failed. In
these two cases it does not survive, and one torn write loses every vault's
set-up; the sentence at `headless_sync.rs:4` ("persists token + per-vault sync
state") promises nothing of crashes, so that it is listed as a hazard and not as
a finding.

### Settings

Five keys stand for the ten, one per kind of validation. `Applied` is what
`merge_clean` has assigned when it stops at the first invalid key, in its
order; `Clean` is the trimming of list items. A file is what it says,
`Truncated` (opened, not written) or `Garbled` (no JSON object). `contended` is
history: posts have overlapped since the last start.

### UnixFs and FsRoutes

A file system is a function from inodes to folders, notes and `NoInode`s, which
are free. An inode is taken where memory and disk both have none (`Unused`; a
bound: a step that needs one waits until there is one), and `Collect` frees those
that nothing leads to and nobody holds open; as many rounds as there are inodes
find everything (`Reached`, `Tree`). Beside the vault the data directory has one
more folder, `Other`, which stands for everything a request must not touch; a
vault has no hard links to begin with, and no route makes one. Requests hold open
files and folders (`loc`), so that a note that is renamed or unlinked while it is
written behaves as on Unix.

`mem` is what processes see, `disk` what a power failure leaves. `fsync`
(`SyncAll`, `Flushed`) puts the contents of one file on the disk and no name: the
routes sync the note and never the folder that holds its entry, nor the folders
`create_dir_all` made. Names and folders get there by `WriteBack`, at any time or
never, all of them at once and with or without the contents of any of the files
(`Journaled`), as a journal of metadata does; a name that is on the disk before
its contents is an empty file. `WriteBack` may also bring just the contents of
some files. `Crash` makes `disk` the truth and loses every running request;
`dropped` is history and has the acknowledged writes whose path does not lead
after the crash where it led before. `AckedWritesSurvive` says what the code can
rely on: in memory the note is there with its bytes, and if the path leads to it
on the disk, so are they there. That the path leads there is
`WritesAreDurable`; the run `FsRoutesNewNote` refutes it with a write that makes a
note, is acknowledged, and a power failure before any write-back. (File systems
exist that write the name of a new file with its fsync; `fsync(2)` does not
promise it, and the code does not ask for it.)

`Begin` is the common start of the handlers: `Rejection` is `vault_root`, the
required parameters, `resolve_in_vault` and the decoding, in the code's order.
After that one action is one system call, with the exceptions named below:
`MakeDirs` is `create_dir_all` (try,
make the parent first, try again; an error is none if the folder is there),
`Create`, `WriteAll`, `SyncAll`, `ReadBack` are `write_file`, `OpenSource`,
`CreateDest`, `Transfer` are `std::fs::copy`, `Lstat` and what follows it `rm`,
`OpenTree`, `RemoveChild`, `RemoveEmptied` `remove_dir_all`, `Metadata`,
`ReadDir`, `ZipWalk` the archive. Wherever a route reads a note (`std::fs::read`,
`read_to_string`), `OpenNote` opens it and each `Read` gives as many of its next
bytes as it likes, until one finds no more; writes and truncations of others
come in between. `contents` is history: what the note that is open has held since
then. `ReadsAreHonest` says that every byte a read gives was in its place at some
moment and that nothing was behind the last one at some moment; without a write
beside it that is the note, beside one it may be a mixture that was never in
the note. A batch leaves out a note whose bytes are not UTF-8 (`IsText`); the
archive's promise is a property of its own, `ArchivesAreComplete`. `Transfer` copies
pieces of any size, too, and a copy that fails leaves those it has copied.
`CallFails` and `WriteFails` are the error paths.

More than one system call is in `Frame` and `ReadDir` (a folder is opened and
listed in one step, kinds included), in `WriteAll` (bytes that are written without
a failure arrive at once) and in `MakeDirs` (the `mkdir` and, when that failed, the
look whether the folder is there).

Contents are sequences of the request's name, so that mixed and
half-written notes can be told apart. Times are milliseconds of one second;
`FtFromMs` is the floating-point division of `ft_from_ms` (22 binary places are
left for the fraction of a second in this century, hence 524288 / 125 for
2^22 / 1000).

`Effect` is the reference: what each route should do to the paths of a vault and
which status it should give, stated on views and without system calls.
`AloneIsExact` compares the handlers with it. It records facts a reader may not
expect: a failing rename or copy leaves the folders of its target, a note copied
onto itself is emptied, `rm -r` of the empty path removes the vault's folder.
`AckedWritesSurvive` excludes requests for the same note (`MayTouch`): two
overlapping writes of one note mix their bytes, because each truncates and then
writes at its own offset. It also excludes a request that has something else
open which a rename puts in the note's place (`MovesOnto`), since open handles
follow their inode: a write of `a` opens it, `a` is renamed to `b`, a third
request writes `b` and is acknowledged, and the first then writes into it. No
request for `b` overlaps the third one. Two requests are too few for that; the
attempt to prove the property without this exception led to it.

### Proxy and ProxyService

One request is the whole system, since handlers share only the configuration.
`Accept` is everything up to the first await, `Resolve` and `LookupFails` are
`addr_ok`, `Send` one turn of the redirect loop (`Followed`, `Redirect`), `Chunk`,
`BodyFails` and `End` the streaming of the body. A URL is its origin. An address
has `AddrBits` bits, and the arithmetic of `set_allow_private` is done on that
width (`Pow2`); `Permitted` is the reference the address checks are compared with, stated
with leading bits instead of masks. `sends`, `visited` and `received` are history.

`ProxyService` has three variables: upstream requests made, bytes relayed, the
answer. `ImplementsService` maps `sends` and `received` to the first two;
resolving, redirecting and encoding are stuttering steps.

## 3. Runs

Passing runs:

| run | constants | states | shows |
|---|---|---|---|
| `LiveIndex` | 4 paths on 3 levels, 2 metadata values, 4 disk changes, no hazard | 770 k | snapshot = disk when quiet; `Coverage`; untouched entries stay |
| `LiveSync` | 4 paths, 2 changes, 3 hazards, 1 client, ring of 2 | 210 k | copy plus frames is the newest state of the index, right or wrong; the events of a batch say all it does |
| `LiveSyncCatchUp` | 2 nested paths, 3 changes, ring of 2, fair | 13 k | the index and the sessions end up showing the disk |
| `VaultLifecycle` | 3 names (1 invalid), 3 overlapping requests, faults, 1 restart | 2.0 M | acknowledged notes stay on disk; calm vaults are served exactly if they are on disk, with their notes; no panic |
| `HeadlessSync` | 2 vaults, 1 remote vault, 1 token, 2 overlapping requests, failing writes, 1 session, hub of 2, 1 restart anywhere | 2.2 M | files follow memory; set-ups survive; the status shown is current |
| `Settings` | 2 overlapping posts of up to two keys, faults, 1 restart | 260 k | settings valid; environment-only keys; a reload changes nothing |
| `FsRoutes` | 2 overlapping requests out of 35, 2 starting vaults, faults, 1 crash | 670 k | durable bytes; nothing outside the vault; honest deletions, reads and times; complete archives; exact effects |
| `Proxy` | 2 hosts, 2-bit addresses, 5 environments, 3 redirects, cap of 7 bytes | 660 k | credentials, addresses, hops, encoding; implements `ProxyService` |

Runs that refute a sentence of the repository (`findings` quotes it):

* `LiveIndexSlowWalk`: the walk's result overwrites a batch stored meanwhile;
* `LiveIndexFolderRename`: what is in a renamed folder is missing from the index;
* `LiveSyncLagging`: an overrun session is neither told nor disconnected;
* `FsRoutesNewNote`: a note that an acknowledged write has made is gone after a
  power failure, since only the note was synced and not its folder.

Other results are no findings, because no line of the repository promises the
opposite; they are recorded as hazards. Without `~contended`, TLC refutes
`ReloadGivesTheSame`: two posts leave one's settings in the file and the other's
in memory. Without its exception for vaults in `met` it refutes
`ShownStatusIsCurrent` (two requests on one vault broadcast in the opposite order of
their updates), without `unsaved` `FilesFollowMemory`, and without `forgotten`
`AckedSetupsSurvive` (a stop during one write loses every vault's set-up).
Without its exception for contended vaults it refutes `AckedNotesAreServed` (a
write re-creates the directory of a vault that was renamed or removed since its
lookup). Without `MayTouch` it refutes
`AckedWritesSurvive` (see `FsRoutes` above).

**Bounds.** Three levels of paths are the least for which a vanished directory
has an entry whose parent is not the vanished one; two metadata values tell a
modification from a stale entry; four changes cover create, rename, remove and
create again. Two requests make every pair of operations overlap, the third
observes the result (or moves a vault away twice); for the sync plugin two are
enough, since an acknowledged set-up is lost by the write of one other request,
and the start state is any state of the files. In `LiveSync` a ring smaller than
the number of events makes lag happen; the hub of `HeadlessSync` holds the
messages of both requests, so that a session finds two of them unread, and a
session that lags, about which `ShownStatusIsCurrent` says nothing, is left to
the theorem. Two file requests suffice for every pair of
routes; their paths lie in one another and collide, both starting vaults have a
folder in the way of a note, and an archive meets a folder below a folder. With
two bits a block can be empty, half of the addresses, one of them or all; three
redirects leave the first origin, come back and leave again; seven bytes are two
groups and one byte over, reached through chunks of 0, 1 and 4. `MaxOps`, `MaxRestarts` and the one use
of each request bound the state space and nothing else: the proofs hold for
every value. `CHECK_DEADLOCK FALSE` is set because the bounded environment and
the bounded requests run out: a server at rest is no error. Symmetry is used
over requests, over vaults in `HeadlessSync` and over two path names in `LiveSync`,
each time only over values that the model treats alike, and only in runs without
liveness properties.

**Fairness.** Weak fairness (`SyncFairSpec`) for the debouncer's thread, for the
thread in `build_live` and for each connection's task (`Forward`):
the operating system and tokio run them, and none of them waits for a lock that
another can keep. Nothing is assumed of the environment, of users or of
clients. `MaxOps` makes the disk eventually quiet, which is the premise of the
liveness properties.

## 4. Proofs

`LiveIndexProofs`, for every set of paths, every set of metadata values and any
number of changes:

* `TypeCorrect`: `UnkindSpec => []TypeOK`, with every hazard allowed.
* `CoverageInvariant`: `UnkindSpec => []Coverage`, if `Hazards` contains at most
  `kindFlip` (`Harmless`). `NoSilentDivergence` is not inductive: it says
  nothing while something is pending. `Coverage` does: the snapshot under
  construction (the walk's accumulator, the copy inside `apply_paths` or the
  stored tree) may disagree with the disk about a path only if the path is
  pending, or lies below a pending path that is gone, whose re-stat will drop
  the subtree. One lemma per action; those of the environment rest on
  `EnvironmentCoverage`, which reduces them to what happens to one path.
* `IndexFollowsDisk`: `UnkindSpec => []NoSilentDivergence`, from `Coverage`.
* `EntriesStay`: the action property `UntouchedEntriesStay`, from `Coverage`.
* `EventsTell`: `UnkindSpec => []EventsTellTheBatch`, if `Hazards` is `Tellable`
  (no `slowWalk`, `flicker` or `kindFlip`, and not both `reuse` and
  `folderRename`: each of these breaks the property). The invariant `TellInv` adds
  to it that no folder on disk lies where the snapshot still has a file, and that
  the snapshot has nothing below a path that neither it nor the disk has: then
  what a re-stat does to the snapshot is what its one event does to a copy.
  `Replay` is a fold over the events; `Settles` states what the fold gives for
  one event more, for sequences of every length.

`LiveSyncProofs`, for any number of clients and every capacity of the channel:

* `SyncIsIndex`: `SyncSpec => UnkindSpec`. Sessions only watch, so that all that is
  proved of the index holds beside them (`SyncKeepsIndex`).
* `SyncTypeCorrect`: `SyncSpec => []SyncTypeOK`.
* `MirrorsFollow`: `SyncSpec => []MirrorFollowsIndex`, if `Tellable`. The property
  is about sessions that have fetched; the invariant `MirrorInv` is about those
  that have only subscribed, too: for them the served tree takes the place of the
  copy they will fetch.
* `SessionsShowDisk`: with no hazards, a session with nothing in flight and no
  event undelivered shows the disk, from `Coverage` and `MirrorInv` together.

`VaultLifecycleProofs`, for any number of names and overlapping requests:

* `IInvCorrect`: the inductive invariant. Properties that speak of vaults nobody
  is at are not inductive; what is added is what holds in between. `Knows` says
  what a handler knows at each of its steps if its vaults are not contended
  (after `exists` the new name is free, after `fs_rename` the old one is gone,
  ...), `CalmUnlessMidway` that a vault's directory and its registry entry differ
  only while a handler is between changing the one and the other or after a
  creation that failed, `ContentionKnown` that who meets on a vault is in
  `contended`, `OneName` and `Fresh` that directories keep their identity,
  `NamesChecked` that whoever gives a vault a name has checked it.
* `TypeCorrect`, `NotesStayOnDisk`, `RegistryFollowsDisk`, `BuildFindsRoot` (what
  `build_live` relies on not to panic), `NotesAreServed`: from it.

`HeadlessSyncProofs`, for any number of vaults, requests and sessions:

* `FilesInv`: the inductive invariant. What a request is writing is what is in
  memory (the read lock it holds shuts out updates), and every request is at a
  step that fits its operation.
* `TypeCorrect`: `Spec => []TypeOK`.
* `FilesFollow`: `Spec => []FilesFollowMemory`. The argument: an update always
  leaves a request between update and persist, and the last one to leave has
  written, or found already written, the current value, or is in `unsaved`.
* `SetupsSurvive`: `Spec => []AckedSetupsSurvive`. `SetupsKept` adds where the
  set-up is on its way to the answer: in memory once it is stored, and in the file
  once its write is over, as long as the file is neither being rewritten nor out
  of date (`NotTorn`), until an unlink of the vault is asked for. A restart that
  finds the file so reads the set-up back.
* `StatusShown`: `Spec => []ShownStatusIsCurrent`. `StatusInv` adds that requests are
  one at a time at vaults outside `met`, and the messages that are still to come:
  the last one about a vault in a session's queue is the vault's state, or a
  handler is yet to report, and what it will report is the state of this moment.

None of them has a premise: failing writes, overlapping requests and restarts
inside a write are behaviours of `Spec`.

`SettingsProofs`, for any bodies, files, environments and requests:

* `SettingsInv`: the inductive invariant `IInv`. The effective settings and every
  copy under way are `Sound` (a valid, trimmed value for each key, the
  environment's own keys from the present environment), and the file is one of
  the markers or a body. The lemmas carry the data: `MergeWell` (what
  `merge_clean` assigns is valid), `LoadWell` (so is what `load` makes of any
  file), `PersistedReload` (`load` of what `persist` wrote gives it back).
* `TypeCorrect`, `SettingsAreValid`, `EnvOnlyKeys`: from `IInv`.
* `ReloadIsTheSame`: `ReloadGivesTheSame` says nothing while a request is under
  way, so `Saved` adds what the file is at each step of the only request there
  can be as long as none has overlapped or failed.

`ProxyProofs`, for every width of addresses, every configuration and all bounds:

* `ProxyInv`: the inductive invariant (types, what each step has checked and
  counted, `EncodedSoFar`). The encoder's lemma: encoding the whole groups of
  the bytes held and carrying the rest gives the encoding of everything, shown
  group by group, so that no induction over the body is needed.
* `CredentialsAtHome`, `RedirectsBounded`, `EncodingIsRight`: from it.
* `TypeCorrect`, `AddressesVetted`: `VetInv` says that what is contacted was
  resolved and checked for this very hop. That the code's masks mean the
  operator's blocks is shown for addresses of every width: the bits of a prefix
  are the quotient by a power of two, and both sides agree on it.
* `Implements`: `Spec => ImplementsService`. Every step of the handler is shown
  to be a step of `ProxyService` or to leave its variables alone; `End` needs
  `EncodedSoFar` (the answer is the encoding of what was received) and `Send`
  needs the hop count (one exchange more is still allowed).

`FsRoutesProofs`, for paths of any length, any tree, any number of overlapping
requests, failing calls and crashes:

* `ResolvedInVault`: what `resolve_in_vault` returns begins with the vault's name,
  whatever `.` and `..` are in the path.
* `InvCorrect`: the inductive invariant. There is one inode `o` that is the empty
  folder beside the vault in memory and on the disk; both file systems are trees
  (`Shaped`); no open file, folder being walked or path of a handler is or leads to
  `o` or to the data directory (`IsLoc`); each handler is at a call that fits its
  operation (`Ready`). `Confined` alone is not inductive, since a handler that
  held `o` would change it at its next call. `Kin` (an inode that memory and disk
  both have is a folder in both or a note in both) is needed because an fsync
  puts a note of the one in the place the other has for that inode, and a crash
  makes that the truth. One lemma per call (`...Works`) over lemmas about the
  system calls (`LinkSafe`, `UnlinkSafe`, `RenameSafe`, `CollectSafe`, ...) and about what
  reaches the disk (`FlushedSafe`, `JournaledSafe`).
* `StaysInVault`: `Spec => []Confined`, and `TypeCorrect`: `Spec => []TypeOK`.
* `TimesAreReadBack`: `Spec => []TimesReadBack`. `KnownTimes` adds that every time in
  memory or on the disk was set by a utimes that has answered ok; `MsRoundTrip`
  is the arithmetic of the two conversions.
* `DeletionsAreHonest`: `Spec => []RemovedMeansGone`. `GoneInv` adds that what there
  is now is among what a running request has seen. `ThinnerWalk` (with fewer
  entries a lookup finds the same or nothing) and `RemovalTells`, which goes
  through the calls that can end a deletion.

`FsNotesProofs`, on top of it:

* `ReadsGiveWhatWas`: `Spec => []ReadsAreHonest`. `FollowInv` is about the note a
  handler has open: it was the note at its path in a view the request has seen,
  what it holds now is among what it has held (`contents`), and what was read so
  far is pieced together from that (`PiecedFrom`, `MoreIsRead`).
* `NothingIsLeftOut`: `Spec => []ArchivesAreComplete`. `HonestInv` says what a reader
  has on its way: every note that has stayed as it was since the beginning is
  gathered already or still ahead, open or in the frames of the folders being
  walked or among the paths left of the batch (`Gathers`); once it has answered,
  nothing is ahead (`Gives`). The open note or folder need not be at its path any
  more; it was when it was opened, and a path at which nothing changed leads
  where it led then. A note that stayed is read as it is, so that it is text if
  it was (`TextStays`), and not left out of a batch.
* `AckedWritesStay`: `Spec => []AckedWritesSurvive`. The property speaks of one
  request that is done, its invariant has to say what all others may still do:
  * `RivalsInv`: a request that has begun knows every other one that runs;
  * `HoldInv`: what a handler has open (the file of a write, the destination of
    a copy, the folders of `remove_dir_all`) is there, and is not a note or on the
    way to a note that the handler may not touch and no rival moves things onto;
  * `KeptInv`: from its `Create` on, the note of a write that nobody else asks for
    is at its path in memory with what was written so far, and from its `SyncAll`
    on its inode has the bytes on the disk, whatever names have got there
    (`FlushedStores`, `JournaledStores`): a crash may leave the path to it out
    (`dropped`), but cannot leave the note there without them.

  Each system call of each handler is shown to be `Tame`: a path it may not touch
  and of which it has nothing open keeps its note and the bytes in it (`Still`),
  and a path it moves nothing onto leads where it led or to something new
  (`Lags`). The second is what keeps `HoldInv`: only a rename can bring something
  that is open to another path.

Assumptions are the named `ASSUME`s of the components: paths are non-empty
sequences of names with their parents, names are not `.` or `..`, there are
finitely many inodes, starting file systems are trees without hard links,
contents are sequences, sizes natural numbers, queries, bodies, environments and
requests of their types, model values differ from each other, bounds are natural numbers; and the premises above.

The library's induction theorems cannot be used here, since they take an operator
as a parameter. Where a fact is about sequences of any length or numbers of any
size (paths, replayed events, widths of addresses), the proofs use induction as a
fact about sets (`NatSets`: a set of naturals with 0 and with `n + 1` for every
`n` in it is `Nat`), and for recursive functions that the recursion has a
solution (`LooksExists`, `RecursionSolved`).

Only model-checked: liveness (`CatchesUp`, `SessionsCatchUp`), which this prover
does not reach, and `AloneIsExact`, which compares whole handlers with `Effect` and
would need the view of the file system after every one of their calls. All
other properties of the passing runs are stated by a theorem.

## 5. Not modelled

The app shell and the cache headers of `static_routes.rs` (text replacement and
a function of the URL, without state); routing, compression, logging, JSON shapes
and version endpoints (no state); the heartbeat (its only effect is one more
cause of `Disconnect`); the sync log (the code never adds to it); Docker and
Caddy files. Of the file routes: symbolic links and permissions; power
failures that leave part of what was written to a note without an fsync (the
model leaves all of the note or what an earlier write-back left), or some of the
names of one write-back and not others; write-back after the one crash of a run.
Of the proxy: the second lookup that the HTTP client makes for itself when it
connects (the comment on `addr_ok` accepts it), the forwarded body and paths of URLs.

## 6. Plan

Done: `LiveIndex`, `LiveSync`, `VaultLifecycle`, `HeadlessSync`, `Settings`,
`Proxy` with `ProxyService`, `FsRoutes` with `UnixFs`, and the proofs above.

Next, in this order:

1. An abstract index (disk plus a set of unseen changes) that `LiveIndex` is
   shown to implement.
