# Syncline v1 in TLA+

Models, model-checking runs and machine-checked proofs of the v1
synchronisation of Syncline: how native clients, the server and its database
keep one manifest and one text per file, what the server does to a v0
database, and how the Obsidian plugin keeps a connection, the files of a vault
and what it stores on disk in step with all of that. The models under
`docs/tla/` of the repository describe the v0 protocol; these describe the code
in `syncline/src` and `obsidian-plugin` that replaced it.

Paths below are relative to the repository, and `client_v1.rs`, `server.rs`,
`v1/...` to `syncline/src`; `main.ts` is the plugin's, `obsidian-plugin/main.ts`.

## 1. The system

A vault is a directory of files. Every client keeps, under `.syncline/`, a
**manifest** (a Yrs document: a map from node id to name, parent, tombstone,
blob hash and stamps), one **content** document per text file, and a store of
**blobs**. The server keeps the manifest in memory and everything in SQLite.
Clients and server talk over one WebSocket each.

| component | state | operations | what makes it correct |
|---|---|---|---|
| ids and stamps (`v1/ids.rs`) | lamport counter | tick, observe, compare | stamps order causally, ties by actor |
| manifest (`v1/manifest.rs`) | Yrs document, lamport | create, rename, move, delete, modify, set blob, apply update | a write wins over all it has seen |
| projection (`v1/projection.rs`) | none | live nodes, one owner per path, conflict copies | the same on every replica; deletes lose to unseen edits only |
| path operations (`v1/ops.rs`) | none | create, delete, rename, modify at a path | make a conflict copy only of a contested path's owner |
| manifest sync (`v1/sync.rs`) | none | STEP_1, STEP_2, UPDATE, verify | two exchanges leave both sides equal |
| server (`server/server.rs`) | manifest, broadcast channels, one receive task per connection, forwarding tasks | handlers per message | save before broadcast, nothing missed by a connection that joined |
| database (`server/db.rs`) | rows of updates, blobs | append, rebuild | what was appended is read back |
| server migration (`server/migration.rs`) | v0 rows, v1 rows, marker | one conversion at start | nothing lost, whenever it is interrupted |
| native client (`client_v1.rs`) | manifest, `manifest.bin`, content documents, blobs, per-session sets | session loop, scan, reconcile, reconnect | vault and manifest agree in the end, no edit is lost |
| blobs (`v1/blob_store.rs`, `client_v1.rs`, `server.rs`) | files and rows by hash | upload, request, store | whoever has the hash gets the bytes |
| vault migration (`v1/disk.rs`, `v1/migration.rs`) | `.syncline/` of v0 and v1 | one conversion at start | the same as the server's |
| browser client (`wasm_client_v1.rs`) | manifest, content documents, socket, queues | the same messages, pushed from document observers; blobs sent and asked for | the same as the native client's |
| plugin: connection (`main.ts`) | `client`, reconnect timer, status interval | connect, disconnect, load, unload, buttons | never stranded, never two connections, nothing left after an unload |
| plugin: reconcile and file events | `lastProjection`, the run under way, `ignoreEvents` | reconcile, scan, ingest, create, delete, rename | the vault ends up as the manifest says |
| plugin: note contents | `subscribedContent`, the debounce, suppressions, persisted states | subscribe, text arrives, file is modified | file, document and server agree; echoes are not edits |
| plugin: binary files | `requestedBlobs`, events | walk, request, write, scan, ingest, modify | every file comes; no row without a blob |
| plugin: persisted manifest | `manifest.bin`, `lamport.txt`, two directories | load, save, move | no stamp given out twice |
| plugin: sidebar, settings tab, build; desktop shell and its page; v0 client, command line, fuzzer, ignore list, chunker, watcher | | | outside the v1 protocol or without state of its own |

How they interact. A session starts with a version handshake and a STEP_1 that
carries the client's state vector. The server subscribes the connection to the
document's broadcast channel, answers with STEP_2 (what the vector lacks) and
asks back with a STEP_1 of its own. On the first manifest frame the client
scans its vault, writes what it finds into the manifest and the content
documents, saves `manifest.bin`, and sends the differences as UPDATE; later
scans are started by a timer and by the file watcher. The server merges an
update into its memory (manifest) or not at all (content), appends the row,
and broadcasts. A forwarding task per connection moves messages from the
channel, a ring of 64, to the socket; a task that falls behind reads all rows
instead. Whoever loses the connection reconnects with what it has.

What is hard about it:

- handlers of different connections interleave at every `await`; only the
  manifest has a lock;
- connections are lost, processes restart, saves fail between any two steps,
  and errors are mostly logged and passed over;
- the lamport counter is not persisted, although stamps must grow;
- Yrs decides which of two concurrent writes is current by the client id of
  their documents, and the projection decides by the stamps written in them;
- edits that only delete text look empty to the server;
- the conversion of a v0 database is many statements and no transaction;
- the plugin is one thread, but each of its functions awaits: calls of
  `connect()` overlap, a reconcile walks over files that the user edits, and
  what was looked up before an await is used after it;
- the plugin tells its own writes from the user's by timers, and collects the
  events of all files in one debounce;
- a lost connection takes requests, blobs and edits with it, and the next one
  has a new WASM client beside the plugin's old sets.

`PROJECT.json` lists these hazards at their lines, with the properties that
would notice each going wrong, or why none does yet.

## 2. The modules

| module | models | checked by | proved in |
|---|---|---|---|
| `ManifestSync` | the manifest between clients, server, `manifest.bin` and rows | `MCManifestSync` | `ManifestSyncProofs` |
| `ContentRelay` | one text between clients, handlers, channel and rows | `MCContentRelay` | `ContentRelayProofs` |
| `NodeFields` | concurrent writes of a node's fields, and the projection | `MCNodeFields` | `NodeFieldsProofs` |
| `ServerMigration` | the conversion of a v0 database | `MCServerMigration` | `CrashProofs` |
| `PluginSession` | the plugin's calls of `connect()`, its timers and sockets | `MCPluginSession` | `PluginSessionProofs` |
| `PluginVault` | the reconcile, the scan and the handlers of file events | `MCPluginVault` | `PluginVaultProofs` |
| `LatestWins` | what a coalescing worker promises; `PluginVault` implements it | (with `PluginVault`) | `PluginVaultProofs` |
| `PluginContent` | texts between files, documents, states and server | `MCPluginContent` | `PluginContentProofs` |
| `PluginBlobs` | binary files and their blobs | `MCPluginBlobs` | `PluginBlobsProofs` |
| `PluginState` | the persisted manifest and clock | `MCPluginState` | `CrashProofs` |

Some modules hold, beside a definition, a variant marked "(A bug ...)". Nothing
uses it: it is the definition with a plausible mistake, and each property has
been seen to fail when the variant takes the definition's place.

### ManifestSync

The manifest as a *set of updates*. An update is what one scan adds: one newly
created node (author, Doc instance, clock, lamport). Yrs integrates the updates
of one Doc instance without gaps, so a replica shows `Integrated(S)` of the set
`S` it received, and a state vector names exactly these.

| code | definition |
|---|---|
| `run_client`, `run_session` up to the loop | `Connect` |
| the MSG_MANIFEST_SYNC arm: apply or answer, save, first scan | `ReceiveManifest` |
| `scan_once` by timer or watcher | `RescanVault` (both use `Scan`) |
| `ensure_subscribed` | `Subscribe` |
| `handle_manifest_sync`, STEP_1 / STEP_2 and UPDATE | `AnswerStep1` / `MergeUpdate` |
| `load_manifest` after a restart | `RestartClient` |
| `hydrate_manifest` after a restart | `RestartServer` |
| the socket closes | `LoseConnection` |

The handler up to its lock is one step (`Subscribe`), under the lock another
one: the lock is held across the save and the broadcast. A scan is one step of
the client: its session loop does nothing else meanwhile, and the server sees
it only through its frames. Abstractions:

- the version handshake is part of `Connect`;
- a scan finds no or one new file; edits of existing nodes are `NodeFields`;
- a broadcast goes into the subscribers' outgoing queues at once: the ring and
  its overflow are in `ContentRelay`, where the same `ensure_subscribed` runs;
- each manifest frame adds another forwarding task; the model has one, the
  others repeat frames whose merge is idempotent;
- frames that a closed connection had not read are gone; if the server reads
  them late, it merges what the next STEP_2 would bring anyway;
- a fresh Doc has a fresh client id (`process`);
- a failed save of any kind (`manifest.bin` on a frame or in a scan, the
  server's row) and the server's failed read of its rows at start set
  `ioFailed`.

### ContentRelay

One text as a *set of operations*: insertions, numbered per author, and
deletions of them. A state vector bounds insertions only; a difference always
carries the whole delete set. That is what makes `IsNoop` interesting.

| code | definition |
|---|---|
| scan of the node and its STEP_1 (`subscribe_new_text_content`) | `Join` |
| `scan_once`, `replace_text` | `Edit` |
| content arm of the loop, STEP_1 / others with the drift fold | `Answer` / `Apply` |
| `handle_content_step1`, its three awaits | `JoinChannel`, `SendStep2`, `AskBack` |
| `handle_content_update`, its stages | `SkipUpdate`, `SaveUpdate`, `Relay` |
| forwarding task: message, Lagged, full read | `Forward`, `Lag`, `CatchUp` |
| the socket closes, under a handler or not | `LoseConnection`, `RelayOrphan` |

The channel is kept per receiver: the last `Cap` messages it has not taken, and
whether one was overwritten (`missed`). An edit is a deletion of one
insertion, an insertion, or both, which is what the minimal edit of
`replace_text` comes to. Abstractions: one document; the vault file itself and
the client's `content/*.bin` (a client does not restart here, a server's
restart is lost connections, as content is never cached); a failed database
call is only logged, as in the code, and recorded in `dbFailed`.

### NodeFields

A field of a node holds its last write, and a write is named by its *path*: the
Yrs client ids from the first write of the field down to it. A new write hangs
below the one it replaces (`Below`), rival writes are ordered by client id, and
the last of the tree is current (`After`, `Merge`). Stamps lie beside. On this
stand the operations of `v1/ops.rs` and `v1/manifest.rs`, with `is_live`,
`effective_stamp` and the ranking of `project`.

`mod_lamp` and `mod_actor` are one register, as are `deleted`, `del_lamp` and
`del_actor`: every setter writes them together in one transaction, so their
items form the same tree. Abstractions:

- one directory: no caller deletes, renames or moves directory nodes, and the
  parent register (cross-directory renames) is left to a later extension;
- the blob hash is left out (`PluginBlobs` has it); `set_blob_hash` stamps what
  `record_modify` stamps;
- an exchange is one step, `Receive(a, b)`: a takes what b has. What the
  server's part of it can do wrong is `ManifestSync`;
- `Restart` is a new process up to its first manifest frame, with a new Doc and
  the lamport observed from what it loaded;
- node ids grow with time (UUIDv7), taken from one clock.

### ServerMigration

`migrate_server_db` as a program of separate statements, each an action, with
`Interrupt` possible between any two; a failed statement ends the process as well.
A node is the document it came from and the run that minted its id. Left out:
the directories above a node, the actor id row (read or made before anything
else), duplicate rows in the archive.

### The plugin's modules

They share some conventions. A step ends where the code awaits something, so
that everything else gets its turn there; what a function looked up before the
await is a variable. The plugin lets a file and its node part in many places,
by design or not. A module names each as a *mishap*, the action in which it
happens records it in `amiss`, and its properties say what holds as long as
none of the named ones, or only some, came before. So the list of mishaps is
itself a result: an agreement property fails when a way for a file to go wrong
is not on the list. Runs stop at a small number of different mishaps
(`MaxAmiss`), because they multiply each other's states.

### PluginSession

| `main.ts` | definition |
|---|---|
| `connect`, between its awaits | `BeginCall`, `MakeClient`, `OpenSocket` or `OpenThrows`, `HandshakeDone` or `HandshakeTimesOut`, `Finish` |
| its catch block, and what throws | `Catch`, `Throw` |
| `scheduleReconnect` and its timer | `ScheduleReconnect`, `TimerFires` |
| the interval of `startStatusCheck` | `Tick...`, one for each branch |
| `disconnect`, `stopStatusCheck` | `Hangup`, `StopTimers` |
| `onload`, `onunload`, the status bar, the Reconnect button | `Load`, `Unload`, `StatusClick`, `ReconnectClick` |
| `onopen`, `onclose` of `wasm_client_v1.rs` | `SocketOpens`, `SocketCloses` |

Several calls can be under way. A call acts on `this.client` as it finds it,
which may be another call's. A call and the client that it makes have one name,
and names are used again. Abstractions: the delays are left out, so a timer may
run out at any moment; only that it runs out on an attempt which would have
succeeded is counted (`slow`). The limit of 5 ticks is `GiveUp`. What the scan
and the reconcile do is the other modules'; they catch their errors.

### PluginVault and LatestWins

| `main.ts` | definition |
|---|---|
| `reconcileProjection`, single-flighted | `CallReconcile`, `EndPass` |
| `reconcileProjectionInner`, up to each await | `StartPass`, `ContinueRemoving`, `Publish`, `ContinueAdding` |
| `removeLocalFile`, `renameLocalFile`, the placeholder | `RemoveLocalFile`, `RenameLocalFile`, `CreatePlaceholder` |
| `scanLocalVault`, `ingestNewFile` | `ScanFile`, `ScanDone`, `BeginIngest`, `Ingest` |
| `onFileCreate`, `onFileDelete`, `onFileRename` | `UserCreates`, `UserDeletes`, `UserRenames` |
| `onContentChanged`, `onManifestChanged` | `ReceiveText`, `Frame`, `Reproject` |
| the timers of `ignoreEvents` | `IgnoreEnds` |

The manifest is its projection, a map from paths to nodes, and a file's text is
the node whose text it shows. One session is modelled, from the end of its
handshake. Abstractions: every file is a note, and folders are not modelled; a
file's text comes once (edits are `PluginContent`); a user's event and its
handler up to the first await are one step; nodes are named afresh. A frame may
bring any projection.

`LatestWins` is the abstract specification: requests are numbered, and what is
served is always a later one. `PublishesInOrder` is the refinement
(`Follows == INSTANCE LatestWins WITH newest <- newest, served <- served`), with
`newest` counting projections and `served` the one `lastProjection` was read
from.

### PluginContent

| code | definition |
|---|---|
| `subscribeToContent`, `loadContentState` | `Mark`, `FinishLoading`, `SubscribeContent` |
| `onContentChanged`, its read and its write | `OnContentChanged`, `FileAgrees` or `FileDiffers`, `WriteFile` |
| `persistContentState` | `FinishSaving` |
| `onFileModify`, after the debounce and after its read | `OnFileModify`, `TakeText` |
| `ingestNewFile` for a note | `UserCreates` |
| the timers of `ignoreEvents.modify` | `SetTimer`, `Expire` |
| `connect`, `onopen`, `onclose`, `disconnect` | `Connect`, `Open`, `Lose`, `Disconnect` |
| STEP_1, STEP_2 and UPDATE of a content document | `Send`, `ReceiveText` |

A text is the set of the edits that can be read in it; a document counts how
often each was put in and taken out, so that documents merge by the larger
count and an edit that is taken out stays out. An edit sends its update, which
is what it changed (`Update`), a subscription exchanges what either side lacks;
an update whose predecessors the server does not have yet, and which Yrs keeps
aside, counts as there. Abstractions: notes keep their paths; the debounce (300 ms) and the suppression (1000 ms) keep their order
only, which is the order that `IGNORE_CHANGES_TIMEOUT_MS` is chosen for; a
subscription's three messages are one step, `ContentRelay` has them apart.

### PluginBlobs

| code | definition |
|---|---|
| the loop over binary rows, `ensureBinaryInSync` | `StartPass`, `EnsureMissing`, `ReadBinary`, `EnsureBinaryInSync`, `NextRow` |
| `tryRequestBlob`, `request_blob` | `TryRequestBlob`, `RequestMissing`, `RequestBlob` |
| `handle_blob_request`, MSG_BLOB_UPDATE in `dispatch_frame` | `AnswerBlob`, `DropAnswer`, `NoAnswer` |
| `handle_blob_update` | `Arrive`, `Refuse` |
| `onBlobReceived`, one turn of its loop | `WriteBlob` |
| `onFileModify` for a binary, up to its read, after it, after its hash | `OnFileModify`, `ReadFile`, `RecordModify`, `SendAndRecord` |
| `onFileCreate`, `ingestNewFile` for a binary | `UserCreates`, `BeginIngest`, `ReadFile`, `RecordIngested`, `CreateBinary` |
| `scanLocalVault` for a binary | `ScanFile`, `RecordScanned`, `CreateBinary` |
| the socket is lost, the timer reconnects | `Lose`, `Reconnect` |

A blob is its hash. The run starts with any rows and files, hence also with
files that have no row, rows without a file, and files edited while the plugin
was off. Blobs that the plugin sends are on their way (`sent`) until the server
stores or refuses them: it says nothing of one that is too large or that it
cannot save, and the row is there all the same. Another client uploads before
or after it makes its row (`promised`). An answer without bytes is dropped
before the client ceases to await it (`EmptyBlob`), so that it never asks again
on that connection. The calls of `onFileModify` and `ingestNewFile` overlap
(`Calls`), those for one file too, each with the row and the text it has read:
of two edits of a file the older one may be recorded last, and a later walk
then writes its blob over the newer one. File and row agree after that, too:
the properties do not say which of two edits that both had a row stays.

Abstractions: rows keep their paths and are not removed, and the rows that are
there at first have their blobs on the server; a suppression lasts until its
event, `PluginContent` has those that end early; a connection that breaks is
noticed; the vault's own reads and writes do not fail; two deliveries of one
blob at a time are one, as are two scans; an answer has the hash it was asked
by, as the server stores a blob under the hash that it computes itself (the
client drops one that has not).

### PluginState

| `main.ts` | definition |
|---|---|
| `migrateLegacyStateRoot` | `SkipMigration`, `Migrate`, `MigrateFails` |
| `ensureStateRoot`, `loadManifestFromDisk` | `EnsureStateRoot`, `Connect` |
| `persistManifestDebounced`, `persistManifest` and its two writes | `DebounceEnds`, `Persist`, `WriteManifest`, `WriteLamport`, `WriteFails` |
| `onunload`, the Reconnect button, a crash | `Unload`, `Reconnect`, `Crash` |

Of a manifest only the newest of the client's own stamps is kept. Calls of
`persistManifest` overlap; each takes its snapshot of the manifest at once and
the clock of the client there is after its first write. An instance that is
unloaded finishes its first write and fails at the second (an *orphan*). The
adapter keeps the order of writes to one file, and a write is there or not.

## 3. The runs

| run | configuration | result |
|---|---|---|
| `manifest_sync` | 2 clients, 2 nodes created, 2 faults of any kind | holds |
| `content_relay` | 2 clients, ring of 1, 2 edits, 1 fault, database may fail | holds |
| `content_relay_live` | the same events but two in all, database works | holds |
| `delete_only` | no fault | **violated** |
| `server_migration` | 2 texts, 1 binary, 1 skipped document, 3 crashes | holds |
| `node_fields` | 2 actors, 2 nodes, 2 names, 3 Doc ids, 4 events | holds |
| `plugin_session` | 3 calls at a time, 2 faults, 1 late timer, 1 button | holds |
| `plugin_vault` | 2 paths, 2 nodes, 2 frames, 1 user action, 1 mishap | holds |
| `plugin_content` | 2 notes, 2 edits, 2 broken or closed connections, 1 mishap | holds |
| `plugin_reconnect` | 1 note, 2 edits, 1 lost connection | **violated** |
| `plugin_blobs` | 2 files, 1 blob with bytes and the empty one, 2 calls at a time, 2 edits or lost connections, 1 mishap | holds |
| `plugin_state` | stamps up to 4, 3 stops, 2 writers, 1 mishap | holds |

What holds:

- `BroadcastsAreDurable`: what a client was told by broadcast, a restarted
  server still has.
- `LamportCoversManifest`: a client that has scanned in this session has a
  lamport not below any stamp it can read, although the counter starts from
  zero with every process. It hangs on the order of frames: the first one a
  session reads is never the server's question.
- `StampsAreUnique`: no two nodes are created with one stamp, unless an input
  or output failed.
- `ConvergesUnlessIoFails`: after the last fault all memories, `manifest.bin`
  files and rows hold the same updates, none behind a gap.
- `RelayedIsSaved`, `NothingMissed`: whatever is relayed is in the rows, and a
  connection that got its STEP_2 has every saved operation in its text, on the
  way to it, or about to be read for it, whichever way handlers interleave and
  however far the task lags.
- `EditsConverge`: every insertion reaches everybody, and all texts agree
  unless somebody's last edit only deleted.
- `BranchesGrow`: a write has a larger stamp than the one it replaced, across
  actors and restarts. The two orders can disagree on rival writes only.
- `OnlyUnseenEditsResurrect`: a deleted file comes back only through an edit
  that the deleter had not seen.
- `OnlyEditsYieldPaths`: a client's own operations, but for the scan's
  deliberate collision, make one kind of conflict copy. The file with the least
  effective stamp has a contested path, and an edit raises the stamp of its
  file: when the owner is edited it becomes the copy, and one of the rivals,
  which was a copy, gets the path. Nothing else becomes a copy, and creates,
  renames and deletes make none.
- `NothingLost`, `OriginalsAreKept`: of the conversion, wherever it stops.

And of the plugin:

- `NeverStranded`: whichever calls of `connect()` overlap and whatever throws,
  a plugin that wants a connection has a timer, a call or an interval that will
  bring it back; `ComesBack`: when faults end, it is connected for good and its
  status says so.
- `OneLiveClient`: a replaced client is never left connected, unless a button
  was used or a timer ran out on an attempt still under way.
- `QuietUnloadIsFinal`: a plugin unloaded with no call under way stays at rest.
  With a call under way it does not: the call goes on and makes a client.
- `SettlesInAgreement` (of the vault): when nothing is under way every file is
  at its node's path with its node's text and there is no other file.
  `BlanksAreAwaited`, `RowsBeforeTexts`: no placeholder stays empty for want of
  its row. `RequestsAreServed`, `PublishesInOrder`: no projection is skipped
  for ever, and none is published over a newer one.
- `SettlesInAgreement` (of the contents): file, document, persisted state and
  server have the same text, with every edit that was made.
  `OnlyTypingReverts`: nobody's text is taken out because the plugin read its
  own write back. `SubscribedAreTracked`, `DocumentsOnlyGrow`: a node counted
  as subscribed has its document, and a document is never replaced by an older
  one.
- `SettlesInAgreement` (of the blobs): every file has its row and its row's
  blob, unless one of the eleven mishaps came before. `MissingFilesCome`: a file
  that is not there is fetched whatever was asked for before, also over a
  reconnect, unless the server did not answer or the file is empty.
  `RowsHaveBlobs`: no row names a blob that nobody has, unless it was never
  sent, was lost with its connection, or was refused.
- `NoStampTwice`, `DiskIsCurrent`: a session that starts from what the last
  one wrote gives no stamp out again, and what is written is current once
  nothing is due.

What does not hold, where the code and its own documentation disagree:

- `SkipsOnlyEmptyUpdates` (`server.rs` 412): an update that only deletes is
  dropped as if it were empty. Its deletion travels with the author's next
  insertion, or when somebody's state is exchanged together with one.
- `ReconnectSynchronizes` (`obsidian-plugin/README.md` 76): an edit made while
  the network is away is not synchronized by the automatic reconnect. It makes
  a new WASM client without content documents, and `subscribedContent`, which
  only `disconnect()` clears, keeps the reconcile from subscribing again. The
  note stays as it was on the server until the user presses Reconnect or
  restarts.

Other disagreements are visible in the models without a run of their own. A
broadcast can overtake the STEP_2 that the first scan is said to wait for
(`client_v1.rs` 350; `ReceiveManifest` scans on any first frame). No heartbeat
is sent (design 4.4), so that `ConvergesUnlessIoFails` must except failed saves.
An interrupted conversion runs again with new node ids beside the old ones
(`server/migration.rs` 137; `NothingLost` does not say how often a document is
there). The lamport counter is not persisted by the native client
(`v1/ids.rs` 105; `Restart` observes it anew). Yrs may prefer the rival edit
with the smaller stamp (design 6.1), which is why `BranchesGrow` speaks of
chains of writes only. A missing binary is to be requested unconditionally
(`main.ts` 1240), but an empty one never comes: the client drops the answer
(`wasm_client_v1.rs` 827) and from then on swallows the request (`DropAnswer`).

### Bounds

Two clients are enough for a sender and a receiver in every role; the protocol
treats each connection alike and the server is the only meeting point. Two
updates are needed for a gap (an author's second without its first) and for
crossing ones; two faults for a failure during the recovery from another one.
A ring of one overflows at the second message, which two edits give; the code's
64 only delays that. In `NodeFields` four events cover an edit against a delete
on two actors with a restart or a rename around them. The third Doc id is the
one restart they allow. `MaxUpdates`, `MaxEdits`, `MaxFaults`, `MaxEvents`,
`MaxCrashes` bound the counters in guards, nothing else.

Two paths and two nodes are enough for a file in another's way, for a rename
onto a path that just became free, and for a walk that is overtaken behind and
ahead of where it is. Three calls of `connect()` are the one that the timer
began, a button's and the interval's. Two files share the debounce, two edits
of two authors make a merge. In `PluginBlobs` one blob with bytes and the empty
one give A, B, A on one row and one blob on two rows. Two calls are enough for
one that overtakes the other on one file. `MaxMoves` = 2 counts edits,
creations, files edited while off and lost connections together, so that the
run stays short; TLC also agrees with three of them and one call, and with two
blobs that have bytes, and the theorems hold for any number. `MaxAmiss` = 1 means: until something goes wrong, and then to the
end of what is under way, without new inputs; a bug that needs a mishap first
is out of reach of the properties, which promise little after one. `GiveUp` = 1
stands for the 5 ticks: only reaching the limit matters. `MaxWriters` = 2 lets
calls of `persistManifest` overlap, three stops let a mistake of one session
show in the next. `MaxFrames`, `MaxUser`, `MaxMoves`, `MaxBreaks`, `MaxStops`,
`MaxSlow`, `MaxClicks` and `MaxBroken` bound counters in guards.

Symmetry is used where no definition tells the values apart (clients in the
safety run of `ContentRelay`, names in `NodeFields`, notes, edits and tasks in
`PluginContent`, calls and blobs with bytes in `PluginBlobs`), and in no liveness run.

`CHECK_DEADLOCK FALSE` stands where the system comes to rest: all synchronised
with the bounds used up, or migrated.

### Fairness

`run_client` reconnects for ever, the session loop polls its socket first
(`biased`), every task of the server runs on the runtime until its connection
ends: hence weak fairness of connecting, of receiving, and of each handler and
task step. Edits, scans after the first, and faults are never promised.

In `PluginSession`: promises resolve or reject, a timer that is set fires, the
interval ticks, and a server that is up accepts a socket, hence weak fairness of
each call's next step, of the timer, of the tick and of `SocketOpens`. Faults
and late timers are bounded and not promised, and nobody has to click.

## 4. The proofs

Each holds for every value of the constants. Every proof module begins with an
inductive invariant `IInv` (theorem `Inductive`), which has the type invariant
and whatever else the properties need; the theorems below follow from it, some
with a further invariant of their own. `TypeCorrect` is in all of them. The
strengthened invariants were model-checked with the runs' configurations first,
where TLC can evaluate them.

For every set of clients, every number of updates and faults
(`ManifestSyncProofs`):

- `DurableBroadcasts`: `Spec => []BroadcastsAreDurable`;
- `LamportCovers`: `Spec => []LamportCoversManifest`;
- `StampsNeverCollide`: `Spec => []StampsAreUnique`.

`LamportCoversManifest` is not inductive. What a Doc integrates may grow by an
update far behind the one that just arrived, if that one closes a gap, and a
new update must not close one for anybody; so `AllIssued` says that no replica,
file, row or frame carries a clock that its author has not handed out
(`FreshUpdateFillsNoGap` draws the conclusion). And a session that starts its
scan must have observed its manifest first: `FirstFrameIsApplied` says that the
first frame to a session is never a STEP_1, which would be answered and observe
nothing.

A fresh stamp is past all that its author can read, but of his own earlier
stamps he might have lost some. `KeepsItsOwn` says that he has not, as long as
nothing failed: `manifest.bin` is what is in memory, whatever anybody carries is
held by its author, and his own updates have no gap up to his clock. So all of
them are integrated, and a fresh stamp repeats none.

For any clients, capacity of the channel, edits and faults
(`ContentRelayProofs`):

- `RelayIsBackedByRows`: `Spec => []RelayedIsSaved`;
- `ConnectionsMissNothing`: `Spec => []NothingMissed`.

`NothingMissed` follows an operation from the rows to a subscriber over three
paths (queue, full read, frames) and around two shortcuts: a forwarding task
skips what its own client sent, and STEP_2 leaves out what a STEP_1 named. Both
are harmless because a client has what it sends (`SendersHave`). What a state
vector names is named by counts, so an author must have his insertions before
anybody else (`AuthorsHave`) and his clock must count them (`ClocksCount`).
`HandlersInOrder` says what the stages of a handler mean: operations are its job
only from the append to the broadcast, and a connection that is answered is
subscribed.

For any actors, nodes, names and Docs and any number of events
(`NodeFieldsProofs`):

- `StampsFollowBranches`: `Spec => []BranchesGrow`;
- `SeenEditsStayDeleted`: `Spec => []OnlyUnseenEditsResurrect`;
- `OperationsYieldByEdits`: `Spec => OnlyEditsYieldPaths`.

The proof begins with the order that Yrs gives to rival writes: `After` is a
total order of paths, and a path is after all its prefixes. An actor holds what
he wrote with his present Doc or something later (`OwnWritesAreHeld`), so the
path of his next write is new and nothing hangs below it: a path names one write
(`PathsNameWrites`). His clock observes whatever he can read (`ClocksObserve`),
so the new stamp beats all the writes above it, which is `BranchesGrow`. For the
deletes, `DeletesAreInformed` says that whoever has a delete also has what the
deleter had seen, and that the delete is the later of the two if he has no more.
That both hold after a merge, where each field is chosen on its own, is the
heart of it. For `OnlyEditsYieldPaths`, a create or rename to a free path and a
delete leave every other file's rivals as they are or take one away. An edit
makes its file the last of its rivals, as the new stamp beats all that the clock
observes; the first of them, which exists because `project`'s order is well
founded, then owns the path.

For any bounds, documents and number of crashes (`CrashProofs`, one module for
the two components whose promise is about what is on disk when a process stops
between two writes; `ServerMigration` has names of its own, so that both can be
extended):

- `StampsAreGivenOnce`: `Spec => []NoStampTwice` (of `PluginState`);
- `DiskHasTheClient`: `Spec => []DiskIsCurrent`;
- `MigrationLosesNothing`: `MigrationSpec => []NothingLost` (of
  `ServerMigration`);
- `MigrationKeepsOriginals`: `MigrationSpec => []OriginalsAreKept`;
- `MigrationTypeCorrect`, from `MigrationInductive`.

`WritesInOrder` says that overlapping calls of `persistManifest` stay in order,
and `NewestIsKept` where the newest stamp issued is at each moment: with the
client, with the last writer, or on disk. That the v0 rows may go is known only
from what the run did before, so `Achieved` says what holds at each of its
steps.

For any number of overlapping calls of `connect()` (`PluginSessionProofs`):

- `SomethingIsUnderWay`: `Spec => []NeverStranded`;
- `UnloadedForGood`: `Spec => []QuietUnloadIsFinal`;
- `OneConnection`: `Spec => []OneLiveClient`.

`OneLiveClient` says nothing of what is about to open a socket. `OneAtATime`
does: without buttons and late timers a timer is set and a call begun only
where no socket is live and no other call is before its own. `RestsBeforeLoad`
gives the loaded plugin its start.

For any paths, nodes and room for runs (`PluginVaultProofs`):

- `RequestsAreKept`: `Spec => []RequestsAreServed`;
- `Refinement`: `Spec => PublishesInOrder`, that is, the reconcile implements
  `LatestWins` under the mapping `newest <- newest, served <- served`;
- `TextsFindRows`: `Spec => []RowsBeforeTexts`;
- `FilesSettle`: `Spec => []SettlesInAgreement`;
- `BlanksGetTexts`: `Spec => []BlanksAreAwaited`.

The first two hang on `SingleFlight`, that at most one run is under way, and on
`RunsAreAware`: until it publishes, a run has read at least what is published,
and what it has not read is pending. `TextsFindRows` needs what the rows are,
not only how new: by `RowsAreKnown`, a run has read the live projection or
another pass is pending, and a plugin at rest has published it before a text is
due.

`FilesSettle` says that the list of mishaps is complete. Its invariant,
`RestInv`, says of every state what is under way for a difference. A path is a
node's (`Owns`) in the live projection, in the one a run has read, or in
`lastProjection` as long as no run has passed its row; before any mishap, every
file is at a path of some node or is still to be read (`FilesAreListed`), and a
node that has got its text has a row (`SubscribedHaveRows`) and shows its text
at a path of its own (`TextsAreShown`). Of every state, mishaps or not, it says
that rows are subscribed by a run, now or in the next pass
(`RowsAreSubscribed`), and that a run unsubscribes what it finds gone
(`GoneAreUnsubscribed`).

The list was not complete: the attempt to prove it, and larger instances, showed
two ways for a file to go wrong that none of the mishaps named, and that the run
was too small for. A text may be written to the old row of a node whose file the
run has just renamed, and stay there when the node moves back; and the user may
rename the file of a node whose row is not published yet, which makes the file a
new note. The conditions of *stale* and *unseen* now name them. Most others
became weaker, so that the property promises more: a file created at a path of
the manifest, or an event while the row changes, is no mishap unless the file
shows another node.

For any notes, edits and tasks and any number of broken connections
(`PluginContentProofs`):

- `SubscriptionsHaveDocuments`: `Spec => []SubscribedAreTracked`;
- `DocumentsKeepTheirEdits`: `Spec => DocumentsOnlyGrow`;
- `EchoesAreNoEdits`: `Spec => []OnlyTypingReverts`;
- `NotesSettle`: `Spec => []SettlesInAgreement`.

`subscribe_content` replaces a document whatever is there, so that documents
only grow depends on who calls it, and when. `LoadedOnce` says that a state is
read once, and before its node has a document, unless a `disconnect` left a
read under way; `NodesAreListed` says that what is read, subscribed or tracked
is in the manifest, where a file that its user creates is not yet.
`EchoesStayIgnored` follows a write of the plugin to its event: a file about to
be written is ignored, the ignoring outlasts the event because its timer is held
until then, and the debounce that collects the events of all files handles none
but typed ones. So an edit that nobody typed over is counted once at most.

`NotesSettle` says that the list of mishaps is complete. Its invariant says of
every state before any mishap what is under way for a difference: a document
that the server has answered for (`Fresh`) has its text in the file, or a call
of `onContentChanged` brings it, or the file has more and its event is being
handled (`FilesFollow`); such a document is within the server's
(`ServersFollow`), a state lags behind its document only while it is about to be
saved (`StatesFollow`), and every edit is in some file, document, state or at
the server (`EditsAreKept`). Here too the list was not complete: with three
calls for one note, one more than the run has, the newest text may be written
first and an older one over it, while a third call is under way that has the
older text too, finds it in the file and ends. *outrun* named only a last call
that writes; it now names every write of an older text that no call under way
will mend, and TLC agrees with three calls.

For any number of files, blobs and overlapping calls (`PluginBlobsProofs`):

- `RowsAlwaysHaveBlobs`: `Spec => []RowsHaveBlobs`;
- `MissingFilesAreFetched`: `Spec => []MissingFilesCome`;
- `FilesAgree`: `Spec => []SettlesInAgreement`.

`MissingFilesCome` speaks of states at rest only. `MissingAreUnderWay` says of
every state what is to come: a reconcile that is due, a walk that is not past
the row, a request that the server owes, a delivery to the row. It excepts what the
server does not answer and what it answers in vain: the client drops an answer
without bytes and awaits it for ever. It needs
`AwaitedAreAsked` (a client that awaits an answer is owed one, so a request that
`request_blob` swallows is under way all the same), `WalksKnowRows` (the blob
that comes finds the row in `lastProjection`) and `ReadFilesStay`.

`FilesAgree` says that the list of mishaps is complete. Its invariant has the
same shape: before any mishap, a file that differs from its row waits for a walk
or for its blob (`ToBeWritten`), or for its edit's event or one of the calls
that have read it (`Editing`), a file without a row for the scan or the call
that reads it (`UnlistedAreUnderWay`), and whoever changes a row has a walk
begin (`RowsAreWalked`). The attempt to prove it showed a flaw of the model that
takes more moves than the run has: `unsent` forgot an edit that was typed back
to the row's text while its event was still to come, so that losing the event
counted as no mishap. It now keeps a file until a row names what is in it
(`Publishes`).

The proofs assume what each module's named assumption says of its constants:
types, that a document is of one kind, that the values for "none" are none of
the others, that Doc ids and actors are ordered as numbers are, that there is
room for one run, that the bound on stamps is not zero.

Only model-checked: liveness (`ConvergesUnlessIoFails`, `EditsConverge`,
`ComesBack`), as it needs fairness and ENABLED, which the proof system does not
handle. Every invariant and every action property of the runs that pass is
stated by a theorem.

## 5. The plan

Done: `ManifestSync`, `ContentRelay`, `NodeFields`, `ServerMigration`,
`PluginSession`, `PluginVault` with `LatestWins`, `PluginContent`, `PluginBlobs`
and `PluginState`, each with proofs of its type invariant and of its safety
properties.

Left, in this order:

1. The native client's vault: scan and reconcile over files, content documents
   and tombstones, with crashes between `persist` and the flush; its blobs,
   which unlike the plugin's are sent after the manifest is saved.
2. The parent register in `NodeFields` (cross-directory renames are two
   transactions), and directories that two clients create; folders in
   `PluginVault`.
3. The vault migration (`v1/disk.rs`), beside `ServerMigration`.

Not modelled:

- the plugin's sidebar and settings tab, which read state and render it (the
  buttons that act on it are in `PluginSession`), its build configuration, and
  the page of the desktop shell, which keeps no state;
- of the plugin's code: folders (`createFolder`, `ensureParentFolders`), paths
  that differ only in case, the fallbacks for files that Obsidian's index and
  the disk disagree on, and `removeContentState`, with which a state can be
  written again after its node is gone: a leftover file, which nothing reads,
  because node ids are not used again;
- the v0 client (superseded, and modelled in the repository), the command line,
  desktop shell and fuzzer (drivers), the ignore list and the chunker
  (functions of their input), the watcher (an earlier scan).

## 6. Running

    tlc -workers 2 -config MCManifestSync.cfg MCManifestSync
    tlapm ManifestSyncProofs.tla

and likewise for the other configurations and proof modules.
