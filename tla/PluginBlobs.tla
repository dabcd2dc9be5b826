----------------------------- MODULE PluginBlobs ----------------------------
(***************************************************************************)
(* How the Obsidian plugin keeps binary files at the blobs that their rows *)
(* name (obsidian-plugin/main.ts, with the blob requests of the WASM       *)
(* client, wasm_client_v1.rs).                                             *)
(*                                                                         *)
(* A blob is its hash.  The rows keep their paths, 1..N in the order of    *)
(* the projection; a file may have none yet.  The plugin reconnects by its *)
(* timer, with a new WASM client and without disconnect().  A suppression  *)
(* lasts as long as the event it is for waits (PluginContent has the ones  *)
(* that end early).                                                        *)
(***************************************************************************)
EXTENDS Naturals, FiniteSets, FiniteSetsExt

CONSTANTS
  N,           \* number of paths of binary files
  Blobs,
  EmptyBlob,   \* the blob of a file without bytes
  NoBlob,      \* no file, no row, nothing read
  Calls,       \* bound: room for running calls of onFileModify and ingestNewFile
  MaxMoves,    \* bound: changes by the user and by other clients, files edited
               \* while the plugin was off, lost connections
  MaxAmiss     \* bound: mishaps after which no other comes

Files == 1..N

ASSUME PluginBlobsAssumption ==
  /\ N \in Nat
  /\ NoBlob \notin Blobs
  /\ MaxMoves \in Nat /\ MaxAmiss \in Nat

VARIABLES
  row,        \* row[p]: the blob that the manifest names, if it has a row
  last,       \* last[p]: the blob that lastProjection names
  stored,     \* blobs that the server has
  promised,   \* blobs that another client has yet to upload
  sent,       \* blobs on their way to the server
  online,     \* isConnected()
  connecting, \* connect() has not called reconcileProjection yet
  scanning,   \* files scanLocalVault has yet to read
  taken,      \* what scanLocalVault has read of a file
  requested,  \* requestedBlobs
  awaited,    \* the WASM client's requested_blobs
  asked,      \* requests the server has yet to answer
  file,       \* file[p]: the vault
  due,        \* a reconcile is due
  at, snap,   \* the row at which the running reconcile is, 0 for none; its rows
  seen,       \* what it read there
  delivery,   \* delivery[b]: the rows onBlobReceived has yet to write b to
  event,      \* the file onFileModify will be called with, 0 for none
  call,       \* the running calls of onFileModify, and those of ingestNewFile
  ignoring,   \* ignoreEvents.modify
  unsent,     \* files with an edit of the user's that no row has had
  moves,
  amiss       \* history: see Mishaps

serverVars  == <<stored, promised, sent>>
requestVars == <<requested, awaited, asked>>
scanVars    == <<connecting, scanning, taken>>
passVars    == <<due, at, snap, seen>>
eventVars   == <<event, call, ignoring>>
vars == <<row, last, serverVars, online, scanVars, requestVars, file, passVars,
          delivery, eventVars, unsent, moves, amiss>>

Content == Blobs \cup {NoBlob}

\* A call is about a file, and knows the blob that its row named, which none did
\* if it is ingestNewFile's, and the text once it has read the file.
Call == [path : 0..N, named : Content, text : Content]
Idle == [path |-> 0, named |-> NoBlob, text |-> NoBlob]

\* Where a file and its row part:
\*   unanswered   the server did not have the blob, or could not read it, and
\*                does not answer
\*   empty        the answer had no bytes, and the client dropped it
\*   dropped      a request was lost with its connection
\*   repeated     a blob that is needed again was asked for once already
\*   late         a blob was written that the row no longer names
\*   overwritten  a blob was written over an edit that is in no row
\*   offline      an edit was made without a connection, and given up
\*   swallowed    the event of an edit met the suppression of an echo
\*   crowded      the one debounce forgot an edit's event for another file's
\*   undelivered  a row was made without a connection to send its blob, or the
\*                connection broke under the blob
\*   refused      the server gave up a blob: too large, or not saved
Mishaps == {"unanswered", "empty", "dropped", "repeated", "late", "overwritten", "offline",
            "swallowed", "crowded", "undelivered", "refused"}

TypeOK ==
  /\ row \in [Files -> Content]
  /\ last \in [Files -> Content]
  /\ stored \subseteq Blobs /\ promised \subseteq Blobs /\ sent \subseteq Blobs
  /\ online \in BOOLEAN
  /\ connecting \in BOOLEAN
  /\ scanning \subseteq Files
  /\ taken \in [Files -> Content]
  /\ requested \subseteq Blobs /\ awaited \subseteq Blobs /\ asked \subseteq awaited
  /\ file \in [Files -> Content]
  /\ due \in BOOLEAN
  /\ at \in 0..N
  /\ snap \in [Files -> Content]
  /\ seen \in Content
  /\ delivery \in [Blobs -> SUBSET Files]
  /\ event \in 0..N
  /\ call \in [Calls -> Call]
  /\ ignoring \subseteq Files
  /\ unsent \subseteq Files
  /\ moves \in Nat
  /\ amiss \subseteq Mishaps

\* Files without a row.
Unlisted == {p \in Files : file[p] # NoBlob /\ row[p] = NoBlob}

\* A connection is up, and the scan begins.  The user may have edited files
\* while the plugin was off.
Init ==
  /\ row \in [Files -> Content]
  /\ file \in [Files -> Content]
  /\ last = [p \in Files |-> NoBlob]
  /\ stored = {row[p] : p \in Files} \ {NoBlob} /\ promised = {} /\ sent = {}
  /\ online = TRUE
  /\ connecting = TRUE /\ scanning = Unlisted
  /\ taken = [p \in Files |-> NoBlob]
  /\ requested = {} /\ awaited = {} /\ asked = {}
  /\ due = FALSE
  /\ at = 0 /\ snap = [p \in Files |-> NoBlob] /\ seen = NoBlob
  /\ delivery = [b \in Blobs |-> {}]
  /\ event = 0 /\ call = [c \in Calls |-> Idle] /\ ignoring = {}
  /\ unsent = {p \in Files : file[p] \notin {row[p], NoBlob}}
  /\ moves \in 0..MaxMoves /\ moves = Cardinality(unsent)
  /\ amiss = {}

-----------------------------------------------------------------------------
Note(kinds) ==
  /\ amiss' = amiss \cup kinds
  /\ kinds \subseteq amiss \/ Cardinality(amiss') <= MaxAmiss

When(condition, kind) == IF condition THEN {kind} ELSE {}

\* Nobody changes a file or a row once there were MaxAmiss mishaps.
Calm == Cardinality(amiss) < MaxAmiss

Count == moves < MaxMoves /\ moves' = moves + 1

Move == Count /\ Calm

-----------------------------------------------------------------------------
(* The reconcile's walk over the binary rows *)

\* The next row after p that names a blob, or 0.
RowAfter(p, rows) ==
  LET ahead == {q \in Files : q > p /\ rows[q] # NoBlob}
  IN IF ahead = {} THEN 0 ELSE Min(ahead)

StartPass ==
  /\ due /\ at = 0
  /\ due' = FALSE
  /\ at' = RowAfter(0, row)
  /\ snap' = row
  /\ last' = row
  /\ seen' = NoBlob
  /\ UNCHANGED <<row, serverVars, online, scanVars, requestVars, file, delivery, eventVars,
                 unsent, moves, amiss>>

\* (A bug for the runs to find: a row too many.)
NextRowPast ==
  /\ at' = at + 1
  /\ seen' = NoBlob
  /\ UNCHANGED <<due, snap>>

NextRow ==
  /\ at' = RowAfter(at, snap)
  /\ seen' = NoBlob
  /\ UNCHANGED <<due, snap>>

\* requestBlob sends nothing when it waits for an answer already.
RequestBlob(b) ==
  /\ awaited' = awaited \cup {b}
  /\ asked' = IF b \in awaited THEN asked ELSE asked \cup {b}
  /\ requested' = requested \cup {b}

\* tryRequestBlob: once in a session.
TryRequestBlob(b) ==
  IF online /\ b \notin requested THEN RequestBlob(b) ELSE UNCHANGED requestVars

\* (A bug for the runs to find: a missing file is asked for once.)
RequestMissingOnce(b) == TryRequestBlob(b)

\* Whatever was asked for before, a missing file is asked for.
RequestMissing(b) == IF online THEN RequestBlob(b) ELSE UNCHANGED requestVars

EnsureMissing ==
  /\ at # 0 /\ file[at] = NoBlob /\ seen = NoBlob
  /\ RequestMissing(snap[at])
  /\ NextRow
  /\ UNCHANGED <<row, last, serverVars, online, scanVars, file, delivery, eventVars, unsent,
                 moves, amiss>>

ReadBinary ==
  /\ at # 0 /\ file[at] # NoBlob /\ seen = NoBlob
  /\ seen' = file[at]
  /\ UNCHANGED <<row, last, serverVars, online, scanVars, requestVars, file, due, at, snap,
                 delivery, eventVars, unsent, moves, amiss>>

\* What was read has been hashed.
EnsureBinaryInSync ==
  LET b == snap[at] IN
  /\ at # 0 /\ seen # NoBlob
  /\ IF seen = b THEN UNCHANGED requestVars ELSE TryRequestBlob(b)
  /\ Note(When(seen # b /\ b \in requested \ asked /\ at \notin delivery[b], "repeated"))
  /\ NextRow
  /\ UNCHANGED <<row, last, serverVars, online, scanVars, file, delivery, eventVars, unsent,
                 moves>>

-----------------------------------------------------------------------------
(* Blobs from the server *)

\* (A bug for the runs to find: only one row gets the blob.)
FirstMatch(b) == {p \in Files : last[p] = b /\ \A q \in 1..(p - 1) : last[q] # b}

Matches(b) == {p \in Files : last[p] = b}

\* The blob comes, for the rows that lastProjection has for it.
AnswerBlob(b) ==
  /\ b \in asked /\ b \in stored /\ b # EmptyBlob
  /\ asked' = asked \ {b}
  /\ awaited' = awaited \ {b}
  /\ delivery' = [delivery EXCEPT ![b] = @ \cup Matches(b)]
  /\ UNCHANGED <<row, last, serverVars, online, scanVars, requested, file, passVars, eventVars,
                 unsent, moves, amiss>>

\* An answer without bytes is dropped before the client ceases to await it.
DropAnswer(b) ==
  /\ b \in asked /\ b \in stored /\ b = EmptyBlob
  /\ asked' = asked \ {b}
  /\ Note({"empty"})
  /\ UNCHANGED <<row, last, serverVars, online, scanVars, requested, awaited, file, passVars,
                 delivery, eventVars, unsent, moves>>

\* The server does not have the blob, or fails to read it.
NoAnswer(b) ==
  /\ b \in asked
  /\ asked' = asked \ {b}
  /\ Note({"unanswered"})
  /\ UNCHANGED <<row, last, serverVars, online, scanVars, requested, awaited, file, passVars,
                 delivery, eventVars, unsent, moves>>

\* One turn of onBlobReceived's loop.
WriteBlob(b) ==
  LET p == Min(delivery[b])
      fresh == file[p] = NoBlob
  IN
  /\ delivery[b] # {}
  /\ delivery' = [delivery EXCEPT ![b] = @ \ {p}]
  /\ file' = [file EXCEPT ![p] = b]
  /\ unsent' = unsent \ {p}
  /\ event' = IF fresh THEN event ELSE p
  /\ ignoring' = IF fresh THEN ignoring ELSE ignoring \cup {p}
  /\ Note(When(last[p] # b, "late") \cup When(p \in unsent, "overwritten")
          \cup When(~fresh /\ event \in unsent \ {p}, "crowded"))
  /\ UNCHANGED <<row, last, serverVars, online, scanVars, requestVars, passVars, call,
                 moves>>

IgnoreEnds(p) ==
  /\ p \in ignoring /\ event # p
  /\ ignoring' = ignoring \ {p}
  /\ UNCHANGED <<row, last, serverVars, online, scanVars, requestVars, file, passVars, delivery,
                 event, call, unsent, moves, amiss>>

-----------------------------------------------------------------------------
(* onFileModify and ingestNewFile: the calls overlap, those for one file too *)

\* ingestNewFile leaves a path of the manifest alone.
BeginIngest(c, p) ==
  call' = IF row[p] = NoBlob
          THEN [call EXCEPT ![c] = [path |-> p, named |-> NoBlob, text |-> NoBlob]]
          ELSE call

\* The debounce is over.
OnFileModify(c) ==
  LET takes == event \notin ignoring IN
  /\ event # 0 /\ call[c] = Idle
  /\ event' = 0
  /\ \/ ~takes /\ UNCHANGED call
     \/ takes /\ last[event] = NoBlob /\ BeginIngest(c, event)
     \/ /\ takes /\ last[event] # NoBlob
        /\ call' = [call EXCEPT ![c] = [path |-> event, named |-> last[event], text |-> NoBlob]]
  /\ Note(When(~takes /\ event \in unsent, "swallowed"))
  /\ UNCHANGED <<row, last, serverVars, online, scanVars, requestVars, file, passVars, delivery,
                 ignoring, unsent, moves>>

\* The file has been read.  onFileModify looks for a suppression again.
ReadFile(c) ==
  LET p == call[c].path
      gone == call[c].named # NoBlob /\ p \in ignoring
  IN
  /\ p # 0 /\ call[c].text = NoBlob
  /\ call' = IF gone THEN [call EXCEPT ![c] = Idle] ELSE [call EXCEPT ![c].text = file[p]]
  /\ Note(When(gone /\ p \in unsent, "swallowed"))
  /\ UNCHANGED <<row, last, serverVars, online, scanVars, requestVars, file, passVars, delivery,
                 event, ignoring, unsent, moves>>

\* An edit is no longer unsent once a row names it.
Publishes(p) == unsent' = IF row'[p] = file[p] THEN unsent \ {p} ELSE unsent

\* (A bug for the runs to find: the row is written before the blob is sent.)
SendAndRecordFirst(p, b) ==
  /\ row' = [row EXCEPT ![p] = b]
  /\ sent' = IF online THEN sent \cup {b} ELSE sent
  /\ due' = TRUE

\* sendBlob throws without a connection, and then nothing is recorded.
SendAndRecord(p, b) ==
  IF online
  THEN /\ row' = [row EXCEPT ![p] = b]
       /\ sent' = sent \cup {b}
       /\ due' = TRUE
  ELSE UNCHANGED <<row, sent, due>>

\* What was read has been hashed.
RecordModify(c) ==
  LET p == call[c].path
      b == call[c].text
      changed == b # call[c].named
  IN
  /\ b # NoBlob /\ call[c].named # NoBlob
  /\ call' = [call EXCEPT ![c] = Idle]
  /\ IF changed THEN SendAndRecord(p, b) ELSE UNCHANGED <<row, sent, due>>
  /\ Publishes(p)
  /\ Note(When(changed /\ ~online, "offline"))
  /\ UNCHANGED <<last, stored, promised, online, scanVars, requestVars, file, at, snap, seen,
                 delivery, event, ignoring, moves>>

\* createBinary throws when the path has got a row meanwhile.
CreateBinary(p, b) ==
  /\ row' = IF row[p] = NoBlob THEN [row EXCEPT ![p] = b] ELSE row
  /\ due' = (due \/ row[p] = NoBlob)
  /\ Publishes(p)

\* ingestNewFile throws without a connection: the next scan finds the file.
RecordIngested(c) ==
  LET b == call[c].text IN
  /\ b # NoBlob /\ call[c].named = NoBlob
  /\ call' = [call EXCEPT ![c] = Idle]
  /\ IF online
     THEN sent' = sent \cup {b} /\ CreateBinary(call[c].path, b)
     ELSE UNCHANGED <<sent, row, due, unsent>>
  /\ UNCHANGED <<last, stored, promised, online, scanVars, requestVars, file, at, snap, seen,
                 delivery, event, ignoring, moves, amiss>>

-----------------------------------------------------------------------------
(* Files without a row *)

\* scanLocalVault reads one file after the other.
ScanFile(p) ==
  /\ p \in scanning
  /\ \A q \in Files : taken[q] = NoBlob
  /\ scanning' = scanning \ {p}
  /\ taken' = [taken EXCEPT ![p] = file[p]]
  /\ UNCHANGED <<row, last, serverVars, online, connecting, requestVars, file, passVars,
                 delivery, eventVars, unsent, moves, amiss>>

\* The scan sends the blob when there is a connection, and makes the row
\* whether or not there is.
RecordScanned(p) ==
  LET b == taken[p] IN
  /\ b # NoBlob
  /\ taken' = [taken EXCEPT ![p] = NoBlob]
  /\ sent' = IF online THEN sent \cup {b} ELSE sent
  /\ CreateBinary(p, b)
  /\ Note(When(~online /\ row[p] = NoBlob, "undelivered"))
  /\ UNCHANGED <<last, stored, promised, online, connecting, scanning, requestVars, file, at,
                 snap, seen, delivery, eventVars, moves>>

\* connect() calls reconcileProjection after the scan.
ScanDone ==
  /\ connecting /\ scanning = {}
  /\ \A p \in Files : taken[p] = NoBlob
  /\ connecting' = FALSE
  /\ due' = TRUE
  /\ UNCHANGED <<row, last, serverVars, online, scanning, taken, requestVars, file, at, snap,
                 seen, delivery, eventVars, unsent, moves, amiss>>

-----------------------------------------------------------------------------
(* The user, the other clients, the connection *)

UserModifies(p, b) ==
  /\ Move
  /\ file[p] \notin {NoBlob, b}
  /\ file' = [file EXCEPT ![p] = b]
  /\ unsent' = unsent \cup {p}
  /\ event' = p
  /\ Note(When(event \in unsent \ {p}, "crowded"))
  /\ UNCHANGED <<row, last, serverVars, online, scanVars, requestVars, passVars, delivery, call,
                 ignoring>>

\* onFileCreate
UserCreates(c, p, b) ==
  /\ Move
  /\ file[p] = NoBlob /\ call[c] = Idle
  /\ file' = [file EXCEPT ![p] = b]
  /\ unsent' = IF row[p] = b THEN unsent ELSE unsent \cup {p}
  /\ BeginIngest(c, p)
  /\ UNCHANGED <<row, last, serverVars, online, scanVars, requestVars, passVars, delivery, event,
                 ignoring, amiss>>

\* A plugin sends the blob before the row, the native client after it.
OthersModify(p, b) ==
  /\ Move
  /\ online /\ row[p] # b
  /\ row' = [row EXCEPT ![p] = b]
  /\ \/ stored' = stored \cup {b} /\ UNCHANGED promised
     \/ promised' = promised \cup {b} /\ UNCHANGED stored
  /\ due' = TRUE
  /\ UNCHANGED <<last, sent, online, scanVars, requestVars, file, at, snap, seen, delivery,
                 eventVars, unsent, amiss>>

Upload(b) ==
  /\ b \in promised
  /\ promised' = promised \ {b}
  /\ stored' = stored \cup {b}
  /\ UNCHANGED <<row, last, sent, online, scanVars, requestVars, file, passVars, delivery,
                 eventVars, unsent, moves, amiss>>

\* handle_blob_update stores what the plugin sent,
Arrive(b) ==
  /\ b \in sent
  /\ sent' = sent \ {b}
  /\ stored' = stored \cup {b}
  /\ UNCHANGED <<row, last, promised, online, scanVars, requestVars, file, passVars, delivery,
                 eventVars, unsent, moves, amiss>>

\* or gives a blob up: it is too large, or cannot be saved.
Refuse(b) ==
  /\ \/ b \in sent /\ sent' = sent \ {b} /\ UNCHANGED promised
     \/ b \in promised /\ promised' = promised \ {b} /\ UNCHANGED sent
  /\ Note(When(b \notin stored, "refused"))
  /\ UNCHANGED <<row, last, stored, online, scanVars, requestVars, file, passVars, delivery,
                 eventVars, unsent, moves>>

\* Requests and blobs that are under way are gone.
Lose ==
  /\ online
  /\ Count
  /\ online' = FALSE
  /\ asked' = {}
  /\ sent' = {}
  /\ Note(When(asked # {}, "dropped") \cup When(~(sent \subseteq stored), "undelivered"))
  /\ UNCHANGED <<row, last, stored, promised, scanVars, requested, awaited, file, passVars,
                 delivery, eventVars, unsent>>

\* connect() by the timer: the WASM client is new, requestedBlobs is not, and
\* the vault is scanned again.
Reconnect ==
  /\ ~online
  /\ online' = TRUE
  /\ awaited' = {}
  /\ connecting' = TRUE
  /\ scanning' = scanning \cup Unlisted
  /\ UNCHANGED <<row, last, serverVars, taken, requested, asked, file, passVars, delivery,
                 eventVars, unsent, moves, amiss>>

Pass == StartPass \/ EnsureMissing \/ ReadBinary \/ EnsureBinaryInSync

Next ==
  \/ Pass
  \/ ScanDone \/ Lose \/ Reconnect
  \/ \E b \in Blobs : \/ AnswerBlob(b) \/ DropAnswer(b) \/ NoAnswer(b) \/ WriteBlob(b)
                      \/ Upload(b) \/ Arrive(b) \/ Refuse(b)
  \/ \E c \in Calls : OnFileModify(c) \/ ReadFile(c) \/ RecordModify(c) \/ RecordIngested(c)
  \/ \E p \in Files : IgnoreEnds(p) \/ ScanFile(p) \/ RecordScanned(p)
  \/ \E p \in Files, b \in Blobs : \/ UserModifies(p, b) \/ OthersModify(p, b)
                                   \/ \E c \in Calls : UserCreates(c, p, b)

Spec == Init /\ [][Next]_vars

-----------------------------------------------------------------------------
(* Properties *)

Settled ==
  /\ online /\ ~connecting /\ ~due /\ at = 0
  /\ asked = {}
  /\ \A b \in Blobs : delivery[b] = {}
  /\ event = 0 /\ \A c \in Calls : call[c] = Idle
  /\ \A p \in Files : taken[p] = NoBlob

\* Once everything has come to rest, every file has a row, and the blob that its
\* row names, unless one of the named mishaps came before (main.ts:877, 1225,
\* 1283, 1350).
SettlesInAgreement == Settled /\ amiss = {} => file = row

\* A file that is not there is fetched in the end, whatever has been asked for
\* before, lost or delivered to other rows, unless the server did not answer or
\* the answer had no bytes: an empty file that is missing does not come
\* (main.ts:1240, wasm_client_v1.rs:827).
MissingFilesCome ==
  Settled /\ amiss \cap {"unanswered", "empty"} = {} =>
    \A p \in Files : file[p] = NoBlob => row[p] = NoBlob

\* No row names a blob that nobody has: a blob is sent before the row is made,
\* and one that cannot be sent keeps its row back.  The exceptions are the scan,
\* which makes the row all the same, a blob lost with its connection, and one
\* that the server does not take, of which nobody hears (main.ts:895, 1355, 1410,
\* server.rs:464, 474).
RowsHaveBlobs ==
  amiss \cap {"undelivered", "refused"} = {} =>
    \A p \in Files : row[p] \in stored \cup promised \cup sent \cup {NoBlob}
=============================================================================
