---------------------------- MODULE ManifestSync ----------------------------
(***************************************************************************)
(* The manifest channel of protocol v1: native clients (client_v1.rs)      *)
(* keep a replica of one Yrs document, the manifest, in step with the      *)
(* server's (server/server.rs) through the STEP_1 / STEP_2 / UPDATE        *)
(* exchange of v1/sync.rs.                                                 *)
(*                                                                         *)
(* A replica is a set of updates.  An update is what one scan of a vault   *)
(* writes: one freshly created node, so no update overwrites a field of    *)
(* another one (concurrent writes of one field: module NodeFields).  Yrs   *)
(* orders the updates of one Doc instance by a clock and integrates only   *)
(* a gap-free prefix of them; what lies behind a gap is kept aside until   *)
(* the gap is filled.                                                      *)
(***************************************************************************)
EXTENDS Naturals, Sequences, Functions

CONSTANTS
  Clients,      \* the actors: one vault, one process, one actor id each
  MaxUpdates,   \* bound: nodes ever created, over all clients
  MaxFaults,    \* bound: lost connections, restarts and failed saves
  IoMayFail     \* TRUE: writes to disk and calls of the database can fail

ASSUME ManifestSyncAssumption ==
  /\ MaxUpdates \in Nat
  /\ MaxFaults \in Nat
  /\ IoMayFail \in BOOLEAN

VARIABLES
  (* client process *)
  mem,        \* mem[c]: updates in the client's in-memory manifest
  disk,       \* disk[c]: updates in .syncline/manifest.bin
  process,    \* process[c]: which Doc instance; load_manifest makes a new one
  clock,      \* clock[c]: own updates made by this Doc instance
  lamport,    \* lamport[c]: Manifest.lamport
  (* one session of a client, both ends *)
  linked,     \* linked[c]: a session is past the version handshake
  scanned,    \* scanned[c]: did_initial_scan
  c2s, s2c,   \* frames under way, in order, in either direction
  subscribed, \* subscribed[c]: the connection has a forwarding task
  (* server *)
  smem,       \* updates in AppState.manifest
  db,         \* updates in the rows of table updates for __manifest__
  (* bounds and history *)
  created, faults,
  ioFailed    \* a save, or the server's read of its rows, has failed

clientVars  == <<mem, disk, process, clock, lamport>>
sessionVars == <<linked, scanned, c2s, s2c, subscribed>>
serverVars  == <<smem, db>>
boundVars   == <<created, faults, ioFailed>>
vars == <<clientVars, sessionVars, serverVars, boundVars>>

-----------------------------------------------------------------------------
(* Updates, replicas, frames *)

Update == [author : Clients, process : Nat, clock : Nat, lamport : Nat]
Id     == [author : Clients, process : Nat, clock : Nat]

IdOf(u) == [author |-> u.author, process |-> u.process, clock |-> u.clock]

\* What a Yrs Doc that received S has integrated: each Doc instance's
\* updates up to its first missing clock.
Integrated(S) ==
  {u \in S : \A k \in 1..u.clock : \E v \in S : IdOf(v) = [IdOf(u) EXCEPT !.clock = k]}

\* A state vector names exactly the integrated updates.
StateVector(S) == {IdOf(u) : u \in Integrated(S)}

\* encode_state_as_update_v1(sv): everything sv lacks, updates waiting
\* behind a gap included.
Diff(S, sv) == {u \in S : IdOf(u) \notin sv}

Frame == [kind : {"step1", "step2", "update"}, sv : SUBSET Id, updates : SUBSET Update]

\* (A bug for the runs to find: STEP_1 carries the state, not its vector.)
Step1WithState(S) == [kind |-> "step1", sv |-> S, updates |-> {}]

Step1(S)     == [kind |-> "step1",  sv |-> StateVector(S), updates |-> {}]
Step2(S, sv) == [kind |-> "step2",  sv |-> {}, updates |-> Diff(S, sv)]
Push(S)      == [kind |-> "update", sv |-> {}, updates |-> S]

\* (A bug: apply_update merges and does not look at the merged stamps.)
ObservedForgotten(l, S) == {l}

\* The lamport a manifest holding S moves to from l: Manifest::apply_update
\* looks at every integrated entry, not only at the ones that just came.
Observed(l, S) ==
  LET stamps == {l} \cup {u.lamport + 1 : u \in Integrated(S)}
  IN  {m \in stamps : \A k \in stamps : k <= m}

\* The node client c creates when its lamport stands at l.
NewUpdate(c, l) ==
  [author |-> c, process |-> process[c], clock |-> clock[c] + 1, lamport |-> l + 1]

\* What a scan that finds n new files (0 or 1) adds.
Found(c, l, n) == IF n = 0 THEN {} ELSE {NewUpdate(c, l)}

-----------------------------------------------------------------------------
Init ==
  /\ mem = [c \in Clients |-> {}]
  /\ disk = [c \in Clients |-> {}]
  /\ process = [c \in Clients |-> 0]
  /\ clock = [c \in Clients |-> 0]
  /\ lamport = [c \in Clients |-> 0]
  /\ linked = [c \in Clients |-> FALSE]
  /\ scanned = [c \in Clients |-> FALSE]
  /\ c2s = [c \in Clients |-> <<>>]
  /\ s2c = [c \in Clients |-> <<>>]
  /\ subscribed = [c \in Clients |-> FALSE]
  /\ smem = {}
  /\ db = {}
  /\ created = 0
  /\ faults = 0
  /\ ioFailed = FALSE

-----------------------------------------------------------------------------
(* The client *)

\* run_session up to the loop: handshake, then STEP_1 with our state vector.
Connect(c) ==
  /\ ~linked[c]
  /\ linked' = [linked EXCEPT ![c] = TRUE]
  /\ c2s' = [c2s EXCEPT ![c] = <<Step1(mem[c])>>]
  /\ UNCHANGED <<clientVars, scanned, s2c, subscribed, serverVars, boundVars>>

\* A scan that finds n new files (0 or 1) in a manifest holding `known`
\* with lamport l: it creates the node, saves manifest.bin, and only then
\* sends what it added; a failed save returns before the send.
\* `before` is what manifest.bin held, `reply` what was sent before.
Scan(c, known, l, n, saveOk, before, reply) ==
  LET all   == known \cup Found(c, l, n)
      sends == n = 1 /\ saveOk
  IN  /\ created + n <= MaxUpdates
      /\ created' = created + n
      /\ mem' = [mem EXCEPT ![c] = all]
      /\ disk' = [disk EXCEPT ![c] = IF sends THEN all ELSE before]
      /\ clock' = [clock EXCEPT ![c] = @ + n]
      /\ lamport' = [lamport EXCEPT ![c] = l + n]
      /\ c2s' = [c2s EXCEPT ![c] =
                   @ \o reply \o IF sends THEN <<Push(Diff(all, StateVector(known)))>> ELSE <<>>]

\* A failed save costs one fault and is only logged.
SaveOutcome(ok) ==
  /\ ioFailed' = (ioFailed \/ ~ok)
  /\ IF ok THEN UNCHANGED faults
           ELSE IoMayFail /\ faults < MaxFaults /\ faults' = faults + 1

\* handle_manifest_payload on the client's next frame: a STEP_1 is answered
\* with STEP_2, anything else is applied and observed.
Learned(c) == mem[c] \cup Head(s2c[c]).updates

Replies(c) ==
  IF Head(s2c[c]).kind = "step1" THEN <<Step2(mem[c], Head(s2c[c]).sv)>> ELSE <<>>

LamportAfter(c) ==
  IF Head(s2c[c]).kind = "step1" THEN {lamport[c]} ELSE Observed(lamport[c], Learned(c))

\* The MSG_MANIFEST_SYNC arm of the session loop: handle the payload, save,
\* and run the initial scan on the session's first manifest frame, whichever
\* frame that is.
ReceiveManifest(c) ==
  /\ linked[c]
  /\ s2c[c] # <<>>
  /\ \E l \in LamportAfter(c) :
     \E n \in IF scanned[c] THEN {0} ELSE 0..1 :
     \E applyOk, scanOk \in BOOLEAN :
        /\ n = 0 => scanOk
        /\ Scan(c, Learned(c), l, n, scanOk, IF applyOk THEN Learned(c) ELSE disk[c], Replies(c))
        /\ SaveOutcome(applyOk /\ scanOk)
  /\ scanned' = [scanned EXCEPT ![c] = TRUE]
  /\ s2c' = [s2c EXCEPT ![c] = Tail(@)]
  /\ UNCHANGED <<process, linked, subscribed, serverVars>>

\* A scan of the watcher or of the timer; both wait for the initial scan.
RescanVault(c) ==
  /\ linked[c]
  /\ scanned[c]
  /\ \E ok \in BOOLEAN :
        /\ Scan(c, mem[c], lamport[c], 1, ok, disk[c], <<>>)
        /\ SaveOutcome(ok)
  /\ UNCHANGED <<process, linked, scanned, s2c, subscribed, serverVars>>

-----------------------------------------------------------------------------
(* The server.  Handlers of one connection run one after the other; the    *)
(* manifest lock makes each of the three below atomic against the others.  *)

\* ensure_subscribed, which runs before the lock is taken.  Later calls add
\* more tasks, which only repeat what this one forwards.
Subscribe(c) ==
  /\ linked[c]
  /\ c2s[c] # <<>>
  /\ ~subscribed[c]
  /\ subscribed' = [subscribed EXCEPT ![c] = TRUE]
  /\ UNCHANGED <<clientVars, linked, scanned, c2s, s2c, serverVars, boundVars>>

\* (A bug: the server answers and does not ask back.)
AnswerStep1Only(c) ==
  /\ subscribed[c]
  /\ c2s[c] # <<>>
  /\ Head(c2s[c]).kind = "step1"
  /\ s2c' = [s2c EXCEPT ![c] = Append(@, Step2(smem, Head(c2s[c]).sv))]
  /\ c2s' = [c2s EXCEPT ![c] = Tail(@)]
  /\ UNCHANGED <<clientVars, linked, scanned, subscribed, serverVars, boundVars>>

\* STEP_1: answer with STEP_2, then ask back with a STEP_1 of our own.
AnswerStep1(c) ==
  /\ subscribed[c]
  /\ c2s[c] # <<>>
  /\ Head(c2s[c]).kind = "step1"
  /\ s2c' = [s2c EXCEPT ![c] = @ \o <<Step2(smem, Head(c2s[c]).sv), Step1(smem)>>]
  /\ c2s' = [c2s EXCEPT ![c] = Tail(@)]
  /\ UNCHANGED <<clientVars, linked, scanned, subscribed, serverVars, boundVars>>

\* One broadcast, forwarded to every subscriber but the sender.  (The ring
\* buffer between the two, and what a task does that lags behind it, is in
\* module ContentRelay: ensure_subscribed serves both kinds of documents.)
Broadcast(from, S) ==
  s2c' = [d \in Clients |->
            IF subscribed[d] /\ d # from THEN Append(s2c[d], Push(S)) ELSE s2c[d]]

\* (A bug: the broadcast goes out whether or not the row was appended.)
MergeUpdateUnsaved(c) ==
  /\ subscribed[c]
  /\ c2s[c] # <<>>
  /\ Head(c2s[c]).kind # "step1"
  /\ LET S == Head(c2s[c]).updates
     IN  /\ smem' = smem \cup S
         /\ Broadcast(c, S)
         /\ \/ db' = db \cup S /\ SaveOutcome(TRUE)
            \/ db' = db /\ SaveOutcome(FALSE)
  /\ c2s' = [c2s EXCEPT ![c] = Tail(@)]
  /\ UNCHANGED <<clientVars, linked, scanned, subscribed, created>>

\* STEP_2 or UPDATE: apply in memory, append the row, broadcast.  A failed
\* append returns before the broadcast and leaves memory ahead of the rows.
MergeUpdate(c) ==
  /\ subscribed[c]
  /\ c2s[c] # <<>>
  /\ Head(c2s[c]).kind # "step1"
  /\ LET S == Head(c2s[c]).updates
     IN  /\ smem' = smem \cup S
         /\ \/ /\ db' = db \cup S
               /\ Broadcast(c, S)
               /\ SaveOutcome(TRUE)
            \/ /\ SaveOutcome(FALSE)
               /\ UNCHANGED <<db, s2c>>
  /\ c2s' = [c2s EXCEPT ![c] = Tail(@)]
  /\ UNCHANGED <<clientVars, linked, scanned, subscribed, created>>

-----------------------------------------------------------------------------
(* Faults *)

\* Sessions end with everything that belonged to them: did_initial_scan,
\* the socket's frames, the server's forwarding task.
EndSessions(gone) ==
  /\ linked' = [c \in Clients |-> linked[c] /\ c \notin gone]
  /\ scanned' = [c \in Clients |-> scanned[c] /\ c \notin gone]
  /\ c2s' = [c \in Clients |-> IF c \in gone THEN <<>> ELSE c2s[c]]
  /\ s2c' = [c \in Clients |-> IF c \in gone THEN <<>> ELSE s2c[c]]
  /\ subscribed' = [c \in Clients |-> subscribed[c] /\ c \notin gone]

Fault == faults < MaxFaults /\ faults' = faults + 1 /\ UNCHANGED created

\* The transport fails; run_client keeps the manifest and reconnects.
LoseConnection(c) ==
  /\ linked[c]
  /\ Fault
  /\ EndSessions({c})
  /\ UNCHANGED <<clientVars, serverVars, ioFailed>>

\* The client process restarts: load_manifest reads manifest.bin into a new
\* Doc and starts the lamport at zero.
RestartClient(c) ==
  /\ Fault
  /\ mem' = [mem EXCEPT ![c] = disk[c]]
  /\ process' = [process EXCEPT ![c] = @ + 1]
  /\ clock' = [clock EXCEPT ![c] = 0]
  /\ lamport' = [lamport EXCEPT ![c] = 0]
  /\ EndSessions({c})
  /\ UNCHANGED <<disk, serverVars, ioFailed>>

\* The server process restarts: hydrate_manifest applies every row, or
\* none when it cannot read them.
RestartServer ==
  /\ Fault
  /\ \/ smem' = db /\ UNCHANGED ioFailed
     \/ IoMayFail /\ smem' = {} /\ ioFailed' = TRUE
  /\ EndSessions(Clients)
  /\ UNCHANGED <<clientVars, db>>

-----------------------------------------------------------------------------
Next ==
  \/ \E c \in Clients :
        \/ Connect(c) \/ ReceiveManifest(c) \/ RescanVault(c)
        \/ Subscribe(c) \/ AnswerStep1(c) \/ MergeUpdate(c)
        \/ LoseConnection(c) \/ RestartClient(c)
  \/ RestartServer

Spec == Init /\ [][Next]_vars

\* run_client reconnects for ever, every task of the server runs until its
\* connection ends, and the session loop reads whatever is there.
Fairness ==
  \A c \in Clients :
    /\ WF_vars(Connect(c))
    /\ WF_vars(ReceiveManifest(c))
    /\ WF_vars(Subscribe(c))
    /\ WF_vars(AnswerStep1(c))
    /\ WF_vars(MergeUpdate(c))

FairSpec == Spec /\ Fairness

-----------------------------------------------------------------------------
(* Properties *)

\* The types of the variables.
TypeOK ==
  /\ mem \in [Clients -> SUBSET Update]
  /\ disk \in [Clients -> SUBSET Update]
  /\ process \in [Clients -> Nat]
  /\ clock \in [Clients -> Nat]
  /\ lamport \in [Clients -> Nat]
  /\ linked \in [Clients -> BOOLEAN]
  /\ scanned \in [Clients -> BOOLEAN]
  /\ c2s \in [Clients -> Seq(Frame)]
  /\ s2c \in [Clients -> Seq(Frame)]
  /\ subscribed \in [Clients -> BOOLEAN]
  /\ smem \in SUBSET Update
  /\ db \in SUBSET Update
  /\ created \in Nat
  /\ faults \in Nat
  /\ ioFailed \in BOOLEAN

\* Whatever a client has been told by broadcast survives a server restart:
\* no UPDATE under way to a client carries an update missing from the rows
\* (handle_manifest_sync saves before it broadcasts, and returns when the
\* save fails).
BroadcastsAreDurable ==
  \A c \in Clients : \A f \in Range(s2c[c]) : f.kind = "update" => f.updates \subseteq db

\* Once a session has scanned, the client's lamport is at least every stamp
\* it can read in its manifest, so that its next write wins over all it has
\* seen, although the counter restarts from zero with the process.
LamportCoversManifest ==
  \A c \in Clients : scanned[c] => \A u \in Integrated(mem[c]) : u.lamport <= lamport[c]

Known == smem \cup db \cup UNION {mem[c] \cup disk[c] : c \in Clients}

\* No two nodes carry the same (lamport, actor) stamp, which projection
\* orders colliding paths by, as long as no save or load failed.
StampsAreUnique ==
  ~ioFailed => \A u, v \in Known : u.author = v.author /\ u.lamport = v.lamport => u = v

InStep ==
  \A c \in Clients : mem[c] = smem /\ disk[c] = smem /\ db = smem /\ Integrated(smem) = smem

\* Once faults and edits end, every client, its manifest.bin, the server and
\* its rows hold the same updates and integrate all of them, whatever was
\* lost, unless a save (or the server's load) failed on the way.
ConvergesUnlessIoFails == <>[](ioFailed \/ InStep)
=============================================================================
