----------------------------- MODULE PluginVault ----------------------------
(***************************************************************************)
(* How the Obsidian plugin keeps the vault's files at the paths of the     *)
(* manifest (obsidian-plugin/main.ts): the single-flighted reconcile, the  *)
(* scan at connect, the handlers of the vault's create, delete and rename  *)
(* events, and the suppression of their echoes.                            *)
(*                                                                         *)
(* One session is modelled, from the end of its handshake.  A step of the  *)
(* plugin ends where the code awaits something: between two steps the      *)
(* server's frames, the user's actions and other handlers get their turn.  *)
(* Every file is a note; a file's text is the name of the node whose text  *)
(* it shows.                                                               *)
(***************************************************************************)
EXTENDS Naturals, FiniteSets, FiniteSetsExt, Functions

CONSTANTS
  Nodes,               \* ids of the manifest
  NoNode,
  N,                   \* paths 1..N, in the order of the projection's rows
  Runs,                \* room for runs of reconcileProjection
  NoFile,              \* there is no file
  Blank,               \* a placeholder, still empty
  Draft,               \* text the user wrote in a new note
  MaxFrames,           \* bound: manifest frames from the server
  MaxUser,             \* bound: the user's actions
  MaxAmiss             \* bound: mishaps after which neither goes on

Paths == 1..N

ASSUME PluginVaultAssumption ==
  /\ N \in Nat
  /\ NoNode \notin Nodes
  /\ Runs # {}
  /\ {NoFile, Blank, Draft} \cap Nodes = {}
  /\ NoFile # Blank /\ Blank # Draft /\ NoFile # Draft
  /\ MaxFrames \in Nat
  /\ MaxUser \in Nat
  /\ MaxAmiss \in Nat

VARIABLES
  live,       \* the manifest's projection now: path -> node
  last,       \* lastProjection
  run,        \* run[r]: a run of reconcileProjectionInner, or idle
  pending,    \* reconcilePending
  file,       \* the vault: path -> text
  subscribed, \* subscribedContent
  due,        \* nodes whose STEP_2 has not come
  connecting, \* connect() has not called reconcileProjection yet
  scanning,   \* files scanLocalVault has yet to read
  ingesting,  \* number of ingestNewFile calls that read a path's file
  ignore,     \* ignoreEvents, for creations, deletions and renames
  newest,     \* history: versions of the manifest seen by the client
  served,     \* history: the version lastProjection was read from
  amiss,      \* history: what has gone past the plugin (see Mishaps)
  frames, acts

runVars == <<last, run, pending, served>>
readVars == <<connecting, scanning, ingesting>>
boundVars == <<frames, acts>>
vars == <<live, newest, runVars, file, subscribed, due, readVars, ignore, amiss, boundVars>>

Projection == {f \in [Paths -> Nodes \cup {NoNode}] :
                 \A p, q \in Paths : f[p] = f[q] /\ f[p] # NoNode => p = q}

NothingProjected == [p \in Paths |-> NoNode]

Texts == Nodes \cup {NoFile, Blank, Draft}

\* The places where the code lets the vault and the manifest part:
\*   swallowed   a user's event met the suppression of an echo
\*   stale       a user's event or a text was taken by rows that were not the
\*               manifest's any more
\*   blocked     a rename met an existing file
\*   mistaken    a removal or rename met a file with another text than the node's
\*   overwritten a node's text was written over a note not yet ingested, or
\*               over another node's
\*   missed      a node's text came when lastProjection had no row for it
\*   unseen      a row changed before the plugin knew it, or a node came back
\*               before the plugin knew that it was gone
Mishaps == {"swallowed", "stale", "blocked", "mistaken", "overwritten", "missed",
            "unseen"}

Phases == {"idle", "start", "remove", "add", "end"}

IdleRun    == [phase |-> "idle", at |-> 0, snap |-> NothingProjected, seen |-> 0]
StartedRun == [IdleRun EXCEPT !.phase = "start"]

RunType == [phase : Phases, at : 0..N, snap : Projection, seen : Nat]

TypeOK ==
  /\ live \in Projection
  /\ last \in Projection
  /\ run \in [Runs -> RunType]
  /\ pending \in BOOLEAN
  /\ file \in [Paths -> Texts]
  /\ subscribed \subseteq Nodes
  /\ due \subseteq Nodes
  /\ connecting \in BOOLEAN
  /\ scanning \subseteq Paths
  /\ ingesting \in [Paths -> Nat]
  /\ ignore \in [{"create", "delete", "rename"} -> SUBSET Paths]
  /\ newest \in Nat
  /\ served \in Nat
  /\ amiss \subseteq Mishaps
  /\ frames \in Nat
  /\ acts \in Nat

-----------------------------------------------------------------------------
(* Queries *)

Rows(f) == {p \in Paths : f[p] # NoNode}

PathsOf(f, n) == {p \in Paths : f[p] = n}

\* (A bug for the runs to find: runningReconcile is not looked at.)
RunningEverywhere == \A r \in Runs : run[r].phase # "idle"

Running == \E r \in Runs : run[r].phase # "idle"

Calm == Cardinality(amiss) < MaxAmiss

\* Nodes with an id nobody has seen.
Unused(n) ==
  /\ n \notin Range(live) \cup Range(last) \cup subscribed
  /\ \A p \in Paths : file[p] # n
  /\ \A r \in Runs : n \notin Range(run[r].snap)

\* The texts the vault may hold when the plugin starts.
Init ==
  /\ live \in Projection
  /\ last = NothingProjected
  /\ run = [r \in Runs |-> IdleRun]
  /\ pending = FALSE
  /\ file \in [Paths -> Texts]
  /\ \A p \in Paths : file[p] \in {NoFile, IF live[p] = NoNode THEN Draft ELSE live[p]}
  /\ subscribed = {}
  /\ due = {}
  /\ connecting = TRUE
  /\ scanning = {p \in Paths : file[p] # NoFile /\ live[p] = NoNode}
  /\ ingesting = [p \in Paths |-> 0]
  /\ ignore = [kind \in {"create", "delete", "rename"} |-> {}]
  /\ newest = 1 /\ served = 0
  /\ amiss = {}
  /\ frames = 0 /\ acts = 0

-----------------------------------------------------------------------------
(* reconcileProjection *)

\* Start a run, or have the running one repeat itself.
CallReconcile ==
  IF Running
    THEN pending' = TRUE /\ UNCHANGED run
    ELSE LET r == CHOOSE r \in Runs : run[r].phase = "idle"
         IN run' = [run EXCEPT ![r] = StartedRun] /\ UNCHANGED pending

\* The projection becomes f, by a frame or an operation of the client.
Reproject(f) ==
  /\ live' = f
  /\ newest' = newest + 1
  /\ CallReconcile
  /\ UNCHANGED <<last, served>>

\* (A bug for the runs to find: nodes that moved are left alone.)
LeavingForGood(snap, p) == {q \in Rows(last) : q >= p /\ last[q] \notin Range(snap)}

\* The rows of lastProjection, from path p on, whose node is gone or moved.
Leaving(snap, p) == {q \in Rows(last) : q >= p /\ snap[q] # last[q]}

\* The rows, from path p on, without a file.
Missing(snap, files, p) == {q \in Rows(snap) : q >= p /\ files[q] = NoFile}

\* (A bug for the runs to find: off by one.)
GotoNext(r, me, phase, p) == run' = [run EXCEPT ![r] = [me EXCEPT !.phase = phase, !.at = p + 1]]

\* The next await of run r is in this phase, at path p.
Goto(r, me, phase, p) == run' = [run EXCEPT ![r] = [me EXCEPT !.phase = phase, !.at = p]]

\* The loop over the new rows from path p on, up to the next placeholder to
\* create; the rows on the way are subscribed.
ContinueAdding(r, me, files, subs, p) ==
  LET missing == Missing(me.snap, files, p)
      passed  == {q \in Rows(me.snap) : q >= p /\ \A m \in missing : q < m}
      joined  == {me.snap[q] : q \in passed} \ subs
  IN /\ subscribed' = subs \cup joined
     /\ due' = (due \cap subs) \cup joined
     /\ IF missing = {} THEN Goto(r, me, "end", 0) ELSE Goto(r, me, "add", Min(missing))

\* (A bug for the runs to find: rows to create are published by the next run.)
PublishLate(r, me, files, subs) ==
  /\ IF Missing(me.snap, files, 1) = {}
       THEN last' = me.snap /\ served' = me.seen
       ELSE UNCHANGED <<last, served>>
  /\ ContinueAdding(r, me, files, subs, 1)

\* lastProjection is replaced before the loop over the new rows.
Publish(r, me, files, subs) ==
  /\ last' = me.snap
  /\ served' = me.seen
  /\ ContinueAdding(r, me, files, subs, 1)

\* The loop over the old rows from path p on, up to the next removal or
\* rename.
ContinueRemoving(r, me, files, subs, p) ==
  LET leaving == Leaving(me.snap, p)
  IN IF leaving = {}
       THEN Publish(r, me, files, subs)
       ELSE /\ Goto(r, me, "remove", Min(leaving))
            /\ subscribed' = subs
            /\ due' = due \cap subs
            /\ UNCHANGED <<last, served>>

\* The live projection is read, and the passes over it begin.
StartPass(r) ==
  /\ run[r].phase = "start"
  /\ pending' = FALSE
  /\ ContinueRemoving(r, [run[r] EXCEPT !.snap = live, !.seen = newest], file, subscribed, 1)
  /\ UNCHANGED <<live, newest, file, readVars, ignore, amiss, boundVars>>

\* The file at p, where node n was, shows something else.
Foreign(p, n) == file[p] \notin {NoFile, Blank, n}

\* (A bug for the runs to find: the subscription of a node outlives it.)
StaySubscribed(n) == subscribed

Unsubscribed(n) == subscribed \ {n}

\* removeLocalFile: the node is gone.
RemoveLocalFile(r) ==
  LET p == run[r].at
      n == last[p]
      files == [file EXCEPT ![p] = NoFile]
  IN /\ run[r].phase = "remove"
     /\ n \notin Range(run[r].snap)
     /\ file' = files
     /\ ignore' = [ignore EXCEPT !["delete"] = @ \cup {q \in {p} : file[p] # NoFile}]
     /\ amiss' = amiss \cup {m \in {"mistaken"} : Foreign(p, n)}
     /\ ContinueRemoving(r, run[r], files, Unsubscribed(n), p + 1)
     /\ UNCHANGED <<live, newest, pending, readVars, boundVars>>

\* What is being read moves with its file.
Follow(p, q) ==
  /\ scanning' = IF p \in scanning THEN (scanning \ {p}) \cup {q} ELSE scanning
  /\ ingesting' = [ingesting EXCEPT ![q] = @ + ingesting[p], ![p] = 0]
  /\ UNCHANGED connecting

\* renameLocalFile: the node moved, and the file is moved to its new path
\* unless there is none, or one in the way.
RenameLocalFile(r) ==
  LET p == run[r].at
      n == last[p]
      moved == file[p] # NoFile
  IN /\ run[r].phase = "remove"
     /\ \E q \in PathsOf(run[r].snap, n) :
          LET free  == file[q] = NoFile
              files == IF moved /\ free THEN [file EXCEPT ![q] = file[p], ![p] = NoFile] ELSE file
          IN /\ file' = files
             /\ IF moved /\ free THEN Follow(p, q) ELSE UNCHANGED readVars
             /\ ignore' = [ignore EXCEPT !["rename"] = @ \cup {x \in {p, q} : moved}]
             /\ amiss' = amiss \cup {m \in {"blocked"} : moved /\ ~free}
                               \cup {m \in {"mistaken"} : Foreign(p, n)}
             /\ ContinueRemoving(r, run[r], files, subscribed, p + 1)
     /\ UNCHANGED <<live, newest, pending, boundVars>>

\* A placeholder is created, unless a file has appeared meanwhile.
CreatePlaceholder(r) ==
  LET p == run[r].at
      files == [file EXCEPT ![p] = IF @ = NoFile THEN Blank ELSE @]
  IN /\ run[r].phase = "add"
     /\ file' = files
     /\ ignore' = [ignore EXCEPT !["create"] = @ \cup {p}]
     /\ ContinueAdding(r, run[r], files, subscribed, p)
     /\ UNCHANGED <<live, newest, last, served, pending, readVars, amiss, boundVars>>

\* (A bug for the runs to find: a request during the run is forgotten.)
EndOnce(r) ==
  /\ run[r].phase = "end"
  /\ run' = [run EXCEPT ![r] = IdleRun]
  /\ UNCHANGED <<live, newest, last, served, pending, file, subscribed, due, readVars, ignore, amiss, boundVars>>

\* The pass is over: once more, if there was another request.
EndPass(r) ==
  /\ run[r].phase = "end"
  /\ run' = [run EXCEPT ![r] = IF pending THEN StartedRun ELSE IdleRun]
  /\ UNCHANGED <<live, newest, last, served, pending, file, subscribed, due, readVars, ignore, amiss, boundVars>>

-----------------------------------------------------------------------------
(* From the vault to the manifest *)

\* Where a new node for the file at p is projected: at p, or at a path of its
\* own when there is a rival, whose stamp is the older one.
Placements(p) == IF live[p] = NoNode THEN {p} ELSE Paths \ Rows(live)

\* The file at p has been read: create a node for it, seeded with its text.
CreateNode(p) ==
  \E n \in Nodes :
    /\ Unused(n)
    /\ \E q \in Placements(p) : Reproject([live EXCEPT ![q] = n])
    /\ file' = [file EXCEPT ![p] = IF @ = Draft THEN n ELSE @]
    /\ subscribed' = subscribed \cup {n}
    /\ due' = due \cup {n}

\* A file that is gone cannot be read.
ReadFile(p) ==
  IF file[p] = NoFile
    THEN UNCHANGED <<live, newest, runVars, file, subscribed, due>>
    ELSE CreateNode(p)

\* scanLocalVault goes on with a file that the manifest lacked at its start.
ScanFile(p) ==
  /\ p \in scanning
  /\ scanning' = scanning \ {p}
  /\ ReadFile(p)
  /\ UNCHANGED <<connecting, ingesting, ignore, amiss, boundVars>>

\* connect() calls reconcileProjection after the scan.
ScanDone ==
  /\ connecting /\ scanning = {}
  /\ connecting' = FALSE
  /\ CallReconcile
  /\ UNCHANGED <<live, newest, last, served, file, subscribed, due, scanning, ingesting, ignore, amiss, boundVars>>

\* ingestNewFile goes on after reading the file.
Ingest(p) ==
  /\ ingesting[p] > 0
  /\ ingesting' = [ingesting EXCEPT ![p] = @ - 1]
  /\ ReadFile(p)
  /\ UNCHANGED <<connecting, scanning, ignore, amiss, boundVars>>

\* A run has read row p, and left its file as the row was: lastProjection has
\* another node there until the run publishes.
Replaced(p) ==
  \E r \in Runs : run[r].phase = "remove" /\ p < run[r].at /\ run[r].snap[p] # last[p]

\* The node at p that lastProjection has, or is about to get.
Known(p, n) ==
  \/ \E r \in Runs : run[r].phase = "remove" /\ run[r].snap[p] = n
  \/ last[p] = n /\ \A r \in Runs : run[r].phase # "remove"

\* Row p changes before the plugin knows it, or a node comes back before the
\* plugin knows that it was gone.
Unseen(f, p) ==
  /\ f[p] # live[p]
  /\ \/ live[p] # NoNode /\ file[p] # NoFile /\ ~Known(p, live[p])
     \/ f[p] \in Range(last) \ (Range(live) \cup {NoNode})

\* A frame of the server; it need not change the projection.
Frame(f) ==
  /\ frames < MaxFrames /\ Calm
  /\ frames' = frames + 1
  /\ Reproject(f)
  /\ amiss' = amiss \cup {m \in {"unseen"} : \E p \in Paths : Unseen(f, p)}
  /\ UNCHANGED <<file, subscribed, due, readVars, ignore, acts>>

\* onContentChanged: the text of node n is written to its row's path.
ReceiveText(n) ==
  /\ n \in due
  /\ due' = due \ {n}
  /\ IF n \in Range(last)
       THEN \E p \in PathsOf(last, n) :
              /\ file' = [file EXCEPT ![p] = n]
              /\ ignore' = [ignore EXCEPT !["create"] = @ \cup {q \in {p} : file[p] = NoFile}]
              /\ amiss' = amiss \cup {m \in {"overwritten"} : file[p] \notin {NoFile, Blank, n} \cup due}
                                \cup {m \in {"stale"} : Replaced(p)}
       ELSE /\ amiss' = amiss \cup {"missed"}
            /\ UNCHANGED <<file, ignore>>
  /\ UNCHANGED <<live, newest, runVars, subscribed, readVars, boundVars>>

\* The timer that ends a suppression; only another event can tell.
IgnoreEnds(kind, p) ==
  /\ acts < MaxUser /\ Calm
  /\ p \in ignore[kind]
  /\ ignore' = [ignore EXCEPT ![kind] = @ \ {p}]
  /\ UNCHANGED <<live, newest, runVars, file, subscribed, due, readVars, amiss, boundVars>>

-----------------------------------------------------------------------------
(* The user and the handlers of the vault's events *)

Act == acts < MaxUser /\ Calm /\ acts' = acts + 1 /\ UNCHANGED frames

Unchanged == UNCHANGED <<live, newest, runVars, subscribed, due>>

\* ingestNewFile up to its await: a path of the manifest is left alone.
BeginIngest(p) == IF live[p] = NoNode THEN [ingesting EXCEPT ![p] = @ + 1] ELSE ingesting

\* onFileCreate
UserCreates(p) ==
  /\ file[p] = NoFile
  /\ Act
  /\ file' = [file EXCEPT ![p] = Draft]
  /\ IF p \in ignore["create"]
       THEN amiss' = amiss \cup {"swallowed"} /\ UNCHANGED ingesting
       ELSE ingesting' = BeginIngest(p) /\ UNCHANGED amiss
  /\ Unchanged
  /\ UNCHANGED <<connecting, scanning, ignore>>

\* onFileDelete: the row is looked up in lastProjection, the node that is
\* deleted in the live projection.
UserDeletes(p) ==
  /\ file[p] # NoFile
  /\ Act
  /\ file' = [file EXCEPT ![p] = NoFile]
  /\ CASE p \in ignore["delete"] ->
            amiss' = amiss \cup {"swallowed"} /\ Unchanged
       [] p \notin ignore["delete"] /\ (last[p] = NoNode \/ live[p] = NoNode) ->
            /\ amiss' = amiss \cup {m \in {"stale"} : file[p] \in Range(live)}
            /\ Unchanged
       [] OTHER ->
            /\ Reproject([live EXCEPT ![p] = NoNode])
            /\ subscribed' = Unsubscribed(last[p])
            /\ due' = due \ {last[p]}
            /\ amiss' = amiss \cup {m \in {"stale"} : file[p] \in Range(live) \ {live[p]}}
  /\ UNCHANGED <<readVars, ignore>>

\* onFileRename: likewise; a file without a row is new at its new path.
UserRenames(p, q) ==
  /\ file[p] # NoFile /\ file[q] = NoFile
  /\ Act
  /\ file' = [file EXCEPT ![q] = file[p], ![p] = NoFile]
  /\ CASE {p, q} \cap ignore["rename"] # {} ->
            amiss' = amiss \cup {"swallowed"} /\ Unchanged /\ Follow(p, q)
       [] {p, q} \cap ignore["rename"] = {} /\ last[p] = NoNode ->
            /\ scanning' = IF p \in scanning THEN (scanning \ {p}) \cup {q} ELSE scanning
            /\ ingesting' = [BeginIngest(q) EXCEPT ![q] = @ + ingesting[p], ![p] = 0]
            /\ amiss' = amiss \cup {m \in {"stale"} : file[p] \in Range(live) \cup {Blank}}
            /\ Unchanged /\ UNCHANGED connecting
       [] OTHER ->
            /\ IF live[p] # NoNode /\ live[q] = NoNode
                 THEN /\ Reproject([live EXCEPT ![q] = live[p], ![p] = NoNode])
                      /\ UNCHANGED <<subscribed, due>>
                      /\ amiss' = amiss \cup {m \in {"stale"} : file[p] \in Range(live) \ {live[p]}}
                 ELSE Unchanged /\ amiss' = amiss \cup {"stale"}
            /\ Follow(p, q)
  /\ UNCHANGED ignore

-----------------------------------------------------------------------------
Reconcile(r) ==
  StartPass(r) \/ RemoveLocalFile(r) \/ RenameLocalFile(r) \/ CreatePlaceholder(r) \/ EndPass(r)

Read(p) == ScanFile(p) \/ Ingest(p)

Next ==
  \/ \E r \in Runs : Reconcile(r)
  \/ \E p \in Paths : Read(p) \/ UserCreates(p) \/ UserDeletes(p)
  \/ \E p, q \in Paths : UserRenames(p, q)
  \/ \E kind \in {"create", "delete", "rename"}, p \in Paths : IgnoreEnds(kind, p)
  \/ \E f \in Projection : Frame(f)
  \/ \E n \in Nodes : ReceiveText(n)
  \/ ScanDone

Spec == Init /\ [][Next]_vars

-----------------------------------------------------------------------------
(* Properties *)

\* Nothing is under way.
Settled ==
  /\ ~Running /\ ~connecting
  /\ scanning = {} /\ \A p \in Paths : ingesting[p] = 0
  /\ due = {}

\* Every file is where the manifest says, with its own text, and no other is.
Agrees ==
  /\ last = live
  /\ \A p \in Paths : file[p] = (IF live[p] = NoNode THEN NoFile ELSE live[p])

\* However the server's frames, the user's actions and the plugin's own
\* steps interleave, the vault ends up as the manifest says, unless one of
\* the named mishaps occurred.
SettlesInAgreement == Settled /\ amiss = {} => Agrees

\* A text that comes finds its row: lastProjection is published before the
\* nodes of a projection are subscribed.
RowsBeforeTexts ==
  \A n \in due \cap Range(live) :
    n \in Range(last) \/ pending \/ \E r \in Runs : run[r].phase \in {"start", "remove"}

\* The text of every placeholder is on its way: an empty note stays only
\* after a mishap.  (What the user types there replaces the node's text.)
BlanksAreAwaited ==
  amiss = {} => \A p \in Paths : file[p] = Blank =>
    last[p] \in due \/ Running

\* A projection that has not been published is going to be: a request that
\* meets a run is kept for it, whatever the run is doing.
RequestsAreServed == served < newest => Running \/ connecting

\* reconcileProjection never replaces the projection it has published by an
\* older one: it implements LatestWins.
Follows == INSTANCE LatestWins WITH newest <- newest, served <- served
PublishesInOrder == Follows!Spec
=============================================================================
