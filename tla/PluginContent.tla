---------------------------- MODULE PluginContent ---------------------------
(***************************************************************************)
(* How the Obsidian plugin carries the text of its notes between their     *)
(* files, the WASM client's content documents, the persisted states and    *)
(* the server (obsidian-plugin/main.ts, wasm_client_v1.rs).                *)
(*                                                                         *)
(* Notes keep their paths here.  A text is the set of the edits that can   *)
(* be read in it.  A step ends where the code awaits something.  The       *)
(* timers of the debounce (300 ms) and of the suppression (1000 ms) keep   *)
(* their order only: a suppression does not run out on an event that was   *)
(* waiting for the debounce when its timer was set.                        *)
(***************************************************************************)
EXTENDS Naturals, FiniteSets

CONSTANTS
  Nodes,      \* text nodes, each at a path of its own
  NoNode,
  Edits,      \* what may be typed, here or elsewhere, each once
  Tasks,      \* room for calls of onContentChanged
  MaxBreaks,  \* bound: connections lost or closed
  MaxBroken,  \* bound: notes there are when a connection breaks
  MaxAmiss    \* bound: mishaps after which no other comes

ASSUME PluginContentAssumption ==
  /\ NoNode \notin Nodes
  /\ MaxBreaks \in Nat
  /\ MaxBroken \in Nat
  /\ MaxAmiss \in Nat

VARIABLES
  server,     \* server[n]: the server's document
  link,       \* this.client, and its socket; "lost": broken, noticed or not
  tracked,    \* nodes with a document in the current WASM client
  doc,        \* doc[n]: that document
  queued,     \* pending_step1
  due,        \* nodes whose STEP_1 was sent and STEP_2 has not come
  listed,     \* nodes in the manifest
  rows,       \* nodes in lastProjection
  asked,      \* a reconcile is due
  subscribed, \* subscribedContent
  loading,    \* loading[n]: subscribeToContent calls in loadContentState
  saved,      \* saved[n]: the persisted state
  saving,     \* nodes with a persistContentState call that awaits
  file,       \* file[n]: the text in the vault
  task,       \* calls of onContentChanged that await
  event,      \* the file the debounced onFileModify will be called with
  handling,   \* nodes whose file a call of onFileModify reads
  ignoring,   \* ignoreEvents.modify
  timers,     \* timers[n]: the timers that will end ignoring n
  (* bounds and history *)
  made,       \* edits made
  typed,      \* nodes the user has typed in
  breaks,
  amiss       \* see Mishaps

clientVars  == <<link, tracked, doc, queued, due>>
rowVars     == <<listed, rows, asked>>
subVars     == <<subscribed, loading>>
stateVars   == <<saved, saving>>
vaultVars   == <<file, event>>
echoVars    == <<ignoring, timers>>
vars == <<server, clientVars, rowVars, subVars, stateVars, vaultVars, task, handling,
          echoVars, made, typed, breaks, amiss>>

\* A document counts, for every edit, how often it was put in and taken out.
Documents == [Edits -> Nat]
Empty     == [e \in Edits |-> 0]
Texts     == SUBSET Edits

Links == {"none", "opening", "up", "lost"}

\* Where the plugin lets a text and its document part, or two documents:
\*   overwritten  a file with an edit that no document has was written over
\*   outrun       a text older than the document was written, and no call had the
\*                present one
\*   swallowed    a modify event met the suppression of an echo
\*   crowded      the one debounce forgot a file's event for another's
\*   reverted     the text of a file that lagged behind was taken for an edit
\*   early        a suppression ran out with a later echo still to come
\*   missed       a document changed and lastProjection had no row for it
\*   leftover     a state was still being read when the client was given up
\*   unsaved      a client was given up with edits that were not persisted
\*   replaced     a client was replaced, and subscribedContent kept
Mishaps == {"overwritten", "outrun", "swallowed", "crowded", "reverted", "early",
            "missed", "leftover", "unsaved", "replaced"}

IdleTask == [phase |-> "idle", node |-> NoNode, text |-> {}]

TypeOK ==
  /\ server \in [Nodes -> Documents]
  /\ link \in Links
  /\ tracked \subseteq Nodes
  /\ doc \in [Nodes -> Documents]
  /\ queued \subseteq Nodes /\ due \subseteq Nodes
  /\ listed \subseteq Nodes /\ rows \subseteq Nodes
  /\ asked \in BOOLEAN
  /\ subscribed \subseteq Nodes
  /\ loading \in [Nodes -> Nat]
  /\ saved \in [Nodes -> Documents]
  /\ saving \subseteq Nodes
  /\ file \in [Nodes -> Texts]
  /\ task \in [Tasks -> [phase : {"idle", "read", "write"}, node : Nodes \cup {NoNode},
                         text : Texts]]
  /\ event \in Nodes \cup {NoNode}
  /\ handling \subseteq Nodes
  /\ ignoring \subseteq Nodes
  /\ timers \in [Nodes -> SUBSET {"held", "burning"}]
  /\ made \subseteq Edits
  /\ typed \subseteq Nodes
  /\ breaks \in Nat
  /\ amiss \subseteq Mishaps

Init ==
  /\ server = [n \in Nodes |-> Empty]
  /\ link = "none"
  /\ tracked = {} /\ doc = [n \in Nodes |-> Empty]
  /\ queued = {} /\ due = {}
  /\ listed \in SUBSET Nodes /\ rows = {} /\ asked = FALSE
  /\ subscribed = {} /\ loading = [n \in Nodes |-> 0]
  /\ saved = [n \in Nodes |-> Empty] /\ saving = {}
  /\ file = [n \in Nodes |-> {}]
  /\ task = [t \in Tasks |-> IdleTask]
  /\ event = NoNode /\ handling = {}
  /\ ignoring = {} /\ timers = [n \in Nodes |-> {}]
  /\ made = {} /\ typed = {} /\ breaks = 0 /\ amiss = {}

-----------------------------------------------------------------------------
(* Documents *)

Text(d) == {e \in Edits : d[e] % 2 = 1}

Within(c, d) == \A e \in Edits : c[e] <= d[e]

Merge(c, d) == [e \in Edits |-> IF c[e] <= d[e] THEN d[e] ELSE c[e]]

\* update_content_text: what makes d read as text.
Rewrite(d, text) ==
  [e \in Edits |-> IF (e \in text) <=> (d[e] % 2 = 1) THEN d[e] ELSE d[e] + 1]

\* The edits of a file that its document has never had.
Untaken(n) == {e \in file[n] : doc[n][e] = 0}

Break ==
  /\ breaks < MaxBreaks /\ breaks' = breaks + 1
  /\ Cardinality(listed) <= MaxBroken

\* The mishaps of a step.
Note(kinds) ==
  /\ amiss' = amiss \cup kinds
  /\ kinds \subseteq amiss \/ Cardinality(amiss') <= MaxAmiss

When(condition, kind) == IF condition THEN {kind} ELSE {}

\* The update that an edit of c makes on its way to d: only what has changed.
Update(c, d) == [e \in Edits |-> IF c[e] = d[e] THEN 0 ELSE d[e]]

\* An update that a client sends reaches the server over a connection that is up.
Send(n, update) ==
  server' = IF link = "up" THEN [server EXCEPT ![n] = Merge(@, update)] ELSE server

-----------------------------------------------------------------------------
(* onContentChanged *)

\* Up to its first await: the document's text is taken, and persisted.
OnContentChanged(n, d, known) ==
  IF n \in known
  THEN /\ \E t \in Tasks :
            /\ task[t].phase = "idle"
            /\ task' = [task EXCEPT ![t] = [phase |-> "read", node |-> n, text |-> Text(d)]]
       /\ saving' = saving \cup {n}
  ELSE UNCHANGED <<task, saving>>

\* An event that waits when the timer is set is handled before it runs out.
SetTimer(n, waiting) ==
  timers' = [timers EXCEPT ![n] = @ \cup {IF waiting = NoNode THEN "burning" ELSE "held"}]

\* The file reads as wanted: nothing is written, and the timer is set all the
\* same.
FileAgrees(t) ==
  /\ task[t].phase = "read"
  /\ file[task[t].node] = task[t].text
  /\ task' = [task EXCEPT ![t] = IdleTask]
  /\ SetTimer(task[t].node, event)
  /\ UNCHANGED <<server, clientVars, rowVars, subVars, stateVars, vaultVars, handling,
                 ignoring, made, typed, breaks, amiss>>

FileDiffers(t) ==
  /\ task[t].phase = "read"
  /\ file[task[t].node] # task[t].text
  /\ task' = [task EXCEPT ![t].phase = "write"]
  /\ ignoring' = ignoring \cup {task[t].node}
  /\ UNCHANGED <<server, clientVars, rowVars, subVars, stateVars, vaultVars, handling,
                 timers, made, typed, breaks, amiss>>

\* Nodes whose document has come from the server.
Fresh == tracked \ (due \cup queued)

\* A call under way has the document's present text.
Brought(n) ==
  \E t \in Tasks : task[t].phase # "idle" /\ task[t].node = n /\ task[t].text = Text(doc[n])

\* vault.modify: the file is written, and the vault emits a modify event.
WriteFile(t) ==
  LET n == task[t].node IN
  /\ task[t].phase = "write"
  /\ file' = [file EXCEPT ![n] = task[t].text]
  /\ event' = n
  /\ SetTimer(n, n)
  /\ task' = [task EXCEPT ![t] = IdleTask]
  /\ Note(When(Untaken(n) \ task[t].text # {}, "overwritten")
          \cup When(n \in Fresh /\ ~Brought(n), "outrun")
          \cup When(event \notin {n, NoNode} /\ Untaken(event) # {}, "crowded"))
  /\ UNCHANGED <<server, clientVars, rowVars, subVars, stateVars, handling, ignoring,
                 made, typed, breaks>>

\* A write of the plugin's is on its way, or its event is.
EchoAhead(n) ==
  "held" \in timers[n] \/ \E t \in Tasks : task[t].phase = "write" /\ task[t].node = n

\* (A bug for the runs to find: the suppression is shorter than the debounce.)
ExpireSoon(n) ==
  /\ timers[n] # {}
  /\ ignoring' = ignoring \ {n}
  /\ timers' = [timers EXCEPT ![n] = {}]
  /\ UNCHANGED <<server, clientVars, rowVars, subVars, stateVars, vaultVars, task,
                 handling, made, typed, breaks, amiss>>

\* A timer removes the path, which may have been added again since.
Expire(n) ==
  /\ "burning" \in timers[n]
  /\ ignoring' = ignoring \ {n}
  /\ timers' = [timers EXCEPT ![n] = @ \ {"burning"}]
  /\ Note(When(n \in ignoring /\ EchoAhead(n), "early"))
  /\ UNCHANGED <<server, clientVars, rowVars, subVars, stateVars, vaultVars, task,
                 handling, made, typed, breaks>>

-----------------------------------------------------------------------------
(* onFileModify *)

\* The debounce has run out: the handler looks at the event, and reads the file.
OnFileModify ==
  LET n == event
      takes == n \notin ignoring /\ link # "none" /\ n \in rows
  IN
  /\ event # NoNode
  /\ event' = NoNode
  /\ timers' = [m \in Nodes |-> IF timers[m] = {} THEN {} ELSE {"burning"}]
  /\ handling' = IF takes THEN handling \cup {n} ELSE handling
  /\ Note(When(n \in ignoring /\ Untaken(n) # {}, "swallowed")
          \cup When(n \notin rows /\ link # "none" /\ Untaken(n) # {}, "missed"))
  /\ UNCHANGED <<server, clientVars, rowVars, subVars, stateVars, file, task, ignoring,
                 made, typed, breaks>>

\* The file has been read.  A document that is not tracked takes nothing.
TakeText(n) ==
  LET d == Rewrite(doc[n], file[n])
      takes == n \notin ignoring /\ n \in tracked /\ d # doc[n]
  IN
  /\ n \in handling
  /\ handling' = handling \ {n}
  /\ IF takes
     THEN /\ doc' = [doc EXCEPT ![n] = d]
          /\ Send(n, Update(doc[n], d))
          /\ OnContentChanged(n, d, rows)
     ELSE UNCHANGED <<doc, server, task, saving>>
  /\ Note(When(n \in ignoring /\ Untaken(n) # {}, "swallowed")
          \cup When(takes /\ ~(Text(doc[n]) \subseteq file[n]), "reverted"))
  /\ UNCHANGED <<link, tracked, queued, due, rowVars, subVars, saved, vaultVars,
                 echoVars, made, typed, breaks>>

-----------------------------------------------------------------------------
(* subscribeToContent and the persisted states *)

\* A reconcile publishes the rows and subscribes to what is not subscribed to.
ReconcileProjection ==
  LET new == listed \ subscribed IN
  /\ asked /\ link # "none"
  /\ asked' = FALSE
  /\ rows' = listed
  /\ subscribed' = subscribed \cup new
  /\ loading' = [n \in Nodes |-> IF n \in new THEN loading[n] + 1 ELSE loading[n]]
  /\ UNCHANGED <<server, clientVars, listed, stateVars, vaultVars, task, handling,
                 echoVars, made, typed, breaks, amiss>>

\* (A bug for the runs to find: a subscription made before the connection is up
\* is not remembered for onopen.)
SubscribeUnqueued(n, d) ==
  /\ tracked' = tracked \cup {n}
  /\ doc' = [doc EXCEPT ![n] = d]
  /\ due' = IF link = "up" THEN due \cup {n} ELSE due
  /\ queued' = queued

\* subscribe_content: a document, new whatever was there, and its STEP_1.
SubscribeContent(n, d) ==
  /\ tracked' = tracked \cup {n}
  /\ doc' = [doc EXCEPT ![n] = d]
  /\ due' = IF link = "up" THEN due \cup {n} ELSE due
  /\ queued' = IF link \in {"opening", "lost"} THEN queued \cup {n} ELSE queued

\* (A bug for the runs to find: a call that returns twice.)
FinishLoadingAgain(n) ==
  /\ n \in subscribed
  /\ loading' = [loading EXCEPT ![n] = @ - 1]
  /\ SubscribeContent(n, saved[n])
  /\ UNCHANGED <<server, link, rowVars, subscribed, stateVars, vaultVars, task, handling,
                 echoVars, made, typed, breaks, amiss>>

\* loadContentState has returned.
FinishLoading(n) ==
  /\ loading[n] > 0
  /\ loading' = [loading EXCEPT ![n] = @ - 1]
  /\ IF link = "none"
     THEN UNCHANGED <<tracked, doc, due, queued>>
     ELSE SubscribeContent(n, saved[n])
  /\ UNCHANGED <<server, link, rowVars, subscribed, stateVars, vaultVars, task, handling,
                 echoVars, made, typed, breaks, amiss>>

\* persistContentState goes on with the client there is now.
FinishSaving(n) ==
  /\ n \in saving
  /\ saving' = saving \ {n}
  /\ saved' = IF n \in tracked THEN [saved EXCEPT ![n] = doc[n]] ELSE saved
  /\ UNCHANGED <<server, clientVars, rowVars, subVars, vaultVars, task, handling, echoVars,
                 made, typed, breaks, amiss>>

\* (A bug for the runs to find: subscribedContent has the node only after an
\* await.)
MarkLater(n) == subscribed' = subscribed

\* Add to subscribedContent before any await.
Mark(n) == subscribed' = subscribed \cup {n}

\* The user makes a note, and ingestNewFile seeds its document.  The reconcile
\* that createText sets off publishes the row first, unless one is under way.
UserCreates(n, e) ==
  LET d == Rewrite(Empty, {e})
      known == IF asked THEN rows ELSE listed \cup {n}
  IN
  /\ link # "none" /\ n \notin listed /\ e \notin made
  /\ made' = made \cup {e}
  /\ typed' = typed \cup {n}
  /\ file' = [file EXCEPT ![n] = {e}]
  /\ listed' = listed \cup {n}
  /\ rows' = known
  /\ asked' = TRUE
  /\ Mark(n)
  /\ SubscribeContent(n, d)
  /\ Send(n, Update(Empty, d))
  /\ OnContentChanged(n, d, known)
  /\ Note(When(asked, "missed"))
  /\ UNCHANGED <<link, loading, saved, event, handling, echoVars, breaks>>

-----------------------------------------------------------------------------
(* The connection *)

\* connect(): after disconnect(), or by the timer after the connection was lost.
\* Only disconnect() clears subscribedContent.
Connect ==
  /\ link \in {"none", "lost"}
  /\ link' = "opening"
  /\ tracked' = {}
  /\ doc' = [n \in Nodes |-> Empty]
  /\ queued' = {} /\ due' = {}
  /\ Note(When(link = "lost" /\ subscribed # {}, "replaced"))
  /\ UNCHANGED <<server, rowVars, subVars, stateVars, vaultVars, task, handling, echoVars,
                 made, typed, breaks>>

\* onopen sends the STEP_1s that were queued; the handshake poll sees it, and
\* connect() goes on to its reconcile.
Open ==
  /\ link = "opening"
  /\ link' = "up"
  /\ due' = due \cup queued
  /\ queued' = {}
  /\ asked' = TRUE
  /\ UNCHANGED <<server, tracked, doc, listed, rows, subVars, stateVars, vaultVars, task,
                 handling, echoVars, made, typed, breaks, amiss>>

\* The socket breaks; when nobody notices, what is sent is lost all the same.
Lose ==
  /\ Break
  /\ link \in {"opening", "up"}
  /\ link' = "lost"
  /\ UNCHANGED <<server, tracked, doc, queued, due, rowVars, subVars, stateVars, vaultVars,
                 task, handling, echoVars, made, typed, amiss>>

\* (A bug for the runs to find: subscribedContent is not cleared.)
ClearNothing == subscribed' = subscribed

ClearSubscriptions == subscribed' = {}

\* disconnect(): the timers, the debounce and the calls under way go on.
Disconnect ==
  /\ Break
  /\ link # "none"
  /\ link' = "none"
  /\ tracked' = {}
  /\ doc' = [n \in Nodes |-> Empty]
  /\ queued' = {} /\ due' = {}
  /\ ignoring' = {}
  /\ rows' = {}
  /\ ClearSubscriptions
  /\ asked' = FALSE
  /\ Note(When(\E n \in tracked : ~Within(doc[n], Merge(saved[n], server[n])), "unsaved")
          \cup When(\E n \in ignoring : EchoAhead(n), "early")
          \cup When(\E n \in Nodes : loading[n] > 0, "leftover"))
  /\ UNCHANGED <<server, listed, loading, stateVars, vaultVars, task, handling, timers,
                 made, typed>>

\* A STEP_2, with the server's own STEP_1 and its answer, or an UPDATE.
ReceiveText(n) ==
  LET d == Merge(doc[n], server[n]) IN
  /\ link = "up"
  /\ n \in tracked \ queued
  /\ n \in due \/ d # doc[n]
  /\ doc' = [doc EXCEPT ![n] = d]
  /\ due' = due \ {n}
  /\ server' = IF n \in due THEN [server EXCEPT ![n] = d] ELSE server
  /\ OnContentChanged(n, d, rows)
  /\ Note(When(n \notin rows, "missed"))
  /\ UNCHANGED <<link, tracked, queued, rowVars, subVars, saved, vaultVars, handling,
                 echoVars, made, typed, breaks>>

-----------------------------------------------------------------------------
(* The user and the other clients *)

UserTypes(n, e) ==
  /\ n \in listed /\ e \notin made
  /\ made' = made \cup {e}
  /\ typed' = typed \cup {n}
  /\ file' = [file EXCEPT ![n] = @ \cup {e}]
  /\ event' = n
  /\ Note(When(event \notin {n, NoNode} /\ Untaken(event) # {}, "crowded"))
  /\ UNCHANGED <<server, clientVars, rowVars, subVars, stateVars, task, handling, echoVars,
                 breaks>>

OthersType(n, e) ==
  /\ n \in listed /\ e \notin made
  /\ made' = made \cup {e}
  /\ server' = [server EXCEPT ![n] = Rewrite(@, Text(@) \cup {e})]
  /\ UNCHANGED <<clientVars, rowVars, subVars, stateVars, vaultVars, task, handling,
                 echoVars, typed, breaks, amiss>>

Next ==
  \/ \E t \in Tasks : FileAgrees(t) \/ FileDiffers(t) \/ WriteFile(t)
  \/ OnFileModify \/ ReconcileProjection \/ Connect \/ Open \/ Lose \/ Disconnect
  \/ \E n \in Nodes : Expire(n) \/ TakeText(n) \/ FinishLoading(n) \/ FinishSaving(n)
                      \/ ReceiveText(n)
  \/ \E n \in Nodes, e \in Edits : UserCreates(n, e) \/ UserTypes(n, e) \/ OthersType(n, e)

Spec == Init /\ [][Next]_vars

-----------------------------------------------------------------------------
(* Properties *)

\* Nothing is under way any more.
Settled ==
  /\ link = "up"
  /\ ~asked /\ due = {} /\ saving = {} /\ handling = {} /\ event = NoNode
  /\ \A t \in Tasks : task[t].phase = "idle"
  /\ \A n \in Nodes : loading[n] = 0
  /\ \A n \in tracked : Within(server[n], doc[n])

\* Once everything has come to rest, a note reads the same in its file, in the
\* document, in its persisted state and on the server, and has every edit that
\* anyone typed, unless one of the named mishaps came before (main.ts:1131,
\* 1155, 1322).
SettlesInAgreement ==
  Settled /\ amiss = {} =>
    /\ \A n \in listed : file[n] = Text(doc[n]) /\ doc[n] = server[n] /\ saved[n] = doc[n]
    /\ made = UNION {file[n] : n \in Nodes}

\* A node in subscribedContent has its document in the current client, or is
\* about to; only the automatic reconnect leaves it without one (main.ts:1133).
SubscribedAreTracked ==
  link # "none" /\ "replaced" \notin amiss =>
    \A n \in subscribed : n \in tracked \/ loading[n] > 0

\* No file is read back as an edit that takes other people's text out, unless
\* the user typed in that file: the plugin's own writes are not taken for edits
\* (main.ts:108, 1322).
OnlyTypingReverts ==
  "early" \notin amiss =>
    \A n \in Nodes \ typed, e \in Edits : server[n][e] < 2 /\ doc[n][e] < 2

\* obsidian-plugin/README.md:76 has edits to a file made while the network is
\* away synchronized after the reconnect.  The code does not: the automatic
\* reconnect makes a client without documents, and subscribedContent, which is
\* not cleared, keeps the reconcile from setting them up.
ReconnectSynchronizes ==
  Settled /\ amiss \subseteq {"replaced"} =>
    \A n \in Nodes : file[n] \cap Text(server[n]) # {} => file[n] \subseteq Text(server[n])

\* A document is never replaced by one that lacks some of its edits as long as
\* its client lives, unless the state of an earlier session is still being read
\* (main.ts:1124, #63).
DocumentsOnlyGrow ==
  [][\A n \in tracked :
       \/ link' # link /\ link' \in {"none", "opening"}  \* the client is given up
       \/ "leftover" \in amiss'
       \/ n \in tracked' /\ Within(doc[n], doc'[n])]_vars
=============================================================================
