------------------------- MODULE PluginContentProofs -------------------------
(***************************************************************************)
(* Proofs about PluginContent, for any sets of notes, edits and tasks and  *)
(* any bounds: what counts as subscribed has its document; a document is   *)
(* not replaced by one that lacks some of its edits; the plugin's own      *)
(* writes are not taken for edits; and once everything has come to rest a  *)
(* note reads the same everywhere.                                         *)
(***************************************************************************)
EXTENDS PluginContent, TLAPS

\* Only a client has subscriptions; a document, or a state that is being read
\* for one, is of a node in the manifest.
NodesAreListed ==
  /\ subscribed \subseteq listed
  /\ tracked \subseteq listed
  /\ \A n \in Nodes : loading[n] > 0 => n \in listed
  /\ link = "none" => subscribed = {}

\* A node's state is read once, before the node has a document.
LoadedOnce ==
  "leftover" \notin amiss =>
    /\ tracked \subseteq subscribed
    /\ \A n \in Nodes : loading[n] # 0 =>
         loading[n] = 1 /\ n \in subscribed /\ n \notin tracked

\* A call of onContentChanged is about a note.
TasksHaveNodes == \A t \in Tasks : task[t].phase # "idle" => task[t].node \in Nodes

IInv == TypeOK /\ TasksHaveNodes /\ NodesAreListed /\ LoadedOnce /\ SubscribedAreTracked

-----------------------------------------------------------------------------
(* The operators of the model *)

\* Mishaps are only added to.
LEMMA NoteTypes ==
  ASSUME amiss \subseteq Mishaps, NEW kinds \in SUBSET Mishaps, Note(kinds)
  PROVE  amiss' \subseteq Mishaps /\ amiss \subseteq amiss' /\ kinds \subseteq amiss'
  BY DEF Note

\* The operators on documents give documents and texts.
LEMMA DocumentTypes ==
  ASSUME NEW c \in Documents, NEW d \in Documents, NEW text \in Texts
  PROVE  /\ Empty \in Documents
         /\ Text(d) \in Texts
         /\ Merge(c, d) \in Documents
         /\ Rewrite(d, text) \in Documents
  <1>1. Empty \in Documents /\ Text(d) \in Texts
    BY DEF Empty, Documents, Text, Texts
  <1>2. Merge(c, d) \in Documents
    BY DEF Merge, Documents
  <1>3. Rewrite(d, text) \in Documents
    BY DEF Rewrite, Documents
  <1> QED
    BY <1>1, <1>2, <1>3

\* Documents only grow by merging and by rewriting.
LEMMA DocumentsGrow ==
  ASSUME NEW c \in Documents, NEW d \in Documents, NEW text \in Texts
  PROVE  /\ Within(c, c)
         /\ Within(c, Merge(c, d))
         /\ Within(d, Rewrite(d, text))
  <1>1. Within(c, c)
    BY DEF Within, Documents
  <1>2. Within(c, Merge(c, d))
    BY DEF Within, Merge, Documents
  <1>3. Within(d, Rewrite(d, text))
    BY DEF Within, Rewrite, Documents
  <1> QED
    BY <1>1, <1>2, <1>3

\* What a changed document sets off.
LEMMA ChangeTypes ==
  ASSUME TypeOK, NEW n \in Nodes, NEW d \in Documents, NEW known, OnContentChanged(n, d, known)
  PROVE  /\ task' \in [Tasks -> [phase : {"idle", "read", "write"}, node : Nodes \cup {NoNode},
                                 text : Texts]]
         /\ saving' \subseteq Nodes
         /\ TasksHaveNodes => TasksHaveNodes'
  <1>1. Text(d) \in Texts
    BY DEF Text, Texts
  <1> QED
    BY <1>1 DEF OnContentChanged, TypeOK, TasksHaveNodes

\* An update has only what the document has.
LEMMA UpdateTypes ==
  ASSUME NEW c \in Documents, NEW d \in Documents
  PROVE  Update(c, d) \in Documents
  BY DEF Update, Documents

\* What the server has after a client's update.
LEMMA SendTypes ==
  ASSUME TypeOK, NEW n \in Nodes, NEW d \in Documents, Send(n, d)
  PROVE  server' \in [Nodes -> Documents]
  <1>1. Merge(server[n], d) \in Documents
    BY DocumentTypes DEF TypeOK, Texts
  <1> QED
    BY <1>1 DEF Send, TypeOK

\* A subscription gives one node its document, and leaves the others alone.
LEMMA SubscribeTypes ==
  ASSUME TypeOK, NEW n \in Nodes, NEW d \in Documents, SubscribeContent(n, d)
  PROVE  /\ tracked' = tracked \cup {n}
         /\ doc' \in [Nodes -> Documents]
         /\ \A m \in Nodes \ {n} : doc'[m] = doc[m]
         /\ queued' \subseteq Nodes /\ due' \subseteq Nodes
  BY DEF SubscribeContent, TypeOK

\* A timer is set.
LEMMA TimerTypes ==
  ASSUME TypeOK, NEW n \in Nodes, NEW waiting, SetTimer(n, waiting)
  PROVE  timers' \in [Nodes -> SUBSET {"held", "burning"}]
  BY DEF SetTimer, TypeOK

-----------------------------------------------------------------------------
(* Type correctness *)

Typed == TypeOK /\ TasksHaveNodes

\* A call of onContentChanged goes on.
LEMMA TaskSteps ==
  ASSUME Typed, NEW t \in Tasks, FileAgrees(t) \/ FileDiffers(t) \/ WriteFile(t)
  PROVE  Typed'
  <1> USE DEF Typed, clientVars, rowVars, subVars, stateVars, vaultVars, echoVars
  <1>1. task[t].phase # "idle" => task[t].node \in Nodes
    BY DEF TasksHaveNodes
  <1>2. IdleTask \in [phase : {"idle", "read", "write"}, node : Nodes \cup {NoNode}, text : Texts]
        /\ IdleTask.phase = "idle"
    BY DEF IdleTask, Texts
  <1>3. CASE FileAgrees(t)
    <2>1. timers' \in [Nodes -> SUBSET {"held", "burning"}]
      BY <1>1, <1>3, TimerTypes DEF FileAgrees
    <2> QED
      BY <1>2, <1>3, <2>1 DEF FileAgrees, TypeOK, TasksHaveNodes
  <1>4. CASE FileDiffers(t)
    <2>1. task' = [task EXCEPT ![t].phase = "write"] /\ task[t].phase = "read"
      BY <1>4 DEF FileDiffers
    <2>2. /\ task' \in [Tasks -> [phase : {"idle", "read", "write"}, node : Nodes \cup {NoNode},
                                  text : Texts]]
          /\ \A u \in Tasks : task'[u].node = task[u].node
          /\ \A u \in Tasks : task'[u].phase # "idle" => task[u].phase # "idle"
      BY <2>1 DEF TypeOK
    <2> QED
      BY <1>1, <1>4, <2>1, <2>2 DEF FileDiffers, TypeOK, TasksHaveNodes
  <1>5. CASE WriteFile(t)
    <2>1. task[t].node \in Nodes /\ task[t].text \in Texts
      BY <1>1, <1>5 DEF WriteFile, TypeOK
    <2>2. timers' \in [Nodes -> SUBSET {"held", "burning"}]
      BY <1>5, <2>1, TimerTypes DEF WriteFile
    <2>3. amiss' \subseteq Mishaps
      BY <1>5, NoteTypes DEF WriteFile, When, Mishaps, TypeOK
    <2>4. file' \in [Nodes -> Texts] /\ event' \in Nodes \cup {NoNode}
      BY <1>5, <2>1 DEF WriteFile, TypeOK
    <2>5. /\ task' \in [Tasks -> [phase : {"idle", "read", "write"}, node : Nodes \cup {NoNode},
                                  text : Texts]]
          /\ TasksHaveNodes'
      BY <1>2, <1>5 DEF WriteFile, TypeOK, TasksHaveNodes
    <2> QED
      BY <1>5, <2>2, <2>3, <2>4, <2>5 DEF WriteFile, TypeOK
  <1> QED
    BY <1>3, <1>4, <1>5

\* The steps of onFileModify, and the timers.
LEMMA EventSteps ==
  ASSUME Typed, OnFileModify \/ \E n \in Nodes : TakeText(n) \/ Expire(n)
  PROVE  Typed'
  <1> USE DEF Typed, clientVars, rowVars, subVars, stateVars, vaultVars, echoVars
  <1>1. CASE OnFileModify
    <2>1. amiss' \subseteq Mishaps
      BY <1>1, NoteTypes DEF OnFileModify, When, Mishaps, TypeOK
    <2>2. timers' \in [Nodes -> SUBSET {"held", "burning"}]
      BY <1>1 DEF OnFileModify, TypeOK
    <2>3. handling' \subseteq Nodes
      BY <1>1 DEF OnFileModify, TypeOK
    <2> QED
      BY <1>1, <2>1, <2>2, <2>3 DEF OnFileModify, TypeOK, TasksHaveNodes
  <1>2. ASSUME NEW n \in Nodes, TakeText(n) PROVE Typed'
    <2> DEFINE d == Rewrite(doc[n], file[n])
    <2>1. d \in Documents
      BY DocumentTypes DEF TypeOK
    <2>2. amiss' \subseteq Mishaps
      BY <1>2, NoteTypes DEF TakeText, When, Mishaps, TypeOK
    <2> DEFINE u == Update(doc[n], d)
    <2>3. \/ /\ doc' = [doc EXCEPT ![n] = d] /\ Send(n, u) /\ OnContentChanged(n, d, rows)
          \/ UNCHANGED <<doc, server, task, saving>>
      BY <1>2 DEF TakeText
    <2>5. u \in Documents
      BY <2>1, UpdateTypes DEF TypeOK
    <2> HIDE DEF d, u
    <2>4. /\ doc' \in [Nodes -> Documents] /\ server' \in [Nodes -> Documents]
          /\ task' \in [Tasks -> [phase : {"idle", "read", "write"}, node : Nodes \cup {NoNode},
                                  text : Texts]]
          /\ saving' \subseteq Nodes
          /\ TasksHaveNodes'
      <3>1. CASE UNCHANGED <<doc, server, task, saving>>
        BY <3>1 DEF TypeOK, TasksHaveNodes
      <3>2. CASE doc' = [doc EXCEPT ![n] = d] /\ Send(n, u) /\ OnContentChanged(n, d, rows)
        BY <2>1, <2>5, <3>2, SendTypes, ChangeTypes DEF TypeOK
      <3> QED
        BY <2>3, <3>1, <3>2
    <2> QED
      BY <1>2, <2>2, <2>4 DEF TakeText, TypeOK
  <1>3. ASSUME NEW n \in Nodes, Expire(n) PROVE Typed'
    <2>1. amiss' \subseteq Mishaps
      BY <1>3, NoteTypes DEF Expire, When, Mishaps, TypeOK
    <2> QED
      BY <1>3, <2>1 DEF Expire, TypeOK, TasksHaveNodes
  <1> QED
    BY <1>1, <1>2, <1>3

\* The steps of subscriptions and of persisted states.
LEMMA SubscriptionSteps ==
  ASSUME Typed, ReconcileProjection \/ \E n \in Nodes : FinishLoading(n) \/ FinishSaving(n)
  PROVE  Typed'
  <1> USE DEF Typed, clientVars, rowVars, subVars, stateVars, vaultVars, echoVars
  <1>1. CASE ReconcileProjection
    <2>1. /\ asked' = FALSE /\ rows' = listed
          /\ subscribed' = subscribed \cup (listed \ subscribed)
          /\ loading' = [n \in Nodes |-> IF n \in listed \ subscribed THEN loading[n] + 1 ELSE loading[n]]
          /\ UNCHANGED <<server, clientVars, listed, stateVars, vaultVars, task, handling,
                         echoVars, made, typed, breaks, amiss>>
      BY <1>1 DEF ReconcileProjection
    <2>2. loading' \in [Nodes -> Nat]
      BY <2>1 DEF TypeOK
    <2>3. rows' \subseteq Nodes /\ subscribed' \subseteq Nodes /\ asked' \in BOOLEAN
      BY <2>1 DEF TypeOK
    <2> QED
      BY <2>1, <2>2, <2>3 DEF TypeOK, TasksHaveNodes
  <1>2. ASSUME NEW n \in Nodes, FinishLoading(n) PROVE Typed'
    <2>1. loading' \in [Nodes -> Nat]
      BY <1>2 DEF FinishLoading, TypeOK
    <2>2. tracked' \subseteq Nodes /\ doc' \in [Nodes -> Documents]
          /\ queued' \subseteq Nodes /\ due' \subseteq Nodes
      <3>1. saved[n] \in Documents
        BY DEF TypeOK
      <3>2. SubscribeContent(n, saved[n]) \/ UNCHANGED <<tracked, doc, due, queued>>
        BY <1>2 DEF FinishLoading
      <3> QED
        BY <3>1, <3>2, SubscribeTypes DEF TypeOK
    <2> QED
      BY <1>2, <2>1, <2>2 DEF FinishLoading, TypeOK, TasksHaveNodes
  <1>3. ASSUME NEW n \in Nodes, FinishSaving(n) PROVE Typed'
    BY <1>3 DEF FinishSaving, TypeOK, TasksHaveNodes
  <1> QED
    BY <1>1, <1>2, <1>3

\* The connection and what comes over it.
LEMMA ConnectionSteps ==
  ASSUME Typed, Connect \/ Open \/ Lose \/ Disconnect \/ \E n \in Nodes : ReceiveText(n)
  PROVE  Typed'
  <1> USE DEF Typed, clientVars, rowVars, subVars, stateVars, vaultVars, echoVars
  <1>0. Empty \in Documents
    BY DEF Empty, Documents
  <1>1. CASE Connect
    <2>1. amiss' \subseteq Mishaps
      BY <1>1, NoteTypes DEF Connect, When, Mishaps, TypeOK
    <2> QED
      BY <1>0, <1>1, <2>1 DEF Connect, Links, TypeOK, TasksHaveNodes
  <1>2. CASE Open \/ Lose
    <2>0. breaks' = breaks \/ breaks' = breaks + 1
      BY <1>2 DEF Open, Lose, Break
    <2>1. link' \in Links /\ asked' \in BOOLEAN /\ breaks' \in Nat
      <3>1. breaks' \in Nat
        BY <2>0 DEF TypeOK
      <3>2. link' \in Links /\ (asked' = TRUE \/ asked' = asked)
        BY <1>2 DEF Open, Lose, Links
      <3> QED
        BY <3>1, <3>2 DEF TypeOK
    <2>2. due' \subseteq Nodes /\ queued' \subseteq Nodes
      BY <1>2 DEF Open, Lose, TypeOK
    <2> QED
      BY <1>2, <2>1, <2>2 DEF Open, Lose, TypeOK, TasksHaveNodes
  <1>3. CASE Disconnect
    <2>1. amiss' \subseteq Mishaps
      BY <1>3, NoteTypes DEF Disconnect, When, Mishaps, TypeOK
    <2>2. link' \in Links /\ asked' \in BOOLEAN /\ breaks' \in Nat
      <3>1. breaks' = breaks + 1 /\ link' = "none" /\ asked' = FALSE
        BY <1>3 DEF Disconnect, Break
      <3>2. breaks' \in Nat
        BY <3>1 DEF TypeOK
      <3>3. link' \in Links
        BY <3>1 DEF Links
      <3>4. asked' \in BOOLEAN
        BY <3>1
      <3> QED
        BY <3>2, <3>3, <3>4
    <2>3. /\ tracked' = {} /\ queued' = {} /\ due' = {} /\ ignoring' = {} /\ rows' = {}
          /\ subscribed' \subseteq Nodes
      BY <1>3 DEF Disconnect, ClearSubscriptions, TypeOK
    <2>4. doc' \in [Nodes -> Documents]
      BY <1>0, <1>3 DEF Disconnect
    <2>5. UNCHANGED <<server, listed, loading, stateVars, vaultVars, task, handling, timers,
                      made, typed>>
      BY <1>3 DEF Disconnect
    <2> QED
      BY <2>1, <2>2, <2>3, <2>4, <2>5 DEF TypeOK, TasksHaveNodes
  <1>4. ASSUME NEW n \in Nodes, ReceiveText(n) PROVE Typed'
    <2> DEFINE d == Merge(doc[n], server[n])
    <2>1. d \in Documents
      BY DocumentTypes DEF TypeOK, Texts
    <2>2. amiss' \subseteq Mishaps
      BY <1>4, NoteTypes DEF ReceiveText, When, Mishaps, TypeOK
    <2>3. /\ doc' = [doc EXCEPT ![n] = d]
          /\ server' = IF n \in due THEN [server EXCEPT ![n] = d] ELSE server
          /\ OnContentChanged(n, d, rows)
      BY <1>4 DEF ReceiveText
    <2> HIDE DEF d
    <2>4. doc' \in [Nodes -> Documents] /\ server' \in [Nodes -> Documents]
      BY <2>1, <2>3 DEF TypeOK
    <2>5. /\ task' \in [Tasks -> [phase : {"idle", "read", "write"}, node : Nodes \cup {NoNode},
                                  text : Texts]]
          /\ saving' \subseteq Nodes
          /\ TasksHaveNodes'
      BY <2>1, <2>3, ChangeTypes
    <2> QED
      BY <1>4, <2>2, <2>4, <2>5 DEF ReceiveText, TypeOK
  <1> QED
    BY <1>1, <1>2, <1>3, <1>4

\* The user and the other clients.
LEMMA TypingSteps ==
  ASSUME Typed, NEW n \in Nodes, NEW e \in Edits,
         UserCreates(n, e) \/ UserTypes(n, e) \/ OthersType(n, e)
  PROVE  Typed'
  <1> USE DEF Typed, clientVars, rowVars, subVars, stateVars, vaultVars, echoVars
  <1>1. CASE UserCreates(n, e)
    <2> DEFINE d == Rewrite(Empty, {e})
               known == IF asked THEN rows ELSE listed \cup {n}
    <2>1. d \in Documents
      <3>1. Empty \in Documents /\ {e} \in Texts
        BY DEF Empty, Documents, Texts
      <3> QED
        BY <3>1, DocumentTypes
    <2>2. amiss' \subseteq Mishaps
      BY <1>1, NoteTypes DEF UserCreates, When, Mishaps, TypeOK
    <2> DEFINE u == Update(Empty, d)
    <2>3. SubscribeContent(n, d) /\ Send(n, u) /\ OnContentChanged(n, d, known)
          /\ rows' = known /\ Mark(n)
      BY <1>1 DEF UserCreates
    <2>4. known \subseteq Nodes
      BY DEF TypeOK
    <2>10. u \in Documents
      <3>1. Empty \in Documents
        BY DEF Empty, Documents
      <3> QED
        BY <2>1, <3>1, UpdateTypes
    <2> HIDE DEF d, known, u
    <2>5. /\ task' \in [Tasks -> [phase : {"idle", "read", "write"}, node : Nodes \cup {NoNode},
                                  text : Texts]]
          /\ saving' \subseteq Nodes
          /\ TasksHaveNodes'
      BY <2>1, <2>3, ChangeTypes
    <2>6. server' \in [Nodes -> Documents]
      BY <2>3, <2>10, SendTypes
    <2>7. tracked' \subseteq Nodes /\ doc' \in [Nodes -> Documents]
          /\ queued' \subseteq Nodes /\ due' \subseteq Nodes
      BY <2>1, <2>3, SubscribeTypes DEF TypeOK
    <2>8. subscribed' \subseteq Nodes /\ rows' \subseteq Nodes
      BY <2>3, <2>4 DEF Mark, TypeOK
    <2>9. file' \in [Nodes -> Texts] /\ made' \subseteq Edits /\ typed' \subseteq Nodes
          /\ listed' \subseteq Nodes /\ asked' \in BOOLEAN
      BY <1>1 DEF UserCreates, TypeOK, Texts
    <2> QED
      BY <1>1, <2>2, <2>5, <2>6, <2>7, <2>8, <2>9 DEF UserCreates, TypeOK
  <1>2. CASE UserTypes(n, e)
    <2>1. amiss' \subseteq Mishaps
      BY <1>2, NoteTypes DEF UserTypes, When, Mishaps, TypeOK
    <2>2. file' \in [Nodes -> Texts]
      BY <1>2 DEF UserTypes, TypeOK, Texts
    <2> QED
      BY <1>2, <2>1, <2>2 DEF UserTypes, TypeOK, TasksHaveNodes
  <1>3. CASE OthersType(n, e)
    <2>1. Text(server[n]) \cup {e} \in Texts
      BY DEF Text, Texts
    <2>2. Rewrite(server[n], Text(server[n]) \cup {e}) \in Documents
      BY <2>1, DocumentTypes DEF TypeOK
    <2> QED
      BY <1>3, <2>2 DEF OthersType, TypeOK, TasksHaveNodes
  <1> QED
    BY <1>1, <1>2, <1>3

\* The disjuncts of Next, as the lemmas take them.
LEMMA NextSplits ==
  ASSUME [Next]_vars
  PROVE  \/ \E t \in Tasks : FileAgrees(t) \/ FileDiffers(t) \/ WriteFile(t)
         \/ OnFileModify \/ \E n \in Nodes : TakeText(n) \/ Expire(n)
         \/ ReconcileProjection \/ \E n \in Nodes : FinishLoading(n) \/ FinishSaving(n)
         \/ Connect \/ Open \/ Lose \/ Disconnect \/ \E n \in Nodes : ReceiveText(n)
         \/ \E n \in Nodes, e \in Edits : UserCreates(n, e) \/ UserTypes(n, e) \/ OthersType(n, e)
         \/ UNCHANGED vars
  BY Zenon DEF Next

\* Every step keeps the types.
LEMMA TypeNext ==
  ASSUME Typed, [Next]_vars
  PROVE  Typed'
  <1>1. CASE UNCHANGED vars
    BY <1>1 DEF Typed, vars, clientVars, rowVars, subVars, stateVars, vaultVars, echoVars, TypeOK, TasksHaveNodes
  <1> QED
    BY <1>1, NextSplits, TaskSteps, EventSteps, SubscriptionSteps, ConnectionSteps, TypingSteps

-----------------------------------------------------------------------------
(* Subscriptions and their documents *)

\* What SubscribedAreTracked and DocumentsOnlyGrow look at.
Subscriptions == <<link, tracked, listed, subscribed, loading>>

\* The steps that leave subscriptions alone.
LEMMA Elsewhere ==
  ASSUME Typed, [Next]_vars
  PROVE  \/ UNCHANGED Subscriptions /\ amiss \subseteq amiss'
         \/ ReconcileProjection \/ Connect \/ Open \/ Lose \/ Disconnect
         \/ \E n \in Nodes : FinishLoading(n)
         \/ \E n \in Nodes, e \in Edits : UserCreates(n, e)
  <1> USE DEF Subscriptions, clientVars, rowVars, subVars, stateVars, vaultVars, echoVars, Note
  <1>1. ASSUME NEW t \in Tasks, FileAgrees(t) \/ FileDiffers(t) \/ WriteFile(t)
        PROVE  UNCHANGED Subscriptions /\ amiss \subseteq amiss'
    BY <1>1 DEF FileAgrees, FileDiffers, WriteFile
  <1>2. ASSUME OnFileModify \/ \E n \in Nodes : TakeText(n) \/ Expire(n)
        PROVE  UNCHANGED Subscriptions /\ amiss \subseteq amiss'
    BY <1>2 DEF OnFileModify, TakeText, Expire
  <1>3. ASSUME NEW n \in Nodes, FinishSaving(n) \/ ReceiveText(n)
        PROVE  UNCHANGED Subscriptions /\ amiss \subseteq amiss'
    BY <1>3 DEF FinishSaving, ReceiveText
  <1>4. ASSUME NEW n \in Nodes, NEW e \in Edits, UserTypes(n, e) \/ OthersType(n, e)
        PROVE  UNCHANGED Subscriptions /\ amiss \subseteq amiss'
    BY <1>4 DEF UserTypes, OthersType
  <1>5. CASE UNCHANGED vars
    BY <1>5 DEF vars
  <1> QED
    BY <1>1, <1>2, <1>3, <1>4, <1>5, NextSplits

\* The invariant on subscriptions is kept.
LEMMA SubscriptionsNext ==
  ASSUME IInv, [Next]_vars
  PROVE  NodesAreListed' /\ LoadedOnce' /\ SubscribedAreTracked'
  <1> USE DEF clientVars, rowVars, subVars, stateVars, vaultVars, echoVars, Note, When
  <1>0. TypeOK /\ TasksHaveNodes /\ NodesAreListed /\ LoadedOnce /\ SubscribedAreTracked /\ Typed
    BY DEF IInv, Typed
  <1>t. loading \in [Nodes -> Nat] /\ subscribed \subseteq Nodes /\ tracked \subseteq Nodes
        /\ listed \subseteq Nodes
    BY <1>0 DEF TypeOK
  <1>1. CASE UNCHANGED Subscriptions /\ amiss \subseteq amiss'
    BY <1>0, <1>1 DEF Subscriptions, NodesAreListed, LoadedOnce, SubscribedAreTracked
  <1>2. CASE ReconcileProjection
    <2>1. /\ subscribed' = subscribed \cup (listed \ subscribed) /\ link # "none"
          /\ loading' = [n \in Nodes |-> IF n \in listed \ subscribed THEN loading[n] + 1 ELSE loading[n]]
          /\ UNCHANGED <<link, tracked, listed, amiss>>
      BY <1>2 DEF ReconcileProjection
    <2>2. NodesAreListed'
      BY <1>0, <1>t, <2>1 DEF NodesAreListed
    <2>3. SubscribedAreTracked'
      BY <1>0, <1>t, <2>1 DEF SubscribedAreTracked
    <2>4. LoadedOnce'
      BY <1>0, <1>t, <2>1 DEF LoadedOnce
    <2> QED
      BY <2>2, <2>3, <2>4
  <1>3. CASE Connect
    <2>1. /\ tracked' = {} /\ link' = "opening" /\ link \in {"none", "lost"}
          /\ amiss \subseteq amiss'
          /\ link = "lost" /\ subscribed # {} => "replaced" \in amiss'
          /\ UNCHANGED <<listed, subscribed, loading>>
      BY <1>3 DEF Connect
    <2> QED
      BY <1>0, <2>1 DEF NodesAreListed, LoadedOnce, SubscribedAreTracked
  <1>4. CASE Open \/ Lose
    <2>1. /\ UNCHANGED <<tracked, listed, subscribed, loading, amiss>>
          /\ link # "none" /\ link' # "none"
      BY <1>4 DEF Open, Lose
    <2> QED
      BY <1>0, <2>1 DEF NodesAreListed, LoadedOnce, SubscribedAreTracked
  <1>5. CASE Disconnect
    <2>1. /\ link' = "none" /\ tracked' = {} /\ subscribed' = {}
          /\ amiss \subseteq amiss'
          /\ (\E n \in Nodes : loading[n] > 0) => "leftover" \in amiss'
          /\ UNCHANGED <<listed, loading>>
      BY <1>5 DEF Disconnect, ClearSubscriptions
    <2> QED
      BY <1>0, <1>t, <2>1 DEF NodesAreListed, LoadedOnce, SubscribedAreTracked
  <1>6. ASSUME NEW n \in Nodes, FinishLoading(n)
        PROVE  NodesAreListed' /\ LoadedOnce' /\ SubscribedAreTracked'
    <2>1. /\ loading[n] > 0 /\ loading' = [loading EXCEPT ![n] = @ - 1]
          /\ tracked' = IF link = "none" THEN tracked ELSE tracked \cup {n}
          /\ UNCHANGED <<link, listed, subscribed, amiss>>
      BY <1>6 DEF FinishLoading, SubscribeContent
    <2>2. NodesAreListed'
      BY <1>0, <1>t, <2>1 DEF NodesAreListed
    <2>3. SubscribedAreTracked'
      BY <1>0, <1>t, <2>1 DEF SubscribedAreTracked
    <2>4. LoadedOnce'
      BY <1>0, <1>t, <2>1 DEF LoadedOnce
    <2> QED
      BY <2>2, <2>3, <2>4
  <1>7. ASSUME NEW n \in Nodes, NEW e \in Edits, UserCreates(n, e)
        PROVE  NodesAreListed' /\ LoadedOnce' /\ SubscribedAreTracked'
    <2>1. /\ n \notin listed /\ listed' = listed \cup {n} /\ link # "none"
          /\ subscribed' = subscribed \cup {n} /\ tracked' = tracked \cup {n}
          /\ amiss \subseteq amiss'
          /\ UNCHANGED <<link, loading>>
      BY <1>7 DEF UserCreates, Mark, SubscribeContent
    <2>2. loading[n] = 0
      BY <1>0, <1>t, <2>1 DEF NodesAreListed
    <2> QED
      BY <1>0, <1>t, <2>1, <2>2 DEF NodesAreListed, LoadedOnce, SubscribedAreTracked
  <1> QED
    BY <1>0, <1>1, <1>2, <1>3, <1>4, <1>5, <1>6, <1>7, Elsewhere

\* What may happen to the document of a tracked node.
Grows(n) ==
  \/ link' # link /\ link' \in {"none", "opening"}
  \/ "leftover" \in amiss'
  \/ n \in tracked' /\ Within(doc[n], doc'[n])

\* The documents of a client only grow.
LEMMA DocumentsNext ==
  ASSUME IInv, [Next]_vars, NEW m \in tracked
  PROVE  Grows(m)
  <1> USE DEF clientVars, rowVars, subVars, stateVars, vaultVars, echoVars
  <1>0. TypeOK /\ NodesAreListed /\ LoadedOnce /\ Typed
    BY DEF IInv, Typed
  <1>t. m \in Nodes /\ doc[m] \in Documents /\ doc \in [Nodes -> Documents]
        /\ Within(doc[m], doc[m])
    <2>1. m \in Nodes /\ doc[m] \in Documents /\ doc \in [Nodes -> Documents]
      BY <1>0 DEF TypeOK
    <2> QED
      BY <2>1 DEF Within, Documents
  <1>1. CASE UNCHANGED <<tracked, doc>>
    BY <1>1, <1>t DEF Grows
  <1>2. CASE Connect \/ Disconnect
    BY <1>2 DEF Connect, Disconnect, Grows
  <1>3. ASSUME NEW n \in Nodes, TakeText(n) PROVE Grows(m)
    <2>1. doc[n] \in Documents /\ file[n] \in Texts
      BY <1>0 DEF TypeOK
    <2>2. Within(doc[n], Rewrite(doc[n], file[n]))
      BY <2>1, DocumentsGrow
    <2>3. tracked' = tracked /\ (doc' = doc \/ doc' = [doc EXCEPT ![n] = Rewrite(doc[n], file[n])])
      BY <1>3 DEF TakeText
    <2> QED
      BY <1>t, <2>2, <2>3 DEF Grows
  <1>4. ASSUME NEW n \in Nodes, ReceiveText(n) PROVE Grows(m)
    <2>1. doc[n] \in Documents /\ server[n] \in Documents
      BY <1>0 DEF TypeOK
    <2>2. Within(doc[n], Merge(doc[n], server[n]))
      BY <2>1, DocumentsGrow DEF Texts
    <2>3. tracked' = tracked /\ doc' = [doc EXCEPT ![n] = Merge(doc[n], server[n])]
      BY <1>4 DEF ReceiveText
    <2> QED
      BY <1>t, <2>2, <2>3 DEF Grows
  <1>5. ASSUME NEW n \in Nodes, FinishLoading(n) PROVE Grows(m)
    <2>1. loading[n] # 0 /\ amiss' = amiss
      BY <1>0, <1>5 DEF FinishLoading, TypeOK
    <2>2. CASE "leftover" \in amiss
      BY <2>1, <2>2 DEF Grows
    <2>3. CASE "leftover" \notin amiss
      <3>1. n # m
        BY <1>0, <2>1, <2>3 DEF LoadedOnce
      <3>2. m \in tracked' /\ doc'[m] = doc[m]
        BY <1>5, <1>t, <3>1 DEF FinishLoading, SubscribeContent
      <3> QED
        BY <1>t, <3>2 DEF Grows
    <2> QED
      BY <2>2, <2>3
  <1>6. ASSUME NEW n \in Nodes, NEW e \in Edits, UserCreates(n, e) PROVE Grows(m)
    <2>1. n \notin listed /\ SubscribeContent(n, Rewrite(Empty, {e}))
      BY <1>6 DEF UserCreates
    <2>2. n # m
      BY <1>0, <2>1 DEF NodesAreListed
    <2>3. m \in tracked' /\ doc'[m] = doc[m]
      BY <1>t, <2>1, <2>2 DEF SubscribeContent
    <2> QED
      BY <1>t, <2>3 DEF Grows
  <1>7. ASSUME NEW t \in Tasks, FileAgrees(t) \/ FileDiffers(t) \/ WriteFile(t)
        PROVE  UNCHANGED <<tracked, doc>>
    BY <1>7 DEF FileAgrees, FileDiffers, WriteFile
  <1>8. ASSUME OnFileModify \/ ReconcileProjection \/ Open \/ Lose
               \/ \E n \in Nodes : Expire(n) \/ FinishSaving(n)
        PROVE  UNCHANGED <<tracked, doc>>
    BY <1>8 DEF OnFileModify, ReconcileProjection, Open, Lose, Expire, FinishSaving
  <1>9. ASSUME NEW n \in Nodes, NEW e \in Edits, UserTypes(n, e) \/ OthersType(n, e)
        PROVE  UNCHANGED <<tracked, doc>>
    BY <1>9 DEF UserTypes, OthersType
  <1>10. CASE UNCHANGED vars
    BY <1>10, <1>1 DEF vars
  <1> QED
    BY <1>1, <1>2, <1>3, <1>4, <1>5, <1>6, <1>7, <1>8, <1>9, <1>10, NextSplits

-----------------------------------------------------------------------------
(* The theorems *)

\* The inductive invariant.
THEOREM Inductive == Spec => []IInv
  <1>1. Init => IInv
    <2> SUFFICES ASSUME Init PROVE IInv
      OBVIOUS
    <2>1. TypeOK
      <3>1. Empty \in Documents /\ {} \in Texts
        BY DEF Empty, Documents, Texts
      <3> QED
        BY <3>1 DEF Init, TypeOK, IdleTask, Links
    <2> QED
      BY <2>1 DEF Init, IInv, TasksHaveNodes, IdleTask, NodesAreListed, LoadedOnce,
                  SubscribedAreTracked
  <1>2. IInv /\ [Next]_vars => IInv'
    BY TypeNext, SubscriptionsNext DEF IInv, Typed
  <1> QED
    BY <1>1, <1>2, PTL DEF Spec

\* The variables keep their types.
THEOREM TypeCorrect == Spec => []TypeOK
  <1>1. IInv => TypeOK
    BY DEF IInv
  <1> QED
    BY <1>1, Inductive, PTL

\* A node in subscribedContent has its document, or is about to, as long as no
\* client was replaced with subscribedContent kept.
THEOREM SubscriptionsHaveDocuments == Spec => []SubscribedAreTracked
  <1>1. IInv => SubscribedAreTracked
    BY DEF IInv
  <1> QED
    BY <1>1, Inductive, PTL

\* No document is replaced by one that lacks some of its edits while its client
\* lives, unless a state of an earlier session is still being read.
THEOREM DocumentsKeepTheirEdits == Spec => DocumentsOnlyGrow
  <1>1. IInv /\ [Next]_vars => [\A n \in tracked : Grows(n)]_vars
    BY DocumentsNext
  <1>2. [\A n \in tracked : Grows(n)]_vars =>
        [\A n \in tracked :
           \/ link' # link /\ link' \in {"none", "opening"}
           \/ "leftover" \in amiss'
           \/ n \in tracked' /\ Within(doc[n], doc'[n])]_vars
    BY DEF Grows
  <1> QED
    BY <1>1, <1>2, Inductive, PTL DEF Spec, DocumentsOnlyGrow

-----------------------------------------------------------------------------
(* Echoes of the plugin's own writes *)

\* A document in which no edit was taken out or put back.
Plain(d) == \A e \in Edits : d[e] < 2

PlainUnlessTyped == \A n \in Nodes \ typed : Plain(server[n]) /\ Plain(doc[n]) /\ Plain(saved[n])

\* A file that the plugin is about to write is ignored, and stays so until the
\* handler has met the event of the write; hence only typing has a file read.
EchoesStayIgnored ==
  "early" \notin amiss =>
    /\ \A t \in Tasks : task[t].phase = "write" => task[t].node \in ignoring
    /\ event \in Nodes \ typed => event \in ignoring /\ "held" \in timers[event]
    /\ handling \subseteq typed
    /\ PlainUnlessTyped

\* Merging plain documents, and adding a new edit to one, gives plain ones.
LEMMA PlainDocuments ==
  ASSUME NEW c \in Documents, NEW d \in Documents, NEW e \in Edits, Plain(c), Plain(d)
  PROVE  /\ Plain(Empty)
         /\ Plain(Merge(c, d))
         /\ Plain(Rewrite(c, Text(c) \cup {e}))
  <1>1. Plain(Empty) /\ Plain(Merge(c, d))
    BY DEF Plain, Empty, Merge
  <1>2. ASSUME NEW x \in Edits PROVE Rewrite(c, Text(c) \cup {e})[x] < 2
    <2>1. c[x] = 0 \/ c[x] = 1
      BY DEF Plain, Documents
    <2>2. Rewrite(c, Text(c) \cup {e})[x] =
            IF (x \in Text(c) \cup {e}) <=> (c[x] % 2 = 1) THEN c[x] ELSE c[x] + 1
      BY DEF Rewrite
    <2>3. CASE c[x] = 0
      BY <2>2, <2>3
    <2>4. CASE c[x] = 1
      <3>1. x \in Text(c) /\ c[x] % 2 = 1
        BY <2>4 DEF Text
      <3> QED
        BY <2>2, <2>4, <3>1
    <2> QED
      BY <2>1, <2>3, <2>4
  <1> QED
    BY <1>1, <1>2 DEF Plain

\* What a call of onContentChanged that begins leaves of the writes under way.
LEMMA ChangeWrites ==
  ASSUME TypeOK, NEW n, NEW d, NEW known, OnContentChanged(n, d, known)
  PROVE  \A t \in Tasks : task'[t].phase = "write" => task'[t] = task[t]
  BY DEF OnContentChanged, TypeOK

Writes == \A t \in Tasks : task[t].phase = "write" => task[t].node \in ignoring
EventIgnored == event \in Nodes \ typed => event \in ignoring /\ "held" \in timers[event]

\* The suppression outlives the echo.
LEMMA IgnoringNext ==
  ASSUME Typed, EchoesStayIgnored, [Next]_vars, "early" \notin amiss'
  PROVE  "early" \notin amiss /\ Writes' /\ EventIgnored' /\ handling' \subseteq typed'
  <1> USE DEF clientVars, rowVars, subVars, stateVars, vaultVars, echoVars
  <1>0. TypeOK /\ TasksHaveNodes
    BY DEF Typed
  <1>a. "early" \notin amiss
    <2>1. amiss \subseteq amiss'
      BY <1>0, Elsewhere DEF ReconcileProjection, Connect, Open, Lose, Disconnect, FinishLoading,
                             UserCreates, Note
    <2> QED
      BY <2>1
  <1>b. Writes /\ EventIgnored /\ handling \subseteq typed
    BY <1>a DEF EchoesStayIgnored, Writes, EventIgnored
  <1>c. SUFFICES Writes' /\ EventIgnored' /\ handling' \subseteq typed'
    BY <1>a
  <1>1. ASSUME UNCHANGED <<event, ignoring, timers, handling>>, typed \subseteq typed',
               \A t \in Tasks : task'[t].phase = "write" => task'[t] = task[t]
        PROVE  Writes' /\ EventIgnored' /\ handling' \subseteq typed'
    BY <1>b, <1>1 DEF Writes, EventIgnored
  <1>2. ASSUME NEW t \in Tasks, FileAgrees(t) PROVE Writes' /\ EventIgnored' /\ handling' \subseteq typed'
    <2>1. /\ task' = [task EXCEPT ![t] = IdleTask] /\ SetTimer(task[t].node, event)
          /\ UNCHANGED <<event, ignoring, handling, typed>>
      BY <1>2 DEF FileAgrees
    <2>2. Writes'
      BY <1>0, <1>b, <2>1 DEF Writes, IdleTask, TypeOK
    <2>3. \A n \in Nodes : timers[n] \subseteq timers'[n]
      BY <1>0, <2>1 DEF SetTimer, TypeOK
    <2> QED
      BY <1>b, <2>1, <2>2, <2>3 DEF EventIgnored
  <1>3. ASSUME NEW t \in Tasks, FileDiffers(t) PROVE Writes' /\ EventIgnored' /\ handling' \subseteq typed'
    <2>1. /\ task' = [task EXCEPT ![t].phase = "write"]
          /\ ignoring' = ignoring \cup {task[t].node}
          /\ UNCHANGED <<event, timers, handling, typed>>
      BY <1>3 DEF FileDiffers
    <2>2. Writes'
      BY <1>0, <1>b, <2>1 DEF Writes, TypeOK
    <2> QED
      BY <1>b, <2>1, <2>2 DEF EventIgnored
  <1>4. ASSUME NEW t \in Tasks, WriteFile(t) PROVE Writes' /\ EventIgnored' /\ handling' \subseteq typed'
    <2> DEFINE n == task[t].node
    <2>1. /\ task' = [task EXCEPT ![t] = IdleTask] /\ SetTimer(n, n) /\ event' = n
          /\ task[t].phase = "write"
          /\ UNCHANGED <<ignoring, handling, typed>>
      BY <1>4 DEF WriteFile
    <2>2. Writes'
      BY <1>0, <1>b, <2>1 DEF Writes, IdleTask, TypeOK
    <2>3. n \in Nodes /\ n \in ignoring
      BY <1>0, <1>b, <2>1 DEF TasksHaveNodes, Writes
    <2>4. "held" \in timers'[n]
      BY <1>0, <2>1, <2>3, PluginContentAssumption DEF SetTimer, TypeOK
    <2> QED
      BY <1>b, <2>1, <2>2, <2>3, <2>4 DEF EventIgnored
  <1>5. CASE OnFileModify
    <2>1. /\ event # NoNode /\ event' = NoNode
          /\ handling' = handling \/ (event \notin ignoring /\ handling' = handling \cup {event})
          /\ UNCHANGED <<task, ignoring, typed>>
      BY <1>5 DEF OnFileModify
    <2>2. handling' \subseteq typed'
      BY <1>0, <1>b, <2>1 DEF EventIgnored, TypeOK
    <2> QED
      BY <1>b, <2>1, <2>2, PluginContentAssumption DEF Writes, EventIgnored
  <1>6. ASSUME NEW n \in Nodes, TakeText(n) PROVE Writes' /\ EventIgnored' /\ handling' \subseteq typed'
    <2>1. /\ handling' \subseteq handling
          /\ UNCHANGED <<event, ignoring, timers, typed>>
          /\ task' = task \/ OnContentChanged(n, Rewrite(doc[n], file[n]), rows)
      BY <1>6 DEF TakeText
    <2>2. \A t \in Tasks : task'[t].phase = "write" => task'[t] = task[t]
      BY <1>0, <2>1, ChangeWrites
    <2> QED
      BY <1>b, <2>1, <2>2 DEF Writes, EventIgnored
  <1>7. ASSUME NEW n \in Nodes, Expire(n) PROVE Writes' /\ EventIgnored' /\ handling' \subseteq typed'
    <2>1. /\ ignoring' = ignoring \ {n} /\ timers' = [timers EXCEPT ![n] = @ \ {"burning"}]
          /\ n \in ignoring /\ EchoAhead(n) => "early" \in amiss'
          /\ UNCHANGED <<task, event, handling, typed>>
      BY <1>7 DEF Expire, Note, When
    <2>2. ~(n \in ignoring /\ EchoAhead(n))
      BY <2>1
    <2>3. Writes'
      BY <1>b, <2>1, <2>2 DEF Writes, EchoAhead
    <2>4. \A m \in Nodes : "held" \in timers[m] => "held" \in timers'[m]
      BY <1>0, <2>1 DEF TypeOK
    <2>5. EventIgnored'
      BY <1>b, <2>1, <2>2, <2>4 DEF EventIgnored, EchoAhead
    <2> QED
      BY <1>b, <2>1, <2>3, <2>5
  <1>8. CASE Disconnect
    <2>1. /\ ignoring' = {} /\ UNCHANGED <<task, event, handling, timers, typed>>
          /\ (\E n \in ignoring : EchoAhead(n)) => "early" \in amiss'
      BY <1>8 DEF Disconnect, Note, When
    <2>2. \A n \in ignoring : ~EchoAhead(n)
      BY <2>1
    <2> QED
      BY <1>b, <2>1, <2>2 DEF Writes, EventIgnored, EchoAhead
  <1>9. ASSUME NEW n \in Nodes, ReceiveText(n) PROVE Writes' /\ EventIgnored' /\ handling' \subseteq typed'
    <2>1. /\ OnContentChanged(n, Merge(doc[n], server[n]), rows)
          /\ UNCHANGED <<event, ignoring, timers, handling, typed>>
      BY <1>9 DEF ReceiveText
    <2>2. \A t \in Tasks : task'[t].phase = "write" => task'[t] = task[t]
      BY <1>0, <2>1, ChangeWrites
    <2> QED
      BY <1>1, <2>1, <2>2
  <1>10. ASSUME NEW n \in Nodes, NEW e \in Edits, UserCreates(n, e)
         PROVE  Writes' /\ EventIgnored' /\ handling' \subseteq typed'
    <2>1. /\ OnContentChanged(n, Rewrite(Empty, {e}), IF asked THEN rows ELSE listed \cup {n})
          /\ UNCHANGED <<event, ignoring, timers, handling>> /\ typed \subseteq typed'
      BY <1>10 DEF UserCreates
    <2>2. \A t \in Tasks : task'[t].phase = "write" => task'[t] = task[t]
      BY <1>0, <2>1, ChangeWrites
    <2> QED
      BY <1>1, <2>1, <2>2
  <1>11. ASSUME NEW n \in Nodes, NEW e \in Edits, UserTypes(n, e)
         PROVE  Writes' /\ EventIgnored' /\ handling' \subseteq typed'
    BY <1>b, <1>11 DEF UserTypes, Writes, EventIgnored
  <1>12. ASSUME \/ ReconcileProjection \/ Connect \/ Open \/ Lose
                \/ \E n \in Nodes : FinishLoading(n) \/ FinishSaving(n)
                \/ \E n \in Nodes, e \in Edits : OthersType(n, e)
                \/ UNCHANGED vars
         PROVE  UNCHANGED <<event, ignoring, timers, handling, typed, task>>
    BY <1>12 DEF ReconcileProjection, Connect, Open, Lose, FinishLoading, FinishSaving, OthersType, vars
  <1> QED
    BY <1>1, <1>2, <1>3, <1>4, <1>5, <1>6, <1>7, <1>8, <1>9, <1>10, <1>11, <1>12, NextSplits

\* Documents of notes in which nobody typed stay plain.
LEMMA PlainNext ==
  ASSUME Typed, PlainUnlessTyped, handling \subseteq typed, [Next]_vars
  PROVE  PlainUnlessTyped'
  <1> USE DEF clientVars, rowVars, subVars, stateVars, vaultVars, echoVars
  <1>0. TypeOK /\ Plain(Empty)
    BY DEF Typed, Plain, Empty
  <1> SUFFICES ASSUME NEW m \in Nodes, m \notin typed'
               PROVE  Plain(server'[m]) /\ Plain(doc'[m]) /\ Plain(saved'[m])
    BY DEF PlainUnlessTyped
  <1>d. ASSUME typed \subseteq typed'
        PROVE  Plain(server[m]) /\ Plain(doc[m]) /\ Plain(saved[m])
               /\ server[m] \in Documents /\ doc[m] \in Documents
    BY <1>0, <1>d DEF PlainUnlessTyped, TypeOK
  <1>1. ASSUME UNCHANGED <<server, doc, saved>>, typed \subseteq typed'
        PROVE  Plain(server'[m]) /\ Plain(doc'[m]) /\ Plain(saved'[m])
    BY <1>d, <1>1
  <1>2. ASSUME NEW n \in Nodes, TakeText(n)
        PROVE  Plain(server'[m]) /\ Plain(doc'[m]) /\ Plain(saved'[m])
    <2>1. n \in typed /\ typed' = typed /\ saved' = saved
      BY <1>2 DEF TakeText
    <2>2. server'[m] = server[m] /\ doc'[m] = doc[m]
      BY <1>0, <1>2, <2>1 DEF TakeText, Send, TypeOK
    <2> QED
      BY <1>d, <2>1, <2>2
  <1>3. ASSUME NEW n \in Nodes, FinishLoading(n)
        PROVE  Plain(server'[m]) /\ Plain(doc'[m]) /\ Plain(saved'[m])
    <2>1. UNCHANGED <<server, saved, typed>> /\ (doc' = doc \/ doc' = [doc EXCEPT ![n] = saved[n]])
      BY <1>3 DEF FinishLoading, SubscribeContent
    <2>2. doc'[m] = doc[m] \/ doc'[m] = saved[m]
      BY <1>0, <2>1 DEF TypeOK
    <2> QED
      BY <1>d, <2>1, <2>2
  <1>4. ASSUME NEW n \in Nodes, FinishSaving(n)
        PROVE  Plain(server'[m]) /\ Plain(doc'[m]) /\ Plain(saved'[m])
    <2>1. UNCHANGED <<server, doc, typed>> /\ (saved' = saved \/ saved' = [saved EXCEPT ![n] = doc[n]])
      BY <1>4 DEF FinishSaving
    <2>2. saved'[m] = saved[m] \/ saved'[m] = doc[m]
      BY <1>0, <2>1 DEF TypeOK
    <2> QED
      BY <1>d, <2>1, <2>2
  <1>5. ASSUME NEW n \in Nodes, NEW e \in Edits, UserCreates(n, e)
        PROVE  Plain(server'[m]) /\ Plain(doc'[m]) /\ Plain(saved'[m])
    <2>1. typed' = typed \cup {n} /\ saved' = saved /\ n # m
      BY <1>5 DEF UserCreates
    <2>2. server'[m] = server[m] /\ doc'[m] = doc[m]
      BY <1>0, <1>5, <2>1 DEF UserCreates, Send, SubscribeContent, TypeOK
    <2> QED
      BY <1>d, <2>1, <2>2
  <1>6. CASE Connect \/ Disconnect
    <2>1. UNCHANGED <<server, saved, typed>> /\ doc' = [n \in Nodes |-> Empty]
      BY <1>6 DEF Connect, Disconnect
    <2> QED
      BY <1>0, <1>d, <2>1
  <1>7. ASSUME NEW n \in Nodes, ReceiveText(n)
        PROVE  Plain(server'[m]) /\ Plain(doc'[m]) /\ Plain(saved'[m])
    <2> DEFINE d == Merge(doc[n], server[n])
    <2>1. /\ UNCHANGED <<saved, typed>> /\ doc' = [doc EXCEPT ![n] = d]
          /\ server' = server \/ server' = [server EXCEPT ![n] = d]
      BY <1>7 DEF ReceiveText
    <2>2. n = m => Plain(d)
      BY <1>d, <2>1 DEF Plain, Merge
    <2> HIDE DEF d
    <2> QED
      BY <1>0, <1>d, <2>1, <2>2 DEF TypeOK
  <1>8. ASSUME NEW n \in Nodes, NEW e \in Edits, OthersType(n, e)
        PROVE  Plain(server'[m]) /\ Plain(doc'[m]) /\ Plain(saved'[m])
    <2> DEFINE d == Rewrite(server[n], Text(server[n]) \cup {e})
    <2>1. UNCHANGED <<saved, doc, typed>> /\ server' = [server EXCEPT ![n] = d]
      BY <1>8 DEF OthersType
    <2>2. n = m => Plain(d)
      BY <1>d, <2>1, PlainDocuments
    <2> HIDE DEF d
    <2> QED
      BY <1>0, <1>d, <2>1, <2>2 DEF TypeOK
  <1>9. ASSUME NEW n \in Nodes, NEW e \in Edits, UserTypes(n, e)
        PROVE  UNCHANGED <<server, doc, saved>> /\ typed \subseteq typed'
    BY <1>9 DEF UserTypes
  <1>10. ASSUME \/ \E t \in Tasks : FileAgrees(t) \/ FileDiffers(t) \/ WriteFile(t)
                \/ OnFileModify \/ ReconcileProjection \/ Open \/ Lose
                \/ \E n \in Nodes : Expire(n)
                \/ UNCHANGED vars
         PROVE  UNCHANGED <<server, doc, saved, typed>>
    BY <1>10 DEF FileAgrees, FileDiffers, WriteFile, OnFileModify, ReconcileProjection, Open, Lose,
                 Expire, vars
  <1> QED
    BY <1>1, <1>2, <1>3, <1>4, <1>5, <1>6, <1>7, <1>8, <1>9, <1>10, NextSplits

\* No echo of a write of the plugin's is taken for an edit, unless a
\* suppression ended before its time.
THEOREM EchoesAreNoEdits == Spec => []OnlyTypingReverts
  <1>1. Init => EchoesStayIgnored
    BY PluginContentAssumption
    DEF Init, EchoesStayIgnored, PlainUnlessTyped, Plain, Empty, IdleTask
  <1>2. IInv /\ EchoesStayIgnored /\ [Next]_vars => EchoesStayIgnored'
    <2> SUFFICES ASSUME IInv, EchoesStayIgnored, [Next]_vars, "early" \notin amiss'
                 PROVE  EchoesStayIgnored'
      BY DEF EchoesStayIgnored
    <2>1. Typed
      BY DEF IInv, Typed
    <2>2. "early" \notin amiss /\ Writes' /\ EventIgnored' /\ handling' \subseteq typed'
      BY <2>1, IgnoringNext
    <2>3. PlainUnlessTyped'
      BY <2>1, <2>2, PlainNext DEF EchoesStayIgnored
    <2> QED
      BY <2>2, <2>3 DEF EchoesStayIgnored, Writes, EventIgnored
  <1>3. EchoesStayIgnored => OnlyTypingReverts
    BY DEF EchoesStayIgnored, PlainUnlessTyped, Plain, OnlyTypingReverts
  <1> QED
    BY <1>1, <1>2, <1>3, Inductive, PTL DEF Spec

-----------------------------------------------------------------------------
(* The agreement at rest: what is under way for every difference *)

\* A document in which every edit of S was put in once at most.
PlainOf(d, S) == \A e \in Edits : d[e] = 0 \/ (d[e] = 1 /\ e \in S)

\* Texts and documents hold edits that were made.
TextsAreMade ==
  /\ \A n \in Nodes :
       /\ PlainOf(server[n], made) /\ PlainOf(doc[n], made) /\ PlainOf(saved[n], made)
       /\ file[n] \subseteq made
  /\ \A t \in Tasks : task[t].phase # "idle" => task[t].text \subseteq made

\* Nothing is of a node that is not in the manifest.
OthersAreEmpty ==
  /\ \A n \in Nodes \ listed : server[n] = Empty /\ saved[n] = Empty /\ file[n] = {}
  /\ \A n \in Nodes \ tracked : doc[n] = Empty
  /\ \A t \in Tasks : task[t].phase # "idle" => task[t].node \in listed

\* A document has its row; it is queued before its connection is up; and what is
\* in the manifest is subscribed to, or a reconcile is due.
RowsAndQueue ==
  /\ tracked \subseteq rows /\ \A n \in Nodes : loading[n] > 0 => n \in rows
  /\ link = "opening" => tracked \subseteq queued
  /\ link = "up" => queued = {} /\ (asked \/ listed \subseteq subscribed)

\* The file of a fresh document has its text, or gets it from a call under way;
\* or it has more, and an event or its handler has that taken.
FilesFollow ==
  \A n \in Fresh :
    \/ file[n] = Text(doc[n])
    \/ Brought(n)
    \/ Text(doc[n]) \subseteq file[n] /\ (event = n \/ n \in handling)

\* The server has what a fresh document has,
ServersFollow == link = "up" => \A n \in Fresh : Within(doc[n], server[n])

\* and a state lags behind its document only while it is about to be saved.
StatesFollow ==
  \A n \in tracked : Within(saved[n], doc[n]) /\ (n \in saving \/ saved[n] = doc[n])

\* An edit is somewhere.
Holds(n, e) == e \in file[n] \/ server[n][e] # 0 \/ saved[n][e] # 0 \/ doc[n][e] # 0

EditsAreKept == \A e \in made : \E n \in Nodes : Holds(n, e)

Agreement ==
  /\ TextsAreMade /\ OthersAreEmpty /\ RowsAndQueue
  /\ FilesFollow /\ ServersFollow /\ StatesFollow /\ EditsAreKept

RestInv == amiss = {} => Agreement

\* The text of a document is what was ever put in, and merging is a union.
LEMMA PlainMerge ==
  ASSUME NEW S, NEW c \in Documents, NEW d \in Documents, PlainOf(c, S), PlainOf(d, S)
  PROVE  /\ Text(d) = {e \in Edits : d[e] # 0} /\ Text(d) \subseteq S
         /\ PlainOf(Merge(c, d), S)
         /\ Within(c, Merge(c, d)) /\ Within(d, Merge(c, d))
         /\ Within(c, d) => Merge(c, d) = d
         /\ Within(d, c) => Merge(c, d) = c
  <1>1. \A e \in Edits : (c[e] = 0 \/ c[e] = 1) /\ (d[e] = 0 \/ (d[e] = 1 /\ e \in S))
    BY DEF PlainOf
  <1>2. \A e \in Edits : d[e] % 2 = 1 <=> d[e] # 0
    BY <1>1
  <1>3. Text(d) = {e \in Edits : d[e] # 0} /\ Text(d) \subseteq S
    BY <1>1, <1>2 DEF Text
  <1>4. PlainOf(Merge(c, d), S)
    BY DEF PlainOf, Merge
  <1>5. Within(c, Merge(c, d)) /\ Within(d, Merge(c, d))
    BY DEF Within, Merge, Documents
  <1>6. Within(c, d) => Merge(c, d) = d
    BY DEF Within, Merge, Documents
  <1>7. Within(d, c) => Merge(c, d) = c
    BY DEF Within, Merge, Documents
  <1> QED
    BY <1>3, <1>4, <1>5, <1>6, <1>7

\* A document that is made to read as more than it does only gets the new edits.
LEMMA PlainRewrite ==
  ASSUME NEW S, NEW d \in Documents, NEW text \in Texts, PlainOf(d, S), Text(d) \subseteq text, text \subseteq S
  PROVE  /\ PlainOf(Rewrite(d, text), S)
         /\ Text(Rewrite(d, text)) = text
         /\ Within(d, Rewrite(d, text))
  <1>1. ASSUME NEW e \in Edits
        PROVE  /\ Rewrite(d, text)[e] = (IF e \in text THEN 1 ELSE 0)
               /\ d[e] <= Rewrite(d, text)[e]
    <2>1. Rewrite(d, text)[e] = IF (e \in text) <=> (d[e] % 2 = 1) THEN d[e] ELSE d[e] + 1
      BY DEF Rewrite
    <2>2. CASE d[e] = 0
      <3>1. ~(d[e] % 2 = 1) /\ d[e] + 1 = 1
        BY <2>2
      <3> QED
        BY <2>1, <2>2, <3>1
    <2>3. CASE d[e] = 1
      <3>1. d[e] % 2 = 1
        BY <2>3
      <3>2. e \in text
        BY <3>1 DEF Text
      <3> QED
        BY <2>1, <2>3, <3>1, <3>2
    <2> QED
      BY <2>2, <2>3 DEF PlainOf
  <1>2. PlainOf(Rewrite(d, text), S)
    BY <1>1 DEF PlainOf
  <1>3. Within(d, Rewrite(d, text))
    BY <1>1 DEF Within
  <1>4. ASSUME NEW e \in Edits PROVE e \in Text(Rewrite(d, text)) <=> e \in text
    <2>1. Rewrite(d, text)[e] % 2 = 1 <=> e \in text
      BY <1>1
    <2> QED
      BY <2>1 DEF Text
  <1>5. Text(Rewrite(d, text)) = text
    <2>1. Text(Rewrite(d, text)) \subseteq Edits /\ text \subseteq Edits
      BY DEF Text, Texts
    <2> QED
      BY <1>4, <2>1
  <1> QED
    BY <1>2, <1>3, <1>5

\* Whatever a document was, it reads as it is made to.
LEMMA UnchangedByText ==
  ASSUME NEW S, NEW d \in Documents, NEW text \in Texts, PlainOf(d, S), Rewrite(d, text) = d
  PROVE  Text(d) = text
  <1>1. ASSUME NEW e \in Edits PROVE e \in text <=> d[e] % 2 = 1
    <2>1. Rewrite(d, text)[e] = IF (e \in text) <=> (d[e] % 2 = 1) THEN d[e] ELSE d[e] + 1
      BY DEF Rewrite
    <2>2. d[e] # d[e] + 1
      BY DEF Documents
    <2> QED
      BY <2>1, <2>2
  <1> QED
    BY <1>1 DEF Text, Texts

\* What a step does that has a text taken, or a call written, without a mishap.
LEMMA TakesQuietly ==
  ASSUME TypeOK, NEW n \in Nodes, TakeText(n), amiss' = {}
  PROVE  \/ /\ UNCHANGED <<server, doc, task, saving>>
            /\ n \in tracked => Untaken(n) = {} \/ Rewrite(doc[n], file[n]) = doc[n]
         \/ /\ n \in tracked /\ Text(doc[n]) \subseteq file[n]
            /\ doc' = [doc EXCEPT ![n] = Rewrite(doc[n], file[n])]
            /\ Send(n, Update(doc[n], Rewrite(doc[n], file[n])))
            /\ OnContentChanged(n, Rewrite(doc[n], file[n]), rows)
  <1> DEFINE d     == Rewrite(doc[n], file[n])
             takes == n \notin ignoring /\ n \in tracked /\ d # doc[n]
  <1>1. /\ IF takes
           THEN /\ doc' = [doc EXCEPT ![n] = d] /\ Send(n, Update(doc[n], d)) /\ OnContentChanged(n, d, rows)
           ELSE UNCHANGED <<doc, server, task, saving>>
        /\ Note(When(n \in ignoring /\ Untaken(n) # {}, "swallowed")
                \cup When(takes /\ ~(Text(doc[n]) \subseteq file[n]), "reverted"))
    BY DEF TakeText
  <1> HIDE DEF d
  <1>2. ~(n \in ignoring /\ Untaken(n) # {}) /\ ~(takes /\ ~(Text(doc[n]) \subseteq file[n]))
    BY <1>1 DEF Note, When
  <1> QED
    BY <1>1, <1>2 DEF d

LEMMA WritesQuietly ==
  ASSUME TypeOK, NEW t \in Tasks, NEW n, WriteFile(t), n = task[t].node, amiss' = {}
  PROVE  /\ file' = [file EXCEPT ![n] = task[t].text] /\ event' = n
         /\ task' = [task EXCEPT ![t] = IdleTask]
         /\ Untaken(n) \subseteq task[t].text
         /\ n \in Fresh => Brought(n)
         /\ event \notin {n, NoNode} => Untaken(event) = {}
  BY DEF WriteFile, Note, When

\* A call that begins takes the text of its document, and has it saved.
LEMMA ChangeBrings ==
  ASSUME TypeOK, NEW n \in Nodes, NEW d \in Documents, NEW known, OnContentChanged(n, d, known)
  PROVE  /\ \A t \in Tasks : task[t].phase # "idle" => task'[t] = task[t]
         /\ \A t \in Tasks : task'[t] = task[t] \/ (task'[t].node = n /\ task'[t].text = Text(d))
         /\ n \in known => \E t \in Tasks : task'[t].phase # "idle" /\ task'[t].node = n /\ task'[t].text = Text(d)
         /\ saving' = IF n \in known THEN saving \cup {n} ELSE saving
  <1>1. Text(d) \in Texts
    BY DEF Text, Texts
  <1> QED
    BY <1>1 DEF OnContentChanged, TypeOK

\* What is sent reaches the server, or nothing changes there.
LEMMA SendMerges ==
  ASSUME TypeOK, NEW n \in Nodes, NEW d \in Documents, Send(n, d)
  PROVE  /\ \A m \in Nodes \ {n} : server'[m] = server[m]
         /\ server'[n] = IF link = "up" THEN Merge(server[n], d) ELSE server[n]
  BY DEF Send, TypeOK

\* A server that has what the document had has all of it after the update.
LEMMA UpdateCatchesUp ==
  ASSUME NEW s \in Documents, NEW c \in Documents, NEW d \in Documents, Within(c, s)
  PROVE  Within(d, Merge(s, Update(c, d)))
  BY DEF Within, Merge, Update, Documents

\* An update has no edit that its document does not have.
LEMMA UpdatePlain ==
  ASSUME NEW S, NEW c, NEW d, PlainOf(d, S)
  PROVE  PlainOf(Update(c, d), S)
  BY DEF PlainOf, Update

\* The steps of the agreement's proof: those that leave documents and files alone
\* are taken together.
LEMMA Quiet ==
  ASSUME \/ \E t \in Tasks : FileAgrees(t) \/ FileDiffers(t)
         \/ OnFileModify \/ ReconcileProjection \/ Open \/ Lose
         \/ \E n \in Nodes : Expire(n)
         \/ UNCHANGED vars
  PROVE  UNCHANGED <<server, doc, saved, saving, file, made, tracked, listed>>
  BY DEF FileAgrees, FileDiffers, OnFileModify, ReconcileProjection, Open, Lose, Expire, vars,
         clientVars, rowVars, subVars, stateVars, vaultVars

\* No document and no file ever has an edit that was not made.
LEMMA MadeNext ==
  ASSUME IInv, TextsAreMade, [Next]_vars, amiss' = {}
  PROVE  TextsAreMade'
  <1> USE DEF clientVars, rowVars, subVars, stateVars, vaultVars, echoVars
  <1>0. TypeOK /\ TasksHaveNodes
    BY DEF IInv
  <1>t. \A n \in Nodes : /\ server[n] \in Documents /\ doc[n] \in Documents /\ saved[n] \in Documents
                         /\ file[n] \in Texts
    BY <1>0 DEF TypeOK
  <1>e. Empty \in Documents /\ \A S : PlainOf(Empty, S)
    BY DEF Empty, Documents, PlainOf
  <1>1. ASSUME NEW n \in Nodes, NEW d \in Documents, PlainOf(d, made), UNCHANGED <<made, saved, file>>,
               NEW u \in Documents, PlainOf(u, made),
               \A m \in Nodes : doc'[m] = doc[m] \/ (m = n /\ doc'[m] = d),
               \A m \in Nodes : server'[m] = server[m] \/ (m = n /\ server'[m] \in {d, Merge(server[n], u)}),
               UNCHANGED task \/ \E known : OnContentChanged(n, d, known)
        PROVE  TextsAreMade'
    <2>1. PlainOf(Merge(server[n], u), made) /\ Text(d) \subseteq made
      BY <1>t, <1>1, PlainMerge DEF TextsAreMade
    <2>2. \A t \in Tasks : task'[t] = task[t] \/ task'[t].text = Text(d)
      BY <1>0, <1>1, ChangeBrings
    <2> QED
      BY <1>1, <2>1, <2>2 DEF TextsAreMade
  <1>2. ASSUME NEW n \in Nodes, TakeText(n) PROVE TextsAreMade'
    <2> DEFINE d == Rewrite(doc[n], file[n])
               u == Update(doc[n], d)
    <2>1. UNCHANGED <<made, saved, file>>
      BY <1>2 DEF TakeText
    <2>2. CASE UNCHANGED <<server, doc, task, saving>>
      BY <2>1, <2>2 DEF TextsAreMade
    <2>3. CASE /\ Text(doc[n]) \subseteq file[n]
               /\ doc' = [doc EXCEPT ![n] = d] /\ Send(n, u) /\ OnContentChanged(n, d, rows)
      <3>1. d \in Documents /\ PlainOf(d, made)
        BY <1>t, <2>3, PlainRewrite, DocumentTypes DEF TextsAreMade
      <3>4. u \in Documents /\ PlainOf(u, made)
        BY <1>t, <3>1, UpdateTypes, UpdatePlain
      <3> HIDE DEF d, u
      <3>2. \A m \in Nodes : server'[m] = server[m] \/ (m = n /\ server'[m] = Merge(server[n], u))
        BY <1>0, <2>3, <3>4, SendMerges
      <3>3. \A m \in Nodes : doc'[m] = doc[m] \/ (m = n /\ doc'[m] = d)
        BY <1>0, <2>3 DEF TypeOK
      <3> QED
        BY <1>1, <2>1, <2>3, <3>1, <3>2, <3>3, <3>4
    <2> QED
      BY <1>0, <1>2, <2>2, <2>3, TakesQuietly
  <1>3. ASSUME NEW n \in Nodes, ReceiveText(n) PROVE TextsAreMade'
    <2> DEFINE d == Merge(doc[n], server[n])
    <2>1. d \in Documents /\ PlainOf(d, made)
      BY <1>t, PlainMerge, DocumentTypes DEF TextsAreMade, Texts
    <2>2. /\ UNCHANGED <<made, saved, file>> /\ doc' = [doc EXCEPT ![n] = d]
          /\ server' = server \/ server' = [server EXCEPT ![n] = d]
          /\ OnContentChanged(n, d, rows)
      BY <1>3 DEF ReceiveText
    <2> HIDE DEF d
    <2>3. /\ \A m \in Nodes : doc'[m] = doc[m] \/ (m = n /\ doc'[m] = d)
          /\ \A m \in Nodes : server'[m] = server[m] \/ (m = n /\ server'[m] = d)
      BY <1>0, <2>2 DEF TypeOK
    <2> QED
      BY <1>1, <2>1, <2>2, <2>3
  <1>4. ASSUME NEW n \in Nodes, NEW e \in Edits, UserCreates(n, e) PROVE TextsAreMade'
    <2> DEFINE d == Rewrite(Empty, {e})
               u == Update(Empty, d)
    <2>1. /\ made' = made \cup {e} /\ saved' = saved /\ file' = [file EXCEPT ![n] = {e}]
          /\ doc' = [doc EXCEPT ![n] = d] /\ Send(n, u)
          /\ \E known : OnContentChanged(n, d, known)
      BY <1>4 DEF UserCreates, SubscribeContent
    <2>2. d \in Documents /\ PlainOf(d, {e}) /\ Text(d) = {e}
      <3>1. {e} \in Texts /\ Text(Empty) = {}
        BY DEF Texts, Text, Empty
      <3> QED
        BY <1>e, <3>1, PlainRewrite, DocumentTypes
    <2>10. u \in Documents /\ PlainOf(u, {e})
      BY <1>e, <2>2, UpdateTypes, UpdatePlain
    <2> HIDE DEF d, u
    <2>3. \A c : PlainOf(c, made) \/ PlainOf(c, {e}) => PlainOf(c, made')
      BY <2>1 DEF PlainOf
    <2>4. PlainOf(Merge(server[n], u), made')
      BY <1>t, <2>10, <2>3, PlainMerge DEF TextsAreMade
    <2>5. \A m \in Nodes : server'[m] = server[m] \/ (m = n /\ server'[m] = Merge(server[n], u))
      BY <1>0, <2>1, <2>10, SendMerges
    <2>6. \A m \in Nodes : doc'[m] = doc[m] \/ doc'[m] = d
      BY <1>0, <2>1 DEF TypeOK
    <2>7. \A m \in Nodes : file'[m] = file[m] \/ file'[m] = {e}
      BY <1>0, <2>1 DEF TypeOK
    <2>8. \A t \in Tasks : task'[t] = task[t] \/ task'[t].text = {e}
      BY <1>0, <2>1, <2>2, ChangeBrings
    <2>9. \A m \in Nodes : PlainOf(server'[m], made') /\ PlainOf(doc'[m], made') /\ PlainOf(saved'[m], made')
      BY <2>1, <2>2, <2>3, <2>4, <2>5, <2>6 DEF TextsAreMade
    <2> QED
      BY <2>1, <2>7, <2>8, <2>9 DEF TextsAreMade
  <1>5. ASSUME NEW n \in Nodes, NEW e \in Edits, UserTypes(n, e) \/ OthersType(n, e) PROVE TextsAreMade'
    <2> DEFINE d == Rewrite(server[n], Text(server[n]) \cup {e})
    <2>1. /\ made' = made \cup {e} /\ UNCHANGED <<doc, saved, task>>
          /\ file' = file \/ file' = [file EXCEPT ![n] = @ \cup {e}]
          /\ server' = server \/ server' = [server EXCEPT ![n] = d]
      BY <1>5 DEF UserTypes, OthersType
    <2>2. \A c : PlainOf(c, made) => PlainOf(c, made')
      BY <2>1 DEF PlainOf
    <2>3. PlainOf(d, made')
      <3>1. Text(server[n]) \subseteq made
        BY <1>t, PlainMerge DEF TextsAreMade
      <3>2. Text(server[n]) \cup {e} \in Texts
        BY DEF Texts, Text
      <3> QED
        BY <1>t, <2>1, <2>2, <3>1, <3>2, PlainRewrite DEF TextsAreMade
    <2> HIDE DEF d
    <2>4. \A m \in Nodes : server'[m] = server[m] \/ server'[m] = d
      BY <1>0, <2>1 DEF TypeOK
    <2>5. \A m \in Nodes : file'[m] \subseteq file[m] \cup {e}
      BY <1>0, <2>1 DEF TypeOK
    <2> QED
      BY <2>1, <2>2, <2>3, <2>4, <2>5 DEF TextsAreMade
  <1>6. ASSUME NEW n \in Nodes, FinishLoading(n) \/ FinishSaving(n) PROVE TextsAreMade'
    <2>1. /\ UNCHANGED <<server, file, made, task>>
          /\ doc' = doc \/ doc' = [doc EXCEPT ![n] = saved[n]]
          /\ saved' = saved \/ saved' = [saved EXCEPT ![n] = doc[n]]
      BY <1>6 DEF FinishLoading, FinishSaving, SubscribeContent
    <2>2. \A m \in Nodes : doc'[m] \in {doc[m], saved[m]} /\ saved'[m] \in {doc[m], saved[m]}
      BY <1>0, <2>1 DEF TypeOK
    <2> QED
      BY <2>1, <2>2 DEF TextsAreMade
  <1>7. CASE Connect \/ Disconnect
    <2>1. UNCHANGED <<server, file, made, task, saved>> /\ doc' = [n \in Nodes |-> Empty]
      BY <1>7 DEF Connect, Disconnect
    <2> QED
      BY <1>e, <2>1 DEF TextsAreMade
  <1>8. ASSUME NEW t \in Tasks, WriteFile(t) PROVE TextsAreMade'
    <2>1. /\ UNCHANGED <<server, doc, saved, made>>
          /\ file' = [file EXCEPT ![task[t].node] = task[t].text]
          /\ task' = [task EXCEPT ![t] = IdleTask] /\ task[t].phase # "idle"
      BY <1>8 DEF WriteFile
    <2>2. /\ \A m \in Nodes : file'[m] = file[m] \/ file'[m] = task[t].text
          /\ \A u \in Tasks : task'[u] = task[u] \/ task'[u].phase = "idle"
      BY <1>0, <2>1 DEF TypeOK, IdleTask
    <2> QED
      BY <2>1, <2>2 DEF TextsAreMade
  <1>9. ASSUME NEW t \in Tasks, FileAgrees(t) \/ FileDiffers(t) PROVE TextsAreMade'
    <2>1. UNCHANGED <<server, doc, saved, file, made>>
      BY <1>9, Quiet
    <2>2. \A u \in Tasks : task'[u].phase # "idle" => task[u].phase # "idle" /\ task'[u].text = task[u].text
      BY <1>0, <1>9 DEF FileAgrees, FileDiffers, TypeOK, IdleTask
    <2> QED
      BY <2>1, <2>2 DEF TextsAreMade
  <1>10. CASE \/ OnFileModify \/ ReconcileProjection \/ Open \/ Lose
              \/ \E n \in Nodes : Expire(n)
              \/ UNCHANGED vars
    <2>1. UNCHANGED <<server, doc, saved, file, made, task>>
      BY <1>10 DEF OnFileModify, ReconcileProjection, Open, Lose, Expire, vars
    <2> QED
      BY <2>1 DEF TextsAreMade
  <1> QED
    BY <1>2, <1>3, <1>4, <1>5, <1>6, <1>7, <1>8, <1>9, <1>10, NextSplits

\* Nothing comes to be of a node that is not in the manifest, and documents are
\* given up with their client.
LEMMA EmptyNext ==
  ASSUME IInv, OthersAreEmpty, [Next]_vars, amiss' = {}
  PROVE  OthersAreEmpty'
  <1> USE DEF clientVars, rowVars, subVars, stateVars, vaultVars, echoVars
  <1>0. TypeOK /\ TasksHaveNodes /\ NodesAreListed
    BY DEF IInv
  <1>1. ASSUME NEW n \in listed', NEW d \in Documents, n \in Nodes, listed \subseteq listed',
               tracked \subseteq tracked',
               \A m \in Nodes \ {n} : /\ server'[m] = server[m] /\ doc'[m] = doc[m]
                                      /\ saved'[m] = saved[m] /\ file'[m] = file[m],
               doc'[n] = doc[n] \/ n \in tracked',
               \A t \in Tasks : task'[t].phase # "idle" =>
                 task'[t].node = n \/ (task[t].phase # "idle" /\ task'[t].node = task[t].node)
        PROVE  OthersAreEmpty'
    BY <1>1 DEF OthersAreEmpty
  <1>2. ASSUME NEW n \in Nodes, TakeText(n) PROVE OthersAreEmpty'
    <2> DEFINE d == Rewrite(doc[n], file[n])
               u == Update(doc[n], d)
    <2>1. UNCHANGED <<listed, tracked, saved, file>>
      BY <1>2 DEF TakeText
    <2>2. CASE UNCHANGED <<server, doc, task, saving>>
      BY <2>1, <2>2 DEF OthersAreEmpty
    <2>3. CASE /\ n \in tracked
               /\ doc' = [doc EXCEPT ![n] = d] /\ Send(n, u) /\ OnContentChanged(n, d, rows)
      <3>1. d \in Documents /\ u \in Documents
        <4>1. doc[n] \in Documents /\ d \in Documents
          BY <1>0, DocumentTypes DEF TypeOK
        <4> QED
          BY <4>1, UpdateTypes
      <3> HIDE DEF d, u
      <3>2. n \in listed'
        BY <1>0, <2>1, <2>3 DEF NodesAreListed
      <3>3. \A m \in Nodes \ {n} : server'[m] = server[m] /\ doc'[m] = doc[m]
        BY <1>0, <2>3, <3>1, SendMerges DEF TypeOK
      <3>4. \A t \in Tasks : task'[t] = task[t] \/ task'[t].node = n
        BY <1>0, <2>3, <3>1, ChangeBrings
      <3> QED
        BY <1>1, <2>1, <2>3, <3>1, <3>2, <3>3, <3>4
    <2> QED
      BY <1>0, <1>2, <2>2, <2>3, TakesQuietly
  <1>3. ASSUME NEW n \in Nodes, ReceiveText(n) PROVE OthersAreEmpty'
    <2> DEFINE d == Merge(doc[n], server[n])
    <2>1. /\ UNCHANGED <<tracked, listed, saved, file>> /\ doc' = [doc EXCEPT ![n] = d]
          /\ server' = server \/ server' = [server EXCEPT ![n] = d]
          /\ OnContentChanged(n, d, rows) /\ n \in tracked
      BY <1>3 DEF ReceiveText
    <2>2. d \in Documents
      BY <1>0, DocumentTypes DEF TypeOK, Texts
    <2> HIDE DEF d
    <2>3. n \in listed'
      BY <1>0, <2>1 DEF NodesAreListed
    <2>4. \A m \in Nodes \ {n} : server'[m] = server[m] /\ doc'[m] = doc[m]
      BY <1>0, <2>1 DEF TypeOK
    <2>5. \A t \in Tasks : task'[t] = task[t] \/ task'[t].node = n
      BY <1>0, <2>1, <2>2, ChangeBrings
    <2> QED
      BY <1>1, <2>1, <2>2, <2>3, <2>4, <2>5
  <1>4. ASSUME NEW n \in Nodes, NEW e \in Edits, UserCreates(n, e) PROVE OthersAreEmpty'
    <2> DEFINE d == Rewrite(Empty, {e})
               u == Update(Empty, d)
    <2>1. /\ listed' = listed \cup {n} /\ saved' = saved /\ file' = [file EXCEPT ![n] = {e}]
          /\ doc' = [doc EXCEPT ![n] = d] /\ Send(n, u) /\ tracked' = tracked \cup {n}
          /\ \E known : OnContentChanged(n, d, known)
      BY <1>4 DEF UserCreates, SubscribeContent
    <2>2. d \in Documents /\ u \in Documents
      BY DEF Rewrite, Update, Empty, Documents
    <2> HIDE DEF d, u
    <2>3. \A m \in Nodes \ {n} : /\ server'[m] = server[m] /\ doc'[m] = doc[m]
                                 /\ saved'[m] = saved[m] /\ file'[m] = file[m]
      BY <1>0, <2>1, <2>2, SendMerges DEF TypeOK
    <2>4. \A t \in Tasks : task'[t] = task[t] \/ task'[t].node = n
      BY <1>0, <2>1, <2>2, ChangeBrings
    <2> QED
      BY <1>1, <2>1, <2>2, <2>3, <2>4
  <1>5. ASSUME NEW n \in Nodes, NEW e \in Edits, UserTypes(n, e) \/ OthersType(n, e) PROVE OthersAreEmpty'
    <2>1. /\ UNCHANGED <<doc, saved, task, listed, tracked>> /\ n \in listed
          /\ file' = file \/ file' = [file EXCEPT ![n] = @ \cup {e}]
          /\ server' = server \/ server' = [server EXCEPT ![n] = Rewrite(@, Text(@) \cup {e})]
      BY <1>5 DEF UserTypes, OthersType
    <2>2. \A m \in Nodes \ {n} : server'[m] = server[m] /\ file'[m] = file[m]
      BY <1>0, <2>1 DEF TypeOK
    <2> QED
      BY <2>1, <2>2 DEF OthersAreEmpty
  <1>6. ASSUME NEW n \in Nodes, FinishLoading(n) PROVE OthersAreEmpty'
    <2>1. /\ UNCHANGED <<server, file, task, saved, listed>>
          /\ \/ UNCHANGED <<doc, tracked>>
             \/ doc' = [doc EXCEPT ![n] = saved[n]] /\ tracked' = tracked \cup {n}
      BY <1>6 DEF FinishLoading, SubscribeContent
    <2>2. \A m \in Nodes \ tracked' : m \notin tracked /\ doc'[m] = doc[m]
      BY <1>0, <2>1 DEF TypeOK
    <2> QED
      BY <2>1, <2>2 DEF OthersAreEmpty
  <1>7. ASSUME NEW n \in Nodes, FinishSaving(n) PROVE OthersAreEmpty'
    <2>1. /\ UNCHANGED <<server, file, task, doc, tracked, listed>>
          /\ saved' = saved \/ (n \in tracked /\ saved' = [saved EXCEPT ![n] = doc[n]])
      BY <1>7 DEF FinishSaving
    <2>2. \A m \in Nodes \ listed : saved'[m] = saved[m]
      BY <1>0, <2>1 DEF TypeOK, NodesAreListed
    <2> QED
      BY <2>1, <2>2 DEF OthersAreEmpty
  <1>8. CASE Connect \/ Disconnect
    <2>1. UNCHANGED <<server, file, task, saved, listed>> /\ doc' = [n \in Nodes |-> Empty]
      BY <1>8 DEF Connect, Disconnect
    <2> QED
      BY <2>1 DEF OthersAreEmpty
  <1>9. ASSUME NEW t \in Tasks, WriteFile(t) PROVE OthersAreEmpty'
    <2>1. /\ UNCHANGED <<server, doc, saved, listed, tracked>>
          /\ file' = [file EXCEPT ![task[t].node] = task[t].text]
          /\ task' = [task EXCEPT ![t] = IdleTask] /\ task[t].phase # "idle"
      BY <1>9 DEF WriteFile
    <2>2. task[t].node \in listed
      BY <2>1 DEF OthersAreEmpty
    <2>3. /\ \A m \in Nodes \ listed : file'[m] = file[m]
          /\ \A u \in Tasks : task'[u] = task[u] \/ task'[u].phase = "idle"
      BY <1>0, <2>1, <2>2 DEF TypeOK, IdleTask
    <2> QED
      BY <2>1, <2>3 DEF OthersAreEmpty
  <1>10. ASSUME NEW t \in Tasks, FileAgrees(t) \/ FileDiffers(t) PROVE OthersAreEmpty'
    <2>1. UNCHANGED <<server, doc, saved, file, listed, tracked>>
      BY <1>10, Quiet
    <2>2. \A u \in Tasks : task'[u].phase # "idle" => task[u].phase # "idle" /\ task'[u].node = task[u].node
      BY <1>0, <1>10 DEF FileAgrees, FileDiffers, TypeOK, IdleTask
    <2> QED
      BY <2>1, <2>2 DEF OthersAreEmpty
  <1>11. CASE \/ OnFileModify \/ ReconcileProjection \/ Open \/ Lose
              \/ \E n \in Nodes : Expire(n)
              \/ UNCHANGED vars
    <2>1. UNCHANGED <<server, doc, saved, file, task, listed, tracked>>
      BY <1>11 DEF OnFileModify, ReconcileProjection, Open, Lose, Expire, vars
    <2> QED
      BY <2>1 DEF OthersAreEmpty
  <1> QED
    BY <1>2, <1>3, <1>4, <1>5, <1>6, <1>7, <1>8, <1>9, <1>10, <1>11, NextSplits

\* What the rows, the queue and the subscriptions are changed by.
LEMMA RowsNext ==
  ASSUME IInv, RowsAndQueue, [Next]_vars, amiss' = {}
  PROVE  RowsAndQueue'
  <1> USE DEF clientVars, rowVars, subVars, stateVars, vaultVars, echoVars
  <1>0. TypeOK /\ NodesAreListed
    BY DEF IInv
  <1>1. ASSUME UNCHANGED <<link, tracked, queued, rows, asked, listed, subscribed, loading>>
        PROVE  RowsAndQueue'
    BY <1>1 DEF RowsAndQueue
  <1>2. CASE ReconcileProjection
    <2>1. /\ asked' = FALSE /\ rows' = listed /\ subscribed' = subscribed \cup (listed \ subscribed)
          /\ \A n \in Nodes : loading'[n] > 0 => loading[n] > 0 \/ n \in listed
          /\ UNCHANGED <<link, tracked, queued, listed>>
      BY <1>0, <1>2 DEF ReconcileProjection, TypeOK
    <2> QED
      BY <1>0, <2>1 DEF RowsAndQueue, NodesAreListed
  <1>3. ASSUME NEW n \in Nodes, FinishLoading(n) PROVE RowsAndQueue'
    <2>1. /\ loading[n] > 0 /\ UNCHANGED <<link, rows, asked, listed, subscribed>>
          /\ \A m \in Nodes : loading'[m] > 0 => loading[m] > 0
          /\ \/ UNCHANGED <<tracked, queued>>
             \/ /\ tracked' = tracked \cup {n}
                /\ queued' = IF link \in {"opening", "lost"} THEN queued \cup {n} ELSE queued
      BY <1>0, <1>3 DEF FinishLoading, SubscribeContent, TypeOK
    <2> QED
      BY <2>1 DEF RowsAndQueue
  <1>4. ASSUME NEW n \in Nodes, NEW e \in Edits, UserCreates(n, e) PROVE RowsAndQueue'
    <2>1. /\ rows' = listed \cup {n} /\ listed' = listed \cup {n} /\ asked' = TRUE
          /\ tracked' = tracked \cup {n} /\ UNCHANGED <<link, loading>>
          /\ queued' = IF link \in {"opening", "lost"} THEN queued \cup {n} ELSE queued
      BY <1>4 DEF UserCreates, SubscribeContent, Note, When
    <2> QED
      BY <1>0, <2>1 DEF RowsAndQueue, NodesAreListed
  <1>5. CASE Connect
    <2>1. link' = "opening" /\ tracked' = {} /\ UNCHANGED <<rows, loading>>
      BY <1>5 DEF Connect
    <2> QED
      BY <2>1 DEF RowsAndQueue
  <1>6. CASE Open
    <2>1. link' = "up" /\ queued' = {} /\ asked' = TRUE /\ UNCHANGED <<tracked, rows, loading>>
      BY <1>6 DEF Open
    <2> QED
      BY <2>1 DEF RowsAndQueue
  <1>7. CASE Lose
    <2>1. link' = "lost" /\ UNCHANGED <<tracked, rows, loading>>
      BY <1>7 DEF Lose
    <2> QED
      BY <2>1 DEF RowsAndQueue
  <1>8. CASE Disconnect
    <2>1. /\ link' = "none" /\ tracked' = {} /\ UNCHANGED loading
          /\ ~\E n \in Nodes : loading[n] > 0
      BY <1>8 DEF Disconnect, Note, When
    <2> QED
      BY <2>1 DEF RowsAndQueue
  <1>9. ASSUME NEW t \in Tasks, FileAgrees(t) \/ FileDiffers(t) \/ WriteFile(t)
        PROVE  UNCHANGED <<link, tracked, queued, rows, asked, listed, subscribed, loading>>
    BY <1>9 DEF FileAgrees, FileDiffers, WriteFile
  <1>10. ASSUME NEW n \in Nodes, TakeText(n) \/ Expire(n) \/ FinishSaving(n) \/ ReceiveText(n)
         PROVE  UNCHANGED <<link, tracked, queued, rows, asked, listed, subscribed, loading>>
    BY <1>10 DEF TakeText, Expire, FinishSaving, ReceiveText
  <1>11. ASSUME NEW n \in Nodes, NEW e \in Edits, UserTypes(n, e) \/ OthersType(n, e)
         PROVE  UNCHANGED <<link, tracked, queued, rows, asked, listed, subscribed, loading>>
    BY <1>11 DEF UserTypes, OthersType
  <1>12. CASE OnFileModify \/ UNCHANGED vars
    BY <1>1, <1>12 DEF OnFileModify, vars
  <1> QED
    BY <1>1, <1>2, <1>3, <1>4, <1>5, <1>6, <1>7, <1>8, <1>9, <1>10, <1>11, <1>12, NextSplits

\* A file that has the text of its document, and no edit that is untaken, has
\* nothing else.
LEMMA FilesHaveMore ==
  ASSUME TypeOK, TextsAreMade, NEW n \in Nodes, Text(doc[n]) \subseteq file[n], Untaken(n) = {}
  PROVE  file[n] = Text(doc[n])
  <1>1. doc[n] \in Documents /\ PlainOf(doc[n], made) /\ file[n] \subseteq Edits
    BY DEF TypeOK, TextsAreMade, Texts
  <1>2. Text(doc[n]) = {e \in Edits : doc[n][e] # 0}
    BY <1>1, PlainMerge
  <1> QED
    BY <1>1, <1>2 DEF Untaken

\* A step that leaves fresh documents, files and calls alone, and events that
\* have something to be taken, leaves the files following.
LEMMA FollowsStill ==
  ASSUME TypeOK, FilesFollow, TextsAreMade,
         \A m \in Fresh' : /\ m \in Fresh /\ doc'[m] = doc[m] /\ file'[m] = file[m]
                           /\ (event = m \/ m \in handling) /\ Untaken(m) # {}
                                => event' = m \/ m \in handling',
         \A t \in Tasks : task[t].phase # "idle" =>
           /\ task'[t].phase # "idle"
           /\ task'[t].node = task[t].node /\ task'[t].text = task[t].text
  PROVE  FilesFollow'
  <1> SUFFICES ASSUME NEW m \in Fresh'
               PROVE  \/ file'[m] = Text(doc'[m])
                      \/ Brought(m)'
                      \/ Text(doc'[m]) \subseteq file'[m] /\ (event' = m \/ m \in handling')
    BY DEF FilesFollow
  <1>1. m \in Fresh /\ doc'[m] = doc[m] /\ file'[m] = file[m]
    OBVIOUS
  <1>2. Brought(m) => Brought(m)'
    BY <1>1 DEF Brought
  <1>3. m \in Nodes
    BY <1>1 DEF Fresh, TypeOK
  <1>4. Text(doc[m]) \subseteq file[m] /\ Untaken(m) = {} => file[m] = Text(doc[m])
    BY <1>3, FilesHaveMore
  <1> QED
    BY <1>1, <1>2, <1>4 DEF FilesFollow

\* The files go on following their documents.
LEMMA FollowNext ==
  ASSUME IInv, amiss = {}, Agreement, [Next]_vars, amiss' = {}
  PROVE  FilesFollow'
  <1> USE DEF clientVars, rowVars, subVars, stateVars, vaultVars, echoVars
  <1>0. TypeOK /\ TasksHaveNodes /\ NodesAreListed /\ FilesFollow /\ TextsAreMade /\ RowsAndQueue
    BY DEF IInv, Agreement
  <1>f. Fresh \subseteq Nodes /\ Fresh \subseteq tracked /\ tracked \subseteq Nodes
    BY <1>0 DEF Fresh, TypeOK
  <1>1. ASSUME NEW n \in Nodes, NEW d \in Documents, OnContentChanged(n, d, rows), n \in rows,
               UNCHANGED <<file, event>>, doc' = [doc EXCEPT ![n] = d], Fresh' \subseteq Fresh \cup {n},
               \A m \in Nodes \ {n} : m \in handling => m \in handling'
        PROVE  FilesFollow'
    <2>1. Brought(n)'
      BY <1>0, <1>1, ChangeBrings DEF Brought, TypeOK
    <2>2. ASSUME NEW m \in Fresh', m # n
          PROVE  \/ file'[m] = Text(doc'[m])
                 \/ Brought(m)'
                 \/ Text(doc'[m]) \subseteq file'[m] /\ (event' = m \/ m \in handling')
      <3>1. m \in Fresh /\ m \in Nodes /\ doc'[m] = doc[m]
        BY <1>0, <1>1, <1>f, <2>2 DEF TypeOK
      <3>2. Brought(m) => Brought(m)'
        BY <1>0, <1>1, <3>1, ChangeBrings DEF Brought
      <3> QED
        BY <1>0, <1>1, <2>2, <3>1, <3>2 DEF FilesFollow
    <2> QED
      BY <2>1, <2>2 DEF FilesFollow
  <1>2. ASSUME NEW n \in Nodes, TakeText(n) PROVE FilesFollow'
    <2> DEFINE d == Rewrite(doc[n], file[n])
    <2>1. /\ UNCHANGED <<tracked, due, queued, file, event, rows>> /\ handling' = handling \ {n}
      BY <1>2 DEF TakeText
    <2>2. Fresh' = Fresh
      BY <2>1 DEF Fresh
    <2>3. CASE /\ UNCHANGED <<server, doc, task, saving>>
               /\ n \in tracked => Untaken(n) = {} \/ d = doc[n]
      <3>1. n \in tracked /\ d = doc[n] => file[n] = Text(doc[n])
        BY <1>0, UnchangedByText DEF TypeOK, TextsAreMade
      <3>2. n \in Fresh /\ Text(doc[n]) \subseteq file[n] => file[n] = Text(doc[n])
        BY <1>0, <1>f, <2>3, <3>1, FilesHaveMore
      <3>3. \A m \in Nodes : Brought(m) => Brought(m)'
        BY <2>3 DEF Brought
      <3> QED
        BY <1>0, <1>f, <2>1, <2>2, <2>3, <3>2, <3>3 DEF FilesFollow
    <2>4. CASE /\ n \in tracked
               /\ doc' = [doc EXCEPT ![n] = d] /\ OnContentChanged(n, d, rows)
      <3>1. d \in Documents
        BY <1>0, DocumentTypes DEF TypeOK
      <3>2. n \in rows
        BY <1>0, <2>4 DEF RowsAndQueue
      <3> HIDE DEF d
      <3> QED
        BY <1>1, <2>1, <2>2, <2>4, <3>1, <3>2
    <2> QED
      BY <1>0, <1>2, <2>3, <2>4, TakesQuietly
  <1>3. ASSUME NEW n \in Nodes, ReceiveText(n) PROVE FilesFollow'
    <2> DEFINE d == Merge(doc[n], server[n])
    <2>1. /\ UNCHANGED <<tracked, queued, file, event, handling>> /\ due' = due \ {n}
          /\ doc' = [doc EXCEPT ![n] = d] /\ OnContentChanged(n, d, rows) /\ n \in tracked
      BY <1>3 DEF ReceiveText
    <2>2. d \in Documents
      BY <1>0, DocumentTypes DEF TypeOK, Texts
    <2> HIDE DEF d
    <2>3. Fresh' \subseteq Fresh \cup {n} /\ n \in rows
      BY <1>0, <2>1 DEF Fresh, RowsAndQueue
    <2> QED
      BY <1>1, <2>1, <2>2, <2>3
  <1>4. ASSUME NEW n \in Nodes, NEW e \in Edits, UserCreates(n, e) PROVE FilesFollow'
    <2> DEFINE d == Rewrite(Empty, {e})
    <2>1. /\ UNCHANGED <<event, handling>> /\ file' = [file EXCEPT ![n] = {e}]
          /\ tracked' = tracked \cup {n} /\ due \subseteq due' /\ queued \subseteq queued'
          /\ doc' = [doc EXCEPT ![n] = d] /\ \E known : OnContentChanged(n, d, known)
      BY <1>4 DEF UserCreates, SubscribeContent
    <2>2. d \in Documents /\ Text(d) = {e}
      <3>1. {e} \in Texts /\ Text(Empty) = {} /\ Empty \in Documents /\ PlainOf(Empty, {e})
        BY DEF Texts, Text, Empty, PlainOf, Documents
      <3> QED
        BY <3>1, PlainRewrite, DocumentTypes
    <2> HIDE DEF d
    <2>3. file'[n] = Text(doc'[n])
      BY <1>0, <2>1, <2>2 DEF TypeOK
    <2>4. ASSUME NEW m \in Fresh', m # n
          PROVE  \/ file'[m] = Text(doc'[m])
                 \/ Brought(m)'
                 \/ Text(doc'[m]) \subseteq file'[m] /\ (event' = m \/ m \in handling')
      <3>1. m \in Fresh /\ m \in Nodes
        BY <1>f, <2>1, <2>4 DEF Fresh
      <3>2. doc'[m] = doc[m] /\ file'[m] = file[m]
        BY <1>0, <2>1, <2>4, <3>1 DEF TypeOK
      <3>3. Brought(m) => Brought(m)'
        BY <1>0, <2>1, <2>2, <3>2, ChangeBrings DEF Brought
      <3> QED
        BY <1>0, <2>1, <3>1, <3>2, <3>3 DEF FilesFollow
    <2> QED
      BY <2>3, <2>4 DEF FilesFollow
  <1>5. ASSUME NEW n \in Nodes, NEW e \in Edits, UserTypes(n, e) PROVE FilesFollow'
    <2>1. /\ UNCHANGED <<tracked, due, queued, doc, task, handling>> /\ event' = n
          /\ file' = [file EXCEPT ![n] = @ \cup {e}]
          /\ event \notin {n, NoNode} => Untaken(event) = {}
      BY <1>5 DEF UserTypes, Note, When
    <2>2. Fresh' = Fresh /\ \A m \in Nodes : Brought(m) => Brought(m)'
      BY <2>1 DEF Fresh, Brought
    <2>3. ASSUME NEW m \in Fresh, m # n, event = m, Text(doc[m]) \subseteq file[m]
          PROVE  file[m] = Text(doc[m])
      BY <1>0, <1>f, <2>1, <2>3, FilesHaveMore, PluginContentAssumption
    <2>4. /\ file[n] \subseteq file'[n]
          /\ \A m \in Nodes \ {n} : file'[m] = file[m]
      BY <1>0, <2>1 DEF TypeOK
    <2> QED
      BY <1>0, <1>f, <2>1, <2>2, <2>3, <2>4 DEF FilesFollow
  <1>6. ASSUME NEW t \in Tasks, WriteFile(t), NEW n \in Nodes, n = task[t].node PROVE FilesFollow'
    <2>1. /\ file' = [file EXCEPT ![n] = task[t].text] /\ event' = n
          /\ task' = [task EXCEPT ![t] = IdleTask]
          /\ n \in Fresh => Brought(n)
          /\ event \notin {n, NoNode} => Untaken(event) = {}
      BY <1>0, <1>6, WritesQuietly
    <2>2. UNCHANGED <<tracked, due, queued, doc, handling>>
      BY <1>6 DEF WriteFile
    <2>3. Fresh' = Fresh
      BY <2>2 DEF Fresh
    <2>4. /\ file'[n] = task[t].text /\ \A m \in Nodes \ {n} : file'[m] = file[m]
          /\ \A u \in Tasks \ {t} : task'[u] = task[u]
      BY <1>0, <2>1, <2>2 DEF TypeOK
    <2>5. ASSUME NEW m \in Nodes, Brought(m), m # n \/ task[t].text # Text(doc[m])
          PROVE  Brought(m)'
      <3>1. PICK u \in Tasks : task[u].phase # "idle" /\ task[u].node = m /\ task[u].text = Text(doc[m])
        BY <2>5 DEF Brought
      <3>2. u # t
        BY <1>6, <2>5, <3>1
      <3> QED
        BY <2>2, <2>4, <3>1, <3>2 DEF Brought
    <2>6. ASSUME NEW m \in Fresh, m # n, event = m, Text(doc[m]) \subseteq file[m]
          PROVE  file[m] = Text(doc[m])
      BY <1>0, <1>f, <2>1, <2>6, FilesHaveMore, PluginContentAssumption
    <2>7. n \in Fresh => file'[n] = Text(doc'[n]) \/ Brought(n)'
      <3>1. CASE task[t].text = Text(doc[n])
        BY <2>2, <2>4, <3>1
      <3>2. CASE task[t].text # Text(doc[n])
        BY <2>1, <2>2, <2>5, <3>2
      <3> QED
        BY <3>1, <3>2
    <2>8. ASSUME NEW m \in Fresh, m # n
          PROVE  \/ file'[m] = Text(doc'[m])
                 \/ Brought(m)'
                 \/ Text(doc'[m]) \subseteq file'[m] /\ (event' = m \/ m \in handling')
      <3>1. m \in Nodes /\ file'[m] = file[m] /\ doc'[m] = doc[m] /\ handling' = handling
        BY <1>f, <2>2, <2>4, <2>8
      <3>2. Brought(m) => Brought(m)'
        BY <2>5, <2>8, <3>1
      <3> QED
        BY <1>0, <2>6, <2>8, <3>1, <3>2 DEF FilesFollow
    <2> QED
      BY <2>3, <2>7, <2>8 DEF FilesFollow
  <1>7. ASSUME NEW t \in Tasks, FileAgrees(t) PROVE FilesFollow'
    <2>1. /\ UNCHANGED <<tracked, due, queued, doc, file, event, handling>>
          /\ task' = [task EXCEPT ![t] = IdleTask] /\ file[task[t].node] = task[t].text
      BY <1>7 DEF FileAgrees
    <2>2. \A u \in Tasks \ {t} : task'[u] = task[u]
      BY <1>0, <2>1 DEF TypeOK
    <2>3. \A m \in Nodes : Brought(m) => Brought(m)' \/ file[m] = Text(doc[m])
      BY <2>1, <2>2 DEF Brought
    <2>4. Fresh' = Fresh
      BY <2>1 DEF Fresh
    <2> QED
      BY <1>0, <1>f, <2>1, <2>3, <2>4 DEF FilesFollow
  <1>8. ASSUME NEW t \in Tasks, FileDiffers(t) PROVE FilesFollow'
    <2>1. UNCHANGED <<tracked, due, queued, doc, file, event, handling>> /\ Fresh' = Fresh
      BY <1>8 DEF FileDiffers, Fresh
    <2>2. \A u \in Tasks : task[u].phase # "idle" =>
            /\ task'[u].phase # "idle"
            /\ task'[u].node = task[u].node /\ task'[u].text = task[u].text
      BY <1>0, <1>8 DEF FileDiffers, TypeOK
    <2> QED
      BY <1>0, <2>1, <2>2, FollowsStill
  <1>9. CASE OnFileModify
    <2>1. /\ UNCHANGED <<tracked, due, queued, doc, file, task>> /\ Fresh' = Fresh
          /\ handling \subseteq handling'
          /\ \/ event \in handling'
             \/ event \in ignoring \/ link = "none" \/ event \notin rows
          /\ ~(event \in ignoring /\ Untaken(event) # {})
          /\ ~(event \notin rows /\ link # "none" /\ Untaken(event) # {})
      BY <1>9 DEF OnFileModify, Fresh, Note, When
    <2>2. link = "none" => tracked = {}
      BY DEF IInv, LoadedOnce, NodesAreListed
    <2>3. \A m \in Fresh : event = m /\ Untaken(m) # {} => m \in handling'
      BY <1>f, <2>1, <2>2
    <2> QED
      BY <1>0, <2>1, <2>3, FollowsStill
  <1>10. ASSUME NEW n \in Nodes, FinishLoading(n) PROVE FilesFollow'
    <2>1. UNCHANGED <<file, task, event, handling, link>>
      BY <1>10 DEF FinishLoading
    <2>2. Fresh' \subseteq Fresh /\ \A m \in Fresh' : doc'[m] = doc[m]
      <3>1. CASE UNCHANGED <<tracked, doc, due, queued>>
        BY <3>1 DEF Fresh
      <3>2. CASE link # "none" /\ SubscribeContent(n, saved[n])
        <4>1. link \in {"opening", "lost", "up"}
          BY <1>0, <3>2 DEF TypeOK, Links
        <4>2. n \in due' \cup queued'
          BY <3>2, <4>1 DEF SubscribeContent
        <4> QED
          BY <1>0, <3>2, <4>2 DEF SubscribeContent, Fresh, TypeOK
      <3> QED
        BY <1>10, <3>1, <3>2 DEF FinishLoading
    <2> QED
      BY <1>0, <2>1, <2>2, FollowsStill
  <1>11. CASE Connect \/ Disconnect
    <2>1. Fresh' = {}
      BY <1>11 DEF Connect, Disconnect, Fresh
    <2> QED
      BY <2>1 DEF FilesFollow
  <1>12. CASE \/ ReconcileProjection \/ Open \/ Lose
              \/ \E n \in Nodes : Expire(n) \/ FinishSaving(n)
              \/ \E n \in Nodes, e \in Edits : OthersType(n, e)
              \/ UNCHANGED vars
    <2>1. UNCHANGED <<doc, file, task, event, handling, tracked>> /\ due \cup queued \subseteq due' \cup queued'
      BY <1>12 DEF ReconcileProjection, Open, Lose, Expire, FinishSaving, OthersType, vars
    <2>2. Fresh' \subseteq Fresh
      BY <2>1 DEF Fresh
    <2> QED
      BY <1>0, <2>1, <2>2, FollowsStill
  <1>13. ASSUME NEW t \in Tasks, WriteFile(t) PROVE FilesFollow'
    BY <1>0, <1>6, <1>13 DEF WriteFile, TasksHaveNodes
  <1> QED
    BY <1>2, <1>3, <1>4, <1>5, <1>7, <1>8, <1>9, <1>10, <1>11, <1>12, <1>13, NextSplits

\* What is within what.
LEMMA WithinMerge ==
  ASSUME NEW c \in Documents, NEW d \in Documents
  PROVE  /\ Within(c, c) /\ Within(Empty, c)
         /\ Within(c, Merge(c, d)) /\ Within(d, Merge(c, d))
         /\ Within(c, d) => Merge(c, d) = d
  <1>1. Within(c, c)
    BY DEF Within, Documents
  <1>2. Within(Empty, c)
    BY DEF Within, Documents, Empty
  <1>3. Within(c, Merge(c, d)) /\ Within(d, Merge(c, d))
    BY DEF Within, Merge, Documents
  <1>4. Within(c, d) => Merge(c, d) = d
    BY DEF Within, Merge, Documents
  <1> QED
    BY <1>1, <1>2, <1>3, <1>4

LEMMA WithinSteps ==
  ASSUME NEW a \in Documents, NEW b \in Documents, NEW c \in Documents, Within(a, b), Within(b, c)
  PROVE  Within(a, c)
  BY DEF Within, Documents

\* An edit that a document has, every document has that holds it.
LEMMA WithinHas ==
  ASSUME NEW c \in Documents, NEW d \in Documents, Within(c, d), NEW e \in Edits, c[e] # 0
  PROVE  d[e] # 0
  BY DEF Within, Documents

\* A document is fresh only after the server has answered for it.
LEMMA SubscribedIsDue ==
  ASSUME TypeOK, NEW n \in Nodes, NEW d \in Documents, link # "none", SubscribeContent(n, d)
  PROVE  /\ Fresh' = Fresh \ {n} /\ tracked' = tracked \cup {n}
         /\ doc'[n] = d /\ \A m \in Nodes \ {n} : doc'[m] = doc[m]
  <1>1. link \in {"opening", "lost", "up"}
    BY DEF TypeOK, Links
  <1>2. /\ tracked' = tracked \cup {n}
        /\ due' \cup queued' = due \cup queued \cup {n}
    BY <1>1 DEF SubscribeContent
  <1>3. doc'[n] = d /\ \A m \in Nodes \ {n} : doc'[m] = doc[m]
    BY DEF SubscribeContent, TypeOK
  <1> QED
    BY <1>2, <1>3 DEF Fresh

\* The server goes on having what the fresh documents have.
LEMMA ServersNext ==
  ASSUME IInv, amiss = {}, Agreement, [Next]_vars, amiss' = {}
  PROVE  ServersFollow'
  <1> USE DEF clientVars, rowVars, subVars, stateVars, vaultVars, echoVars
  <1>0. TypeOK /\ ServersFollow /\ TextsAreMade /\ RowsAndQueue
    BY DEF IInv, Agreement
  <1>t. \A n \in Nodes : server[n] \in Documents /\ doc[n] \in Documents /\ saved[n] \in Documents
    BY <1>0 DEF TypeOK
  <1>f. Fresh \subseteq Nodes
    BY <1>0 DEF Fresh, TypeOK
  <1>1. ASSUME NEW n \in Nodes, link' = link, Fresh' \subseteq Fresh \cup {n},
               \A m \in Nodes \ {n} : doc'[m] = doc[m] /\ server'[m] = server[m],
               link = "up" /\ n \in Fresh' => Within(doc'[n], server'[n])
        PROVE  ServersFollow'
    BY <1>0, <1>1, <1>f DEF ServersFollow
  <1>2. ASSUME NEW n \in Nodes, TakeText(n) PROVE ServersFollow'
    <2> DEFINE d == Rewrite(doc[n], file[n])
               u == Update(doc[n], d)
    <2>1. UNCHANGED <<link, tracked, due, queued>> /\ Fresh' = Fresh
      BY <1>2 DEF TakeText, Fresh
    <2>2. CASE UNCHANGED <<server, doc>>
      BY <1>0, <2>1, <2>2 DEF ServersFollow
    <2>3. CASE doc' = [doc EXCEPT ![n] = d] /\ Send(n, u)
      <3>1. d \in Documents /\ u \in Documents
        <4>1. doc[n] \in Documents /\ d \in Documents
          BY <1>0, DocumentTypes DEF TypeOK
        <4> QED
          BY <4>1, UpdateTypes
      <3>3. link = "up" /\ n \in Fresh => Within(d, Merge(server[n], u))
        BY <1>0, <1>t, <3>1, UpdateCatchesUp DEF ServersFollow
      <3> HIDE DEF d, u
      <3>2. /\ doc'[n] = d /\ \A m \in Nodes \ {n} : doc'[m] = doc[m] /\ server'[m] = server[m]
            /\ link = "up" => server'[n] = Merge(server[n], u)
        BY <1>0, <2>3, <3>1, SendMerges DEF TypeOK
      <3> QED
        BY <1>1, <2>1, <3>2, <3>3
    <2> QED
      BY <1>0, <1>2, <2>2, <2>3, TakesQuietly
  <1>3. ASSUME NEW n \in Nodes, ReceiveText(n) PROVE ServersFollow'
    <2> DEFINE d == Merge(doc[n], server[n])
    <2>1. /\ UNCHANGED <<link, tracked, queued>> /\ due' = due \ {n} /\ link = "up"
          /\ doc' = [doc EXCEPT ![n] = d] /\ n \in tracked \ queued
          /\ server' = IF n \in due THEN [server EXCEPT ![n] = d] ELSE server
      BY <1>3 DEF ReceiveText
    <2>2. d \in Documents /\ Within(d, d)
      BY <1>t, DocumentTypes, WithinMerge DEF Texts
    <2>3. n \notin due => d = server[n]
      <3>1. n \notin due => n \in Fresh
        BY <2>1 DEF Fresh
      <3> QED
        BY <1>0, <1>t, <2>1, <3>1, WithinMerge DEF ServersFollow
    <2> HIDE DEF d
    <2>4. Fresh' \subseteq Fresh \cup {n}
      BY <2>1 DEF Fresh
    <2>5. /\ \A m \in Nodes \ {n} : doc'[m] = doc[m] /\ server'[m] = server[m]
          /\ doc'[n] = d /\ server'[n] = d
      BY <1>0, <2>1, <2>3 DEF TypeOK
    <2> QED
      BY <1>1, <2>1, <2>2, <2>4, <2>5
  <1>4. ASSUME NEW n \in Nodes, NEW e \in Edits, UserCreates(n, e) PROVE ServersFollow'
    <2> DEFINE d == Rewrite(Empty, {e})
               u == Update(Empty, d)
    <2>1. link' = link /\ link # "none" /\ SubscribeContent(n, d) /\ Send(n, u)
      BY <1>4 DEF UserCreates
    <2>2. d \in Documents /\ u \in Documents
      BY DEF Rewrite, Update, Empty, Documents
    <2> HIDE DEF d, u
    <2>3. Fresh' = Fresh \ {n} /\ \A m \in Nodes \ {n} : doc'[m] = doc[m]
      BY <1>0, <2>1, <2>2, SubscribedIsDue
    <2>4. \A m \in Nodes \ {n} : server'[m] = server[m]
      BY <1>0, <2>1, <2>2, SendMerges
    <2> QED
      BY <1>1, <2>1, <2>3, <2>4
  <1>5. ASSUME NEW n \in Nodes, NEW e \in Edits, OthersType(n, e) PROVE ServersFollow'
    <2> DEFINE d == Rewrite(server[n], Text(server[n]) \cup {e})
    <2>1. server' = [server EXCEPT ![n] = d] /\ UNCHANGED <<link, tracked, due, queued, doc>>
      BY <1>5 DEF OthersType
    <2>2. d \in Documents /\ Within(server[n], d)
      <3>1. Text(server[n]) \cup {e} \in Texts
        BY DEF Texts, Text
      <3> QED
        BY <1>t, <3>1, DocumentTypes, DocumentsGrow
    <2> HIDE DEF d
    <2>3. Fresh' = Fresh
      BY <2>1 DEF Fresh
    <2>4. link = "up" /\ n \in Fresh => Within(doc[n], d)
      BY <1>0, <1>t, <2>2, WithinSteps DEF ServersFollow
    <2>5. server'[n] = d /\ \A m \in Nodes \ {n} : server'[m] = server[m]
      BY <1>0, <2>1 DEF TypeOK
    <2> QED
      BY <1>1, <2>1, <2>3, <2>4, <2>5
  <1>6. ASSUME NEW n \in Nodes, FinishLoading(n) PROVE ServersFollow'
    <2>1. UNCHANGED <<server, link>>
      BY <1>6 DEF FinishLoading
    <2>2. CASE UNCHANGED <<tracked, doc, due, queued>>
      BY <1>0, <2>1, <2>2 DEF ServersFollow, Fresh
    <2>3. CASE link # "none" /\ SubscribeContent(n, saved[n])
      <3>1. Fresh' = Fresh \ {n} /\ \A m \in Nodes \ {n} : doc'[m] = doc[m]
        BY <1>0, <1>t, <2>3, SubscribedIsDue
      <3> QED
        BY <1>1, <2>1, <3>1
    <2> QED
      BY <1>6, <2>2, <2>3 DEF FinishLoading
  <1>7. CASE Open
    <2>1. tracked' = tracked /\ due' = due \cup queued /\ link = "opening"
      BY <1>7 DEF Open
    <2>2. Fresh' = {}
      BY <1>0, <2>1 DEF Fresh, RowsAndQueue
    <2> QED
      BY <2>2 DEF ServersFollow
  <1>8. CASE Connect \/ Disconnect \/ Lose
    <2>1. link' # "up"
      BY <1>8 DEF Connect, Disconnect, Lose
    <2> QED
      BY <2>1 DEF ServersFollow
  <1>9. ASSUME UNCHANGED <<link, server, doc, tracked, due, queued>> PROVE ServersFollow'
    BY <1>0, <1>9 DEF ServersFollow, Fresh
  <1>10. ASSUME NEW t \in Tasks, FileAgrees(t) \/ FileDiffers(t) \/ WriteFile(t) PROVE ServersFollow'
    BY <1>9, <1>10 DEF FileAgrees, FileDiffers, WriteFile
  <1>11. ASSUME NEW n \in Nodes, Expire(n) \/ FinishSaving(n) \/ \E e \in Edits : UserTypes(n, e)
         PROVE  ServersFollow'
    BY <1>9, <1>11 DEF Expire, FinishSaving, UserTypes
  <1>12. CASE OnFileModify \/ ReconcileProjection \/ UNCHANGED vars
    BY <1>9, <1>12 DEF OnFileModify, ReconcileProjection, vars
  <1> QED
    BY <1>2, <1>3, <1>4, <1>5, <1>6, <1>7, <1>8, <1>10, <1>11, <1>12, NextSplits

\* The states go on following their documents.
LEMMA StatesNext ==
  ASSUME IInv, amiss = {}, Agreement, [Next]_vars, amiss' = {}
  PROVE  StatesFollow'
  <1> USE DEF clientVars, rowVars, subVars, stateVars, vaultVars, echoVars
  <1>0. TypeOK /\ StatesFollow /\ OthersAreEmpty /\ RowsAndQueue
    BY DEF IInv, Agreement
  <1>t. \A n \in Nodes : server[n] \in Documents /\ doc[n] \in Documents /\ saved[n] \in Documents
    BY <1>0 DEF TypeOK
  <1>f. tracked \subseteq Nodes
    BY <1>0 DEF TypeOK
  <1>1. ASSUME NEW n \in Nodes, tracked' \subseteq tracked \cup {n},
               \A m \in Nodes \ {n} : /\ doc'[m] = doc[m] /\ saved'[m] = saved[m]
                                      /\ m \in saving => m \in saving',
               n \in tracked' => Within(saved'[n], doc'[n]) /\ (n \in saving' \/ saved'[n] = doc'[n])
        PROVE  StatesFollow'
    BY <1>0, <1>1, <1>f DEF StatesFollow
  <1>2. ASSUME NEW n \in tracked, NEW d \in Documents, Within(doc[n], d), doc' = [doc EXCEPT ![n] = d],
               OnContentChanged(n, d, rows), UNCHANGED <<tracked, saved>>
        PROVE  StatesFollow'
    <2>1. n \in Nodes /\ saving' = saving \cup {n}
      BY <1>0, <1>2, <1>f, ChangeBrings DEF RowsAndQueue
    <2>2. Within(saved[n], d)
      BY <1>0, <1>2, <1>t, <2>1, WithinSteps DEF StatesFollow
    <2>3. doc'[n] = d /\ \A m \in Nodes \ {n} : doc'[m] = doc[m]
      BY <1>0, <1>2, <2>1 DEF TypeOK
    <2> QED
      BY <1>1, <1>2, <2>1, <2>2, <2>3
  <1>3. ASSUME NEW n \in Nodes, TakeText(n) PROVE StatesFollow'
    <2> DEFINE d == Rewrite(doc[n], file[n])
    <2>1. UNCHANGED <<tracked, saved>>
      BY <1>3 DEF TakeText
    <2>2. CASE UNCHANGED <<doc, saving>>
      BY <1>0, <2>1, <2>2 DEF StatesFollow
    <2>3. CASE n \in tracked /\ doc' = [doc EXCEPT ![n] = d] /\ OnContentChanged(n, d, rows)
      <3>1. d \in Documents /\ Within(doc[n], d)
        BY <1>0, DocumentTypes, DocumentsGrow DEF TypeOK
      <3> HIDE DEF d
      <3> QED
        BY <1>2, <2>1, <2>3, <3>1
    <2> QED
      BY <1>0, <1>3, <2>2, <2>3, TakesQuietly
  <1>4. ASSUME NEW n \in Nodes, ReceiveText(n) PROVE StatesFollow'
    <2> DEFINE d == Merge(doc[n], server[n])
    <2>1. /\ UNCHANGED <<tracked, saved>> /\ doc' = [doc EXCEPT ![n] = d] /\ n \in tracked
          /\ OnContentChanged(n, d, rows)
      BY <1>4 DEF ReceiveText
    <2>2. d \in Documents /\ Within(doc[n], d)
      BY <1>t, DocumentTypes, WithinMerge DEF Texts
    <2> HIDE DEF d
    <2> QED
      BY <1>2, <2>1, <2>2
  <1>5. ASSUME NEW n \in Nodes, NEW e \in Edits, UserCreates(n, e) PROVE StatesFollow'
    <2> DEFINE d == Rewrite(Empty, {e})
    <2>1. /\ link # "none" /\ SubscribeContent(n, d) /\ OnContentChanged(n, d, listed \cup {n})
          /\ saved' = saved /\ n \notin listed
      BY <1>5 DEF UserCreates, Note, When
    <2>2. d \in Documents
      BY DEF Rewrite, Empty, Documents
    <2> HIDE DEF d
    <2>3. /\ tracked' = tracked \cup {n} /\ doc'[n] = d
          /\ \A m \in Nodes \ {n} : doc'[m] = doc[m]
      BY <1>0, <2>1, <2>2, SubscribedIsDue
    <2>4. saving' = saving \cup {n}
      BY <1>0, <2>1, <2>2, ChangeBrings
    <2>5. Within(saved[n], d)
      BY <1>0, <2>1, <2>2, WithinMerge DEF OthersAreEmpty
    <2> QED
      BY <1>1, <2>1, <2>3, <2>4, <2>5
  <1>6. ASSUME NEW n \in Nodes, FinishLoading(n) PROVE StatesFollow'
    <2>1. UNCHANGED <<saved, saving>>
      BY <1>6 DEF FinishLoading
    <2>2. CASE UNCHANGED <<tracked, doc>>
      BY <1>0, <2>1, <2>2 DEF StatesFollow
    <2>3. CASE link # "none" /\ SubscribeContent(n, saved[n])
      <3>1. /\ tracked' = tracked \cup {n} /\ doc'[n] = saved[n]
            /\ \A m \in Nodes \ {n} : doc'[m] = doc[m]
        BY <1>0, <1>t, <2>3, SubscribedIsDue
      <3>2. Within(saved[n], saved[n])
        BY <1>t, WithinMerge
      <3> QED
        BY <1>1, <2>1, <3>1, <3>2
    <2> QED
      BY <1>6, <2>2, <2>3 DEF FinishLoading
  <1>7. ASSUME NEW n \in Nodes, FinishSaving(n) PROVE StatesFollow'
    <2>1. /\ UNCHANGED <<tracked, doc>> /\ saving' = saving \ {n}
          /\ saved' = IF n \in tracked THEN [saved EXCEPT ![n] = doc[n]] ELSE saved
      BY <1>7 DEF FinishSaving
    <2>2. /\ \A m \in Nodes \ {n} : saved'[m] = saved[m]
          /\ n \in tracked => saved'[n] = doc[n]
      BY <1>0, <2>1 DEF TypeOK
    <2>3. Within(doc[n], doc[n])
      BY <1>t, WithinMerge
    <2> QED
      BY <1>1, <2>1, <2>2, <2>3
  <1>8. CASE Connect \/ Disconnect
    <2>1. tracked' = {}
      BY <1>8 DEF Connect, Disconnect
    <2> QED
      BY <2>1 DEF StatesFollow
  <1>9. ASSUME UNCHANGED <<doc, tracked, saved, saving>> PROVE StatesFollow'
    BY <1>0, <1>9 DEF StatesFollow
  <1>10. ASSUME NEW t \in Tasks, FileAgrees(t) \/ FileDiffers(t) \/ WriteFile(t) PROVE StatesFollow'
    BY <1>9, <1>10 DEF FileAgrees, FileDiffers, WriteFile
  <1>11. ASSUME NEW n \in Nodes, Expire(n) \/ \E e \in Edits : UserTypes(n, e) \/ OthersType(n, e)
         PROVE  StatesFollow'
    BY <1>9, <1>11 DEF Expire, UserTypes, OthersType
  <1>12. CASE OnFileModify \/ ReconcileProjection \/ Open \/ Lose \/ UNCHANGED vars
    BY <1>9, <1>12 DEF OnFileModify, ReconcileProjection, Open, Lose, vars
  <1> QED
    BY <1>3, <1>4, <1>5, <1>6, <1>7, <1>8, <1>10, <1>11, <1>12, NextSplits

\* No step loses the last place that an edit has.
LEMMA KeptNext ==
  ASSUME IInv, amiss = {}, Agreement, [Next]_vars, amiss' = {}
  PROVE  EditsAreKept'
  <1> USE DEF clientVars, rowVars, subVars, stateVars, vaultVars, echoVars
  <1>0. TypeOK /\ EditsAreKept /\ StatesFollow /\ OthersAreEmpty /\ NodesAreListed /\ TextsAreMade
    BY DEF IInv, Agreement
  <1>t. \A n \in Nodes : server[n] \in Documents /\ doc[n] \in Documents /\ saved[n] \in Documents
    BY <1>0 DEF TypeOK
  <1>m. made \subseteq Edits
    BY <1>0 DEF TypeOK
  <1>1. ASSUME made' = made, \A n \in Nodes, e \in Edits : Holds(n, e) => Holds(n, e)'
        PROVE  EditsAreKept'
    BY <1>0, <1>1, <1>m DEF EditsAreKept
  <1>2. ASSUME NEW n \in Nodes, NEW e \in Edits, made' = made \cup {e}, Holds(n, e)',
               \A m \in Nodes, o \in Edits : Holds(m, o) => Holds(m, o)'
        PROVE  EditsAreKept'
    BY <1>0, <1>2, <1>m DEF EditsAreKept
  <1>3. ASSUME NEW n \in Nodes, UNCHANGED <<saved, file>>, Within(doc[n], doc'[n]), Within(server[n], server'[n]),
               doc'[n] \in Documents, server'[n] \in Documents,
               \A m \in Nodes \ {n} : doc'[m] = doc[m] /\ server'[m] = server[m]
        PROVE  \A m \in Nodes, e \in Edits : Holds(m, e) => Holds(m, e)'
    <2>1. \A e \in Edits : (doc[n][e] # 0 => doc'[n][e] # 0) /\ (server[n][e] # 0 => server'[n][e] # 0)
      BY <1>t, <1>3, WithinHas
    <2> QED
      BY <1>3, <2>1 DEF Holds
  <1>4. ASSUME NEW n \in Nodes, TakeText(n) PROVE EditsAreKept'
    <2> DEFINE d == Rewrite(doc[n], file[n])
               u == Update(doc[n], d)
    <2>1. UNCHANGED <<made, saved, file>>
      BY <1>4 DEF TakeText
    <2>2. CASE UNCHANGED <<server, doc>>
      BY <1>1, <2>1, <2>2 DEF Holds
    <2>3. CASE doc' = [doc EXCEPT ![n] = d] /\ Send(n, u)
      <3>1. d \in Documents /\ Within(doc[n], d) /\ u \in Documents
        BY <1>0, DocumentTypes, DocumentsGrow, UpdateTypes DEF TypeOK
      <3> HIDE DEF d, u
      <3>2. /\ doc'[n] = d /\ \A m \in Nodes \ {n} : doc'[m] = doc[m] /\ server'[m] = server[m]
            /\ server'[n] = Merge(server[n], u) \/ server'[n] = server[n]
        BY <1>0, <2>3, <3>1, SendMerges DEF TypeOK
      <3>3. /\ Within(server[n], Merge(server[n], u)) /\ Within(server[n], server[n])
            /\ Merge(server[n], u) \in Documents
        BY <1>t, <3>1, WithinMerge, DocumentTypes DEF Texts
      <3> QED
        BY <1>1, <1>3, <1>t, <2>1, <3>1, <3>2, <3>3
    <2> QED
      BY <1>0, <1>4, <2>2, <2>3, TakesQuietly
  <1>5. ASSUME NEW n \in Nodes, ReceiveText(n) PROVE EditsAreKept'
    <2> DEFINE d == Merge(doc[n], server[n])
    <2>1. /\ UNCHANGED <<made, saved, file>> /\ doc' = [doc EXCEPT ![n] = d]
          /\ server' = server \/ server' = [server EXCEPT ![n] = d]
      BY <1>5 DEF ReceiveText
    <2>2. d \in Documents /\ Within(doc[n], d) /\ Within(server[n], d) /\ Within(server[n], server[n])
      BY <1>t, DocumentTypes, WithinMerge DEF Texts
    <2> HIDE DEF d
    <2>3. /\ doc'[n] = d /\ \A m \in Nodes \ {n} : doc'[m] = doc[m] /\ server'[m] = server[m]
          /\ server'[n] = d \/ server'[n] = server[n]
      BY <1>0, <2>1 DEF TypeOK
    <2> QED
      BY <1>1, <1>3, <1>t, <2>1, <2>2, <2>3
  <1>6. ASSUME NEW n \in Nodes, NEW e \in Edits, UserCreates(n, e) PROVE EditsAreKept'
    <2> DEFINE d == Rewrite(Empty, {e})
               u == Update(Empty, d)
    <2>1. /\ made' = made \cup {e} /\ saved' = saved /\ file' = [file EXCEPT ![n] = {e}] /\ n \notin listed
          /\ link # "none" /\ SubscribeContent(n, d) /\ Send(n, u)
      BY <1>6 DEF UserCreates
    <2>2. d \in Documents /\ u \in Documents
      BY DEF Rewrite, Update, Empty, Documents
    <2> HIDE DEF d, u
    <2>3. \A m \in Nodes \ {n} : doc'[m] = doc[m] /\ server'[m] = server[m] /\ file'[m] = file[m]
      BY <1>0, <2>1, <2>2, SubscribedIsDue, SendMerges DEF TypeOK
    <2>4. /\ server[n] = Empty /\ saved[n] = Empty /\ file[n] = {} /\ doc[n] = Empty
          /\ file'[n] = {e}
      BY <1>0, <2>1 DEF OthersAreEmpty, NodesAreListed, TypeOK
    <2>5. Holds(n, e)' /\ \A o \in Edits : ~Holds(n, o)
      BY <2>4 DEF Holds, Empty
    <2>6. \A m \in Nodes, o \in Edits : Holds(m, o) => Holds(m, o)'
      BY <2>1, <2>3, <2>5 DEF Holds
    <2> QED
      BY <1>2, <2>1, <2>5, <2>6
  <1>7. ASSUME NEW n \in Nodes, NEW e \in Edits, UserTypes(n, e) PROVE EditsAreKept'
    <2>1. /\ made' = made \cup {e} /\ file' = [file EXCEPT ![n] = @ \cup {e}] /\ UNCHANGED <<server, saved, doc>>
      BY <1>7 DEF UserTypes
    <2>2. e \in file'[n] /\ \A m \in Nodes : file[m] \subseteq file'[m]
      BY <1>0, <2>1 DEF TypeOK
    <2> QED
      BY <1>2, <2>1, <2>2 DEF Holds
  <1>8. ASSUME NEW n \in Nodes, NEW e \in Edits, OthersType(n, e) PROVE EditsAreKept'
    <2> DEFINE d == Rewrite(server[n], Text(server[n]) \cup {e})
    <2>1. server' = [server EXCEPT ![n] = d] /\ made' = made \cup {e} /\ UNCHANGED <<file, saved, doc>>
      BY <1>8 DEF OthersType
    <2>2. Text(server[n]) \cup {e} \in Texts
      BY DEF Texts, Text
    <2>3. d \in Documents /\ Within(server[n], d)
      BY <1>t, <2>2, DocumentTypes, DocumentsGrow
    <2>4. d[e] # 0
      <3>1. d[e] = IF (e \in Text(server[n]) \cup {e}) <=> (server[n][e] % 2 = 1) THEN server[n][e] ELSE server[n][e] + 1
        BY DEF Rewrite
      <3>2. d[e] = IF server[n][e] % 2 = 1 THEN server[n][e] ELSE server[n][e] + 1
        BY <3>1
      <3>3. server[n][e] \in Nat
        BY <1>t DEF Documents
      <3> HIDE DEF d
      <3> QED
        BY <3>2, <3>3
    <2> HIDE DEF d
    <2>5. server'[n] = d /\ \A m \in Nodes \ {n} : server'[m] = server[m]
      BY <1>0, <2>1 DEF TypeOK
    <2>6. \A o \in Edits : server[n][o] # 0 => server'[n][o] # 0
      BY <1>t, <2>3, <2>5, WithinHas
    <2>7. \A m \in Nodes, o \in Edits : Holds(m, o) => Holds(m, o)'
      BY <2>1, <2>5, <2>6 DEF Holds
    <2> QED
      BY <1>2, <2>1, <2>4, <2>5, <2>7 DEF Holds
  <1>9. ASSUME NEW n \in Nodes, FinishLoading(n) PROVE EditsAreKept'
    <2>1. UNCHANGED <<server, saved, file, made>> /\ loading[n] # 0
      BY <1>0, <1>9 DEF FinishLoading, TypeOK
    <2>2. CASE UNCHANGED doc
      BY <1>1, <2>1, <2>2 DEF Holds
    <2>3. CASE link # "none" /\ SubscribeContent(n, saved[n])
      <3>1. doc[n] = Empty
        BY <1>0, <2>1 DEF IInv, LoadedOnce, OthersAreEmpty
      <3>2. \A m \in Nodes \ {n} : doc'[m] = doc[m]
        BY <1>0, <1>t, <2>3, SubscribedIsDue
      <3>3. \A e \in Edits : doc[n][e] = 0
        BY <3>1 DEF Empty
      <3> QED
        BY <1>1, <2>1, <3>2, <3>3 DEF Holds
    <2> QED
      BY <1>9, <2>2, <2>3 DEF FinishLoading
  <1>10. ASSUME NEW n \in Nodes, FinishSaving(n) PROVE EditsAreKept'
    <2>1. /\ UNCHANGED <<server, doc, file, made>>
          /\ saved' = saved \/ (n \in tracked /\ saved' = [saved EXCEPT ![n] = doc[n]])
      BY <1>10 DEF FinishSaving
    <2>2. \A m \in Nodes : saved'[m] = saved[m] \/ (saved'[m] = doc[m] /\ Within(saved[m], doc[m]))
      BY <1>0, <2>1 DEF TypeOK, StatesFollow
    <2>3. \A m \in Nodes, e \in Edits : saved[m][e] # 0 => saved'[m][e] # 0
      BY <1>t, <2>2, WithinHas
    <2> QED
      BY <1>1, <2>1, <2>3 DEF Holds
  <1>11. CASE Connect
    <2>1. UNCHANGED <<server, file, made, saved>> /\ tracked = {}
      BY <1>11 DEF Connect, Note, When, IInv, LoadedOnce, NodesAreListed
    <2>2. \A n \in Nodes, e \in Edits : doc[n][e] = 0
      BY <1>0, <2>1 DEF OthersAreEmpty, Empty
    <2> QED
      BY <1>1, <2>1, <2>2 DEF Holds
  <1>12. CASE Disconnect
    <2>1. /\ UNCHANGED <<server, file, made, saved>>
          /\ \A n \in tracked : Within(doc[n], Merge(saved[n], server[n]))
      BY <1>12 DEF Disconnect, Note, When
    <2>2. ASSUME NEW n \in Nodes, NEW e \in Edits, doc[n][e] # 0
          PROVE  saved[n][e] # 0 \/ server[n][e] # 0
      <3>1. n \in tracked
        BY <1>0, <2>2 DEF OthersAreEmpty, Empty
      <3>2. Merge(saved[n], server[n])[e] # 0
        BY <1>t, <2>1, <2>2, <3>1, WithinHas, DocumentTypes DEF Texts
      <3> QED
        BY <3>2 DEF Merge
    <2> QED
      BY <1>1, <2>1, <2>2 DEF Holds
  <1>13. ASSUME NEW t \in Tasks, WriteFile(t), NEW n \in Nodes, n = task[t].node PROVE EditsAreKept'
    <2>1. /\ file' = [file EXCEPT ![n] = task[t].text] /\ Untaken(n) \subseteq task[t].text
      BY <1>0, <1>13, WritesQuietly
    <2>2. UNCHANGED <<made, server, saved, doc>>
      BY <1>13 DEF WriteFile
    <2>3. /\ file'[n] = task[t].text /\ \A m \in Nodes \ {n} : file'[m] = file[m]
          /\ file[n] \subseteq Edits
      BY <1>0, <2>1 DEF TypeOK, Texts
    <2>4. \A e \in file[n] : doc[n][e] # 0 \/ e \in file'[n]
      BY <2>1, <2>3 DEF Untaken
    <2> QED
      BY <1>1, <2>2, <2>3, <2>4 DEF Holds
  <1>14. ASSUME UNCHANGED <<made, server, saved, doc, file>> PROVE EditsAreKept'
    BY <1>1, <1>14 DEF Holds
  <1>15. ASSUME NEW t \in Tasks, FileAgrees(t) \/ FileDiffers(t) PROVE EditsAreKept'
    BY <1>14, <1>15, Quiet
  <1>16. CASE OnFileModify \/ ReconcileProjection \/ Open \/ Lose \/ (\E n \in Nodes : Expire(n)) \/ UNCHANGED vars
    BY <1>14, <1>16, Quiet
  <1>17. ASSUME NEW t \in Tasks, WriteFile(t) PROVE EditsAreKept'
    BY <1>13, <1>17 DEF IInv, TasksHaveNodes, WriteFile
  <1> QED
    BY <1>4, <1>5, <1>6, <1>7, <1>8, <1>9, <1>10, <1>11, <1>12, <1>15, <1>16, <1>17, NextSplits

LEMMA MishapsStay ==
  ASSUME [Next]_vars
  PROVE  amiss \subseteq amiss'
  <1> USE DEF clientVars, rowVars, subVars, stateVars, vaultVars, echoVars, Note
  <1>1. ASSUME NEW t \in Tasks, FileAgrees(t) \/ FileDiffers(t) \/ WriteFile(t)
        PROVE  amiss \subseteq amiss'
    BY <1>1 DEF FileAgrees, FileDiffers, WriteFile
  <1>2. ASSUME NEW n \in Nodes, TakeText(n) \/ Expire(n) \/ FinishLoading(n) \/ FinishSaving(n) \/ ReceiveText(n)
        PROVE  amiss \subseteq amiss'
    BY <1>2 DEF TakeText, Expire, FinishLoading, FinishSaving, ReceiveText
  <1>3. CASE OnFileModify \/ ReconcileProjection \/ Connect \/ Open \/ Lose \/ Disconnect
    BY <1>3 DEF OnFileModify, ReconcileProjection, Connect, Open, Lose, Disconnect
  <1>4. ASSUME NEW n \in Nodes, NEW e \in Edits, UserCreates(n, e) \/ UserTypes(n, e) \/ OthersType(n, e)
        PROVE  amiss \subseteq amiss'
    BY <1>4 DEF UserCreates, UserTypes, OthersType
  <1>5. CASE UNCHANGED vars
    BY <1>5 DEF vars
  <1> QED
    BY <1>1, <1>2, <1>3, <1>4, <1>5, NextSplits

\* As long as nothing went amiss, whatever differs is on its way.
THEOREM AgreementInductive == Spec => []RestInv
  <1>1. Init => RestInv
    <2> SUFFICES ASSUME Init PROVE Agreement
      BY DEF RestInv
    <2>1. TextsAreMade /\ OthersAreEmpty /\ EditsAreKept
      BY DEF Init, TextsAreMade, PlainOf, Empty, OthersAreEmpty, EditsAreKept, IdleTask
    <2>2. RowsAndQueue
      BY DEF Init, RowsAndQueue
    <2>3. FilesFollow /\ ServersFollow /\ StatesFollow
      BY DEF Init, FilesFollow, ServersFollow, StatesFollow, Fresh
    <2> QED
      BY <2>1, <2>2, <2>3 DEF Agreement
  <1>2. IInv /\ RestInv /\ [Next]_vars => RestInv'
    <2> SUFFICES ASSUME IInv, RestInv, [Next]_vars, amiss' = {}
                 PROVE  Agreement'
      BY DEF RestInv
    <2>1. amiss = {}
      BY MishapsStay
    <2>2. Agreement
      BY <2>1 DEF RestInv
    <2>3. TextsAreMade' /\ OthersAreEmpty' /\ RowsAndQueue'
      BY <2>2, MadeNext, EmptyNext, RowsNext DEF Agreement
    <2>4. FilesFollow' /\ ServersFollow'
      BY <2>1, <2>2, FollowNext, ServersNext
    <2>5. StatesFollow' /\ EditsAreKept'
      BY <2>1, <2>2, StatesNext, KeptNext
    <2> QED
      BY <2>3, <2>4, <2>5 DEF Agreement
  <1> QED
    BY <1>1, <1>2, Inductive, PTL DEF Spec

\* When everything has come to rest and nothing went amiss, a note reads the same
\* in its file, its document, its state and on the server, and no edit is lost.
THEOREM NotesSettle == Spec => []SettlesInAgreement
  <1>1. IInv /\ RestInv => SettlesInAgreement
    <2> SUFFICES ASSUME IInv, RestInv, Settled, amiss = {}
                 PROVE  /\ \A n \in listed : file[n] = Text(doc[n]) /\ doc[n] = server[n] /\ saved[n] = doc[n]
                        /\ made = UNION {file[n] : n \in Nodes}
      BY DEF SettlesInAgreement
    <2>0. TypeOK /\ TextsAreMade /\ OthersAreEmpty /\ RowsAndQueue /\ FilesFollow /\ ServersFollow
          /\ StatesFollow /\ EditsAreKept
      BY DEF RestInv, Agreement, IInv
    <2>1. listed \subseteq Nodes /\ tracked \subseteq listed /\ \A n \in Nodes : server[n] \in Documents /\ doc[n] \in Documents
      BY <2>0 DEF TypeOK, IInv, NodesAreListed
    <2>2. listed \subseteq tracked
      <3>1. listed \subseteq subscribed
        BY <2>0 DEF Settled, RowsAndQueue
      <3>2. \A n \in subscribed : n \in tracked \/ loading[n] > 0
        BY DEF IInv, SubscribedAreTracked, Settled
      <3>3. \A n \in Nodes : ~(loading[n] > 0)
        BY DEF Settled
      <3> QED
        BY <2>1, <3>1, <3>2, <3>3
    <2>3. Fresh = tracked
      BY <2>0 DEF Fresh, Settled, RowsAndQueue
    <2>4. ASSUME NEW n \in listed
          PROVE  file[n] = Text(doc[n]) /\ doc[n] = server[n] /\ saved[n] = doc[n]
      <3>1. n \in tracked /\ n \in Nodes
        BY <2>1, <2>2
      <3>2. file[n] = Text(doc[n])
        <4>1. event # n /\ n \notin handling /\ ~Brought(n)
          BY <3>1, PluginContentAssumption DEF Settled, Brought
        <4> QED
          BY <2>0, <2>3, <3>1, <4>1 DEF FilesFollow
      <3>3. doc[n] = server[n]
        <4>1. Within(doc[n], server[n]) /\ Within(server[n], doc[n])
          BY <2>0, <2>3, <3>1 DEF ServersFollow, Settled
        <4>2. Merge(doc[n], server[n]) = server[n]
          BY <2>1, <3>1, <4>1, WithinMerge
        <4>3. Merge(doc[n], server[n]) = doc[n]
          BY <2>0, <2>1, <3>1, <4>1, PlainMerge DEF TextsAreMade
        <4> QED
          BY <4>2, <4>3
      <3>4. saved[n] = doc[n]
        BY <2>0, <3>1 DEF StatesFollow, Settled
      <3> QED
        BY <3>2, <3>3, <3>4
    <2>5. ASSUME NEW e \in made PROVE \E n \in Nodes : e \in file[n]
      <3>1. PICK n \in Nodes : Holds(n, e)
        BY <2>0 DEF EditsAreKept
      <3>2. e \in Edits
        BY <2>0 DEF TypeOK
      <3>3. CASE n \in listed
        <4>1. Text(doc[n]) = {o \in Edits : doc[n][o] # 0}
          BY <2>0, <2>1, PlainMerge DEF TextsAreMade
        <4> QED
          BY <2>4, <3>1, <3>2, <3>3, <4>1 DEF Holds
      <3>4. CASE n \notin listed
        <4>1. server[n] = Empty /\ saved[n] = Empty /\ file[n] = {} /\ doc[n] = Empty
          BY <2>0, <2>1, <3>4 DEF OthersAreEmpty
        <4> QED
          BY <3>1, <3>2, <4>1 DEF Holds, Empty
      <3> QED
        BY <3>3, <3>4
    <2>6. \A n \in Nodes : file[n] \subseteq made
      BY <2>0 DEF TextsAreMade
    <2> QED
      BY <2>4, <2>5, <2>6
  <1> QED
    BY <1>1, Inductive, AgreementInductive, PTL
=============================================================================
