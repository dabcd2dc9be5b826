---------------------------- MODULE ContentRelay ----------------------------
(***************************************************************************)
(* One text file's content document between the clients and the server:    *)
(* the STEP_1 handler that subscribes and then reads the database, the     *)
(* UPDATE handler that saves and then broadcasts, and the forwarding task  *)
(* of ensure_subscribed with its bounded ring (server/server.rs), against  *)
(* the content arm of the client's session (client_v1.rs).  Handlers of    *)
(* different connections are not serialised by any lock: each await is a   *)
(* step of its own.                                                        *)
(*                                                                         *)
(* A replica is the set of operations it received.  Yrs sends insertions   *)
(* past a state vector, but always its whole delete set.                   *)
(***************************************************************************)
EXTENDS Naturals, Sequences, FiniteSets, Functions

CONSTANTS
  Clients,
  Cap,        \* PER_DOC_BROADCAST_CAP
  MaxEdits,   \* bound: edits ever made, over all clients
  MaxFaults,  \* bound: lost connections and failed database calls
  MaxEvents,  \* bound: edits and faults together
  DbMayFail   \* TRUE: database calls can fail

ASSUME ContentRelayAssumption ==
  /\ Cap \in Nat \ {0}
  /\ MaxEdits \in Nat
  /\ MaxFaults \in Nat
  /\ MaxEvents \in Nat
  /\ DbMayFail \in BOOLEAN

VARIABLES
  (* client *)
  content,    \* content[c]: operations in the client's subdoc
  linked,     \* linked[c]: in a session, with the node in content_subscribed
  c2s, s2c,   \* frames under way
  (* server, one connection *)
  stage,      \* stage[c]: where the handler of c's current frame stands
  job,        \* job[c]: operations saved and about to be broadcast
  answered,   \* answered[c]: history, STEP_2 was sent to this connection
  subscribed, \* subscribed[c]: the connection has a forwarding task
  queue,      \* queue[c]: what that task has not taken from the channel
  missed,     \* missed[c]: the channel overwrote something in between
  catching,   \* catching[c]: the task saw Lagged and has yet to read
  (* server, shared *)
  orphans,    \* jobs of connections that closed under them
  rows,       \* operations in the document's rows
  (* bounds and history *)
  edits, faults,
  dbFailed,   \* a database call has failed
  bareDelete  \* bareDelete[c]: c deleted text and inserted none since

clientVars == <<content, linked, c2s>>
taskVars   == <<subscribed, queue, missed, catching>>
handlerVars == <<stage, job, answered>>
countVars  == <<edits, faults, dbFailed, bareDelete>>
vars == <<clientVars, s2c, taskVars, handlerVars, orphans, rows, countVars>>

-----------------------------------------------------------------------------
(* Operations, replicas, frames *)

Id == [author : Clients, clock : 1..MaxEdits]
Op == [op : {"ins", "del"}, id : Id]

Ins(id) == [op |-> "ins", id |-> id]
Del(id) == [op |-> "del", id |-> id]

Inserted(S) == {o.id : o \in {p \in S : p.op = "ins"}}
Deleted(S)  == {o.id : o \in {p \in S : p.op = "del"}}

\* The insertions a Doc that received S has integrated: no gap before them.
Integrated(S) ==
  {i \in Inserted(S) : \A k \in 1..i.clock : [i EXCEPT !.clock = k] \in Inserted(S)}

Text(S) == Integrated(S) \ Deleted(S)

\* encode_state_as_update_v1(sv): insertions past sv, and every deletion.
Diff(S, sv) == {o \in S : o.op = "del" \/ o.id \notin sv}

Frame == [kind : {"step1", "step2", "update"}, sv : SUBSET Id, ops : SUBSET Op]

\* (A bug for the runs to find: STEP_1 carries what the sender lacks.)
Step1Inverted(S) == [kind |-> "step1", sv |-> Op \ S, ops |-> {}]

Step1(S)     == [kind |-> "step1",  sv |-> Integrated(S), ops |-> {}]
Step2(S, sv) == [kind |-> "step2",  sv |-> {}, ops |-> Diff(S, sv)]
Push(S)      == [kind |-> "update", sv |-> {}, ops |-> S]

\* is_noop_update: the update's state vector is empty.
IsNoop(S) == Inserted(S) = {}

-----------------------------------------------------------------------------
Init ==
  /\ content = [c \in Clients |-> {}]
  /\ linked = [c \in Clients |-> FALSE]
  /\ c2s = [c \in Clients |-> <<>>]
  /\ s2c = [c \in Clients |-> <<>>]
  /\ stage = [c \in Clients |-> "idle"]
  /\ job = [c \in Clients |-> {}]
  /\ answered = [c \in Clients |-> FALSE]
  /\ subscribed = [c \in Clients |-> FALSE]
  /\ queue = [c \in Clients |-> <<>>]
  /\ missed = [c \in Clients |-> FALSE]
  /\ catching = [c \in Clients |-> FALSE]
  /\ orphans = {}
  /\ rows = {}
  /\ edits = 0
  /\ faults = 0
  /\ dbFailed = FALSE
  /\ bareDelete = [c \in Clients |-> FALSE]

FaultLeft == faults < MaxFaults /\ edits + faults < MaxEvents

\* A failed database call costs one fault and is only logged.
DbOutcome(ok) ==
  /\ dbFailed' = (dbFailed \/ ~ok)
  /\ IF ok THEN UNCHANGED faults ELSE DbMayFail /\ FaultLeft /\ faults' = faults + 1

-----------------------------------------------------------------------------
(* The client *)

\* What replace_text does to c's subdoc S when the file's body changed:
\* delete the old middle, insert the new one.  Either half may be absent,
\* not both.
EditsOf(c, S) ==
  LET id == [author |-> c, clock |-> Cardinality({i \in Inserted(S) : i.author = c}) + 1]
  IN  {new \cup gone : new \in {{}, {Ins(id)}},
                       gone \in {{}} \cup {{Del(i)} : i \in Text(S)}} \ {{}}

\* The edit is saved in the subdoc and its difference sent, with the whole
\* delete set.
Changed(c, ops) == [content EXCEPT ![c] = @ \cup ops]

EditFrames(c, ops) ==
  IF ops = {} THEN <<>> ELSE <<Push(Diff(content[c] \cup ops, Integrated(content[c])))>>

CountEdit(c, ops) ==
  /\ IF ops = {} THEN UNCHANGED edits
     ELSE edits < MaxEdits /\ edits + faults < MaxEvents /\ edits' = edits + 1
  /\ bareDelete' = [bareDelete EXCEPT ![c] = IF ops = {} THEN @ ELSE Inserted(ops) = {}]

\* A new session up to the end of the scan that meets the node: the scan
\* sends what it finds changed in the file and only then the node's STEP_1.
Join(c) ==
  /\ ~linked[c]
  /\ linked' = [linked EXCEPT ![c] = TRUE]
  /\ \E ops \in {{}} \cup EditsOf(c, content[c]) :
        /\ CountEdit(c, ops)
        /\ content' = Changed(c, ops)
        /\ c2s' = [c2s EXCEPT ![c] = EditFrames(c, ops) \o <<Step1(content'[c])>>]
  /\ UNCHANGED <<s2c, taskVars, handlerVars, orphans, rows, faults, dbFailed>>

\* A later scan finds the file changed.
Edit(c) ==
  /\ linked[c]
  /\ \E ops \in EditsOf(c, content[c]) :
        /\ CountEdit(c, ops)
        /\ content' = Changed(c, ops)
        /\ c2s' = [c2s EXCEPT ![c] = @ \o EditFrames(c, ops)]
  /\ UNCHANGED <<linked, s2c, taskVars, handlerVars, orphans, rows, faults, dbFailed>>

\* The content arm of the session loop: answer a STEP_1 ...
Answer(c) ==
  /\ s2c[c] # <<>>
  /\ Head(s2c[c]).kind = "step1"
  /\ c2s' = [c2s EXCEPT ![c] = Append(@, Step2(content[c], Head(s2c[c]).sv))]
  /\ s2c' = [s2c EXCEPT ![c] = Tail(@)]
  /\ UNCHANGED <<content, linked, taskVars, handlerVars, orphans, rows, countVars>>

\* ... and apply the rest, after a change of the file that no scan has met
\* yet was folded in and sent (fold_disk_drift_into_content).
Apply(c) ==
  /\ s2c[c] # <<>>
  /\ Head(s2c[c]).kind # "step1"
  /\ \E ops \in {{}} \cup EditsOf(c, content[c]) :
        /\ CountEdit(c, ops)
        /\ content' = Changed(c, ops \cup Head(s2c[c]).ops)
        /\ c2s' = [c2s EXCEPT ![c] = @ \o EditFrames(c, ops)]
  /\ s2c' = [s2c EXCEPT ![c] = Tail(@)]
  /\ UNCHANGED <<linked, taskVars, handlerVars, orphans, rows, faults, dbFailed>>

Receive(c) == Answer(c) \/ Apply(c)

-----------------------------------------------------------------------------
(* The server's handlers.  A connection handles its frames one at a time;  *)
(* the frame stays at the head of c2s until its handler is through.        *)

Handling(c, kinds, st) ==
  c2s[c] # <<>> /\ Head(c2s[c]).kind \in kinds /\ stage[c] = st

Consume(c) == c2s' = [c2s EXCEPT ![c] = Tail(@)]

\* handle_content_step1, first: join the channel.
JoinChannel(c) ==
  /\ Handling(c, {"step1"}, "idle")
  /\ subscribed' = [subscribed EXCEPT ![c] = TRUE]
  /\ stage' = [stage EXCEPT ![c] = "read"]
  /\ UNCHANGED <<clientVars, s2c, queue, missed, catching, job, answered, orphans, rows, countVars>>

\* ... second: read the rows and answer; a failed read sends nothing.
SendStep2(c) ==
  /\ Handling(c, {"step1"}, "read")
  /\ \/ /\ s2c' = [s2c EXCEPT ![c] = Append(@, Step2(rows, Head(c2s[c]).sv))]
        /\ answered' = [answered EXCEPT ![c] = TRUE]
        /\ DbOutcome(TRUE)
     \/ DbOutcome(FALSE) /\ UNCHANGED <<s2c, answered>>
  /\ stage' = [stage EXCEPT ![c] = "ask"]
  /\ UNCHANGED <<clientVars, taskVars, job, orphans, rows, edits, bareDelete>>

\* (A bug: the one-way handshake, the server never asks back.)
DoNotAskBack(c) ==
  /\ Handling(c, {"step1"}, "ask")
  /\ Consume(c)
  /\ stage' = [stage EXCEPT ![c] = "idle"]
  /\ UNCHANGED <<content, linked, s2c, taskVars, job, answered, orphans, rows, countVars>>

\* ... third: read the rows again and ask for what they lack.
AskBack(c) ==
  /\ Handling(c, {"step1"}, "ask")
  /\ \/ s2c' = [s2c EXCEPT ![c] = Append(@, Step1(rows))] /\ DbOutcome(TRUE)
     \/ DbOutcome(FALSE) /\ UNCHANGED s2c
  /\ Consume(c)
  /\ stage' = [stage EXCEPT ![c] = "idle"]
  /\ UNCHANGED <<content, linked, taskVars, job, answered, orphans, rows, edits, bareDelete>>

\* handle_content_update drops what is_noop_update calls empty.
SkipUpdate(c) ==
  /\ Handling(c, {"step2", "update"}, "idle")
  /\ IsNoop(Head(c2s[c]).ops)
  /\ Consume(c)
  /\ UNCHANGED <<content, linked, s2c, taskVars, handlerVars, orphans, rows, countVars>>

\* (A bug: the broadcast does not wait for the row.)
SaveOrNot(c) ==
  /\ Handling(c, {"step2", "update"}, "idle")
  /\ LET S == Head(c2s[c]).ops
     IN  /\ ~IsNoop(S)
         /\ job' = [job EXCEPT ![c] = S]
         /\ stage' = [stage EXCEPT ![c] = "relay"]
         /\ \/ rows' = rows \cup S /\ DbOutcome(TRUE)
            \/ rows' = rows /\ DbOutcome(FALSE)
  /\ Consume(c)
  /\ UNCHANGED <<content, linked, s2c, taskVars, answered, orphans, edits, bareDelete>>

\* It appends the row first; a failed append ends the handler.
SaveUpdate(c) ==
  /\ Handling(c, {"step2", "update"}, "idle")
  /\ LET S == Head(c2s[c]).ops
     IN  /\ ~IsNoop(S)
         /\ \/ /\ rows' = rows \cup S
               /\ job' = [job EXCEPT ![c] = S]
               /\ stage' = [stage EXCEPT ![c] = "relay"]
               /\ DbOutcome(TRUE)
            \/ DbOutcome(FALSE) /\ UNCHANGED <<rows, job, stage>>
  /\ Consume(c)
  /\ UNCHANGED <<content, linked, s2c, taskVars, answered, orphans, edits, bareDelete>>

\* One message into the channel: every task has it in its queue, and a task
\* that was Cap behind loses its oldest one.
Broadcast(S, sender) ==
  /\ queue' = [d \in Clients |->
       IF ~subscribed[d] THEN queue[d]
       ELSE LET q == Append(queue[d], [own |-> d \in sender, ops |-> S])
            IN  IF Len(q) > Cap THEN Tail(q) ELSE q]
  /\ missed' = [d \in Clients |-> missed[d] \/ (subscribed[d] /\ Len(queue[d]) = Cap)]

\* Its last step, under the lock of the channel map.
Relay(c) ==
  /\ stage[c] = "relay"
  /\ Broadcast(job[c], {c})
  /\ job' = [job EXCEPT ![c] = {}]
  /\ stage' = [stage EXCEPT ![c] = "idle"]
  /\ UNCHANGED <<clientVars, s2c, subscribed, catching, answered, orphans, rows, countVars>>

\* The handler of a closed connection finishes as well.
RelayOrphan(S) ==
  /\ S \in orphans
  /\ Broadcast(S, {})
  /\ orphans' = orphans \ {S}
  /\ UNCHANGED <<clientVars, s2c, subscribed, catching, handlerVars, rows, countVars>>

-----------------------------------------------------------------------------
(* The forwarding task *)

\* recv gives the next message, and the task passes it on unless it is ours.
Forward(c) ==
  /\ ~missed[c] /\ ~catching[c]
  /\ queue[c] # <<>>
  /\ s2c' = [s2c EXCEPT ![c] =
               IF Head(queue[c]).own THEN @ ELSE Append(@, Push(Head(queue[c]).ops))]
  /\ queue' = [queue EXCEPT ![c] = Tail(@)]
  /\ UNCHANGED <<clientVars, subscribed, missed, catching, handlerVars, orphans, rows, countVars>>

\* (A bug: Lagged is taken for a message nobody needs.)
LagIgnored(c) ==
  /\ missed[c] /\ ~catching[c]
  /\ missed' = [missed EXCEPT ![c] = FALSE]
  /\ UNCHANGED <<clientVars, s2c, subscribed, queue, catching, handlerVars, orphans, rows, countVars>>

\* recv gives Lagged: the task is moved to the oldest message still there.
Lag(c) ==
  /\ missed[c] /\ ~catching[c]
  /\ missed' = [missed EXCEPT ![c] = FALSE]
  /\ catching' = [catching EXCEPT ![c] = TRUE]
  /\ UNCHANGED <<clientVars, s2c, subscribed, queue, handlerVars, orphans, rows, countVars>>

\* ... and it reads all rows and sends them; a failed read sends nothing.
CatchUp(c) ==
  /\ catching[c]
  /\ \/ s2c' = [s2c EXCEPT ![c] = Append(@, Step2(rows, {}))] /\ DbOutcome(TRUE)
     \/ DbOutcome(FALSE) /\ UNCHANGED s2c
  /\ catching' = [catching EXCEPT ![c] = FALSE]
  /\ UNCHANGED <<clientVars, subscribed, queue, missed, handlerVars, orphans, rows, edits, bareDelete>>

-----------------------------------------------------------------------------
\* The transport fails: the session's frames, its task and its set of asked
\* nodes are gone.  A handler that has saved an update still broadcasts it.
LoseConnection(c) ==
  /\ linked[c]
  /\ FaultLeft
  /\ faults' = faults + 1
  /\ linked' = [linked EXCEPT ![c] = FALSE]
  /\ c2s' = [c2s EXCEPT ![c] = <<>>]
  /\ s2c' = [s2c EXCEPT ![c] = <<>>]
  /\ subscribed' = [subscribed EXCEPT ![c] = FALSE]
  /\ queue' = [queue EXCEPT ![c] = <<>>]
  /\ missed' = [missed EXCEPT ![c] = FALSE]
  /\ catching' = [catching EXCEPT ![c] = FALSE]
  /\ orphans' = IF stage[c] = "relay" THEN orphans \cup {job[c]} ELSE orphans
  /\ job' = [job EXCEPT ![c] = {}]
  /\ stage' = [stage EXCEPT ![c] = "idle"]
  /\ answered' = [answered EXCEPT ![c] = FALSE]
  /\ UNCHANGED <<content, rows, edits, dbFailed, bareDelete>>

HandlerStep(c) ==
  \/ JoinChannel(c) \/ SendStep2(c) \/ AskBack(c)
  \/ SkipUpdate(c) \/ SaveUpdate(c) \/ Relay(c)

TaskStep(c) == Forward(c) \/ Lag(c) \/ CatchUp(c)

Next ==
  \/ \E c \in Clients :
        \/ Join(c) \/ Edit(c) \/ Receive(c)
        \/ HandlerStep(c) \/ TaskStep(c)
        \/ LoseConnection(c)
  \/ \E S \in orphans : RelayOrphan(S)

Spec == Init /\ [][Next]_vars

\* run_client reconnects for ever and every session subscribes every node;
\* the server's tasks are scheduled and run to their end.
Fairness ==
  /\ \A c \in Clients :
       /\ WF_vars(Join(c))
       /\ WF_vars(Receive(c))
       /\ WF_vars(HandlerStep(c))
       /\ WF_vars(TaskStep(c))
  /\ WF_vars(\E S \in orphans : RelayOrphan(S))

FairSpec == Spec /\ Fairness

-----------------------------------------------------------------------------
(* Properties *)

\* The types of the variables.
TypeOK ==
  /\ content \in [Clients -> SUBSET Op]
  /\ linked \in [Clients -> BOOLEAN]
  /\ c2s \in [Clients -> Seq(Frame)]
  /\ s2c \in [Clients -> Seq(Frame)]
  /\ stage \in [Clients -> {"idle", "read", "ask", "relay"}]
  /\ job \in [Clients -> SUBSET Op]
  /\ answered \in [Clients -> BOOLEAN]
  /\ subscribed \in [Clients -> BOOLEAN]
  /\ queue \in [Clients -> Seq([own : BOOLEAN, ops : SUBSET Op])]
  /\ missed \in [Clients -> BOOLEAN]
  /\ catching \in [Clients -> BOOLEAN]
  /\ orphans \in SUBSET SUBSET Op
  /\ rows \in SUBSET Op
  /\ edits \in Nat
  /\ faults \in Nat
  /\ dbFailed \in BOOLEAN
  /\ bareDelete \in [Clients -> BOOLEAN]

\* What is relayed, or about to be, can be read back: the catch-up of a task
\* that lagged makes up for any message the channel overwrote.
RelayedIsSaved ==
  /\ UNION orphans \subseteq rows
  /\ \A c \in Clients :
       /\ job[c] \subseteq rows
       /\ \A m \in Range(queue[c]) : m.ops \subseteq rows
       /\ \A f \in Range(s2c[c]) : f.ops \subseteq rows

\* What will reach client c without anyone asking again.
OnTheWay(c) ==
  UNION ({f.ops : f \in Range(s2c[c])} \cup {m.ops : m \in Range(queue[c])}
         \cup {job[d] : d \in Clients} \cup orphans)

\* From the STEP_2 on, a connection misses nothing: every saved operation is
\* in the client, on the way to it, or about to be read for it, whatever was
\* saved while the handler moved from subscribing to reading and however far
\* the forwarding task fell behind, as long as no database call failed.
NothingMissed ==
  \A c \in Clients :
    answered[c] /\ ~missed[c] /\ ~catching[c] /\ ~dbFailed
      => rows \subseteq content[c] \cup OnTheWay(c)

InsertionsInStep == \A c \in Clients : Integrated(content[c]) = Integrated(rows)

TextsInStep == \A c \in Clients : Text(content[c]) = Text(rows)

\* Once faults and edits end, every client holds every insertion, and the
\* same text unless somebody's last edit only deleted, whatever connections
\* were lost, unless a database call failed on the way.
EditsConverge ==
  <>[](dbFailed \/ (InsertionsInStep /\ ((\A c \in Clients : ~bareDelete[c]) => TextsInStep)))

\* server.rs 412, of the updates that are dropped: "no blocks and an empty
\* delete set".  A dropped one must bring nothing the rows lack.
SkipsOnlyEmptyUpdates ==
  [][\A c \in Clients : SkipUpdate(c) => Head(c2s[c]).ops \subseteq rows]_vars
=============================================================================
