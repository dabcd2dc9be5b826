------------------------- MODULE ManifestSyncProofs -------------------------
(***************************************************************************)
(* Proofs about ManifestSync, for any set of clients and any bounds.       *)
(***************************************************************************)
EXTENDS ManifestSync, TLAPS

\* An update's clock has been handed out: by an earlier Doc instance of its
\* author, or by the present one.  p and k stand for process and clock.
Issued(u, p, k) ==
  \/ u.process < p[u.author]
  \/ u.process = p[u.author] /\ u.clock <= k[u.author]

UpdatesIssued(S, p, k) == \A u \in S : Issued(u, p, k)
FramesIssued(q, p, k)  == \A f \in Range(q) : UpdatesIssued(f.updates, p, k)

\* Nothing in any replica, file, row or frame carries a clock its author has
\* not handed out yet, so a fresh clock fills no gap of an older update.
AllIssued ==
  /\ \A u \in smem \cup db : Issued(u, process, clock)
  /\ \A c \in Clients :
       /\ \A u \in mem[c] \cup disk[c] : Issued(u, process, clock)
       /\ \A f \in Range(c2s[c]) \cup Range(s2c[c]) : \A u \in f.updates : Issued(u, process, clock)

\* A session's first manifest frame is never the server's STEP_1, so the
\* initial scan runs on a lamport that has just observed the manifest; and a
\* STEP_1 brings no updates.
FirstFrameIsApplied ==
  \A c \in Clients :
    /\ ~scanned[c] /\ s2c[c] # <<>> => s2c[c][1].kind # "step1"
    /\ \A f \in Range(s2c[c]) : f.kind = "step1" => f.updates = {}

IInv ==
  /\ TypeOK
  /\ BroadcastsAreDurable
  /\ AllIssued
  /\ FirstFrameIsApplied
  /\ LamportCoversManifest

-----------------------------------------------------------------------------
(* The operators of the model *)

\* A Doc integrates only updates it received.
LEMMA IntegratedSubset == \A S : Integrated(S) \subseteq S
  BY DEF Integrated

\* State vectors and frames are of their types.
LEMMA FrameTypes ==
  ASSUME NEW S \in SUBSET Update, NEW sv \in SUBSET Id
  PROVE  /\ StateVector(S) \in SUBSET Id
         /\ Step1(S) \in Frame
         /\ Step2(S, sv) \in Frame
         /\ Push(S) \in Frame
         /\ Diff(S, sv) \in SUBSET Update
  <1>1. StateVector(S) \in SUBSET Id
    <2>1. \A u \in Update : IdOf(u) \in Id
      BY DEF IdOf, Id, Update
    <2>2. \A u \in Integrated(S) : u \in Update
      BY IntegratedSubset
    <2> QED
      BY <2>1, <2>2 DEF StateVector
  <1>2. Diff(S, sv) \in SUBSET Update
    BY DEF Diff
  <1> QED
    BY <1>1, <1>2 DEF Step1, Step2, Push, Frame

\* An update whose clock lies past every clock of its Doc instance makes
\* nothing else integrable.
LEMMA FreshUpdateFillsNoGap ==
  ASSUME NEW S \in SUBSET Update, NEW u0 \in Update,
         \A v \in S : v.author = u0.author /\ v.process = u0.process => v.clock < u0.clock
  PROVE  Integrated(S \cup {u0}) \subseteq Integrated(S) \cup {u0}
  <1> SUFFICES ASSUME NEW u \in Integrated(S \cup {u0}), u # u0
               PROVE  u \in Integrated(S)
    OBVIOUS
  <1>1. u \in S /\ u \in Update
    BY DEF Integrated
  <1>2. ASSUME NEW k \in 1..u.clock
        PROVE  \E v \in S : IdOf(v) = [IdOf(u) EXCEPT !.clock = k]
    <2>1. PICK v \in S \cup {u0} : IdOf(v) = [IdOf(u) EXCEPT !.clock = k]
      BY DEF Integrated
    <2>2. v.author = u.author /\ v.process = u.process /\ v.clock = k
      BY <2>1, <1>1 DEF IdOf
    <2>3. v # u0
      <3> SUFFICES ASSUME v = u0 PROVE FALSE
        OBVIOUS
      <3>1. u.clock < u0.clock /\ k = u0.clock
        BY <2>2, <1>1
      <3> QED
        BY <3>1, <1>1 DEF Update
    <2> QED
      BY <2>1, <2>3
  <1> QED
    BY <1>1, <1>2 DEF Integrated

\* The lamport a client moves to is a number past every stamp it can read.
LEMMA ObservedCovers ==
  ASSUME NEW S \in SUBSET Update, NEW l \in Nat, NEW m \in Observed(l, S)
  PROVE  m \in Nat /\ l <= m /\ \A u \in Integrated(S) : u.lamport < m
  <1> DEFINE stamps == {l} \cup {u.lamport + 1 : u \in Integrated(S)}
  <1>1. Integrated(S) \subseteq Update
    BY IntegratedSubset
  <1>2. stamps \subseteq Nat
    BY <1>1 DEF Update
  <1>3. m \in stamps /\ \A k \in stamps : k <= m
    BY DEF Observed
  <1>4. \A u \in Integrated(S) : u.lamport + 1 <= m /\ u.lamport \in Nat
    BY <1>1, <1>3 DEF Update
  <1> QED
    BY <1>2, <1>3, <1>4

-----------------------------------------------------------------------------
(* Type correctness *)

\* The initial values have their types.
LEMMA TypeInit == Init => TypeOK
  <1> SUFFICES ASSUME Init PROVE TypeOK
    OBVIOUS
  <1>1. <<>> \in Seq(Frame)
    OBVIOUS
  <1>2. c2s \in [Clients -> Seq(Frame)] /\ s2c \in [Clients -> Seq(Frame)]
    BY <1>1 DEF Init
  <1>3. /\ mem \in [Clients -> SUBSET Update]
        /\ disk \in [Clients -> SUBSET Update]
        /\ smem \in SUBSET Update
        /\ db \in SUBSET Update
    BY DEF Init
  <1> QED
    BY <1>2, <1>3 DEF Init, TypeOK

\* The part of TypeOK that Scan writes.
LEMMA ScanTypes ==
  ASSUME TypeOK, NEW c \in Clients, NEW known \in SUBSET Update, NEW before \in SUBSET Update,
         NEW l \in Nat, NEW n \in 0..1, NEW ok \in BOOLEAN, NEW reply \in Seq(Frame),
         Scan(c, known, l, n, ok, before, reply)
  PROVE  /\ mem' \in [Clients -> SUBSET Update]
         /\ disk' \in [Clients -> SUBSET Update]
         /\ clock' \in [Clients -> Nat]
         /\ lamport' \in [Clients -> Nat]
         /\ created' \in Nat
         /\ c2s' \in [Clients -> Seq(Frame)]
  <1> DEFINE found == Found(c, l, n)
             all   == known \cup found
             sent  == IF n = 1 /\ ok THEN <<Push(Diff(all, StateVector(known)))>> ELSE <<>>
  <1>1. NewUpdate(c, l) \in Update
    BY DEF NewUpdate, Update, TypeOK
  <1>2. all \in SUBSET Update
    BY <1>1 DEF Found
  <1>3. sent \in Seq(Frame)
    <2>1. Diff(all, StateVector(known)) \in SUBSET Update
      BY <1>2 DEF Diff
    <2>2. Push(Diff(all, StateVector(known))) \in Frame
      BY <2>1 DEF Push, Frame
    <2> QED
      BY <2>2
  <1>4. c2s' = [c2s EXCEPT ![c] = @ \o reply \o sent]
    BY DEF Scan
  <1>5. c2s[c] \o reply \o sent \in Seq(Frame)
    BY <1>3 DEF TypeOK
  <1> QED
    BY <1>2, <1>4, <1>5 DEF Scan, TypeOK

\* Ending sessions keeps the session variables in their types.
LEMMA EndSessionsTypes ==
  ASSUME TypeOK, NEW gone \in SUBSET Clients, EndSessions(gone)
  PROVE  /\ linked' \in [Clients -> BOOLEAN]
         /\ scanned' \in [Clients -> BOOLEAN]
         /\ c2s' \in [Clients -> Seq(Frame)]
         /\ s2c' \in [Clients -> Seq(Frame)]
         /\ subscribed' \in [Clients -> BOOLEAN]
  <1>1. <<>> \in Seq(Frame)
    OBVIOUS
  <1>2. c2s' \in [Clients -> Seq(Frame)] /\ s2c' \in [Clients -> Seq(Frame)]
    BY <1>1 DEF EndSessions, TypeOK
  <1> QED
    BY <1>2 DEF EndSessions, TypeOK

\* The frame a non-empty queue starts with, and what is left of the queue.
LEMMA HeadAndTail ==
  ASSUME NEW q \in Seq(Frame), q # <<>>
  PROVE  /\ Head(q) \in Frame
         /\ Head(q) = q[1]
         /\ 1 \in 1..Len(q)
         /\ Tail(q) \in Seq(Frame)
         /\ Len(Tail(q)) = Len(q) - 1
         /\ \A i \in 1..Len(Tail(q)) : Tail(q)[i] = q[i + 1] /\ i + 1 \in 1..Len(q)
  OBVIOUS

\* A saved or failed save leaves the counters in their types.
LEMMA SaveOutcomeTypes ==
  ASSUME TypeOK, NEW ok \in BOOLEAN, SaveOutcome(ok)
  PROVE  ioFailed' \in BOOLEAN /\ faults' \in Nat
  BY DEF SaveOutcome, TypeOK

\* What handle_manifest_payload hands to the rest of the arm.
LEMMA ReceiveTypes ==
  ASSUME TypeOK, NEW c \in Clients, s2c[c] # <<>>
  PROVE  /\ Head(s2c[c]) \in Frame
         /\ Learned(c) \in SUBSET Update
         /\ Replies(c) \in Seq(Frame)
         /\ LamportAfter(c) \in SUBSET Nat
  <1>1. Head(s2c[c]) \in Frame
    BY HeadAndTail DEF TypeOK
  <1>2. Learned(c) \in SUBSET Update
    BY <1>1 DEF Learned, Frame, TypeOK
  <1>3. Replies(c) \in Seq(Frame)
    <2>1. Head(s2c[c]).sv \in SUBSET Id /\ mem[c] \in SUBSET Update
      BY <1>1 DEF Frame, TypeOK
    <2>2. Step2(mem[c], Head(s2c[c]).sv) \in Frame
      BY <2>1, FrameTypes
    <2> QED
      BY <2>2 DEF Replies
  <1>4. LamportAfter(c) \in SUBSET Nat
    <2>1. lamport[c] \in Nat
      BY DEF TypeOK
    <2> QED
      BY <1>2, <2>1, ObservedCovers DEF LamportAfter
  <1> QED
    BY <1>1, <1>2, <1>3, <1>4

\* The choices of one ReceiveManifest step.
LEMMA ReceiveChoices ==
  ASSUME TypeOK, NEW c \in Clients, ReceiveManifest(c)
  PROVE  \E l \in LamportAfter(c), n \in 0..1, scanOk, ok \in BOOLEAN,
            before \in {Learned(c), disk[c]} :
           Scan(c, Learned(c), l, n, scanOk, before, Replies(c)) /\ SaveOutcome(ok)
  <1>1. PICK l \in LamportAfter(c) :
          \E n \in IF scanned[c] THEN {0} ELSE 0..1 : \E applyOk, scanOk \in BOOLEAN :
             /\ Scan(c, Learned(c), l, n, scanOk, IF applyOk THEN Learned(c) ELSE disk[c], Replies(c))
             /\ SaveOutcome(applyOk /\ scanOk)
    BY DEF ReceiveManifest
  <1>2. PICK n \in IF scanned[c] THEN {0} ELSE 0..1, applyOk \in BOOLEAN, scanOk \in BOOLEAN :
             /\ Scan(c, Learned(c), l, n, scanOk, IF applyOk THEN Learned(c) ELSE disk[c], Replies(c))
             /\ SaveOutcome(applyOk /\ scanOk)
    BY <1>1
  <1>3. n \in 0..1 /\ (applyOk /\ scanOk) \in BOOLEAN
        /\ (IF applyOk THEN Learned(c) ELSE disk[c]) \in {Learned(c), disk[c]}
    BY <1>2
  <1> QED
    BY <1>1, <1>2, <1>3

\* The frames the server's handlers send.
LEMMA AnswerTypes ==
  ASSUME TypeOK, NEW c \in Clients, AnswerStep1(c)
  PROVE  <<Step2(smem, Head(c2s[c]).sv), Step1(smem)>> \in Seq(Frame)
  <1>1. Head(c2s[c]) \in Frame /\ Tail(c2s[c]) \in Seq(Frame)
    BY HeadAndTail DEF AnswerStep1, TypeOK
  <1>2. Head(c2s[c]).sv \in SUBSET Id /\ smem \in SUBSET Update
    BY <1>1 DEF Frame, TypeOK
  <1>3. Step2(smem, Head(c2s[c]).sv) \in Frame
    BY <1>2, FrameTypes
  <1>4. StateVector(smem) \in SUBSET Id
    BY FrameTypes DEF TypeOK
  <1>5. Step1(smem) \in Frame
    BY <1>4 DEF Step1, Frame
  <1> QED
    BY <1>3, <1>5

\* What the server takes from an UPDATE, and pushes to others, has its type.
LEMMA MergeTypes ==
  ASSUME TypeOK, NEW c \in Clients, MergeUpdate(c)
  PROVE  Head(c2s[c]).updates \in SUBSET Update /\ Push(Head(c2s[c]).updates) \in Frame
  <1>1. Head(c2s[c]) \in Frame
    BY HeadAndTail DEF MergeUpdate, TypeOK
  <1>2. Head(c2s[c]).updates \in SUBSET Update
    BY <1>1 DEF Frame
  <1> QED
    BY <1>2 DEF Push, Frame

\* Every step preserves the types.
LEMMA TypeNext ==
  ASSUME TypeOK, [Next]_vars
  PROVE  TypeOK'
  <1>1. ASSUME NEW c \in Clients, Connect(c) PROVE TypeOK'
    <2>1. Step1(mem[c]) \in Frame
      <3>1. StateVector(mem[c]) \in SUBSET Id
        BY FrameTypes DEF TypeOK
      <3> QED
        BY <3>1 DEF Step1, Frame
    <2>2. c2s' \in [Clients -> Seq(Frame)]
      BY <1>1, <2>1 DEF Connect, TypeOK
    <2> QED
      BY <1>1, <2>2 DEF Connect, TypeOK, clientVars, serverVars, boundVars
  <1>2. ASSUME NEW c \in Clients, ReceiveManifest(c) PROVE TypeOK'
    <2>0. /\ Learned(c) \in SUBSET Update
          /\ Replies(c) \in Seq(Frame)
          /\ LamportAfter(c) \in SUBSET Nat
      BY <1>2, ReceiveTypes DEF ReceiveManifest
    <2>1. PICK l \in LamportAfter(c), n \in 0..1, scanOk \in BOOLEAN, ok \in BOOLEAN,
               before \in {Learned(c), disk[c]} :
             Scan(c, Learned(c), l, n, scanOk, before, Replies(c)) /\ SaveOutcome(ok)
      BY <1>2, ReceiveChoices
    <2>6. before \in SUBSET Update /\ l \in Nat
      BY <2>0, <2>1 DEF TypeOK
    <2>2. s2c' \in [Clients -> Seq(Frame)]
      BY <1>2, HeadAndTail DEF ReceiveManifest, TypeOK
    <2>3. scanned' \in [Clients -> BOOLEAN]
      BY <1>2 DEF ReceiveManifest, TypeOK
    <2>4. /\ mem' \in [Clients -> SUBSET Update]
          /\ disk' \in [Clients -> SUBSET Update]
          /\ clock' \in [Clients -> Nat]
          /\ lamport' \in [Clients -> Nat]
          /\ created' \in Nat
          /\ c2s' \in [Clients -> Seq(Frame)]
      BY <2>0, <2>1, <2>6, ScanTypes
    <2>5. ioFailed' \in BOOLEAN /\ faults' \in Nat
      BY <2>1, SaveOutcomeTypes
    <2> QED
      BY <1>2, <2>2, <2>3, <2>4, <2>5 DEF ReceiveManifest, TypeOK, serverVars
  <1>3. ASSUME NEW c \in Clients, RescanVault(c) PROVE TypeOK'
    <2>1. PICK ok \in BOOLEAN :
             Scan(c, mem[c], lamport[c], 1, ok, disk[c], <<>>) /\ SaveOutcome(ok)
      BY <1>3 DEF RescanVault
    <2>2. /\ mem[c] \in SUBSET Update /\ disk[c] \in SUBSET Update /\ lamport[c] \in Nat
          /\ 1 \in 0..1 /\ <<>> \in Seq(Frame)
      BY DEF TypeOK
    <2>3. /\ mem' \in [Clients -> SUBSET Update]
          /\ disk' \in [Clients -> SUBSET Update]
          /\ clock' \in [Clients -> Nat]
          /\ lamport' \in [Clients -> Nat]
          /\ created' \in Nat
          /\ c2s' \in [Clients -> Seq(Frame)]
      BY <2>1, <2>2, ScanTypes
    <2>4. ioFailed' \in BOOLEAN /\ faults' \in Nat
      BY <2>1, SaveOutcomeTypes
    <2> QED
      BY <1>3, <2>3, <2>4 DEF RescanVault, TypeOK, serverVars
  <1>4. ASSUME NEW c \in Clients, Subscribe(c) PROVE TypeOK'
    BY <1>4 DEF Subscribe, TypeOK, clientVars, serverVars, boundVars
  <1>5. ASSUME NEW c \in Clients, AnswerStep1(c) PROVE TypeOK'
    <2>1. Tail(c2s[c]) \in Seq(Frame)
      BY <1>5, HeadAndTail DEF AnswerStep1, TypeOK
    <2>2. s2c[c] \o <<Step2(smem, Head(c2s[c]).sv), Step1(smem)>> \in Seq(Frame)
      BY <1>5, AnswerTypes DEF TypeOK
    <2> QED
      BY <1>5, <2>1, <2>2 DEF AnswerStep1, TypeOK, clientVars, serverVars, boundVars
  <1>6. ASSUME NEW c \in Clients, MergeUpdate(c) PROVE TypeOK'
    <2> DEFINE S == Head(c2s[c]).updates
    <2>1. Tail(c2s[c]) \in Seq(Frame)
      BY <1>6, HeadAndTail DEF MergeUpdate, TypeOK
    <2>2. S \in SUBSET Update /\ Push(S) \in Frame
      BY <1>6, MergeTypes
    <2>4. s2c' \in [Clients -> Seq(Frame)]
      <3>1. \A d \in Clients : Append(s2c[d], Push(S)) \in Seq(Frame)
        BY <2>2 DEF TypeOK
      <3> QED
        BY <1>6, <3>1 DEF MergeUpdate, Broadcast, TypeOK
    <2>5. ioFailed' \in BOOLEAN /\ faults' \in Nat
      BY <1>6, SaveOutcomeTypes DEF MergeUpdate
    <2> QED
      BY <1>6, <2>1, <2>2, <2>4, <2>5 DEF MergeUpdate, TypeOK, clientVars
  <1>7. ASSUME NEW c \in Clients, LoseConnection(c) PROVE TypeOK'
    <2>1. EndSessions({c}) /\ {c} \in SUBSET Clients
      BY <1>7 DEF LoseConnection
    <2> QED
      BY <1>7, <2>1, EndSessionsTypes DEF LoseConnection, Fault, TypeOK, clientVars, serverVars
  <1>8. ASSUME NEW c \in Clients, RestartClient(c) PROVE TypeOK'
    <2>1. EndSessions({c}) /\ {c} \in SUBSET Clients
      BY <1>8 DEF RestartClient
    <2>2. /\ mem' \in [Clients -> SUBSET Update] /\ process' \in [Clients -> Nat]
          /\ clock' \in [Clients -> Nat] /\ lamport' \in [Clients -> Nat]
      BY <1>8 DEF RestartClient, TypeOK
    <2>3. faults' \in Nat /\ UNCHANGED <<disk, smem, db, ioFailed, created>>
      BY <1>8 DEF RestartClient, Fault, TypeOK, serverVars
    <2> QED
      BY <2>1, <2>2, <2>3, EndSessionsTypes DEF TypeOK
  <1>9. ASSUME RestartServer PROVE TypeOK'
    <2>1. EndSessions(Clients) /\ Clients \in SUBSET Clients
      BY <1>9 DEF RestartServer
    <2>2. smem' \in SUBSET Update /\ ioFailed' \in BOOLEAN
      BY <1>9 DEF RestartServer, TypeOK
    <2>3. faults' \in Nat /\ UNCHANGED <<clientVars, db, created>>
      BY <1>9 DEF RestartServer, Fault, TypeOK
    <2> QED
      BY <2>1, <2>2, <2>3, EndSessionsTypes DEF TypeOK, clientVars
  <1>10. CASE UNCHANGED vars
    BY <1>10 DEF TypeOK, vars, clientVars, sessionVars, serverVars, boundVars
  <1> QED
    BY <1>1, <1>2, <1>3, <1>4, <1>5, <1>6, <1>7, <1>8, <1>9, <1>10 DEF Next

\* The variables of the manifest channel keep their types, whatever the
\* clients, the faults and the interleaving.
THEOREM TypeCorrect == Spec => []TypeOK
  <1>1. Init => TypeOK
    BY TypeInit
  <1>2. TypeOK /\ [Next]_vars => TypeOK'
    BY TypeNext
  <1> QED
    BY <1>1, <1>2, PTL DEF Spec

-----------------------------------------------------------------------------
(* Sequences of frames *)

\* The frames a queue holds after it was extended or its head was taken.
LEMMA QueueFrames ==
  /\ Range(<<>>) = {}
  /\ \A a : Range(<<a>>) = {a}
  /\ \A a, b : Range(<<a, b>>) = {a, b}
  /\ \A q, r \in Seq(Frame) : Range(q \o r) = Range(q) \cup Range(r)
  /\ \A q \in Seq(Frame), f \in Frame : Range(Append(q, f)) = Range(q) \cup {f}
  /\ \A q \in Seq(Frame) : q # <<>> => Head(q) \in Range(q) /\ Range(Tail(q)) \subseteq Range(q)
  <1>1. Range(<<>>) = {}
    BY DEF Range
  <1>2. ASSUME NEW a PROVE Range(<<a>>) = {a}
    BY DEF Range
  <1>3. ASSUME NEW a, NEW b PROVE Range(<<a, b>>) = {a, b}
    BY DEF Range
  <1>4. ASSUME NEW q \in Seq(Frame), NEW r \in Seq(Frame)
        PROVE  Range(q \o r) = Range(q) \cup Range(r)
    <2>1. \A i \in 1..Len(q) : i \in DOMAIN (q \o r) /\ (q \o r)[i] = q[i]
      OBVIOUS
    <2>2. \A i \in 1..Len(r) : Len(q) + i \in DOMAIN (q \o r) /\ (q \o r)[Len(q) + i] = r[i]
      OBVIOUS
    <2>3. \A i \in DOMAIN (q \o r) : \/ i \in 1..Len(q) /\ (q \o r)[i] = q[i]
                                     \/ i - Len(q) \in 1..Len(r) /\ (q \o r)[i] = r[i - Len(q)]
      OBVIOUS
    <2>4. DOMAIN q = 1..Len(q) /\ DOMAIN r = 1..Len(r)
      OBVIOUS
    <2>5. ASSUME NEW i \in DOMAIN (q \o r) PROVE (q \o r)[i] \in Range(q) \cup Range(r)
      <3>1. CASE i \in 1..Len(q) /\ (q \o r)[i] = q[i]
        BY <2>4, <3>1 DEF Range
      <3>2. CASE i - Len(q) \in 1..Len(r) /\ (q \o r)[i] = r[i - Len(q)]
        BY <2>4, <3>2 DEF Range
      <3> QED
        BY <2>3, <3>1, <3>2
    <2>6. ASSUME NEW i \in DOMAIN q PROVE q[i] \in Range(q \o r)
      BY <2>1, <2>4 DEF Range
    <2>7. ASSUME NEW i \in DOMAIN r PROVE r[i] \in Range(q \o r)
      BY <2>2, <2>4 DEF Range
    <2> QED
      BY <2>5, <2>6, <2>7, Zenon DEF Range
  <1>5. ASSUME NEW q \in Seq(Frame), NEW f \in Frame
        PROVE  Range(Append(q, f)) = Range(q) \cup {f}
    <2>1. DOMAIN Append(q, f) = 1..Len(q) + 1 /\ Append(q, f)[Len(q) + 1] = f
      OBVIOUS
    <2>2. \A i \in 1..Len(q) : i \in DOMAIN Append(q, f) /\ Append(q, f)[i] = q[i]
      OBVIOUS
    <2>3. DOMAIN q = 1..Len(q) /\ Len(q) \in Nat
      OBVIOUS
    <2> QED
      BY <2>1, <2>2, <2>3 DEF Range
  <1>6. ASSUME NEW q \in Seq(Frame), q # <<>>
        PROVE  Head(q) \in Range(q) /\ Range(Tail(q)) \subseteq Range(q)
    BY <1>6, HeadAndTail DEF Range
  <1> QED
    BY <1>1, <1>2, <1>3, <1>4, <1>5, <1>6

-----------------------------------------------------------------------------
(* Broadcasts are durable *)

\* Ending sessions only removes frames.
LEMMA EndSessionsFrames ==
  ASSUME TypeOK, NEW gone \in SUBSET Clients, EndSessions(gone), NEW c \in Clients
  PROVE  /\ Range(c2s'[c]) \subseteq Range(c2s[c])
         /\ Range(s2c'[c]) \subseteq Range(s2c[c])
         /\ c \in gone => s2c'[c] = <<>>
         /\ c \notin gone => s2c'[c] = s2c[c]
         /\ scanned'[c] = (scanned[c] /\ c \notin gone)
  <1>1. CASE c \in gone
    BY <1>1, QueueFrames DEF EndSessions
  <1>2. CASE c \notin gone
    BY <1>2 DEF EndSessions
  <1> QED
    BY <1>1, <1>2

\* Every step preserves BroadcastsAreDurable: the rows only grow, and the
\* one step that sends an UPDATE has just added it to them.
LEMMA DurableNext ==
  ASSUME TypeOK, BroadcastsAreDurable, [Next]_vars
  PROVE  BroadcastsAreDurable'
  <1> SUFFICES ASSUME NEW d \in Clients, NEW f \in Range(s2c'[d]), f.kind = "update"
               PROVE  f.updates \subseteq db'
    BY DEF BroadcastsAreDurable
  <1>0. ASSUME f \in Range(s2c[d]), db \subseteq db' PROVE f.updates \subseteq db'
    BY <1>0 DEF BroadcastsAreDurable
  <1>1. ASSUME NEW c \in Clients, Connect(c) PROVE f.updates \subseteq db'
    BY <1>0, <1>1 DEF Connect, serverVars
  <1>2. ASSUME NEW c \in Clients, ReceiveManifest(c) PROVE f.updates \subseteq db'
    <2>1. s2c' = [s2c EXCEPT ![c] = Tail(@)] /\ s2c[c] # <<>> /\ db' = db
      BY <1>2 DEF ReceiveManifest, serverVars
    <2>2. f \in Range(s2c[d])
      BY <2>1, QueueFrames DEF TypeOK
    <2> QED
      BY <1>0, <2>1, <2>2
  <1>3. ASSUME NEW c \in Clients, RescanVault(c) PROVE f.updates \subseteq db'
    BY <1>0, <1>3 DEF RescanVault, serverVars
  <1>4. ASSUME NEW c \in Clients, Subscribe(c) PROVE f.updates \subseteq db'
    BY <1>0, <1>4 DEF Subscribe, serverVars
  <1>5. ASSUME NEW c \in Clients, AnswerStep1(c) PROVE f.updates \subseteq db'
    <2> DEFINE answer == <<Step2(smem, Head(c2s[c]).sv), Step1(smem)>>
    <2>1. s2c' = [s2c EXCEPT ![c] = @ \o answer] /\ db' = db
      BY <1>5 DEF AnswerStep1, serverVars
    <2>2. answer \in Seq(Frame) /\ s2c[c] \in Seq(Frame)
      BY <1>5, AnswerTypes DEF TypeOK
    <2>3. Range(s2c[c] \o answer) = Range(s2c[c]) \cup {Step2(smem, Head(c2s[c]).sv), Step1(smem)}
      <3>1. Range(answer) = {Step2(smem, Head(c2s[c]).sv), Step1(smem)}
        BY QueueFrames
      <3> HIDE DEF answer
      <3> QED
        BY <2>2, <3>1, QueueFrames
    <2>4. Step2(smem, Head(c2s[c]).sv).kind # "update" /\ Step1(smem).kind # "update"
      BY DEF Step1, Step2
    <2>5. f \in Range(s2c[d])
      BY <2>1, <2>3, <2>4 DEF TypeOK
    <2> QED
      BY <1>0, <2>1, <2>5
  <1>6. ASSUME NEW c \in Clients, MergeUpdate(c) PROVE f.updates \subseteq db'
    <2> DEFINE S == Head(c2s[c]).updates
    <2>1. CASE db' = db \cup S /\ Broadcast(c, S)
      <3>1. CASE f = Push(S)
        BY <2>1, <3>1 DEF Push
      <3>2. CASE f # Push(S)
        <4>1. Push(S) \in Frame
          BY <1>6, MergeTypes
        <4>2. Range(Append(s2c[d], Push(S))) = Range(s2c[d]) \cup {Push(S)}
          BY <4>1, QueueFrames DEF TypeOK
        <4>3. s2c'[d] = s2c[d] \/ s2c'[d] = Append(s2c[d], Push(S))
          BY <2>1 DEF Broadcast
        <4> QED
          BY <1>0, <2>1, <3>2, <4>2, <4>3
      <3> QED
        BY <3>1, <3>2
    <2>2. CASE UNCHANGED <<db, s2c>>
      BY <1>0, <2>2
    <2> QED
      BY <1>6, <2>1, <2>2 DEF MergeUpdate
  <1>7. ASSUME NEW c \in Clients, LoseConnection(c) PROVE f.updates \subseteq db'
    BY <1>0, <1>7, EndSessionsFrames DEF LoseConnection, serverVars
  <1>8. ASSUME NEW c \in Clients, RestartClient(c) PROVE f.updates \subseteq db'
    BY <1>0, <1>8, EndSessionsFrames DEF RestartClient, serverVars
  <1>9. ASSUME RestartServer PROVE f.updates \subseteq db'
    BY <1>0, <1>9, EndSessionsFrames DEF RestartServer
  <1>10. CASE UNCHANGED vars
    BY <1>0, <1>10 DEF vars, sessionVars, serverVars
  <1> QED
    BY <1>1, <1>2, <1>3, <1>4, <1>5, <1>6, <1>7, <1>8, <1>9, <1>10 DEF Next

\* What a client has been told by broadcast survives a server restart.
THEOREM DurableBroadcasts == Spec => []BroadcastsAreDurable
  <1>1. Init => TypeOK /\ BroadcastsAreDurable
    <2>1. ASSUME Init PROVE BroadcastsAreDurable
      BY <2>1, QueueFrames DEF Init, BroadcastsAreDurable
    <2> QED
      BY <2>1, TypeInit
  <1>2. TypeOK /\ BroadcastsAreDurable /\ [Next]_vars => (TypeOK /\ BroadcastsAreDurable)'
    BY TypeNext, DurableNext
  <1> QED
    BY <1>1, <1>2, PTL DEF Spec

-----------------------------------------------------------------------------
(* Clocks are handed out once *)

\* An issued clock stays issued: a Doc instance's clock only grows, and a
\* new instance comes with a new client id.
IssuedStays ==
  \A u \in Update : Issued(u, process, clock) => Issued(u, process', clock')

\* No step takes an issued clock back.
LEMMA ClocksGrow ==
  ASSUME TypeOK, [Next]_vars
  PROVE  IssuedStays
  <1> SUFFICES ASSUME NEW u \in Update, Issued(u, process, clock)
               PROVE  Issued(u, process', clock')
    BY DEF IssuedStays
  <1> DEFINE Later(c) == \/ process'[c] = process[c] /\ clock'[c] \in Nat /\ clock[c] <= clock'[c]
                         \/ process'[c] = process[c] + 1
  <1>0. u.author \in Clients /\ u.process \in Nat /\ u.clock \in Nat
        /\ process[u.author] \in Nat /\ clock[u.author] \in Nat
    BY DEF Update, TypeOK
  <1>1. ASSUME UNCHANGED <<process, clock>> PROVE Later(u.author)
    BY <1>0, <1>1
  <1>2. ASSUME NEW c \in Clients, ReceiveManifest(c) PROVE Later(u.author)
    <2>1. PICK n \in 0..1 : clock' = [clock EXCEPT ![c] = @ + n]
      BY <1>2, ReceiveChoices DEF Scan
    <2>2. process' = process
      BY <1>2 DEF ReceiveManifest
    <2> QED
      BY <1>0, <2>1, <2>2 DEF TypeOK
  <1>3. ASSUME NEW c \in Clients, RescanVault(c) PROVE Later(u.author)
    <2>1. clock' = [clock EXCEPT ![c] = @ + 1] /\ process' = process
      BY <1>3 DEF RescanVault, Scan
    <2> QED
      BY <1>0, <2>1 DEF TypeOK
  <1>4. ASSUME NEW c \in Clients, RestartClient(c) PROVE Later(u.author)
    BY <1>0, <1>4 DEF RestartClient, Fault, TypeOK
  <1>5. ASSUME NEW c \in Clients,
               \/ Connect(c) \/ Subscribe(c) \/ AnswerStep1(c) \/ MergeUpdate(c) \/ LoseConnection(c)
        PROVE  UNCHANGED <<process, clock>>
    BY <1>5 DEF Connect, Subscribe, AnswerStep1, MergeUpdate, LoseConnection, clientVars
  <1>6. ASSUME RestartServer \/ UNCHANGED vars PROVE UNCHANGED <<process, clock>>
    BY <1>6 DEF RestartServer, vars, clientVars
  <1>7. Later(u.author)
    BY <1>1, <1>2, <1>3, <1>4, <1>5, <1>6 DEF Next
  <1> QED
    BY <1>0, <1>7 DEF Issued

\* What a scan leaves behind is issued when what it started from was, and
\* its node fills no gap.
LEMMA ScanIssues ==
  ASSUME TypeOK, AllIssued, process' = process,
         IssuedStays,
         NEW c \in Clients, NEW known \in SUBSET Update, NEW before \in SUBSET Update,
         NEW l \in Nat, NEW n \in 0..1, NEW ok \in BOOLEAN, NEW reply \in Seq(Frame),
         Scan(c, known, l, n, ok, before, reply),
         UpdatesIssued(known \cup before, process, clock),
         FramesIssued(reply, process, clock)
  PROVE  /\ UpdatesIssued(mem'[c] \cup disk'[c], process', clock')
         /\ FramesIssued(c2s'[c], process', clock')
  <1>9. PICK new \in Update : new = NewUpdate(c, l)
    <2>1. NewUpdate(c, l) \in Update
      BY DEF NewUpdate, Update, TypeOK
    <2> QED
      BY <2>1
  <1> DEFINE found == IF n = 0 THEN {} ELSE {new}
             all   == known \cup found
             sent  == IF n = 1 /\ ok THEN <<Push(Diff(all, StateVector(known)))>> ELSE <<>>
  <1>0. /\ mem' = [mem EXCEPT ![c] = all]
        /\ disk' = [disk EXCEPT ![c] = IF n = 1 /\ ok THEN all ELSE before]
        /\ clock' = [clock EXCEPT ![c] = @ + n]
        /\ c2s' = [c2s EXCEPT ![c] = @ \o reply \o sent]
    BY <1>9 DEF Scan, Found
  <1>1. new \in Update /\ new.author = c /\ new.process = process[c] /\ new.clock = clock[c] + 1
    BY <1>9 DEF NewUpdate
  <1>2. n = 1 => Issued(new, process', clock')
    BY <1>0, <1>1 DEF Issued, TypeOK
  <1>3. \A u \in Update : Issued(u, process, clock) => Issued(u, process', clock')
    BY DEF IssuedStays
  <1>4. \A u \in all \cup before : Issued(u, process', clock')
    <2>1. \A u \in known \cup before : u \in Update /\ Issued(u, process, clock)
      BY DEF UpdatesIssued
    <2>2. \A u \in known \cup before : Issued(u, process', clock')
      BY <1>3, <2>1
    <2>3. \A u \in found : u = new /\ n = 1
      OBVIOUS
    <2> QED
      BY <1>2, <2>2, <2>3
  <1>5. \A u \in mem'[c] \cup disk'[c] : Issued(u, process', clock')
    BY <1>0, <1>4 DEF TypeOK
  <1>6. \A f \in Range(c2s'[c]) : \A u \in f.updates : Issued(u, process', clock')
    <2>1. all \in SUBSET Update
      BY <1>1
    <2>2. Diff(all, StateVector(known)) \in SUBSET Update
      BY <2>1 DEF Diff
    <2>3. Push(Diff(all, StateVector(known))) \in Frame
      BY <2>2 DEF Push, Frame
    <2>4. sent \in Seq(Frame)
      BY <2>3
    <2>5. \A f \in Range(sent) : \A u \in f.updates : Issued(u, process', clock')
      <3>1. Range(<<>>) = {} /\ \A a : Range(<<a>>) = {a}
        BY QueueFrames
      <3>2. CASE n = 1 /\ ok
        <4>1. Range(sent) = {Push(Diff(all, StateVector(known)))}
          BY <3>1, <3>2
        <4>2. Push(Diff(all, StateVector(known))).updates \subseteq all
          BY DEF Push, Diff
        <4> QED
          BY <1>4, <4>1, <4>2
      <3>3. CASE ~(n = 1 /\ ok)
        <4>1. Range(sent) = {}
          BY <3>1, <3>3
        <4> QED
          BY <4>1
      <3> QED
        BY <3>2, <3>3
    <2>6. \A f \in Range(c2s[c]) \cup Range(reply) : f \in Frame
      BY DEF Range, TypeOK
    <2>7. \A f \in Range(c2s[c]) \cup Range(reply) : \A u \in f.updates : u \in Update /\ Issued(u, process, clock)
      BY <2>6 DEF Frame, AllIssued, FramesIssued, UpdatesIssued
    <2>8. \A f \in Range(c2s[c]) \cup Range(reply) \cup Range(sent) : \A u \in f.updates : Issued(u, process', clock')
      BY <1>3, <2>5, <2>7
    <2>9. c2s'[c] = c2s[c] \o reply \o sent
      BY <1>0 DEF TypeOK
    <2>10. Range(c2s'[c]) = Range(c2s[c]) \cup Range(reply) \cup Range(sent)
      <3> HIDE DEF sent
      <3>1. c2s[c] \in Seq(Frame) /\ c2s[c] \o reply \in Seq(Frame)
        BY DEF TypeOK
      <3>2. \A q, r \in Seq(Frame) : Range(q \o r) = Range(q) \cup Range(r)
        BY QueueFrames
      <3>3. /\ Range(c2s[c] \o reply) = Range(c2s[c]) \cup Range(reply)
            /\ Range((c2s[c] \o reply) \o sent) = Range(c2s[c] \o reply) \cup Range(sent)
        BY <2>4, <3>1, <3>2
      <3> QED
        BY <2>9, <3>3
    <2> QED
      BY <2>8, <2>10
  <1> QED
    BY <1>5, <1>6, <1>9 DEF UpdatesIssued, FramesIssued

\* The node of a scan makes nothing else integrable.
LEMMA ScanIntegrates ==
  ASSUME TypeOK, NEW c \in Clients, NEW known \in SUBSET Update, NEW before \in SUBSET Update,
         NEW l \in Nat, NEW n \in 0..1, NEW ok \in BOOLEAN, NEW reply \in Seq(Frame),
         Scan(c, known, l, n, ok, before, reply),
         UpdatesIssued(known, process, clock)
  PROVE  Integrated(mem'[c]) \subseteq Integrated(known) \cup Found(c, l, n)
  <1>1. PICK new \in Update : new = NewUpdate(c, l)
    <2>1. NewUpdate(c, l) \in Update
      BY DEF NewUpdate, Update, TypeOK
    <2> QED
      BY <2>1
  <1>2. new.author = c /\ new.process = process[c] /\ new.clock = clock[c] + 1
    BY <1>1 DEF NewUpdate
  <1>3. ASSUME NEW v \in known, v.author = c, v.process = process[c]
        PROVE  v.clock < clock[c] + 1
    <2>1. Issued(v, process, clock)
      BY DEF UpdatesIssued
    <2>2. v.clock \in Nat /\ v.process \in Nat /\ clock[c] \in Nat /\ process[c] \in Nat
      BY DEF Update, TypeOK
    <2> QED
      BY <1>3, <2>1, <2>2 DEF Issued
  <1>4. Integrated(known \cup {new}) \subseteq Integrated(known) \cup {new}
    BY <1>2, <1>3, FreshUpdateFillsNoGap
  <1>5. mem'[c] = known \cup Found(c, l, n)
    BY DEF Scan, TypeOK
  <1> QED
    BY <1>1, <1>4, <1>5 DEF Found


\* What a client's manifest step works on is issued.
LEMMA ReceiveIssued ==
  ASSUME TypeOK, AllIssued, NEW c \in Clients, s2c[c] # <<>>
  PROVE  /\ UpdatesIssued(Learned(c) \cup disk[c], process, clock)
         /\ FramesIssued(Replies(c), process, clock)
  <1>1. Head(s2c[c]) \in Range(s2c[c])
    BY QueueFrames DEF TypeOK
  <1>2. \A u \in Learned(c) \cup disk[c] : Issued(u, process, clock)
    BY <1>1 DEF Learned, AllIssued
  <1>3. \A f \in Range(Replies(c)) : f.updates \subseteq mem[c]
    <2>1. Range(<<>>) = {} /\ \A a : Range(<<a>>) = {a}
      BY QueueFrames
    <2>2. Step2(mem[c], Head(s2c[c]).sv).updates \subseteq mem[c]
      BY DEF Step2, Diff
    <2> QED
      BY <2>1, <2>2 DEF Replies
  <1> QED
    BY <1>2, <1>3 DEF AllIssued, UpdatesIssued, FramesIssued

\* No step makes an update whose clock was not handed out.
LEMMA IssuedNext ==
  ASSUME TypeOK, AllIssued, [Next]_vars
  PROVE  AllIssued'
  <1> DEFINE Ok(u) == Issued(u, process', clock')
  <1>c. IssuedStays
    BY ClocksGrow
  <1>0. \A u \in Update : Issued(u, process, clock) => Ok(u)
    BY <1>c DEF IssuedStays
  <1>a. ASSUME NEW c \in Clients
        PROVE  /\ \A u \in mem[c] \cup disk[c] : Ok(u)
               /\ \A f \in Range(c2s[c]) \cup Range(s2c[c]) : \A u \in f.updates : Ok(u)
    <2>1. \A u \in mem[c] \cup disk[c] : u \in Update /\ Issued(u, process, clock)
      BY DEF TypeOK, AllIssued
    <2>2. \A f \in Range(c2s[c]) \cup Range(s2c[c]) : f \in Frame
      BY DEF TypeOK, Range
    <2>3. \A f \in Range(c2s[c]) \cup Range(s2c[c]) : \A u \in f.updates :
             u \in Update /\ Issued(u, process, clock)
      BY <2>2 DEF Frame, AllIssued
    <2> QED
      BY <1>0, <2>1, <2>3
  <1>b. \A u \in smem \cup db : Ok(u)
    BY <1>0 DEF TypeOK, AllIssued
  <1> HIDE DEF Ok
  <1> DEFINE Client(c) == \A u \in mem'[c] \cup disk'[c] : Ok(u)
             Queues(c) == \A f \in Range(c2s'[c]) \cup Range(s2c'[c]) : \A u \in f.updates : Ok(u)
             Server    == \A u \in smem' \cup db' : Ok(u)
  <1> SUFFICES Server /\ \A c \in Clients : Client(c) /\ Queues(c)
    BY DEF AllIssued, Ok
  <1>1. ASSUME NEW c \in Clients, Connect(c) PROVE Server /\ \A d \in Clients : Client(d) /\ Queues(d)
    <2>1. Range(<<Step1(mem[c])>>) = {Step1(mem[c])}
      BY QueueFrames
    <2>2. \A f \in Range(<<Step1(mem[c])>>) : f.updates = {}
      BY <2>1 DEF Step1
    <2> QED
      BY <1>a, <1>b, <1>1, <2>2 DEF Connect, clientVars, serverVars, TypeOK
  <1>2. ASSUME NEW c \in Clients, ReceiveManifest(c)
        PROVE  Server /\ \A d \in Clients : Client(d) /\ Queues(d)
    <2>1. /\ Learned(c) \in SUBSET Update
          /\ Replies(c) \in Seq(Frame)
          /\ LamportAfter(c) \in SUBSET Nat
      BY <1>2, ReceiveTypes DEF ReceiveManifest
    <2>2. PICK l \in LamportAfter(c), n \in 0..1, scanOk \in BOOLEAN, ok \in BOOLEAN,
               before \in {Learned(c), disk[c]} :
             Scan(c, Learned(c), l, n, scanOk, before, Replies(c)) /\ SaveOutcome(ok)
      BY <1>2, ReceiveChoices
    <2>3. before \in SUBSET Update /\ l \in Nat /\ process' = process
      BY <1>2, <2>1, <2>2 DEF TypeOK, ReceiveManifest
    <2>4. UpdatesIssued(Learned(c) \cup before, process, clock) /\ FramesIssued(Replies(c), process, clock)
      BY <1>2, <2>2, ReceiveIssued DEF ReceiveManifest, UpdatesIssued
    <2>5. /\ \A u \in mem'[c] \cup disk'[c] : Ok(u)
          /\ \A f \in Range(c2s'[c]) : \A u \in f.updates : Ok(u)
      <3>1. /\ UpdatesIssued(mem'[c] \cup disk'[c], process', clock')
            /\ FramesIssued(c2s'[c], process', clock')
        BY <1>c, <2>1, <2>2, <2>3, <2>4, ScanIssues, Zenon
      <3> QED
        BY <3>1 DEF Ok, UpdatesIssued, FramesIssued
    <2>6. \A d \in Clients : Range(s2c'[d]) \subseteq Range(s2c[d])
      BY <1>2, QueueFrames DEF ReceiveManifest, TypeOK
    <2>7. \A d \in Clients \ {c} : mem'[d] = mem[d] /\ disk'[d] = disk[d] /\ c2s'[d] = c2s[d]
      BY <2>2 DEF Scan, TypeOK
    <2>8. Server
      BY <1>b, <1>2 DEF ReceiveManifest, serverVars
    <2> QED
      BY <1>a, <2>5, <2>6, <2>7, <2>8
  <1>3. ASSUME NEW c \in Clients, RescanVault(c)
        PROVE  Server /\ \A d \in Clients : Client(d) /\ Queues(d)
    <2>1. PICK ok \in BOOLEAN :
             Scan(c, mem[c], lamport[c], 1, ok, disk[c], <<>>) /\ SaveOutcome(ok)
      BY <1>3 DEF RescanVault
    <2>2. /\ mem[c] \in SUBSET Update /\ disk[c] \in SUBSET Update /\ lamport[c] \in Nat
          /\ 1 \in 0..1 /\ <<>> \in Seq(Frame) /\ process' = process
      BY <1>3 DEF TypeOK, RescanVault
    <2>3. UpdatesIssued(mem[c] \cup disk[c], process, clock) /\ FramesIssued(<<>>, process, clock)
      BY QueueFrames DEF AllIssued, UpdatesIssued, FramesIssued
    <2>4. /\ \A u \in mem'[c] \cup disk'[c] : Ok(u)
          /\ \A f \in Range(c2s'[c]) : \A u \in f.updates : Ok(u)
      <3>1. /\ UpdatesIssued(mem'[c] \cup disk'[c], process', clock')
            /\ FramesIssued(c2s'[c], process', clock')
        BY <1>c, <2>1, <2>2, <2>3, ScanIssues, Zenon
      <3> QED
        BY <3>1 DEF Ok, UpdatesIssued, FramesIssued
    <2>5. \A d \in Clients \ {c} : mem'[d] = mem[d] /\ disk'[d] = disk[d] /\ c2s'[d] = c2s[d]
      BY <2>1 DEF Scan, TypeOK
    <2> QED
      BY <1>a, <1>b, <1>3, <2>4, <2>5 DEF RescanVault, serverVars
  <1>4. ASSUME NEW c \in Clients, Subscribe(c) PROVE Server /\ \A d \in Clients : Client(d) /\ Queues(d)
    BY <1>a, <1>b, <1>4 DEF Subscribe, clientVars, serverVars
  <1>5. ASSUME NEW c \in Clients, AnswerStep1(c)
        PROVE  Server /\ \A d \in Clients : Client(d) /\ Queues(d)
    <2> DEFINE answer == <<Step2(smem, Head(c2s[c]).sv), Step1(smem)>>
    <2>1. Range(answer) = {Step2(smem, Head(c2s[c]).sv), Step1(smem)}
      BY QueueFrames
    <2>2. \A f \in Range(answer) : f.updates \subseteq smem
      BY <2>1 DEF Step1, Step2, Diff
    <2>3. answer \in Seq(Frame)
      BY <1>5, AnswerTypes
    <2>4. s2c' = [s2c EXCEPT ![c] = @ \o answer] /\ c2s' = [c2s EXCEPT ![c] = Tail(@)] /\ c2s[c] # <<>>
      BY <1>5 DEF AnswerStep1
    <2> HIDE DEF answer
    <2>5. \A d \in Clients : Range(s2c'[d]) \subseteq Range(s2c[d]) \cup Range(answer)
      BY <2>3, <2>4, QueueFrames DEF TypeOK
    <2>6. \A d \in Clients : Range(c2s'[d]) \subseteq Range(c2s[d])
      BY <2>4, QueueFrames DEF TypeOK
    <2> QED
      BY <1>a, <1>b, <1>5, <2>2, <2>5, <2>6 DEF AnswerStep1, clientVars, serverVars
  <1>6. ASSUME NEW c \in Clients, MergeUpdate(c)
        PROVE  Server /\ \A d \in Clients : Client(d) /\ Queues(d)
    <2> DEFINE S == Head(c2s[c]).updates
    <2>1. \A u \in S : Ok(u)
      <3>1. Head(c2s[c]) \in Range(c2s[c])
        BY <1>6, QueueFrames DEF MergeUpdate, TypeOK
      <3> QED
        BY <1>a, <3>1
    <2>2. Push(S) \in Frame /\ Push(S).updates = S
      BY <1>6, MergeTypes DEF Push
    <2>3. \A d \in Clients : s2c'[d] = s2c[d] \/ s2c'[d] = Append(s2c[d], Push(S))
      BY <1>6 DEF MergeUpdate, Broadcast
    <2>4. \A d \in Clients : Range(s2c'[d]) \subseteq Range(s2c[d]) \cup {Push(S)}
      <3>1. \A q \in Seq(Frame), f \in Frame : Range(Append(q, f)) = Range(q) \cup {f}
        BY QueueFrames
      <3>2. \A d \in Clients : Range(Append(s2c[d], Push(S))) = Range(s2c[d]) \cup {Push(S)}
        BY <2>2, <3>1 DEF TypeOK
      <3> QED
        BY <2>3, <3>2
    <2>5. \A d \in Clients : Range(c2s'[d]) \subseteq Range(c2s[d])
      BY <1>6, QueueFrames DEF MergeUpdate, TypeOK
    <2>6. \A d \in Clients : Queues(d)
      BY <1>a, <2>1, <2>2, <2>4, <2>5
    <2>7. Server
      BY <1>b, <1>6, <2>1 DEF MergeUpdate
    <2> QED
      BY <1>a, <1>6, <2>6, <2>7 DEF MergeUpdate, clientVars
  <1>7. ASSUME NEW c \in Clients, LoseConnection(c)
        PROVE  Server /\ \A d \in Clients : Client(d) /\ Queues(d)
    BY <1>a, <1>b, <1>7, EndSessionsFrames DEF LoseConnection, clientVars, serverVars
  <1>8. ASSUME NEW c \in Clients, RestartClient(c)
        PROVE  Server /\ \A d \in Clients : Client(d) /\ Queues(d)
    <2>1. \A d \in Clients : /\ Range(c2s'[d]) \subseteq Range(c2s[d])
                             /\ Range(s2c'[d]) \subseteq Range(s2c[d])
      BY <1>8, EndSessionsFrames DEF RestartClient
    <2>2. \A d \in Clients : mem'[d] \cup disk'[d] \subseteq mem[d] \cup disk[d]
      BY <1>8 DEF RestartClient, TypeOK
    <2> QED
      BY <1>a, <1>b, <1>8, <2>1, <2>2 DEF RestartClient, serverVars
  <1>9. ASSUME RestartServer PROVE Server /\ \A d \in Clients : Client(d) /\ Queues(d)
    <2>1. \A d \in Clients : /\ Range(c2s'[d]) \subseteq Range(c2s[d])
                             /\ Range(s2c'[d]) \subseteq Range(s2c[d])
      BY <1>9, EndSessionsFrames DEF RestartServer
    <2> QED
      BY <1>a, <1>b, <1>9, <2>1 DEF RestartServer, clientVars
  <1>10. CASE UNCHANGED vars
    BY <1>a, <1>b, <1>10 DEF vars, clientVars, sessionVars, serverVars
  <1> QED
    BY <1>1, <1>2, <1>3, <1>4, <1>5, <1>6, <1>7, <1>8, <1>9, <1>10 DEF Next

-----------------------------------------------------------------------------
(* The lamport covers the manifest *)

\* Every step preserves FirstFrameIsApplied: the server puts its STEP_2
\* before its STEP_1, and only a broadcast may come earlier.
LEMMA FirstFrameNext ==
  ASSUME TypeOK, FirstFrameIsApplied, [Next]_vars
  PROVE  FirstFrameIsApplied'
  <1> DEFINE Good(q, done) == /\ ~done /\ q # <<>> => q[1].kind # "step1"
                              /\ \A f \in Range(q) : f.kind = "step1" => f.updates = {}
  <1> SUFFICES ASSUME NEW d \in Clients PROVE Good(s2c'[d], scanned'[d])
    BY DEF FirstFrameIsApplied
  <1>0. Good(s2c[d], scanned[d]) /\ s2c[d] \in Seq(Frame)
    BY DEF FirstFrameIsApplied, TypeOK
  <1>1. ASSUME s2c'[d] = s2c[d], scanned'[d] = scanned[d] PROVE Good(s2c'[d], scanned'[d])
    BY <1>0, <1>1
  <1>2. ASSUME NEW c \in Clients, ReceiveManifest(c) PROVE Good(s2c'[d], scanned'[d])
    <2>1. /\ s2c' = [s2c EXCEPT ![c] = Tail(@)] /\ s2c[c] # <<>>
          /\ scanned' = [scanned EXCEPT ![c] = TRUE]
      BY <1>2 DEF ReceiveManifest
    <2>2. CASE d = c
      <3>1. s2c'[d] = Tail(s2c[d]) /\ scanned'[d] = TRUE
        BY <2>1, <2>2 DEF TypeOK
      <3>2. Range(Tail(s2c[d])) \subseteq Range(s2c[d])
        BY <1>0, <2>1, <2>2, QueueFrames
      <3> QED
        BY <1>0, <3>1, <3>2
    <2>3. CASE d # c
      BY <1>1, <2>1, <2>3 DEF TypeOK
    <2> QED
      BY <2>2, <2>3
  <1>3. ASSUME NEW c \in Clients, AnswerStep1(c) PROVE Good(s2c'[d], scanned'[d])
    <2> DEFINE answer == <<Step2(smem, Head(c2s[c]).sv), Step1(smem)>>
    <2>1. s2c' = [s2c EXCEPT ![c] = @ \o answer] /\ scanned' = scanned
      BY <1>3 DEF AnswerStep1
    <2>2. CASE d = c
      <3>1. s2c'[d] = s2c[d] \o answer
        BY <2>1, <2>2 DEF TypeOK
      <3>2. Range(answer) = {Step2(smem, Head(c2s[c]).sv), Step1(smem)}
        BY QueueFrames
      <3>3. \A f \in Range(answer) : f.kind = "step1" => f.updates = {}
        BY <3>2 DEF Step1, Step2
      <3>4. answer \in Seq(Frame) /\ Len(answer) = 2 /\ answer[1].kind # "step1"
        BY <1>3, AnswerTypes DEF Step2
      <3> HIDE DEF answer
      <3>5. Range(s2c[d] \o answer) = Range(s2c[d]) \cup Range(answer)
        BY <1>0, <3>4, QueueFrames
      <3>6. \/ s2c[d] = <<>> /\ (s2c[d] \o answer)[1] = answer[1]
            \/ s2c[d] # <<>> /\ (s2c[d] \o answer)[1] = s2c[d][1]
        BY <1>0, <3>4
      <3> QED
        BY <1>0, <2>1, <3>1, <3>3, <3>4, <3>5, <3>6
    <2>3. CASE d # c
      BY <1>1, <2>1, <2>3 DEF TypeOK
    <2> QED
      BY <2>2, <2>3
  <1>4. ASSUME NEW c \in Clients, MergeUpdate(c) PROVE Good(s2c'[d], scanned'[d])
    <2> DEFINE S == Head(c2s[c]).updates
    <2>1. scanned' = scanned /\ (s2c'[d] = s2c[d] \/ s2c'[d] = Append(s2c[d], Push(S)))
      BY <1>4 DEF MergeUpdate, Broadcast
    <2>2. CASE s2c'[d] = Append(s2c[d], Push(S))
      <3>1. Push(S) \in Frame /\ Push(S).kind # "step1"
        BY <1>4, MergeTypes DEF Push
      <3>2. Range(Append(s2c[d], Push(S))) = Range(s2c[d]) \cup {Push(S)}
        BY <1>0, <3>1, QueueFrames
      <3>3. \/ s2c[d] = <<>> /\ Append(s2c[d], Push(S))[1] = Push(S)
            \/ s2c[d] # <<>> /\ Append(s2c[d], Push(S))[1] = s2c[d][1]
        BY <1>0, <3>1
      <3> QED
        BY <1>0, <2>1, <2>2, <3>1, <3>2, <3>3
    <2> QED
      BY <1>1, <2>1, <2>2
  <1>5. ASSUME NEW gone \in SUBSET Clients, EndSessions(gone) PROVE Good(s2c'[d], scanned'[d])
    <2>1. CASE d \in gone
      <3>1. s2c'[d] = <<>>
        BY <1>5, <2>1, EndSessionsFrames
      <3> QED
        BY <3>1, QueueFrames
    <2>2. CASE d \notin gone
      <3>1. s2c'[d] = s2c[d] /\ scanned'[d] = scanned[d]
        BY <1>5, <2>2 DEF EndSessions, TypeOK
      <3> QED
        BY <1>1, <3>1
    <2> QED
      BY <2>1, <2>2
  <1>6. ASSUME NEW c \in Clients, Connect(c) \/ RescanVault(c) \/ Subscribe(c)
        PROVE  Good(s2c'[d], scanned'[d])
    BY <1>1, <1>6 DEF Connect, RescanVault, Subscribe
  <1>7. ASSUME NEW c \in Clients, LoseConnection(c) \/ RestartClient(c)
        PROVE  Good(s2c'[d], scanned'[d])
    BY <1>5, <1>7 DEF LoseConnection, RestartClient
  <1>8. ASSUME RestartServer PROVE Good(s2c'[d], scanned'[d])
    BY <1>5, <1>8 DEF RestartServer
  <1>9. CASE UNCHANGED vars
    BY <1>1, <1>9 DEF vars, sessionVars
  <1> QED
    BY <1>2, <1>3, <1>4, <1>6, <1>7, <1>8, <1>9 DEF Next

\* A scan on a lamport that covers what it starts from leaves one that
\* covers its own node as well.
LEMMA ScanCovers ==
  ASSUME TypeOK, NEW c \in Clients, NEW known \in SUBSET Update, NEW before \in SUBSET Update,
         NEW l \in Nat, NEW n \in 0..1, NEW ok \in BOOLEAN, NEW reply \in Seq(Frame),
         Scan(c, known, l, n, ok, before, reply),
         UpdatesIssued(known, process, clock),
         \A u \in Integrated(known) : u.lamport <= l
  PROVE  \A u \in Integrated(mem'[c]) : u.lamport <= lamport'[c]
  <1>1. Integrated(mem'[c]) \subseteq Integrated(known) \cup Found(c, l, n)
    BY ScanIntegrates, Zenon
  <1>2. lamport'[c] = l + n
    BY DEF Scan, TypeOK
  <1>3. \A u \in Integrated(known) : u.lamport <= l + n
    <2>1. \A u \in Integrated(known) : u.lamport \in Nat
      BY IntegratedSubset DEF Update
    <2> QED
      BY <2>1
  <1>4. \A u \in Found(c, l, n) : u.lamport <= l + n
    BY DEF Found, NewUpdate
  <1> QED
    BY <1>1, <1>2, <1>3, <1>4

\* The lamport a client's manifest step scans with covers what it learned.
LEMMA ReceiveCovers ==
  ASSUME IInv, NEW c \in Clients, ReceiveManifest(c), NEW l \in LamportAfter(c)
  PROVE  \A u \in Integrated(Learned(c)) : u.lamport <= l
  <1> USE DEF IInv
  <1>0. Learned(c) \in SUBSET Update
    BY ReceiveTypes DEF ReceiveManifest
  <1>1. CASE Head(s2c[c]).kind = "step1"
    <2>1. Head(s2c[c]) = s2c[c][1] /\ Head(s2c[c]) \in Range(s2c[c]) /\ s2c[c] # <<>>
      BY HeadAndTail, QueueFrames DEF ReceiveManifest, TypeOK
    <2>2. scanned[c] /\ Learned(c) = mem[c]
      BY <1>1, <2>1 DEF FirstFrameIsApplied, Learned
    <2>3. l = lamport[c]
      BY <1>1 DEF LamportAfter
    <2> QED
      BY <2>2, <2>3 DEF LamportCoversManifest
  <1>2. CASE Head(s2c[c]).kind # "step1"
    <2>1. l \in Observed(lamport[c], Learned(c)) /\ lamport[c] \in Nat
      BY <1>2 DEF LamportAfter, TypeOK
    <2>2. l \in Nat /\ \A u \in Integrated(Learned(c)) : u.lamport < l
      BY <1>0, <2>1, ObservedCovers
    <2>3. \A u \in Integrated(Learned(c)) : u.lamport \in Nat
      BY <1>0, IntegratedSubset DEF Update
    <2> QED
      BY <2>2, <2>3
  <1> QED
    BY <1>1, <1>2

\* Every step preserves LamportCoversManifest.
LEMMA CoversNext ==
  ASSUME IInv, [Next]_vars
  PROVE  LamportCoversManifest'
  <1> USE DEF IInv
  <1> DEFINE Covers(S, l) == \A u \in Integrated(S) : u.lamport <= l
  <1> SUFFICES ASSUME NEW d \in Clients, scanned'[d] PROVE Covers(mem'[d], lamport'[d])
    BY DEF LamportCoversManifest
  <1>1. ASSUME mem'[d] = mem[d], lamport'[d] = lamport[d], scanned[d]
        PROVE  Covers(mem'[d], lamport'[d])
    BY <1>1 DEF LamportCoversManifest
  <1>2. ASSUME NEW c \in Clients, ReceiveManifest(c) PROVE Covers(mem'[d], lamport'[d])
    <2>1. /\ Head(s2c[c]) \in Frame
          /\ Learned(c) \in SUBSET Update
          /\ Replies(c) \in Seq(Frame)
          /\ LamportAfter(c) \in SUBSET Nat
      BY <1>2, ReceiveTypes DEF ReceiveManifest
    <2>2. PICK l \in LamportAfter(c), n \in 0..1, scanOk \in BOOLEAN, ok \in BOOLEAN,
               before \in {Learned(c), disk[c]} :
             Scan(c, Learned(c), l, n, scanOk, before, Replies(c)) /\ SaveOutcome(ok)
      BY <1>2, ReceiveChoices
    <2>3. CASE d = c
      <3>1. Covers(Learned(c), l)
        BY <1>2, <2>2, ReceiveCovers
      <3>2. UpdatesIssued(Learned(c), process, clock)
        BY <1>2, ReceiveIssued DEF ReceiveManifest, UpdatesIssued
      <3>3. before \in SUBSET Update /\ l \in Nat
        BY <2>1, <2>2 DEF TypeOK
      <3>4. \A u \in Integrated(mem'[c]) : u.lamport <= lamport'[c]
        BY <2>1, <2>2, <3>1, <3>2, <3>3, ScanCovers, Zenon
      <3> QED
        BY <2>3, <3>4
    <2>4. CASE d # c
      <3>1. mem'[d] = mem[d] /\ lamport'[d] = lamport[d] /\ scanned[d]
        BY <1>2, <2>2, <2>4 DEF Scan, ReceiveManifest, TypeOK
      <3> QED
        BY <1>1, <3>1
    <2> QED
      BY <2>3, <2>4
  <1>3. ASSUME NEW c \in Clients, RescanVault(c) PROVE Covers(mem'[d], lamport'[d])
    <2>1. PICK ok \in BOOLEAN :
             Scan(c, mem[c], lamport[c], 1, ok, disk[c], <<>>) /\ SaveOutcome(ok)
      BY <1>3 DEF RescanVault
    <2>2. scanned' = scanned
      BY <1>3 DEF RescanVault
    <2>3. CASE d = c
      <3>1. /\ mem[c] \in SUBSET Update /\ disk[c] \in SUBSET Update /\ lamport[c] \in Nat
            /\ 1 \in 0..1 /\ <<>> \in Seq(Frame)
        BY DEF TypeOK
      <3>2. UpdatesIssued(mem[c], process, clock)
        BY DEF AllIssued, UpdatesIssued
      <3>3. \A u \in Integrated(mem[c]) : u.lamport <= lamport[c]
        BY <2>2, <2>3 DEF LamportCoversManifest
      <3>4. \A u \in Integrated(mem'[c]) : u.lamport <= lamport'[c]
        BY <2>1, <3>1, <3>2, <3>3, ScanCovers, Zenon
      <3> QED
        BY <2>3, <3>4
    <2>4. CASE d # c
      <3>1. mem'[d] = mem[d] /\ lamport'[d] = lamport[d] /\ scanned[d]
        BY <2>1, <2>2, <2>4 DEF Scan, TypeOK
      <3> QED
        BY <1>1, <3>1
    <2> QED
      BY <2>3, <2>4
  <1>4. ASSUME NEW c \in Clients, RestartClient(c) PROVE Covers(mem'[d], lamport'[d])
    <2>1. d # c
      BY <1>4, EndSessionsFrames DEF RestartClient
    <2>2. scanned[d] /\ mem'[d] = mem[d] /\ lamport'[d] = lamport[d]
      BY <1>4, <2>1, EndSessionsFrames DEF RestartClient, TypeOK
    <2> QED
      BY <1>1, <2>2
  <1>5. ASSUME NEW c \in Clients,
               Connect(c) \/ Subscribe(c) \/ AnswerStep1(c) \/ MergeUpdate(c)
        PROVE  Covers(mem'[d], lamport'[d])
    BY <1>1, <1>5 DEF Connect, Subscribe, AnswerStep1, MergeUpdate, clientVars
  <1>6. ASSUME NEW c \in Clients, LoseConnection(c) PROVE Covers(mem'[d], lamport'[d])
    <2>1. scanned[d]
      BY <1>6, EndSessionsFrames DEF LoseConnection
    <2> QED
      BY <1>1, <1>6, <2>1 DEF LoseConnection, clientVars
  <1>7. ASSUME RestartServer PROVE Covers(mem'[d], lamport'[d])
    <2>1. scanned[d]
      BY <1>7, EndSessionsFrames DEF RestartServer
    <2> QED
      BY <1>1, <1>7, <2>1 DEF RestartServer, clientVars
  <1>8. CASE UNCHANGED vars
    BY <1>1, <1>8 DEF vars, clientVars, sessionVars
  <1> QED
    BY <1>2, <1>3, <1>4, <1>5, <1>6, <1>7, <1>8 DEF Next

\* The inductive invariant.
THEOREM Inductive == Spec => []IInv
  <1>1. Init => IInv
    <2> SUFFICES ASSUME Init PROVE IInv
      OBVIOUS
    <2>1. \A q \in {<<>>} : Range(q) = {}
      BY QueueFrames
    <2> QED
      BY <2>1, TypeInit
      DEF Init, IInv, BroadcastsAreDurable, AllIssued, FirstFrameIsApplied, LamportCoversManifest
  <1>2. IInv /\ [Next]_vars => IInv'
    <2> SUFFICES ASSUME IInv, [Next]_vars PROVE IInv'
      OBVIOUS
    <2>1. TypeOK'
      BY TypeNext DEF IInv
    <2>2. BroadcastsAreDurable'
      BY DurableNext DEF IInv
    <2>3. AllIssued'
      BY IssuedNext DEF IInv
    <2>4. FirstFrameIsApplied'
      BY FirstFrameNext DEF IInv
    <2>5. LamportCoversManifest'
      BY CoversNext
    <2> QED
      BY <2>1, <2>2, <2>3, <2>4, <2>5 DEF IInv
  <1> QED
    BY <1>1, <1>2, PTL DEF Spec

\* Once a session has scanned, what the client writes next outranks every
\* stamp it can read, although its counter starts from zero.
THEOREM LamportCovers == Spec => []LamportCoversManifest
  <1>1. IInv => LamportCoversManifest
    BY DEF IInv
  <1> QED
    BY <1>1, Inductive, PTL

-----------------------------------------------------------------------------
(* Stamps are unique *)

\* An update is at home when the client that made it holds it.
AtHome == {u \in Update : u \in mem[u.author]}

\* Every update of the server, its rows, the clients and the frames is in P.
Carried(P) ==
  /\ smem \cup db \subseteq P
  /\ \A c \in Clients :
       /\ mem[c] \cup disk[c] \subseteq P
       /\ \A f \in Range(c2s[c]) \cup Range(s2c[c]) : f.updates \subseteq P

\* A client's own updates have no gap, up to its present clock.
OwnWithoutGaps ==
  \A c \in Clients :
    /\ \A k \in 1..clock[c] : \E v \in mem[c] :
          IdOf(v) = [author |-> c, process |-> process[c], clock |-> k]
    /\ \A u \in mem[c] : u.author = c => u \in Integrated(mem[c])

OwnStampsDiffer ==
  \A c \in Clients : \A u, v \in mem[c] :
    u.author = c /\ v.author = c /\ u.lamport = v.lamport => u = v

\* As long as nothing failed, a client has saved what it holds and holds
\* what it made; so all it ever made is integrated at home and no fresh
\* stamp, which is past all it can read, repeats an earlier one.
KeepsItsOwn ==
  /\ \A c \in Clients : disk[c] = mem[c]
  /\ Carried(AtHome)
  /\ OwnWithoutGaps
  /\ OwnStampsDiffer

\* The next state of Carried, for a fixed set P.
CarriedNext(P) ==
  /\ smem' \cup db' \subseteq P
  /\ \A c \in Clients :
       /\ mem'[c] \cup disk'[c] \subseteq P
       /\ \A f \in Range(c2s'[c]) \cup Range(s2c'[c]) : f.updates \subseteq P

\* A Doc that receives more integrates no less.
LEMMA IntegratedGrows ==
  ASSUME NEW S, NEW T, S \subseteq T
  PROVE  Integrated(S) \subseteq Integrated(T)
  BY DEF Integrated

\* The frames in the client's queue carry what was there, what the reply
\* carries, or what the client holds.
SendsOnly(c, reply) ==
  \A f \in Range(c2s'[c]) :
    f \in Range(c2s[c]) \/ f \in Range(reply) \/ f.updates \subseteq mem'[c]

\* That is what a scan leaves in it.
LEMMA ScanSends ==
  ASSUME TypeOK, NEW c \in Clients, NEW known \in SUBSET Update, NEW before \in SUBSET Update,
         NEW l \in Nat, NEW n \in 0..1, NEW ok \in BOOLEAN, NEW reply \in Seq(Frame),
         Scan(c, known, l, n, ok, before, reply)
  PROVE  SendsOnly(c, reply)
  <1> DEFINE all  == known \cup Found(c, l, n)
             push == Push(Diff(all, StateVector(known)))
             sent == IF n = 1 /\ ok THEN <<push>> ELSE <<>>
  <1>1. c2s'[c] = c2s[c] \o reply \o sent /\ mem'[c] = all
    BY DEF Scan, TypeOK
  <1>2. all \in SUBSET Update
    <2>1. NewUpdate(c, l) \in Update
      BY DEF NewUpdate, Update, TypeOK
    <2> QED
      BY <2>1 DEF Found
  <1>3. push \in Frame /\ push.updates \subseteq all
    <2>1. Diff(all, StateVector(known)) \in SUBSET Update
      BY <1>2 DEF Diff
    <2>2. Diff(all, StateVector(known)) \subseteq all
      BY DEF Diff
    <2> HIDE DEF all
    <2> QED
      BY <2>1, <2>2 DEF Push, Frame
  <1> HIDE DEF push, all
  <1>4. sent \in Seq(Frame)
    BY <1>3
  <1>5. \A f \in Range(sent) : f = push
    <2>1. Range(<<>>) = {} /\ Range(<<push>>) = {push}
      BY QueueFrames
    <2> QED
      BY <2>1
  <1> HIDE DEF sent
  <1>6. c2s[c] \in Seq(Frame) /\ c2s[c] \o reply \in Seq(Frame)
    BY DEF TypeOK
  <1>7. \A q, r \in Seq(Frame) : Range(q \o r) = Range(q) \cup Range(r)
    BY QueueFrames
  <1>8. Range(c2s'[c]) = Range(c2s[c]) \cup Range(reply) \cup Range(sent)
    <2>1. /\ Range(c2s[c] \o reply) = Range(c2s[c]) \cup Range(reply)
          /\ Range((c2s[c] \o reply) \o sent) = Range(c2s[c] \o reply) \cup Range(sent)
      BY <1>4, <1>6, <1>7
    <2> QED
      BY <1>1, <2>1
  <1> QED
    BY <1>1, <1>3, <1>5, <1>8 DEF SendsOnly

QueueCarries(q, P) == \A f \in Range(q) : f.updates \subseteq P
ScanFrom(c, before, reply, P) == mem'[c] \cup before \subseteq P /\ QueueCarries(reply, P)
ClientCarries(c, P) == disk'[c] \subseteq P /\ QueueCarries(c2s'[c], P)

\* A scan carries nothing but what it started from and its own node.
LEMMA ScanCarries ==
  ASSUME TypeOK, NEW P, Carried(P), NEW c \in Clients,
         NEW known \in SUBSET Update, NEW before \in SUBSET Update,
         NEW l \in Nat, NEW n \in 0..1, NEW ok \in BOOLEAN, NEW reply \in Seq(Frame),
         Scan(c, known, l, n, ok, before, reply), ScanFrom(c, before, reply, P),
         NEW d \in Clients
  PROVE  ClientCarries(d, P)
  <1> USE DEF ClientCarries, ScanFrom
  <1>1. CASE d = c
    <2>1. disk'[c] = before \/ disk'[c] = mem'[c]
      BY DEF Scan, TypeOK
    <2>2. SendsOnly(c, reply)
      BY ScanSends
    <2> QED
      BY <1>1, <2>1, <2>2 DEF SendsOnly, QueueCarries, Carried
  <1>2. CASE d # c
    <2>1. disk'[d] = disk[d] /\ c2s'[d] = c2s[d]
      BY <1>2 DEF Scan, TypeOK
    <2> QED
      BY <2>1 DEF QueueCarries, Carried
  <1> QED
    BY <1>1, <1>2

\* Only what a client comes to hold can be new anywhere.
LEMMA CarriedStays ==
  ASSUME TypeOK, NEW P, Carried(P), \A c \in Clients : mem'[c] \subseteq P, [Next]_vars
  PROVE  CarriedNext(P)
  <1> DEFINE Good(q) == QueueCarries(q, P)
  <1> USE DEF QueueCarries
  <1>a. \A d \in Clients : Good(c2s[d]) /\ Good(s2c[d]) /\ disk[d] \subseteq P /\ mem[d] \subseteq P
    BY DEF Carried
  <1>b. smem \subseteq P /\ db \subseteq P
    BY DEF Carried
  <1> SUFFICES /\ smem' \subseteq P /\ db' \subseteq P
               /\ \A d \in Clients : disk'[d] \subseteq P /\ Good(c2s'[d]) /\ Good(s2c'[d])
    BY DEF CarriedNext
  <1>c. ASSUME NEW q, NEW r, Range(q) \subseteq Range(r), Good(r) PROVE Good(q)
    BY <1>c
  <1> DEFINE Server == smem' \subseteq P /\ db' \subseteq P
             Rest(d) == disk'[d] \subseteq P /\ Good(c2s'[d]) /\ Good(s2c'[d])
  <1>1. ASSUME NEW c \in Clients, Connect(c) PROVE Server /\ \A d \in Clients : Rest(d)
    <2>1. Range(<<Step1(mem[c])>>) = {Step1(mem[c])}
      BY QueueFrames
    <2>2. Good(<<Step1(mem[c])>>)
      BY <2>1 DEF Step1
    <2> HIDE DEF Good, QueueCarries
    <2> QED
      BY <1>a, <1>b, <1>1, <2>2 DEF Connect, clientVars, serverVars, TypeOK
  <1>2. ASSUME NEW c \in Clients, ReceiveManifest(c) PROVE Server /\ \A d \in Clients : Rest(d)
    <2>1. /\ Learned(c) \in SUBSET Update
          /\ Replies(c) \in Seq(Frame)
          /\ LamportAfter(c) \in SUBSET Nat
      BY <1>2, ReceiveTypes DEF ReceiveManifest
    <2>2. PICK l \in LamportAfter(c), n \in 0..1, scanOk \in BOOLEAN, ok \in BOOLEAN,
               before \in {Learned(c), disk[c]} :
             Scan(c, Learned(c), l, n, scanOk, before, Replies(c)) /\ SaveOutcome(ok)
      BY <1>2, ReceiveChoices
    <2>3. before \in SUBSET Update /\ l \in Nat /\ Learned(c) \subseteq mem'[c]
      BY <2>1, <2>2 DEF TypeOK, Scan
    <2>4. before \subseteq P
      BY <1>a, <2>2, <2>3
    <2>5. Good(Replies(c))
      <3>1. Range(<<>>) = {} /\ \A a : Range(<<a>>) = {a}
        BY QueueFrames
      <3>2. Step2(mem[c], Head(s2c[c]).sv).updates \subseteq mem[c]
        BY DEF Step2, Diff
      <3> QED
        BY <1>a, <3>1, <3>2 DEF Replies
    <2>6. \A d \in Clients : Good(s2c'[d])
      <3>1. \A d \in Clients : Range(s2c'[d]) \subseteq Range(s2c[d])
        BY <1>2, QueueFrames DEF ReceiveManifest, TypeOK
      <3> QED
        BY <1>a, <3>1
    <2>7. ASSUME NEW d \in Clients PROVE ClientCarries(d, P)
      <3> HIDE DEF QueueCarries
      <3>1. PICK kn \in SUBSET Update, rp \in Seq(Frame) : kn = Learned(c) /\ rp = Replies(c)
        BY <2>1
      <3>2. before \in SUBSET Update /\ l \in Nat /\ n \in 0..1 /\ scanOk \in BOOLEAN
        BY <2>2, <2>3
      <3>3. Scan(c, kn, l, n, scanOk, before, rp)
        BY <2>2, <3>1
      <3>4. ScanFrom(c, before, rp, P)
        BY <2>4, <2>5, <3>1 DEF ScanFrom
      <3>5. kn \in SUBSET Update /\ rp \in Seq(Frame)
        BY <3>1
      <3> QED
        BY <3>2, <3>3, <3>4, <3>5, ScanCarries, Zenon
    <2>8. Server
      BY <1>b, <1>2 DEF ReceiveManifest, serverVars
    <2> QED
      BY <2>6, <2>7, <2>8 DEF ClientCarries
  <1>3. ASSUME NEW c \in Clients, RescanVault(c) PROVE Server /\ \A d \in Clients : Rest(d)
    <2>1. PICK ok \in BOOLEAN :
             Scan(c, mem[c], lamport[c], 1, ok, disk[c], <<>>) /\ SaveOutcome(ok)
      BY <1>3 DEF RescanVault
    <2>2. /\ mem[c] \in SUBSET Update /\ disk[c] \in SUBSET Update /\ lamport[c] \in Nat
          /\ 1 \in 0..1 /\ <<>> \in Seq(Frame) /\ disk[c] \subseteq P
      BY <1>a DEF TypeOK
    <2>3. Good(<<>>)
      BY QueueFrames
    <2>4. ASSUME NEW d \in Clients PROVE ClientCarries(d, P)
      <3> HIDE DEF QueueCarries
      <3>1. ScanFrom(c, disk[c], <<>>, P)
        BY <2>2, <2>3 DEF ScanFrom
      <3> QED
        BY <2>1, <2>2, <3>1, ScanCarries, Zenon
    <2> HIDE DEF QueueCarries
    <2>5. UNCHANGED <<s2c, smem, db>>
      BY <1>3 DEF RescanVault, serverVars
    <2> QED
      BY <1>a, <1>b, <2>4, <2>5 DEF ClientCarries
  <1>4. ASSUME NEW c \in Clients, Subscribe(c) PROVE Server /\ \A d \in Clients : Rest(d)
    BY <1>a, <1>b, <1>4 DEF Subscribe, clientVars, serverVars
  <1>5. ASSUME NEW c \in Clients, AnswerStep1(c) PROVE Server /\ \A d \in Clients : Rest(d)
    <2> DEFINE answer == <<Step2(smem, Head(c2s[c]).sv), Step1(smem)>>
    <2>1. Range(answer) = {Step2(smem, Head(c2s[c]).sv), Step1(smem)}
      BY QueueFrames
    <2>2. \A f \in Range(answer) : f.updates \subseteq smem
      BY <2>1 DEF Step1, Step2, Diff
    <2>3. answer \in Seq(Frame)
      BY <1>5, AnswerTypes
    <2>4. s2c' = [s2c EXCEPT ![c] = @ \o answer] /\ c2s' = [c2s EXCEPT ![c] = Tail(@)] /\ c2s[c] # <<>>
      BY <1>5 DEF AnswerStep1
    <2> HIDE DEF answer
    <2>5. \A d \in Clients : Range(s2c'[d]) \subseteq Range(s2c[d]) \cup Range(answer)
      BY <2>3, <2>4, QueueFrames DEF TypeOK
    <2>6. \A d \in Clients : Range(c2s'[d]) \subseteq Range(c2s[d])
      BY <2>4, QueueFrames DEF TypeOK
    <2>7. \A d \in Clients : Good(c2s'[d]) /\ Good(s2c'[d])
      BY <1>a, <1>b, <2>2, <2>5, <2>6
    <2> HIDE DEF Good, QueueCarries
    <2> QED
      BY <1>a, <1>b, <1>5, <2>7 DEF AnswerStep1, clientVars, serverVars
  <1>6. ASSUME NEW c \in Clients, MergeUpdate(c) PROVE Server /\ \A d \in Clients : Rest(d)
    <2> DEFINE S == Head(c2s[c]).updates
    <2>1. S \subseteq P
      <3>1. Head(c2s[c]) \in Range(c2s[c])
        BY <1>6, QueueFrames DEF MergeUpdate, TypeOK
      <3> QED
        BY <1>a, <3>1
    <2>2. Push(S) \in Frame /\ Push(S).updates = S
      BY <1>6, MergeTypes DEF Push
    <2>3. \A d \in Clients : s2c'[d] = s2c[d] \/ s2c'[d] = Append(s2c[d], Push(S))
      BY <1>6 DEF MergeUpdate, Broadcast
    <2>4. \A d \in Clients : Range(s2c'[d]) \subseteq Range(s2c[d]) \cup {Push(S)}
      <3>1. \A q \in Seq(Frame), f \in Frame : Range(Append(q, f)) = Range(q) \cup {f}
        BY QueueFrames
      <3>2. \A d \in Clients : Range(Append(s2c[d], Push(S))) = Range(s2c[d]) \cup {Push(S)}
        BY <2>2, <3>1 DEF TypeOK
      <3> QED
        BY <2>3, <3>2
    <2>5. \A d \in Clients : Range(c2s'[d]) \subseteq Range(c2s[d])
      BY <1>6, QueueFrames DEF MergeUpdate, TypeOK
    <2>6. \A d \in Clients : Good(c2s'[d]) /\ Good(s2c'[d])
      BY <1>a, <2>1, <2>2, <2>4, <2>5
    <2>7. Server
      BY <1>b, <1>6, <2>1 DEF MergeUpdate
    <2> HIDE DEF Good, QueueCarries
    <2> QED
      BY <1>a, <1>6, <2>6, <2>7 DEF MergeUpdate, clientVars
  <1>7. ASSUME NEW gone \in SUBSET Clients, EndSessions(gone), NEW d \in Clients
        PROVE  Good(c2s'[d]) /\ Good(s2c'[d])
    <2>1. Range(c2s'[d]) \subseteq Range(c2s[d]) /\ Range(s2c'[d]) \subseteq Range(s2c[d])
      BY <1>7, EndSessionsFrames
    <2> QED
      BY <1>a, <2>1
  <1> HIDE DEF Good, QueueCarries
  <1>8. ASSUME NEW c \in Clients, LoseConnection(c) \/ RestartClient(c)
        PROVE  Server /\ \A d \in Clients : Rest(d)
    <2>1. EndSessions({c}) /\ {c} \in SUBSET Clients /\ UNCHANGED <<disk, smem, db>>
      BY <1>8 DEF LoseConnection, RestartClient, clientVars, serverVars
    <2> QED
      BY <1>a, <1>b, <1>7, <2>1
  <1>9. ASSUME RestartServer PROVE Server /\ \A d \in Clients : Rest(d)
    <2>1. EndSessions(Clients) /\ UNCHANGED <<disk, db>> /\ (smem' = db \/ smem' = {})
      BY <1>9 DEF RestartServer, clientVars
    <2> QED
      BY <1>a, <1>b, <1>7, <2>1
  <1>10. CASE UNCHANGED vars
    BY <1>a, <1>b, <1>10 DEF vars, clientVars, sessionVars, serverVars
  <1> QED
    BY <1>1, <1>2, <1>3, <1>4, <1>5, <1>6, <1>8, <1>9, <1>10 DEF Next

\* What client c holds when a step with no failed save added n own nodes.
Wrote(c, known, l, n) ==
  /\ mem'[c] = known \cup Found(c, l, n)
  /\ disk'[c] = mem'[c]
  /\ process'[c] = process[c]
  /\ clock'[c] = clock[c] + n

\* Its part of KeepsItsOwn in the next state.
OwnNext(c) ==
  /\ disk'[c] = mem'[c]
  /\ mem[c] \subseteq mem'[c]
  /\ \A k \in 1..clock'[c] : \E v \in mem'[c] :
        IdOf(v) = [author |-> c, process |-> process'[c], clock |-> k]
  /\ \A u \in mem'[c] : u.author = c => u \in Integrated(mem'[c])
  /\ \A u, v \in mem'[c] : u.author = c /\ v.author = c /\ u.lamport = v.lamport => u = v

\* A scan that starts from what the client holds and updates of others,
\* with a lamport past all of it.
LEMMA WroteOwn ==
  ASSUME TypeOK, KeepsItsOwn, NEW c \in Clients, NEW known \in SUBSET Update,
         NEW l \in Nat, NEW n \in 0..1,
         mem[c] \subseteq known,
         \A u \in known : u.author = c => u \in mem[c],
         \A u \in Integrated(known) : u.lamport <= l,
         Wrote(c, known, l, n)
  PROVE  OwnNext(c)
  <1>0. /\ clock[c] \in Nat /\ mem[c] \subseteq mem'[c] /\ known \subseteq mem'[c]
        /\ disk'[c] = mem'[c] /\ process'[c] = process[c] /\ clock'[c] = clock[c] + n
    BY DEF Wrote, TypeOK
  <1>1. /\ \A k \in 1..clock[c] : \E v \in mem[c] :
              IdOf(v) = [author |-> c, process |-> process[c], clock |-> k]
        /\ \A u \in mem[c] : u.author = c => u \in Integrated(mem[c])
        /\ \A u, v \in mem[c] : u.author = c /\ v.author = c /\ u.lamport = v.lamport => u = v
    BY DEF KeepsItsOwn, OwnWithoutGaps, OwnStampsDiffer
  <1>2. \A u \in known : u.author = c => u \in Integrated(known)
    BY <1>1, IntegratedGrows
  <1>3. \A u \in known : u.author = c => u \in Integrated(mem'[c]) /\ u.lamport <= l
    BY <1>0, <1>2, IntegratedGrows
  <1>4. CASE n = 0
    <2>1. mem'[c] = known /\ clock'[c] = clock[c]
      BY <1>0, <1>4 DEF Wrote, Found
    <2>2. \A k \in 1..clock'[c] : \E v \in mem'[c] :
            IdOf(v) = [author |-> c, process |-> process'[c], clock |-> k]
      BY <1>0, <1>1, <2>1
    <2>3. \A u, v \in mem'[c] : u.author = c /\ v.author = c /\ u.lamport = v.lamport => u = v
      BY <1>1, <2>1
    <2> QED
      BY <1>0, <1>3, <2>1, <2>2, <2>3 DEF OwnNext
  <1>5. CASE n = 1
    <2>1. PICK new \in Update : new = NewUpdate(c, l)
      <3>1. NewUpdate(c, l) \in Update
        BY DEF NewUpdate, Update, TypeOK
      <3> QED
        BY <3>1
    <2>2. /\ new.author = c /\ new.lamport = l + 1
          /\ new.process = process[c] /\ new.clock = clock[c] + 1
      BY <2>1 DEF NewUpdate
    <2>3. mem'[c] = known \cup {new} /\ clock'[c] = clock[c] + 1
      BY <1>0, <1>5, <2>1 DEF Wrote, Found
    <2>4. ASSUME NEW k \in 1..clock[c] + 1
          PROVE  \E v \in mem'[c] : IdOf(v) = [author |-> c, process |-> process[c], clock |-> k]
      <3>1. CASE k \in 1..clock[c]
        BY <1>0, <1>1, <3>1
      <3>2. CASE k = clock[c] + 1
        BY <2>2, <2>3, <3>2 DEF IdOf
      <3> QED
        BY <1>0, <3>1, <3>2
    <2>5. new \in Integrated(mem'[c])
      <3>1. \A k \in 1..new.clock :
              [IdOf(new) EXCEPT !.clock = k] = [author |-> c, process |-> process[c], clock |-> k]
        BY <2>2 DEF IdOf
      <3>2. ASSUME NEW k \in 1..new.clock
            PROVE  \E v \in mem'[c] : IdOf(v) = [IdOf(new) EXCEPT !.clock = k]
        <4>1. PICK v \in mem'[c] : IdOf(v) = [author |-> c, process |-> process[c], clock |-> k]
          BY <2>2, <2>4
        <4> QED
          BY <3>1, <4>1
      <3> QED
        BY <2>3, <3>2 DEF Integrated
    <2>6. \A u \in known : u.author = c => u.lamport # new.lamport
      <3>1. \A u \in known : u.lamport \in Nat
        BY DEF Update
      <3> QED
        BY <1>3, <2>2, <3>1
    <2>7. \A u, v \in mem'[c] : u.author = c /\ v.author = c /\ u.lamport = v.lamport => u = v
      BY <1>1, <2>3, <2>6
    <2>8. \A u \in mem'[c] : u.author = c => u \in Integrated(mem'[c])
      BY <1>3, <2>3, <2>5
    <2>9. \A k \in 1..clock'[c] : \E v \in mem'[c] :
            IdOf(v) = [author |-> c, process |-> process'[c], clock |-> k]
      BY <1>0, <2>3, <2>4
    <2> QED
      BY <1>0, <2>7, <2>8, <2>9 DEF OwnNext
  <1> QED
    BY <1>4, <1>5

\* A scan whose save, if it made one, succeeded.
LEMMA ScanWrites ==
  ASSUME TypeOK, NEW c \in Clients, NEW known \in SUBSET Update, NEW before \in SUBSET Update,
         NEW l \in Nat, NEW n \in 0..1, NEW reply,
         Scan(c, known, l, n, TRUE, before, reply), n = 1 \/ before = known,
         process' = process
  PROVE  /\ Wrote(c, known, l, n)
         /\ \A d \in Clients \ {c} :
               mem'[d] = mem[d] /\ disk'[d] = disk[d] /\ clock'[d] = clock[d]
  <1> DEFINE all == known \cup Found(c, l, n)
  <1>1. /\ mem' = [mem EXCEPT ![c] = all]
        /\ disk' = [disk EXCEPT ![c] = IF n = 1 THEN all ELSE before]
        /\ clock' = [clock EXCEPT ![c] = @ + n]
    BY DEF Scan
  <1>2. n = 0 => all = known
    BY DEF Found
  <1>3. mem'[c] = all /\ disk'[c] = all /\ clock'[c] = clock[c] + n
    BY <1>1, <1>2 DEF TypeOK
  <1>4. \A d \in Clients \ {c} :
          mem'[d] = mem[d] /\ disk'[d] = disk[d] /\ clock'[d] = clock[d]
    BY <1>1 DEF TypeOK
  <1> QED
    BY <1>3, <1>4 DEF Wrote

\* A client no step touched.
LEMMA UntouchedOwn ==
  ASSUME KeepsItsOwn, NEW c \in Clients,
         mem'[c] = mem[c], disk'[c] = disk[c], process'[c] = process[c], clock'[c] = clock[c]
  PROVE  OwnNext(c)
  BY DEF KeepsItsOwn, OwnWithoutGaps, OwnStampsDiffer, OwnNext

\* Every step without a failure keeps each client's own updates in order.
LEMMA OwnStays ==
  ASSUME IInv, KeepsItsOwn, ~ioFailed', [Next]_vars
  PROVE  \A d \in Clients : OwnNext(d)
  <1> USE DEF IInv
  <1> SUFFICES ASSUME NEW d \in Clients PROVE OwnNext(d)
    OBVIOUS
  <1>1. ASSUME UNCHANGED clientVars PROVE OwnNext(d)
    BY <1>1, UntouchedOwn DEF clientVars
  <1>2. ASSUME NEW c \in Clients, ReceiveManifest(c) PROVE OwnNext(d)
    <2>0. Learned(c) \in SUBSET Update /\ LamportAfter(c) \in SUBSET Nat
      BY <1>2, ReceiveTypes DEF ReceiveManifest
    <2>1. PICK l \in LamportAfter(c), n \in 0..1 :
            Scan(c, Learned(c), l, n, TRUE, Learned(c), Replies(c))
      <3>1. PICK l \in LamportAfter(c), n \in IF scanned[c] THEN {0} ELSE 0..1,
                 applyOk \in BOOLEAN, scanOk \in BOOLEAN :
              /\ Scan(c, Learned(c), l, n, scanOk,
                      IF applyOk THEN Learned(c) ELSE disk[c], Replies(c))
              /\ SaveOutcome(applyOk /\ scanOk)
        BY <1>2 DEF ReceiveManifest
      <3>2. applyOk = TRUE /\ scanOk = TRUE
        BY <3>1 DEF SaveOutcome
      <3>3. n \in 0..1
        BY <3>1
      <3>4. Scan(c, Learned(c), l, n, TRUE, Learned(c), Replies(c))
        BY <3>1, <3>2
      <3> QED
        BY <3>1, <3>3, <3>4
    <2>2. l \in Nat /\ process' = process
      BY <1>2, <2>0, <2>1 DEF ReceiveManifest
    <2>3. /\ Wrote(c, Learned(c), l, n)
          /\ \A e \in Clients \ {c} :
                mem'[e] = mem[e] /\ disk'[e] = disk[e] /\ clock'[e] = clock[e]
      BY <2>0, <2>1, <2>2, ScanWrites
    <2>4. CASE d = c
      <3>1. mem[c] \subseteq Learned(c)
        BY DEF Learned
      <3>2. \A u \in Learned(c) : u.author = c => u \in mem[c]
        <4>1. Head(s2c[c]) \in Range(s2c[c])
          BY <1>2, QueueFrames DEF ReceiveManifest, TypeOK
        <4>2. Head(s2c[c]).updates \subseteq AtHome
          BY <4>1 DEF KeepsItsOwn, Carried
        <4> QED
          BY <4>2 DEF Learned, AtHome
      <3>3. \A u \in Integrated(Learned(c)) : u.lamport <= l
        BY <1>2, <2>1, ReceiveCovers
      <3>4. OwnNext(c)
        BY <2>0, <2>1, <2>2, <2>3, <3>1, <3>2, <3>3, WroteOwn
      <3> QED
        BY <2>4, <3>4
    <2>5. CASE d # c
      BY <2>2, <2>3, <2>5, UntouchedOwn
    <2> QED
      BY <2>4, <2>5
  <1>3. ASSUME NEW c \in Clients, RescanVault(c) PROVE OwnNext(d)
    <2>1. Scan(c, mem[c], lamport[c], 1, TRUE, disk[c], <<>>) /\ process' = process /\ scanned[c]
      BY <1>3 DEF RescanVault, SaveOutcome
    <2>2. mem[c] \in SUBSET Update /\ disk[c] \in SUBSET Update /\ lamport[c] \in Nat /\ 1 \in 0..1
      BY DEF TypeOK
    <2>3. /\ Wrote(c, mem[c], lamport[c], 1)
          /\ \A e \in Clients \ {c} :
                mem'[e] = mem[e] /\ disk'[e] = disk[e] /\ clock'[e] = clock[e]
      BY <2>1, <2>2, ScanWrites
    <2>4. CASE d = c
      <3>1. \A u \in Integrated(mem[c]) : u.lamport <= lamport[c]
        BY <2>1 DEF LamportCoversManifest
      <3>2. OwnNext(c)
        BY <2>2, <2>3, <3>1, WroteOwn
      <3> QED
        BY <2>4, <3>2
    <2>5. CASE d # c
      BY <2>1, <2>3, <2>5, UntouchedOwn
    <2> QED
      BY <2>4, <2>5
  <1>4. ASSUME NEW c \in Clients, RestartClient(c) PROVE OwnNext(d)
    <2>1. CASE d = c
      <3>1. mem'[c] = mem[c] /\ disk'[c] = mem[c] /\ clock'[c] = 0
        BY <1>4 DEF RestartClient, TypeOK, KeepsItsOwn
      <3> QED
        BY <2>1, <3>1 DEF OwnNext, KeepsItsOwn, OwnWithoutGaps, OwnStampsDiffer
    <2>2. CASE d # c
      <3>1. mem'[d] = mem[d] /\ disk'[d] = disk[d] /\ process'[d] = process[d] /\ clock'[d] = clock[d]
        BY <1>4, <2>2 DEF RestartClient, TypeOK
      <3> QED
        BY <3>1, UntouchedOwn
    <2> QED
      BY <2>1, <2>2
  <1>5. ASSUME NEW c \in Clients,
               \/ Connect(c) \/ Subscribe(c) \/ AnswerStep1(c) \/ MergeUpdate(c) \/ LoseConnection(c)
        PROVE  UNCHANGED clientVars
    BY <1>5 DEF Connect, Subscribe, AnswerStep1, MergeUpdate, LoseConnection
  <1>6. ASSUME RestartServer \/ UNCHANGED vars PROVE UNCHANGED clientVars
    BY <1>6 DEF RestartServer, vars
  <1> QED
    BY <1>1, <1>2, <1>3, <1>4, <1>5, <1>6 DEF Next

\* A client's next updates were at home before, or are its own.
LEMMA ComesFromHome ==
  ASSUME IInv, KeepsItsOwn, ~ioFailed', [Next]_vars, NEW d \in Clients, NEW u \in mem'[d]
  PROVE  u \in Update /\ (u \in AtHome \/ u.author = d)
  <1> USE DEF IInv
  <1>0. u \in Update
    BY TypeNext DEF TypeOK
  <1>1. mem[d] \subseteq AtHome /\ disk[d] \subseteq AtHome
    BY DEF KeepsItsOwn, Carried
  <1>2. ASSUME NEW c \in Clients, ReceiveManifest(c) PROVE u \in AtHome \/ u.author = d
    <2>1. PICK l \in LamportAfter(c), n \in 0..1 :
            mem' = [mem EXCEPT ![c] = Learned(c) \cup Found(c, l, n)]
      <3>1. PICK l \in LamportAfter(c), n \in 0..1, scanOk \in BOOLEAN, ok \in BOOLEAN,
                 before \in {Learned(c), disk[c]} :
               Scan(c, Learned(c), l, n, scanOk, before, Replies(c)) /\ SaveOutcome(ok)
        BY <1>2, ReceiveChoices
      <3>2. mem' = [mem EXCEPT ![c] = Learned(c) \cup Found(c, l, n)]
        BY <3>1 DEF Scan
      <3> QED
        BY <3>1, <3>2
    <2>2. CASE d = c
      <3>1. Head(s2c[c]) \in Range(s2c[c])
        BY <1>2, QueueFrames DEF ReceiveManifest, TypeOK
      <3>2. Learned(c) \subseteq AtHome
        BY <1>1, <2>2, <3>1 DEF Learned, KeepsItsOwn, Carried
      <3>3. u \in Learned(c) \/ u \in Found(c, l, n)
        BY <2>1, <2>2 DEF TypeOK
      <3> QED
        BY <2>2, <3>2, <3>3 DEF Found, NewUpdate
    <2>3. CASE d # c
      BY <1>1, <2>1, <2>3 DEF TypeOK
    <2> QED
      BY <2>2, <2>3
  <1>3. ASSUME NEW c \in Clients, RescanVault(c) PROVE u \in AtHome \/ u.author = d
    <2>1. mem' = [mem EXCEPT ![c] = mem[c] \cup Found(c, lamport[c], 1)]
      BY <1>3 DEF RescanVault, Scan
    <2>2. u \in mem[d] \/ (d = c /\ u \in Found(c, lamport[c], 1))
      BY <2>1 DEF TypeOK
    <2> QED
      BY <1>1, <2>2 DEF Found, NewUpdate
  <1>4. ASSUME NEW c \in Clients, RestartClient(c) PROVE u \in AtHome
    BY <1>1, <1>4 DEF RestartClient, TypeOK
  <1>5. ASSUME NEW c \in Clients,
               \/ Connect(c) \/ Subscribe(c) \/ AnswerStep1(c) \/ MergeUpdate(c) \/ LoseConnection(c)
        PROVE  mem' = mem
    BY <1>5 DEF Connect, Subscribe, AnswerStep1, MergeUpdate, LoseConnection, clientVars
  <1>6. ASSUME RestartServer \/ UNCHANGED vars PROVE mem' = mem
    BY <1>6 DEF RestartServer, vars, clientVars
  <1> QED
    BY <1>0, <1>1, <1>2, <1>3, <1>4, <1>5, <1>6 DEF Next

\* No step forgets a failure.
LEMMA FailuresStay ==
  ASSUME TypeOK, [Next]_vars
  PROVE  ioFailed => ioFailed'
  <1>1. \A ok \in BOOLEAN : SaveOutcome(ok) => (ioFailed => ioFailed')
    BY DEF SaveOutcome
  <1>2. ASSUME NEW c \in Clients, ReceiveManifest(c) PROVE ioFailed => ioFailed'
    BY <1>1, <1>2, ReceiveChoices
  <1>3. ASSUME NEW c \in Clients, RescanVault(c) \/ MergeUpdate(c) PROVE ioFailed => ioFailed'
    BY <1>1, <1>3 DEF RescanVault, MergeUpdate
  <1>4. ASSUME NEW c \in Clients,
               \/ Connect(c) \/ Subscribe(c) \/ AnswerStep1(c) \/ LoseConnection(c) \/ RestartClient(c)
        PROVE  ioFailed' = ioFailed
    BY <1>4 DEF Connect, Subscribe, AnswerStep1, LoseConnection, RestartClient, boundVars
  <1>5. RestartServer \/ UNCHANGED vars => (ioFailed => ioFailed')
    BY DEF RestartServer, vars, boundVars
  <1> QED
    BY <1>2, <1>3, <1>4, <1>5 DEF Next

\* Every step without a failure keeps KeepsItsOwn.
LEMMA KeepsNext ==
  ASSUME IInv, KeepsItsOwn, ~ioFailed', [Next]_vars
  PROVE  KeepsItsOwn'
  <1>1. \A d \in Clients : OwnNext(d)
    BY OwnStays
  <1>2. AtHome \subseteq AtHome'
    BY <1>1 DEF AtHome, OwnNext, Update
  <1>3. \A d \in Clients : mem'[d] \subseteq AtHome'
    <2> SUFFICES ASSUME NEW d \in Clients, NEW u \in mem'[d] PROVE u \in AtHome'
      OBVIOUS
    <2>1. u \in Update /\ (u \in AtHome \/ u.author = d)
      BY ComesFromHome
    <2> QED
      BY <1>2, <2>1 DEF AtHome
  <1>4. PICK P : P = AtHome'
    OBVIOUS
  <1>5. Carried(P)
    BY <1>2, <1>4 DEF KeepsItsOwn, Carried
  <1>6. CarriedNext(P)
    BY <1>3, <1>4, <1>5, CarriedStays DEF IInv
  <1>7. Carried(AtHome)'
    BY <1>4, <1>6 DEF CarriedNext, Carried
  <1>8. (\A c \in Clients : disk[c] = mem[c])' /\ OwnWithoutGaps' /\ OwnStampsDiffer'
    BY <1>1 DEF OwnNext, OwnWithoutGaps, OwnStampsDiffer
  <1> QED
    BY <1>7, <1>8 DEF KeepsItsOwn

\* Whatever was lost and restarted, no two nodes carry the same stamp, as
\* long as no save or load failed.
THEOREM StampsNeverCollide == Spec => []StampsAreUnique
  <1>1. Init => (~ioFailed => KeepsItsOwn)
    <2> SUFFICES ASSUME Init PROVE KeepsItsOwn
      OBVIOUS
    <2>1. \A q \in {<<>>} : Range(q) = {}
      BY QueueFrames
    <2> QED
      BY <2>1
      DEF Init, KeepsItsOwn, Carried, OwnWithoutGaps, OwnStampsDiffer, Integrated
  <1>2. IInv /\ (~ioFailed => KeepsItsOwn) /\ [Next]_vars => (~ioFailed => KeepsItsOwn)'
    <2> SUFFICES ASSUME IInv, ~ioFailed => KeepsItsOwn, [Next]_vars, ~ioFailed'
                 PROVE  KeepsItsOwn'
      OBVIOUS
    <2>1. ~ioFailed
      BY FailuresStay DEF IInv
    <2> QED
      BY <2>1, KeepsNext
  <1>3. IInv /\ (~ioFailed => KeepsItsOwn) => StampsAreUnique
    <2> SUFFICES ASSUME IInv, KeepsItsOwn, NEW u \in Known, NEW v \in Known,
                        u.author = v.author, u.lamport = v.lamport
                 PROVE  u = v
      BY DEF StampsAreUnique
    <2>1. Known \subseteq AtHome
      BY DEF Known, KeepsItsOwn, Carried
    <2>2. u.author \in Clients /\ u \in mem[u.author] /\ v \in mem[u.author]
      BY <2>1 DEF AtHome, Update
    <2> QED
      BY <2>2 DEF KeepsItsOwn, OwnStampsDiffer
  <1> QED
    BY <1>1, <1>2, <1>3, Inductive, PTL DEF Spec
=============================================================================
