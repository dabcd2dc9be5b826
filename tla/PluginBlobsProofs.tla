-------------------------- MODULE PluginBlobsProofs --------------------------
(***************************************************************************)
(* Proofs about PluginBlobs, for any number of rows, any set of blobs and  *)
(* any bounds: no row names a blob that nobody has, unless the connection  *)
(* or the server failed it; a missing file is fetched in the end, unless   *)
(* the answer failed; and before any mishap every file comes to its row.   *)
(***************************************************************************)
EXTENDS PluginBlobs, WellFoundedInduction, TLAPS

\* Files are not removed: what a walk has read, and what an event or a running
\* call is about, is still there.
ReadFilesStay ==
  /\ seen # NoBlob => at # 0 /\ file[at] # NoBlob
  /\ event # 0 => file[event] # NoBlob
  /\ \A c \in Calls : call[c] # Idle => call[c].path # 0 /\ file[call[c].path] # NoBlob

\* A walk is over the rows that lastProjection has, and stops where there is one.
WalksKnowRows == snap = last /\ (at # 0 => snap[at] \in Blobs)

\* An answer that fails: the server has none, or the client drops it.
Unhelped == {"unanswered", "empty"}

\* The client awaits the answers that the server owes, and no others, unless
\* one failed; a lost connection leaves nothing to answer.
AwaitedAreAsked ==
  /\ ~online => asked = {}
  /\ online /\ amiss \cap Unhelped = {} => awaited \subseteq asked

\* A missing file is still ahead of a walk, or asked for, or about to be
\* written, or a walk is going to begin.
MissingAreUnderWay ==
  amiss \cap Unhelped = {} =>
    \A p \in Files : file[p] = NoBlob /\ row[p] # NoBlob =>
      \/ ~online \/ due \/ connecting
      \/ at # 0 /\ at <= p /\ snap[p] # NoBlob
      \/ last[p] \in asked
      \/ \E b \in Blobs : p \in delivery[b]

IInv ==
  /\ TypeOK
  /\ RowsHaveBlobs
  /\ WalksKnowRows
  /\ ReadFilesStay
  /\ AwaitedAreAsked
  /\ MissingAreUnderWay

-----------------------------------------------------------------------------
(* The operators of the model *)

\* A nonempty set of natural numbers has a least element, and Min is in it.
LEMMA MinIsLeast ==
  ASSUME NEW S, S \subseteq Nat, S # {}
  PROVE  Min(S) \in S /\ \A y \in S : Min(S) <= y
  <1> DEFINE Less == {ss \in Nat \X Nat : ss[1] < ss[2]}
  <1>1. IsWellFoundedOn(Less, Nat)
    BY NatLessThanWellFounded, Zenon DEF OpToRel
  <1>2. ASSUME NEW x \in Nat, NEW y \in Nat, y < x PROVE <<y, x>> \in Less
    BY <1>2
  <1> HIDE DEF Less
  <1>3. PICK x \in S : \A y \in S : <<y, x>> \notin Less
    BY <1>1, WFMin, Zenon
  <1>4. ASSUME NEW y \in S PROVE x <= y
    <2>1. x \in Nat /\ y \in Nat
      OBVIOUS
    <2>2. ~(y < x)
      BY <1>2, <1>3, <2>1
    <2> QED
      BY <2>1, <2>2
  <1> QED
    BY <1>3, <1>4 DEF Min

\* The walk finds the next row that names a blob.
LEMMA NextRowIsNext ==
  ASSUME NEW rows \in [Files -> Content], NEW p \in Nat
  PROVE  /\ RowAfter(p, rows) \in 0..N
         /\ RowAfter(p, rows) # 0 => RowAfter(p, rows) \in Files /\ rows[RowAfter(p, rows)] \in Blobs
         /\ \A q \in Files : q > p /\ rows[q] # NoBlob => RowAfter(p, rows) # 0 /\ RowAfter(p, rows) <= q
  <1> DEFINE ahead == {q \in Files : q > p /\ rows[q] # NoBlob}
  <1>1. N \in Nat /\ Files \subseteq Nat /\ 0 \notin Files
    BY PluginBlobsAssumption DEF Files
  <1>2. RowAfter(p, rows) = IF ahead = {} THEN 0 ELSE Min(ahead)
    BY DEF RowAfter
  <1>3. \A q \in Files : q > p /\ rows[q] # NoBlob => q \in ahead
    OBVIOUS
  <1>4. \A q \in ahead : q \in Files /\ rows[q] \in Blobs
    BY DEF Content
  <1> HIDE DEF ahead
  <1>5. CASE ahead = {}
    BY <1>1, <1>2, <1>3, <1>5
  <1>6. CASE ahead # {}
    <2>1. ahead \subseteq Nat
      BY <1>1, <1>4
    <2>2. Min(ahead) \in ahead /\ \A q \in ahead : Min(ahead) <= q
      BY <1>6, <2>1, MinIsLeast
    <2>3. RowAfter(p, rows) \in Files /\ rows[RowAfter(p, rows)] \in Blobs
      BY <1>2, <1>4, <1>6, <2>2
    <2>4. RowAfter(p, rows) \in 0..N /\ RowAfter(p, rows) # 0
      BY <1>1, <2>3 DEF Files
    <2> QED
      BY <1>2, <1>3, <1>6, <2>2, <2>3, <2>4
  <1> QED
    BY <1>5, <1>6

\* The row a delivery is to be written to next.
LEMMA DeliveredRow ==
  ASSUME TypeOK, NEW b \in Blobs, delivery[b] # {}
  PROVE  Min(delivery[b]) \in delivery[b] /\ Min(delivery[b]) \in Files
  <1>1. delivery[b] \subseteq Files /\ Files \subseteq Nat
    BY PluginBlobsAssumption DEF TypeOK, Files
  <1> QED
    BY <1>1, MinIsLeast

\* Requests are of blobs; after a request the client awaits the blob, and the
\* server owes it unless it was awaited before.
LEMMA RequestTypes ==
  ASSUME TypeOK, NEW b \in Blobs, RequestMissing(b) \/ TryRequestBlob(b) \/ UNCHANGED requestVars
  PROVE  /\ requested' \subseteq Blobs /\ awaited' \subseteq Blobs /\ asked' \subseteq awaited'
         /\ asked \subseteq asked'
         /\ ~online => asked' = asked
         /\ awaited' \subseteq awaited \cup asked'
  BY DEF TypeOK, RequestMissing, TryRequestBlob, RequestBlob, requestVars

\* A running call is about a file, and what it has read is a blob.
LEMMA CallsAreOfFiles ==
  ASSUME TypeOK, ReadFilesStay, NEW c \in Calls, call[c] # Idle
  PROVE  /\ call[c] \in Call /\ call[c].path \in Files /\ file[call[c].path] \in Blobs
         /\ call[c].text # NoBlob => call[c].text \in Blobs
  <1>1. call[c] \in Call /\ N \in Nat /\ call[c].path # 0 /\ file[call[c].path] # NoBlob
    BY PluginBlobsAssumption DEF TypeOK, ReadFilesStay
  <1>2. call[c].path \in Files /\ call[c].text \in Content
    BY <1>1 DEF Call, Files
  <1> QED
    BY <1>1, <1>2 DEF TypeOK, Content

\* A call begins, goes on or ends with the types of a call.
LEMMA CallTypes ==
  ASSUME TypeOK, NEW c \in Calls, NEW v \in Call, call' = [call EXCEPT ![c] = v]
  PROVE  call' \in [Calls -> Call]
  BY DEF TypeOK

\* History only adds the mishaps that are named.
LEMMA NoteTypes ==
  ASSUME TypeOK, NEW kinds \in SUBSET Mishaps, Note(kinds)
  PROVE  amiss' \subseteq Mishaps
  BY DEF Note, TypeOK

-----------------------------------------------------------------------------
(* Every step keeps the types *)

\* The walk.
LEMMA PassTypes ==
  ASSUME TypeOK, WalksKnowRows, Pass
  PROVE  TypeOK'
  <1> USE DEF serverVars, scanVars, requestVars, passVars, eventVars
  <1>0. N \in Nat
    BY PluginBlobsAssumption
  <1>1. CASE StartPass
    <2>1. row \in [Files -> Content] /\ 0 \in Nat
      BY DEF TypeOK
    <2>2. RowAfter(0, row) \in 0..N
      BY <2>1, NextRowIsNext
    <2>3. at' \in 0..N /\ snap' \in [Files -> Content] /\ last' \in [Files -> Content] /\ seen' \in Content
      BY <1>1, <2>1, <2>2 DEF StartPass, Content
    <2> QED
      BY <1>1, <2>3 DEF StartPass, TypeOK
  <1>2. CASE EnsureMissing
    <2>1. at \in Nat /\ at \in Files /\ NextRow /\ snap \in [Files -> Content]
      BY <1>0, <1>2 DEF EnsureMissing, TypeOK, Files
    <2>2. at' \in 0..N /\ seen' \in Content
      BY <2>1, NextRowIsNext DEF NextRow, Content
    <2>3. requested' \subseteq Blobs /\ awaited' \subseteq Blobs /\ asked' \subseteq awaited'
      BY <1>2, <2>1, RequestTypes DEF EnsureMissing, WalksKnowRows
    <2> QED
      BY <1>2, <2>1, <2>2, <2>3 DEF EnsureMissing, NextRow, TypeOK
  <1>3. CASE ReadBinary
    <2>1. at \in Files
      BY <1>0, <1>3 DEF ReadBinary, TypeOK, Files
    <2> QED
      BY <1>3, <2>1 DEF ReadBinary, TypeOK
  <1>4. CASE EnsureBinaryInSync
    <2>1. at \in Nat /\ at \in Files /\ NextRow /\ snap \in [Files -> Content]
      BY <1>0, <1>4 DEF EnsureBinaryInSync, TypeOK, Files
    <2>2. at' \in 0..N /\ seen' \in Content
      BY <2>1, NextRowIsNext DEF NextRow, Content
    <2>3. requested' \subseteq Blobs /\ awaited' \subseteq Blobs /\ asked' \subseteq awaited'
      BY <1>4, <2>1, RequestTypes DEF EnsureBinaryInSync, WalksKnowRows
    <2>4. amiss' \subseteq Mishaps
      BY <1>4, NoteTypes DEF EnsureBinaryInSync, When, Mishaps
    <2> QED
      BY <1>4, <2>1, <2>2, <2>3, <2>4 DEF EnsureBinaryInSync, NextRow, TypeOK
  <1> QED
    BY <1>1, <1>2, <1>3, <1>4 DEF Pass

\* Answers, and the files they are written to.
LEMMA BlobTypes ==
  ASSUME TypeOK, NEW b \in Blobs, 
         \/ AnswerBlob(b) \/ DropAnswer(b) \/ NoAnswer(b) \/ WriteBlob(b)
         \/ Upload(b) \/ Arrive(b) \/ Refuse(b)
  PROVE  TypeOK'
  <1> USE DEF serverVars, scanVars, requestVars, passVars, eventVars
  <1>1. CASE AnswerBlob(b)
    <2>1. delivery' \in [Blobs -> SUBSET Files]
      BY <1>1 DEF AnswerBlob, Matches, TypeOK
    <2> QED
      BY <1>1, <2>1 DEF AnswerBlob, TypeOK
  <1>2. CASE DropAnswer(b) \/ NoAnswer(b)
    <2>1. amiss' \subseteq Mishaps
      BY <1>2, NoteTypes DEF DropAnswer, NoAnswer, Mishaps
    <2> QED
      BY <1>2, <2>1 DEF DropAnswer, NoAnswer, TypeOK
  <1>3. CASE WriteBlob(b)
    <2> DEFINE p == Min(delivery[b])
    <2>1. p \in Files
      BY <1>3, DeliveredRow DEF WriteBlob
    <2> HIDE DEF p
    <2>2. /\ delivery' = [delivery EXCEPT ![b] = @ \ {p}]
          /\ file' = [file EXCEPT ![p] = b]
          /\ unsent' = unsent \ {p}
          /\ event' \in {event, p}
          /\ ignoring' \in {ignoring, ignoring \cup {p}}
          /\ amiss' \subseteq Mishaps
      <3>1. amiss' \subseteq Mishaps
        BY <1>3, NoteTypes DEF WriteBlob, When, Mishaps
      <3> QED
        BY <1>3, <3>1 DEF WriteBlob, p
    <2>3. delivery' \in [Blobs -> SUBSET Files] /\ file' \in [Files -> Content] /\ event' \in 0..N
      BY <2>1, <2>2, PluginBlobsAssumption DEF TypeOK, Content, Files
    <2> QED
      BY <1>3, <2>1, <2>2, <2>3 DEF WriteBlob, TypeOK
  <1>4. CASE Upload(b) \/ Arrive(b)
    BY <1>4 DEF Upload, Arrive, TypeOK
  <1>5. CASE Refuse(b)
    <2>1. amiss' \subseteq Mishaps
      BY <1>5, NoteTypes DEF Refuse, When, Mishaps
    <2> QED
      BY <1>5, <2>1 DEF Refuse, TypeOK
  <1> QED
    BY <1>1, <1>2, <1>3, <1>4, <1>5

\* ingestNewFile's calls are about files.
LEMMA IngestTypes ==
  ASSUME TypeOK, NEW c \in Calls, call[c] = Idle, NEW p \in Files, BeginIngest(c, p)
  PROVE  call' \in [Calls -> Call]
  <1>1. call' = call \/ call' = [call EXCEPT ![c] = [path |-> p, named |-> NoBlob, text |-> NoBlob]]
    BY DEF BeginIngest, TypeOK, Idle
  <1>2. [path |-> p, named |-> NoBlob, text |-> NoBlob] \in Call
    BY PluginBlobsAssumption DEF Call, Files, Content
  <1> QED
    BY <1>1, <1>2, CallTypes DEF TypeOK

\* The calls of onFileModify and ingestNewFile.
LEMMA CallStepTypes ==
  ASSUME TypeOK, ReadFilesStay, NEW c \in Calls,
         OnFileModify(c) \/ ReadFile(c) \/ RecordModify(c) \/ RecordIngested(c)
  PROVE  TypeOK'
  <1> USE DEF serverVars, scanVars, requestVars, passVars, eventVars
  <1>0. N \in Nat /\ Idle \in Call
    BY PluginBlobsAssumption DEF Idle, Call, Content
  <1>1. CASE OnFileModify(c)
    <2>1. event \in Files /\ call[c] = Idle /\ last[event] \in Content
      BY <1>0, <1>1 DEF OnFileModify, TypeOK, Files
    <2>2. event' \in 0..N
      BY <1>0, <1>1 DEF OnFileModify
    <2>3. call' \in [Calls -> Call]
      <3>1. \/ call' = call
            \/ BeginIngest(c, event)
            \/ call' = [call EXCEPT ![c] = [path |-> event, named |-> last[event], text |-> NoBlob]]
        BY <1>1, <2>1 DEF OnFileModify, TypeOK, Idle
      <3>2. [path |-> event, named |-> last[event], text |-> NoBlob] \in Call
        BY <1>0, <2>1 DEF Call, Files, Content
      <3> QED
        BY <2>1, <3>1, <3>2, CallTypes, IngestTypes DEF TypeOK
    <2>4. amiss' \subseteq Mishaps
      BY <1>1, NoteTypes DEF OnFileModify, When, Mishaps
    <2> QED
      BY <1>1, <2>2, <2>3, <2>4 DEF OnFileModify, TypeOK
  <1>2. CASE ReadFile(c)
    <2> DEFINE p == call[c].path
    <2>1. call[c] # Idle
      BY <1>2 DEF ReadFile, Idle
    <2>2. call[c] \in Call /\ p \in Files /\ file[p] \in Content
      BY <2>1, CallsAreOfFiles DEF Content
    <2>3. amiss' \subseteq Mishaps
      BY <1>2, NoteTypes DEF ReadFile, When, Mishaps
    <2>4. call' \in [Calls -> Call]
      <3>1. \/ call' = [call EXCEPT ![c] = Idle]
            \/ call' = [call EXCEPT ![c] = [call[c] EXCEPT !.text = file[p]]]
        BY <1>2 DEF ReadFile
      <3>2. [call[c] EXCEPT !.text = file[p]] \in Call
        BY <2>2 DEF Call
      <3> QED
        BY <1>0, <3>1, <3>2, CallTypes
    <2> QED
      BY <1>2, <2>3, <2>4 DEF ReadFile, TypeOK
  <1>3. CASE RecordModify(c) \/ RecordIngested(c)
    <2> DEFINE p == call[c].path
               b == call[c].text
    <2>1. call[c] # Idle /\ b # NoBlob
      BY <1>3 DEF RecordModify, RecordIngested, Idle
    <2>2. p \in Files /\ b \in Blobs
      BY <2>1, CallsAreOfFiles
    <2>3. call' \in [Calls -> Call]
      BY <1>0, <1>3, CallTypes DEF RecordModify, RecordIngested
    <2>4. /\ SendAndRecord(p, b) \/ (sent' \subseteq sent \cup {b} /\ CreateBinary(p, b)) \/ UNCHANGED <<row, sent, due>>
          /\ Publishes(p) \/ UNCHANGED unsent
      BY <1>3 DEF RecordModify, RecordIngested, CreateBinary
    <2> HIDE DEF p, b
    <2>5. row' \in [Files -> Content] /\ sent' \subseteq Blobs /\ due' \in BOOLEAN
      BY <2>2, <2>4 DEF SendAndRecord, CreateBinary, TypeOK, Content
    <2>6. unsent' \subseteq Files
      BY <2>4 DEF Publishes, TypeOK
    <2>7. amiss' \subseteq Mishaps
      <3>1. CASE RecordModify(c)
        BY <3>1, NoteTypes DEF RecordModify, When, Mishaps
      <3>2. CASE RecordIngested(c)
        BY <3>2 DEF RecordIngested, TypeOK
      <3> QED
        BY <1>3, <3>1, <3>2
    <2> QED
      BY <1>3, <2>3, <2>5, <2>6, <2>7 DEF RecordModify, RecordIngested, TypeOK
  <1> QED
    BY <1>1, <1>2, <1>3

\* The user modifies a file, or others a row.
LEMMA ChangeTypes ==
  ASSUME TypeOK, NEW p \in Files, NEW b \in Blobs, UserModifies(p, b) \/ OthersModify(p, b)
  PROVE  TypeOK'
  <1> USE DEF serverVars, scanVars, requestVars, passVars, eventVars
  <1>1. moves' \in Nat
    BY DEF UserModifies, OthersModify, Move, Count, TypeOK
  <1>2. CASE UserModifies(p, b)
    <2>1. file' \in [Files -> Content] /\ event' \in 0..N
      BY <1>2, PluginBlobsAssumption DEF UserModifies, TypeOK, Content, Files
    <2>2. amiss' \subseteq Mishaps
      BY <1>2, NoteTypes DEF UserModifies, When, Mishaps
    <2> QED
      BY <1>1, <1>2, <2>1, <2>2 DEF UserModifies, TypeOK
  <1>3. CASE OthersModify(p, b)
    <2>1. stored' \subseteq Blobs /\ promised' \subseteq Blobs /\ row' \in [Files -> Content]
      BY <1>3 DEF OthersModify, TypeOK, Content
    <2> QED
      BY <1>1, <1>3, <2>1 DEF OthersModify, TypeOK
  <1> QED
    BY <1>2, <1>3

\* The user creates a file.
LEMMA CreateTypes ==
  ASSUME TypeOK, NEW p \in Files, NEW b \in Blobs, NEW c \in Calls, UserCreates(c, p, b)
  PROVE  TypeOK'
  <1>1. moves' \in Nat
    BY DEF UserCreates, Move, Count, TypeOK
  <1>2. file' \in [Files -> Content] /\ unsent' \subseteq Files
    BY DEF UserCreates, TypeOK, Content
  <1>3. call' \in [Calls -> Call]
    BY IngestTypes DEF UserCreates
  <1> QED
    BY <1>1, <1>2, <1>3 DEF UserCreates, TypeOK, serverVars, scanVars, requestVars, passVars

\* The scan, and the end of a suppression.
LEMMA ScanTypes ==
  ASSUME TypeOK, NEW p \in Files, ScanFile(p) \/ RecordScanned(p) \/ ScanDone \/ IgnoreEnds(p)
  PROVE  TypeOK'
  <1> USE DEF serverVars, scanVars, requestVars, passVars, eventVars
  <1>1. CASE ScanFile(p)
    <2>1. taken' \in [Files -> Content] /\ scanning' \subseteq Files
      BY <1>1 DEF ScanFile, TypeOK
    <2> QED
      BY <1>1, <2>1 DEF ScanFile, TypeOK
  <1>2. CASE RecordScanned(p)
    <2> DEFINE b == taken[p]
    <2>1. b \in Blobs
      BY <1>2 DEF RecordScanned, TypeOK, Content
    <2> HIDE DEF b
    <2>2. CreateBinary(p, b) /\ taken' = [taken EXCEPT ![p] = NoBlob] /\ sent' \subseteq sent \cup {b}
      BY <1>2 DEF RecordScanned, b
    <2>3. amiss' \subseteq Mishaps
      BY <1>2, NoteTypes DEF RecordScanned, When, Mishaps
    <2>4. taken' \in [Files -> Content] /\ sent' \subseteq Blobs
      BY <2>1, <2>2 DEF TypeOK, Content
    <2>5. row' \in [Files -> Content] /\ due' \in BOOLEAN /\ unsent' \subseteq Files
      BY <2>1, <2>2 DEF CreateBinary, Publishes, TypeOK, Content
    <2> QED
      BY <1>2, <2>3, <2>4, <2>5 DEF RecordScanned, TypeOK
  <1>3. CASE ScanDone
    BY <1>3 DEF ScanDone, TypeOK
  <1>4. CASE IgnoreEnds(p)
    BY <1>4 DEF IgnoreEnds, TypeOK
  <1> QED
    BY <1>1, <1>2, <1>3, <1>4

\* The connection.
LEMMA ConnectionTypes ==
  ASSUME TypeOK, AwaitedAreAsked, Lose \/ Reconnect
  PROVE  TypeOK'
  <1> USE DEF serverVars, scanVars, requestVars, passVars, eventVars
  <1>1. CASE Lose
    <2>1. amiss' \subseteq Mishaps
      BY <1>1, NoteTypes DEF Lose, When, Mishaps
    <2>2. moves' \in Nat /\ asked' \subseteq awaited' /\ sent' \subseteq Blobs
      BY <1>1 DEF Lose, Count, TypeOK
    <2> QED
      BY <1>1, <2>1, <2>2 DEF Lose, TypeOK
  <1>2. CASE Reconnect
    BY <1>2 DEF Reconnect, Unlisted, TypeOK, AwaitedAreAsked
  <1> QED
    BY <1>1, <1>2

\* Every step keeps the types.
LEMMA TypeNext == IInv /\ [Next]_vars => TypeOK'
  <1> SUFFICES ASSUME IInv, [Next]_vars PROVE TypeOK'
    OBVIOUS
  <1>1. CASE UNCHANGED vars
    BY <1>1 DEF IInv, TypeOK, vars, serverVars, scanVars, requestVars, passVars, eventVars
  <1>2. ASSUME NEW p \in Files, NEW b \in Blobs, UserModifies(p, b) \/ OthersModify(p, b)
        PROVE  TypeOK'
    BY <1>2, ChangeTypes DEF IInv
  <1>3. ASSUME NEW p \in Files, NEW b \in Blobs, NEW c \in Calls, UserCreates(c, p, b) PROVE TypeOK'
    BY <1>3, CreateTypes DEF IInv
  <1>4. ASSUME NEW c \in Calls, OnFileModify(c) \/ ReadFile(c) \/ RecordModify(c) \/ RecordIngested(c)
        PROVE  TypeOK'
    BY <1>4, CallStepTypes DEF IInv
  <1>5. CASE ScanDone
    BY <1>5 DEF ScanDone, IInv, TypeOK, serverVars, scanVars, requestVars, passVars, eventVars
  <1>6. ASSUME NEW p \in Files, IgnoreEnds(p) \/ ScanFile(p) \/ RecordScanned(p) PROVE TypeOK'
    BY <1>6, ScanTypes DEF IInv
  <1>7. ASSUME NEW b \in Blobs,
               \/ AnswerBlob(b) \/ DropAnswer(b) \/ NoAnswer(b) \/ WriteBlob(b)
               \/ Upload(b) \/ Arrive(b) \/ Refuse(b)
        PROVE  TypeOK'
    BY <1>7, BlobTypes DEF IInv
  <1>8. CASE Pass \/ Lose \/ Reconnect
    BY <1>8, PassTypes, ConnectionTypes DEF IInv
  <1> QED
    BY <1>1, <1>2, <1>3, <1>4, <1>5, <1>6, <1>7, <1>8 DEF Next

-----------------------------------------------------------------------------
(* Rows and blobs *)

\* Blobs are only added but for a lost connection and a refusal, and a row
\* changes only to a blob that is stored, promised or sent by the same step.
LEMMA RowsNext == IInv /\ [Next]_vars => RowsHaveBlobs'
  <1> SUFFICES ASSUME IInv, [Next]_vars PROVE RowsHaveBlobs'
    OBVIOUS
  <1> USE DEF serverVars, scanVars, requestVars, passVars, eventVars, Note, When
  <1>0. TypeOK /\ RowsHaveBlobs
    BY DEF IInv
  <1> DEFINE Held == stored \cup promised \cup sent \cup {NoBlob}
  <1>1. ASSUME UNCHANGED row, Held \subseteq Held', amiss \subseteq amiss'
        PROVE  RowsHaveBlobs'
    BY <1>0, <1>1 DEF RowsHaveBlobs
  <1>2. ASSUME NEW p \in Files, NEW b \in Blobs, row' = [row EXCEPT ![p] = b], b \in Held',
               Held \subseteq Held', amiss \subseteq amiss'
        PROVE  RowsHaveBlobs'
    BY <1>0, <1>2 DEF RowsHaveBlobs, TypeOK
  <1>3. ASSUME NEW c \in Calls, RecordModify(c) \/ RecordIngested(c) PROVE RowsHaveBlobs'
    <2> DEFINE p == call[c].path
               b == call[c].text
    <2>1. p \in Files /\ b \in Blobs
      <3>1. call[c] # Idle /\ b # NoBlob
        BY <1>3 DEF RecordModify, RecordIngested, Idle
      <3> QED
        BY <1>0, <3>1, CallsAreOfFiles DEF IInv
    <2>2. /\ stored' = stored /\ promised' = promised /\ sent \subseteq sent' /\ amiss \subseteq amiss'
          /\ \/ row' = [row EXCEPT ![p] = b] /\ b \in sent'
             \/ UNCHANGED row
      BY <1>3 DEF RecordModify, SendAndRecord, RecordIngested, CreateBinary
    <2> HIDE DEF p, b
    <2> QED
      BY <1>1, <1>2, <2>1, <2>2
  <1>5. ASSUME NEW p \in Files, RecordScanned(p) PROVE RowsHaveBlobs'
    <2>1. taken[p] \in Blobs
      BY <1>0, <1>5 DEF RecordScanned, TypeOK, Content
    <2>2. /\ stored' = stored /\ promised' = promised /\ sent \subseteq sent' /\ amiss \subseteq amiss'
          /\ \/ row' = [row EXCEPT ![p] = taken[p]] /\ taken[p] \in sent'
             \/ "undelivered" \in amiss'
             \/ UNCHANGED row
      BY <1>5 DEF RecordScanned, CreateBinary
    <2>3. "undelivered" \in amiss' => RowsHaveBlobs'
      BY DEF RowsHaveBlobs
    <2> QED
      BY <1>1, <1>2, <2>1, <2>2, <2>3
  <1>6. ASSUME NEW p \in Files, NEW b \in Blobs, OthersModify(p, b) PROVE RowsHaveBlobs'
    BY <1>2, <1>6 DEF OthersModify
  <1>7. ASSUME NEW b \in Blobs, Upload(b) \/ Arrive(b) PROVE RowsHaveBlobs'
    BY <1>1, <1>7 DEF Upload, Arrive
  <1>8. CASE Pass
    BY <1>1, <1>8 DEF Pass, StartPass, EnsureMissing, ReadBinary, EnsureBinaryInSync
  <1>4. ASSUME NEW c \in Calls, OnFileModify(c) \/ ReadFile(c) PROVE RowsHaveBlobs'
    BY <1>1, <1>4 DEF OnFileModify, ReadFile
  <1>9. CASE Reconnect \/ ScanDone
    BY <1>1, <1>9 DEF Reconnect, ScanDone
  <1>10. CASE Lose
    BY <1>0, <1>10 DEF Lose, RowsHaveBlobs
  <1>11. ASSUME NEW b \in Blobs, AnswerBlob(b) \/ DropAnswer(b) \/ NoAnswer(b) \/ WriteBlob(b)
         PROVE  RowsHaveBlobs'
    BY <1>1, <1>11 DEF AnswerBlob, DropAnswer, NoAnswer, WriteBlob
  <1>12. ASSUME NEW p \in Files, NEW b \in Blobs, NEW c \in Calls, UserCreates(c, p, b)
         PROVE  RowsHaveBlobs'
    BY <1>1, <1>12 DEF UserCreates
  <1>13. ASSUME NEW p \in Files, IgnoreEnds(p) \/ ScanFile(p) PROVE RowsHaveBlobs'
    BY <1>1, <1>13 DEF IgnoreEnds, ScanFile
  <1>14. CASE UNCHANGED vars
    BY <1>1, <1>14 DEF vars
  <1>15. ASSUME NEW b \in Blobs, Refuse(b) PROVE RowsHaveBlobs'
    <2>1. CASE b \in stored
      BY <1>1, <1>15, <2>1 DEF Refuse
    <2>2. CASE b \notin stored
      BY <1>15, <2>2 DEF Refuse, RowsHaveBlobs
    <2> QED
      BY <2>1, <2>2
  <1>16. ASSUME NEW p \in Files, NEW b \in Blobs, UserModifies(p, b) PROVE RowsHaveBlobs'
    BY <1>1, <1>16 DEF UserModifies
  <1> QED
    BY <1>3, <1>4, <1>5, <1>6, <1>7, <1>8, <1>9, <1>10, <1>11, <1>12, <1>13, <1>14, <1>15, <1>16 DEF Next

-----------------------------------------------------------------------------
(* Missing files *)

\* No step removes a file.
LEMMA FilesStay ==
  ASSUME IInv, [Next]_vars, NEW p \in Files, file[p] # NoBlob
  PROVE  file'[p] # NoBlob
  <1> USE PluginBlobsAssumption DEF serverVars, scanVars, requestVars, passVars, eventVars
  <1>1. ASSUME NEW b \in Blobs, WriteBlob(b) PROVE file'[p] # NoBlob
    <2>1. file' = [file EXCEPT ![Min(delivery[b])] = b]
      BY <1>1 DEF WriteBlob
    <2> QED
      BY <2>1 DEF IInv, TypeOK
  <1>2. ASSUME NEW q \in Files, NEW b \in Blobs, UserModifies(q, b) PROVE file'[p] # NoBlob
    BY <1>2 DEF UserModifies, IInv, TypeOK
  <1>3. CASE UNCHANGED file
    BY <1>3
  <1>4. CASE Pass \/ ScanDone \/ Lose \/ Reconnect \/ UNCHANGED vars
    BY <1>3, <1>4 DEF Pass, StartPass, EnsureMissing, ReadBinary, EnsureBinaryInSync,
                      ScanDone, Lose, Reconnect, vars
  <1>5. ASSUME NEW b \in Blobs,
               \/ AnswerBlob(b) \/ DropAnswer(b) \/ NoAnswer(b)
               \/ Upload(b) \/ Arrive(b) \/ Refuse(b)
        PROVE  UNCHANGED file
    BY <1>5 DEF AnswerBlob, DropAnswer, NoAnswer, Upload, Arrive, Refuse
  <1>6. ASSUME NEW q \in Files, IgnoreEnds(q) \/ ScanFile(q) \/ RecordScanned(q)
        PROVE  UNCHANGED file
    BY <1>6 DEF IgnoreEnds, ScanFile, RecordScanned
  <1>9. ASSUME NEW c \in Calls, OnFileModify(c) \/ ReadFile(c) \/ RecordModify(c) \/ RecordIngested(c)
        PROVE  UNCHANGED file
    BY <1>9 DEF OnFileModify, ReadFile, RecordModify, RecordIngested
  <1>7. ASSUME NEW q \in Files, NEW b \in Blobs, OthersModify(q, b) PROVE UNCHANGED file
    BY <1>7 DEF OthersModify
  <1>8. ASSUME NEW q \in Files, NEW b \in Blobs, NEW c \in Calls, UserCreates(c, q, b)
        PROVE  file'[p] # NoBlob
    BY <1>8 DEF UserCreates, IInv, TypeOK
  <1> QED
    BY <1>1, <1>2, <1>3, <1>4, <1>5, <1>6, <1>7, <1>8, <1>9 DEF Next

\* A walk, an answer or the connection.
Fetches ==
  \/ Pass \/ Lose \/ Reconnect
  \/ \E b \in Blobs : AnswerBlob(b) \/ DropAnswer(b) \/ NoAnswer(b) \/ WriteBlob(b)

\* The other steps: what goes on with the files and on the server.
Others ==
  \/ ScanDone \/ UNCHANGED vars
  \/ \E b \in Blobs : Upload(b) \/ Arrive(b) \/ Refuse(b)
  \/ \E c \in Calls : OnFileModify(c) \/ ReadFile(c) \/ RecordModify(c) \/ RecordIngested(c)
  \/ \E p \in Files : IgnoreEnds(p) \/ ScanFile(p) \/ RecordScanned(p)
  \/ \E p \in Files, b \in Blobs : UserModifies(p, b) \/ OthersModify(p, b)
  \/ \E c \in Calls, p \in Files, b \in Blobs : UserCreates(c, p, b)

\* They leave the requests, the deliveries and the walk alone, and a change of
\* the rows or the end of the scan has a walk begin.
LEMMA Elsewhere ==
  ASSUME Others
  PROVE  /\ UNCHANGED <<last, online, asked, awaited, at, snap, seen, delivery>>
         /\ due \/ connecting => due' \/ connecting'
         /\ due' \/ UNCHANGED row
         /\ amiss \subseteq amiss'
  <1> USE DEF serverVars, scanVars, requestVars, passVars, eventVars, Note
  <1> DEFINE Kept == UNCHANGED <<last, online, asked, awaited, at, snap, seen, delivery>>
  <1>1. ASSUME NEW c \in Calls, OnFileModify(c) \/ ReadFile(c)
        PROVE  Kept /\ UNCHANGED <<row, due, connecting>> /\ amiss \subseteq amiss'
    BY <1>1 DEF OnFileModify, ReadFile
  <1>2. CASE UNCHANGED vars
    BY <1>2 DEF vars
  <1>3. CASE ScanDone
    BY <1>3 DEF ScanDone
  <1>4. ASSUME NEW b \in Blobs, Upload(b) \/ Arrive(b) \/ Refuse(b)
        PROVE  Kept /\ UNCHANGED <<row, due, connecting>> /\ amiss \subseteq amiss'
    BY <1>4 DEF Upload, Arrive, Refuse
  <1>5. ASSUME NEW p \in Files, IgnoreEnds(p) \/ ScanFile(p)
        PROVE  Kept /\ UNCHANGED <<row, due, connecting, amiss>>
    BY <1>5 DEF IgnoreEnds, ScanFile
  <1>6. ASSUME NEW c \in Calls, RecordModify(c) \/ RecordIngested(c)
        PROVE  /\ Kept /\ UNCHANGED connecting
               /\ due => due'
               /\ due' \/ UNCHANGED row
               /\ amiss \subseteq amiss'
    BY <1>6 DEF RecordModify, SendAndRecord, RecordIngested, CreateBinary
  <1>7. ASSUME NEW p \in Files, RecordScanned(p)
        PROVE  /\ Kept /\ UNCHANGED connecting
               /\ due => due'
               /\ due' \/ UNCHANGED row
               /\ amiss \subseteq amiss'
    BY <1>7 DEF RecordScanned, CreateBinary
  <1>8. ASSUME NEW p \in Files, NEW b \in Blobs, UserModifies(p, b)
        PROVE  Kept /\ UNCHANGED <<row, due, connecting>> /\ amiss \subseteq amiss'
    BY <1>8 DEF UserModifies
  <1>9. ASSUME NEW p \in Files, NEW b \in Blobs, NEW c \in Calls, UserCreates(c, p, b)
        PROVE  Kept /\ UNCHANGED <<row, due, connecting>> /\ amiss \subseteq amiss'
    BY <1>9 DEF UserCreates
  <1>10. ASSUME NEW p \in Files, NEW b \in Blobs, OthersModify(p, b)
         PROVE  Kept /\ UNCHANGED amiss /\ due'
    BY <1>10 DEF OthersModify
  <1> QED
    BY <1>1, <1>2, <1>3, <1>4, <1>5, <1>6, <1>7, <1>8, <1>9, <1>10 DEF Others

\* Every step is one or the other.
LEMMA NextSplits ==
  ASSUME [Next]_vars
  PROVE  Fetches \/ Others
  BY DEF Next, Fetches, Others

\* A walk keeps to the rows that it began with.
LEMMA WalksNext == IInv /\ [Next]_vars => WalksKnowRows'
  <1> SUFFICES ASSUME IInv, [Next]_vars PROVE WalksKnowRows'
    OBVIOUS
  <1> USE DEF serverVars, scanVars, requestVars, passVars, eventVars, WalksKnowRows, IInv
  <1>0. /\ row \in [Files -> Content] /\ snap \in [Files -> Content]
        /\ at \in Nat /\ 0 \in Nat
    BY PluginBlobsAssumption DEF TypeOK
  <1>1. CASE StartPass
    <2>1. RowAfter(0, row) # 0 => row[RowAfter(0, row)] \in Blobs
      BY <1>0, NextRowIsNext
    <2> QED
      BY <1>1, <2>1 DEF StartPass
  <1>2. CASE EnsureMissing \/ EnsureBinaryInSync
    <2>1. RowAfter(at, snap) # 0 => snap[RowAfter(at, snap)] \in Blobs
      BY <1>0, NextRowIsNext
    <2> QED
      BY <1>2, <2>1 DEF EnsureMissing, EnsureBinaryInSync, NextRow
  <1>3. CASE ReadBinary
    BY <1>3 DEF ReadBinary
  <1>4. CASE Lose \/ Reconnect
    BY <1>4 DEF Lose, Reconnect
  <1>5. ASSUME NEW b \in Blobs, AnswerBlob(b) \/ DropAnswer(b) \/ NoAnswer(b) \/ WriteBlob(b)
        PROVE  WalksKnowRows'
    BY <1>5 DEF AnswerBlob, DropAnswer, NoAnswer, WriteBlob
  <1>6. CASE Others
    BY <1>6, Elsewhere
  <1> QED
    BY <1>1, <1>2, <1>3, <1>4, <1>5, <1>6, NextSplits DEF Fetches, Pass

\* What has been read stays.
LEMMA ReadNext == IInv /\ [Next]_vars => ReadFilesStay'
  <1> SUFFICES ASSUME IInv, [Next]_vars PROVE ReadFilesStay'
    OBVIOUS
  <1> USE PluginBlobsAssumption DEF serverVars, scanVars, requestVars, passVars, eventVars
  <1>0. TypeOK' /\ TypeOK
    BY TypeNext DEF IInv
  <1>1. seen' # NoBlob => at' # 0 /\ file'[at'] # NoBlob
    <2>1. UNCHANGED <<seen, at>> \/ seen' = NoBlob \/ ReadBinary
      <3>1. CASE Others
        BY <3>1, Elsewhere
      <3>2. CASE Fetches
        BY <3>2 DEF Fetches, Pass, StartPass, EnsureMissing, EnsureBinaryInSync, NextRow, Lose, Reconnect,
                    AnswerBlob, DropAnswer, NoAnswer, WriteBlob
      <3> QED
        BY <3>1, <3>2, NextSplits
    <2>2. CASE UNCHANGED <<seen, at>>
      <3>1. at # 0 => at \in Files
        BY <1>0 DEF TypeOK, Files
      <3> QED
        BY <2>2, <3>1, FilesStay DEF IInv, ReadFilesStay
    <2>3. CASE ReadBinary
      BY <2>3 DEF ReadBinary
    <2> QED
      BY <2>1, <2>2, <2>3
  <1>2. event' # 0 => file'[event'] # NoBlob
    <2>1. CASE event' = event
      <3>1. event # 0 => event \in Files
        BY <1>0 DEF TypeOK, Files
      <3> QED
        BY <2>1, <3>1, FilesStay DEF IInv, ReadFilesStay
    <2>2. CASE event' # event
      <3>1. ASSUME NEW b \in Blobs, WriteBlob(b) PROVE file'[event'] # NoBlob
        <4>1. event' = Min(delivery[b]) /\ file' = [file EXCEPT ![Min(delivery[b])] = b]
          BY <2>2, <3>1 DEF WriteBlob
        <4>2. Min(delivery[b]) \in Files
          BY <1>0, <3>1, DeliveredRow DEF WriteBlob
        <4> QED
          BY <1>0, <4>1, <4>2 DEF TypeOK
      <3>2. ASSUME NEW p \in Files, NEW b \in Blobs, UserModifies(p, b) PROVE file'[event'] # NoBlob
        BY <1>0, <3>2 DEF UserModifies, TypeOK
      <3>3. ASSUME NEW c \in Calls, OnFileModify(c) PROVE event' = 0
        BY <3>3 DEF OnFileModify
      <3>4. ~Pass /\ ~ScanDone /\ ~Lose /\ ~Reconnect /\ ~UNCHANGED vars
        BY <2>2 DEF Pass, StartPass, EnsureMissing, ReadBinary, EnsureBinaryInSync, ScanDone, Lose,
                    Reconnect, vars
      <3>5. \A b \in Blobs : /\ ~AnswerBlob(b) /\ ~DropAnswer(b) /\ ~NoAnswer(b)
                             /\ ~Upload(b) /\ ~Arrive(b) /\ ~Refuse(b)
        BY <2>2 DEF AnswerBlob, DropAnswer, NoAnswer, Upload, Arrive, Refuse
      <3>6. \A c \in Calls : ~ReadFile(c) /\ ~RecordModify(c) /\ ~RecordIngested(c)
        BY <2>2 DEF ReadFile, RecordModify, RecordIngested
      <3>7. \A p \in Files :
              /\ ~IgnoreEnds(p) /\ ~ScanFile(p) /\ ~RecordScanned(p)
              /\ \A b \in Blobs : ~OthersModify(p, b) /\ \A c \in Calls : ~UserCreates(c, p, b)
        BY <2>2 DEF IgnoreEnds, ScanFile, RecordScanned, OthersModify, UserCreates
      <3> QED
        BY <2>2, <3>1, <3>2, <3>3, <3>4, <3>5, <3>6, <3>7 DEF Next
    <2> QED
      BY <2>1, <2>2
  <1>3. ASSUME NEW c \in Calls, call'[c] # Idle
        PROVE  call'[c].path # 0 /\ file'[call'[c].path] # NoBlob
    <2>1. CASE call'[c].path = call[c].path /\ call[c] # Idle
      <3>1. call[c].path \in Files /\ file[call[c].path] # NoBlob /\ call[c].path # 0
        BY <1>0, <2>1, CallsAreOfFiles DEF IInv, ReadFilesStay
      <3> QED
        BY <2>1, <3>1, FilesStay
    <2>2. ASSUME NEW d \in Calls, OnFileModify(d), call[c] = Idle \/ call'[c].path # call[c].path
          PROVE  call'[c].path = event /\ event # 0
      BY <1>0, <1>3, <2>2 DEF OnFileModify, BeginIngest, TypeOK
    <2>3. ASSUME NEW d \in Calls, NEW p \in Files, NEW b \in Blobs, UserCreates(d, p, b),
                 call[c] = Idle \/ call'[c].path # call[c].path
          PROVE  call'[c].path = p /\ file'[p] # NoBlob
      BY <1>0, <1>3, <2>3 DEF UserCreates, BeginIngest, TypeOK
    <2>4. ASSUME NEW d \in Calls, ReadFile(d) \/ RecordModify(d) \/ RecordIngested(d)
          PROVE  call'[c].path = call[c].path /\ call[c] # Idle
      <3>1. call[d].path # 0
        BY <1>0, <2>4, CallsAreOfFiles DEF IInv, ReadFilesStay, ReadFile, RecordModify, RecordIngested, Idle
      <3>2. \/ call' = [call EXCEPT ![d] = Idle]
            \/ call' = [call EXCEPT ![d].text = file[call[d].path]]
        BY <2>4 DEF ReadFile, RecordModify, RecordIngested
      <3> QED
        BY <1>0, <1>3, <3>1, <3>2 DEF TypeOK, Call, Idle
    <2>5. ASSUME UNCHANGED call
          PROVE  call'[c].path = call[c].path /\ call[c] # Idle
      BY <1>3, <2>5
    <2>6. CASE Fetches
      BY <2>1, <2>5, <2>6
      DEF Fetches, Pass, StartPass, EnsureMissing, ReadBinary, EnsureBinaryInSync, Lose, Reconnect,
          AnswerBlob, DropAnswer, NoAnswer, WriteBlob
    <2>7. CASE ScanDone \/ UNCHANGED vars
      BY <2>1, <2>5, <2>7 DEF ScanDone, vars
    <2>8. ASSUME NEW b \in Blobs, Upload(b) \/ Arrive(b) \/ Refuse(b) PROVE UNCHANGED call
      BY <2>8 DEF Upload, Arrive, Refuse
    <2>9. ASSUME NEW p \in Files, IgnoreEnds(p) \/ ScanFile(p) \/ RecordScanned(p) PROVE UNCHANGED call
      BY <2>9 DEF IgnoreEnds, ScanFile, RecordScanned
    <2>10. ASSUME NEW p \in Files, NEW b \in Blobs, UserModifies(p, b) \/ OthersModify(p, b)
           PROVE  UNCHANGED call
      BY <2>10 DEF UserModifies, OthersModify
    <2>11. event # 0 => file'[event] # NoBlob
      <3>1. event # 0 => event \in Files
        BY <1>0 DEF TypeOK, Files
      <3> QED
        BY <3>1, FilesStay DEF IInv, ReadFilesStay
    <2>12. 0 \notin Files
      BY DEF Files
    <2> QED
      BY <2>1, <2>2, <2>3, <2>4, <2>5, <2>6, <2>7, <2>8, <2>9, <2>10, <2>11, <2>12, NextSplits DEF Others
  <1> QED
    BY <1>1, <1>2, <1>3 DEF ReadFilesStay

\* The client awaits what it asked for.
LEMMA AwaitedNext == IInv /\ [Next]_vars => AwaitedAreAsked'
  <1> SUFFICES ASSUME IInv, [Next]_vars PROVE AwaitedAreAsked'
    OBVIOUS
  <1> USE DEF serverVars, scanVars, requestVars, passVars, eventVars, Note
  <1>0. TypeOK /\ WalksKnowRows /\ AwaitedAreAsked
    BY DEF IInv
  <1>1. CASE Others
    BY <1>0, <1>1, Elsewhere DEF AwaitedAreAsked
  <1>2. CASE StartPass \/ ReadBinary
    BY <1>0, <1>2 DEF StartPass, ReadBinary, AwaitedAreAsked
  <1>3. CASE EnsureMissing \/ EnsureBinaryInSync
    <2>1. PICK b \in Blobs : RequestMissing(b) \/ TryRequestBlob(b) \/ UNCHANGED requestVars
      BY <1>0, <1>3 DEF EnsureMissing, EnsureBinaryInSync, WalksKnowRows
    <2>2. online' = online /\ amiss \subseteq amiss'
      BY <1>3 DEF EnsureMissing, EnsureBinaryInSync
    <2>3. /\ asked \subseteq asked' /\ awaited' \subseteq awaited \cup asked'
          /\ ~online => asked' = asked
      BY <1>0, <2>1, RequestTypes
    <2> QED
      BY <1>0, <2>2, <2>3 DEF AwaitedAreAsked
  <1>4. CASE Lose \/ Reconnect
    BY <1>0, <1>4 DEF Lose, Reconnect, AwaitedAreAsked
  <1>5. ASSUME NEW b \in Blobs, AnswerBlob(b) PROVE AwaitedAreAsked'
    BY <1>0, <1>5 DEF AnswerBlob, AwaitedAreAsked
  <1>6. ASSUME NEW b \in Blobs, DropAnswer(b) \/ NoAnswer(b) PROVE AwaitedAreAsked'
    BY <1>0, <1>6 DEF DropAnswer, NoAnswer, AwaitedAreAsked, Unhelped
  <1>7. ASSUME NEW b \in Blobs, WriteBlob(b) PROVE AwaitedAreAsked'
    BY <1>0, <1>7 DEF WriteBlob, AwaitedAreAsked
  <1> QED
    BY <1>1, <1>2, <1>3, <1>4, <1>5, <1>6, <1>7, NextSplits DEF Fetches, Pass

\* A walk passes a missing file only with its blob asked for, or without a
\* connection; an answer goes to every row that wants it; and a lost
\* connection has every row walked again.
LEMMA MissingNext == IInv /\ [Next]_vars => MissingAreUnderWay'
  <1> SUFFICES ASSUME IInv, [Next]_vars, amiss' \cap Unhelped = {},
                      NEW p \in Files, file'[p] = NoBlob, row'[p] # NoBlob,
                      online', ~due', ~connecting'
               PROVE  \/ at' # 0 /\ at' <= p /\ snap'[p] # NoBlob
                      \/ last'[p] \in asked'
                      \/ \E b \in Blobs : p \in delivery'[b]
    BY DEF MissingAreUnderWay
  <1> USE DEF serverVars, scanVars, requestVars, passVars, eventVars, Note
  <1>0. TypeOK /\ WalksKnowRows /\ AwaitedAreAsked /\ ReadFilesStay
    BY DEF IInv
  <1>1. file[p] = NoBlob
    BY FilesStay
  <1>2. ASSUME amiss \cap Unhelped = {}, online, ~due, ~connecting, row[p] # NoBlob
        PROVE  \/ at # 0 /\ at <= p /\ snap[p] # NoBlob
               \/ last[p] \in asked
               \/ \E b \in Blobs : p \in delivery[b]
    BY <1>1, <1>2 DEF IInv, MissingAreUnderWay
  <1>3. CASE Others
    <2>1. /\ UNCHANGED <<last, online, asked, at, snap, delivery, row>>
          /\ ~due /\ ~connecting /\ amiss \cap Unhelped = {}
      BY <1>3, Elsewhere
    <2> QED
      BY <1>2, <2>1
  <1>4. CASE StartPass
    <2>1. row \in [Files -> Content] /\ 0 \in Nat /\ p > 0 /\ row[p] # NoBlob
      BY <1>0, <1>4, PluginBlobsAssumption DEF StartPass, TypeOK, Files
    <2>2. RowAfter(0, row) # 0 /\ RowAfter(0, row) <= p
      BY <2>1, NextRowIsNext
    <2> QED
      BY <1>4, <2>1, <2>2 DEF StartPass
  <1>5. CASE ReadBinary
    BY <1>2, <1>5 DEF ReadBinary
  <1>6. CASE EnsureMissing \/ EnsureBinaryInSync
    <2>1. at \in Nat /\ at # 0 /\ NextRow /\ snap \in [Files -> Content] /\ p \in Nat
      <3>1. N \in Nat /\ at \in 0..N /\ snap \in [Files -> Content]
        BY <1>0, PluginBlobsAssumption DEF TypeOK
      <3>2. at # 0 /\ NextRow
        BY <1>6 DEF EnsureMissing, EnsureBinaryInSync
      <3> QED
        BY <3>1, <3>2 DEF Files
    <2>2. amiss \cap Unhelped = {} /\ UNCHANGED <<online, due, connecting, row, last, snap, delivery>>
      BY <1>6 DEF EnsureMissing, EnsureBinaryInSync, NextRow
    <2>3. asked \subseteq asked'
      <3>1. PICK b \in Blobs : RequestMissing(b) \/ TryRequestBlob(b) \/ UNCHANGED requestVars
        BY <1>0, <1>6 DEF EnsureMissing, EnsureBinaryInSync, WalksKnowRows
      <3> QED
        BY <1>0, <3>1, RequestTypes
    <2>4. CASE p # at
      <3>1. at < p /\ snap[p] # NoBlob => at' # 0 /\ at' <= p
        BY <2>1, NextRowIsNext DEF NextRow
      <3> QED
        BY <1>2, <2>1, <2>2, <2>3, <2>4, <3>1
    <2>5. CASE p = at
      <3>1. EnsureMissing
        BY <1>0, <1>1, <1>6, <2>5 DEF EnsureBinaryInSync, ReadFilesStay
      <3>2. online /\ RequestBlob(last[p])
        BY <1>0, <2>2, <2>5, <3>1 DEF EnsureMissing, RequestMissing, WalksKnowRows
      <3>3. last[p] \in asked'
        BY <1>0, <2>2, <3>2 DEF RequestBlob, AwaitedAreAsked
      <3> QED
        BY <2>2, <3>3
    <2> QED
      BY <2>4, <2>5
  <1>7. CASE Lose \/ Reconnect
    BY <1>7 DEF Lose, Reconnect
  <1>8. ASSUME NEW b \in Blobs, AnswerBlob(b)
        PROVE  \/ at' # 0 /\ at' <= p /\ snap'[p] # NoBlob
               \/ last'[p] \in asked'
               \/ \E c \in Blobs : p \in delivery'[c]
    <2>1. /\ UNCHANGED <<amiss, online, due, connecting, row, last, at, snap>>
          /\ asked' = asked \ {b}
          /\ delivery' = [delivery EXCEPT ![b] = @ \cup Matches(b)]
      BY <1>8 DEF AnswerBlob
    <2>2. \A c \in Blobs : delivery[c] \subseteq delivery'[c]
      BY <1>0, <2>1 DEF TypeOK
    <2>3. last[p] = b => p \in delivery'[b]
      BY <1>0, <2>1 DEF TypeOK, Matches
    <2> QED
      BY <1>2, <2>1, <2>2, <2>3
  <1>9. ASSUME NEW b \in Blobs, DropAnswer(b) \/ NoAnswer(b) PROVE FALSE
    BY <1>9 DEF DropAnswer, NoAnswer, Unhelped
  <1>10. ASSUME NEW b \in Blobs, WriteBlob(b)
         PROVE  \/ at' # 0 /\ at' <= p /\ snap'[p] # NoBlob
                \/ last'[p] \in asked'
                \/ \E c \in Blobs : p \in delivery'[c]
    <2>1. /\ UNCHANGED <<online, due, connecting, row, last, at, snap, asked>> /\ amiss \cap Unhelped = {}
          /\ delivery' = [delivery EXCEPT ![b] = @ \ {Min(delivery[b])}]
          /\ file' = [file EXCEPT ![Min(delivery[b])] = b]
      BY <1>10 DEF WriteBlob
    <2>2. p # Min(delivery[b])
      BY <1>0, <2>1, PluginBlobsAssumption DEF TypeOK
    <2>3. \A c \in Blobs : p \in delivery[c] => p \in delivery'[c]
      BY <1>0, <2>1, <2>2 DEF TypeOK
    <2> QED
      BY <1>2, <2>1, <2>3
  <1> QED
    BY <1>3, <1>4, <1>5, <1>6, <1>7, <1>8, <1>9, <1>10, NextSplits DEF Fetches, Pass

-----------------------------------------------------------------------------
(* Agreement *)

\* A file that has a row, or whose row lastProjection has, keeps it.
RowsStay ==
  /\ \A p \in Files : last[p] # NoBlob => row[p] # NoBlob
  /\ \A b \in Blobs : \A p \in delivery[b] : row[p] # NoBlob

\* A row that changed is going to be walked over.
RowsAreWalked == last = row \/ due \/ connecting

\* ingestNewFile is about the file.
Ingesting(p) == \E c \in Calls : call[c].path = p /\ call[c].named = NoBlob

\* A file without a row is about to be scanned, or read for its row.
UnlistedAreUnderWay ==
  /\ scanning # {} => connecting
  /\ \A p \in scanning : file[p] # NoBlob
  /\ \A p \in Files : file[p] # NoBlob /\ row[p] = NoBlob =>
       ~online \/ p \in scanning \/ taken[p] # NoBlob \/ Ingesting(p)

\* onFileModify is going to send what is in the file.
EditedBy(c, p) ==
  call[c].path = p /\ call[c].named \notin {NoBlob, file[p]} /\ call[c].text \in {NoBlob, file[p]}

\* An edit waits for onFileModify, or has a call that sends it.
Editing(p) == p \in unsent /\ (event = p \/ \E c \in Calls : EditedBy(c, p))

\* A walk comes to the row, or the blob comes to the file.
ToBeWritten(p) ==
  \/ at # 0 /\ at < p
  \/ at = p /\ seen # snap[p]
  \/ last[p] \in asked
  \/ \E b \in Blobs : p \in delivery[b]

\* Before any mishap, a file that differs from its row is still ahead of a
\* walk, or its blob is asked for or about to be written, or its edit is under
\* way.
DifferencesAreUnderWay ==
  amiss = {} =>
    \A p \in Files : row[p] # NoBlob /\ file[p] \notin {row[p], NoBlob} =>
      ~online \/ due \/ connecting \/ ToBeWritten(p) \/ Editing(p)

AgreementInv == RowsStay /\ RowsAreWalked /\ UnlistedAreUnderWay /\ DifferencesAreUnderWay

\* Mishaps are not forgotten.
LEMMA AmissGrows == [Next]_vars => amiss \subseteq amiss'
  <1> SUFFICES ASSUME [Next]_vars PROVE amiss \subseteq amiss'
    OBVIOUS
  <1>1. CASE Others
    BY <1>1, Elsewhere
  <1>2. CASE Pass \/ Lose \/ Reconnect
    BY <1>2 DEF Note, Pass, StartPass, EnsureMissing, ReadBinary, EnsureBinaryInSync, Lose, Reconnect
  <1>3. ASSUME NEW b \in Blobs, AnswerBlob(b) \/ DropAnswer(b) \/ NoAnswer(b) \/ WriteBlob(b)
        PROVE  amiss \subseteq amiss'
    BY <1>3 DEF Note, AnswerBlob, DropAnswer, NoAnswer, WriteBlob
  <1> QED
    BY <1>1, <1>2, <1>3, NextSplits DEF Fetches

\* The rows that a step may write: none, or one, to a blob.
LEMMA RowsChange ==
  ASSUME IInv, [Next]_vars
  PROVE  \/ UNCHANGED row
         \/ \E p \in Files, b \in Blobs : row' = [row EXCEPT ![p] = b]
  <1> USE DEF serverVars, scanVars, requestVars, passVars, eventVars
  <1>0. TypeOK /\ ReadFilesStay
    BY DEF IInv
  <1>1. CASE Fetches
    BY <1>1 DEF Fetches, Pass, StartPass, EnsureMissing, ReadBinary, EnsureBinaryInSync, Lose, Reconnect,
                AnswerBlob, DropAnswer, NoAnswer, WriteBlob
  <1>2. ASSUME NEW c \in Calls, RecordModify(c) \/ RecordIngested(c)
        PROVE  UNCHANGED row \/ \E p \in Files, b \in Blobs : row' = [row EXCEPT ![p] = b]
    <2>1. call[c].path \in Files /\ call[c].text \in Blobs
      <3>1. call[c] # Idle /\ call[c].text # NoBlob
        BY <1>2 DEF RecordModify, RecordIngested, Idle
      <3> QED
        BY <1>0, <3>1, CallsAreOfFiles
    <2>2. UNCHANGED row \/ row' = [row EXCEPT ![call[c].path] = call[c].text]
      BY <1>2 DEF RecordModify, SendAndRecord, RecordIngested, CreateBinary
    <2> QED
      BY <2>1, <2>2
  <1>3. ASSUME NEW p \in Files, RecordScanned(p)
        PROVE  UNCHANGED row \/ \E b \in Blobs : row' = [row EXCEPT ![p] = b]
    <2>1. taken[p] \in Blobs
      BY <1>0, <1>3 DEF RecordScanned, TypeOK, Content
    <2> QED
      BY <1>3, <2>1 DEF RecordScanned, CreateBinary
  <1>4. ASSUME NEW c \in Calls, OnFileModify(c) \/ ReadFile(c) PROVE UNCHANGED row
    BY <1>4 DEF OnFileModify, ReadFile
  <1>5. ASSUME NEW p \in Files, NEW b \in Blobs, OthersModify(p, b)
        PROVE  row' = [row EXCEPT ![p] = b]
    BY <1>5 DEF OthersModify
  <1>6. CASE ScanDone \/ UNCHANGED vars
    BY <1>6 DEF ScanDone, vars
  <1>7. ASSUME NEW b \in Blobs, Upload(b) \/ Arrive(b) \/ Refuse(b) PROVE UNCHANGED row
    BY <1>7 DEF Upload, Arrive, Refuse
  <1>8. ASSUME NEW p \in Files, IgnoreEnds(p) \/ ScanFile(p) PROVE UNCHANGED row
    BY <1>8 DEF IgnoreEnds, ScanFile
  <1>9. ASSUME NEW p \in Files, NEW b \in Blobs, UserModifies(p, b) PROVE UNCHANGED row
    BY <1>9 DEF UserModifies
  <1>10. ASSUME NEW p \in Files, NEW b \in Blobs, NEW c \in Calls, UserCreates(c, p, b)
         PROVE  UNCHANGED row
    BY <1>10 DEF UserCreates
  <1> QED
    BY <1>1, <1>2, <1>3, <1>4, <1>5, <1>6, <1>7, <1>8, <1>9, <1>10, NextSplits DEF Others

\* Rows do not go away, so what lastProjection had still has one.
LEMMA RowsStayNext == IInv /\ RowsStay /\ [Next]_vars => RowsStay'
  <1> SUFFICES ASSUME IInv, RowsStay, [Next]_vars PROVE RowsStay'
    OBVIOUS
  <1> USE DEF serverVars, scanVars, requestVars, passVars, eventVars
  <1>0. TypeOK
    BY DEF IInv
  <1>1. ASSUME NEW p \in Files, row[p] # NoBlob PROVE row'[p] # NoBlob
    BY <1>0, <1>1, RowsChange, PluginBlobsAssumption DEF TypeOK
  <1>2. CASE UNCHANGED <<last, delivery>>
    <2>1. \A b \in Blobs : delivery[b] \subseteq Files
      BY <1>0 DEF TypeOK
    <2> QED
      BY <1>1, <1>2, <2>1 DEF RowsStay
  <1>3. CASE Others
    BY <1>2, <1>3, Elsewhere
  <1>4. CASE StartPass
    BY <1>0, <1>4 DEF StartPass, RowsStay
  <1>5. CASE EnsureMissing \/ ReadBinary \/ EnsureBinaryInSync \/ Lose \/ Reconnect
    BY <1>2, <1>5 DEF EnsureMissing, ReadBinary, EnsureBinaryInSync, Lose, Reconnect
  <1>6. ASSUME NEW b \in Blobs, AnswerBlob(b) PROVE RowsStay'
    <2>1. delivery' = [delivery EXCEPT ![b] = @ \cup Matches(b)] /\ UNCHANGED <<row, last>>
      BY <1>6 DEF AnswerBlob
    <2>2. \A p \in Matches(b) : row[p] # NoBlob
      BY PluginBlobsAssumption DEF Matches, RowsStay
    <2> QED
      BY <1>0, <2>1, <2>2 DEF TypeOK, RowsStay
  <1>7. ASSUME NEW b \in Blobs, DropAnswer(b) \/ NoAnswer(b) PROVE RowsStay'
    BY <1>2, <1>7 DEF DropAnswer, NoAnswer
  <1>8. ASSUME NEW b \in Blobs, WriteBlob(b) PROVE RowsStay'
    <2>1. delivery' = [delivery EXCEPT ![b] = @ \ {Min(delivery[b])}] /\ UNCHANGED <<row, last>>
      BY <1>8 DEF WriteBlob
    <2> QED
      BY <1>0, <2>1 DEF TypeOK, RowsStay
  <1> QED
    BY <1>3, <1>4, <1>5, <1>6, <1>7, <1>8, NextSplits DEF Fetches, Pass

\* Whoever changes a row has a reconcile called.
LEMMA WalkedNext == IInv /\ RowsAreWalked /\ [Next]_vars => RowsAreWalked'
  <1> SUFFICES ASSUME IInv, RowsAreWalked, [Next]_vars PROVE RowsAreWalked'
    OBVIOUS
  <1> USE DEF serverVars, scanVars, requestVars, passVars, eventVars, RowsAreWalked
  <1>1. CASE Others
    BY <1>1, Elsewhere
  <1>2. CASE StartPass
    BY <1>2 DEF StartPass
  <1>3. CASE EnsureMissing \/ ReadBinary \/ EnsureBinaryInSync \/ Lose \/ Reconnect
    BY <1>3 DEF EnsureMissing, ReadBinary, EnsureBinaryInSync, NextRow, Lose, Reconnect
  <1>4. ASSUME NEW b \in Blobs, AnswerBlob(b) \/ DropAnswer(b) \/ NoAnswer(b) \/ WriteBlob(b)
        PROVE  RowsAreWalked'
    BY <1>4 DEF AnswerBlob, DropAnswer, NoAnswer, WriteBlob
  <1> QED
    BY <1>1, <1>2, <1>3, <1>4, NextSplits DEF Fetches, Pass

\* A file gets a row once it is read, and is read by the scan of a connection
\* or when it is created or modified.
LEMMA UnlistedNext == IInv /\ RowsStay /\ UnlistedAreUnderWay /\ [Next]_vars => UnlistedAreUnderWay'
  <1> SUFFICES ASSUME IInv, RowsStay, UnlistedAreUnderWay, [Next]_vars PROVE UnlistedAreUnderWay'
    OBVIOUS
  <1> USE DEF serverVars, scanVars, requestVars, passVars, eventVars
  <1>0. TypeOK /\ ReadFilesStay /\ Files \subseteq Nat \ {0}
    BY PluginBlobsAssumption DEF IInv, Files
  <1> DEFINE Unread(p) == file[p] # NoBlob /\ row[p] = NoBlob
             Found(p) == ~online \/ p \in scanning \/ taken[p] # NoBlob \/ Ingesting(p)
  <1>1. /\ scanning # {} => connecting
        /\ \A p \in scanning : p \in Files /\ file[p] # NoBlob /\ file'[p] # NoBlob
        /\ \A p \in Files : Unread(p) => Found(p)
    BY <1>0, FilesStay DEF UnlistedAreUnderWay, TypeOK
  <1>2. ASSUME UNCHANGED <<connecting, scanning, taken, file>>, online' => online,
               \A p \in Files : Ingesting(p) => Ingesting(p)',
               UNCHANGED row \/ \E p \in Files, b \in Blobs : row' = [row EXCEPT ![p] = b]
        PROVE  UnlistedAreUnderWay'
    <2>1. \A p \in Files : row'[p] = NoBlob => row[p] = NoBlob
      BY <1>0, <1>2, PluginBlobsAssumption DEF TypeOK
    <2> QED
      BY <1>1, <1>2, <2>1 DEF UnlistedAreUnderWay
  <1>3. CASE StartPass \/ EnsureMissing \/ ReadBinary \/ EnsureBinaryInSync \/ Lose
    BY <1>2, <1>3 DEF StartPass, EnsureMissing, ReadBinary, EnsureBinaryInSync, Lose, Ingesting
  <1>4. CASE Reconnect
    BY <1>1, <1>4 DEF Reconnect, Unlisted, UnlistedAreUnderWay, Ingesting
  <1>5. ASSUME NEW b \in Blobs, 
               \/ AnswerBlob(b) \/ DropAnswer(b) \/ NoAnswer(b)
               \/ Upload(b) \/ Arrive(b) \/ Refuse(b)
        PROVE  UnlistedAreUnderWay'
    BY <1>2, <1>5 DEF AnswerBlob, DropAnswer, NoAnswer, Upload, Arrive, Refuse, Ingesting
  <1>6. ASSUME NEW b \in Blobs, WriteBlob(b) PROVE UnlistedAreUnderWay'
    <2>1. /\ UNCHANGED <<connecting, scanning, taken, online, row, call>>
          /\ file' = [file EXCEPT ![Min(delivery[b])] = b]
      BY <1>6 DEF WriteBlob
    <2>2. row[Min(delivery[b])] # NoBlob /\ Min(delivery[b]) \in Files
      BY <1>0, <1>6, DeliveredRow DEF WriteBlob, RowsStay
    <2>3. \A p \in Files : Unread(p)' => Unread(p)
      BY <1>0, <2>1, <2>2 DEF TypeOK
    <2> QED
      BY <1>1, <2>1, <2>3 DEF UnlistedAreUnderWay, Ingesting
  <1>7. ASSUME NEW c \in Calls, NEW p \in Files, call[c] = Idle,
               call' = call \/ call'[c].path = p, \A d \in Calls \ {c} : call'[d] = call[d]
        PROVE  \A q \in Files : Ingesting(q) => Ingesting(q)'
    <2>1. \A q \in Files : q # 0
      BY <1>0
    <2> QED
      BY <1>7, <2>1 DEF Ingesting, Idle
  <1>19. ASSUME NEW c \in Calls, OnFileModify(c) PROVE UnlistedAreUnderWay'
    <2>1. UNCHANGED <<connecting, scanning, taken, online, row, file>> /\ event \in Files /\ call[c] = Idle
      BY <1>0, <1>19, PluginBlobsAssumption DEF OnFileModify, TypeOK, Files
    <2>2. /\ call' = call \/ call'[c].path = event
          /\ \A d \in Calls \ {c} : call'[d] = call[d]
      BY <1>0, <1>19, <2>1 DEF OnFileModify, BeginIngest, TypeOK, Idle
    <2>3. \A q \in Files : Ingesting(q) => Ingesting(q)'
      BY <1>7, <2>1, <2>2
    <2> QED
      BY <1>2, <2>1, <2>3
  <1>20. ASSUME NEW c \in Calls, ReadFile(c) PROVE UnlistedAreUnderWay'
    <2>1. /\ UNCHANGED <<connecting, scanning, taken, online, row, file>>
          /\ \/ call' = [call EXCEPT ![c] = Idle] /\ call[c].named # NoBlob
             \/ call' = [call EXCEPT ![c].text = file[call[c].path]]
      BY <1>20 DEF ReadFile
    <2>2. \A q \in Files : Ingesting(q) => Ingesting(q)'
      <3>1. \A d \in Calls : call[d].named = NoBlob => call'[d].path = call[d].path /\ call'[d].named = NoBlob
        BY <1>0, <2>1 DEF TypeOK, Call
      <3> QED
        BY <3>1 DEF Ingesting
    <2> QED
      BY <1>2, <2>1, <2>2
  <1>8. CASE ScanDone
    BY <1>1, <1>8 DEF ScanDone, UnlistedAreUnderWay, Ingesting
  <1>9. ASSUME NEW p \in Files, ScanFile(p) PROVE UnlistedAreUnderWay'
    <2>1. /\ UNCHANGED <<connecting, online, row, file, call>> /\ p \in scanning
          /\ scanning' = scanning \ {p}
          /\ taken' = [taken EXCEPT ![p] = file[p]]
      BY <1>9 DEF ScanFile
    <2>2. \A q \in Files : Found(q) => Found(q)'
      BY <1>0, <1>1, <2>1 DEF TypeOK, Ingesting
    <2> QED
      BY <1>1, <2>1, <2>2 DEF UnlistedAreUnderWay
  <1>10. ASSUME NEW p \in Files, UNCHANGED <<connecting, scanning, online, file>>,
                \A q \in Files \ {p} : row'[q] = row[q] /\ taken'[q] = taken[q],
                \A q \in Files \ {p} : Ingesting(q) => Ingesting(q)',
                row'[p] # NoBlob \/ (~online /\ UNCHANGED row)
         PROVE  UnlistedAreUnderWay'
    <2>1. ASSUME NEW q \in Files \ {p}, Unread(q)' PROVE Found(q)'
      BY <1>1, <1>10, <2>1
    <2>2. Unread(p)' => ~online'
      BY <1>10
    <2> QED
      BY <1>1, <1>10, <2>1, <2>2 DEF UnlistedAreUnderWay
  <1>11. ASSUME NEW p \in Files, RecordScanned(p) PROVE UnlistedAreUnderWay'
    <2>1. UNCHANGED <<connecting, scanning, online, file, call>>
      BY <1>11 DEF RecordScanned
    <2>2. \A q \in Files \ {p} : row'[q] = row[q] /\ taken'[q] = taken[q]
      BY <1>0, <1>11 DEF RecordScanned, CreateBinary, TypeOK
    <2>3. row'[p] # NoBlob
      BY <1>0, <1>11 DEF RecordScanned, CreateBinary, TypeOK
    <2> QED
      BY <1>10, <2>1, <2>2, <2>3 DEF Ingesting
  <1>12. ASSUME NEW c \in Calls, RecordIngested(c) PROVE UnlistedAreUnderWay'
    <2> DEFINE p == call[c].path
    <2>1. p \in Files /\ call[c].text \in Blobs /\ call[c].text # NoBlob
      <3>1. call[c] # Idle /\ call[c].text # NoBlob
        BY <1>12 DEF RecordIngested, Idle
      <3> QED
        BY <1>0, <3>1, CallsAreOfFiles
    <2>2. UNCHANGED <<connecting, scanning, taken, online, file>> /\ call' = [call EXCEPT ![c] = Idle]
      BY <1>12 DEF RecordIngested
    <2>3. CreateBinary(p, call[c].text) \/ (~online /\ UNCHANGED row)
      BY <1>12 DEF RecordIngested
    <2> HIDE DEF p
    <2>4. row'[p] # NoBlob \/ (~online /\ UNCHANGED row)
      BY <1>0, <2>1, <2>3 DEF CreateBinary, TypeOK
    <2>5. \A q \in Files \ {p} : row'[q] = row[q]
      BY <1>0, <2>1, <2>3 DEF CreateBinary, TypeOK
    <2>6. \A q \in Files \ {p} : Ingesting(q) => Ingesting(q)'
      <3>1. \A d \in Calls : call[d].path # p => call'[d] = call[d]
        BY <1>0, <2>2 DEF TypeOK, p
      <3> QED
        BY <3>1 DEF Ingesting
    <2> QED
      BY <1>10, <2>1, <2>2, <2>4, <2>5, <2>6
  <1>13. ASSUME NEW c \in Calls, RecordModify(c) PROVE UnlistedAreUnderWay'
    <2>1. /\ UNCHANGED <<connecting, scanning, taken, online, file>>
          /\ call' = [call EXCEPT ![c] = Idle] /\ call[c].named # NoBlob
      BY <1>13 DEF RecordModify
    <2>2. \A q \in Files : Ingesting(q) => Ingesting(q)'
      <3>1. \A d \in Calls : call[d].named = NoBlob => call'[d] = call[d]
        BY <1>0, <2>1 DEF TypeOK
      <3> QED
        BY <3>1 DEF Ingesting
    <2> QED
      BY <1>2, <2>1, <2>2, RowsChange
  <1>14. ASSUME NEW p \in Files, IgnoreEnds(p) PROVE UnlistedAreUnderWay'
    BY <1>2, <1>14 DEF IgnoreEnds, Ingesting
  <1>15. ASSUME NEW p \in Files, NEW b \in Blobs, UserModifies(p, b) PROVE UnlistedAreUnderWay'
    <2>1. /\ UNCHANGED <<connecting, scanning, taken, online, row, call>>
          /\ file' = [file EXCEPT ![p] = b] /\ file[p] # NoBlob
      BY <1>15 DEF UserModifies
    <2>2. \A q \in Files : Unread(q)' => Unread(q)
      BY <1>0, <2>1 DEF TypeOK
    <2> QED
      BY <1>1, <2>1, <2>2 DEF UnlistedAreUnderWay, Ingesting
  <1>16. ASSUME NEW p \in Files, NEW b \in Blobs, NEW c \in Calls, UserCreates(c, p, b)
         PROVE  UnlistedAreUnderWay'
    <2>1. /\ UNCHANGED <<connecting, scanning, taken, online, row>>
          /\ file' = [file EXCEPT ![p] = b] /\ b # NoBlob /\ call[c] = Idle
          /\ \/ call' = [call EXCEPT ![c] = [path |-> p, named |-> NoBlob, text |-> NoBlob]]
             \/ call' = call /\ row[p] # NoBlob
      BY <1>16, PluginBlobsAssumption DEF UserCreates, BeginIngest
    <2>2. \A q \in Files : Ingesting(q) => Ingesting(q)'
      <3>1. /\ call' = call \/ call'[c].path = p
            /\ \A d \in Calls \ {c} : call'[d] = call[d]
        BY <1>0, <2>1 DEF TypeOK, Idle
      <3> QED
        BY <1>7, <2>1, <3>1
    <2>3. row[p] = NoBlob => Ingesting(p)'
      <3>1. row[p] = NoBlob => call'[c].path = p /\ call'[c].named = NoBlob
        BY <1>0, <2>1 DEF TypeOK, Idle
      <3> QED
        BY <3>1 DEF Ingesting
    <2>4. \A q \in Files : q # p => file'[q] = file[q]
      BY <1>0, <2>1 DEF TypeOK
    <2>5. \A q \in Files : Unread(q)' => Found(q)'
      BY <1>1, <2>1, <2>2, <2>3, <2>4
    <2> QED
      BY <1>1, <2>1, <2>5 DEF UnlistedAreUnderWay
  <1>17. ASSUME NEW p \in Files, NEW b \in Blobs, OthersModify(p, b) PROVE UnlistedAreUnderWay'
    BY <1>2, <1>17, RowsChange DEF OthersModify, Ingesting
  <1>18. CASE UNCHANGED vars
    BY <1>2, <1>18 DEF vars, Ingesting
  <1> QED
    BY <1>3, <1>4, <1>5, <1>6, <1>8, <1>9, <1>11, <1>12, <1>13, <1>14, <1>15, <1>16, <1>17, <1>18, <1>19,
       <1>20
    DEF Next, Pass

\* Each step leaves a difference under way: a walk that passes it asks for its
\* blob, an answer goes to every row that wants it, and an edit is lost only
\* with a mishap.
LEMMA DifferencesNext ==
  IInv /\ RowsAreWalked /\ RowsAreWalked' /\ DifferencesAreUnderWay /\ [Next]_vars => DifferencesAreUnderWay'
  <1> SUFFICES ASSUME IInv, RowsAreWalked, RowsAreWalked', DifferencesAreUnderWay, [Next]_vars, amiss' = {},
                      NEW p \in Files, row'[p] # NoBlob, file'[p] \notin {row'[p], NoBlob},
                      online', ~due', ~connecting'
               PROVE  ToBeWritten(p)' \/ Editing(p)'
    BY DEF DifferencesAreUnderWay
  <1> USE DEF serverVars, scanVars, requestVars, passVars, eventVars
  <1>0. /\ TypeOK /\ WalksKnowRows /\ AwaitedAreAsked /\ ReadFilesStay
        /\ amiss = {} /\ last' = row'
    BY AmissGrows DEF IInv, RowsAreWalked
  <1>1. N \in Nat /\ p \in Nat /\ p > 0 /\ at \in Nat /\ snap \in [Files -> Content] /\ NoBlob \notin Blobs
    BY <1>0, PluginBlobsAssumption DEF TypeOK, Files
  <1>2. ASSUME online, ~due, ~connecting, row[p] # NoBlob, file[p] # row[p]
        PROVE  ToBeWritten(p) \/ (Editing(p) /\ file[p] # NoBlob)
    <2>1. CASE file[p] = NoBlob
      <3>1. \/ at # 0 /\ at <= p /\ snap[p] # NoBlob
            \/ last[p] \in asked
            \/ \E b \in Blobs : p \in delivery[b]
        BY <1>0, <1>2, <2>1 DEF IInv, MissingAreUnderWay
      <3>2. at = p => seen = NoBlob
        BY <1>0, <2>1 DEF ReadFilesStay
      <3> QED
        BY <1>1, <3>1, <3>2 DEF ToBeWritten
    <2>2. CASE file[p] # NoBlob
      BY <1>0, <1>2, <2>2 DEF DifferencesAreUnderWay
    <2> QED
      BY <2>1, <2>2
  <1>3. CASE Others
    <2>1. /\ UNCHANGED <<last, online, asked, at, snap, seen, delivery, row>>
          /\ online /\ ~due /\ ~connecting
      BY <1>3, Elsewhere
    <2>2. ToBeWritten(p) => ToBeWritten(p)'
      BY <2>1 DEF ToBeWritten
    <2>3. last[p] = row[p] /\ row[p] # NoBlob
      BY <1>0, <2>1
    <2>4. ASSUME UNCHANGED <<file, event>>, p \in unsent => p \in unsent',
                 \A c \in Calls : EditedBy(c, p) => EditedBy(c, p)'
          PROVE  ToBeWritten(p)' \/ Editing(p)'
      BY <1>2, <2>1, <2>2, <2>3, <2>4 DEF Editing
    <2>5. ASSUME NEW c \in Calls, OnFileModify(c)
          PROVE  ToBeWritten(p)' \/ Editing(p)'
      <3>1. UNCHANGED <<file, unsent>> /\ call[c] = Idle
        BY <2>5 DEF OnFileModify
      <3>2. ASSUME NEW d \in Calls, EditedBy(d, p) PROVE EditedBy(d, p)'
        <4>1. d # c
          BY <1>1, <3>1, <3>2 DEF EditedBy, Idle
        <4>2. call'[d] = call[d]
          BY <1>0, <2>5, <4>1 DEF OnFileModify, BeginIngest, TypeOK
        <4> QED
          BY <3>1, <3>2, <4>2 DEF EditedBy
      <3>3. CASE event = p /\ p \in unsent
        <4>1. p \notin ignoring
          BY <1>0, <2>5, <3>3 DEF OnFileModify, Note, When
        <4>2. call' = [call EXCEPT ![c] = [path |-> p, named |-> last[p], text |-> NoBlob]]
          BY <2>3, <2>5, <3>3, <4>1 DEF OnFileModify
        <4>3. call'[c].path = p /\ call'[c].named = row[p] /\ call'[c].text = NoBlob
          BY <1>0, <2>3, <3>1, <4>2 DEF TypeOK, Call, Idle
        <4>4. EditedBy(c, p)'
          BY <2>1, <2>3, <3>1, <4>3 DEF EditedBy
        <4> QED
          BY <3>1, <3>3, <4>4 DEF Editing
      <3> QED
        BY <1>2, <2>1, <2>2, <2>3, <3>1, <3>2, <3>3 DEF Editing
    <2>6. ASSUME NEW d \in Calls, ReadFile(d)
          PROVE  ToBeWritten(p)' \/ Editing(p)'
      <3>1. UNCHANGED <<file, event, unsent>>
        BY <2>6 DEF ReadFile
      <3>2. ASSUME NEW c \in Calls, EditedBy(c, p), p \in unsent PROVE EditedBy(c, p)'
        <4>1. CASE c # d
          <5>1. call'[c] = call[c]
            BY <1>0, <2>6, <4>1 DEF ReadFile, TypeOK
          <5> QED
            BY <3>1, <3>2, <5>1 DEF EditedBy
        <4>2. CASE c = d
          <5>1. call' = [call EXCEPT ![c].text = file[p]]
            BY <1>0, <2>6, <3>2, <4>2 DEF ReadFile, EditedBy, Note, When
          <5>2. call'[c].path = p /\ call'[c].named = call[c].named /\ call'[c].text = file[p]
            BY <1>0, <3>2, <5>1 DEF TypeOK, Call, EditedBy
          <5> QED
            BY <3>1, <3>2, <5>2 DEF EditedBy
        <4> QED
          BY <4>1, <4>2
      <3> QED
        BY <1>2, <2>1, <2>2, <2>3, <3>1, <3>2 DEF Editing
    <2>7. CASE ScanDone \/ UNCHANGED vars
      BY <2>4, <2>7 DEF ScanDone, vars, EditedBy
    <2>8. ASSUME NEW b \in Blobs, Upload(b) \/ Arrive(b) \/ Refuse(b)
          PROVE  ToBeWritten(p)' \/ Editing(p)'
      BY <2>4, <2>8 DEF Upload, Arrive, Refuse, EditedBy
    <2>9. ASSUME NEW q \in Files, IgnoreEnds(q) \/ ScanFile(q)
          PROVE  ToBeWritten(p)' \/ Editing(p)'
      BY <2>4, <2>9 DEF IgnoreEnds, ScanFile, EditedBy
    <2>10. ASSUME NEW q \in Files, Publishes(q), UNCHANGED file
           PROVE  p \in unsent => p \in unsent'
      BY <2>1, <2>10 DEF Publishes
    <2>11. ASSUME NEW q \in Files, RecordScanned(q)
           PROVE  ToBeWritten(p)' \/ Editing(p)'
      <3>1. Publishes(q) /\ UNCHANGED <<file, event, call>>
        BY <2>11 DEF RecordScanned, CreateBinary
      <3> QED
        BY <2>4, <2>10, <3>1 DEF EditedBy
    <2>15. ASSUME NEW d \in Calls, RecordModify(d) \/ RecordIngested(d)
           PROVE  ToBeWritten(p)' \/ Editing(p)'
      <3>1. /\ UNCHANGED <<file, event>> /\ call' = [call EXCEPT ![d] = Idle]
            /\ Publishes(call[d].path) \/ UNCHANGED unsent
        BY <2>15 DEF RecordModify, RecordIngested, CreateBinary
      <3>2. call[d].text # NoBlob /\ call[d].named \in {NoBlob, call[d].text}
        BY <1>0, <2>1, <2>15 DEF RecordModify, RecordIngested, SendAndRecord, Note, When
      <3>3. call[d].path \in Files
        <4>1. call[d] # Idle
          BY <3>2 DEF Idle
        <4> QED
          BY <1>0, <4>1, CallsAreOfFiles
      <3>4. p \in unsent => p \in unsent'
        BY <2>10, <3>1, <3>3
      <3>5. ASSUME NEW c \in Calls, EditedBy(c, p) PROVE EditedBy(c, p)'
        <4>1. c # d
          BY <3>2, <3>5 DEF EditedBy
        <4>2. call'[c] = call[c]
          BY <1>0, <3>1, <4>1 DEF TypeOK
        <4> QED
          BY <3>1, <3>5, <4>2 DEF EditedBy
      <3> QED
        BY <2>4, <3>1, <3>4, <3>5
    <2>12. ASSUME NEW q \in Files, NEW b \in Blobs, UserModifies(q, b)
           PROVE  ToBeWritten(p)' \/ Editing(p)'
      <3>1. /\ file' = [file EXCEPT ![q] = b] /\ unsent' = unsent \cup {q} /\ event' = q
            /\ ~(event \in unsent \ {q}) /\ UNCHANGED call
        BY <1>0, <2>12 DEF UserModifies, Note, When
      <3>2. CASE q = p
        BY <3>1, <3>2 DEF Editing
      <3>3. CASE q # p
        <4>1. file'[p] = file[p]
          BY <1>0, <3>1, <3>3 DEF TypeOK
        <4>2. \A c \in Calls : EditedBy(c, p) => EditedBy(c, p)'
          BY <3>1, <4>1 DEF EditedBy
        <4> QED
          BY <1>2, <2>1, <2>2, <2>3, <3>1, <3>3, <4>1, <4>2 DEF Editing
      <3> QED
        BY <3>2, <3>3
    <2>13. ASSUME NEW q \in Files, NEW b \in Blobs, NEW d \in Calls, UserCreates(d, q, b)
           PROVE  ToBeWritten(p)' \/ Editing(p)'
      <3>1. /\ file' = [file EXCEPT ![q] = b] /\ unsent \subseteq unsent' /\ file[q] = NoBlob
            /\ UNCHANGED event /\ call[d] = Idle
        BY <2>13 DEF UserCreates
      <3>2. CASE q = p
        BY <1>2, <2>1, <2>2, <2>3, <3>1, <3>2
      <3>3. CASE q # p
        <4>1. file'[p] = file[p]
          BY <1>0, <3>1, <3>3 DEF TypeOK
        <4>2. ASSUME NEW c \in Calls, EditedBy(c, p) PROVE EditedBy(c, p)'
          <5>1. c # d
            BY <1>1, <3>1, <4>2 DEF EditedBy, Idle
          <5>2. call'[c] = call[c]
            BY <1>0, <2>13, <5>1 DEF UserCreates, BeginIngest, TypeOK
          <5> QED
            BY <4>1, <4>2, <5>2 DEF EditedBy
        <4> QED
          BY <1>2, <2>1, <2>2, <2>3, <3>1, <4>1, <4>2 DEF Editing
      <3> QED
        BY <3>2, <3>3
    <2>14. ASSUME NEW q \in Files, NEW b \in Blobs, OthersModify(q, b) PROVE FALSE
      BY <2>14 DEF OthersModify
    <2> QED
      BY <1>3, <2>5, <2>6, <2>7, <2>8, <2>9, <2>11, <2>12, <2>13, <2>14, <2>15 DEF Others
  <1>4. CASE StartPass
    <2>1. /\ row \in [Files -> Content] /\ row[p] # NoBlob
          /\ at' = RowAfter(0, row) /\ snap' = row /\ seen' = NoBlob
      BY <1>0, <1>4 DEF StartPass, TypeOK
    <2>2. at' \in 0..N /\ at' # 0 /\ at' <= p
      BY <1>1, <2>1, NextRowIsNext
    <2>3. at' < p \/ at' = p
      BY <1>1, <2>2
    <2> QED
      BY <2>1, <2>2, <2>3 DEF ToBeWritten
  <1>5. CASE ReadBinary
    <2>1. UNCHANGED <<row, last, online, due, connecting, asked, at, snap, delivery, file, event, call, unsent>>
      BY <1>5 DEF ReadBinary
    <2>2. at = p => seen' = file[p] /\ snap[p] = row[p]
      BY <1>0, <1>5, <2>1 DEF ReadBinary, WalksKnowRows
    <2>3. ToBeWritten(p) \/ Editing(p)
      BY <1>2, <2>1
    <2> QED
      BY <2>1, <2>2, <2>3 DEF ToBeWritten, Editing, EditedBy
  <1>6. CASE EnsureMissing \/ EnsureBinaryInSync
    <2>1. at # 0 /\ NextRow
      BY <1>6 DEF EnsureMissing, EnsureBinaryInSync
    <2>2. UNCHANGED <<row, last, online, due, connecting, snap, delivery, file, event, call, unsent>>
      BY <1>6 DEF EnsureMissing, EnsureBinaryInSync, NextRow
    <2>3. asked \subseteq asked'
      <3>1. PICK b \in Blobs : RequestMissing(b) \/ TryRequestBlob(b) \/ UNCHANGED requestVars
        BY <1>0, <1>6 DEF EnsureMissing, EnsureBinaryInSync, WalksKnowRows
      <3> QED
        BY <1>0, <3>1, RequestTypes
    <2>4. ToBeWritten(p) \/ Editing(p)
      BY <1>2, <2>2
    <2>5. snap[p] # NoBlob /\ snap[p] = last[p]
      BY <1>0, <2>2 DEF WalksKnowRows
    <2>6. Editing(p) => Editing(p)'
      BY <2>2 DEF Editing, EditedBy
    <2>7. CASE at < p
      <3>1. at' # 0 /\ at' <= p /\ at' \in 0..N
        BY <1>1, <2>1, <2>5, <2>7, NextRowIsNext DEF NextRow
      <3>2. at' < p \/ at' = p
        BY <1>1, <3>1
      <3>3. seen' = NoBlob /\ snap'[p] # NoBlob
        BY <2>1, <2>2, <2>5 DEF NextRow
      <3> QED
        BY <3>1, <3>2, <3>3 DEF ToBeWritten
    <2>8. CASE at = p /\ seen # snap[p]
      <3>1. EnsureBinaryInSync
        BY <1>6, <2>2, <2>8 DEF EnsureMissing
      <3>2. TryRequestBlob(last[p]) /\ ~(last[p] \in requested \ asked /\ p \notin delivery[last[p]])
        BY <1>0, <2>5, <2>8, <3>1 DEF EnsureBinaryInSync, Note, When
      <3>3. last[p] \in Blobs
        BY <1>0, <2>5, <2>8 DEF WalksKnowRows, TypeOK, Content
      <3>4. CASE last[p] \in requested
        BY <2>2, <2>3, <3>2, <3>3, <3>4 DEF ToBeWritten
      <3>5. CASE last[p] \notin requested
        <4>1. last[p] \in asked'
          BY <1>0, <2>2, <3>2, <3>5 DEF TryRequestBlob, RequestBlob, AwaitedAreAsked
        <4> QED
          BY <2>2, <4>1 DEF ToBeWritten
      <3> QED
        BY <3>4, <3>5
    <2>9. CASE last[p] \in asked \/ \E b \in Blobs : p \in delivery[b]
      BY <2>2, <2>3, <2>9 DEF ToBeWritten
    <2> QED
      BY <2>4, <2>6, <2>7, <2>8, <2>9 DEF ToBeWritten
  <1>7. CASE Lose \/ Reconnect
    BY <1>7 DEF Lose, Reconnect
  <1>8. ASSUME NEW b \in Blobs, AnswerBlob(b) PROVE ToBeWritten(p)' \/ Editing(p)'
    <2>1. /\ UNCHANGED <<row, last, online, due, connecting, at, seen, snap, file, event, call, unsent>>
          /\ asked' = asked \ {b}
          /\ delivery' = [delivery EXCEPT ![b] = @ \cup Matches(b)]
      BY <1>8 DEF AnswerBlob
    <2>2. \A c \in Blobs : delivery[c] \subseteq delivery'[c]
      BY <1>0, <2>1 DEF TypeOK
    <2>3. last[p] = b => p \in delivery'[b]
      BY <1>0, <2>1 DEF TypeOK, Matches
    <2>4. ToBeWritten(p) \/ Editing(p)
      BY <1>2, <2>1
    <2>5. Editing(p) => Editing(p)'
      BY <2>1 DEF Editing, EditedBy
    <2>6. ToBeWritten(p) => ToBeWritten(p)'
      BY <2>1, <2>2, <2>3 DEF ToBeWritten
    <2> QED
      BY <2>4, <2>5, <2>6
  <1>9. ASSUME NEW b \in Blobs, DropAnswer(b) \/ NoAnswer(b) PROVE FALSE
    BY <1>0, <1>9 DEF DropAnswer, NoAnswer, Note
  <1>10. ASSUME NEW b \in Blobs, WriteBlob(b) PROVE ToBeWritten(p)' \/ Editing(p)'
    <2> DEFINE q == Min(delivery[b])
    <2>1. q \in Files
      BY <1>0, <1>10, DeliveredRow DEF WriteBlob
    <2>2. /\ UNCHANGED <<row, last, online, due, connecting, at, seen, snap, asked, call>>
          /\ delivery' = [delivery EXCEPT ![b] = @ \ {q}]
          /\ file' = [file EXCEPT ![q] = b]
          /\ unsent' = unsent \ {q}
          /\ last[q] = b
          /\ event' = event \/ ~(event \in unsent \ {q})
      BY <1>0, <1>10 DEF WriteBlob, Note, When
    <2> HIDE DEF q
    <2>3. p # q
      BY <1>0, <2>1, <2>2 DEF TypeOK
    <2>4. file'[p] = file[p] /\ \A c \in Blobs : p \in delivery[c] => p \in delivery'[c]
      BY <1>0, <2>2, <2>3 DEF TypeOK
    <2>5. ToBeWritten(p) \/ Editing(p)
      BY <1>2, <2>2, <2>4
    <2>6. Editing(p) => Editing(p)'
      BY <2>2, <2>3, <2>4 DEF Editing, EditedBy
    <2>7. ToBeWritten(p) => ToBeWritten(p)'
      BY <2>2, <2>4 DEF ToBeWritten
    <2> QED
      BY <2>5, <2>6, <2>7
  <1> QED
    BY <1>3, <1>4, <1>5, <1>6, <1>7, <1>8, <1>9, <1>10, NextSplits DEF Fetches, Pass

-----------------------------------------------------------------------------
(* The theorems *)

\* The inductive invariant.
THEOREM Inductive == Spec => []IInv
  <1>1. ASSUME Init PROVE IInv
    <2> USE PluginBlobsAssumption
    <2>1. TypeOK
      <3>1. /\ row \in [Files -> Content] /\ last \in [Files -> Content]
            /\ file \in [Files -> Content] /\ snap \in [Files -> Content]
            /\ taken \in [Files -> Content]
            /\ delivery \in [Blobs -> SUBSET Files]
            /\ call \in [Calls -> Call]
        BY <1>1 DEF Init, Content, Call, Idle
      <3>2. stored \subseteq Blobs
        BY <1>1 DEF Init, Content
      <3>3. scanning \subseteq Files /\ unsent \subseteq Files
        BY <1>1 DEF Init, Unlisted
      <3>4. /\ promised \subseteq Blobs /\ sent \subseteq Blobs
            /\ online \in BOOLEAN /\ connecting \in BOOLEAN /\ due \in BOOLEAN
            /\ requested \subseteq Blobs /\ awaited \subseteq Blobs /\ asked \subseteq awaited
            /\ ignoring \subseteq Files /\ amiss \subseteq Mishaps
        BY <1>1, Zenon DEF Init
      <3>5. at \in 0..N /\ event \in 0..N /\ seen \in Content /\ moves \in Nat
        BY <1>1 DEF Init, Content
      <3> QED
        BY <3>1, <3>2, <3>3, <3>4, <3>5 DEF TypeOK
    <2>2. RowsHaveBlobs
      BY <1>1 DEF Init, RowsHaveBlobs, Content
    <2>3. WalksKnowRows /\ ReadFilesStay /\ AwaitedAreAsked /\ MissingAreUnderWay
      BY <1>1 DEF Init, WalksKnowRows, ReadFilesStay, AwaitedAreAsked, MissingAreUnderWay
    <2> QED
      BY <2>1, <2>2, <2>3 DEF IInv
  <1>2. IInv /\ [Next]_vars => IInv'
    BY TypeNext, RowsNext, WalksNext, ReadNext, AwaitedNext, MissingNext DEF IInv
  <1> QED
    BY <1>1, <1>2, PTL DEF Spec

\* The variables keep their types.
THEOREM TypeCorrect == Spec => []TypeOK
  <1>1. IInv => TypeOK
    BY DEF IInv
  <1> QED
    BY <1>1, Inductive, PTL

\* No row ever names a blob that nobody has, unless the scan ran without a
\* connection, the connection broke under a blob, or the server did not take one.
THEOREM RowsAlwaysHaveBlobs == Spec => []RowsHaveBlobs
  <1>1. IInv => RowsHaveBlobs
    BY DEF IInv
  <1> QED
    BY <1>1, Inductive, PTL

\* When everything has come to rest, no file is missing unless the server gave
\* no answer or one without bytes: whatever was asked for before, lost with a
\* connection, or delivered to other rows.
THEOREM MissingFilesAreFetched == Spec => []MissingFilesCome
  <1>1. IInv => MissingFilesCome
    BY DEF IInv, MissingAreUnderWay, MissingFilesCome, Settled, Unhelped
  <1> QED
    BY <1>1, Inductive, PTL

\* The invariant of agreement, beside the other one.
THEOREM AgreementInductive == Spec => []AgreementInv
  <1>1. ASSUME Init PROVE AgreementInv
    <2> USE PluginBlobsAssumption
    <2>1. RowsStay /\ RowsAreWalked /\ DifferencesAreUnderWay
      BY <1>1 DEF Init, RowsStay, RowsAreWalked, DifferencesAreUnderWay
    <2>2. UnlistedAreUnderWay
      BY <1>1 DEF Init, Unlisted, UnlistedAreUnderWay
    <2> QED
      BY <2>1, <2>2 DEF AgreementInv
  <1>2. IInv /\ AgreementInv /\ [Next]_vars => AgreementInv'
    BY RowsStayNext, WalkedNext, UnlistedNext, DifferencesNext DEF AgreementInv
  <1> QED
    BY <1>1, <1>2, Inductive, PTL DEF Spec

\* When everything has come to rest before any mishap, every file has a row and
\* the blob that its row names.
THEOREM FilesAgree == Spec => []SettlesInAgreement
  <1>1. IInv /\ AgreementInv => SettlesInAgreement
    <2> SUFFICES ASSUME IInv, AgreementInv, Settled, amiss = {} PROVE file = row
      BY DEF SettlesInAgreement
    <2>1. TypeOK /\ ReadFilesStay
      BY DEF IInv
    <2>2. ASSUME NEW p \in Files PROVE file[p] = row[p]
      <3>1. CASE row[p] = NoBlob
        <4>1. ~Ingesting(p)
          BY PluginBlobsAssumption DEF Ingesting, Settled, Idle, Files
        <4> QED
          BY <3>1, <4>1 DEF AgreementInv, UnlistedAreUnderWay, Settled
      <3>2. CASE row[p] # NoBlob /\ file[p] = NoBlob
        BY <3>2 DEF IInv, MissingAreUnderWay, Settled
      <3>3. CASE row[p] # NoBlob /\ file[p] # NoBlob
        <4>1. p # 0
          BY PluginBlobsAssumption DEF Files
        <4>2. ~ToBeWritten(p)
          BY <4>1 DEF ToBeWritten, Settled
        <4>3. ~Editing(p)
          BY <3>3, <4>1 DEF Editing, EditedBy, Settled, Idle
        <4> QED
          BY <3>3, <4>2, <4>3 DEF AgreementInv, DifferencesAreUnderWay, Settled
      <3> QED
        BY <3>1, <3>2, <3>3
    <2> QED
      BY <2>1, <2>2 DEF TypeOK
  <1> QED
    BY <1>1, Inductive, AgreementInductive, PTL
=============================================================================
