----------------------------- MODULE CrashProofs ----------------------------
(***************************************************************************)
(* Proofs about the two components whose promise is about what is on disk  *)
(* when a process stops between two of its writes.                         *)
(*                                                                         *)
(* PluginState, for any bounds: a session that starts from what the last   *)
(* one left on disk never gives a stamp out again.                         *)
(*                                                                         *)
(* ServerMigration, for any documents and number of crashes: the           *)
(* conversion loses nothing, wherever it is interrupted.                   *)
(***************************************************************************)
EXTENDS PluginState, ServerMigration, TLAPS

-----------------------------------------------------------------------------
(* PluginState: its inductive invariant *)

Writer == [phase : {"manifest", "orphan", "lamport"}, value : Stamps]

\* The first writes are completed before the later ones: who still has to
\* write manifest.bin comes after those that have done so.
WritesInOrder ==
  \A j, k \in DOMAIN writers :
    j < k /\ writers[j].phase \in ToManifest => writers[k].phase \in ToManifest

\* A directory as it was left: both files are of one moment.
Whole(root) == root.manifest = root.lamport /\ (~root.there => root.lamport = 0)

\* The last writer decides what the disk will have in the end.
DiskWillBeCurrent ==
  ~debounced =>
    LET last == Len(writers) IN
    IF writers = << >>
      THEN target.manifest = newest /\ target.lamport = clock
      ELSE IF writers[last].phase = "lamport"
        THEN target.manifest = newest /\ writers[last].value = clock
        ELSE writers[last].value = newest

\* Without a mishap, wherever the plugin is, it has the newest stamp there is:
\* in one of the two directories, in stateRoot, or in the client.
NewestIsKept ==
  amiss = {} =>
    /\ ~twice
    /\ Whole(legacy) /\ legacy.lamport <= issued
    /\ phase # "running" => writers = << >> /\ ~debounced
    /\ phase \in {"off", "migrate"} =>
         /\ Whole(target) /\ target.lamport <= issued
         /\ issued \in {legacy.lamport, target.lamport}
    /\ phase = "connect" => Whole(target) /\ target.lamport = issued
    /\ phase = "running" =>
         /\ clock = issued /\ newest = issued
         /\ target.there
         /\ \A i \in DOMAIN writers : writers[i].phase # "orphan"
         /\ DiskWillBeCurrent

IInv == TypeOK /\ WritesInOrder /\ NewestIsKept

-----------------------------------------------------------------------------
(* The operators of the model *)

\* The mishaps are only added to.
LEMMA NoteTypes ==
  ASSUME TypeOK, NEW kinds \in SUBSET Mishaps, Note(kinds)
  PROVE  /\ amiss' \subseteq Mishaps
         /\ amiss' = {} => amiss = {} /\ kinds = {}
  BY DEF Note, TypeOK

\* The queue of writers: a call joins it, one leaves it, one moves on.
LEMMA WriterTypes ==
  ASSUME TypeOK
  PROVE  /\ writers \in Seq(Writer) /\ Len(writers) \in Nat /\ DOMAIN writers = 1..Len(writers)
         /\ \A i \in DOMAIN writers : writers[i] \in Writer
         /\ writers = << >> <=> Len(writers) = 0
  <1>1. writers \in Seq(Writer)
    BY DEF TypeOK, Writer
  <1>2. Len(writers) \in Nat /\ DOMAIN writers = 1..Len(writers)
    BY <1>1
  <1>3. \A i \in DOMAIN writers : writers[i] \in Writer
    BY <1>1, <1>2
  <1>4. writers = << >> <=> Len(writers) = 0
    BY <1>1
  <1> QED
    BY <1>1, <1>2, <1>3, <1>4

\* What Append does to the queue.
LEMMA AppendWriter ==
  ASSUME TypeOK, NEW w \in Writer
  PROVE  LET q == Append(writers, w) IN
         /\ q \in Seq(Writer) /\ Len(q) = Len(writers) + 1 /\ DOMAIN q = 1..(Len(writers) + 1)
         /\ \A i \in DOMAIN writers : q[i] = writers[i]
         /\ q[Len(writers) + 1] = w
  BY WriterTypes

\* What Without does to it.
LEMMA RemoveWriter ==
  ASSUME TypeOK, NEW i \in DOMAIN writers
  PROVE  /\ Without(i) \in Seq(Writer) /\ Len(Without(i)) = Len(writers) - 1
         /\ DOMAIN Without(i) = 1..(Len(writers) - 1)
         /\ \A j \in DOMAIN Without(i) :
              /\ j \in DOMAIN writers /\ j + 1 \in DOMAIN writers
              /\ j < i => Without(i)[j] = writers[j]
              /\ j >= i => Without(i)[j] = writers[j + 1]
  <1>1. Len(writers) \in Nat /\ DOMAIN writers = 1..Len(writers) /\ Len(writers) >= 1
    BY WriterTypes
  <1>2. \A j \in 1..(Len(writers) - 1) : j \in DOMAIN writers /\ j + 1 \in DOMAIN writers
    BY <1>1
  <1>3. \A j \in 1..(Len(writers) - 1) : (IF j < i THEN writers[j] ELSE writers[j + 1]) \in Writer
    BY <1>2, WriterTypes
  <1>4. Without(i) \in [1..(Len(writers) - 1) -> Writer]
    BY <1>3 DEF Without
  <1>5. Len(writers) - 1 \in Nat
    BY <1>1
  <1>6. Without(i) \in Seq(Writer) /\ Len(Without(i)) = Len(writers) - 1
    BY <1>4, <1>5
  <1> QED
    BY <1>1, <1>2, <1>4, <1>6 DEF Without

\* What moving one of them on does to it.
LEMMA ReplaceWriter ==
  ASSUME TypeOK, NEW i \in DOMAIN writers, NEW w \in Writer
  PROVE  LET q == [writers EXCEPT ![i] = w] IN
         /\ q \in Seq(Writer) /\ Len(q) = Len(writers) /\ DOMAIN q = DOMAIN writers
         /\ q[i] = w /\ \A j \in DOMAIN writers \ {i} : q[j] = writers[j]
  <1>1. /\ Len(writers) \in Nat /\ DOMAIN writers = 1..Len(writers)
        /\ writers \in [1..Len(writers) -> Writer]
    BY WriterTypes
  <1>2. [writers EXCEPT ![i] = w] \in [1..Len(writers) -> Writer]
    BY <1>1
  <1> QED
    BY <1>1, <1>2

-----------------------------------------------------------------------------
(* Onload, connect() and the client *)

\* The steps that leave the writers alone.
LEMMA ClientNext ==
  ASSUME IInv, Load \/ SkipMigration \/ Migrate \/ MigrateFails \/ Connect \/ Change \/ Catchup
  PROVE  TypeOK' /\ UNCHANGED writers
  <1> USE PluginStateAssumption
      DEF rootVars, clientVars, writeVars, pastVars, IInv, TypeOK, Stamps, Roots, Absent
  <1>1. CASE Load
    BY <1>1 DEF Load
  <1>2. CASE SkipMigration
    <2>1. amiss' \subseteq Mishaps
      BY <1>2, NoteTypes DEF SkipMigration, When, Mishaps
    <2> QED
      BY <1>2, <2>1 DEF SkipMigration
  <1>3. CASE Migrate
    <2>1. target' \in Roots /\ legacy' \in Roots
      BY <1>3 DEF Migrate
    <2> QED
      BY <1>3, <2>1 DEF Migrate
  <1>4. CASE MigrateFails
    <2>1. amiss' \subseteq Mishaps
      BY <1>4, NoteTypes DEF MigrateFails, When, Mishaps
    <2> QED
      BY <1>4, <2>1 DEF MigrateFails
  <1>5. CASE Connect
    <2>1. amiss' \subseteq Mishaps
      BY <1>5, NoteTypes DEF Connect, Mishaps
    <2>2. target' \in Roots
      BY <1>5 DEF Connect, EnsureStateRoot
    <2>3. target.manifest \in Nat /\ target.manifest <= MaxStamp /\ target.lamport \in 0..MaxStamp
      OBVIOUS
    <2>4. newest' \in 0..MaxStamp /\ clock' \in 0..MaxStamp
      <3>1. CASE newest' = 0 /\ clock' = 0
        BY <3>1
      <3>2. CASE newest' = target.manifest /\ clock' = IF target.manifest = 0 THEN 0 ELSE target.lamport
        BY <2>3, <3>2
      <3> QED
        BY <1>5, <3>1, <3>2 DEF Connect
    <2> QED
      BY <1>5, <2>1, <2>2, <2>4 DEF Connect
  <1>6. CASE Change
    <2>1. clock' \in Stamps /\ newest' \in Stamps /\ issued' \in Stamps /\ twice' \in BOOLEAN
      BY <1>6 DEF Change
    <2> QED
      BY <1>6, <2>1 DEF Change
  <1>7. CASE Catchup
    <2>1. clock' \in Stamps /\ newest' \in Stamps
      BY <1>7 DEF Catchup
    <2> QED
      BY <1>7, <2>1 DEF Catchup
  <1> QED
    BY <1>1, <1>2, <1>3, <1>4, <1>5, <1>6, <1>7

\* Without a mishap they carry the newest stamp on.
LEMMA ClientKeepsNewest ==
  ASSUME IInv, Load \/ SkipMigration \/ Migrate \/ MigrateFails \/ Connect \/ Change \/ Catchup
  PROVE  NewestIsKept'
  <1> SUFFICES ASSUME amiss' = {} PROVE NewestIsKept'
    BY DEF NewestIsKept
  <1> USE PluginStateAssumption DEF rootVars, clientVars, writeVars, pastVars
  <1>0. /\ TypeOK /\ NewestIsKept
        /\ legacy \in Roots /\ target \in Roots /\ issued \in Nat /\ clock \in Nat
        /\ legacy.lamport \in Nat /\ target.lamport \in Nat
    BY DEF IInv, TypeOK, Roots, Stamps
  <1>1. CASE Load
    BY <1>0, <1>1 DEF Load, NewestIsKept, Whole
  <1>2. CASE SkipMigration
    <2>1. amiss = {} /\ When(legacy.there /\ target.there /\ LegacyIsAhead, "unmigrated") = {}
      BY <1>0, <1>2, NoteTypes DEF SkipMigration, When, Mishaps
    <2>2. ~(legacy.there /\ target.there /\ LegacyIsAhead)
      BY <2>1 DEF When
    <2> QED
      BY <1>0, <1>2, <2>1, <2>2 DEF SkipMigration, NothingToMove, LegacyIsAhead, NewestIsKept, Whole
  <1>3. CASE Migrate
    BY <1>0, <1>3 DEF Migrate, NothingToMove, NewestIsKept, Whole, Absent
  <1>4. CASE MigrateFails
    <2>1. amiss = {} /\ When(legacy.there /\ LegacyIsAhead, "unmigrated") = {}
      BY <1>0, <1>4, NoteTypes DEF MigrateFails, When, Mishaps
    <2>2. ~(legacy.there /\ LegacyIsAhead)
      BY <2>1 DEF When
    <2> QED
      BY <1>0, <1>4, <2>1, <2>2 DEF MigrateFails, LegacyIsAhead, NewestIsKept, Whole
  <1>5. CASE Connect
    <2>1. amiss = {}
      BY <1>0, <1>5, NoteTypes DEF Connect, Mishaps
    <2>2. UNCHANGED amiss
      BY <1>5, <2>1 DEF Connect
    <2>3. newest' = target.manifest /\ clock' = IF target.manifest = 0 THEN 0 ELSE target.lamport
      BY <1>0, <1>5, <2>1, NoteTypes DEF Connect, Mishaps
    <2>4. /\ phase = "connect" /\ phase' = "running"
          /\ target' = [target EXCEPT !.there = TRUE]
          /\ UNCHANGED <<legacy, debounced, writers, issued, twice>>
      BY <1>5 DEF Connect, EnsureStateRoot
    <2>5. target'.there /\ target'.manifest = target.manifest /\ target'.lamport = target.lamport
      BY <1>0, <2>4 DEF Roots
    <2>6. writers = << >> /\ target.manifest = issued /\ target.lamport = issued /\ ~debounced /\ ~twice
      BY <1>0, <2>1, <2>4 DEF NewestIsKept, Whole
    <2>7. newest' = issued /\ clock' = issued
      BY <1>0, <2>3, <2>6
    <2>8. DiskWillBeCurrent'
      BY <2>4, <2>5, <2>6, <2>7 DEF DiskWillBeCurrent
    <2>9. \A i \in DOMAIN writers : FALSE
      BY <1>0, <2>6, WriterTypes
    <2> QED
      BY <1>0, <2>1, <2>4, <2>5, <2>6, <2>7, <2>8, <2>9 DEF NewestIsKept, Whole
  <1>6. CASE Change
    <2>1. amiss = {} /\ clock = issued /\ newest = issued
      BY <1>0, <1>6 DEF Change, NewestIsKept
    <2>2. clock' = issued' /\ newest' = issued' /\ issued' = issued + 1 /\ ~(clock + 1 <= issued)
      BY <1>0, <1>6, <2>1 DEF Change
    <2>3. ~twice'
      BY <1>0, <1>6, <2>1, <2>2, Zenon DEF Change, NewestIsKept
    <2>4. debounced' /\ phase' = "running" /\ UNCHANGED <<legacy, target, writers>>
      BY <1>6 DEF Change
    <2>5. /\ Whole(legacy) /\ legacy.lamport <= issued /\ target.there
          /\ \A i \in DOMAIN writers : writers[i].phase # "orphan"
      BY <1>0, <1>6, <2>1 DEF Change, NewestIsKept
    <2>6. legacy.lamport <= issued'
      BY <1>0, <2>2, <2>5
    <2>7. Whole(legacy)' /\ legacy'.lamport <= issued' /\ target'.there
      BY <2>4, <2>5, <2>6 DEF Whole
    <2>8. \A i \in DOMAIN writers' : writers'[i].phase # "orphan"
      BY <2>4, <2>5
    <2>9. DiskWillBeCurrent'
      BY <2>4 DEF DiskWillBeCurrent
    <2> QED
      BY <2>2, <2>3, <2>4, <2>7, <2>8, <2>9 DEF NewestIsKept
  <1>7. CASE Catchup
    <2>1. amiss = {} /\ clock = issued /\ newest = issued
      BY <1>0, <1>7 DEF Catchup, NewestIsKept
    <2>2. clock' = issued /\ newest' = issued
      BY <1>0, <1>7, <2>1 DEF Catchup
    <2> QED
      BY <1>0, <1>7, <2>1, <2>2 DEF Catchup, NewestIsKept, DiskWillBeCurrent, Whole
  <1> QED
    BY <1>1, <1>2, <1>3, <1>4, <1>5, <1>6, <1>7

-----------------------------------------------------------------------------
(* The writers *)

\* A queue that a call joins or leaves, or of which one moves on, is in order.
LEMMA DebounceEndsNext ==
  ASSUME IInv, DebounceEnds
  PROVE  IInv'
  <1> DEFINE w == [phase |-> "manifest", value |-> newest]
  <1>0. /\ TypeOK /\ WritesInOrder /\ NewestIsKept /\ newest \in Stamps
        /\ Len(writers) < MaxWriters /\ debounced /\ debounced' = FALSE
        /\ UNCHANGED <<phase, legacy, target, newest, clock, issued, twice, stops, amiss>>
    BY DEF IInv, TypeOK, DebounceEnds, rootVars, clientVars, pastVars
  <1>1. w \in Writer /\ w.phase = "manifest" /\ w.value = newest
    BY <1>0 DEF Writer
  <1>2. Len(writers) \in Nat /\ DOMAIN writers = 1..Len(writers) /\ writers \in Seq(Writer)
    BY <1>0, WriterTypes
  <1>3. CASE phase = "running"
    <2>1. writers' = Append(writers, w)
      BY <1>3 DEF DebounceEnds, Persist
    <2>2. /\ writers' \in Seq(Writer) /\ Len(writers') = Len(writers) + 1
          /\ DOMAIN writers' = 1..(Len(writers) + 1)
          /\ \A i \in DOMAIN writers : writers'[i] = writers[i]
          /\ writers'[Len(writers) + 1] = w
      <3> HIDE DEF w
      <3> QED
        BY <1>0, <1>1, <2>1, AppendWriter
    <2>3. TypeOK'
      <3>1. Len(writers') <= MaxWriters
        BY <1>0, <1>2, <2>2, PluginStateAssumption
      <3> QED
        BY <1>0, <2>2, <3>1 DEF TypeOK, Writer
    <2>4. WritesInOrder'
      BY <1>0, <1>1, <1>2, <2>2 DEF WritesInOrder, ToManifest
    <2>5. ASSUME amiss' = {} PROVE NewestIsKept'
      <3>1. \A i \in DOMAIN writers' : writers'[i].phase # "orphan"
        BY <1>0, <1>1, <1>2, <1>3, <2>2, <2>5 DEF NewestIsKept
      <3>2. DiskWillBeCurrent'
        <4>1. Len(writers') = Len(writers) + 1 /\ writers' # << >>
          BY <1>2, <2>2
        <4>2. writers'[Len(writers')] = w
          BY <2>2, <4>1
        <4>3. writers'[Len(writers')].phase = "manifest" /\ writers'[Len(writers')].value = newest'
          BY <1>0, <1>1, <4>2
        <4> HIDE DEF w
        <4> QED
          BY <4>1, <4>3 DEF DiskWillBeCurrent
      <3> QED
        BY <1>0, <1>3, <2>5, <3>1, <3>2 DEF NewestIsKept, Whole
    <2>6. NewestIsKept'
      BY <2>5 DEF NewestIsKept
    <2> QED
      BY <2>3, <2>4, <2>6 DEF IInv
  <1>4. CASE phase # "running"
    <2>1. writers' = writers
      BY <1>4 DEF DebounceEnds
    <2>2. TypeOK' /\ WritesInOrder'
      BY <1>0, <2>1 DEF TypeOK, WritesInOrder
    <2>3. NewestIsKept'
      BY <1>0, <1>4, <2>1 DEF NewestIsKept, Whole
    <2> QED
      BY <2>2, <2>3 DEF IInv
  <1> QED
    BY <1>3, <1>4

\* When one of them leaves, the others stay in order.
LEMMA RemovedInOrder ==
  ASSUME IInv, NEW i \in DOMAIN writers, writers' = Without(i)
  PROVE  WritesInOrder' /\ writers' \in Seq(Writer) /\ Len(writers') <= MaxWriters
  <1>0. TypeOK /\ WritesInOrder /\ Len(writers) \in Nat /\ DOMAIN writers = 1..Len(writers)
        /\ Len(writers) <= MaxWriters
    BY WriterTypes DEF IInv, TypeOK
  <1>1. /\ writers' \in Seq(Writer) /\ Len(writers') = Len(writers) - 1
        /\ DOMAIN writers' = 1..(Len(writers) - 1)
        /\ \A j \in DOMAIN writers' :
              /\ j \in DOMAIN writers /\ j + 1 \in DOMAIN writers
              /\ j < i => writers'[j] = writers[j]
              /\ j >= i => writers'[j] = writers[j + 1]
    BY <1>0, RemoveWriter
  <1>2. Len(writers') <= MaxWriters
    BY <1>0, <1>1, PluginStateAssumption
  <1>3. ASSUME NEW j \in DOMAIN writers', NEW k \in DOMAIN writers', j < k,
               writers'[j].phase \in ToManifest
        PROVE  writers'[k].phase \in ToManifest
    <2>1. i \in Nat /\ j \in Nat /\ k \in Nat
      BY <1>0, <1>1
    <2>2. PICK a \in DOMAIN writers : a \in {j, j + 1} /\ writers'[j] = writers[a] /\ (a # j => j >= i)
      BY <1>1, <1>3, <2>1
    <2>3. PICK b \in DOMAIN writers : b \in {k, k + 1} /\ writers'[k] = writers[b] /\ (b = k => k < i)
      BY <1>1, <1>3, <2>1
    <2>4. a < b
      BY <1>3, <2>1, <2>2, <2>3
    <2> QED
      BY <1>0, <1>3, <2>2, <2>3, <2>4 DEF WritesInOrder
  <1> QED
    BY <1>1, <1>2, <1>3 DEF WritesInOrder

\* A write of manifest.bin: who comes last still decides.
LEMMA WriteManifestNext ==
  ASSUME IInv, NEW i \in 1..MaxWriters, WriteManifest(i)
  PROVE  IInv'
  <1> DEFINE w == [phase |-> "lamport", value |-> ClockToWrite]
  <1>0. /\ TypeOK /\ WritesInOrder /\ NewestIsKept
        /\ target \in Roots /\ target' = [target EXCEPT !.there = TRUE, !.manifest = writers[i].value]
        /\ UNCHANGED <<phase, legacy, newest, clock, debounced, issued, twice, stops, amiss>>
        /\ i \in DOMAIN writers /\ writers[i].phase \in ToManifest
        /\ \A j \in 1..(i - 1) : writers[j].phase \notin ToManifest
    BY DEF IInv, TypeOK, WriteManifest, Turn, clientVars, pastVars
  <1>1. /\ Len(writers) \in Nat /\ DOMAIN writers = 1..Len(writers) /\ Len(writers) <= MaxWriters
        /\ writers[i] \in Writer /\ writers # << >>
    BY <1>0, WriterTypes DEF TypeOK
  <1>2. /\ target' \in Roots /\ target'.there /\ target'.manifest = writers[i].value
        /\ target'.lamport = target.lamport
    BY <1>0, <1>1 DEF Roots, Writer
  <1>3. w \in Writer /\ w.phase = "lamport" /\ w.value = clock
    BY <1>0 DEF Writer, ClockToWrite, TypeOK
  <1>4. CASE phase = "running" /\ writers[i].phase = "manifest"
    <2>1. writers' = [writers EXCEPT ![i] = w]
      BY <1>4 DEF WriteManifest
    <2>2. /\ writers' \in Seq(Writer) /\ Len(writers') = Len(writers) /\ DOMAIN writers' = DOMAIN writers
          /\ writers'[i] = w /\ \A j \in DOMAIN writers \ {i} : writers'[j] = writers[j]
      <3> HIDE DEF w
      <3> QED
        BY <1>0, <1>3, <2>1, ReplaceWriter
    <2>3. TypeOK'
      BY <1>0, <1>1, <1>2, <2>2 DEF TypeOK, Writer
    <2>4. WritesInOrder'
      <3> SUFFICES ASSUME NEW j \in DOMAIN writers, NEW k \in DOMAIN writers, j < k,
                          writers'[j].phase \in ToManifest
                   PROVE  writers'[k].phase \in ToManifest
        BY <2>2 DEF WritesInOrder
      <3>1. j # i
        BY <1>3, <2>2 DEF ToManifest
      <3>2. writers'[j] = writers[j] /\ ~(j < i)
        BY <1>0, <1>1, <2>2, <3>1
      <3>3. k # i /\ writers'[k] = writers[k]
        BY <1>0, <1>1, <2>2, <3>1, <3>2
      <3> QED
        BY <1>0, <3>2, <3>3 DEF WritesInOrder
    <2>5. ASSUME amiss' = {} PROVE NewestIsKept'
      <3>1. DiskWillBeCurrent /\ \A j \in DOMAIN writers : writers[j].phase # "orphan"
        BY <1>0, <1>4, <2>5 DEF NewestIsKept
      <3>2. \A j \in DOMAIN writers' : writers'[j].phase # "orphan"
        BY <1>3, <2>2, <3>1
      <3>3. DiskWillBeCurrent'
        <4>1. CASE i = Len(writers)
          <5>1. writers[i].phase # "lamport"
            BY <1>0 DEF ToManifest
          <5>2. ~debounced => target'.manifest = newest
            BY <1>1, <1>2, <3>1, <4>1, <5>1 DEF DiskWillBeCurrent
          <5>3. writers'[Len(writers')].phase = "lamport" /\ writers'[Len(writers')].value = clock /\ writers' # << >>
            BY <1>1, <1>3, <2>2, <4>1
          <5> HIDE DEF w
          <5> QED
            BY <1>0, <5>2, <5>3 DEF DiskWillBeCurrent
        <4>2. CASE i # Len(writers)
          <5>1. Len(writers) \in DOMAIN writers /\ i < Len(writers)
            BY <1>0, <1>1, <4>2
          <5>2. writers[Len(writers)].phase # "lamport"
            BY <1>0, <5>1 DEF WritesInOrder, ToManifest
          <5>3. writers'[Len(writers')] = writers[Len(writers)]
            <6> HIDE DEF w
            <6> QED
              BY <2>2, <4>2, <5>1
          <5>4. writers' # << >>
            <6> HIDE DEF w
            <6>1. DOMAIN writers' # {}
              BY <2>2, <5>1
            <6> QED
              BY <6>1
          <5> HIDE DEF w
          <5> QED
            BY <1>0, <1>1, <3>1, <5>2, <5>3, <5>4 DEF DiskWillBeCurrent
        <4> QED
          BY <4>1, <4>2
      <3> HIDE DEF w
      <3> QED
        BY <1>0, <1>2, <1>4, <2>5, <3>2, <3>3 DEF NewestIsKept, Whole
    <2>6. NewestIsKept'
      BY <2>5 DEF NewestIsKept
    <2> QED
      BY <2>3, <2>4, <2>6 DEF IInv
  <1>5. CASE ~(phase = "running" /\ writers[i].phase = "manifest")
    <2>1. writers' = Without(i)
      BY <1>5 DEF WriteManifest
    <2>2. WritesInOrder' /\ writers' \in Seq(Writer) /\ Len(writers') <= MaxWriters
      BY <1>0, <2>1, RemovedInOrder
    <2>3. TypeOK'
      BY <1>0, <1>2, <2>2 DEF TypeOK, Writer
    <2>4. amiss # {}
      <3>1. phase = "running" => writers[i].phase = "orphan"
        BY <1>0, <1>5 DEF ToManifest
      <3> QED
        BY <1>0, <1>1, <3>1 DEF NewestIsKept
    <2> QED
      BY <1>0, <2>2, <2>3, <2>4 DEF IInv, NewestIsKept
  <1> QED
    BY <1>4, <1>5

\* A write of lamport.txt is that of the writer at the head.
LEMMA WriteLamportNext ==
  ASSUME IInv, NEW i \in 1..MaxWriters, WriteLamport(i)
  PROVE  IInv'
  <1>0. /\ TypeOK /\ WritesInOrder /\ NewestIsKept
        /\ target \in Roots /\ target' = [target EXCEPT !.there = TRUE, !.lamport = writers[i].value]
        /\ UNCHANGED <<phase, legacy, newest, clock, debounced, issued, twice, stops, amiss>>
        /\ i \in DOMAIN writers /\ writers[i].phase = "lamport"
        /\ \A j \in 1..(i - 1) : writers[j].phase # "lamport"
        /\ writers' = Without(i)
    BY DEF IInv, TypeOK, WriteLamport, Turn, clientVars, pastVars
  <1>1. /\ Len(writers) \in Nat /\ DOMAIN writers = 1..Len(writers)
        /\ \A j \in DOMAIN writers : writers[j] \in Writer
        /\ writers[i] \in Writer /\ writers # << >>
    BY <1>0, WriterTypes
  <1>2. /\ target' \in Roots /\ target'.there /\ target'.lamport = writers[i].value
        /\ target'.manifest = target.manifest
    BY <1>0, <1>1 DEF Roots, Writer
  <1>3. WritesInOrder' /\ writers' \in Seq(Writer) /\ Len(writers') <= MaxWriters
    BY <1>0, RemovedInOrder
  <1>4. TypeOK'
    BY <1>0, <1>2, <1>3 DEF TypeOK, Writer
  <1>5. ASSUME amiss' = {} PROVE NewestIsKept'
    <2>1. phase = "running" /\ DiskWillBeCurrent /\ \A j \in DOMAIN writers : writers[j].phase # "orphan"
      BY <1>0, <1>1, <1>5 DEF NewestIsKept
    <2>2. i = 1
      <3> SUFFICES ASSUME i # 1 PROVE FALSE
        OBVIOUS
      <3>1. 1 \in 1..(i - 1) /\ 1 \in DOMAIN writers /\ 1 < i
        BY <1>0, <1>1
      <3>2. writers[1].phase \in ToManifest
        BY <1>0, <1>1, <3>1 DEF Writer, ToManifest
      <3> QED
        BY <1>0, <3>1, <3>2 DEF WritesInOrder, ToManifest
    <2>3. /\ Len(writers') = Len(writers) - 1 /\ DOMAIN writers' = 1..(Len(writers) - 1)
          /\ \A j \in DOMAIN writers' : j + 1 \in DOMAIN writers /\ writers'[j] = writers[j + 1]
      <3>1. /\ Len(Without(i)) = Len(writers) - 1 /\ DOMAIN Without(i) = 1..(Len(writers) - 1)
            /\ \A j \in DOMAIN Without(i) :
                 j + 1 \in DOMAIN writers /\ (j >= i => Without(i)[j] = writers[j + 1])
        BY <1>0, RemoveWriter
      <3>2. \A j \in DOMAIN Without(i) : j >= i
        BY <1>1, <2>2, <3>1
      <3> QED
        BY <1>0, <3>1, <3>2
    <2>4. \A j \in DOMAIN writers' : writers'[j].phase # "orphan"
      BY <2>1, <2>3
    <2>5. DiskWillBeCurrent'
      <3>1. CASE Len(writers) = 1
        <4>1. writers' = << >>
          BY <1>3, <2>3, <3>1
        <4>2. ~debounced => target.manifest = newest /\ writers[i].value = clock
          BY <1>0, <1>1, <2>1, <2>2, <3>1 DEF DiskWillBeCurrent
        <4> QED
          BY <1>0, <1>2, <4>1, <4>2 DEF DiskWillBeCurrent
      <3>2. CASE Len(writers) # 1
        <4>1. Len(writers) - 1 \in DOMAIN writers' /\ writers' # << >>
          BY <1>0, <1>1, <1>3, <2>2, <2>3, <3>2
        <4>2. writers'[Len(writers')] = writers[Len(writers)]
          BY <1>1, <2>3, <4>1
        <4> QED
          BY <1>0, <1>1, <1>2, <2>1, <4>1, <4>2 DEF DiskWillBeCurrent
      <3> QED
        BY <3>1, <3>2
    <2> QED
      BY <1>0, <1>2, <1>5, <2>1, <2>4, <2>5 DEF NewestIsKept, Whole
  <1>6. NewestIsKept'
    BY <1>5 DEF NewestIsKept
  <1> QED
    BY <1>3, <1>4, <1>6 DEF IInv

\* A write that fails is a mishap.
LEMMA WriteFailsNext ==
  ASSUME IInv, NEW i \in 1..MaxWriters, WriteFails(i)
  PROVE  IInv'
  <1>0. /\ TypeOK /\ i \in DOMAIN writers /\ writers' = Without(i) /\ Note({"unwritten"})
        /\ UNCHANGED <<phase, legacy, target, newest, clock, debounced, issued, twice, stops>>
    BY DEF IInv, WriteFails, Turn, rootVars, clientVars, pastVars
  <1>1. WritesInOrder' /\ writers' \in Seq(Writer) /\ Len(writers') <= MaxWriters
    BY <1>0, RemovedInOrder
  <1>2. amiss' \subseteq Mishaps /\ amiss' # {}
    BY <1>0, NoteTypes DEF Mishaps
  <1>3. TypeOK'
    BY <1>0, <1>1, <1>2 DEF TypeOK, Writer
  <1> QED
    BY <1>1, <1>2, <1>3 DEF IInv, NewestIsKept

-----------------------------------------------------------------------------
(* The end of a client *)

\* Without a mishap nothing was due or under way: the disk has everything.
LEMMA StopNext ==
  ASSUME IInv, Crash \/ Unload \/ Reconnect
  PROVE  IInv'
  <1>0. /\ TypeOK /\ WritesInOrder /\ NewestIsKept /\ stops' = stops + 1
        /\ newest' = 0 /\ clock' = 0 /\ Note(Unsaved)
        /\ UNCHANGED <<legacy, target, issued, twice>>
        /\ phase' \in {"off", "connect"} /\ debounced' \in BOOLEAN
        /\ phase' = "connect" => phase = "running"
    BY DEF IInv, TypeOK, Crash, Unload, Reconnect, Stop, rootVars, writeVars, pastVars
  <1>1. amiss' \subseteq Mishaps /\ (amiss' = {} => amiss = {} /\ Unsaved = {})
    <2>1. Unsaved \in SUBSET Mishaps
      BY DEF Unsaved, When, Mishaps
    <2> QED
      BY <1>0, <2>1, NoteTypes
  <1>2. writers' \in Seq(Writer) /\ Len(writers') <= MaxWriters /\ WritesInOrder'
    <2>0. writers \in Seq(Writer) /\ Len(writers) \in Nat /\ DOMAIN writers = 1..Len(writers)
          /\ Len(writers) <= MaxWriters /\ \A j \in DOMAIN writers : writers[j] \in Writer
      BY <1>0, WriterTypes DEF TypeOK
    <2>1. CASE Crash
      <3>1. writers' = << >>
        BY <2>1 DEF Crash
      <3> QED
        BY <3>1, PluginStateAssumption DEF WritesInOrder
    <2>2. CASE Unload
      <3> DEFINE p(j) == IF writers[j].phase = "manifest" THEN "orphan" ELSE writers[j].phase
                 q == [j \in DOMAIN writers |-> [writers[j] EXCEPT !.phase = p(j)]]
      <3>1. writers' = q
        BY <2>2 DEF Unload
      <3>2. \A j \in DOMAIN writers :
              /\ q[j] \in Writer
              /\ q[j].phase \in ToManifest <=> writers[j].phase \in ToManifest
        BY <2>0 DEF Writer, ToManifest
      <3>3. q \in [1..Len(writers) -> Writer] /\ DOMAIN q = DOMAIN writers
        BY <2>0, <3>2
      <3>4. q \in Seq(Writer) /\ Len(q) = Len(writers)
        <4> HIDE DEF q
        <4> QED
          BY <2>0, <3>3
      <3>5. WritesInOrder'
        <4> HIDE DEF q
        <4> QED
          BY <1>0, <3>1, <3>2, <3>3 DEF WritesInOrder
      <3> HIDE DEF q
      <3> QED
        BY <2>0, <3>1, <3>4, <3>5
    <2>3. CASE Reconnect
      <3>1. writers' = writers
        BY <2>3 DEF Reconnect, writeVars
      <3> QED
        BY <1>0, <2>0, <3>1 DEF WritesInOrder
    <2> QED
      BY <2>1, <2>2, <2>3
  <1>3. TypeOK'
    <2>1. stops' \in Nat
      BY <1>0 DEF TypeOK
    <2>2. newest' \in Stamps /\ clock' \in Stamps
      BY <1>0, PluginStateAssumption DEF Stamps
    <2>3. /\ legacy' \in Roots /\ target' \in Roots /\ issued' \in Stamps /\ twice' \in BOOLEAN
      BY <1>0 DEF TypeOK
    <2>4. phase' \in {"off", "migrate", "connect", "running"} /\ debounced' \in BOOLEAN
      BY <1>0
    <2> QED
      BY <1>1, <1>2, <2>1, <2>2, <2>3, <2>4 DEF TypeOK, Writer
  <1>4. ASSUME amiss' = {} PROVE NewestIsKept'
    <2>1. amiss = {} /\ ~debounced /\ writers = << >>
      BY <1>1, <1>4, Zenon DEF Unsaved, When
    <2>2. ~debounced' /\ writers' = << >>
      <3>1. DOMAIN writers = {}
        BY <1>0, <2>1, WriterTypes
      <3>2. CASE Crash
        BY <3>2 DEF Crash
      <3>3. CASE Unload
        <4>1. ~debounced' /\ DOMAIN writers' = {}
          BY <3>1, <3>3 DEF Unload
        <4>2. writers' = << >>
          BY <1>2, <4>1
        <4> QED
          BY <4>1, <4>2
      <3>4. CASE Reconnect
        BY <2>1, <3>4 DEF Reconnect, writeVars
      <3> QED
        BY <3>2, <3>3, <3>4
    <2>3. Whole(legacy) /\ legacy.lamport <= issued /\ ~twice
      BY <1>0, <2>1 DEF NewestIsKept
    <2>4. CASE phase = "running"
      <3>1. target.there /\ target.manifest = issued /\ target.lamport = issued
        BY <1>0, <2>1, <2>4 DEF NewestIsKept, DiskWillBeCurrent
      <3> QED
        BY <1>0, <1>4, <2>2, <2>3, <3>1 DEF NewestIsKept, Whole, TypeOK, Stamps
    <2>5. CASE phase # "running"
      <3>1. phase' = "off" /\ phase \in {"off", "migrate", "connect"}
        BY <1>0, <2>5 DEF TypeOK
      <3>2. /\ phase \in {"off", "migrate"} =>
                 Whole(target) /\ target.lamport <= issued /\ issued \in {legacy.lamport, target.lamport}
            /\ phase = "connect" => Whole(target) /\ target.lamport = issued
        BY <1>0, <2>1 DEF NewestIsKept
      <3> QED
        <4>1. issued \in Nat
          BY <1>0 DEF TypeOK, Stamps
        <4>2. Whole(target) /\ target.lamport <= issued /\ issued \in {legacy.lamport, target.lamport}
          BY <3>1, <3>2, <4>1
        <4>3. Whole(target)' /\ target'.lamport <= issued' /\ issued' \in {legacy'.lamport, target'.lamport}
          BY <1>0, <4>2 DEF Whole
        <4>4. Whole(legacy)' /\ legacy'.lamport <= issued' /\ ~twice'
          BY <1>0, <2>3 DEF Whole
        <4> QED
          BY <2>2, <3>1, <4>3, <4>4 DEF NewestIsKept
    <2> QED
      BY <2>4, <2>5
  <1>5. NewestIsKept'
    BY <1>4 DEF NewestIsKept
  <1> QED
    BY <1>2, <1>3, <1>5 DEF IInv

-----------------------------------------------------------------------------
(* The theorems *)

\* The strengthening holds in every reachable state.
THEOREM Inductive == Spec => []IInv
  <1>1. Init => IInv
    <2> SUFFICES ASSUME Init PROVE IInv
      OBVIOUS
    <2>1. PICK s \in {0, 1}, t \in {0, 1} :
            legacy \in {Absent, Kept(s)} /\ target \in {Absent, Kept(t)}
      BY DEF Init
    <2>2. /\ legacy \in Roots /\ target \in Roots /\ Whole(legacy) /\ Whole(target)
          /\ legacy.lamport \in {0, 1} /\ target.lamport \in {0, 1}
      <3>1. 0 \in Stamps /\ 1 \in Stamps
        BY PluginStateAssumption DEF Stamps
      <3>2. ASSUME NEW r, NEW n \in {0, 1}, r \in {Absent, Kept(n)}
            PROVE  r \in Roots /\ Whole(r) /\ r.lamport \in {0, 1}
        <4>1. CASE r = Absent
          BY <3>1, <4>1 DEF Absent, Roots, Whole
        <4>2. CASE r = Kept(n)
          BY <3>1, <4>2 DEF Kept, Roots, Whole
        <4> QED
          BY <3>2, <4>1, <4>2
      <3> QED
        BY <2>1, <3>2
    <2>3. issued = IF legacy.lamport <= target.lamport THEN target.lamport ELSE legacy.lamport
      BY DEF Init
    <2>4. /\ issued \in {legacy.lamport, target.lamport}
          /\ legacy.lamport <= issued /\ target.lamport <= issued
      BY <2>2, <2>3
    <2>5. issued \in Stamps /\ 0 \in Stamps
      BY <2>2, <2>4, PluginStateAssumption DEF Stamps
    <2>6. TypeOK
      <3>1. writers \in Seq(Writer) /\ Len(writers) <= MaxWriters
        BY PluginStateAssumption DEF Init
      <3> QED
        BY <2>2, <2>5, <3>1 DEF Init, TypeOK, Writer, Mishaps
    <2>7. WritesInOrder
      BY DEF Init, WritesInOrder
    <2>8. NewestIsKept
      BY <2>2, <2>4 DEF Init, NewestIsKept
    <2> QED
      BY <2>6, <2>7, <2>8 DEF IInv
  <1>2. IInv /\ [Next]_vars => IInv'
    <2> SUFFICES ASSUME IInv, [Next]_vars PROVE IInv'
      OBVIOUS
    <2>1. CASE Load \/ SkipMigration \/ Migrate \/ MigrateFails \/ Connect \/ Change \/ Catchup
      <3>1. TypeOK' /\ UNCHANGED writers
        BY <2>1, ClientNext
      <3>2. NewestIsKept'
        BY <2>1, ClientKeepsNewest
      <3> QED
        BY <3>1, <3>2 DEF IInv, WritesInOrder
    <2>2. CASE DebounceEnds
      BY <2>2, DebounceEndsNext
    <2>3. ASSUME NEW i \in 1..MaxWriters, WriteManifest(i) PROVE IInv'
      BY <2>3, WriteManifestNext
    <2>4. ASSUME NEW i \in 1..MaxWriters, WriteLamport(i) PROVE IInv'
      BY <2>4, WriteLamportNext
    <2>5. ASSUME NEW i \in 1..MaxWriters, WriteFails(i) PROVE IInv'
      BY <2>5, WriteFailsNext
    <2>6. CASE Crash \/ Unload \/ Reconnect
      BY <2>6, StopNext
    <2>7. CASE UNCHANGED vars
      <3>1. TypeOK' /\ WritesInOrder'
        BY <2>7 DEF IInv, TypeOK, WritesInOrder, vars, rootVars, clientVars, writeVars, pastVars
      <3>2. NewestIsKept'
        BY <2>7 DEF IInv, NewestIsKept, DiskWillBeCurrent, Whole, vars, rootVars, clientVars, writeVars, pastVars
      <3> QED
        BY <3>1, <3>2 DEF IInv
    <2> QED
      BY <2>1, <2>2, <2>3, <2>4, <2>5, <2>6, <2>7 DEF Next
  <1> QED
    BY <1>1, <1>2, PTL DEF Spec

\* The state keeps its types.
THEOREM TypeCorrect == Spec => []TypeOK
  BY Inductive, PTL DEF IInv

\* No stamp is given out again, whatever stops and starts there were, unless a
\* mishap made a session start from less (main.ts:463, 525, 542).
THEOREM StampsAreGivenOnce == Spec => []NoStampTwice
  <1>1. IInv => NoStampTwice
    BY DEF IInv, NewestIsKept, NoStampTwice
  <1> QED
    BY <1>1, Inductive, PTL

\* When no write is due or under way the disk has what the client has, also when
\* calls of persistManifest overlapped (main.ts:542, 561).
THEOREM DiskHasTheClient == Spec => []DiskIsCurrent
  <1>1. IInv => DiskIsCurrent
    <2> SUFFICES ASSUME IInv, phase = "running", ~debounced, writers = << >>, amiss = {}
                 PROVE  target = [there |-> TRUE, manifest |-> newest, lamport |-> clock]
      BY DEF DiskIsCurrent
    <2>1. target \in Roots /\ target.there /\ target.manifest = newest /\ target.lamport = clock
      BY DEF IInv, TypeOK, NewestIsKept, DiskWillBeCurrent
    <2>2. target.there = TRUE
      BY <2>1, Zenon DEF Roots
    <2> QED
      BY <2>1, <2>2 DEF Roots
  <1> QED
    BY <1>1, Inductive, PTL

-----------------------------------------------------------------------------
(* ServerMigration *)

\* The run has a node for every convertible document still in its v0 rows,
\* whose text is saved or still to be saved by this run.
Covered ==
  \A d \in v0rows \cap Converted :
    \E n \in nodes : n.doc = d /\ (d \in TextDocs => n \in texts \cup content)

\* What a run has achieved when it stands at each of its steps.  NothingLost
\* alone is not inductive: that deleting the v0 rows is safe is known only
\* from the steps before it.
Achieved ==
  /\ step \in {"manifest", "content", "copy", "delete"} => Covered
  /\ step \in {"content", "copy", "delete"} => nodes \subseteq manifest
  /\ step \in {"copy", "delete"} => texts = {}
  /\ step = "delete" => v0rows \subseteq archive

MigrationInv == MigrationTypeOK /\ Achieved /\ NothingLost /\ OriginalsAreKept

\* Every step keeps the types.
LEMMA MigrationTypes == MigrationTypeOK /\ [MigrationNext]_migrationVars => MigrationTypeOK'
  <1> SUFFICES ASSUME MigrationTypeOK, [MigrationNext]_migrationVars PROVE MigrationTypeOK'
    OBVIOUS
  <1> USE DEF MigrationTypeOK, database, Steps
  <1>1. CASE AlreadyMigrated
    BY <1>1 DEF AlreadyMigrated
  <1>2. CASE ReadDocs
    <2>1. run' \in Nat
      BY <1>2 DEF ReadDocs
    <2>2. nodes' \subseteq Node
      BY <1>2, <2>1 DEF ReadDocs, Node, Docs
    <2>3. texts' \subseteq nodes'
      BY <1>2 DEF ReadDocs
    <2> QED
      BY <1>2, <2>1, <2>2, <2>3 DEF ReadDocs
  <1>3. CASE SaveManifest
    BY <1>3 DEF SaveManifest
  <1>4. ASSUME NEW n \in texts, SaveContent(n) PROVE MigrationTypeOK'
    BY <1>4 DEF SaveContent
  <1>5. CASE ContentSaved
    BY <1>5 DEF ContentSaved
  <1>6. CASE CopyRows
    BY <1>6 DEF CopyRows
  <1>7. CASE DeleteRows
    BY <1>7 DEF DeleteRows
  <1>8. CASE MarkVersion
    BY <1>8 DEF MarkVersion
  <1>9. CASE Interrupt
    BY <1>9 DEF Interrupt
  <1>10. CASE UNCHANGED migrationVars
    BY <1>10 DEF migrationVars
  <1> QED
    BY <1>1, <1>2, <1>3, <1>4, <1>5, <1>6, <1>7, <1>8, <1>9, <1>10 DEF MigrationNext, Progress

\* What a run achieved so far is still achieved after its next step.
LEMMA AchievedNext == MigrationTypeOK /\ Achieved /\ [MigrationNext]_migrationVars => Achieved'
  <1> SUFFICES ASSUME MigrationTypeOK, Achieved, [MigrationNext]_migrationVars PROVE Achieved'
    OBVIOUS
  <1> USE DEF Achieved, database
  <1>1. CASE AlreadyMigrated
    BY <1>1 DEF AlreadyMigrated
  <1>2. CASE ReadDocs
    <2>1. ASSUME NEW d \in v0rows \cap Converted
          PROVE  \E n \in nodes' : n.doc = d /\ (d \in TextDocs => n \in texts')
      <3> DEFINE n == [doc |-> d, run |-> run + 1]
      <3>1. n \in nodes' /\ n.doc = d
        BY <1>2 DEF ReadDocs
      <3>2. d \in TextDocs => n \in texts'
        BY <1>2, <3>1 DEF ReadDocs
      <3> QED
        BY <3>1, <3>2
    <2>2. Covered'
      BY <1>2, <2>1 DEF ReadDocs, Covered
    <2> QED
      BY <1>2, <2>2 DEF ReadDocs
  <1>3. CASE SaveManifest
    BY <1>3 DEF SaveManifest, Covered
  <1>4. ASSUME NEW n \in texts, SaveContent(n) PROVE Achieved'
    <2>1. texts \cup content = texts' \cup content'
      BY <1>4 DEF SaveContent
    <2> QED
      BY <1>4, <2>1 DEF SaveContent, Covered
  <1>5. CASE ContentSaved
    BY <1>5 DEF ContentSaved, Covered
  <1>6. CASE CopyRows
    BY <1>6 DEF CopyRows, Covered
  <1>7. CASE DeleteRows
    BY <1>7 DEF DeleteRows
  <1>8. CASE MarkVersion
    BY <1>8 DEF MarkVersion
  <1>9. CASE Interrupt
    BY <1>9 DEF Interrupt
  <1>10. CASE UNCHANGED migrationVars
    BY <1>10 DEF migrationVars, Covered
  <1> QED
    BY <1>1, <1>2, <1>3, <1>4, <1>5, <1>6, <1>7, <1>8, <1>9, <1>10 DEF MigrationNext, Progress

\* Rows are only deleted once they are converted and copied, and nothing
\* else is ever taken back.
LEMMA KeptNext ==
  ASSUME MigrationTypeOK, Achieved, NothingLost, OriginalsAreKept, [MigrationNext]_migrationVars
  PROVE  NothingLost' /\ OriginalsAreKept'
  <1>1. CASE DeleteRows
    <2>1. UNCHANGED <<manifest, content, archive>>
      BY <1>1 DEF DeleteRows
    <2>2. \A d \in v0rows \cap Converted : Complete(d)
      BY <1>1 DEF DeleteRows, Achieved, Covered, Complete
    <2>3. \A d \in Converted : Complete(d)'
      BY <2>1, <2>2 DEF NothingLost, Complete
    <2>4. \A d \in Docs : d \in archive'
      BY <1>1, <2>1 DEF DeleteRows, Achieved, OriginalsAreKept
    <2> QED
      BY <2>3, <2>4 DEF NothingLost, OriginalsAreKept
  <1>2. CASE ~DeleteRows
    <2>1. /\ v0rows' = v0rows
          /\ manifest \subseteq manifest'
          /\ content \subseteq content'
          /\ archive \subseteq archive'
      BY <1>2
      DEF MigrationNext, Progress, AlreadyMigrated, ReadDocs, SaveManifest, SaveContent, ContentSaved,
          CopyRows, MarkVersion, Interrupt, database, migrationVars
    <2> QED
      BY <2>1 DEF NothingLost, OriginalsAreKept, Complete
  <1> QED
    BY <1>1, <1>2

\* The inductive invariant.
THEOREM MigrationInductive == MigrationSpec => []MigrationInv
  <1>1. ASSUME MigrationInit PROVE MigrationInv
    <2>1. MigrationTypeOK
      BY <1>1 DEF MigrationInit, MigrationTypeOK, Steps
    <2>2. Achieved
      BY <1>1 DEF MigrationInit, Achieved
    <2>3. NothingLost
      BY <1>1 DEF MigrationInit, NothingLost, Docs
    <2>4. OriginalsAreKept
      BY <1>1 DEF MigrationInit, OriginalsAreKept
    <2> QED
      BY <2>1, <2>2, <2>3, <2>4 DEF MigrationInv
  <1>2. MigrationInv /\ [MigrationNext]_migrationVars => MigrationInv'
    BY MigrationTypes, AchievedNext, KeptNext DEF MigrationInv
  <1> QED
    BY <1>1, <1>2, PTL DEF MigrationSpec

\* The types of the variables, whichever documents, runs and interruptions.
THEOREM MigrationTypeCorrect == MigrationSpec => []MigrationTypeOK
  <1>1. MigrationInv => MigrationTypeOK
    BY DEF MigrationInv
  <1> QED
    BY <1>1, MigrationInductive, PTL

\* Wherever runs are interrupted, every document is still there as v0 or
\* converted with its text.
THEOREM MigrationLosesNothing == MigrationSpec => []NothingLost
  <1>1. MigrationInv => NothingLost
    BY DEF MigrationInv
  <1> QED
    BY <1>1, MigrationInductive, PTL

\* No v0 row is deleted before it was copied.
THEOREM MigrationKeepsOriginals == MigrationSpec => []OriginalsAreKept
  <1>1. MigrationInv => OriginalsAreKept
    BY DEF MigrationInv
  <1> QED
    BY <1>1, MigrationInductive, PTL
=============================================================================
