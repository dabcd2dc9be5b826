-------------------------- MODULE PluginVaultProofs --------------------------
(***************************************************************************)
(* Proofs about PluginVault, for any number of paths and nodes, any room   *)
(* for runs and any bounds: the reconcile is single-flighted, serves every *)
(* request, and implements LatestWins; the texts find their rows; and a    *)
(* vault at rest is as the manifest says, but for the named mishaps.       *)
(***************************************************************************)
EXTENDS PluginVault, WellFoundedInduction, TLAPS

SingleFlight ==
  \A r, s \in Runs : run[r].phase # "idle" /\ run[s].phase # "idle" => r = s

\* What a run knows of the requests at each of its awaits: until it publishes,
\* what it read is at least what is published; and a request that it has not
\* read is on the record.
RunIsAware(r) ==
  /\ run[r].phase = "remove" =>
       /\ served <= run[r].seen /\ run[r].seen <= newest
       /\ run[r].seen < newest => pending
  /\ run[r].phase \in {"add", "end"} => (served < newest => pending)

RunsAreAware == served <= newest /\ \A r \in Runs : RunIsAware(r)

\* A run that is about to touch a file knows its path.
OnItsPath(r) == run[r].phase \in {"remove", "add"} => run[r].at \in Paths

RunsAreOnPaths == \A r \in Runs : OnItsPath(r)

IInv == TypeOK /\ RunsAreOnPaths /\ SingleFlight /\ RunsAreAware /\ RequestsAreServed

-----------------------------------------------------------------------------
(* The operators of the model *)

\* A nonempty set of natural numbers has a least element, and Min is in it.
LEMMA MinIsLeast ==
  ASSUME NEW S, S \subseteq Nat, S # {}
  PROVE  Min(S) \in S /\ \A y \in S : Min(S) <= y
  <1> DEFINE Less == {ss \in Nat \X Nat : ss[1] < ss[2]}
  <1>1. IsWellFoundedOn(Less, Nat)
    BY NatLessThanWellFounded, Zenon DEF OpToRel
  <1>2. ASSUME NEW x \in Nat, NEW y \in Nat, y < x PROVE <<y, x>> \in Less
    BY <1>2
  <1> HIDE DEF Less
  <1>3. PICK x \in S : \A y \in S : <<y, x>> \notin Less
    BY <1>1, WFMin, Zenon
  <1>4. ASSUME NEW y \in S PROVE x <= y
    <2>1. x \in Nat /\ y \in Nat
      OBVIOUS
    <2>2. ~(y < x)
      BY <1>2, <1>3, <2>1
    <2> QED
      BY <2>1, <2>2
  <1> QED
    BY <1>3, <1>4 DEF Min

\* A run's next await is recorded for that run alone.
LEMMA GotoSets ==
  ASSUME run \in [Runs -> RunType], NEW r \in Runs, NEW me \in RunType,
         NEW phase \in Phases, NEW p \in 0..N, Goto(r, me, phase, p)
  PROVE  /\ run' \in [Runs -> RunType]
         /\ run'[r].phase = phase /\ run'[r].seen = me.seen /\ run'[r].at = p
         /\ run'[r].snap = me.snap
         /\ \A s \in Runs \ {r} : run'[s] = run[s]
  <1>1. [me EXCEPT !.phase = phase, !.at = p] \in RunType
    BY DEF RunType
  <1>2. /\ [me EXCEPT !.phase = phase, !.at = p].phase = phase
        /\ [me EXCEPT !.phase = phase, !.at = p].seen = me.seen
        /\ [me EXCEPT !.phase = phase, !.at = p].at = p
        /\ [me EXCEPT !.phase = phase, !.at = p].snap = me.snap
    BY DEF RunType
  <1> QED
    BY <1>1, <1>2 DEF Goto

\* The loop over the new rows leaves the run where it has published.
LEMMA ContinueAddingSets ==
  ASSUME TypeOK, NEW r \in Runs, NEW me \in RunType, NEW files,
         NEW subs \in SUBSET Nodes, NEW p, ContinueAdding(r, me, files, subs, p)
  PROVE  /\ run' \in [Runs -> RunType]
         /\ run'[r].phase \in {"add", "end"} /\ OnItsPath(r)'
         /\ run'[r].snap = me.snap
         /\ \A s \in Runs \ {r} : run'[s] = run[s]
         /\ subscribed' \subseteq Nodes /\ due' \subseteq Nodes
  <1>1. Rows(me.snap) \subseteq Paths /\ \A q \in Rows(me.snap) : me.snap[q] \in Nodes
    BY DEF Rows, RunType, Projection
  <1>2. subscribed' \subseteq Nodes /\ due' \subseteq Nodes
    BY <1>1 DEF ContinueAdding, TypeOK
  <1>3. CASE Missing(me.snap, files, p) = {}
    <2>1. Goto(r, me, "end", 0)
      BY <1>3 DEF ContinueAdding
    <2>2. 0 \in 0..N /\ "end" \in Phases
      BY PluginVaultAssumption DEF Phases
    <2> QED
      BY <1>2, <2>1, <2>2, GotoSets DEF TypeOK, OnItsPath
  <1>4. CASE Missing(me.snap, files, p) # {}
    <2>1. Goto(r, me, "add", Min(Missing(me.snap, files, p)))
      BY <1>4 DEF ContinueAdding
    <2>2. Min(Missing(me.snap, files, p)) \in Missing(me.snap, files, p)
      <3>1. Missing(me.snap, files, p) \subseteq Nat
        BY <1>1, PluginVaultAssumption DEF Missing, Paths
      <3> QED
        BY <1>4, <3>1, MinIsLeast
    <2>3. Min(Missing(me.snap, files, p)) \in Paths
      BY <1>1, <2>2 DEF Missing
    <2>4. Min(Missing(me.snap, files, p)) \in 0..N /\ "add" \in Phases
      BY <2>3, PluginVaultAssumption DEF Paths, Phases
    <2> QED
      BY <1>2, <2>1, <2>3, <2>4, GotoSets DEF TypeOK, OnItsPath
  <1> QED
    BY <1>3, <1>4

\* The loop over the old rows stops before it publishes, or publishes what the
\* run has read.
LEMMA ContinueRemovingSets ==
  ASSUME TypeOK, NEW r \in Runs, NEW me \in RunType, NEW files,
         NEW subs \in SUBSET Nodes, NEW p, ContinueRemoving(r, me, files, subs, p)
  PROVE  /\ run' \in [Runs -> RunType]
         /\ \A s \in Runs \ {r} : run'[s] = run[s]
         /\ subscribed' \subseteq Nodes /\ due' \subseteq Nodes
         /\ last' \in Projection
         /\ OnItsPath(r)'
         /\ run'[r].snap = me.snap
         /\ \/ /\ run'[r].phase = "remove" /\ run'[r].seen = me.seen
               /\ served' = served /\ last' = last
            \/ /\ run'[r].phase \in {"add", "end"}
               /\ served' = me.seen /\ last' = me.snap
  <1>1. CASE Leaving(me.snap, p) = {}
    <2>1. last' = me.snap /\ served' = me.seen /\ ContinueAdding(r, me, files, subs, 1)
      BY <1>1 DEF ContinueRemoving, Publish
    <2>2. me.snap \in Projection
      BY DEF RunType
    <2> QED
      BY <2>1, <2>2, ContinueAddingSets
  <1>2. CASE Leaving(me.snap, p) # {}
    <2>1. /\ Goto(r, me, "remove", Min(Leaving(me.snap, p)))
          /\ subscribed' = subs /\ due' = due \cap subs
          /\ UNCHANGED <<last, served>>
      BY <1>2 DEF ContinueRemoving
    <2>2. Leaving(me.snap, p) \subseteq Paths
      BY DEF Leaving, Rows
    <2>3. Min(Leaving(me.snap, p)) \in Leaving(me.snap, p)
      BY <1>2, <2>2, MinIsLeast, PluginVaultAssumption DEF Paths
    <2>4. Min(Leaving(me.snap, p)) \in 0..N /\ "remove" \in Phases
      BY <2>2, <2>3, PluginVaultAssumption DEF Paths, Phases
    <2>5. /\ run' \in [Runs -> RunType]
          /\ run'[r].phase = "remove" /\ run'[r].seen = me.seen
          /\ run'[r].at = Min(Leaving(me.snap, p))
          /\ run'[r].snap = me.snap
          /\ \A s \in Runs \ {r} : run'[s] = run[s]
      BY <2>1, <2>4, GotoSets DEF TypeOK
    <2> QED
      BY <2>1, <2>2, <2>3, <2>5 DEF TypeOK, OnItsPath
  <1> QED
    BY <1>1, <1>2

\* An idle run, and one that has just begun.
LEMMA FreshRuns ==
  /\ IdleRun \in RunType /\ StartedRun \in RunType
  /\ IdleRun.phase = "idle" /\ StartedRun.phase = "start"
  <1>1. NothingProjected \in Projection
    BY DEF NothingProjected, Projection
  <1>2. IdleRun \in RunType
    BY <1>1, PluginVaultAssumption DEF IdleRun, RunType, Phases
  <1>3. StartedRun \in RunType /\ StartedRun.phase = "start"
    BY <1>2 DEF StartedRun, RunType, Phases
  <1> QED
    BY <1>2, <1>3 DEF IdleRun

\* A request is kept for the run there is, or begins one.
LEMMA CallReconcileSets ==
  ASSUME TypeOK, CallReconcile
  PROVE  /\ run' \in [Runs -> RunType]
         /\ pending' \in BOOLEAN
         /\ Running => pending' = TRUE /\ run' = run
         /\ ~Running => \E r \in Runs :
              /\ run'[r].phase = "start"
              /\ \A s \in Runs \ {r} : run'[s] = run[s] /\ run[s].phase = "idle"
  <1>1. CASE Running
    BY <1>1 DEF CallReconcile, TypeOK
  <1>2. CASE ~Running
    <2> DEFINE r == CHOOSE r \in Runs : run[r].phase = "idle"
    <2>1. r \in Runs
      BY <1>2, PluginVaultAssumption DEF Running
    <2>2. run' = [run EXCEPT ![r] = StartedRun] /\ UNCHANGED pending
      BY <1>2 DEF CallReconcile
    <2> HIDE DEF r
    <2>3. run' \in [Runs -> RunType] /\ run'[r] = StartedRun
      BY <2>1, <2>2, FreshRuns DEF TypeOK
    <2>4. \A s \in Runs \ {r} : run'[s] = run[s] /\ run[s].phase = "idle"
      BY <1>2, <2>1, <2>2 DEF TypeOK, Running
    <2> QED
      BY <1>2, <2>1, <2>2, <2>3, <2>4, FreshRuns DEF TypeOK
  <1> QED
    BY <1>1, <1>2

\* Rows of a projection can be dropped, moved to a free path and added with a
\* node it does not have.
LEMMA Projections ==
  ASSUME NEW f \in Projection, NEW p \in Paths, NEW q \in Paths
  PROVE  /\ [f EXCEPT ![p] = NoNode] \in Projection
         /\ [f EXCEPT ![q] = f[p], ![p] = NoNode] \in Projection
         /\ \A n \in Nodes \ Range(f) : [f EXCEPT ![p] = n] \in Projection
  BY DEF Projection, Range

\* What is being read moves with its file.
LEMMA FollowTypes ==
  ASSUME TypeOK, NEW p \in Paths, NEW q \in Paths, Follow(p, q)
  PROVE  scanning' \subseteq Paths /\ ingesting' \in [Paths -> Nat] /\ connecting' \in BOOLEAN
  <1>1. [ingesting EXCEPT ![q] = @ + ingesting[p], ![p] = 0] \in [Paths -> Nat]
    BY DEF TypeOK
  <1> QED
    BY <1>1 DEF Follow, TypeOK

\* A new file is read once more at its path.
LEMMA BeginIngestTypes ==
  ASSUME TypeOK, NEW p \in Paths
  PROVE  BeginIngest(p) \in [Paths -> Nat]
  BY DEF BeginIngest, TypeOK

\* A path is added to or taken from a suppression.
LEMMA IgnoreTypes ==
  ASSUME TypeOK, NEW kind \in {"create", "delete", "rename"}, NEW S \in SUBSET Paths
  PROVE  /\ [ignore EXCEPT ![kind] = @ \cup S] \in [{"create", "delete", "rename"} -> SUBSET Paths]
         /\ [ignore EXCEPT ![kind] = @ \ S] \in [{"create", "delete", "rename"} -> SUBSET Paths]
  BY DEF TypeOK

-----------------------------------------------------------------------------
(* Types: the steps of a run *)

\* What a step of a run shows that leaves the manifest alone.
LEMMA RunTypes ==
  ASSUME TypeOK, UNCHANGED <<live, newest, boundVars>>,
         run' \in [Runs -> RunType], subscribed' \subseteq Nodes, due' \subseteq Nodes,
         last' \in Projection, served' \in Nat, pending' \in BOOLEAN,
         file' \in [Paths -> Texts],
         scanning' \subseteq Paths /\ ingesting' \in [Paths -> Nat] /\ connecting' \in BOOLEAN,
         ignore' \in [{"create", "delete", "rename"} -> SUBSET Paths],
         amiss' \subseteq Mishaps
  PROVE  TypeOK'
  BY DEF TypeOK, boundVars

\* A run does one thing at a time, at a path that it knows.
LEMMA ReconcileTypes ==
  ASSUME TypeOK, RunsAreOnPaths, NEW r \in Runs, Reconcile(r)
  PROVE  TypeOK' /\ RunsAreOnPaths'
  <1>0. run[r] \in RunType /\ (run[r].phase \in {"remove", "add"} => run[r].at \in Paths)
    BY DEF TypeOK, RunsAreOnPaths, OnItsPath
  <1>1. CASE StartPass(r)
    <2> DEFINE me == [run[r] EXCEPT !.snap = live, !.seen = newest]
    <2>1. me \in RunType
      BY <1>0 DEF TypeOK, RunType
    <2>2. ContinueRemoving(r, me, file, subscribed, 1)
      BY <1>1 DEF StartPass
    <2>3. me.seen \in Nat
      BY <2>1 DEF RunType
    <2>4. /\ run' \in [Runs -> RunType] /\ subscribed' \subseteq Nodes /\ due' \subseteq Nodes
          /\ last' \in Projection
          /\ served' \in {served, me.seen}
          /\ OnItsPath(r)' /\ \A s \in Runs \ {r} : run'[s] = run[s]
      <3> HIDE DEF me
      <3> QED
        BY <2>1, <2>2, ContinueRemovingSets DEF TypeOK
    <2>5. TypeOK'
      BY <1>1, <2>3, <2>4, RunTypes DEF StartPass, TypeOK, readVars
    <2> QED
      BY <2>4, <2>5 DEF RunsAreOnPaths, OnItsPath
  <1>2. CASE RemoveLocalFile(r)
    <2> DEFINE p     == run[r].at
               files == [file EXCEPT ![p] = NoFile]
               subs  == Unsubscribed(last[p])
    <2>0. p \in Paths
      BY <1>0, <1>2 DEF RemoveLocalFile
    <2>1. ContinueRemoving(r, run[r], files, subs, p + 1) /\ subs \subseteq Nodes
      BY <1>2 DEF RemoveLocalFile, Unsubscribed, TypeOK
    <2>2. /\ run' \in [Runs -> RunType] /\ subscribed' \subseteq Nodes /\ due' \subseteq Nodes
          /\ last' \in Projection
          /\ served' \in {served, run[r].seen}
          /\ OnItsPath(r)' /\ \A s \in Runs \ {r} : run'[s] = run[s]
      <3> HIDE DEF files, subs
      <3> QED
        BY <1>0, <2>1, ContinueRemovingSets
    <2>3. file' \in [Paths -> Texts]
      BY <1>2 DEF RemoveLocalFile, TypeOK, Texts
    <2>4. ignore' \in [{"create", "delete", "rename"} -> SUBSET Paths]
      <3>1. {q \in {p} : file[p] # NoFile} \in SUBSET Paths
        BY <2>0
      <3> QED
        BY <1>2, <3>1, IgnoreTypes DEF RemoveLocalFile
    <2>5. amiss' \subseteq Mishaps
      BY <1>2 DEF RemoveLocalFile, TypeOK, Mishaps
    <2>6. TypeOK'
      BY <1>0, <1>2, <2>2, <2>3, <2>4, <2>5, RunTypes DEF RemoveLocalFile, TypeOK, readVars, RunType
    <2> QED
      BY <2>2, <2>6 DEF RunsAreOnPaths, OnItsPath
  <1>3. CASE RenameLocalFile(r)
    <2> DEFINE p     == run[r].at
               moved == file[p] # NoFile
    <2>0. p \in Paths
      BY <1>0, <1>3 DEF RenameLocalFile
    <2>1. PICK q \in PathsOf(run[r].snap, last[p]) :
            LET free  == file[q] = NoFile
                files == IF moved /\ free THEN [file EXCEPT ![q] = file[p], ![p] = NoFile] ELSE file
            IN /\ file' = files
               /\ IF moved /\ free THEN Follow(p, q) ELSE UNCHANGED readVars
               /\ ignore' = [ignore EXCEPT !["rename"] = @ \cup {x \in {p, q} : moved}]
               /\ amiss' = amiss \cup {m \in {"blocked"} : moved /\ ~free}
                                 \cup {m \in {"mistaken"} : Foreign(p, last[p])}
               /\ ContinueRemoving(r, run[r], files, subscribed, p + 1)
      BY <1>3, Zenon DEF RenameLocalFile
    <2>2. q \in Paths
      BY DEF PathsOf
    <2>3. ContinueRemoving(r, run[r], file', subscribed, p + 1)
      BY <2>1
    <2>4. /\ run' \in [Runs -> RunType] /\ subscribed' \subseteq Nodes /\ due' \subseteq Nodes
          /\ last' \in Projection
          /\ served' \in {served, run[r].seen}
          /\ OnItsPath(r)' /\ \A s \in Runs \ {r} : run'[s] = run[s]
      BY <1>0, <2>3, ContinueRemovingSets DEF TypeOK
    <2>5. file' \in [Paths -> Texts]
      BY <2>0, <2>1, <2>2 DEF TypeOK, Texts
    <2>6. scanning' \subseteq Paths /\ ingesting' \in [Paths -> Nat] /\ connecting' \in BOOLEAN
      BY <2>0, <2>1, <2>2, FollowTypes DEF TypeOK, readVars
    <2>7. ignore' \in [{"create", "delete", "rename"} -> SUBSET Paths]
      <3>1. {x \in {p, q} : moved} \in SUBSET Paths
        BY <2>0, <2>2
      <3> QED
        BY <2>1, <3>1, IgnoreTypes
    <2>8. amiss' \subseteq Mishaps
      BY <2>1 DEF TypeOK, Mishaps
    <2>9. TypeOK'
      BY <1>0, <1>3, <2>4, <2>5, <2>6, <2>7, <2>8, RunTypes DEF RenameLocalFile, TypeOK, RunType
    <2> QED
      BY <2>4, <2>9 DEF RunsAreOnPaths, OnItsPath
  <1>4. CASE CreatePlaceholder(r)
    <2> DEFINE p     == run[r].at
               files == [file EXCEPT ![p] = IF @ = NoFile THEN Blank ELSE @]
    <2>0. p \in Paths
      BY <1>0, <1>4 DEF CreatePlaceholder
    <2>1. ContinueAdding(r, run[r], files, subscribed, p)
      BY <1>4 DEF CreatePlaceholder
    <2>2. /\ run' \in [Runs -> RunType] /\ subscribed' \subseteq Nodes /\ due' \subseteq Nodes
          /\ OnItsPath(r)' /\ \A s \in Runs \ {r} : run'[s] = run[s]
      <3> HIDE DEF files
      <3> QED
        BY <1>0, <2>1, ContinueAddingSets DEF TypeOK
    <2>3. file' \in [Paths -> Texts]
      BY <1>4 DEF CreatePlaceholder, TypeOK, Texts
    <2>4. ignore' \in [{"create", "delete", "rename"} -> SUBSET Paths]
      BY <1>4, <2>0, IgnoreTypes DEF CreatePlaceholder
    <2>5. TypeOK'
      BY <1>4, <2>2, <2>3, <2>4, RunTypes DEF CreatePlaceholder, TypeOK, readVars
    <2> QED
      BY <2>2, <2>5 DEF RunsAreOnPaths, OnItsPath
  <1>5. CASE EndPass(r)
    <2>1. run' \in [Runs -> RunType] /\ run'[r].phase \in {"start", "idle"}
      BY <1>5, FreshRuns DEF EndPass, TypeOK
    <2>2. \A s \in Runs \ {r} : run'[s] = run[s]
      BY <1>5 DEF EndPass, TypeOK
    <2>3. TypeOK'
      BY <1>5, <2>1, RunTypes DEF EndPass, TypeOK, readVars
    <2> QED
      BY <2>1, <2>2, <2>3 DEF RunsAreOnPaths, OnItsPath
  <1> QED
    BY <1>1, <1>2, <1>3, <1>4, <1>5 DEF Reconcile

-----------------------------------------------------------------------------
(* Types: what else happens to the manifest and to the files *)

\* What a step outside the runs may do to the manifest and the runs.
LeavesManifest == UNCHANGED <<live, newest, runVars>>
MovesManifest  == \E f \in Projection : Reproject(f)
OnlyReconciles == CallReconcile /\ UNCHANGED <<live, newest, last, served>>

FileTypes ==
  /\ file \in [Paths -> Texts]
  /\ subscribed \subseteq Nodes /\ due \subseteq Nodes
  /\ connecting \in BOOLEAN
  /\ scanning \subseteq Paths
  /\ ingesting \in [Paths -> Nat]
  /\ ignore \in [{"create", "delete", "rename"} -> SUBSET Paths]
  /\ amiss \subseteq Mishaps
  /\ frames \in Nat /\ acts \in Nat

\* Types survive the steps outside the reconcile: frames, events, reads, texts.
LEMMA OutsideTypes ==
  ASSUME TypeOK, RunsAreOnPaths, FileTypes', LeavesManifest \/ MovesManifest \/ OnlyReconciles
  PROVE  TypeOK' /\ RunsAreOnPaths'
  <1>1. CASE LeavesManifest
    BY <1>1 DEF LeavesManifest, runVars, TypeOK, FileTypes, RunsAreOnPaths, OnItsPath
  <1>2. CASE MovesManifest \/ OnlyReconciles
    <2>1. CallReconcile /\ UNCHANGED <<last, served>> /\ live' \in Projection /\ newest' \in Nat
      BY <1>2 DEF MovesManifest, OnlyReconciles, Reproject, TypeOK
    <2>2. /\ run' \in [Runs -> RunType] /\ pending' \in BOOLEAN
          /\ \A r \in Runs : run'[r] = run[r] \/ run'[r].phase = "start"
      BY <2>1, CallReconcileSets
    <2>3. TypeOK'
      BY <2>1, <2>2 DEF TypeOK, FileTypes
    <2> QED
      BY <2>2, <2>3 DEF RunsAreOnPaths, OnItsPath
  <1> QED
    BY <1>1, <1>2

\* A file that was read becomes a node, or is gone.
LEMMA ReadFileTypes ==
  ASSUME TypeOK, NEW p \in Paths, ReadFile(p)
  PROVE  /\ LeavesManifest \/ MovesManifest
         /\ file' \in [Paths -> Texts] /\ subscribed' \subseteq Nodes /\ due' \subseteq Nodes
  <1>1. CASE file[p] = NoFile
    BY <1>1 DEF ReadFile, TypeOK, LeavesManifest
  <1>2. CASE file[p] # NoFile
    <2>1. PICK n \in Nodes : /\ Unused(n)
                             /\ \E q \in Placements(p) : Reproject([live EXCEPT ![q] = n])
                             /\ file' = [file EXCEPT ![p] = IF @ = Draft THEN n ELSE @]
                             /\ subscribed' = subscribed \cup {n}
                             /\ due' = due \cup {n}
      BY <1>2 DEF ReadFile, CreateNode
    <2>2. PICK q \in Placements(p) : Reproject([live EXCEPT ![q] = n])
      BY <2>1
    <2>3. q \in Paths /\ n \in Nodes \ Range(live)
      BY <2>1 DEF Placements, Unused
    <2>4. MovesManifest
      BY <2>2, <2>3, Projections DEF MovesManifest, TypeOK
    <2> QED
      BY <2>1, <2>4 DEF TypeOK, Texts
  <1> QED
    BY <1>1, <1>2

\* The plugin reads files.
LEMMA ReadTypes ==
  ASSUME TypeOK, NEW p \in Paths, Read(p)
  PROVE  FileTypes' /\ UNCHANGED connecting /\ (LeavesManifest \/ MovesManifest)
  <1>1. ReadFile(p) /\ UNCHANGED <<connecting, ignore, amiss, frames, acts>>
    BY DEF Read, ScanFile, Ingest, boundVars
  <1>2. scanning' \subseteq Paths /\ ingesting' \in [Paths -> Nat]
    BY DEF Read, ScanFile, Ingest, TypeOK
  <1> QED
    BY <1>1, <1>2, ReadFileTypes DEF FileTypes, TypeOK

\* The user's actions.
LEMMA UserTypesHold ==
  ASSUME TypeOK, NEW p \in Paths, NEW q \in Paths,
         UserCreates(p) \/ UserDeletes(p) \/ UserRenames(p, q)
  PROVE  FileTypes' /\ UNCHANGED connecting /\ (LeavesManifest \/ MovesManifest)
  <1> USE DEF Act, Unchanged, readVars
  <1>1. CASE UserCreates(p)
    <2>1. UNCHANGED <<connecting, scanning, ignore, frames, subscribed, due>> /\ LeavesManifest /\ acts' \in Nat
      BY <1>1 DEF UserCreates, LeavesManifest, TypeOK
    <2>2. file' \in [Paths -> Texts] /\ amiss' \subseteq Mishaps
      BY <1>1 DEF UserCreates, TypeOK, Texts, Mishaps
    <2>3. ingesting' \in [Paths -> Nat]
      BY <1>1, BeginIngestTypes DEF UserCreates, TypeOK
    <2> QED
      BY <2>1, <2>2, <2>3 DEF FileTypes, TypeOK
  <1>2. CASE UserDeletes(p)
    <2>1. UNCHANGED <<connecting, scanning, ingesting, ignore, frames>> /\ acts' \in Nat
      BY <1>2 DEF UserDeletes, TypeOK
    <2>2. file' \in [Paths -> Texts]
      BY <1>2 DEF UserDeletes, TypeOK, Texts
    <2>3. amiss' \subseteq Mishaps /\ subscribed' \subseteq Nodes /\ due' \subseteq Nodes
      BY <1>2 DEF UserDeletes, Unsubscribed, TypeOK, Mishaps
    <2>4. LeavesManifest \/ MovesManifest
      BY <1>2, Projections DEF UserDeletes, LeavesManifest, MovesManifest, TypeOK
    <2> QED
      BY <2>1, <2>2, <2>3, <2>4 DEF FileTypes, TypeOK
  <1>3. CASE UserRenames(p, q)
    <2>1. UNCHANGED <<ignore, frames>> /\ acts' \in Nat
      BY <1>3 DEF UserRenames, TypeOK
    <2>2. file' \in [Paths -> Texts]
      BY <1>3 DEF UserRenames, TypeOK, Texts
    <2>3. amiss' \subseteq Mishaps /\ subscribed' \subseteq Nodes /\ due' \subseteq Nodes
      BY <1>3 DEF UserRenames, TypeOK, Mishaps
    <2>4. LeavesManifest \/ MovesManifest
      BY <1>3, Projections DEF UserRenames, LeavesManifest, MovesManifest, TypeOK
    <2>5. scanning' \subseteq Paths /\ ingesting' \in [Paths -> Nat] /\ UNCHANGED connecting
      <3>1. CASE Follow(p, q)
        BY <3>1, FollowTypes DEF Follow
      <3>2. CASE /\ scanning' = IF p \in scanning THEN (scanning \ {p}) \cup {q} ELSE scanning
                 /\ ingesting' = [BeginIngest(q) EXCEPT ![q] = @ + ingesting[p], ![p] = 0]
                 /\ UNCHANGED connecting
        <4>1. [BeginIngest(q) EXCEPT ![q] = @ + ingesting[p], ![p] = 0] \in [Paths -> Nat]
          BY BeginIngestTypes DEF TypeOK
        <4> QED
          BY <3>2, <4>1 DEF TypeOK
      <3> QED
        BY <1>3, <3>1, <3>2 DEF UserRenames
    <2> QED
      BY <2>1, <2>2, <2>3, <2>4, <2>5 DEF FileTypes, TypeOK
  <1> QED
    BY <1>1, <1>2, <1>3

\* Frames, texts and the ends of suppressions.
LEMMA EnvironmentTypes ==
  ASSUME TypeOK,
         \/ \E kind \in {"create", "delete", "rename"}, p \in Paths : IgnoreEnds(kind, p)
         \/ \E f \in Projection : Frame(f)
         \/ \E n \in Nodes : ReceiveText(n)
  PROVE  FileTypes' /\ UNCHANGED connecting /\ (LeavesManifest \/ MovesManifest)
  <1> USE DEF readVars, boundVars
  <1>1. ASSUME NEW kind \in {"create", "delete", "rename"}, NEW p \in Paths, IgnoreEnds(kind, p)
        PROVE  FileTypes' /\ UNCHANGED connecting /\ LeavesManifest
    <2>1. ignore' \in [{"create", "delete", "rename"} -> SUBSET Paths]
      BY <1>1 DEF IgnoreEnds, TypeOK
    <2> QED
      BY <1>1, <2>1 DEF IgnoreEnds, FileTypes, TypeOK, LeavesManifest
  <1>2. ASSUME NEW f \in Projection, Frame(f)
        PROVE  FileTypes' /\ UNCHANGED connecting /\ MovesManifest
    <2>1. amiss' \subseteq Mishaps
      BY <1>2 DEF Frame, TypeOK, Mishaps
    <2> QED
      BY <1>2, <2>1 DEF Frame, FileTypes, TypeOK, MovesManifest
  <1>3. ASSUME NEW n \in Nodes, ReceiveText(n)
        PROVE  FileTypes' /\ UNCHANGED connecting /\ LeavesManifest
    <2>1. due' \subseteq Nodes /\ amiss' \subseteq Mishaps /\ LeavesManifest
      BY <1>3 DEF ReceiveText, TypeOK, Mishaps, LeavesManifest
    <2>2. file' \in [Paths -> Texts] /\ ignore' \in [{"create", "delete", "rename"} -> SUBSET Paths]
      <3>1. CASE n \in Range(last)
        <4>1. PICK p \in PathsOf(last, n) :
                /\ file' = [file EXCEPT ![p] = n]
                /\ ignore' = [ignore EXCEPT !["create"] = @ \cup {q \in {p} : file[p] = NoFile}]
          BY <1>3, <3>1 DEF ReceiveText
        <4>2. p \in Paths /\ {q \in {p} : file[p] = NoFile} \in SUBSET Paths
          BY DEF PathsOf
        <4> QED
          BY <4>1, <4>2, IgnoreTypes DEF TypeOK, Texts
      <3>2. CASE n \notin Range(last)
        BY <1>3, <3>2 DEF ReceiveText, TypeOK
      <3> QED
        BY <3>1, <3>2
    <2> QED
      BY <1>3, <2>1, <2>2 DEF ReceiveText, FileTypes, TypeOK
  <1> QED
    BY <1>1, <1>2, <1>3

-----------------------------------------------------------------------------
(* Requests *)

Aware == SingleFlight /\ RunsAreAware /\ RequestsAreServed

\* A request is put on the record of the run there is, or begins one.
LEMMA RequestKept ==
  ASSUME TypeOK, Aware, MovesManifest \/ OnlyReconciles
  PROVE  Aware' /\ served' = served /\ newest' \in {newest, newest + 1}
  <1>1. CallReconcile /\ served' = served /\ newest' \in {newest, newest + 1}
    BY DEF MovesManifest, OnlyReconciles, Reproject
  <1>2. served' <= newest'
    BY <1>1 DEF Aware, RunsAreAware, TypeOK
  <1>3. CASE Running
    <2>1. pending' /\ run' = run
      BY <1>1, <1>3, CallReconcileSets
    <2>2. \A r \in Runs : run[r].seen \in Nat
      BY DEF TypeOK, RunType
    <2>3. RunsAreAware'
      BY <1>1, <1>2, <2>1, <2>2 DEF Aware, RunsAreAware, RunIsAware, TypeOK
    <2>4. SingleFlight' /\ Running'
      BY <1>3, <2>1 DEF Aware, SingleFlight, Running
    <2> QED
      BY <1>1, <2>3, <2>4 DEF Aware, RequestsAreServed
  <1>4. CASE ~Running
    <2>1. PICK r \in Runs : /\ run'[r].phase = "start"
                            /\ \A s \in Runs \ {r} : run'[s] = run[s] /\ run[s].phase = "idle"
      BY <1>1, <1>4, CallReconcileSets
    <2>2. SingleFlight' /\ Running'
      BY <2>1 DEF SingleFlight, Running
    <2>3. RunsAreAware'
      BY <1>2, <2>1 DEF RunsAreAware, RunIsAware
    <2> QED
      BY <1>1, <2>2, <2>3 DEF Aware, RequestsAreServed
  <1> QED
    BY <1>3, <1>4

\* A removal or rename goes on with the old rows.
LEMMA Continues ==
  ASSUME NEW r \in Runs
  PROVE  /\ RemoveLocalFile(r) =>
              ContinueRemoving(r, run[r], file', Unsubscribed(last[run[r].at]), run[r].at + 1)
         /\ RenameLocalFile(r) =>
              ContinueRemoving(r, run[r], file', subscribed, run[r].at + 1)
  <1>1. ASSUME RemoveLocalFile(r)
        PROVE  ContinueRemoving(r, run[r], file', Unsubscribed(last[run[r].at]), run[r].at + 1)
    <2> DEFINE files == [file EXCEPT ![run[r].at] = NoFile]
    <2>1. /\ file' = files
          /\ ContinueRemoving(r, run[r], files, Unsubscribed(last[run[r].at]), run[r].at + 1)
      BY <1>1 DEF RemoveLocalFile
    <2> QED
      BY <2>1
  <1>2. ASSUME RenameLocalFile(r)
        PROVE  ContinueRemoving(r, run[r], file', subscribed, run[r].at + 1)
    <2> DEFINE p     == run[r].at
               moved == file[p] # NoFile
    <2>1. PICK q \in PathsOf(run[r].snap, last[p]) :
            LET free  == file[q] = NoFile
                files == IF moved /\ free THEN [file EXCEPT ![q] = file[p], ![p] = NoFile] ELSE file
            IN file' = files /\ ContinueRemoving(r, run[r], files, subscribed, p + 1)
      BY <1>2, Zenon DEF RenameLocalFile
    <2> QED
      BY <2>1
  <1> QED
    BY <1>1, <1>2

\* A step of the one run: it publishes what it read, or nothing.
LEMMA ReconcileAware ==
  ASSUME TypeOK, RunsAreOnPaths, Aware, NEW r \in Runs, Reconcile(r)
  PROVE  Aware' /\ newest' = newest /\ served' \in served..newest
  <1>0. /\ run[r] \in RunType /\ run[r].seen \in Nat /\ RunIsAware(r)
        /\ newest \in Nat /\ served \in Nat /\ served <= newest
    BY DEF TypeOK, RunType, Aware, RunsAreAware
  <1>1. run[r].phase # "idle" /\ \A s \in Runs \ {r} : run[s].phase = "idle"
    BY DEF Aware, SingleFlight, Reconcile, StartPass, RemoveLocalFile, RenameLocalFile,
           CreatePlaceholder, EndPass
  <1>2. newest' = newest
    BY DEF Reconcile, StartPass, RemoveLocalFile, RenameLocalFile, CreatePlaceholder, EndPass
  <1>3. SUFFICES /\ \A s \in Runs \ {r} : run'[s] = run[s]
                 /\ served' \in served..newest
                 /\ RunIsAware(r)'
                 /\ run'[r].phase # "idle" \/ served' = newest
    <2>1. SingleFlight'
      BY <1>1, <1>3 DEF SingleFlight
    <2>2. RunsAreAware'
      BY <1>0, <1>1, <1>2, <1>3 DEF RunsAreAware, RunIsAware
    <2>3. RequestsAreServed'
      BY <1>2, <1>3 DEF RequestsAreServed, Running
    <2> QED
      BY <1>2, <1>3, <2>1, <2>2, <2>3 DEF Aware
  <1>4. ASSUME NEW me \in RunType, NEW files, NEW subs \in SUBSET Nodes, NEW p,
               ContinueRemoving(r, me, files, subs, p),
               served <= me.seen, me.seen <= newest, me.seen < newest => pending'
        PROVE  /\ \A s \in Runs \ {r} : run'[s] = run[s]
               /\ served' \in served..newest
               /\ RunIsAware(r)'
               /\ run'[r].phase # "idle"
    <2>1. me.seen \in Nat
      BY DEF RunType
    <2>2. /\ \A s \in Runs \ {r} : run'[s] = run[s]
          /\ \/ run'[r].phase = "remove" /\ run'[r].seen = me.seen /\ served' = served
             \/ run'[r].phase \in {"add", "end"} /\ served' = me.seen
      BY <1>4, ContinueRemovingSets
    <2> QED
      BY <1>0, <1>2, <1>4, <2>1, <2>2 DEF RunIsAware
  <1>5. CASE StartPass(r)
    <2> DEFINE me == [run[r] EXCEPT !.snap = live, !.seen = newest]
    <2>1. me \in RunType /\ me.seen = newest
      BY <1>0 DEF TypeOK, RunType
    <2>2. ContinueRemoving(r, me, file, subscribed, 1) /\ subscribed \in SUBSET Nodes
      BY <1>5 DEF StartPass, TypeOK
    <2> HIDE DEF me
    <2> QED
      BY <1>0, <1>4, <2>1, <2>2
  <1>6. CASE RemoveLocalFile(r) \/ RenameLocalFile(r)
    <2>1. PICK subs \in SUBSET Nodes : ContinueRemoving(r, run[r], file', subs, run[r].at + 1)
      BY <1>6, Continues DEF Unsubscribed, TypeOK
    <2>2. run[r].phase = "remove" /\ pending' = pending
      BY <1>6 DEF RemoveLocalFile, RenameLocalFile
    <2> QED
      BY <1>0, <1>4, <2>1, <2>2 DEF RunIsAware
  <1>7. CASE CreatePlaceholder(r)
    <2>1. PICK files : ContinueAdding(r, run[r], files, subscribed, run[r].at)
      BY <1>7 DEF CreatePlaceholder
    <2>2. run[r].phase = "add" /\ UNCHANGED <<served, pending>> /\ subscribed \in SUBSET Nodes
      BY <1>7 DEF CreatePlaceholder, TypeOK
    <2>3. run'[r].phase \in {"add", "end"} /\ \A s \in Runs \ {r} : run'[s] = run[s]
      BY <1>0, <2>1, <2>2, ContinueAddingSets
    <2> QED
      BY <1>0, <1>2, <2>2, <2>3 DEF RunIsAware
  <1>8. CASE EndPass(r)
    <2>1. /\ run[r].phase = "end" /\ UNCHANGED <<served, pending>>
          /\ run' = [run EXCEPT ![r] = IF pending THEN StartedRun ELSE IdleRun]
      BY <1>8 DEF EndPass
    <2>2. /\ run'[r].phase = IF pending THEN "start" ELSE "idle"
          /\ \A s \in Runs \ {r} : run'[s] = run[s]
      BY <2>1, FreshRuns DEF TypeOK
    <2> QED
      BY <1>0, <1>2, <2>1, <2>2 DEF RunIsAware
  <1> QED
    BY <1>5, <1>6, <1>7, <1>8 DEF Reconcile

-----------------------------------------------------------------------------
(* Every step *)

\* The invariant is inductive, and every step is a request, serves one, or
\* stutters.
LEMMA StepOfIInv ==
  ASSUME IInv, [Next]_vars
  PROVE  IInv' /\ [Follows!Next]_(Follows!vars)
  <1>0. TypeOK /\ RunsAreOnPaths /\ Aware
    BY DEF IInv, Aware
  <1>1. SUFFICES /\ TypeOK' /\ RunsAreOnPaths' /\ Aware'
                 /\ \/ newest' = newest /\ served' \in served..newest
                    \/ newest' = newest + 1 /\ served' = served
    <2>1. CASE newest' = newest /\ served' \in served..newest
      <3>1. served' = served \/ served' \in served + 1 .. newest
        BY <2>1 DEF IInv, TypeOK
      <3> QED
        BY <1>1, <2>1, <3>1 DEF IInv, Aware, Follows!Next, Follows!Serve, Follows!vars
    <2>2. CASE newest' = newest + 1 /\ served' = served
      BY <1>1, <2>2 DEF IInv, Aware, Follows!Next, Follows!Request, Follows!vars
    <2> QED
      BY <1>1, <2>1, <2>2
  <1>2. ASSUME NEW r \in Runs, Reconcile(r)
        PROVE  /\ TypeOK' /\ RunsAreOnPaths' /\ Aware'
               /\ newest' = newest /\ served' \in served..newest
    BY <1>0, <1>2, ReconcileTypes, ReconcileAware
  <1>3. served \in served..newest
    BY <1>0 DEF TypeOK, Aware, RunsAreAware
  <1>4. ASSUME FileTypes', UNCHANGED connecting, LeavesManifest
        PROVE  /\ TypeOK' /\ RunsAreOnPaths' /\ Aware'
               /\ newest' = newest /\ served' \in served..newest
    <2>1. TypeOK' /\ RunsAreOnPaths'
      BY <1>0, <1>4, OutsideTypes
    <2>2. Aware' /\ UNCHANGED <<newest, served>>
      BY <1>0, <1>4
      DEF LeavesManifest, runVars, Aware, SingleFlight, RunsAreAware, RunIsAware,
          RequestsAreServed, Running
    <2> QED
      BY <1>3, <2>1, <2>2
  <1>5. ASSUME FileTypes', MovesManifest
        PROVE  /\ TypeOK' /\ RunsAreOnPaths' /\ Aware'
               /\ newest' = newest + 1 /\ served' = served
    BY <1>0, <1>5, OutsideTypes, RequestKept DEF MovesManifest, Reproject
  <1>6. CASE ScanDone
    <2>1. FileTypes' /\ OnlyReconciles
      BY <1>0, <1>6 DEF ScanDone, FileTypes, TypeOK, OnlyReconciles, boundVars
    <2>2. newest' = newest
      BY <2>1 DEF OnlyReconciles
    <2> QED
      BY <1>0, <1>3, <2>1, <2>2, OutsideTypes, RequestKept
  <1>7. ASSUME NEW p \in Paths, NEW q \in Paths,
               Read(p) \/ UserCreates(p) \/ UserDeletes(p) \/ UserRenames(p, q)
        PROVE  FileTypes' /\ UNCHANGED connecting /\ (LeavesManifest \/ MovesManifest)
    BY <1>0, <1>7, ReadTypes, UserTypesHold
  <1>8. CASE \/ \E kind \in {"create", "delete", "rename"}, p \in Paths : IgnoreEnds(kind, p)
             \/ \E f \in Projection : Frame(f)
             \/ \E n \in Nodes : ReceiveText(n)
    BY <1>0, <1>4, <1>5, <1>8, EnvironmentTypes
  <1>9. CASE UNCHANGED vars
    <2>1. FileTypes' /\ UNCHANGED connecting /\ LeavesManifest
      BY <1>0, <1>9 DEF vars, readVars, boundVars, FileTypes, TypeOK, LeavesManifest
    <2> QED
      BY <1>4, <2>1
  <1> QED
    BY <1>2, <1>4, <1>5, <1>6, <1>7, <1>8, <1>9 DEF Next

\* The inductive invariant.
THEOREM Inductive == Spec => []IInv
  <1>1. ASSUME Init PROVE IInv
    <2>1. TypeOK
      <3>1. NothingProjected \in Projection
        BY DEF NothingProjected, Projection
      <3>2. run \in [Runs -> RunType]
        BY <1>1, FreshRuns DEF Init
      <3>3. scanning \subseteq Paths /\ ingesting \in [Paths -> Nat]
        BY <1>1 DEF Init
      <3> QED
        BY <1>1, <3>1, <3>2, <3>3 DEF Init, TypeOK
    <2>2. \A r \in Runs : run[r].phase = "idle"
      BY <1>1, FreshRuns DEF Init
    <2>3. RunsAreOnPaths /\ SingleFlight /\ RunsAreAware /\ RequestsAreServed
      BY <1>1, <2>2
      DEF Init, RunsAreOnPaths, OnItsPath, SingleFlight, RunsAreAware, RunIsAware, RequestsAreServed
    <2> QED
      BY <2>1, <2>3 DEF IInv
  <1>2. IInv /\ [Next]_vars => IInv'
    BY StepOfIInv
  <1> QED
    BY <1>1, <1>2, PTL DEF Spec

\* The variables keep their types.
THEOREM TypeCorrect == Spec => []TypeOK
  <1>1. IInv => TypeOK
    BY DEF IInv
  <1> QED
    BY <1>1, Inductive, PTL

\* A projection that lastProjection does not have yet is going to be
\* published: a request is never forgotten, wherever it meets the run.
THEOREM RequestsAreKept == Spec => []RequestsAreServed
  <1>1. IInv => RequestsAreServed
    BY DEF IInv
  <1> QED
    BY <1>1, Inductive, PTL

\* The reconcile implements LatestWins: what it publishes never goes back.
THEOREM Refinement == Spec => PublishesInOrder
  <1>1. Init => Follows!Init
    BY DEF Init, Follows!Init
  <1>2. IInv /\ [Next]_vars => [Follows!Next]_(Follows!vars)
    BY StepOfIInv
  <1> QED
    BY <1>1, <1>2, Inductive, PTL DEF Spec, PublishesInOrder, Follows!Spec

-----------------------------------------------------------------------------
(* Texts and rows *)

\* A plugin that has only just connected: nothing is due, and no placeholder is
\* made.
Untouched == connecting /\ due = {} /\ \A p \in Paths : file[p] # Blank

\* What a run has read is the manifest's present projection, or another pass
\* is on the record; and a plugin at rest has published it, but at the very
\* beginning.
RowsAreKnown ==
  /\ \A r \in Runs :
       /\ run[r].phase = "remove" => run[r].snap = live \/ pending
       /\ run[r].phase \in {"add", "end"} => run[r].snap = last /\ (last = live \/ pending)
  /\ Running \/ last = live \/ Untouched

\* Outside the runs, the manifest changes with a request only, and so does a
\* plugin that is as it was at the beginning.
LEMMA OutsideDue ==
  ASSUME TypeOK,
         \/ \E p \in Paths : Read(p) \/ UserCreates(p) \/ UserDeletes(p)
         \/ \E p, q \in Paths : UserRenames(p, q)
         \/ \E kind \in {"create", "delete", "rename"}, p \in Paths : IgnoreEnds(kind, p)
         \/ \E f \in Projection : Frame(f)
         \/ \E n \in Nodes : ReceiveText(n)
         \/ UNCHANGED vars
  PROVE  \/ UNCHANGED <<live, runVars>> /\ (Untouched => Untouched')
         \/ CallReconcile /\ UNCHANGED last
  <1>1. ASSUME NEW p \in Paths, Read(p)
        PROVE  \/ UNCHANGED <<live, runVars>> /\ (Untouched => Untouched')
               \/ CallReconcile /\ UNCHANGED last
    <2>1. ReadFile(p) /\ UNCHANGED connecting
      BY <1>1 DEF Read, ScanFile, Ingest
    <2> QED
      BY <2>1 DEF ReadFile, CreateNode, Reproject, Untouched
  <1>2. ASSUME NEW p \in Paths, NEW q \in Paths, UserCreates(p) \/ UserDeletes(p) \/ UserRenames(p, q)
        PROVE  \/ UNCHANGED <<live, runVars>> /\ (Untouched => Untouched')
               \/ CallReconcile /\ UNCHANGED last
    <2>1. Untouched => \A x \in Paths : file'[x] # Blank
      BY <1>2, PluginVaultAssumption DEF UserCreates, UserDeletes, UserRenames, Untouched, TypeOK
    <2>2. UNCHANGED connecting
      BY <1>2 DEF UserCreates, UserDeletes, UserRenames, readVars, Follow
    <2>3. UNCHANGED <<live, runVars, due>> \/ (CallReconcile /\ UNCHANGED last)
      BY <1>2 DEF UserCreates, UserDeletes, UserRenames, Unchanged, Reproject
    <2> QED
      BY <2>1, <2>2, <2>3 DEF Untouched
  <1>3. CASE \/ \E kind \in {"create", "delete", "rename"}, p \in Paths : IgnoreEnds(kind, p)
             \/ \E f \in Projection : Frame(f)
             \/ \E n \in Nodes : ReceiveText(n)
             \/ UNCHANGED vars
    BY <1>3 DEF IgnoreEnds, Frame, Reproject, ReceiveText, vars, readVars, Untouched
  <1> QED
    BY <1>1, <1>2, <1>3

\* Every step preserves RowsAreKnown: a run publishes the rows before it
\* subscribes their nodes.
LEMMA RowsKnownNext ==
  ASSUME IInv, RowsAreKnown, [Next]_vars
  PROVE  RowsAreKnown'
  <1> USE DEF IInv
  <1>1. ASSUME UNCHANGED <<live, runVars>>, Untouched => Untouched' PROVE RowsAreKnown'
    BY <1>1 DEF RowsAreKnown, runVars, Running
  <1>2. ASSUME CallReconcile, UNCHANGED last PROVE RowsAreKnown'
    <2>1. CASE Running
      <3>1. pending' = TRUE /\ run' = run
        BY <1>2, <2>1, CallReconcileSets
      <3> QED
        BY <1>2, <2>1, <3>1 DEF RowsAreKnown, Running
    <2>2. CASE ~Running
      <3>1. PICK r \in Runs : /\ run'[r].phase = "start"
                              /\ \A s \in Runs \ {r} : run'[s] = run[s] /\ run[s].phase = "idle"
        BY <1>2, <2>2, CallReconcileSets
      <3> QED
        BY <3>1 DEF RowsAreKnown, Running
    <2> QED
      BY <2>1, <2>2
  <1>3. ASSUME NEW r \in Runs, Reconcile(r) PROVE RowsAreKnown'
    <2>0. /\ run[r] \in RunType
          /\ run[r].phase = "remove" => run[r].snap = live \/ pending
          /\ run[r].phase \in {"add", "end"} => run[r].snap = last /\ (last = live \/ pending)
      BY DEF TypeOK, RowsAreKnown
    <2>1. \A s \in Runs \ {r} : run[s].phase = "idle"
      BY <1>3 DEF SingleFlight, Reconcile, StartPass, RemoveLocalFile, RenameLocalFile,
             CreatePlaceholder, EndPass
    <2>2. live' = live
      BY <1>3 DEF Reconcile, StartPass, RemoveLocalFile, RenameLocalFile, CreatePlaceholder, EndPass
    <2>3. SUFFICES /\ \A s \in Runs \ {r} : run'[s] = run[s]
                   /\ run'[r].phase = "remove" => run'[r].snap = live \/ pending'
                   /\ run'[r].phase \in {"add", "end"} =>
                        run'[r].snap = last' /\ (last' = live \/ pending')
                   /\ run'[r].phase = "idle" => last' = live
      BY <2>1, <2>2 DEF RowsAreKnown, Running
    <2>4. ASSUME NEW me \in RunType, NEW files, NEW subs \in SUBSET Nodes, NEW p,
                 ContinueRemoving(r, me, files, subs, p), me.snap = live \/ pending'
          PROVE  /\ \A s \in Runs \ {r} : run'[s] = run[s]
                 /\ run'[r].snap = live \/ pending'
                 /\ run'[r].phase \in {"add", "end"} =>
                        run'[r].snap = last' /\ (last' = live \/ pending')
                 /\ run'[r].phase # "idle"
      <3>1. /\ \A s \in Runs \ {r} : run'[s] = run[s]
            /\ run'[r].snap = me.snap
            /\ \/ run'[r].phase = "remove"
               \/ run'[r].phase \in {"add", "end"} /\ last' = me.snap
        BY <2>4, ContinueRemovingSets
      <3> QED
        BY <2>4, <3>1
    <2>5. CASE StartPass(r)
      <3> DEFINE me == [run[r] EXCEPT !.snap = live, !.seen = newest]
      <3>1. me \in RunType /\ me.snap = live
        BY <2>0 DEF TypeOK, RunType
      <3>2. ContinueRemoving(r, me, file, subscribed, 1) /\ subscribed \in SUBSET Nodes
        BY <2>5 DEF StartPass, TypeOK
      <3> HIDE DEF me
      <3> QED
        BY <2>4, <3>1, <3>2
    <2>6. CASE RemoveLocalFile(r) \/ RenameLocalFile(r)
      <3>1. PICK subs \in SUBSET Nodes : ContinueRemoving(r, run[r], file', subs, run[r].at + 1)
        BY <2>6, Continues DEF Unsubscribed, TypeOK
      <3>2. run[r].phase = "remove" /\ pending' = pending
        BY <2>6 DEF RemoveLocalFile, RenameLocalFile
      <3> QED
        BY <2>0, <2>4, <3>1, <3>2
    <2>7. CASE CreatePlaceholder(r)
      <3>1. PICK files : ContinueAdding(r, run[r], files, subscribed, run[r].at)
        BY <2>7 DEF CreatePlaceholder
      <3>2. run[r].phase = "add" /\ UNCHANGED <<last, pending>> /\ subscribed \in SUBSET Nodes
        BY <2>7 DEF CreatePlaceholder, TypeOK
      <3>3. /\ run'[r].phase \in {"add", "end"} /\ run'[r].snap = run[r].snap
            /\ \A s \in Runs \ {r} : run'[s] = run[s]
        BY <2>0, <3>1, <3>2, ContinueAddingSets
      <3> QED
        BY <2>0, <3>2, <3>3
    <2>8. CASE EndPass(r)
      <3>1. /\ run[r].phase = "end" /\ UNCHANGED <<last, pending>>
            /\ run' = [run EXCEPT ![r] = IF pending THEN StartedRun ELSE IdleRun]
        BY <2>8 DEF EndPass
      <3>2. /\ run'[r].phase = IF pending THEN "start" ELSE "idle"
            /\ \A s \in Runs \ {r} : run'[s] = run[s]
        BY <3>1, FreshRuns DEF TypeOK
      <3> QED
        BY <2>0, <3>1, <3>2
    <2> QED
      BY <1>3, <2>5, <2>6, <2>7, <2>8 DEF Reconcile
  <1>4. CASE ScanDone
    BY <1>2, <1>4 DEF ScanDone
  <1> QED
    BY <1>1, <1>2, <1>3, <1>4, OutsideDue DEF Next

\* A node's text that comes meets its row, whatever the server sends and the
\* user does while a pass is under way.
THEOREM TextsFindRows == Spec => []RowsBeforeTexts
  <1>1. ASSUME Init PROVE RowsAreKnown
    <2>1. \A p \in Paths : file[p] # Blank
      BY <1>1, PluginVaultAssumption DEF Init, Projection
    <2> QED
      BY <1>1, <2>1, FreshRuns DEF Init, RowsAreKnown, Untouched
  <1>2. IInv /\ RowsAreKnown /\ [Next]_vars => RowsAreKnown'
    BY RowsKnownNext
  <1>3. IInv /\ RowsAreKnown => RowsBeforeTexts
    <2> SUFFICES ASSUME IInv, RowsAreKnown, NEW n \in due \cap Range(live), n \notin Range(last), ~pending
                 PROVE  \E r \in Runs : run[r].phase \in {"start", "remove"}
      BY DEF RowsBeforeTexts
    <2>1. Running /\ \A r \in Runs : run[r].phase \notin {"add", "end"}
      BY DEF RowsAreKnown, Untouched
    <2>2. \A r \in Runs : run[r].phase \in Phases
      BY DEF IInv, TypeOK, RunType
    <2> QED
      BY <2>1, <2>2 DEF Running, Phases
  <1> QED
    BY <1>1, <1>2, <1>3, Inductive, PTL DEF Spec
-----------------------------------------------------------------------------
(* The agreement at rest: what is under way for every difference *)

\* Path p is node n's: in the manifest, in lastProjection or in what is about
\* to replace it, but for a row whose file is already gone from there.
Owns(p, n) ==
  \/ live[p] = n
  \/ Known(p, n)
  \/ last[p] = n /\ ~Replaced(p)

\* A file is at a path of some node, or is still to be read.
FilesAreListed ==
  \A p \in Paths : file[p] # NoFile =>
    \/ \E n \in Nodes : Owns(p, n)
    \/ file[p] # Blank /\ (p \in scanning \/ ingesting[p] > 0)

\* A node that has got its text has a row,
SubscribedHaveRows == subscribed \ due \subseteq Range(last)

\* and shows it at a path of its own.
Shown(n) == \E p \in Paths : file[p] = n /\ Owns(p, n)

TextsAreShown == \A n \in (subscribed \ due) \cap Range(live) : Shown(n)

\* Every row is subscribed, by the run under way or by the next one.
RowsAreSubscribed ==
  \/ pending
  \/ \E r \in Runs : run[r].phase \in {"start", "remove"}
  \/ \A p \in Rows(last) :
       last[p] \in subscribed \/ \E r \in Runs : run[r].phase = "add" /\ run[r].at <= p

\* A run takes the subscription away from the nodes that it finds gone,
GoneAreUnsubscribed ==
  \A r \in Runs, p \in Rows(last) :
    run[r].phase = "remove" /\ p < run[r].at /\ last[p] \notin Range(run[r].snap) =>
      last[p] \notin subscribed

\* and touches the files of rows only.
RunsAreAtRows == \A r \in Runs : run[r].phase \in {"remove", "add"} => run[r].at \in Rows(last)

\* A request is kept for a run only.
RequestsHaveRuns == pending => Running

RestInv ==
  /\ RowsAreKnown /\ RequestsHaveRuns
  /\ RowsAreSubscribed /\ GoneAreUnsubscribed /\ RunsAreAtRows
  /\ amiss = {} => FilesAreListed /\ SubscribedHaveRows /\ TextsAreShown

\* The steps that are not a run's.
Outside ==
  \/ \E p \in Paths : Read(p) \/ UserCreates(p) \/ UserDeletes(p)
  \/ \E p, q \in Paths : UserRenames(p, q)
  \/ \E kind \in {"create", "delete", "rename"}, p \in Paths : IgnoreEnds(kind, p)
  \/ \E f \in Projection : Frame(f)
  \/ \E n \in Nodes : ReceiveText(n)
  \/ ScanDone
  \/ UNCHANGED vars

\* They leave the rows alone, and begin runs at most.
LEMMA OutsideRuns ==
  ASSUME IInv, Outside
  PROVE  /\ last' = last
         /\ \/ run' = run /\ (pending' = pending \/ (pending' = TRUE /\ Running))
            \/ ~Running /\ \E r \in Runs : /\ run'[r].phase = "start"
                                           /\ \A s \in Runs \ {r} : run'[s] = run[s]
         /\ live' = live \/ Running'
  <1>1. LeavesManifest \/ MovesManifest \/ OnlyReconciles
    <2>1. ASSUME NEW p \in Paths, NEW q \in Paths,
                 Read(p) \/ UserCreates(p) \/ UserDeletes(p) \/ UserRenames(p, q)
          PROVE  LeavesManifest \/ MovesManifest
      BY <2>1, ReadTypes, UserTypesHold DEF IInv
    <2>2. CASE \/ \E kind \in {"create", "delete", "rename"}, p \in Paths : IgnoreEnds(kind, p)
               \/ \E f \in Projection : Frame(f)
               \/ \E n \in Nodes : ReceiveText(n)
      BY <2>2, EnvironmentTypes DEF IInv
    <2>3. CASE ScanDone
      BY <2>3 DEF ScanDone, OnlyReconciles
    <2>4. CASE UNCHANGED vars
      BY <2>4 DEF vars, LeavesManifest
    <2> QED
      BY <2>1, <2>2, <2>3, <2>4 DEF Outside
  <1>2. CASE LeavesManifest
    BY <1>2 DEF LeavesManifest, runVars
  <1>3. CASE MovesManifest \/ OnlyReconciles
    <2>1. CallReconcile /\ last' = last
      BY <1>3 DEF MovesManifest, OnlyReconciles, Reproject
    <2>2. CASE Running
      <3>1. pending' = TRUE /\ run' = run
        BY <2>1, <2>2, CallReconcileSets DEF IInv
      <3> QED
        BY <2>1, <2>2, <3>1 DEF Running
    <2>3. CASE ~Running
      <3>1. PICK r \in Runs : run'[r].phase = "start" /\ \A s \in Runs \ {r} : run'[s] = run[s]
        BY <2>1, <2>3, CallReconcileSets DEF IInv
      <3>2. Running'
        BY <3>1 DEF Running
      <3> QED
        BY <2>1, <2>3, <3>1, <3>2
    <2> QED
      BY <2>2, <2>3
  <1> QED
    BY <1>1, <1>2, <1>3

\* What the plugin knows, and what it has replaced, stays.
LEMMA OutsideKnows ==
  ASSUME IInv, Outside, NEW p \in Paths
  PROVE  /\ Replaced(p)' <=> Replaced(p)
         /\ \A n \in Nodes : Known(p, n)' <=> Known(p, n)
  <1>1. last' = last
    BY OutsideRuns
  <1>2. \A r \in Runs : /\ run'[r].phase = "remove" <=> run[r].phase = "remove"
                        /\ run[r].phase = "remove" => run'[r] = run[r]
    <2>1. CASE run' = run
      BY <2>1
    <2>2. CASE ~Running /\ \E r \in Runs : /\ run'[r].phase = "start"
                                           /\ \A s \in Runs \ {r} : run'[s] = run[s]
      BY <2>2 DEF Running
    <2> QED
      BY <2>1, <2>2, OutsideRuns
  <1> QED
    BY <1>1, <1>2 DEF Replaced, Known

\* A path remains a node's, unless its row changes before the plugin knows it.
LEMMA OutsideOwns ==
  ASSUME IInv, Outside, NEW p \in Paths, NEW n \in Nodes
  PROVE  /\ live'[p] = n => Owns(p, n)'
         /\ Owns(p, n) /\ (live[p] = n => live'[p] = n \/ Known(p, n)) => Owns(p, n)'
  BY OutsideKnows, OutsideRuns DEF Owns

-----------------------------------------------------------------------------
(* The agreement at rest: subscriptions *)

\* A row that the run passes is subscribed, and what it subscribes is due.
LEMMA AddingSubscribes ==
  ASSUME TypeOK, NEW r \in Runs, NEW me \in RunType, NEW files,
         NEW subs \in SUBSET Nodes, NEW p \in Nat, ContinueAdding(r, me, files, subs, p)
  PROVE  /\ subs \subseteq subscribed' /\ subscribed' \ due' \subseteq subs \ due
         /\ run'[r].phase = "add" => run'[r].at \in Rows(me.snap)
         /\ \A q \in Rows(me.snap) : q >= p =>
              me.snap[q] \in subscribed' \/ (run'[r].phase = "add" /\ run'[r].at <= q)
  <1> DEFINE missing == Missing(me.snap, files, p)
             passed  == {q \in Rows(me.snap) : q >= p /\ \A m \in missing : q < m}
  <1>1. /\ subscribed' = subs \cup ({me.snap[q] : q \in passed} \ subs)
        /\ due' = (due \cap subs) \cup ({me.snap[q] : q \in passed} \ subs)
        /\ IF missing = {} THEN Goto(r, me, "end", 0) ELSE Goto(r, me, "add", Min(missing))
    BY DEF ContinueAdding
  <1>2. missing \subseteq Rows(me.snap) /\ Rows(me.snap) \subseteq Nat
    BY PluginVaultAssumption DEF Missing, Rows, Paths
  <1> HIDE DEF missing
  <1>3. ASSUME NEW q \in passed PROVE me.snap[q] \in subscribed'
    BY <1>1
  <1>4. CASE missing = {}
    <2>1. run'[r].phase = "end"
      BY <1>1, <1>4, GotoSets, PluginVaultAssumption DEF TypeOK, Phases
    <2>2. \A q \in Rows(me.snap) : q >= p => q \in passed
      BY <1>4
    <2> QED
      BY <1>1, <1>3, <2>1, <2>2
  <1>5. CASE missing # {}
    <2>1. missing \subseteq Nat
      BY <1>2
    <2>2. Min(missing) \in missing /\ \A m \in missing : Min(missing) <= m
      BY <1>5, <2>1, MinIsLeast
    <2>3. Min(missing) \in Paths
      BY <1>2, <2>2 DEF Rows
    <2>4. Min(missing) \in 0..N /\ "add" \in Phases
      BY <2>3, PluginVaultAssumption DEF Paths, Phases
    <2>5. run'[r].phase = "add" /\ run'[r].at = Min(missing)
      BY <1>1, <1>5, <2>4, GotoSets DEF TypeOK
    <2>6. ASSUME NEW q \in Rows(me.snap), q >= p, ~(Min(missing) <= q) PROVE q \in passed
      <3>1. q \in Nat /\ Min(missing) \in Nat
        BY <1>2, <2>2
      <3>2. \A m \in missing : q < m
        BY <1>2, <2>2, <2>6, <3>1
      <3> QED
        BY <2>6, <3>2
    <2> QED
      BY <1>1, <1>2, <1>3, <2>2, <2>5, <2>6
  <1> QED
    BY <1>4, <1>5

\* The loop over the old rows passes those that stay, up to the next one that
\* does not, or to the end.
LEMMA RemovingSubscribes ==
  ASSUME TypeOK, NEW r \in Runs, NEW me \in RunType, NEW files,
         NEW subs \in SUBSET Nodes, NEW p \in Nat, ContinueRemoving(r, me, files, subs, p)
  PROVE  /\ subscribed' \ due' \subseteq subs \ due
         /\ \/ /\ run'[r].phase = "remove" /\ last' = last /\ subscribed' = subs
               /\ run'[r].at \in Rows(last)
               /\ \A q \in Rows(last) : p <= q /\ q < run'[r].at => me.snap[q] = last[q]
            \/ /\ run'[r].phase \in {"add", "end"} /\ last' = me.snap
               /\ \A q \in Rows(last) : p <= q => me.snap[q] = last[q]
               /\ run'[r].phase = "add" => run'[r].at \in Rows(last')
               /\ \A q \in Rows(last') :
                    last'[q] \in subscribed' \/ (run'[r].phase = "add" /\ run'[r].at <= q)
  <1>0. Rows(last) \subseteq Nat /\ \A q \in Rows(me.snap) : q >= 1
    BY PluginVaultAssumption DEF Rows, Paths
  <1>1. CASE Leaving(me.snap, p) = {}
    <2>1. last' = me.snap /\ ContinueAdding(r, me, files, subs, 1)
      BY <1>1 DEF ContinueRemoving, Publish
    <2>2. \A q \in Rows(last) : p <= q => me.snap[q] = last[q]
      BY <1>0, <1>1 DEF Leaving
    <2>3. run'[r].phase \in {"add", "end"}
      BY <2>1, ContinueAddingSets
    <2>4. /\ subscribed' \ due' \subseteq subs \ due
          /\ run'[r].phase = "add" => run'[r].at \in Rows(me.snap)
          /\ \A q \in Rows(me.snap) : q >= 1 =>
               me.snap[q] \in subscribed' \/ (run'[r].phase = "add" /\ run'[r].at <= q)
      BY <2>1, AddingSubscribes
    <2>5. Rows(last') = Rows(me.snap)
      BY <2>1
    <2> QED
      BY <1>0, <2>1, <2>2, <2>3, <2>4, <2>5
  <1>2. CASE Leaving(me.snap, p) # {}
    <2>1. /\ Goto(r, me, "remove", Min(Leaving(me.snap, p)))
          /\ subscribed' = subs /\ due' = due \cap subs /\ last' = last
      BY <1>2 DEF ContinueRemoving
    <2>2. Leaving(me.snap, p) \subseteq Paths /\ Leaving(me.snap, p) \subseteq Nat
      BY <1>0 DEF Leaving, Rows
    <2>3. /\ Min(Leaving(me.snap, p)) \in Leaving(me.snap, p)
          /\ \A q \in Leaving(me.snap, p) : Min(Leaving(me.snap, p)) <= q
      BY <1>2, <2>2, MinIsLeast
    <2>4. Min(Leaving(me.snap, p)) \in 0..N /\ "remove" \in Phases
      BY <2>2, <2>3, PluginVaultAssumption DEF Paths, Phases
    <2>5. run'[r].phase = "remove" /\ run'[r].at = Min(Leaving(me.snap, p))
      BY <2>1, <2>4, GotoSets DEF TypeOK
    <2>6. ASSUME NEW q \in Rows(last), p <= q, q < run'[r].at PROVE me.snap[q] = last[q]
      <3>1. q \in Nat /\ run'[r].at \in Nat
        BY <1>0, <2>2, <2>3, <2>5
      <3>2. q \notin Leaving(me.snap, p)
        BY <2>3, <2>5, <2>6, <3>1
      <3> QED
        BY <2>6, <3>1, <3>2 DEF Leaving
    <2> QED
      BY <2>1, <2>3, <2>5, <2>6 DEF Leaving
  <1> QED
    BY <1>1, <1>2

\* It passes the rows that stay.
LEMMA RemovingPasses ==
  ASSUME TypeOK, NEW r \in Runs, NEW me \in RunType, NEW files,
         NEW subs \in SUBSET Nodes, NEW p \in Nat, ContinueRemoving(r, me, files, subs, p)
  PROVE  \/ /\ run'[r].phase = "remove" /\ last' = last
            /\ \A q \in Rows(last) : p <= q /\ q < run'[r].at => me.snap[q] = last[q]
         \/ /\ run'[r].phase \in {"add", "end"} /\ last' = me.snap
            /\ \A q \in Rows(last) : p <= q => me.snap[q] = last[q]
  BY RemovingSubscribes

\* One run is under way.
LEMMA OthersAreIdle ==
  ASSUME IInv, NEW r \in Runs, Reconcile(r)
  PROVE  \A s \in Runs \ {r} : run[s].phase = "idle" /\ run'[s] = run[s]
  <1>1. \A s \in Runs \ {r} : run[s].phase = "idle"
    BY DEF IInv, SingleFlight, Reconcile, StartPass, RemoveLocalFile, RenameLocalFile,
           CreatePlaceholder, EndPass
  <1>2. \A s \in Runs \ {r} : run'[s] = run[s]
    <2>1. ASSUME NEW me \in RunType, NEW files, NEW subs \in SUBSET Nodes, NEW p,
                 ContinueRemoving(r, me, files, subs, p)
          PROVE  \A s \in Runs \ {r} : run'[s] = run[s]
      BY <2>1, ContinueRemovingSets DEF IInv
    <2>2. CASE StartPass(r)
      <3> DEFINE me == [run[r] EXCEPT !.snap = live, !.seen = newest]
      <3>1. me \in RunType
        BY DEF IInv, TypeOK, RunType
      <3>2. ContinueRemoving(r, me, file, subscribed, 1) /\ subscribed \in SUBSET Nodes
        BY <2>2 DEF StartPass, IInv, TypeOK
      <3> HIDE DEF me
      <3> QED
        BY <2>1, <3>1, <3>2
    <2>3. CASE RemoveLocalFile(r) \/ RenameLocalFile(r)
      <3>1. PICK subs \in SUBSET Nodes : ContinueRemoving(r, run[r], file', subs, run[r].at + 1)
        BY <2>3, Continues DEF Unsubscribed, IInv, TypeOK
      <3> QED
        BY <2>1, <3>1 DEF IInv, TypeOK
    <2>4. CASE CreatePlaceholder(r)
      <3>1. PICK files : ContinueAdding(r, run[r], files, subscribed, run[r].at)
        BY <2>4 DEF CreatePlaceholder
      <3> QED
        BY <3>1, ContinueAddingSets DEF IInv, TypeOK
    <2>5. CASE EndPass(r)
      BY <2>5 DEF EndPass, IInv, TypeOK
    <2> QED
      BY <2>2, <2>3, <2>4, <2>5 DEF Reconcile
  <1> QED
    BY <1>1, <1>2

Subscriptions == RowsAreSubscribed /\ GoneAreUnsubscribed /\ RunsAreAtRows

\* The walk over the old rows goes on from somewhere, and the nodes behind it
\* that are gone are not subscribed any more.
LEMMA PassGoesOn ==
  ASSUME IInv, GoneAreUnsubscribed, NEW r \in Runs,
         StartPass(r) \/ RemoveLocalFile(r) \/ RenameLocalFile(r)
  PROVE  \E me \in RunType, files \in {file, file'}, subs \in SUBSET subscribed, p \in Nat :
           /\ ContinueRemoving(r, me, files, subs, p)
           /\ \A q \in Rows(last) : q < p /\ last[q] \notin Range(me.snap) => last[q] \notin subs
  <1> USE DEF IInv
  <1>1. run[r] \in RunType /\ subscribed \in SUBSET Nodes /\ Rows(last) \subseteq Nat /\ run[r].at \in Nat
    BY PluginVaultAssumption DEF TypeOK, Rows, Paths, RunType
  <1>2. CASE StartPass(r)
    <2> DEFINE me == [run[r] EXCEPT !.snap = live, !.seen = newest]
    <2>1. me \in RunType
      BY <1>1 DEF TypeOK, RunType
    <2>2. ContinueRemoving(r, me, file, subscribed, 1)
      BY <1>2 DEF StartPass
    <2>3. \A q \in Rows(last) : ~(q < 1)
      BY PluginVaultAssumption DEF Rows, Paths
    <2> HIDE DEF me
    <2> QED
      BY <2>1, <2>2, <2>3
  <1>3. CASE RemoveLocalFile(r) \/ RenameLocalFile(r)
    <2> DEFINE a == run[r].at
    <2>0. run[r].phase = "remove"
      BY <1>3 DEF RemoveLocalFile, RenameLocalFile
    <2>1. run[r].phase = "remove" /\ a + 1 \in Nat
      BY <1>1, <2>0
    <2>2. PICK subs \in SUBSET subscribed :
            /\ ContinueRemoving(r, run[r], file', subs, a + 1)
            /\ last[a] \notin Range(run[r].snap) => last[a] \notin subs
      <3>1. CASE RemoveLocalFile(r)
        <4> DEFINE subs == Unsubscribed(last[a])
        <4>1. subs \in SUBSET subscribed /\ last[a] \notin subs
          BY DEF Unsubscribed
        <4>2. ContinueRemoving(r, run[r], file', subs, a + 1)
          BY <3>1, Continues
        <4> QED
          BY <4>1, <4>2
      <3>2. CASE RenameLocalFile(r)
        <4>1. PathsOf(run[r].snap, last[a]) # {}
          BY <3>2 DEF RenameLocalFile
        <4>2. last[a] \in Range(run[r].snap)
          BY <1>1, <4>1 DEF PathsOf, Range, RunType, Projection
        <4> QED
          BY <3>2, <4>2, Continues
      <3> QED
        BY <1>3, <3>1, <3>2
    <2>3. ASSUME NEW q \in Rows(last), q < a + 1, last[q] \notin Range(run[r].snap)
          PROVE  last[q] \notin subs
      <3>1. q = a \/ q < a
        BY <1>1, <2>3
      <3> QED
        BY <2>1, <2>2, <2>3, <3>1 DEF GoneAreUnsubscribed
    <2> QED
      BY <1>1, <2>1, <2>2, <2>3
  <1> QED
    BY <1>2, <1>3

\* A run subscribes the rows that it publishes, and no node that it finds gone.
LEMMA ReconcileSubscribes ==
  ASSUME IInv, RowsAreKnown, Subscriptions, NEW r \in Runs, Reconcile(r)
  PROVE  Subscriptions'
  <1> USE DEF IInv
  <1>0. run[r] \in RunType /\ subscribed \in SUBSET Nodes /\ Rows(last) \subseteq Nat /\ run[r].at \in Nat
    BY PluginVaultAssumption DEF TypeOK, Rows, Paths, RunType
  <1>1. \A s \in Runs \ {r} : run[s].phase = "idle" /\ run'[s] = run[s]
    BY OthersAreIdle
  <1>2. ASSUME NEW me \in RunType, NEW files, NEW subs \in SUBSET Nodes, NEW p \in Nat,
               ContinueRemoving(r, me, files, subs, p),
               \A q \in Rows(last) : q < p /\ last[q] \notin Range(me.snap) => last[q] \notin subs
        PROVE  Subscriptions'
    <2>1. run'[r].snap = me.snap
      BY <1>2, ContinueRemovingSets
    <2>2. CASE /\ run'[r].phase = "remove" /\ last' = last /\ subscribed' = subs
               /\ run'[r].at \in Rows(last)
               /\ \A q \in Rows(last) : p <= q /\ q < run'[r].at => me.snap[q] = last[q]
      <3>1. ASSUME NEW q \in Rows(last), q < run'[r].at, last[q] \notin Range(me.snap)
            PROVE  last[q] \notin subs
        <4>1. CASE q < p
          BY <1>2, <3>1, <4>1
        <4>2. CASE p <= q
          <5>1. me.snap[q] = last[q] /\ q \in DOMAIN me.snap
            BY <2>2, <3>1, <4>2 DEF Rows, RunType, Projection
          <5> QED
            BY <3>1, <5>1 DEF Range
        <4> QED
          BY <1>0, <4>1, <4>2
      <3> QED
        BY <1>1, <2>1, <2>2, <3>1
        DEF Subscriptions, RowsAreSubscribed, GoneAreUnsubscribed, RunsAreAtRows, Rows
    <2>3. CASE /\ run'[r].phase \in {"add", "end"}
               /\ run'[r].phase = "add" => run'[r].at \in Rows(last')
               /\ \A q \in Rows(last') :
                    last'[q] \in subscribed' \/ (run'[r].phase = "add" /\ run'[r].at <= q)
      BY <1>1, <2>3 DEF Subscriptions, RowsAreSubscribed, GoneAreUnsubscribed, RunsAreAtRows, Rows
    <2> QED
      BY <1>2, <2>2, <2>3, RemovingSubscribes
  <1>3. CASE StartPass(r) \/ RemoveLocalFile(r) \/ RenameLocalFile(r)
    BY <1>0, <1>2, <1>3, PassGoesOn DEF Subscriptions
  <1>4. CASE CreatePlaceholder(r)
    <2>1. PICK files : ContinueAdding(r, run[r], files, subscribed, run[r].at)
      BY <1>4 DEF CreatePlaceholder
    <2>2. run[r].phase = "add" /\ UNCHANGED last /\ run[r].snap = last
      BY <1>4 DEF CreatePlaceholder, RowsAreKnown
    <2>3. run'[r].phase \in {"add", "end"}
      BY <1>0, <2>1, ContinueAddingSets
    <2>4. /\ subscribed \subseteq subscribed'
          /\ run'[r].phase = "add" => run'[r].at \in Rows(run[r].snap)
          /\ \A q \in Rows(run[r].snap) : q >= run[r].at =>
               run[r].snap[q] \in subscribed' \/ (run'[r].phase = "add" /\ run'[r].at <= q)
      BY <1>0, <2>1, AddingSubscribes
    <2>5. pending' = pending
      BY <1>4 DEF CreatePlaceholder
    <2>6. ASSUME ~pending, NEW q \in Rows(last)
          PROVE  last[q] \in subscribed' \/ (run'[r].phase = "add" /\ run'[r].at <= q)
      <3>1. CASE q >= run[r].at
        BY <2>2, <2>4, <3>1
      <3>2. CASE ~(q >= run[r].at)
        <4>1. q \in Nat /\ ~(run[r].at <= q)
          BY <1>0, <3>2
        <4>2. last[q] \in subscribed
          BY <1>1, <2>2, <2>6, <4>1 DEF Subscriptions, RowsAreSubscribed
        <4> QED
          BY <2>4, <4>2
      <3> QED
        BY <3>1, <3>2
    <2> QED
      BY <1>1, <2>2, <2>3, <2>4, <2>5, <2>6
      DEF Subscriptions, RowsAreSubscribed, GoneAreUnsubscribed, RunsAreAtRows, Rows
  <1>5. CASE EndPass(r)
    <2>1. /\ run[r].phase = "end" /\ UNCHANGED <<last, pending, subscribed>>
          /\ run'[r].phase = IF pending THEN "start" ELSE "idle"
      BY <1>5, FreshRuns DEF EndPass, TypeOK
    <2> QED
      BY <1>1, <2>1 DEF Subscriptions, RowsAreSubscribed, GoneAreUnsubscribed, RunsAreAtRows, Rows
  <1> QED
    BY <1>3, <1>4, <1>5 DEF Reconcile

\* Outside the runs only a new node is subscribed, and who takes a
\* subscription away has a run begin.
LEMMA OutsideSubscribes ==
  ASSUME IInv, Outside
  PROVE  /\ \A n \in subscribed' \ subscribed : n \notin Range(last)
         /\ subscribed \subseteq subscribed' \/ CallReconcile
  <1>1. ASSUME NEW p \in Paths, Read(p)
        PROVE  /\ \A n \in subscribed' \ subscribed : n \notin Range(last)
               /\ subscribed \subseteq subscribed'
    <2>1. ReadFile(p)
      BY <1>1 DEF Read, ScanFile, Ingest
    <2>2. CASE file[p] = NoFile
      BY <2>1, <2>2 DEF ReadFile
    <2>3. CASE file[p] # NoFile
      <3>1. PICK n \in Nodes : Unused(n) /\ subscribed' = subscribed \cup {n}
        BY <2>1, <2>3 DEF ReadFile, CreateNode
      <3> QED
        BY <3>1 DEF Unused
    <2> QED
      BY <2>2, <2>3
  <1>2. ASSUME NEW p \in Paths, UserDeletes(p)
        PROVE  subscribed' \subseteq subscribed /\ (subscribed \subseteq subscribed' \/ CallReconcile)
    BY <1>2 DEF UserDeletes, Unchanged, Reproject, Unsubscribed
  <1>3. ASSUME NEW p \in Paths, NEW q \in Paths, UserCreates(p) \/ UserRenames(p, q)
        PROVE  subscribed' = subscribed
    BY <1>3 DEF UserCreates, UserRenames, Unchanged
  <1>4. CASE \/ \E kind \in {"create", "delete", "rename"}, p \in Paths : IgnoreEnds(kind, p)
             \/ \E f \in Projection : Frame(f)
             \/ \E n \in Nodes : ReceiveText(n)
             \/ ScanDone
             \/ UNCHANGED vars
    BY <1>4 DEF IgnoreEnds, Frame, ReceiveText, ScanDone, vars
  <1> QED
    BY <1>1, <1>2, <1>3, <1>4 DEF Outside

LEMMA SubscriptionsNext ==
  ASSUME IInv, RowsAreKnown, Subscriptions, [Next]_vars
  PROVE  Subscriptions'
  <1>1. ASSUME Outside PROVE Subscriptions'
    <2>1. /\ last' = last
          /\ \A r \in Runs : /\ run'[r].phase = "remove" => run'[r] = run[r]
                             /\ run'[r].phase = "add" => run'[r] = run[r]
      BY <1>1, OutsideRuns
    <2>2. GoneAreUnsubscribed' /\ RunsAreAtRows'
      <3>1. ASSUME NEW r \in Runs, NEW p \in Rows(last), run'[r].phase = "remove",
                   p < run'[r].at, last[p] \notin Range(run'[r].snap)
            PROVE  last[p] \notin subscribed'
        <4>1. last[p] \notin subscribed
          BY <2>1, <3>1 DEF Subscriptions, GoneAreUnsubscribed
        <4>2. last[p] \in Range(last)
          BY DEF Rows, Range, IInv, TypeOK, Projection
        <4> QED
          BY <1>1, <4>1, <4>2, OutsideSubscribes
      <3>2. RunsAreAtRows'
        BY <2>1 DEF Subscriptions, RunsAreAtRows, Rows
      <3> QED
        BY <2>1, <3>1, <3>2 DEF GoneAreUnsubscribed, Rows
    <2>3. CASE CallReconcile
      <3>1. pending' = TRUE \/ \E r \in Runs : run'[r].phase = "start"
        BY <2>3, CallReconcileSets DEF IInv
      <3> QED
        BY <2>2, <3>1 DEF Subscriptions, RowsAreSubscribed
    <2>4. CASE subscribed \subseteq subscribed'
      <3>1. CASE run' = run /\ (pending' = pending \/ pending' = TRUE)
        BY <2>1, <2>2, <2>4, <3>1 DEF Subscriptions, RowsAreSubscribed, Rows
      <3>2. CASE \E r \in Runs : run'[r].phase = "start"
        BY <2>2, <3>2 DEF Subscriptions, RowsAreSubscribed
      <3> QED
        BY <1>1, <3>1, <3>2, OutsideRuns
    <2> QED
      BY <1>1, <2>3, <2>4, OutsideSubscribes
  <1>2. (\E r \in Runs : Reconcile(r)) \/ Outside
    BY DEF Next, Outside
  <1> QED
    BY <1>1, <1>2, ReconcileSubscribes

-----------------------------------------------------------------------------
(* The agreement at rest: the steps of a run *)

\* A run's step takes a path from its node only where it handles its row, and
\* makes the paths that it has read its nodes' own.
LEMMA ReconcileOwns ==
  ASSUME IInv, RowsAreKnown, NEW r \in Runs, Reconcile(r), NEW p \in Paths, NEW n \in Nodes
  PROVE  /\ Owns(p, n) => Owns(p, n)' \/ (run[r].phase = "remove" /\ p = run[r].at /\ last[p] = n)
         /\ run[r].phase = "remove" /\ run[r].snap[p] = n => Owns(p, n)'
  <1> USE DEF IInv
  <1> DEFINE removing == run[r].phase = "remove"
             a        == run[r].at
             S        == run[r].snap
  <1>0. run[r] \in RunType /\ subscribed \in SUBSET Nodes /\ p \in Nat /\ a \in Nat /\ n # NoNode
    BY PluginVaultAssumption DEF TypeOK, Paths, RunType
  <1>1. \A s \in Runs \ {r} : run[s].phase = "idle" /\ run'[s] = run[s]
    BY OthersAreIdle
  <1>2. /\ Known(p, n) <=> IF removing THEN S[p] = n ELSE last[p] = n
        /\ Replaced(p) <=> removing /\ p < a /\ S[p] # last[p]
    BY <1>1 DEF Known, Replaced
  <1>3. /\ Known(p, n)' <=> IF run'[r].phase = "remove" THEN run'[r].snap[p] = n ELSE last'[p] = n
        /\ Replaced(p)' <=> run'[r].phase = "remove" /\ p < run'[r].at /\ run'[r].snap[p] # last'[p]
    BY <1>1 DEF Known, Replaced
  <1>4. live' = live
    BY DEF Reconcile, StartPass, RemoveLocalFile, RenameLocalFile, CreatePlaceholder, EndPass
  <1> HIDE DEF removing
  <1>5. ASSUME NEW me \in RunType, NEW files, NEW subs \in SUBSET Nodes, NEW from \in Nat,
               ContinueRemoving(r, me, files, subs, from),
               NEW old, old = IF removing THEN S ELSE live,
               me.snap = old,
               last[p] = n /\ p < from /\ ~(removing /\ p = a) => (removing /\ p < a)
        PROVE  /\ Owns(p, n) => Owns(p, n)' \/ (removing /\ p = a /\ last[p] = n)
               /\ me.snap[p] = n => Owns(p, n)'
    <2>0. TypeOK /\ ContinueRemoving(r, me, files, subs, from)
      BY <1>5
    <2>1. run'[r].snap = me.snap
      BY <1>5, ContinueRemovingSets
    <2>2. CASE /\ run'[r].phase = "remove" /\ last' = last
               /\ \A q \in Rows(last) : from <= q /\ q < run'[r].at => me.snap[q] = last[q]
      <3>1. me.snap[p] = n => Owns(p, n)'
        BY <1>3, <2>1, <2>2 DEF Owns
      <3>2. CASE last[p] = n /\ ~Replaced(p) /\ ~(removing /\ p = a) /\ ~(me.snap[p] = n)
        <4>1. p \in Rows(last)
          BY <1>0, <3>2 DEF Rows
        <4>2. from <= p
          BY <1>0, <1>2, <1>5, <3>2
        <4>3. ~(p < run'[r].at)
          BY <2>2, <3>2, <4>1, <4>2
        <4> QED
          BY <1>3, <2>2, <3>2, <4>3 DEF Owns
      <3>3. CASE live[p] = n
        BY <1>4, <3>3 DEF Owns
      <3>4. CASE Known(p, n) /\ ~(me.snap[p] = n)
        BY <1>2, <1>5, <3>2, <3>4
      <3> QED
        BY <3>1, <3>2, <3>3, <3>4 DEF Owns
    <2>3. CASE /\ run'[r].phase \in {"add", "end"} /\ last' = me.snap
               /\ \A q \in Rows(last) : from <= q => me.snap[q] = last[q]
      <3>1. me.snap[p] = n => Owns(p, n)'
        BY <1>3, <2>3 DEF Owns
      <3>2. CASE last[p] = n /\ ~Replaced(p) /\ ~(removing /\ p = a) /\ ~(me.snap[p] = n)
        <4>1. p \in Rows(last)
          BY <1>0, <3>2 DEF Rows
        <4>2. from <= p
          BY <1>0, <1>2, <1>5, <3>2
        <4> QED
          BY <2>3, <3>2, <4>1, <4>2
      <3>3. CASE live[p] = n
        BY <1>4, <3>3 DEF Owns
      <3>4. CASE Known(p, n) /\ ~(me.snap[p] = n)
        BY <1>2, <1>5, <3>2, <3>4
      <3> QED
        BY <3>1, <3>2, <3>3, <3>4 DEF Owns
    <2>4. \/ /\ run'[r].phase = "remove" /\ last' = last
             /\ \A q \in Rows(last) : from <= q /\ q < run'[r].at => me.snap[q] = last[q]
          \/ /\ run'[r].phase \in {"add", "end"} /\ last' = me.snap
             /\ \A q \in Rows(last) : from <= q => me.snap[q] = last[q]
      BY <2>0, RemovingPasses
    <2> QED
      BY <2>2, <2>3, <2>4
  <1>6. CASE StartPass(r)
    <2> DEFINE me == [run[r] EXCEPT !.snap = live, !.seen = newest]
    <2>1. me \in RunType /\ me.snap = live
      BY <1>0 DEF TypeOK, RunType
    <2>2. ContinueRemoving(r, me, file, subscribed, 1) /\ ~removing /\ ~(p < 1)
      BY <1>6, PluginVaultAssumption DEF StartPass, removing, Paths
    <2> HIDE DEF me
    <2>3. Owns(p, n) => Owns(p, n)'
      BY <1>0, <1>5, <2>1, <2>2
    <2> QED
      BY <2>2, <2>3 DEF removing
  <1>7. CASE RemoveLocalFile(r) \/ RenameLocalFile(r)
    <2>0. removing
      BY <1>7 DEF RemoveLocalFile, RenameLocalFile, removing
    <2>1. removing /\ a + 1 \in Nat
      BY <1>0, <2>0
    <2>2. PICK subs \in SUBSET Nodes : ContinueRemoving(r, run[r], file', subs, a + 1)
      BY <1>7, Continues DEF Unsubscribed, TypeOK
    <2>3. p < a + 1 => p = a \/ p < a
      BY <1>0
    <2>4. /\ Owns(p, n) => Owns(p, n)' \/ (removing /\ p = a /\ last[p] = n)
          /\ run[r].snap[p] = n => Owns(p, n)'
      BY <1>0, <1>5, <2>1, <2>2, <2>3
    <2> QED
      BY <2>1, <2>4 DEF removing
  <1>8. CASE CreatePlaceholder(r)
    <2>1. PICK files : ContinueAdding(r, run[r], files, subscribed, run[r].at)
      BY <1>8 DEF CreatePlaceholder
    <2>2. run[r].phase = "add" /\ UNCHANGED last
      BY <1>8 DEF CreatePlaceholder
    <2>3. run'[r].phase \in {"add", "end"}
      BY <1>0, <2>1, ContinueAddingSets
    <2> QED
      BY <1>2, <1>3, <1>4, <2>2, <2>3 DEF Owns, removing
  <1>9. CASE EndPass(r)
    <2>1. run[r].phase = "end" /\ UNCHANGED last /\ run'[r].phase \in {"start", "idle"}
      BY <1>9, FreshRuns DEF EndPass, TypeOK
    <2> QED
      BY <1>2, <1>3, <1>4, <2>1 DEF Owns, removing
  <1> QED
    BY <1>6, <1>7, <1>8, <1>9 DEF Reconcile

Agreement == FilesAreListed /\ SubscribedHaveRows /\ TextsAreShown

\* No step of a run gives a node its text, or takes the row from one that has it.
LEMMA ReconcileHasRows ==
  ASSUME IInv, GoneAreUnsubscribed, SubscribedHaveRows, NEW r \in Runs, Reconcile(r)
  PROVE  SubscribedHaveRows' /\ subscribed' \ due' \subseteq subscribed \ due
  <1> USE DEF IInv
  <1>1. CASE StartPass(r) \/ RemoveLocalFile(r) \/ RenameLocalFile(r)
    <2>1. PICK me \in RunType, files \in {file, file'}, subs \in SUBSET subscribed, p \in Nat :
            /\ ContinueRemoving(r, me, files, subs, p)
            /\ \A q \in Rows(last) : q < p /\ last[q] \notin Range(me.snap) => last[q] \notin subs
      BY <1>1, PassGoesOn
    <2>2. subs \in SUBSET Nodes /\ Rows(last) \subseteq Nat
      BY PluginVaultAssumption DEF TypeOK, Rows, Paths
    <2>3. /\ subscribed' \ due' \subseteq subs \ due
          /\ \/ last' = last
             \/ /\ last' = me.snap
                /\ \A q \in Rows(last) : p <= q => me.snap[q] = last[q]
      BY <2>1, <2>2, RemovingSubscribes
    <2>4. ASSUME NEW n \in subs \ due, last' = me.snap,
                 \A q \in Rows(last) : p <= q => me.snap[q] = last[q]
          PROVE  n \in Range(last')
      <3>1. n \in Range(last) /\ n # NoNode
        BY <2>2, PluginVaultAssumption DEF SubscribedHaveRows
      <3>2. PICK q \in Paths : last[q] = n
        BY <3>1 DEF Range, TypeOK, Projection
      <3>3. q \in Rows(last) /\ q \in Nat
        BY <2>2, <3>1, <3>2 DEF Rows
      <3>4. CASE q < p
        BY <2>1, <2>4, <3>2, <3>3, <3>4
      <3>5. CASE p <= q
        <4>1. me.snap[q] = n
          BY <2>4, <3>2, <3>3, <3>5
        <4> QED
          BY <2>4, <4>1 DEF Range, RunType, Projection
      <3> QED
        BY <3>3, <3>4, <3>5
    <2> QED
      BY <2>3, <2>4 DEF SubscribedHaveRows
  <1>2. CASE CreatePlaceholder(r)
    <2>1. PICK files : ContinueAdding(r, run[r], files, subscribed, run[r].at)
      BY <1>2 DEF CreatePlaceholder
    <2>2. run[r] \in RunType /\ subscribed \in SUBSET Nodes /\ run[r].at \in Nat /\ last' = last
      BY <1>2, PluginVaultAssumption DEF TypeOK, RunType, CreatePlaceholder
    <2>3. subscribed' \ due' \subseteq subscribed \ due
      BY <2>1, <2>2, AddingSubscribes
    <2> QED
      BY <2>2, <2>3 DEF SubscribedHaveRows
  <1>3. CASE EndPass(r)
    BY <1>3 DEF EndPass, SubscribedHaveRows
  <1> QED
    BY <1>1, <1>2, <1>3 DEF Reconcile

\* Without a mishap, the file that is removed shows its node or nothing.
LEMMA RemovalAgrees ==
  ASSUME IInv, RowsAreKnown, GoneAreUnsubscribed, Agreement, NEW r \in Runs, RemoveLocalFile(r), amiss' = {}
  PROVE  FilesAreListed' /\ TextsAreShown'
  <1> USE DEF IInv
  <1> DEFINE a == run[r].at
  <1>1. /\ a \in Paths /\ run[r].phase = "remove"
        /\ file' = [file EXCEPT ![a] = NoFile]
        /\ file[a] \in {NoFile, Blank, last[a]}
        /\ UNCHANGED <<live, readVars>>
    BY DEF RemoveLocalFile, Foreign, RunsAreOnPaths, OnItsPath
  <1>2. Reconcile(r)
    BY DEF Reconcile
  <1>3. \A n \in subscribed' \ due' : n \in subscribed \ due /\ n # last[a]
    <2> DEFINE files == [file EXCEPT ![a] = NoFile]
               subs  == Unsubscribed(last[a])
    <2>1. ContinueRemoving(r, run[r], files, subs, a + 1)
      BY DEF RemoveLocalFile
    <2>2. /\ run[r] \in RunType /\ subs \in SUBSET Nodes /\ a + 1 \in Nat
          /\ subs = subscribed \ {last[a]}
      BY PluginVaultAssumption DEF TypeOK, RunType, Unsubscribed
    <2> HIDE DEF files, subs
    <2>3. subscribed' \ due' \subseteq subs \ due
      BY <2>1, <2>2, RemovingSubscribes
    <2> QED
      BY <2>2, <2>3
  <1>4. \A p \in Paths, n \in Nodes : p # a /\ Owns(p, n) => Owns(p, n)'
    BY <1>2, ReconcileOwns
  <1>5. FilesAreListed'
    <2>1. \A p \in Paths : file'[p] # NoFile => p # a /\ file'[p] = file[p]
      BY <1>1 DEF TypeOK
    <2> QED
      BY <1>1, <1>4, <2>1 DEF Agreement, FilesAreListed, readVars
  <1>6. ASSUME NEW n \in (subscribed' \ due') \cap Range(live') PROVE Shown(n)'
    <2>1. n \in (subscribed \ due) \cap Range(live) /\ n \in Nodes /\ n \notin {NoFile, Blank, last[a]}
      BY <1>1, <1>3, PluginVaultAssumption DEF TypeOK
    <2>2. PICK p \in Paths : file[p] = n /\ Owns(p, n)
      BY <2>1 DEF Agreement, TextsAreShown, Shown
    <2>3. p # a /\ file'[p] = n
      BY <1>1, <2>1, <2>2 DEF TypeOK
    <2> QED
      BY <1>4, <2>1, <2>2, <2>3 DEF Shown
  <1> QED
    BY <1>5, <1>6 DEF TextsAreShown

\* Likewise for the file that is renamed, and it has no other in its way.
LEMMA RenamingAgrees ==
  ASSUME IInv, RowsAreKnown, Subscriptions, Agreement, NEW r \in Runs, RenameLocalFile(r), amiss' = {}
  PROVE  FilesAreListed' /\ TextsAreShown'
  <1> USE DEF IInv
  <1> DEFINE a == run[r].at
  <1>1. a \in Paths /\ run[r].phase = "remove" /\ live' = live
    BY DEF RenameLocalFile, RunsAreOnPaths, OnItsPath
  <1>2. PICK q \in PathsOf(run[r].snap, last[a]) :
          /\ file' = IF file[a] # NoFile THEN [file EXCEPT ![q] = file[a], ![a] = NoFile] ELSE file
          /\ file[a] # NoFile => Follow(a, q) /\ file[q] = NoFile
          /\ file[a] = NoFile => UNCHANGED readVars
          /\ file[a] \in {NoFile, Blank, last[a]}
    <2> DEFINE moved == file[a] # NoFile
    <2>1. PICK q \in PathsOf(run[r].snap, last[a]) :
            LET free  == file[q] = NoFile
                files == IF moved /\ free THEN [file EXCEPT ![q] = file[a], ![a] = NoFile] ELSE file
            IN /\ file' = files
               /\ IF moved /\ free THEN Follow(a, q) ELSE UNCHANGED readVars
               /\ amiss' = amiss \cup {m \in {"blocked"} : moved /\ ~free}
                                 \cup {m \in {"mistaken"} : Foreign(a, last[a])}
      BY Zenon DEF RenameLocalFile
    <2>2. moved => file[q] = NoFile
      BY <2>1
    <2>3. ~Foreign(a, last[a])
      BY <2>1
    <2> QED
      BY <2>1, <2>2, <2>3 DEF Foreign
  <1>3. Reconcile(r)
    BY DEF Reconcile
  <1>4. q \in Paths /\ run[r].snap[q] = last[a]
    BY <1>2 DEF PathsOf
  <1>5. \A p \in Paths, n \in Nodes : p # a /\ Owns(p, n) => Owns(p, n)'
    BY <1>3, ReconcileOwns
  <1>6. \A n \in Nodes : n = last[a] => Owns(q, n)'
    BY <1>1, <1>3, <1>4, ReconcileOwns
  <1>7. \A n \in subscribed' \ due' : n \in subscribed \ due
    BY <1>3, ReconcileHasRows DEF Agreement, Subscriptions
  <1>8. CASE file[a] = NoFile
    <2>1. file' = file /\ UNCHANGED readVars
      BY <1>2, <1>8
    <2>2. FilesAreListed'
      BY <1>5, <1>8, <2>1 DEF Agreement, FilesAreListed, readVars
    <2>3. ASSUME NEW n \in (subscribed' \ due') \cap Range(live') PROVE Shown(n)'
      <3>1. n \in (subscribed \ due) \cap Range(live) /\ n \in Nodes /\ n # NoFile
        BY <1>1, <1>7, <2>3, PluginVaultAssumption DEF TypeOK
      <3>2. PICK p \in Paths : file[p] = n /\ Owns(p, n)
        BY <3>1 DEF Agreement, TextsAreShown, Shown
      <3> QED
        BY <1>5, <1>8, <2>1, <3>1, <3>2 DEF Shown
    <2> QED
      BY <2>2, <2>3 DEF TextsAreShown
  <1>9. CASE file[a] # NoFile
    <2>1. /\ q # a /\ file'[a] = NoFile /\ file'[q] = file[a]
          /\ \A p \in Paths \ {a, q} : file'[p] = file[p]
          /\ file[q] = NoFile
      BY <1>1, <1>2, <1>4, <1>9 DEF TypeOK
    <2>2. \A p \in Paths \ {a, q} : (p \in scanning <=> p \in scanning') /\ ingesting'[p] = ingesting[p]
      BY <1>1, <1>2, <1>4, <1>9 DEF Follow, TypeOK
    <2>3. last[a] \in Nodes
      <3>1. last[a] # NoNode
        BY <1>1 DEF Subscriptions, RunsAreAtRows, Rows
      <3> QED
        BY <1>1, <3>1 DEF TypeOK, Projection
    <2>4. FilesAreListed'
      BY <1>5, <1>6, <2>1, <2>2, <2>3 DEF Agreement, FilesAreListed
    <2>5. ASSUME NEW n \in (subscribed' \ due') \cap Range(live') PROVE Shown(n)'
      <3>1. n \in (subscribed \ due) \cap Range(live) /\ n \in Nodes /\ n \notin {NoFile, Blank}
        BY <1>1, <1>7, <2>5, PluginVaultAssumption DEF TypeOK
      <3>2. PICK p \in Paths : file[p] = n /\ Owns(p, n)
        BY <3>1 DEF Agreement, TextsAreShown, Shown
      <3>3. CASE p = a
        BY <1>2, <1>4, <1>6, <2>1, <3>1, <3>2, <3>3 DEF Shown
      <3>4. CASE p # a
        BY <1>5, <2>1, <3>1, <3>2, <3>4 DEF Shown
      <3> QED
        BY <3>3, <3>4
    <2> QED
      BY <2>4, <2>5 DEF TextsAreShown
  <1> QED
    BY <1>8, <1>9

\* The other steps of a run leave the texts alone, but for a placeholder where
\* nothing was.
LEMMA ReconcileAgrees ==
  ASSUME IInv, RowsAreKnown, Subscriptions, Agreement, NEW r \in Runs, Reconcile(r), amiss' = {}
  PROVE  Agreement'
  <1> USE DEF IInv
  <1>0. SubscribedHaveRows' /\ subscribed' \ due' \subseteq subscribed \ due
    BY ReconcileHasRows DEF Agreement, Subscriptions
  <1>1. CASE RemoveLocalFile(r) \/ RenameLocalFile(r)
    BY <1>0, <1>1, RemovalAgrees, RenamingAgrees DEF Agreement, Subscriptions
  <1>2. CASE StartPass(r) \/ CreatePlaceholder(r) \/ EndPass(r)
    <2>1. run[r].phase # "remove" /\ UNCHANGED <<live, readVars>>
      BY <1>2 DEF StartPass, CreatePlaceholder, EndPass
    <2>2. \A p \in Paths, n \in Nodes : Owns(p, n) => Owns(p, n)'
      BY <2>1, ReconcileOwns
    <2>3. \A p \in Paths : \/ file'[p] = file[p]
                           \/ file[p] = NoFile /\ \E n \in Nodes : Owns(p, n)
      <3>1. CASE StartPass(r) \/ EndPass(r)
        BY <3>1 DEF StartPass, EndPass
      <3>2. CASE CreatePlaceholder(r)
        <4> DEFINE a == run[r].at
        <4>1. /\ run[r].phase = "add" /\ a \in Rows(last)
              /\ file' = [file EXCEPT ![a] = IF @ = NoFile THEN Blank ELSE @]
          BY <3>2 DEF CreatePlaceholder, Subscriptions, RunsAreAtRows
        <4>2. a \in Paths /\ last[a] \in Nodes
          BY <4>1 DEF Rows, TypeOK, Projection
        <4>3. \A s \in Runs : run[s].phase # "remove"
          BY <3>2, <4>1, OthersAreIdle DEF Reconcile
        <4>4. Owns(a, last[a])
          BY <4>3 DEF Owns, Known
        <4> QED
          BY <4>1, <4>2, <4>4 DEF TypeOK
      <3> QED
        BY <1>2, <3>1, <3>2
    <2>4. FilesAreListed'
      <3>1. ASSUME NEW p \in Paths, file'[p] # NoFile
            PROVE  \/ \E n \in Nodes : Owns(p, n)'
                   \/ file'[p] # Blank /\ (p \in scanning' \/ ingesting'[p] > 0)
        BY <2>1, <2>2, <2>3, <3>1 DEF Agreement, FilesAreListed, readVars
      <3> QED
        BY <3>1 DEF FilesAreListed
    <2>5. ASSUME NEW n \in (subscribed' \ due') \cap Range(live') PROVE Shown(n)'
      <3>1. n \in (subscribed \ due) \cap Range(live) /\ n \in Nodes /\ n # NoFile
        BY <1>0, <2>1, <2>5, PluginVaultAssumption DEF TypeOK
      <3>2. PICK p \in Paths : file[p] = n /\ Owns(p, n)
        BY <3>1 DEF Agreement, TextsAreShown, Shown
      <3> QED
        BY <2>2, <2>3, <3>1, <3>2 DEF Shown
    <2> QED
      BY <1>0, <2>4, <2>5 DEF Agreement, TextsAreShown
  <1> QED
    BY <1>1, <1>2 DEF Reconcile

-----------------------------------------------------------------------------
(* The agreement at rest: frames, texts and the user *)

\* A file that is read becomes a node's: at its own path, or at the path of the
\* node that has taken it.
LEMMA ReadAgrees ==
  ASSUME IInv, Agreement, NEW p \in Paths, Read(p)
  PROVE  Agreement'
  <1> USE DEF IInv
  <1>0. Outside
    BY DEF Outside
  <1>1. last' = last
    BY <1>0, OutsideRuns
  <1>2. /\ ReadFile(p)
        /\ \A x \in Paths \ {p} : (x \in scanning <=> x \in scanning') /\ ingesting'[x] = ingesting[x]
    BY DEF Read, ScanFile, Ingest, TypeOK
  <1>3. CASE file[p] = NoFile
    <2>1. UNCHANGED <<live, file, subscribed, due>>
      BY <1>2, <1>3 DEF ReadFile
    <2>2. \A x \in Paths, m \in Nodes : Owns(x, m) => Owns(x, m)'
      BY <1>0, <2>1, OutsideOwns
    <2>3. FilesAreListed'
      BY <1>2, <1>3, <2>1, <2>2 DEF Agreement, FilesAreListed
    <2>4. TextsAreShown'
      BY <2>1, <2>2 DEF Agreement, TextsAreShown, Shown, TypeOK
    <2> QED
      BY <1>1, <2>1, <2>3, <2>4 DEF Agreement, SubscribedHaveRows
  <1>4. CASE file[p] # NoFile
    <2>1. PICK n \in Nodes : /\ Unused(n)
                             /\ \E q \in Placements(p) : Reproject([live EXCEPT ![q] = n])
                             /\ file' = [file EXCEPT ![p] = IF @ = Draft THEN n ELSE @]
                             /\ subscribed' = subscribed \cup {n}
                             /\ due' = due \cup {n}
      BY <1>2, <1>4 DEF ReadFile, CreateNode
    <2>2. PICK q \in Placements(p) : live' = [live EXCEPT ![q] = n]
      BY <2>1 DEF Reproject
    <2>3. /\ q \in Paths /\ live[q] = NoNode /\ live'[q] = n
          /\ \A x \in Paths \ {q} : live'[x] = live[x]
          /\ live[p] = NoNode => q = p
      BY <2>2 DEF Placements, Rows, TypeOK, Projection
    <2>4. \A x \in Paths, m \in Nodes : Owns(x, m) => Owns(x, m)'
      BY <1>0, <2>3, OutsideOwns, PluginVaultAssumption
    <2>5. /\ \E o \in Nodes : live'[p] = o
          /\ \A x \in Paths \ {p} : file'[x] = file[x]
          /\ file[p] # Draft => file'[p] = file[p]
      BY <2>1, <2>3 DEF TypeOK, Projection
    <2>6. FilesAreListed'
      <3>1. \E o \in Nodes : Owns(p, o)'
        BY <1>0, <2>5, OutsideOwns
      <3> QED
        BY <1>2, <2>4, <2>5, <3>1 DEF Agreement, FilesAreListed
    <2>7. subscribed' \ due' \subseteq subscribed \ due
      BY <2>1
    <2>8. ASSUME NEW m \in (subscribed' \ due') \cap Range(live') PROVE Shown(m)'
      <3>0. PICK y \in Paths : live'[y] = m
        BY <2>2, <2>8 DEF TypeOK, Projection, Range
      <3>1. m \in (subscribed \ due) \cap Range(live) /\ m \in Nodes /\ m # Draft
        <4>1. m \in subscribed \ due /\ m # n
          BY <2>1, <2>7, <2>8
        <4>2. live[y] = m
          BY <2>3, <3>0, <4>1
        <4> QED
          BY <4>1, <4>2, PluginVaultAssumption DEF TypeOK, Projection, Range
      <3>2. PICK x \in Paths : file[x] = m /\ Owns(x, m)
        BY <3>1 DEF Agreement, TextsAreShown, Shown
      <3> QED
        BY <2>4, <2>5, <3>1, <3>2 DEF Shown
    <2> QED
      BY <1>1, <2>6, <2>7, <2>8 DEF Agreement, SubscribedHaveRows, TextsAreShown
  <1> QED
    BY <1>3, <1>4

\* A new file is a node's, or begins to be read.
LEMMA CreationAgrees ==
  ASSUME IInv, Agreement, NEW p \in Paths, UserCreates(p), amiss' = {}
  PROVE  Agreement'
  <1> USE DEF IInv
  <1>0. Outside
    BY DEF Outside
  <1>1. /\ last' = last /\ UNCHANGED <<live, subscribed, due, scanning>>
        /\ file[p] = NoFile /\ file' = [file EXCEPT ![p] = Draft] /\ ingesting' = BeginIngest(p)
    BY <1>0, OutsideRuns DEF UserCreates, Unchanged
  <1>2. \A x \in Paths, m \in Nodes : Owns(x, m) => Owns(x, m)'
    BY <1>0, <1>1, OutsideOwns
  <1>3. file'[p] = Draft /\ \A x \in Paths \ {p} : file'[x] = file[x] /\ ingesting'[x] = ingesting[x]
    BY <1>1 DEF BeginIngest, TypeOK
  <1>4. ingesting'[p] > 0 \/ \E o \in Nodes : live'[p] = o
    BY <1>1 DEF BeginIngest, TypeOK, Projection
  <1>5. FilesAreListed'
    <2>1. ingesting'[p] > 0 \/ \E o \in Nodes : Owns(p, o)'
      BY <1>0, <1>4, OutsideOwns
    <2> QED
      BY <1>1, <1>2, <1>3, <2>1, PluginVaultAssumption DEF Agreement, FilesAreListed
  <1>6. ASSUME NEW m \in (subscribed' \ due') \cap Range(live') PROVE Shown(m)'
    <2>1. m \in (subscribed \ due) \cap Range(live) /\ m \in Nodes /\ m # NoFile
      BY <1>1, <1>6, PluginVaultAssumption DEF TypeOK
    <2>2. PICK x \in Paths : file[x] = m /\ Owns(x, m)
      BY <2>1 DEF Agreement, TextsAreShown, Shown
    <2> QED
      BY <1>1, <1>2, <1>3, <2>1, <2>2 DEF Shown
  <1> QED
    BY <1>1, <1>5, <1>6 DEF Agreement, SubscribedHaveRows, TextsAreShown

\* A file that is deleted takes its node along, and shows no other.
LEMMA DeletionAgrees ==
  ASSUME IInv, Agreement, NEW p \in Paths, UserDeletes(p), amiss' = {}
  PROVE  Agreement'
  <1> USE DEF IInv
  <1>0. Outside
    BY DEF Outside
  <1>1. last' = last /\ UNCHANGED readVars /\ file' = [file EXCEPT ![p] = NoFile]
    BY <1>0, OutsideRuns DEF UserDeletes
  <1>2. /\ subscribed' \ due' \subseteq subscribed \ due
        /\ \A x \in Paths \ {p} : live'[x] = live[x]
        /\ live' = live \/ live'[p] = NoNode
        /\ file[p] \notin Range(live) \/ (live'[p] = NoNode /\ file[p] \notin Range(live) \ {live[p]})
    <2>1. CASE p \in ignore["delete"]
      BY <2>1 DEF UserDeletes
    <2>2. CASE p \notin ignore["delete"] /\ (last[p] = NoNode \/ live[p] = NoNode)
      BY <2>2 DEF UserDeletes, Unchanged
    <2>3. CASE p \notin ignore["delete"] /\ ~(last[p] = NoNode \/ live[p] = NoNode)
      <3>1. /\ live' = [live EXCEPT ![p] = NoNode]
            /\ subscribed' = Unsubscribed(last[p])
            /\ due' = due \ {last[p]}
            /\ amiss' = amiss \cup {m \in {"stale"} : file[p] \in Range(live) \ {live[p]}}
        BY <2>3 DEF UserDeletes, Reproject
      <3>2. live'[p] = NoNode /\ \A x \in Paths \ {p} : live'[x] = live[x]
        BY <3>1 DEF TypeOK, Projection
      <3>3. subscribed' \ due' \subseteq subscribed \ due
        BY <3>1 DEF Unsubscribed
      <3> QED
        BY <3>1, <3>2, <3>3
    <2> QED
      BY <2>1, <2>2, <2>3
  <1>3. file'[p] = NoFile /\ \A x \in Paths \ {p} : file'[x] = file[x]
    BY <1>1 DEF TypeOK
  <1>4. \A x \in Paths \ {p}, m \in Nodes : Owns(x, m) => Owns(x, m)'
    BY <1>0, <1>2, OutsideOwns
  <1>5. FilesAreListed'
    BY <1>1, <1>3, <1>4 DEF Agreement, FilesAreListed, readVars
  <1>6. ASSUME NEW m \in (subscribed' \ due') \cap Range(live') PROVE Shown(m)'
    <2>1. m \in Nodes /\ m # NoNode
      BY <1>2, <1>6, PluginVaultAssumption DEF TypeOK
    <2>2. m \in (subscribed \ due) \cap Range(live) /\ m # file[p]
      <3>1. PICK y \in Paths : live'[y] = m
        <4>1. TypeOK'
          BY StepOfIInv DEF Next
        <4> QED
          BY <1>6, <4>1 DEF Range, TypeOK, Projection
      <3>2. live[y] = m /\ (live'[p] = NoNode => y # p)
        BY <1>2, <2>1, <3>1
      <3>3. live'[p] = NoNode => m # live[p]
        BY <2>1, <3>2 DEF TypeOK, Projection
      <3>4. m \in Range(live)
        BY <3>2 DEF TypeOK, Projection, Range
      <3> QED
        BY <1>2, <1>6, <3>3, <3>4
    <2>3. PICK x \in Paths : file[x] = m /\ Owns(x, m)
      BY <2>2 DEF Agreement, TextsAreShown, Shown
    <2> QED
      BY <1>3, <1>4, <2>1, <2>2, <2>3 DEF Shown
  <1> QED
    BY <1>1, <1>2, <1>5, <1>6 DEF Agreement, SubscribedHaveRows, TextsAreShown

\* A file that is renamed takes its node along, or begins to be read.
LEMMA RenamesAgree ==
  ASSUME IInv, Agreement, NEW p \in Paths, NEW q \in Paths, UserRenames(p, q), amiss' = {}
  PROVE  Agreement'
  <1> USE DEF IInv
  <1>0. Outside
    BY DEF Outside
  <1>1. /\ last' = last /\ UNCHANGED <<subscribed, due>> /\ q # p
        /\ file[q] = NoFile /\ file[p] # NoFile
        /\ file' = [file EXCEPT ![q] = file[p], ![p] = NoFile]
    BY <1>0, OutsideRuns DEF UserRenames, Unchanged
  <1>2. /\ file'[p] = NoFile /\ file'[q] = file[p]
        /\ \A x \in Paths \ {p, q} : file'[x] = file[x]
    BY <1>1 DEF TypeOK
  <1>3. \A x \in Paths \ {p, q} : /\ live'[x] = live[x] /\ ingesting'[x] = ingesting[x]
                                  /\ x \in scanning' <=> x \in scanning
    BY DEF UserRenames, Unchanged, Reproject, Follow, BeginIngest, TypeOK, Projection
  <1>4. \/ /\ live' = live /\ file[p] \notin Range(live) \cup {Blank}
           /\ ingesting'[q] > 0 \/ live[q] # NoNode
        \/ /\ live'[p] = NoNode /\ live[p] # NoNode /\ live'[q] = live[p]
           /\ live[q] = NoNode /\ file[p] \notin Range(live) \ {live[p]}
    <2>1. CASE {p, q} \cap ignore["rename"] # {}
      BY <2>1 DEF UserRenames
    <2>2. CASE {p, q} \cap ignore["rename"] = {} /\ last[p] = NoNode
      <3>1. /\ ingesting' = [BeginIngest(q) EXCEPT ![q] = @ + ingesting[p], ![p] = 0]
            /\ amiss' = amiss \cup {m \in {"stale"} : file[p] \in Range(live) \cup {Blank}}
            /\ live' = live
        BY <2>2 DEF UserRenames, Unchanged
      <3>2. live[q] = NoNode => ingesting'[q] = ingesting[q] + 1 + ingesting[p]
        BY <1>1, <3>1 DEF BeginIngest, TypeOK
      <3>3. live[q] = NoNode => ingesting'[q] > 0
        BY <3>2 DEF TypeOK
      <3> QED
        BY <3>1, <3>3
    <2>3. CASE {p, q} \cap ignore["rename"] = {} /\ last[p] # NoNode
      <3>1. CASE live[p] # NoNode /\ live[q] = NoNode
        <4>1. /\ live' = [live EXCEPT ![q] = live[p], ![p] = NoNode]
              /\ amiss' = amiss \cup {m \in {"stale"} : file[p] \in Range(live) \ {live[p]}}
          BY <2>3, <3>1 DEF UserRenames, Reproject
        <4>2. live'[q] = live[p] /\ live'[p] = NoNode
          BY <1>1, <4>1 DEF TypeOK, Projection
        <4> QED
          BY <3>1, <4>1, <4>2
      <3>2. CASE ~(live[p] # NoNode /\ live[q] = NoNode)
        BY <2>3, <3>2 DEF UserRenames
      <3> QED
        BY <3>1, <3>2
    <2> QED
      BY <2>1, <2>2, <2>3
  <1>5. \A x \in Paths \ {p, q}, m \in Nodes : Owns(x, m) => Owns(x, m)'
    BY <1>0, <1>3, OutsideOwns
  <1>6. \A m \in Nodes : live'[q] = m => Owns(q, m)'
    BY <1>0, OutsideOwns
  <1>7. FilesAreListed'
    <2>1. \/ \E m \in Nodes : Owns(q, m)'
          \/ file'[q] # Blank /\ ingesting'[q] > 0
      <3>1. \/ \E m \in Nodes : live'[q] = m
            \/ file'[q] # Blank /\ ingesting'[q] > 0
        BY <1>2, <1>4 DEF TypeOK, Projection
      <3> QED
        BY <1>6, <3>1
    <2> QED
      BY <1>2, <1>3, <1>5, <2>1 DEF Agreement, FilesAreListed
  <1>8. ASSUME NEW m \in (subscribed' \ due') \cap Range(live') PROVE Shown(m)'
    <2>1. m \in subscribed \ due /\ m \in Nodes /\ m \notin {NoFile, NoNode}
      BY <1>1, <1>8, PluginVaultAssumption DEF TypeOK
    <2>2. PICK y \in Paths : live'[y] = m
      <3>1. TypeOK'
        BY StepOfIInv DEF Next
      <3> QED
        BY <1>8, <3>1 DEF Range, TypeOK, Projection
    <2>3. m \in Range(live)
      <3>1. \E z \in Paths : live[z] = m
        BY <1>3, <1>4, <2>1, <2>2
      <3> QED
        BY <3>1 DEF Range, TypeOK, Projection
    <2>4. PICK x \in Paths : file[x] = m /\ Owns(x, m)
      BY <2>1, <2>3 DEF Agreement, TextsAreShown, Shown
    <2>5. CASE x = p
      <3>1. m = live[p] /\ live'[q] = m /\ file'[q] = m
        BY <1>2, <1>4, <2>3, <2>4, <2>5
      <3> QED
        BY <1>6, <2>1, <3>1 DEF Shown
    <2>6. CASE x # p
      BY <1>1, <1>2, <1>5, <2>1, <2>4, <2>6 DEF Shown
    <2> QED
      BY <2>5, <2>6
  <1> QED
    BY <1>1, <1>7, <1>8 DEF Agreement, SubscribedHaveRows, TextsAreShown

\* A frame takes no path with a file from a node before the plugin knows the
\* node there, and brings none back before the plugin knows that it was gone.
LEMMA FramesAgree ==
  ASSUME IInv, Agreement, NEW f \in Projection, Frame(f), amiss' = {}
  PROVE  Agreement'
  <1> USE DEF IInv
  <1>0. Outside
    BY DEF Outside
  <1>1. last' = last /\ live' = f /\ UNCHANGED <<file, subscribed, due, readVars>>
    BY <1>0, OutsideRuns DEF Frame, Reproject
  <1>2. \A x \in Paths : ~Unseen(f, x)
    BY DEF Frame
  <1>3. \A x \in Paths, m \in Nodes : file[x] # NoFile /\ Owns(x, m) => Owns(x, m)'
    <2> SUFFICES ASSUME NEW x \in Paths, NEW m \in Nodes, file[x] # NoFile, Owns(x, m)
                 PROVE  Owns(x, m)'
      OBVIOUS
    <2>1. live[x] = m => f[x] = m \/ Known(x, m)
      BY <1>2, PluginVaultAssumption DEF Unseen
    <2> QED
      BY <1>0, <1>1, <2>1, OutsideOwns
  <1>4. FilesAreListed'
    BY <1>1, <1>3 DEF Agreement, FilesAreListed, readVars
  <1>5. ASSUME NEW m \in (subscribed' \ due') \cap Range(live') PROVE Shown(m)'
    <2>1. m \in subscribed \ due /\ m \in Nodes /\ m \notin {NoFile, NoNode} /\ m \in Range(last)
      BY <1>1, <1>5, PluginVaultAssumption DEF TypeOK, Agreement, SubscribedHaveRows
    <2>2. PICK x \in Paths : f[x] = m
      BY <1>1, <1>5 DEF Range, Projection
    <2>3. m \in Range(live)
      <3>1. CASE f[x] = live[x]
        BY <2>2, <3>1 DEF Range, TypeOK, Projection
      <3>2. CASE f[x] # live[x]
        BY <1>2, <2>1, <2>2, <3>2 DEF Unseen
      <3> QED
        BY <3>1, <3>2
    <2>4. PICK y \in Paths : file[y] = m /\ Owns(y, m)
      BY <2>1, <2>3 DEF Agreement, TextsAreShown, Shown
    <2> QED
      BY <1>1, <1>3, <2>1, <2>4 DEF Shown
  <1> QED
    BY <1>1, <1>4, <1>5 DEF Agreement, SubscribedHaveRows, TextsAreShown

\* A text is written to its node's row, over nothing else.
LEMMA TextsAgree ==
  ASSUME IInv, Agreement, NEW n \in Nodes, ReceiveText(n), amiss' = {}
  PROVE  Agreement'
  <1> USE DEF IInv
  <1>0. Outside
    BY DEF Outside
  <1>1. /\ n \in due /\ due' = due \ {n} /\ n \in Range(last)
        /\ last' = last /\ UNCHANGED <<live, subscribed, readVars>>
    BY <1>0, OutsideRuns DEF ReceiveText
  <1>2. PICK p \in PathsOf(last, n) : /\ file' = [file EXCEPT ![p] = n]
                                      /\ file[p] \in {NoFile, Blank, n} \cup due
                                      /\ ~Replaced(p)
    <2>1. PICK p \in PathsOf(last, n) :
            /\ file' = [file EXCEPT ![p] = n]
            /\ amiss' = amiss \cup {m \in {"overwritten"} : file[p] \notin {NoFile, Blank, n} \cup due}
                              \cup {m \in {"stale"} : Replaced(p)}
      BY <1>1 DEF ReceiveText
    <2> QED
      BY <2>1
  <1>3. /\ p \in Paths /\ last[p] = n /\ file'[p] = n
        /\ \A x \in Paths \ {p} : file'[x] = file[x]
    BY <1>2 DEF PathsOf, TypeOK
  <1>4. \A x \in Paths, m \in Nodes : Owns(x, m) => Owns(x, m)'
    BY <1>0, <1>1, OutsideOwns
  <1>5. Owns(p, n)'
    BY <1>2, <1>3, <1>4 DEF Owns
  <1>6. FilesAreListed'
    BY <1>1, <1>3, <1>4, <1>5 DEF Agreement, FilesAreListed, readVars
  <1>7. SubscribedHaveRows'
    BY <1>1 DEF Agreement, SubscribedHaveRows
  <1>8. ASSUME NEW m \in (subscribed' \ due') \cap Range(live') PROVE Shown(m)'
    <2>1. CASE m = n
      BY <1>3, <1>5, <2>1 DEF Shown
    <2>2. CASE m # n
      <3>1. m \in (subscribed \ due) \cap Range(live) /\ m \in Nodes /\ m \notin {NoFile, Blank}
        BY <1>1, <1>8, <2>2, PluginVaultAssumption DEF TypeOK
      <3>2. PICK x \in Paths : file[x] = m /\ Owns(x, m)
        BY <3>1 DEF Agreement, TextsAreShown, Shown
      <3>3. x # p
        BY <1>2, <2>2, <3>1, <3>2
      <3> QED
        BY <1>3, <1>4, <3>1, <3>2, <3>3 DEF Shown
    <2> QED
      BY <2>1, <2>2
  <1> QED
    BY <1>6, <1>7, <1>8 DEF Agreement, TextsAreShown

\* A run with a request does not end.
LEMMA RequestsNext ==
  ASSUME IInv, RequestsHaveRuns, [Next]_vars
  PROVE  RequestsHaveRuns'
  <1> USE DEF IInv
  <1>1. ASSUME Outside PROVE RequestsHaveRuns'
    <2>1. \/ run' = run /\ (pending' = pending \/ Running)
          \/ \E r \in Runs : run'[r].phase = "start"
      BY <1>1, OutsideRuns
    <2> QED
      BY <2>1 DEF RequestsHaveRuns, Running
  <1>2. ASSUME NEW r \in Runs, Reconcile(r) PROVE RequestsHaveRuns'
    <2>1. run[r] \in RunType /\ subscribed \in SUBSET Nodes
      BY DEF TypeOK
    <2>2. CASE StartPass(r)
      BY <2>2 DEF StartPass, RequestsHaveRuns
    <2>3. CASE RemoveLocalFile(r) \/ RenameLocalFile(r)
      <3>1. PICK subs \in SUBSET Nodes : ContinueRemoving(r, run[r], file', subs, run[r].at + 1)
        BY <2>3, Continues DEF Unsubscribed, TypeOK
      <3>2. run'[r].phase \in {"remove", "add", "end"}
        BY <2>1, <3>1, ContinueRemovingSets
      <3> QED
        BY <3>2 DEF RequestsHaveRuns, Running
    <2>4. CASE CreatePlaceholder(r)
      <3>1. PICK files : ContinueAdding(r, run[r], files, subscribed, run[r].at)
        BY <2>4 DEF CreatePlaceholder
      <3>2. run'[r].phase \in {"add", "end"}
        BY <2>1, <3>1, ContinueAddingSets
      <3> QED
        BY <3>2 DEF RequestsHaveRuns, Running
    <2>5. CASE EndPass(r)
      <3>1. pending' = pending /\ run'[r].phase = IF pending THEN "start" ELSE "idle"
        BY <2>5, FreshRuns DEF EndPass, TypeOK
      <3> QED
        BY <3>1 DEF RequestsHaveRuns, Running
    <2> QED
      BY <1>2, <2>2, <2>3, <2>4, <2>5 DEF Reconcile
  <1>3. (\E r \in Runs : Reconcile(r)) \/ Outside
    BY DEF Next, Outside
  <1> QED
    BY <1>1, <1>2, <1>3

\* Every step preserves the agreement, unless it is a mishap.
LEMMA RestNext ==
  ASSUME IInv, RestInv, [Next]_vars
  PROVE  RestInv'
  <1>1. RowsAreKnown' /\ RequestsHaveRuns' /\ Subscriptions'
    BY RowsKnownNext, RequestsNext, SubscriptionsNext DEF RestInv, Subscriptions
  <1>2. amiss' = {} => amiss = {}
    BY DEF Next, Reconcile, StartPass, RemoveLocalFile, RenameLocalFile, CreatePlaceholder, EndPass,
           Read, ScanFile, Ingest, UserCreates, UserDeletes, UserRenames, IgnoreEnds, Frame,
           ReceiveText, ScanDone, vars
  <1>3. ASSUME amiss' = {} PROVE Agreement'
    <2>1. Agreement /\ RowsAreKnown /\ Subscriptions
      BY <1>2, <1>3 DEF RestInv, Agreement, Subscriptions
    <2>2. ASSUME NEW r \in Runs, Reconcile(r) PROVE Agreement'
      BY <1>3, <2>1, <2>2, ReconcileAgrees
    <2>3. ASSUME NEW p \in Paths, NEW q \in Paths,
                 Read(p) \/ UserCreates(p) \/ UserDeletes(p) \/ UserRenames(p, q)
          PROVE  Agreement'
      BY <1>3, <2>1, <2>3, ReadAgrees, CreationAgrees, DeletionAgrees, RenamesAgree
    <2>4. ASSUME NEW f \in Projection, Frame(f) PROVE Agreement'
      BY <1>3, <2>1, <2>4, FramesAgree
    <2>5. ASSUME NEW n \in Nodes, ReceiveText(n) PROVE Agreement'
      BY <1>3, <2>1, <2>5, TextsAgree
    <2>6. CASE \/ \E kind \in {"create", "delete", "rename"}, p \in Paths : IgnoreEnds(kind, p)
               \/ ScanDone
               \/ UNCHANGED vars
      <3>1. Outside /\ UNCHANGED <<live, file, subscribed, due, scanning, ingesting>>
        BY <2>6 DEF Outside, IgnoreEnds, ScanDone, vars, readVars
      <3>2. last' = last
        BY <3>1, OutsideRuns
      <3>3. \A x \in Paths, m \in Nodes : Owns(x, m) => Owns(x, m)'
        BY <3>1, OutsideOwns
      <3>4. FilesAreListed'
        BY <2>1, <3>1, <3>3 DEF Agreement, FilesAreListed
      <3>5. TextsAreShown'
        BY <2>1, <3>1, <3>3 DEF Agreement, TextsAreShown, Shown, IInv, TypeOK
      <3> QED
        BY <2>1, <3>1, <3>2, <3>4, <3>5 DEF Agreement, SubscribedHaveRows
    <2> QED
      BY <2>2, <2>3, <2>4, <2>5, <2>6 DEF Next
  <1> QED
    BY <1>1, <1>3 DEF RestInv, Agreement, Subscriptions

-----------------------------------------------------------------------------
(* The agreement at rest: the theorems *)

THEOREM AgreementInductive == Spec => []RestInv
  <1>1. ASSUME Init PROVE RestInv
    <2> USE <1>1 DEF Init
    <2>1. \A r \in Runs : run[r].phase = "idle"
      BY FreshRuns
    <2>2. Rows(last) = {} /\ subscribed = {} /\ pending = FALSE
      BY DEF Rows, NothingProjected
    <2>3. \A p \in Paths : file[p] # NoFile =>
            \/ live[p] \in Nodes
            \/ file[p] # Blank /\ p \in scanning
      BY PluginVaultAssumption DEF Projection
    <2>4. RowsAreKnown
      <3>1. \A p \in Paths : file[p] # Blank
        BY PluginVaultAssumption DEF Projection
      <3> QED
        BY <2>1, <3>1 DEF RowsAreKnown, Untouched
    <2>5. FilesAreListed
      BY <2>3 DEF FilesAreListed, Owns
    <2>6. RowsAreSubscribed /\ GoneAreUnsubscribed /\ RunsAreAtRows
      BY <2>1, <2>2 DEF RowsAreSubscribed, GoneAreUnsubscribed, RunsAreAtRows
    <2>7. SubscribedHaveRows /\ TextsAreShown /\ RequestsHaveRuns
      BY <2>2 DEF SubscribedHaveRows, TextsAreShown, RequestsHaveRuns
    <2> QED
      BY <2>4, <2>5, <2>6, <2>7 DEF RestInv
  <1>2. IInv /\ RestInv /\ [Next]_vars => RestInv'
    BY RestNext
  <1> QED
    BY <1>1, <1>2, Inductive, PTL DEF Spec

\* When no run is under way, a path is the node's that both projections have
\* there, and a node that has got its text shows it there.
LEMMA RestingRows ==
  ASSUME IInv, RestInv, amiss = {}, ~Running, last = live, NEW p \in Paths
  PROVE  /\ \A n \in Nodes : Owns(p, n) <=> live[p] = n
         /\ live[p] # NoNode => live[p] \in due \/ file[p] = live[p]
  <1> USE DEF IInv
  <1>1. \A q \in Paths, n \in Nodes : Owns(q, n) <=> live[q] = n
    <2>1. \A r \in Runs : run[r].phase = "idle"
      BY DEF Running
    <2> QED
      BY <2>1 DEF Owns, Known
  <1>2. ASSUME live[p] # NoNode, live[p] \notin due PROVE file[p] = live[p]
    <2> DEFINE n == live[p]
    <2>1. n \in Nodes /\ n \in Range(live) /\ p \in Rows(last)
      BY <1>2 DEF TypeOK, Projection, Range, Rows
    <2>2. n \in subscribed
      BY <2>1 DEF RestInv, RowsAreSubscribed, RequestsHaveRuns, Running
    <2>3. PICK x \in Paths : file[x] = n /\ Owns(x, n)
      BY <1>2, <2>1, <2>2 DEF RestInv, TextsAreShown, Shown
    <2>4. live[x] = n
      BY <1>1, <2>1, <2>3
    <2>5. x = p
      BY <1>2, <2>4 DEF TypeOK, Projection
    <2> QED
      BY <2>3, <2>5
  <1> QED
    BY <1>1, <1>2

\* When nothing is under way and no mishap has occurred, every file is at its
\* node's path with its node's text, and no other file is there.
THEOREM FilesSettle == Spec => []SettlesInAgreement
  <1>1. IInv /\ RestInv => SettlesInAgreement
    <2> SUFFICES ASSUME IInv, RestInv, Settled, amiss = {}
                 PROVE  Agrees
      BY DEF SettlesInAgreement
    <2>1. ~Running /\ last = live
      BY DEF Settled, RestInv, RowsAreKnown, Untouched
    <2>2. ASSUME NEW p \in Paths, live[p] = NoNode PROVE file[p] = NoFile
      <3>1. ~\E n \in Nodes : Owns(p, n)
        BY <2>1, <2>2, RestingRows, PluginVaultAssumption
      <3> QED
        BY <3>1 DEF RestInv, FilesAreListed, Settled
    <2>3. ASSUME NEW p \in Paths, live[p] # NoNode PROVE file[p] = live[p]
      BY <2>1, <2>3, RestingRows DEF Settled
    <2> QED
      BY <2>1, <2>2, <2>3 DEF Agrees
  <1> QED
    BY <1>1, AgreementInductive, Inductive, PTL

\* Without a mishap, the node of every placeholder is still due its text, or a
\* run is under way.
THEOREM BlanksGetTexts == Spec => []BlanksAreAwaited
  <1>1. IInv /\ RestInv => BlanksAreAwaited
    <2> SUFFICES ASSUME IInv, RestInv, amiss = {}, ~Running, NEW p \in Paths, file[p] = Blank
                 PROVE  last[p] \in due
      BY DEF BlanksAreAwaited
    <2>1. last = live
      BY DEF RestInv, RowsAreKnown, Untouched
    <2>2. PICK n \in Nodes : Owns(p, n)
      BY PluginVaultAssumption DEF RestInv, FilesAreListed
    <2>3. live[p] = n /\ n \notin {NoNode, Blank}
      BY <2>1, <2>2, RestingRows, PluginVaultAssumption
    <2> QED
      BY <2>1, <2>3, RestingRows
  <1> QED
    BY <1>1, AgreementInductive, Inductive, PTL

=============================================================================
