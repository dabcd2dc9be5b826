--------------------------- MODULE ServerMigration ---------------------------
(***************************************************************************)
(* migrate_server_db (server/migration.rs): the one-time conversion of a   *)
(* v0 database at server start.  Every write is a statement of its own, so *)
(* the process can stop between any two of them; the next start runs the   *)
(* conversion again unless the version marker is set.                      *)
(***************************************************************************)
EXTENDS Naturals

CONSTANTS
  TextDocs, BinaryDocs, \* v0 documents that decode, by meta.type
  SkippedDocs,          \* v0 documents without meta.path, or undecodable
  MaxCrashes            \* bound: interrupted runs

ASSUME ServerMigrationAssumption ==
  /\ TextDocs \cap BinaryDocs = {}
  /\ (TextDocs \cup BinaryDocs) \cap SkippedDocs = {}
  /\ MaxCrashes \in Nat

Converted == TextDocs \cup BinaryDocs
Docs      == Converted \cup SkippedDocs

VARIABLES
  (* database *)
  v0rows,   \* documents with rows of their own in table updates
  manifest, \* nodes in the rows of __manifest__
  content,  \* nodes with a content:<id> row
  archive,  \* documents copied to table updates_v0_bak
  version,  \* meta.db_version is "1"
  (* process *)
  step,     \* where migrate_server_db stands
  nodes,    \* nodes of the run's Manifest
  texts,    \* of these, the ones whose text is still to be saved
  run,      \* which run this is: a run mints NodeIds of its own
  crashes

database == <<v0rows, manifest, content, archive, version>>
migrationVars == <<database, step, nodes, texts, run, crashes>>

Steps == {"start", "manifest", "content", "copy", "delete", "mark", "done"}

\* A node stands for the document it was made from and the run that minted
\* its NodeId.  (The directories above it come with it.)
Node == [doc : Docs, run : Nat]

MigrationInit ==
  /\ v0rows = Docs
  /\ manifest = {}
  /\ content = {}
  /\ archive = {}
  /\ version = FALSE
  /\ step = "start"
  /\ nodes = {}
  /\ texts = {}
  /\ run = 0
  /\ crashes = 0

-----------------------------------------------------------------------------
\* The marker is there: nothing to do.
AlreadyMigrated ==
  /\ step = "start"
  /\ version
  /\ step' = "done"
  /\ UNCHANGED <<database, nodes, texts, run, crashes>>

\* Read every v0 document that is left and make its node in a new Manifest.
ReadDocs ==
  /\ step = "start"
  /\ ~version
  /\ nodes' = {[doc |-> d, run |-> run + 1] : d \in v0rows \cap Converted}
  /\ texts' = {n \in nodes' : n.doc \in TextDocs}
  /\ run' = run + 1
  /\ step' = "manifest"
  /\ UNCHANGED <<database, crashes>>

SaveManifest ==
  /\ step = "manifest"
  /\ manifest' = manifest \cup nodes
  /\ step' = "content"
  /\ UNCHANGED <<v0rows, content, archive, version, nodes, texts, run, crashes>>

\* One content subdoc, in the order of a HashMap.
SaveContent(n) ==
  /\ step = "content"
  /\ n \in texts
  /\ content' = content \cup {n}
  /\ texts' = texts \ {n}
  /\ UNCHANGED <<v0rows, manifest, archive, version, step, nodes, run, crashes>>

\* (A bug for the runs to find: the rest is left to a later start.)
ContentDeferred ==
  /\ step = "content"
  /\ step' = "copy"
  /\ UNCHANGED <<database, nodes, texts, run, crashes>>

ContentSaved ==
  /\ step = "content"
  /\ texts = {}
  /\ step' = "copy"
  /\ UNCHANGED <<database, nodes, texts, run, crashes>>

\* (A bug: only what the run converted is copied.)
CopyConverted ==
  /\ step = "copy"
  /\ archive' = archive \cup {n.doc : n \in nodes}
  /\ step' = "delete"
  /\ UNCHANGED <<v0rows, manifest, content, version, nodes, texts, run, crashes>>

\* archive_v0_rows: copy, then delete.
CopyRows ==
  /\ step = "copy"
  /\ archive' = archive \cup v0rows
  /\ step' = "delete"
  /\ UNCHANGED <<v0rows, manifest, content, version, nodes, texts, run, crashes>>

DeleteRows ==
  /\ step = "delete"
  /\ v0rows' = {}
  /\ step' = "mark"
  /\ UNCHANGED <<manifest, content, archive, version, nodes, texts, run, crashes>>

MarkVersion ==
  /\ step = "mark"
  /\ version' = TRUE
  /\ step' = "done"
  /\ UNCHANGED <<v0rows, manifest, content, archive, nodes, texts, run, crashes>>

\* (A bug: what an interrupted run had still to save is not forgotten.)
InterruptKeepsTexts ==
  /\ crashes < MaxCrashes
  /\ crashes' = crashes + 1
  /\ step' = "start"
  /\ nodes' = {}
  /\ UNCHANGED <<database, texts, run>>

\* The process stops (a failed statement ends it as well) and starts again.
Interrupt ==
  /\ crashes < MaxCrashes
  /\ crashes' = crashes + 1
  /\ step' = "start"
  /\ nodes' = {}
  /\ texts' = {}
  /\ UNCHANGED <<database, run>>

Progress ==
  \/ AlreadyMigrated \/ ReadDocs
  \/ SaveManifest \/ (\E n \in texts : SaveContent(n)) \/ ContentSaved
  \/ CopyRows \/ DeleteRows \/ MarkVersion

MigrationNext == Progress \/ Interrupt

MigrationSpec == MigrationInit /\ [][MigrationNext]_migrationVars

-----------------------------------------------------------------------------
(* Properties *)

\* The types of the variables.
MigrationTypeOK ==
  /\ v0rows \subseteq Docs
  /\ manifest \subseteq Node
  /\ content \subseteq Node
  /\ archive \subseteq Docs
  /\ version \in BOOLEAN
  /\ step \in Steps
  /\ nodes \subseteq Node
  /\ texts \subseteq nodes
  /\ run \in Nat
  /\ crashes \in Nat

Complete(d) ==
  \E n \in manifest : n.doc = d /\ (d \in TextDocs => n \in content)

\* Wherever a run is interrupted, every document is still readable as v0, or
\* converted: in the manifest, with its text when it has one.
NothingLost == \A d \in Converted : d \in v0rows \/ Complete(d)

\* No v0 row is deleted before it was copied, whether it was converted or
\* skipped.
OriginalsAreKept == \A d \in Docs : d \in v0rows \/ d \in archive
=============================================================================
