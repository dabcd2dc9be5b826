----------------------------- MODULE NodeFields -----------------------------
(***************************************************************************)
(* Concurrent writes to the nodes of a manifest: the setters of            *)
(* v1/manifest.rs as the operations of v1/ops.rs call them, what a merge   *)
(* makes of two writes of one field, and the rules of v1/projection.rs     *)
(* that turn the fields into paths.                                        *)
(*                                                                         *)
(* Two orders meet here.  Yrs decides which write of a field is current:   *)
(* every write hangs below the write it replaced, rival writes below the   *)
(* same one are ordered by the Yrs client id of their Doc, and the last    *)
(* write of the whole tree is the field's value.  Stamps (lamport, actor)  *)
(* decide what the projection does with the values.  A write is therefore  *)
(* named by its path in the tree, the client ids from the root down to it. *)
(*                                                                         *)
(* A replica is what its fields hold.  How what one actor has gets to the  *)
(* server and on to another one is module ManifestSync; here it is a step. *)
(***************************************************************************)
EXTENDS Naturals, Sequences, SequencesExt

CONSTANTS
  Actors,      \* actor ids, in their order
  Nodes,       \* node ids, in their order
  Names,       \* names in one directory
  DocIds,      \* the client ids Yrs may give to a Doc; bound: restarts, as
               \* a new Doc takes a new one
  MaxEvents    \* bound: operations and restarts together

ASSUME NodeFieldsAssumption ==
  /\ Actors \subseteq Nat \ {0}
  /\ Nodes \subseteq Nat
  /\ DocIds \subseteq Nat
  /\ MaxEvents \in Nat

VARIABLES
  manifest,  \* manifest[a]: the nodes actor a has, with their fields
  lamport,   \* lamport[a]
  docId,     \* docId[a]: the client id of a's Doc
  usedIds,   \* client ids that are taken
  restarts,
  ops,       \* operations so far
  written    \* history: every stamped write

vars == <<manifest, lamport, docId, usedIds, restarts, ops, written>>

-----------------------------------------------------------------------------
(* Stamps *)

Stamp  == [lamport : Nat, actor : Actors \cup {0}]
NoTime == [lamport |-> 0, actor |-> 0]

\* Stamp::beats and its Ord.
Beats(s, t) == s.lamport > t.lamport \/ (s.lamport = t.lamport /\ s.actor > t.actor)

Latest(stamps) == CHOOSE s \in stamps : \A t \in stamps : s = t \/ Beats(s, t)

-----------------------------------------------------------------------------
(* Fields, entries, manifests *)

Path == Seq(DocIds)

\* p comes after q in the tree's order: below it, or below a later rival.
After(p, q) ==
  \/ IsStrictPrefix(q, p)
  \/ \E i \in 1..Len(p) \cap 1..Len(q) :
       /\ p[i] > q[i]
       /\ \A j \in 1..i - 1 : p[j] = q[j]

\* A field holds its last write; the empty path stands for none.
NameField == [path : Path, name : Names]
ModField  == [path : Path, stamp : Stamp]
DelField  == [path : Path, stamp : Stamp, saw : Path] \* saw: history, the
                                                      \* mod write before it
Entry == [create : Stamp, name : NameField, mod : ModField, del : DelField]

Current(f, g) == IF After(g.path, f.path) THEN g ELSE f

MergeEntry(e, f) ==
  [create |-> e.create, name |-> Current(e.name, f.name),
   mod |-> Current(e.mod, f.mod), del |-> Current(e.del, f.del)]

Merge(m, k) ==
  [n \in DOMAIN m \cup DOMAIN k |->
     IF n \notin DOMAIN m THEN k[n]
     ELSE IF n \notin DOMAIN k THEN m[n]
     ELSE MergeEntry(m[n], k[n])]

\* (A bug for the runs to find: only the creation stamps are looked at.)
ObservedCreations(l, m) == Max({l} \cup {m[n].create.lamport + 1 : n \in DOMAIN m})

\* The lamport of a manifest that stood at l and now holds m: apply_update
\* looks at the three stamps of every entry.
Observed(l, m) ==
  LET stamps(n) == {m[n].create.lamport, m[n].mod.stamp.lamport, m[n].del.stamp.lamport}
  IN  Max({l} \cup {k + 1 : k \in UNION {stamps(n) : n \in DOMAIN m}})

-----------------------------------------------------------------------------
(* Projection *)

Deleted(e) == e.del.path # <<>>

\* (A bug: a delete loses to any modification.)
LiveIfModified(e) == Deleted(e) => e.mod.path # <<>>

\* is_live: a modification that beats the delete resurrects.
IsLive(e) == Deleted(e) => Beats(e.mod.stamp, e.del.stamp)

Live(m) == {n \in DOMAIN m : IsLive(m[n])}

\* effective_stamp, of create, delete and modify.
EffectiveStamp(e) == Latest({e.create, e.mod.stamp, e.del.stamp})

\* The order of the rows of one base path, and whether n comes first.
RowBefore(m, n, k) ==
  LET s == EffectiveStamp(m[n])
      t == EffectiveStamp(m[k])
  IN  Beats(t, s) \/ (s = t /\ n < k)

Rivals(m, n) == {k \in Live(m) \ {n} : m[k].name.name = m[n].name.name}

OwnsPath(m, n) == n \in Live(m) /\ \A k \in Rivals(m, n) : RowBefore(m, n, k)

ConflictCopies(m) == {n \in Live(m) : ~OwnsPath(m, n)}

\* Base paths in by_path.  (A conflict copy's path names its node: nobody
\* else projects there.)
Taken(m) == {m[n].name.name : n \in Live(m)}

-----------------------------------------------------------------------------
Init ==
  /\ manifest = [a \in Actors |-> <<>>]
  /\ lamport = [a \in Actors |-> 0]
  /\ docId \in {d \in [Actors -> DocIds] : \A a, b \in Actors : d[a] = d[b] => a = b}
  /\ usedIds = {docId[a] : a \in Actors}
  /\ restarts = 0
  /\ ops = 0
  /\ written = {}

-----------------------------------------------------------------------------
(* Operations.  Each setter ticks the lamport and stamps what it writes.   *)

\* (A bug: stamped with the id of the Doc.)
TickOfDoc(a) == [lamport |-> lamport[a] + 1, actor |-> docId[a]]

Tick(a) == [lamport |-> lamport[a] + 1, actor |-> a]

\* Where a's next write of a field goes.
Below(a, f) == Append(f.path, docId[a])

Write(a, n, e, field, path) ==
  /\ ops + restarts < MaxEvents
  /\ ops' = ops + 1
  /\ manifest' = [manifest EXCEPT ![a] =
                    [k \in DOMAIN manifest[a] \cup {n} |-> IF k = n THEN e ELSE manifest[a][k]]]
  /\ lamport' = [lamport EXCEPT ![a] = @ + 1]
  /\ written' = written \cup {[node |-> n, field |-> field, path |-> path, stamp |-> Tick(a)]}
  /\ UNCHANGED <<docId, usedIds, restarts>>

\* create_node, with a fresh node id (a UUIDv7: later ones are larger).
CreateNode(a, name) ==
  \E n \in Nodes :
    /\ \A k \in Nodes : k < n <=> \E w \in written : w.node = k
    /\ Write(a, n,
             [create |-> Tick(a),
              name |-> [path |-> <<docId[a]>>, name |-> name],
              mod |-> [path |-> <<>>, stamp |-> NoTime],
              del |-> [path |-> <<>>, stamp |-> NoTime, saw |-> <<>>]],
             "create", <<docId[a]>>)

\* (A bug: no look at the projection.)
CreateAnyway(a, name) == CreateNode(a, name)

\* create_text, create_binary: the path must be free.
Create(a, name) ==
  /\ name \notin Taken(manifest[a])
  /\ CreateNode(a, name)

\* create_text_allowing_collision: the scan's file is not the one the
\* manifest has at its path.
CreateColliding(a, name) ==
  /\ name \in Taken(manifest[a])
  /\ CreateNode(a, name)

\* What record_modify and set_blob_hash leave (the blob is in module
\* PluginBlobs), with the name's field as given.
Modified(a, n, nameField) ==
  LET e    == manifest[a][n]
      path == Below(a, e.mod)
  IN  Write(a, n, [e EXCEPT !.name = nameField,
                            !.mod = [path |-> path, stamp |-> Tick(a)]], "mod", path)

\* An edit of a projected file.
RecordModify(a, n) ==
  /\ n \in Live(manifest[a])
  /\ Modified(a, n, manifest[a][n].name)

\* ops::rename within a directory, to a free name.
Rename(a, n, to) ==
  /\ n \in Live(manifest[a])
  /\ to \notin Taken(manifest[a])
  /\ Modified(a, n, [path |-> Below(a, manifest[a][n].name), name |-> to])

\* A projected file is gone from the vault.
Delete(a, n) ==
  /\ n \in Live(manifest[a])
  /\ LET e    == manifest[a][n]
         path == Below(a, e.del)
     IN  Write(a, n, [e EXCEPT !.del = [path |-> path, stamp |-> Tick(a), saw |-> e.mod.path]],
               "del", path)

-----------------------------------------------------------------------------
(* Exchange and restart *)

\* Manifest::apply_update, on what b has sent to the server until now.
Receive(a, b) ==
  /\ manifest' = [manifest EXCEPT ![a] = Merge(@, manifest[b])]
  /\ lamport' = [lamport EXCEPT ![a] = Observed(@, manifest'[a])]
  /\ UNCHANGED <<docId, usedIds, restarts, ops, written>>

\* A new process, up to the first manifest frame of its first session: a new
\* Doc, and a lamport that starts at zero and observes what the Doc holds.
Restart(a) ==
  /\ ops + restarts < MaxEvents
  /\ restarts' = restarts + 1
  /\ \E d \in DocIds \ usedIds :
       docId' = [docId EXCEPT ![a] = d] /\ usedIds' = usedIds \cup {d}
  /\ lamport' = [lamport EXCEPT ![a] = Observed(0, manifest[a])]
  /\ UNCHANGED <<manifest, ops, written>>

LocalStep(a) ==
  \/ \E name \in Names : Create(a, name)
  \/ \E n \in DOMAIN manifest[a] :
       RecordModify(a, n) \/ Delete(a, n) \/ (\E to \in Names : Rename(a, n, to))

Next ==
  \E a \in Actors :
    \/ LocalStep(a)
    \/ \E name \in Names : CreateColliding(a, name)
    \/ \E b \in Actors \ {a} : Receive(a, b)
    \/ Restart(a)

Spec == Init /\ [][Next]_vars

-----------------------------------------------------------------------------
(* Properties *)

IsManifest(m) ==
  /\ DOMAIN m \subseteq Nodes
  /\ m = [n \in DOMAIN m |-> m[n]]
  /\ \A n \in DOMAIN m : m[n] \in Entry

\* The types of the variables.
TypeOK ==
  /\ manifest = [a \in Actors |-> manifest[a]]
  /\ \A a \in Actors : IsManifest(manifest[a])
  /\ lamport \in [Actors -> Nat]
  /\ docId \in [Actors -> DocIds]
  /\ usedIds \subseteq DocIds
  /\ restarts \in Nat
  /\ ops \in Nat
  /\ written \subseteq [node : Nodes, field : {"create", "mod", "del"}, path : Path, stamp : Stamp]

\* The two orders agree along every branch: a write that replaces another
\* one has the greater stamp, across actors and restarts, so they can
\* disagree on rival writes only.
BranchesGrow ==
  \A v, w \in written :
    /\ v.node = w.node
    /\ v.field = w.field
    /\ IsStrictPrefix(v.path, w.path)
    => Beats(w.stamp, v.stamp)

\* A deleted file is back only through a modification that whoever deleted
\* it had not seen: no exchange of old states brings it back.
OnlyUnseenEditsResurrect ==
  \A a \in Actors : \A n \in Live(manifest[a]) :
    LET e == manifest[a][n] IN Deleted(e) => After(e.mod.path, e.del.saw)

\* From m to k the file n is edited, and hands its path to its rival f.
Yields(m, k, n, f) ==
  /\ OwnsPath(m, n) /\ OwnsPath(k, f)
  /\ k[n].name = m[n].name /\ k[n].mod # m[n].mod
  /\ ConflictCopies(k) \subseteq (ConflictCopies(m) \ {f}) \cup {n}

\* A client's own operations, other than creating over a path on purpose, turn
\* no file of its projection into a conflict copy, but for one case: an edit of
\* the file that has a contested path makes it a copy, and one of the copies the
\* owner, as the least stamp has the path (projection.rs:91).
OnlyEditsYieldPaths ==
  [][\A a \in Actors :
       LocalStep(a) =>
         \/ ConflictCopies(manifest'[a]) \subseteq ConflictCopies(manifest[a])
         \/ \E n \in DOMAIN manifest[a] : \E f \in Rivals(manifest[a], n) :
              Yields(manifest[a], manifest'[a], n, f)]_vars
=============================================================================
