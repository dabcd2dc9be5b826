-------------------------- MODULE NodeFieldsProofs --------------------------
(***************************************************************************)
(* Proofs about NodeFields, for any actors, nodes, names and Docs and any  *)
(* number of events: the order that Yrs gives to the writes of a field and *)
(* the order of their stamps agree along every branch, only an edit that   *)
(* the deleter had not seen brings a file back, and an operation makes a   *)
(* conflict copy only where the owner of a contested path is edited.       *)
(***************************************************************************)
EXTENDS NodeFields, WellFoundedInduction, TLAPS

\* The fields whose writes hang below each other, and what an entry holds of
\* them.
Stamped == {"mod", "del"}

Held(e, k) == IF k = "mod" THEN e.mod ELSE e.del

\* p is q or comes after it.
NotBefore(p, q) == p = q \/ After(p, q)

\* What a replica holds was written by somebody.
WrittenAs(n, k, f) ==
  \E w \in written : w.node = n /\ w.field = k /\ w.path = f.path /\ w.stamp = f.stamp

HoldsWrites(n, e) ==
  /\ \E w \in written : w.node = n
  /\ \A k \in Stamped :
       \/ Held(e, k).path = << >> /\ Held(e, k).stamp = NoTime
       \/ WrittenAs(n, k, Held(e, k))

EntriesAreWritten == \A a \in Actors : \A n \in DOMAIN manifest[a] : HoldsWrites(n, manifest[a][n])

\* Every Doc has its own client id.
DocsAreDistinct ==
  /\ \A a, b \in Actors : docId[a] = docId[b] => a = b
  /\ \A a \in Actors : docId[a] \in usedIds
  /\ \A w \in written : \A i \in DOMAIN w.path : w.path[i] \in usedIds

\* A path names one write, and the writes above it on its branch are there.
PathsNameWrites ==
  /\ \A w \in written : w.path # << >>
  /\ \A v, w \in written : v.node = w.node /\ v.field = w.field /\ v.path = w.path => v = w
  /\ \A w \in written : w.field \in Stamped =>
       \A i \in DOMAIN w.path :
         \E v \in written : v.node = w.node /\ v.field = w.field /\ v.path = SubSeq(w.path, 1, i)

\* Whoever wrote with the Doc he has holds this write or a later one.
OwnWritesAreHeld ==
  \A a \in Actors : \A w \in written :
    w.field \in Stamped /\ w.path[Len(w.path)] = docId[a] =>
      /\ w.node \in DOMAIN manifest[a]
      /\ NotBefore(Held(manifest[a][w.node], w.field).path, w.path)

\* No actor's clock is behind a stamp that it can read.
Observes(l, e) == e.create.lamport <= l /\ e.mod.stamp.lamport <= l /\ e.del.stamp.lamport <= l

ClocksObserve ==
  \A a \in Actors : \A n \in DOMAIN manifest[a] : Observes(lamport[a], manifest[a][n])

\* Who has a delete has what the deleter had seen of the modifications; and
\* if he has no more than that, the delete is the later one.
DeleteIsInformed(e) ==
  Deleted(e) =>
    /\ NotBefore(e.mod.path, e.del.saw)
    /\ e.mod.path = e.del.saw => Beats(e.del.stamp, e.mod.stamp)

DeletesAreInformed ==
  \A a \in Actors : \A n \in DOMAIN manifest[a] : DeleteIsInformed(manifest[a][n])

IInv ==
  /\ TypeOK
  /\ EntriesAreWritten
  /\ DocsAreDistinct
  /\ PathsNameWrites
  /\ OwnWritesAreHeld
  /\ ClocksObserve
  /\ DeletesAreInformed
  /\ BranchesGrow

-----------------------------------------------------------------------------
(* The order of paths *)

LEMMA PathTypes ==
  ASSUME NEW p \in Path
  PROVE  /\ p \in Seq(DocIds) /\ Len(p) \in Nat /\ DOMAIN p = 1..Len(p)
         /\ \A i \in 1..Len(p) : p[i] \in DocIds /\ p[i] \in Nat
  <1>1. p \in Seq(DocIds)
    BY DEF Path
  <1>2. Len(p) \in Nat /\ DOMAIN p = 1..Len(p) /\ \A i \in 1..Len(p) : p[i] \in DocIds
    BY <1>1
  <1>3. DocIds \subseteq Nat
    BY NodeFieldsAssumption
  <1> QED
    BY <1>1, <1>2, <1>3

\* A strict prefix is shorter, and equal as far as it goes.
LEMMA StrictPrefixes ==
  ASSUME NEW p \in Path, NEW q \in Path
  PROVE  IsStrictPrefix(q, p) <=> Len(q) < Len(p) /\ \A i \in 1..Len(q) : q[i] = p[i]
  <1>1. p \in Seq(DocIds) /\ q \in Seq(DocIds) /\ Len(p) \in Nat /\ Len(q) \in Nat
    BY DEF Path
  <1>2. ASSUME IsStrictPrefix(q, p)
        PROVE  Len(q) < Len(p) /\ \A i \in 1..Len(q) : q[i] = p[i]
    <2>1. Len(q) <= Len(p) /\ SubSeq(q, 1, Len(q)) = SubSeq(p, 1, Len(q)) /\ q # p
      BY <1>2 DEF IsStrictPrefix, IsPrefix
    <2>2. \A i \in 1..Len(q) : SubSeq(q, 1, Len(q))[i] = q[i] /\ SubSeq(p, 1, Len(q))[i] = p[i]
      BY <1>1, <2>1
    <2>3. \A i \in 1..Len(q) : q[i] = p[i]
      BY <2>1, <2>2
    <2>4. Len(q) # Len(p)
      BY <1>1, <2>1, <2>3
    <2> QED
      BY <1>1, <2>1, <2>3, <2>4
  <1>3. ASSUME Len(q) < Len(p), \A i \in 1..Len(q) : q[i] = p[i]
        PROVE  IsStrictPrefix(q, p)
    <2>1. SubSeq(q, 1, Len(q)) = SubSeq(p, 1, Len(q))
      BY <1>1, <1>3
    <2>2. q # p /\ Len(q) <= Len(p)
      BY <1>1, <1>3
    <2> QED
      BY <2>1, <2>2 DEF IsStrictPrefix, IsPrefix
  <1> QED
    BY <1>2, <1>3

\* p comes after q at its place i: q ends before it, or has less there.
AfterAt(p, q, i) ==
  /\ i \in 1..Len(p)
  /\ \A j \in 1..i - 1 : j \in 1..Len(q) /\ p[j] = q[j]
  /\ i \in 1..Len(q) => p[i] > q[i]

\* The two cases of After are one: the first place where the paths differ.
LEMMA AfterSomewhere ==
  ASSUME NEW p \in Path, NEW q \in Path
  PROVE  After(p, q) <=> \E i \in Nat : AfterAt(p, q, i)
  <1>1. p \in Seq(DocIds) /\ q \in Seq(DocIds) /\ Len(p) \in Nat /\ Len(q) \in Nat
    BY DEF Path
  <1>2. IsStrictPrefix(q, p) <=> Len(q) < Len(p) /\ \A i \in 1..Len(q) : q[i] = p[i]
    BY StrictPrefixes
  <1>3. ASSUME After(p, q) PROVE \E i \in Nat : AfterAt(p, q, i)
    <2>1. CASE IsStrictPrefix(q, p)
      <3>1. AfterAt(p, q, Len(q) + 1)
        BY <1>1, <1>2, <2>1 DEF AfterAt
      <3> QED
        BY <1>1, <3>1
    <2>2. CASE ~IsStrictPrefix(q, p)
      <3>1. PICK i \in 1..Len(p) \cap 1..Len(q) :
              p[i] > q[i] /\ \A j \in 1..i - 1 : p[j] = q[j]
        BY <1>3, <2>2 DEF After
      <3>2. AfterAt(p, q, i)
        BY <1>1, <3>1 DEF AfterAt
      <3> QED
        BY <1>1, <3>1, <3>2
    <2> QED
      BY <2>1, <2>2
  <1>4. ASSUME NEW i \in Nat, AfterAt(p, q, i) PROVE After(p, q)
    <2>1. CASE i \in 1..Len(q)
      BY <1>4, <2>1 DEF AfterAt, After
    <2>2. CASE i \notin 1..Len(q)
      <3>1. Len(q) < i /\ i <= Len(p)
        BY <1>1, <1>4, <2>2 DEF AfterAt
      <3>2. \A j \in 1..Len(q) : q[j] = p[j]
        BY <1>1, <1>4, <3>1 DEF AfterAt
      <3>3. Len(q) < Len(p)
        BY <1>1, <3>1
      <3> QED
        BY <1>2, <3>2, <3>3 DEF After
    <2> QED
      BY <2>1, <2>2
  <1> QED
    BY <1>3, <1>4

LEMMA AfterIrreflexive ==
  ASSUME NEW p \in Path
  PROVE  ~After(p, p)
  <1>1. Len(p) \in Nat /\ \A i \in 1..Len(p) : p[i] \in Nat
    BY PathTypes
  <1>2. ASSUME NEW i \in Nat PROVE ~AfterAt(p, p, i)
    BY <1>1 DEF AfterAt
  <1> QED
    BY <1>2, AfterSomewhere

LEMMA AfterTransitive ==
  ASSUME NEW p \in Path, NEW q \in Path, NEW r \in Path, After(p, q), After(q, r)
  PROVE  After(p, r)
  <1>1. /\ Len(p) \in Nat /\ Len(q) \in Nat /\ Len(r) \in Nat
        /\ \A i \in 1..Len(p) : p[i] \in Nat
        /\ \A i \in 1..Len(q) : q[i] \in Nat
        /\ \A i \in 1..Len(r) : r[i] \in Nat
    BY PathTypes
  <1>2. PICK i \in Nat : AfterAt(p, q, i)
    BY AfterSomewhere
  <1>3. PICK j \in Nat : AfterAt(q, r, j)
    BY AfterSomewhere
  <1>4. CASE i <= j
    <2>1. AfterAt(p, r, i)
      BY <1>1, <1>2, <1>3, <1>4 DEF AfterAt
    <2> QED
      BY <2>1, AfterSomewhere
  <1>5. CASE j < i
    <2>1. AfterAt(p, r, j)
      BY <1>1, <1>2, <1>3, <1>5 DEF AfterAt
    <2> QED
      BY <2>1, AfterSomewhere
  <1> QED
    BY <1>4, <1>5

\* A nonempty set of natural numbers has a least element.
LEMMA LeastExists ==
  ASSUME NEW S, S \subseteq Nat, S # {}
  PROVE  \E x \in S : \A y \in S : x <= y
  <1> DEFINE Less == {ss \in Nat \X Nat : ss[1] < ss[2]}
  <1>1. IsWellFoundedOn(Less, Nat)
    BY NatLessThanWellFounded, Zenon DEF OpToRel
  <1>2. ASSUME NEW x \in Nat, NEW y \in Nat, y < x PROVE <<y, x>> \in Less
    BY <1>2
  <1> HIDE DEF Less
  <1>3. PICK x \in S : \A y \in S : <<y, x>> \notin Less
    BY <1>1, WFMin, Zenon
  <1>4. ASSUME NEW y \in S PROVE x <= y
    <2>1. x \in Nat /\ y \in Nat
      OBVIOUS
    <2>2. ~(y < x)
      BY <1>2, <1>3, <2>1
    <2> QED
      BY <2>1, <2>2
  <1> QED
    BY <1>3, <1>4

LEMMA AfterTotal ==
  ASSUME NEW p \in Path, NEW q \in Path, p # q
  PROVE  After(p, q) \/ After(q, p)
  <1>1. /\ p \in Seq(DocIds) /\ q \in Seq(DocIds) /\ Len(p) \in Nat /\ Len(q) \in Nat
        /\ \A i \in 1..Len(p) : p[i] \in Nat
        /\ \A i \in 1..Len(q) : q[i] \in Nat
    BY PathTypes
  <1> DEFINE apart == {i \in 1..Len(p) \cap 1..Len(q) : p[i] # q[i]}
  <1>2. CASE apart = {}
    <2>1. \A i \in 1..Len(p) \cap 1..Len(q) : p[i] = q[i]
      BY <1>2
    <2>2. Len(p) # Len(q)
      BY <1>1, <2>1
    <2>3. CASE Len(q) < Len(p)
      BY <1>1, <2>1, <2>3, StrictPrefixes DEF After
    <2>4. CASE Len(p) < Len(q)
      BY <1>1, <2>1, <2>4, StrictPrefixes DEF After
    <2> QED
      BY <1>1, <2>2, <2>3, <2>4
  <1>3. CASE apart # {}
    <2>1. apart \subseteq Nat
      BY <1>1
    <2> HIDE DEF apart
    <2>2. PICK i \in apart : \A j \in apart : i <= j
      BY <1>3, <2>1, LeastExists
    <2> USE DEF apart
    <2>3. i \in 1..Len(p) \cap 1..Len(q) /\ p[i] # q[i]
      BY <2>2
    <2>4. \A j \in 1..i - 1 : p[j] = q[j]
      BY <1>1, <2>2, <2>3
    <2>5. p[i] > q[i] \/ q[i] > p[i]
      BY <1>1, <2>3
    <2> QED
      BY <2>3, <2>4, <2>5 DEF After
  <1> QED
    BY <1>2, <1>3

\* What Append puts at the end of a path comes after it.
LEMMA BelowIsAfter ==
  ASSUME NEW p \in Path, NEW d \in DocIds
  PROVE  /\ Append(p, d) \in Path /\ Append(p, d) # << >>
         /\ Len(Append(p, d)) = Len(p) + 1
         /\ Append(p, d)[Len(p) + 1] = d
         /\ After(Append(p, d), p)
         /\ ~NotBefore(p, Append(p, d))
  <1> DEFINE q == Append(p, d)
  <1>1. p \in Seq(DocIds) /\ Len(p) \in Nat
    BY DEF Path
  <1>2. q \in Path /\ q # << >> /\ Len(q) = Len(p) + 1 /\ q[Len(p) + 1] = d
    BY <1>1 DEF Path
  <1>3. \A i \in 1..Len(p) : q[i] = p[i]
    BY <1>1
  <1> HIDE DEF q
  <1>4. IsStrictPrefix(p, q)
    BY <1>1, <1>2, <1>3, StrictPrefixes
  <1>5. After(q, p)
    BY <1>4 DEF After
  <1>6. ~NotBefore(p, q)
    BY <1>2, <1>5, AfterTransitive, AfterIrreflexive DEF NotBefore
  <1> QED
    BY <1>2, <1>5, <1>6 DEF q

\* The current one of two writes is one of them, and before neither.
LEMMA CurrentIsLast ==
  ASSUME NEW f, NEW g, f.path \in Path, g.path \in Path
  PROVE  /\ Current(f, g) \in {f, g}
         /\ NotBefore(Current(f, g).path, f.path)
         /\ NotBefore(Current(f, g).path, g.path)
  BY AfterTotal DEF Current, NotBefore

LEMMA NotBeforeTransitive ==
  ASSUME NEW p \in Path, NEW q \in Path, NEW r \in Path, NotBefore(p, q), NotBefore(q, r)
  PROVE  NotBefore(p, r)
  BY AfterTransitive DEF NotBefore

-----------------------------------------------------------------------------
(* Clocks and entries *)

\* A nonempty bounded set of natural numbers has a greatest element: Max.
LEMMA MaxIsGreatest ==
  ASSUME NEW S, S \subseteq Nat, S # {}, NEW bound \in Nat, \A y \in S : y <= bound
  PROVE  Max(S) \in S /\ \A y \in S : y <= Max(S)
  <1> DEFINE above == {u \in Nat : \A y \in S : y <= u}
  <1>1. above \subseteq Nat /\ above # {}
    OBVIOUS
  <1> HIDE DEF above
  <1>2. PICK u \in above : \A v \in above : u <= v
    BY <1>1, LeastExists
  <1> USE DEF above
  <1>3. u \in Nat /\ \A y \in S : y <= u
    BY <1>2
  <1>4. u \in S
    <2>1. SUFFICES ASSUME u \notin S PROVE FALSE
      OBVIOUS
    <2>2. \A y \in S : y \in Nat /\ y < u
      BY <1>3, <2>1
    <2>3. PICK y0 \in S : TRUE
      OBVIOUS
    <2>4. u - 1 \in Nat /\ \A y \in S : y <= u - 1
      BY <1>3, <2>2, <2>3
    <2>5. u - 1 \in above
      BY <2>4
    <2>6. u <= u - 1
      BY <1>2, <2>5
    <2> QED
      BY <1>3, <2>6
  <1>5. \A y \in S : u >= y
    BY <1>3
  <1> QED
    BY <1>4, <1>5 DEF Max

\* apply_update leaves the counter at or above every stamp there is.
LEMMA ObservedCovers ==
  ASSUME NEW l \in Nat, NEW m, IsManifest(m), NEW bound \in Nat,
         \A n \in DOMAIN m : Observes(bound, m[n])
  PROVE  /\ Observed(l, m) \in Nat
         /\ \A n \in DOMAIN m : Observes(Observed(l, m), m[n])
  <1> DEFINE stamps(n) == {m[n].create.lamport, m[n].mod.stamp.lamport, m[n].del.stamp.lamport}
             S == {l} \cup {k + 1 : k \in UNION {stamps(n) : n \in DOMAIN m}}
             most == l + bound + 1
  <1>1. Observed(l, m) = Max(S)
    BY DEF Observed
  <1>2. ASSUME NEW n \in DOMAIN m
        PROVE  /\ m[n].create.lamport \in Nat
               /\ m[n].mod.stamp.lamport \in Nat
               /\ m[n].del.stamp.lamport \in Nat
    BY DEF IsManifest, Entry, ModField, DelField, Stamp
  <1>3. ASSUME NEW n \in DOMAIN m, NEW k \in stamps(n)
        PROVE  k \in Nat /\ k <= bound /\ k + 1 \in S
    <2> DEFINE all == UNION {stamps(nn) : nn \in DOMAIN m}
    <2>1. k \in all
      OBVIOUS
    <2>2. S = {l} \cup {kk + 1 : kk \in all}
      OBVIOUS
    <2> HIDE DEF all, S
    <2>3. k + 1 \in S
      BY <2>1, <2>2
    <2> QED
      BY <1>2, <2>3 DEF Observes
  <1>4. S \subseteq Nat /\ S # {} /\ most \in Nat /\ \A y \in S : y <= most
    <2>1. ASSUME NEW y \in S PROVE y \in Nat /\ y <= most
      <3>1. CASE y = l
        BY <3>1
      <3>2. CASE y # l
        <4>1. PICK n \in DOMAIN m : \E k \in stamps(n) : y = k + 1
          BY <3>2
        <4>2. PICK k \in stamps(n) : y = k + 1
          BY <4>1
        <4>3. k \in Nat /\ k <= bound
          BY <1>3, <4>2
        <4> QED
          BY <4>2, <4>3
      <3> QED
        BY <3>1, <3>2
    <2>2. most \in Nat
      OBVIOUS
    <2>3. l \in S
      OBVIOUS
    <2> HIDE DEF S, most
    <2> QED
      BY <2>1, <2>2, <2>3
  <1> HIDE DEF S, most
  <1>6. Max(S) \in S /\ \A y \in S : y <= Max(S)
    BY <1>4, MaxIsGreatest
  <1>7. Max(S) \in Nat
    BY <1>4, <1>6
  <1>8. ASSUME NEW n \in DOMAIN m PROVE Observes(Max(S), m[n])
    <2>1. \A k \in stamps(n) : k \in Nat /\ k + 1 \in S
      BY <1>3
    <2>2. \A k \in stamps(n) : k <= Max(S)
      BY <1>6, <1>7, <2>1
    <2> QED
      BY <2>2 DEF Observes
  <1> QED
    BY <1>1, <1>7, <1>8

\* The parts of an entry have their types.
LEMMA EntryTypes ==
  ASSUME NEW e \in Entry
  PROVE  /\ e.create \in Stamp /\ e.name \in NameField /\ e.mod \in ModField /\ e.del \in DelField
         /\ e = [create |-> e.create, name |-> e.name, mod |-> e.mod, del |-> e.del]
         /\ e.name.path \in Path /\ e.mod.path \in Path /\ e.del.path \in Path /\ e.del.saw \in Path
         /\ e.mod.stamp \in Stamp /\ e.del.stamp \in Stamp
         /\ \A k \in Stamped : Held(e, k).path \in Path /\ Held(e, k).stamp \in Stamp
  BY DEF Entry, NameField, ModField, DelField, Held, Stamped

LEMMA BeatsByClock ==
  ASSUME NEW s \in Stamp, NEW t \in Stamp
  PROVE  /\ s.lamport \in Nat /\ t.lamport \in Nat
         /\ Beats(s, t) => t.lamport <= s.lamport /\ ~Beats(t, s)
         /\ t.lamport < s.lamport => Beats(s, t)
  <1>1. Actors \cup {0} \subseteq Nat
    BY NodeFieldsAssumption
  <1>2. s.lamport \in Nat /\ t.lamport \in Nat /\ s.actor \in Nat /\ t.actor \in Nat
    BY <1>1 DEF Stamp
  <1> QED
    BY <1>2 DEF Beats

LEMMA TickTypes ==
  ASSUME TypeOK, NEW a \in Actors
  PROVE  /\ Tick(a) \in Stamp /\ Tick(a).lamport = lamport[a] + 1 /\ lamport[a] \in Nat
         /\ NoTime \in Stamp
         /\ docId[a] \in DocIds /\ << >> \in Path
         /\ \A n \in DOMAIN manifest[a] : n \in Nodes /\ manifest[a][n] \in Entry
  BY DEF TypeOK, Tick, Stamp, NoTime, Path, IsManifest

-----------------------------------------------------------------------------
(* Writes *)

\* What an operation writes: the node's new entry e, with one stamped field
\* below the one that it had.
FieldWrite(a, n, e, k) ==
  /\ n \in DOMAIN manifest[a]
  /\ k \in Stamped
  /\ e \in Entry
  /\ e.create = manifest[a][n].create
  /\ Held(e, k).path = Below(a, Held(manifest[a][n], k))
  /\ Held(e, k).stamp = Tick(a)
  /\ k = "mod" => e.del = manifest[a][n].del
  /\ k = "del" => e.mod = manifest[a][n].mod /\ e.del.saw = e.mod.path
  /\ Write(a, n, e, k, Held(e, k).path)

\* A node that nobody has.
NewNode(a, n, e) ==
  /\ n \in Nodes /\ \A w \in written : w.node # n
  /\ e \in Entry
  /\ e.create = Tick(a)
  /\ e.mod.path = << >> /\ e.mod.stamp = NoTime
  /\ e.del.path = << >> /\ e.del.stamp = NoTime
  /\ Write(a, n, e, "create", <<docId[a]>>)

LEMMA CreateNodeWrites ==
  ASSUME TypeOK, NEW a \in Actors, NEW name \in Names, CreateNode(a, name)
  PROVE  \E n \in Nodes : \E e \in Entry : NewNode(a, n, e) /\ e.name.name = name
  <1>1. Tick(a) \in Stamp /\ NoTime \in Stamp /\ docId[a] \in DocIds /\ << >> \in Path
    BY TickTypes
  <1> DEFINE e == [create |-> Tick(a),
                   name |-> [path |-> <<docId[a]>>, name |-> name],
                   mod |-> [path |-> << >>, stamp |-> NoTime],
                   del |-> [path |-> << >>, stamp |-> NoTime, saw |-> << >>]]
  <1>2. PICK n \in Nodes :
          /\ \A k \in Nodes : k < n <=> \E w \in written : w.node = k
          /\ Write(a, n, e, "create", <<docId[a]>>)
    BY DEF CreateNode
  <1>3. \A w \in written : w.node # n
    <2>1. n \in Nat /\ ~(n < n)
      BY NodeFieldsAssumption
    <2> QED
      BY <1>2, <2>1
  <1>4. <<docId[a]>> \in Path
    BY <1>1 DEF Path
  <1>5. e \in Entry
    BY <1>1, <1>4 DEF Entry, NameField, ModField, DelField
  <1>6. NewNode(a, n, e) /\ e.name.name = name
    BY <1>2, <1>3, <1>5 DEF NewNode
  <1> QED
    BY <1>5, <1>6

LEMMA ModifiedWrites ==
  ASSUME TypeOK, NEW a \in Actors, NEW n \in DOMAIN manifest[a], NEW f \in NameField, Modified(a, n, f)
  PROVE  \E e \in Entry : FieldWrite(a, n, e, "mod") /\ e.name = f
  <1> DEFINE old == manifest[a][n]
             path == Below(a, old.mod)
             e == [old EXCEPT !.name = f, !.mod = [path |-> path, stamp |-> Tick(a)]]
  <1>1. old \in Entry /\ path \in Path /\ Tick(a) \in Stamp
    BY TickTypes, EntryTypes, BelowIsAfter DEF Below
  <1>2. Write(a, n, e, "mod", path)
    BY DEF Modified
  <1> HIDE DEF path
  <1>3. e = [create |-> old.create, name |-> f, mod |-> [path |-> path, stamp |-> Tick(a)],
             del |-> old.del]
    <2> DEFINE named == [old EXCEPT !.name = f]
    <2>1. named = [create |-> old.create, name |-> f, mod |-> old.mod, del |-> old.del]
      BY <1>1 DEF Entry
    <2>2. e = [named EXCEPT !.mod = [path |-> path, stamp |-> Tick(a)]]
      OBVIOUS
    <2> HIDE DEF named, e
    <2> QED
      BY <2>1, <2>2
  <1>4. e \in Entry
    BY <1>1, <1>3, EntryTypes DEF Entry, ModField
  <1>5. /\ e.create = old.create /\ e.mod.path = path /\ e.mod.stamp = Tick(a) /\ e.del = old.del
        /\ e.name = f
    BY <1>3
  <1> HIDE DEF e, old
  <1>6. FieldWrite(a, n, e, "mod")
    BY <1>2, <1>4, <1>5 DEF FieldWrite, Held, Stamped, path, old
  <1> QED
    BY <1>4, <1>5, <1>6

LEMMA DeleteWrites ==
  ASSUME TypeOK, NEW a \in Actors, NEW n \in DOMAIN manifest[a], Delete(a, n)
  PROVE  \E e \in Entry : FieldWrite(a, n, e, "del") /\ e.name = manifest[a][n].name
  <1> DEFINE old == manifest[a][n]
             path == Below(a, old.del)
             e == [old EXCEPT !.del = [path |-> path, stamp |-> Tick(a), saw |-> old.mod.path]]
  <1>1. old \in Entry /\ path \in Path /\ Tick(a) \in Stamp
    BY TickTypes, EntryTypes, BelowIsAfter DEF Below
  <1>2. Write(a, n, e, "del", path)
    BY DEF Delete
  <1> HIDE DEF path
  <1>3. e = [create |-> old.create, name |-> old.name, mod |-> old.mod,
             del |-> [path |-> path, stamp |-> Tick(a), saw |-> old.mod.path]]
    BY <1>1 DEF Entry
  <1>4. e \in Entry
    BY <1>1, <1>3, EntryTypes DEF Entry, DelField
  <1>5. /\ e.create = old.create /\ e.del.path = path /\ e.del.stamp = Tick(a)
        /\ e.mod = old.mod /\ e.del.saw = e.mod.path /\ e.name = old.name
    BY <1>3
  <1> HIDE DEF e, old
  <1>6. FieldWrite(a, n, e, "del")
    BY <1>2, <1>4, <1>5 DEF FieldWrite, Held, Stamped, path, old
  <1> QED
    BY <1>4, <1>5, <1>6 DEF old

\* Every operation is one of the two.
LEMMA LocalStepsWrite ==
  ASSUME TypeOK, NEW a \in Actors,
         LocalStep(a) \/ (\E name \in Names : CreateColliding(a, name))
  PROVE  \E n \in Nodes : \E e \in Entry : NewNode(a, n, e) \/ (\E k \in Stamped : FieldWrite(a, n, e, k))
  <1>1. /\ docId[a] \in DocIds
        /\ \A n \in DOMAIN manifest[a] : n \in Nodes /\ manifest[a][n] \in Entry
    BY TickTypes
  <1>2. ASSUME NEW name \in Names, Create(a, name) \/ CreateColliding(a, name)
        PROVE  \E n \in Nodes : \E e \in Entry : NewNode(a, n, e)
    BY <1>2, CreateNodeWrites DEF Create, CreateColliding
  <1>3. ASSUME NEW n \in DOMAIN manifest[a], RecordModify(a, n)
        PROVE  \E e \in Entry : FieldWrite(a, n, e, "mod")
    <2>1. manifest[a][n].name \in NameField
      BY <1>1, EntryTypes
    <2> QED
      BY <1>3, <2>1, ModifiedWrites DEF RecordModify
  <1>4. ASSUME NEW n \in DOMAIN manifest[a], NEW to \in Names, Rename(a, n, to)
        PROVE  \E e \in Entry : FieldWrite(a, n, e, "mod")
    <2>1. [path |-> Below(a, manifest[a][n].name), name |-> to] \in NameField
      BY <1>1, EntryTypes, BelowIsAfter DEF Below, NameField
    <2> QED
      BY <1>4, <2>1, ModifiedWrites DEF Rename
  <1>5. ASSUME NEW n \in DOMAIN manifest[a], Delete(a, n)
        PROVE  \E e \in Entry : FieldWrite(a, n, e, "del")
    BY <1>5, DeleteWrites
  <1> QED
    BY <1>1, <1>2, <1>3, <1>4, <1>5 DEF LocalStep, Stamped

\* What a write changes.
LEMMA WriteEffect ==
  ASSUME TypeOK, NEW a \in Actors, NEW n \in Nodes, NEW e \in Entry, NEW k, NEW path,
         Write(a, n, e, k, path)
  PROVE  /\ \A b \in Actors \ {a} : manifest'[b] = manifest[b] /\ lamport'[b] = lamport[b]
         /\ DOMAIN manifest'[a] = DOMAIN manifest[a] \cup {n}
         /\ manifest'[a][n] = e
         /\ \A m \in DOMAIN manifest[a] \ {n} : manifest'[a][m] = manifest[a][m]
         /\ IsManifest(manifest'[a])
         /\ manifest' = [b \in Actors |-> manifest'[b]]
         /\ lamport'[a] = lamport[a] + 1 /\ lamport[a] \in Nat
         /\ lamport' \in [Actors -> Nat]
         /\ written' = written \cup {[node |-> n, field |-> k, path |-> path, stamp |-> Tick(a)]}
         /\ docId' = docId /\ usedIds' = usedIds
  <1> DEFINE new == [j \in DOMAIN manifest[a] \cup {n} |-> IF j = n THEN e ELSE manifest[a][j]]
  <1>1. manifest' = [manifest EXCEPT ![a] = new]
    BY DEF Write
  <1>2. manifest = [b \in Actors |-> manifest[b]] /\ IsManifest(manifest[a]) /\ lamport \in [Actors -> Nat]
    BY DEF TypeOK
  <1>3. DOMAIN manifest = Actors
    <2>1. DOMAIN [b \in Actors |-> manifest[b]] = Actors
      OBVIOUS
    <2> QED
      BY <1>2, <2>1
  <1>4. /\ DOMAIN new = DOMAIN manifest[a] \cup {n}
        /\ new[n] = e
        /\ \A m \in DOMAIN manifest[a] \ {n} : new[m] = manifest[a][m]
        /\ new = [j \in DOMAIN new |-> new[j]]
    OBVIOUS
  <1>5. IsManifest(new)
    BY <1>2, <1>4 DEF IsManifest
  <1> HIDE DEF new
  <1>6. manifest'[a] = new /\ \A b \in Actors \ {a} : manifest'[b] = manifest[b]
    BY <1>1, <1>3
  <1>7. manifest' = [b \in Actors |-> manifest'[b]]
    BY <1>1, <1>3
  <1>8. /\ lamport'[a] = lamport[a] + 1 /\ lamport[a] \in Nat
        /\ lamport' \in [Actors -> Nat]
        /\ \A b \in Actors \ {a} : lamport'[b] = lamport[b]
    BY <1>2 DEF Write
  <1> QED
    BY <1>4, <1>5, <1>6, <1>7, <1>8 DEF Write

LEMMA WriteTypes ==
  ASSUME TypeOK, NEW a \in Actors, NEW n \in Nodes, NEW e \in Entry,
         NEW k \in {"create", "mod", "del"}, NEW path \in Path, Write(a, n, e, k, path)
  PROVE  TypeOK'
  <1>1. \A b \in Actors : IsManifest(manifest'[b])
    BY WriteEffect DEF TypeOK
  <1>2. Tick(a) \in Stamp
    BY TickTypes
  <1>3. written' \subseteq [node : Nodes, field : {"create", "mod", "del"}, path : Path, stamp : Stamp]
    BY <1>2, WriteEffect DEF TypeOK
  <1>4. restarts' \in Nat /\ ops' \in Nat
    BY DEF Write, TypeOK
  <1> QED
    BY <1>1, <1>3, <1>4, WriteEffect DEF TypeOK

\* What both kinds of writes keep, and what the new write is.
LEMMA FieldWriteEffect ==
  ASSUME TypeOK, NEW a \in Actors, NEW n \in Nodes, NEW e \in Entry, NEW k \in Stamped,
         FieldWrite(a, n, e, k)
  PROVE  /\ Held(manifest[a][n], k).path \in Path
         /\ Held(e, k).path = Append(Held(manifest[a][n], k).path, docId[a])
         /\ Held(e, k).path \in Path /\ Held(e, k).path # << >>
         /\ After(Held(e, k).path, Held(manifest[a][n], k).path)
         /\ Len(Held(e, k).path) = Len(Held(manifest[a][n], k).path) + 1
         /\ Held(e, k).path[Len(Held(e, k).path)] = docId[a]
         /\ \A j \in Stamped \ {k} : Held(e, j).path = Held(manifest[a][n], j).path
                                     /\ Held(e, j).stamp = Held(manifest[a][n], j).stamp
         /\ Write(a, n, e, k, Held(e, k).path)
         /\ n \in DOMAIN manifest[a] /\ manifest[a][n] \in Entry
  <1> DEFINE p == Held(manifest[a][n], k).path
  <1>1. manifest[a][n] \in Entry /\ n \in DOMAIN manifest[a] /\ docId[a] \in DocIds
    BY TickTypes DEF FieldWrite
  <1>2. p \in Path
    BY <1>1, EntryTypes
  <1>3. Held(e, k).path = Append(p, docId[a])
    BY DEF FieldWrite, Below
  <1>4. \A j \in Stamped \ {k} : Held(e, j).path = Held(manifest[a][n], j).path
                                     /\ Held(e, j).stamp = Held(manifest[a][n], j).stamp
    BY DEF FieldWrite, Held, Stamped
  <1>5. Write(a, n, e, k, Held(e, k).path)
    BY DEF FieldWrite
  <1>6. Len(p) \in Nat
    BY <1>2, PathTypes
  <1> HIDE DEF p
  <1>7. /\ Append(p, docId[a]) \in Path /\ Append(p, docId[a]) # << >>
        /\ Len(Append(p, docId[a])) = Len(p) + 1
        /\ Append(p, docId[a])[Len(p) + 1] = docId[a]
        /\ After(Append(p, docId[a]), p)
    BY <1>1, <1>2, BelowIsAfter
  <1>8. /\ Held(e, k).path \in Path /\ Held(e, k).path # << >>
        /\ After(Held(e, k).path, p)
        /\ Len(Held(e, k).path) = Len(p) + 1
        /\ Held(e, k).path[Len(Held(e, k).path)] = docId[a]
    BY <1>3, <1>7
  <1> QED
    BY <1>1, <1>2, <1>3, <1>4, <1>5, <1>8 DEF p

\* No write is where the new one goes: its author would hold it.
LEMMA NewWriteIsNew ==
  ASSUME TypeOK, OwnWritesAreHeld, NEW a \in Actors, NEW n \in Nodes, NEW e \in Entry, NEW k \in Stamped,
         FieldWrite(a, n, e, k),
         NEW w \in written, w.node = n, w.field = k
  PROVE  w.path # Held(e, k).path
  <1> DEFINE p == Held(manifest[a][n], k).path
  <1>1. p \in Path /\ Held(e, k).path = Append(p, docId[a]) /\ docId[a] \in DocIds
        /\ Held(e, k).path[Len(Held(e, k).path)] = docId[a]
    BY FieldWriteEffect, TickTypes
  <1>2. SUFFICES ASSUME w.path = Held(e, k).path PROVE FALSE
    OBVIOUS
  <1>3. NotBefore(p, w.path)
    BY <1>1, <1>2 DEF OwnWritesAreHeld
  <1> HIDE DEF p
  <1>4. ~NotBefore(p, Append(p, docId[a]))
    BY <1>1, BelowIsAfter
  <1> QED
    BY <1>1, <1>2, <1>3, <1>4

LEMMA WrittenTypes ==
  ASSUME TypeOK, NEW w \in written
  PROVE  /\ w.node \in Nodes /\ w.field \in {"create", "mod", "del"} /\ w.path \in Path /\ w.stamp \in Stamp
         /\ w = [node |-> w.node, field |-> w.field, path |-> w.path, stamp |-> w.stamp]
  BY DEF TypeOK

\* The writes above the new one are those above, and at, the one it replaces.
LEMMA FieldWritePaths ==
  ASSUME TypeOK, PathsNameWrites, OwnWritesAreHeld, EntriesAreWritten,
         NEW a \in Actors, NEW n \in Nodes, NEW e \in Entry, NEW k \in Stamped,
         FieldWrite(a, n, e, k)
  PROVE  PathsNameWrites'
  <1> DEFINE p == Held(manifest[a][n], k).path
             q == Held(e, k).path
             new == [node |-> n, field |-> k, path |-> q, stamp |-> Tick(a)]
  <1>1. /\ p \in Path /\ q = Append(p, docId[a]) /\ docId[a] \in DocIds
        /\ q \in Path /\ q # << >> /\ Len(q) = Len(p) + 1
        /\ Write(a, n, e, k, q) /\ n \in DOMAIN manifest[a]
    BY FieldWriteEffect, TickTypes
  <1>2. written' = written \cup {new}
    <2> HIDE DEF p, q
    <2>1. Write(a, n, e, k, q)
      BY <1>1
    <2> QED
      BY <2>1, WriteEffect
  <1>3. \A w \in written : w.node = n /\ w.field = k => w.path # q
    BY NewWriteIsNew
  <1>4. \A w \in written' : w.path # << >>
    BY <1>1, <1>2 DEF PathsNameWrites
  <1>5. ASSUME NEW v \in written', NEW w \in written', v.node = w.node, v.field = w.field, v.path = w.path
        PROVE  v = w
    <2> HIDE DEF q
    <2>1. new.node = n /\ new.field = k /\ new.path = q
      OBVIOUS
    <2> HIDE DEF new
    <2>2. CASE v = new \/ w = new
      BY <1>2, <1>3, <1>5, <2>1, <2>2
    <2>3. CASE v # new /\ w # new
      BY <1>2, <1>5, <2>3 DEF PathsNameWrites
    <2> QED
      BY <2>2, <2>3
  <1>6. ASSUME NEW w \in written', w.field \in Stamped, NEW i \in DOMAIN w.path
        PROVE  \E v \in written' : v.node = w.node /\ v.field = w.field /\ v.path = SubSeq(w.path, 1, i)
    <2>1. CASE w \in written
      <3>1. \E v \in written : v.node = w.node /\ v.field = w.field /\ v.path = SubSeq(w.path, 1, i)
        BY <1>6, <2>1 DEF PathsNameWrites
      <3> QED
        BY <1>2, <3>1
    <2>2. CASE w = new
      <3>1. i \in 1..Len(q) /\ Len(p) \in Nat /\ p \in Seq(DocIds) /\ q \in Seq(DocIds)
        BY <1>1, <1>6, <2>2, PathTypes
      <3>2. CASE i = Len(q)
        <4>1. SubSeq(q, 1, i) = q
          BY <3>1, <3>2
        <4> QED
          BY <1>2, <2>2, <4>1
      <3>3. CASE i # Len(q)
        <4>1. i \in 1..Len(p)
          BY <1>1, <3>1, <3>3
        <4>2. SubSeq(q, 1, i) = SubSeq(p, 1, i) /\ p # << >>
          BY <1>1, <3>1, <4>1
        <4>3. PICK u \in written : u.node = n /\ u.field = k /\ u.path = p
          BY <1>1, <4>2 DEF EntriesAreWritten, HoldsWrites, WrittenAs
        <4>4. i \in DOMAIN u.path
          BY <1>1, <4>1, <4>3, PathTypes
        <4>5. \E v \in written : v.node = u.node /\ v.field = u.field /\ v.path = SubSeq(u.path, 1, i)
          BY <4>3, <4>4 DEF PathsNameWrites
        <4> QED
          BY <1>2, <2>2, <4>2, <4>3, <4>5
      <3> QED
        BY <3>2, <3>3
    <2> QED
      BY <1>2, <2>1, <2>2
  <1> QED
    BY <1>4, <1>5, <1>6 DEF PathsNameWrites

\* The new stamp is beyond everything above the new write, and nothing is
\* below it.
LEMMA FieldWriteGrows ==
  ASSUME TypeOK, PathsNameWrites, OwnWritesAreHeld, EntriesAreWritten, ClocksObserve, BranchesGrow,
         NEW a \in Actors, NEW n \in Nodes, NEW e \in Entry, NEW k \in Stamped,
         FieldWrite(a, n, e, k)
  PROVE  BranchesGrow'
  <1> DEFINE p == Held(manifest[a][n], k).path
             q == Held(e, k).path
             new == [node |-> n, field |-> k, path |-> q, stamp |-> Tick(a)]
  <1>1. /\ p \in Path /\ q = Append(p, docId[a]) /\ docId[a] \in DocIds
        /\ q \in Path /\ q # << >> /\ Len(q) = Len(p) + 1
        /\ Write(a, n, e, k, q) /\ n \in DOMAIN manifest[a]
        /\ Tick(a) \in Stamp /\ Tick(a).lamport = lamport[a] + 1 /\ lamport[a] \in Nat
    BY FieldWriteEffect, TickTypes
  <1>2. written' = written \cup {new}
    <2> HIDE DEF p, q
    <2>1. Write(a, n, e, k, q)
      BY <1>1
    <2> QED
      BY <2>1, WriteEffect
  <1>3. \A w \in written : w.node = n /\ w.field = k => w.path # q
    BY NewWriteIsNew
  <1>4. Len(p) \in Nat /\ p \in Seq(DocIds) /\ q \in Seq(DocIds)
    BY <1>1, PathTypes
  <1>5. ASSUME NEW v \in written, v.node = n, v.field = k, IsStrictPrefix(v.path, q)
        PROVE  Beats(Tick(a), v.stamp)
    <2>1. v.path \in Path /\ v.stamp \in Stamp /\ v.path # << >>
      BY WrittenTypes DEF PathsNameWrites
    <2>2. Len(v.path) < Len(q) /\ \A i \in 1..Len(v.path) : v.path[i] = q[i]
      BY <1>1, <1>5, <2>1, StrictPrefixes
    <2>3. Len(v.path) \in Nat /\ v.path \in Seq(DocIds) /\ Len(v.path) # 0
      BY <2>1, PathTypes
    <2>4. Len(v.path) <= Len(p) /\ \A i \in 1..Len(v.path) : v.path[i] = p[i]
      BY <1>1, <1>4, <2>2, <2>3
    <2>5. p # << >>
      BY <1>4, <2>3, <2>4
    <2>6. PICK u \in written : u.node = n /\ u.field = k /\ u.path = p /\ u.stamp = Held(manifest[a][n], k).stamp
      BY <1>1, <2>5 DEF EntriesAreWritten, HoldsWrites, WrittenAs
    <2>7. u.stamp \in Stamp /\ u.stamp.lamport \in Nat /\ u.stamp.lamport <= lamport[a]
      BY <1>1, <2>6, WrittenTypes, BeatsByClock DEF ClocksObserve, Observes, Held
    <2>8. v.stamp.lamport \in Nat /\ v.stamp.lamport <= u.stamp.lamport
      <3>1. CASE Len(v.path) = Len(p)
        <4>1. v.path = p
          BY <1>4, <2>3, <2>4, <3>1
        <4>2. v = u
          BY <1>5, <2>6, <4>1 DEF PathsNameWrites
        <4> QED
          BY <2>7, <4>2
      <3>2. CASE Len(v.path) < Len(p)
        <4>1. IsStrictPrefix(v.path, u.path)
          BY <1>1, <2>1, <2>4, <2>6, <3>2, StrictPrefixes
        <4>2. Beats(u.stamp, v.stamp)
          BY <1>5, <2>6, <4>1 DEF BranchesGrow
        <4> QED
          BY <2>1, <2>7, <4>2, BeatsByClock
      <3> QED
        BY <1>4, <2>3, <2>4, <3>1, <3>2
    <2>9. v.stamp.lamport < Tick(a).lamport
      BY <1>1, <2>7, <2>8
    <2> QED
      BY <1>1, <2>1, <2>9, BeatsByClock
  <1>6. ASSUME NEW w \in written, w.node = n, w.field = k, IsStrictPrefix(q, w.path)
        PROVE  FALSE
    <2>1. w.path \in Path
      BY WrittenTypes
    <2>2. Len(q) < Len(w.path) /\ \A i \in 1..Len(q) : q[i] = w.path[i]
      BY <1>1, <1>6, <2>1, StrictPrefixes
    <2>3. w.path \in Seq(DocIds) /\ Len(q) \in DOMAIN w.path /\ Len(q) \in 1..Len(w.path)
      BY <1>1, <1>4, <2>1, <2>2, PathTypes
    <2>4. PICK v \in written : v.node = n /\ v.field = k /\ v.path = SubSeq(w.path, 1, Len(q))
      BY <1>6, <2>3 DEF PathsNameWrites
    <2>5. SubSeq(w.path, 1, Len(q)) = q
      BY <1>4, <2>2, <2>3
    <2> QED
      BY <1>3, <2>4, <2>5
  <1>7. ~IsStrictPrefix(q, q)
    BY DEF IsStrictPrefix
  <1>8. new.node = n /\ new.field = k /\ new.path = q /\ new.stamp = Tick(a)
    OBVIOUS
  <1> HIDE DEF q, new
  <1>9. ASSUME NEW v \in written', NEW w \in written',
               v.node = w.node, v.field = w.field, IsStrictPrefix(v.path, w.path)
        PROVE  Beats(w.stamp, v.stamp)
    <2>1. CASE v \in written /\ w \in written
      BY <1>9, <2>1 DEF BranchesGrow
    <2>2. CASE v = new
      BY <1>2, <1>6, <1>7, <1>8, <1>9, <2>2
    <2>3. CASE v # new /\ w = new
      BY <1>2, <1>5, <1>8, <1>9, <2>3
    <2> QED
      BY <1>2, <2>1, <2>2, <2>3
  <1> QED
    BY <1>9 DEF BranchesGrow

\* The rest of the invariant, one part at a time.
LEMMA FieldWriteHolds ==
  ASSUME TypeOK, EntriesAreWritten, NEW a \in Actors, NEW n \in Nodes, NEW e \in Entry, NEW k \in Stamped,
         FieldWrite(a, n, e, k)
  PROVE  EntriesAreWritten'
  <1> DEFINE new == [node |-> n, field |-> k, path |-> Held(e, k).path, stamp |-> Tick(a)]
  <1>1. Write(a, n, e, k, Held(e, k).path) /\ n \in DOMAIN manifest[a]
    BY FieldWriteEffect
  <1>2. /\ \A b \in Actors \ {a} : manifest'[b] = manifest[b]
        /\ DOMAIN manifest'[a] = DOMAIN manifest[a] \cup {n}
        /\ manifest'[a][n] = e
        /\ \A m \in DOMAIN manifest[a] \ {n} : manifest'[a][m] = manifest[a][m]
        /\ written' = written \cup {new}
    BY <1>1, WriteEffect
  <1>3. HoldsWrites(n, e)'
    <2>1. new \in written' /\ new.node = n /\ new.field = k
          /\ new.path = Held(e, k).path /\ new.stamp = Held(e, k).stamp
      BY <1>2 DEF FieldWrite
    <2>2. WrittenAs(n, k, Held(e, k))'
      BY <2>1 DEF WrittenAs
    <2>3. ASSUME NEW j \in Stamped \ {k}
          PROVE  \/ Held(e, j).path = << >> /\ Held(e, j).stamp = NoTime
                 \/ WrittenAs(n, j, Held(e, j))'
      <3>1. Held(e, j).path = Held(manifest[a][n], j).path /\ Held(e, j).stamp = Held(manifest[a][n], j).stamp
        BY FieldWriteEffect
      <3>2. \/ Held(e, j).path = << >> /\ Held(e, j).stamp = NoTime
            \/ WrittenAs(n, j, Held(e, j))
        BY <1>1, <3>1 DEF EntriesAreWritten, HoldsWrites, WrittenAs
      <3> QED
        BY <1>2, <3>2 DEF WrittenAs
    <2> QED
      BY <2>1, <2>2, <2>3 DEF HoldsWrites
  <1>4. ASSUME NEW b \in Actors, NEW m \in DOMAIN manifest'[b] PROVE HoldsWrites(m, manifest[b][m])'
    <2>1. CASE b = a /\ m = n
      BY <1>2, <1>3, <2>1
    <2>2. CASE ~(b = a /\ m = n)
      <3>1. m \in DOMAIN manifest[b] /\ manifest'[b][m] = manifest[b][m]
        BY <1>1, <1>2, <2>2
      <3>2. HoldsWrites(m, manifest[b][m])
        BY <3>1 DEF EntriesAreWritten
      <3> QED
        BY <1>2, <3>1, <3>2 DEF HoldsWrites, WrittenAs
    <2> QED
      BY <2>1, <2>2
  <1> QED
    BY <1>4 DEF EntriesAreWritten

LEMMA FieldWriteDocs ==
  ASSUME TypeOK, DocsAreDistinct, EntriesAreWritten,
         NEW a \in Actors, NEW n \in Nodes, NEW e \in Entry, NEW k \in Stamped,
         FieldWrite(a, n, e, k)
  PROVE  DocsAreDistinct'
  <1> DEFINE p == Held(manifest[a][n], k).path
             q == Held(e, k).path
             new == [node |-> n, field |-> k, path |-> q, stamp |-> Tick(a)]
  <1>1. /\ p \in Path /\ q = Append(p, docId[a]) /\ docId[a] \in DocIds
        /\ Write(a, n, e, k, q) /\ n \in DOMAIN manifest[a]
    BY FieldWriteEffect, TickTypes
  <1>2. written' = written \cup {new} /\ docId' = docId /\ usedIds' = usedIds
    <2> HIDE DEF p, q
    <2>1. Write(a, n, e, k, q)
      BY <1>1
    <2> QED
      BY <2>1, WriteEffect
  <1>3. ASSUME NEW i \in DOMAIN q PROVE q[i] \in usedIds
    <2>1. p \in Seq(DocIds) /\ Len(p) \in Nat /\ DOMAIN p = 1..Len(p)
      BY <1>1, PathTypes
    <2>2. CASE i \in 1..Len(p)
      <3>1. q[i] = p[i] /\ p # << >>
        BY <1>1, <2>1, <2>2
      <3>2. PICK u \in written : u.path = p
        BY <1>1, <3>1 DEF EntriesAreWritten, HoldsWrites, WrittenAs
      <3> QED
        BY <2>1, <2>2, <3>1, <3>2 DEF DocsAreDistinct
    <2>3. CASE i \notin 1..Len(p)
      <3>1. q[i] = docId[a]
        BY <1>1, <2>1, <2>3
      <3> QED
        BY <3>1 DEF DocsAreDistinct
    <2> QED
      BY <2>2, <2>3
  <1>4. new.path = q
    OBVIOUS
  <1> HIDE DEF q, new
  <1> QED
    BY <1>2, <1>3, <1>4 DEF DocsAreDistinct

LEMMA FieldWriteOwn ==
  ASSUME TypeOK, DocsAreDistinct, OwnWritesAreHeld,
         NEW a \in Actors, NEW n \in Nodes, NEW e \in Entry, NEW k \in Stamped,
         FieldWrite(a, n, e, k)
  PROVE  OwnWritesAreHeld'
  <1> DEFINE p == Held(manifest[a][n], k).path
             q == Held(e, k).path
             new == [node |-> n, field |-> k, path |-> q, stamp |-> Tick(a)]
  <1>1. /\ p \in Path /\ q \in Path /\ After(q, p)
        /\ q[Len(q)] = docId[a]
        /\ Write(a, n, e, k, q) /\ n \in DOMAIN manifest[a]
        /\ \A j \in Stamped \ {k} : Held(e, j).path = Held(manifest[a][n], j).path
    BY FieldWriteEffect
  <1>2. /\ \A b \in Actors \ {a} : manifest'[b] = manifest[b]
        /\ DOMAIN manifest'[a] = DOMAIN manifest[a] \cup {n}
        /\ manifest'[a][n] = e
        /\ \A m \in DOMAIN manifest[a] \ {n} : manifest'[a][m] = manifest[a][m]
        /\ written' = written \cup {new} /\ docId' = docId
    <2> HIDE DEF p, q
    <2>1. Write(a, n, e, k, q)
      BY <1>1
    <2> QED
      BY <2>1, WriteEffect
  <1>3. new.node = n /\ new.field = k /\ new.path = q
    OBVIOUS
  <1>4. Held(manifest[a][n], k).path = p /\ Held(e, k).path = q
    OBVIOUS
  <1> HIDE DEF p, q, new
  <1>5. ASSUME NEW b \in Actors, NEW w \in written', w.field \in Stamped, w.path[Len(w.path)] = docId'[b]
        PROVE  /\ w.node \in DOMAIN manifest'[b]
               /\ NotBefore(Held(manifest'[b][w.node], w.field).path, w.path)
    <2>1. CASE w = new
      <3>1. docId[b] = docId[a] /\ b = a
        BY <1>1, <1>2, <1>3, <1>5, <2>1 DEF DocsAreDistinct
      <3> QED
        BY <1>2, <1>3, <1>4, <2>1, <3>1 DEF NotBefore
    <2>2. CASE w \in written
      <3>1. /\ w.node \in DOMAIN manifest[b]
            /\ NotBefore(Held(manifest[b][w.node], w.field).path, w.path)
        BY <1>2, <1>5, <2>2 DEF OwnWritesAreHeld
      <3>2. CASE b = a /\ w.node = n /\ w.field = k
        <4>1. NotBefore(p, w.path) /\ w.path \in Path
          BY <1>4, <2>2, <3>1, <3>2, WrittenTypes
        <4>2. NotBefore(q, w.path)
          BY <1>1, <4>1, NotBeforeTransitive DEF NotBefore
        <4> QED
          BY <1>2, <1>4, <3>2, <4>2
      <3>3. CASE b = a /\ w.node = n /\ w.field # k
        BY <1>1, <1>2, <1>5, <3>1, <3>3
      <3>4. CASE ~(b = a /\ w.node = n)
        BY <1>2, <3>1, <3>4
      <3> QED
        BY <3>2, <3>3, <3>4
    <2> QED
      BY <1>2, <2>1, <2>2
  <1> QED
    BY <1>5 DEF OwnWritesAreHeld

LEMMA FieldWriteClocks ==
  ASSUME TypeOK, ClocksObserve,
         NEW a \in Actors, NEW n \in Nodes, NEW e \in Entry, NEW k \in Stamped,
         FieldWrite(a, n, e, k)
  PROVE  ClocksObserve'
  <1>1. Write(a, n, e, k, Held(e, k).path) /\ n \in DOMAIN manifest[a] /\ manifest[a][n] \in Entry
    BY FieldWriteEffect
  <1>2. /\ \A b \in Actors \ {a} : manifest'[b] = manifest[b] /\ lamport'[b] = lamport[b]
        /\ DOMAIN manifest'[a] = DOMAIN manifest[a] \cup {n}
        /\ manifest'[a][n] = e
        /\ \A m \in DOMAIN manifest[a] \ {n} : manifest'[a][m] = manifest[a][m]
        /\ lamport'[a] = lamport[a] + 1 /\ lamport[a] \in Nat
    BY <1>1, WriteEffect
  <1>3. ASSUME NEW m \in DOMAIN manifest[a]
        PROVE  /\ Observes(lamport[a], manifest[a][m])
               /\ manifest[a][m].create.lamport \in Nat
               /\ manifest[a][m].mod.stamp.lamport \in Nat
               /\ manifest[a][m].del.stamp.lamport \in Nat
    <2>1. manifest[a][m] \in Entry
      BY TickTypes
    <2>2. Observes(lamport[a], manifest[a][m])
      BY DEF ClocksObserve
    <2> QED
      BY <2>1, <2>2 DEF Entry, ModField, DelField, Stamp
  <1>4. ASSUME NEW m \in DOMAIN manifest[a] PROVE Observes(lamport[a] + 1, manifest[a][m])
    BY <1>2, <1>3 DEF Observes
  <1>5. Observes(lamport[a] + 1, e)
    <2>1. Held(e, k).stamp.lamport = lamport[a] + 1
      BY TickTypes DEF FieldWrite
    <2>2. CASE k = "mod"
      BY <1>1, <1>2, <1>4, <2>1, <2>2 DEF Observes, FieldWrite, Held
    <2>3. CASE k = "del"
      BY <1>1, <1>2, <1>4, <2>1, <2>3 DEF Observes, FieldWrite, Held
    <2> QED
      BY <2>2, <2>3 DEF Stamped
  <1>6. ASSUME NEW b \in Actors, NEW m \in DOMAIN manifest'[b] PROVE Observes(lamport'[b], manifest'[b][m])
    <2>1. CASE b = a /\ m = n
      BY <1>2, <1>5, <2>1
    <2>2. CASE b = a /\ m # n
      BY <1>2, <1>4, <2>2
    <2>3. CASE b # a
      BY <1>2, <2>3 DEF ClocksObserve
    <2> QED
      BY <2>1, <2>2, <2>3
  <1> QED
    BY <1>6 DEF ClocksObserve

LEMMA FieldWriteDeletes ==
  ASSUME TypeOK, ClocksObserve, DeletesAreInformed,
         NEW a \in Actors, NEW n \in Nodes, NEW e \in Entry, NEW k \in Stamped,
         FieldWrite(a, n, e, k)
  PROVE  DeletesAreInformed'
  <1> DEFINE old == manifest[a][n]
  <1>1. /\ Write(a, n, e, k, Held(e, k).path) /\ n \in DOMAIN manifest[a] /\ old \in Entry
        /\ Held(e, k).path \in Path /\ After(Held(e, k).path, Held(old, k).path)
    BY FieldWriteEffect
  <1>2. /\ \A b \in Actors \ {a} : manifest'[b] = manifest[b]
        /\ DOMAIN manifest'[a] = DOMAIN manifest[a] \cup {n}
        /\ manifest'[a][n] = e
        /\ \A m \in DOMAIN manifest[a] \ {n} : manifest'[a][m] = manifest[a][m]
    BY <1>1, WriteEffect
  <1>3. /\ old.mod.path \in Path /\ old.del.saw \in Path /\ old.mod.stamp \in Stamp
        /\ e.mod.path \in Path /\ e.mod.stamp \in Stamp
    BY <1>1, EntryTypes
  <1>4. DeleteIsInformed(old) /\ Observes(lamport[a], old)
    BY <1>1 DEF DeletesAreInformed, ClocksObserve
  <1> HIDE DEF old
  <1>5. CASE k = "mod"
    <2>1. After(e.mod.path, old.mod.path) /\ e.del = old.del
      BY <1>1, <1>5 DEF Held, FieldWrite, old
    <2>2. SUFFICES ASSUME Deleted(e) PROVE After(e.mod.path, e.del.saw) /\ e.mod.path # e.del.saw
      BY <1>2 DEF DeletesAreInformed, DeleteIsInformed, NotBefore
    <2>3. NotBefore(old.mod.path, old.del.saw)
      BY <1>4, <2>1, <2>2 DEF DeleteIsInformed, Deleted
    <2>4. After(e.mod.path, e.del.saw)
      BY <1>3, <2>1, <2>3, AfterTransitive DEF NotBefore
    <2> QED
      BY <1>3, <2>1, <2>4, AfterIrreflexive
  <1>6. CASE k = "del"
    <2>1. e.mod = old.mod /\ e.del.saw = e.mod.path /\ e.del.stamp = Tick(a)
      BY <1>6 DEF FieldWrite, Held, old
    <2>2. /\ Tick(a) \in Stamp /\ Tick(a).lamport = lamport[a] + 1 /\ lamport[a] \in Nat
      BY TickTypes
    <2>3. e.mod.stamp.lamport <= lamport[a] /\ e.mod.stamp.lamport \in Nat
      BY <1>3, <1>4, <2>1, BeatsByClock DEF Observes
    <2>4. Beats(e.del.stamp, e.mod.stamp)
      BY <1>3, <2>1, <2>2, <2>3, BeatsByClock
    <2> QED
      BY <1>2, <2>1, <2>4 DEF DeletesAreInformed, DeleteIsInformed, NotBefore
  <1> QED
    BY <1>5, <1>6 DEF Stamped

\* A write of a field keeps the invariant.
LEMMA FieldWriteNext ==
  ASSUME IInv, NEW a \in Actors, NEW n \in Nodes, NEW e \in Entry, NEW k \in Stamped,
         FieldWrite(a, n, e, k)
  PROVE  IInv'
  <1>1. k \in {"create", "mod", "del"} /\ Held(e, k).path \in Path /\ Write(a, n, e, k, Held(e, k).path)
    BY FieldWriteEffect DEF IInv, Stamped
  <1>2. TypeOK'
    BY <1>1, WriteTypes DEF IInv
  <1> QED
    BY <1>2, FieldWriteHolds, FieldWriteDocs, FieldWritePaths, FieldWriteOwn, FieldWriteClocks,
       FieldWriteDeletes, FieldWriteGrows DEF IInv

\* Nobody has written to, or has, a node that is new.
LEMMA NewNodeNext ==
  ASSUME IInv, NEW a \in Actors, NEW n \in Nodes, NEW e \in Entry, NewNode(a, n, e)
  PROVE  IInv'
  <1> DEFINE new == [node |-> n, field |-> "create", path |-> <<docId[a]>>, stamp |-> Tick(a)]
  <1>1. /\ Tick(a) \in Stamp /\ Tick(a).lamport = lamport[a] + 1 /\ lamport[a] \in Nat
        /\ docId[a] \in DocIds
    BY TickTypes DEF IInv
  <1>2. <<docId[a]>> \in Path /\ DOMAIN <<docId[a]>> = {1} /\ <<docId[a]>>[1] = docId[a] /\ <<docId[a]>> # << >>
    BY <1>1 DEF Path
  <1>3. Write(a, n, e, "create", <<docId[a]>>)
    BY DEF NewNode
  <1>4. TypeOK'
    BY <1>2, <1>3, WriteTypes DEF IInv
  <1>5. /\ \A b \in Actors \ {a} : manifest'[b] = manifest[b] /\ lamport'[b] = lamport[b]
        /\ DOMAIN manifest'[a] = DOMAIN manifest[a] \cup {n}
        /\ manifest'[a][n] = e
        /\ \A m \in DOMAIN manifest[a] \ {n} : manifest'[a][m] = manifest[a][m]
        /\ lamport'[a] = lamport[a] + 1
        /\ written' = written \cup {new}
        /\ docId' = docId /\ usedIds' = usedIds
    BY <1>3, WriteEffect DEF IInv
  <1>6. new.node = n /\ new.field = "create" /\ new.path = <<docId[a]>> /\ new.stamp = Tick(a)
    OBVIOUS
  <1>7. \A w \in written : w.node # n
    BY DEF NewNode
  <1>8. ASSUME NEW b \in Actors PROVE n \notin DOMAIN manifest[b]
    BY <1>7 DEF IInv, EntriesAreWritten, HoldsWrites
  <1>9. ASSUME NEW b \in Actors, NEW m \in DOMAIN manifest'[b], ~(b = a /\ m = n)
        PROVE  m \in DOMAIN manifest[b] /\ manifest'[b][m] = manifest[b][m]
    BY <1>5, <1>9
  <1> HIDE DEF new
  <1>10. EntriesAreWritten'
    <2>1. HoldsWrites(n, e)'
      BY <1>5, <1>6 DEF HoldsWrites, NewNode, Held, Stamped
    <2>2. ASSUME NEW b \in Actors, NEW m \in DOMAIN manifest'[b] PROVE HoldsWrites(m, manifest[b][m])'
      <3>1. CASE b = a /\ m = n
        BY <1>5, <2>1, <3>1
      <3>2. CASE ~(b = a /\ m = n)
        <4>1. m \in DOMAIN manifest[b] /\ manifest'[b][m] = manifest[b][m]
          BY <1>9, <3>2
        <4>2. HoldsWrites(m, manifest[b][m])
          BY <4>1 DEF IInv, EntriesAreWritten
        <4> QED
          BY <1>5, <4>1, <4>2 DEF HoldsWrites, WrittenAs
      <3> QED
        BY <3>1, <3>2
    <2> QED
      BY <2>2 DEF EntriesAreWritten
  <1>11. DocsAreDistinct'
    BY <1>2, <1>5, <1>6 DEF IInv, DocsAreDistinct
  <1>12. PathsNameWrites'
    <2>1. \A w \in written' : w.path # << >>
      BY <1>2, <1>5, <1>6 DEF IInv, PathsNameWrites
    <2>2. \A v, w \in written' : v.node = w.node /\ v.field = w.field /\ v.path = w.path => v = w
      BY <1>5, <1>6, <1>7 DEF IInv, PathsNameWrites
    <2>3. ASSUME NEW w \in written', w.field \in Stamped, NEW i \in DOMAIN w.path
          PROVE  \E v \in written' : v.node = w.node /\ v.field = w.field /\ v.path = SubSeq(w.path, 1, i)
      <3>1. w \in written
        BY <1>5, <1>6, <2>3 DEF Stamped
      <3> QED
        BY <1>5, <2>3, <3>1 DEF IInv, PathsNameWrites
    <2> QED
      BY <2>1, <2>2, <2>3 DEF PathsNameWrites
  <1>13. OwnWritesAreHeld'
    <2>1. ASSUME NEW b \in Actors, NEW w \in written', w.field \in Stamped, w.path[Len(w.path)] = docId'[b]
          PROVE  /\ w.node \in DOMAIN manifest'[b]
                 /\ NotBefore(Held(manifest'[b][w.node], w.field).path, w.path)
      <3>1. w \in written /\ w.node # n
        BY <1>5, <1>6, <1>7, <2>1 DEF Stamped
      <3>2. /\ w.node \in DOMAIN manifest[b]
            /\ NotBefore(Held(manifest[b][w.node], w.field).path, w.path)
        BY <1>5, <2>1, <3>1 DEF IInv, OwnWritesAreHeld
      <3>3. w.node \in DOMAIN manifest'[b] /\ manifest'[b][w.node] = manifest[b][w.node]
        BY <1>5, <3>1, <3>2
      <3> QED
        BY <3>2, <3>3
    <2> QED
      BY <2>1 DEF OwnWritesAreHeld
  <1>14. ClocksObserve'
    <2>1. Observes(lamport[a] + 1, e)
      BY <1>1 DEF NewNode, Observes, NoTime
    <2>2. ASSUME NEW m \in DOMAIN manifest[a] PROVE Observes(lamport[a] + 1, manifest[a][m])
      <3>1. Observes(lamport[a], manifest[a][m])
        BY DEF IInv, ClocksObserve
      <3>2. manifest[a][m] \in Entry
        BY TickTypes DEF IInv
      <3>3. /\ manifest[a][m].create.lamport \in Nat
            /\ manifest[a][m].mod.stamp.lamport \in Nat
            /\ manifest[a][m].del.stamp.lamport \in Nat
        BY <3>2 DEF Entry, ModField, DelField, Stamp
      <3> QED
        BY <1>1, <3>1, <3>3 DEF Observes
    <2>3. ASSUME NEW b \in Actors, NEW m \in DOMAIN manifest'[b] PROVE Observes(lamport'[b], manifest'[b][m])
      <3>1. CASE b = a /\ m = n
        BY <1>5, <2>1, <3>1
      <3>2. CASE b = a /\ m # n
        BY <1>5, <2>2, <3>2
      <3>3. CASE b # a
        BY <1>5, <3>3 DEF IInv, ClocksObserve
      <3> QED
        BY <3>1, <3>2, <3>3
    <2> QED
      BY <2>3 DEF ClocksObserve
  <1>15. DeletesAreInformed'
    <2>1. DeleteIsInformed(e)
      BY DEF NewNode, DeleteIsInformed, Deleted
    <2>2. ASSUME NEW b \in Actors, NEW m \in DOMAIN manifest'[b] PROVE DeleteIsInformed(manifest'[b][m])
      BY <1>5, <1>9, <2>1 DEF IInv, DeletesAreInformed
    <2> QED
      BY <2>2 DEF DeletesAreInformed
  <1>16. BranchesGrow'
    <2>1. ~IsStrictPrefix(new.path, new.path)
      BY DEF IsStrictPrefix
    <2> QED
      BY <1>5, <1>6, <1>7, <2>1 DEF IInv, BranchesGrow
  <1> QED
    BY <1>4, <1>10, <1>11, <1>12, <1>13, <1>14, <1>15, <1>16 DEF IInv

-----------------------------------------------------------------------------
(* Exchange and restart *)

\* The types of a merged entry, and which of the two each field is from.
LEMMA MergedEntry ==
  ASSUME NEW e \in Entry, NEW f \in Entry
  PROVE  /\ MergeEntry(e, f) \in Entry
         /\ MergeEntry(e, f).create = e.create
         /\ MergeEntry(e, f).mod = Current(e.mod, f.mod)
         /\ MergeEntry(e, f).del = Current(e.del, f.del)
         /\ MergeEntry(e, f).mod \in {e.mod, f.mod}
         /\ MergeEntry(e, f).del \in {e.del, f.del}
         /\ \A k \in Stamped :
              /\ Held(MergeEntry(e, f), k) \in {Held(e, k), Held(f, k)}
              /\ NotBefore(Held(MergeEntry(e, f), k).path, Held(e, k).path)
              /\ NotBefore(Held(MergeEntry(e, f), k).path, Held(f, k).path)
  <1> DEFINE g == MergeEntry(e, f)
  <1>1. /\ e.mod.path \in Path /\ f.mod.path \in Path /\ e.del.path \in Path /\ f.del.path \in Path
        /\ e.create \in Stamp /\ e.name \in NameField /\ f.name \in NameField
        /\ e.mod \in ModField /\ f.mod \in ModField /\ e.del \in DelField /\ f.del \in DelField
    BY EntryTypes
  <1>2. /\ g.create = e.create /\ g.name = Current(e.name, f.name)
        /\ g.mod = Current(e.mod, f.mod) /\ g.del = Current(e.del, f.del)
    BY DEF MergeEntry
  <1>3. /\ Current(e.mod, f.mod) \in {e.mod, f.mod}
        /\ Current(e.del, f.del) \in {e.del, f.del}
        /\ Current(e.name, f.name) \in {e.name, f.name}
    BY DEF Current
  <1>4. g \in Entry
    BY <1>1, <1>3 DEF MergeEntry, Entry
  <1>5. /\ NotBefore(Current(e.mod, f.mod).path, e.mod.path)
        /\ NotBefore(Current(e.mod, f.mod).path, f.mod.path)
    BY <1>1, CurrentIsLast
  <1>6. /\ NotBefore(Current(e.del, f.del).path, e.del.path)
        /\ NotBefore(Current(e.del, f.del).path, f.del.path)
    BY <1>1, CurrentIsLast
  <1> HIDE DEF g
  <1>7. \A k \in Stamped :
              /\ Held(g, k) \in {Held(e, k), Held(f, k)}
              /\ NotBefore(Held(g, k).path, Held(e, k).path)
              /\ NotBefore(Held(g, k).path, Held(f, k).path)
    BY <1>2, <1>3, <1>5, <1>6 DEF Held, Stamped
  <1> QED
    BY <1>2, <1>3, <1>4, <1>7 DEF g

\* One path, one stamp.
LEMMA SamePathSameStamp ==
  ASSUME PathsNameWrites, NEW n, NEW e, NEW f, HoldsWrites(n, e), HoldsWrites(n, f),
         NEW k \in Stamped, Held(e, k).path = Held(f, k).path
  PROVE  Held(e, k).stamp = Held(f, k).stamp
  <1>1. CASE Held(e, k).path = << >>
    <2>1. ASSUME NEW h, HoldsWrites(n, h), Held(h, k).path = << >>
          PROVE  Held(h, k).stamp = NoTime
      <3>1. ~WrittenAs(n, k, Held(h, k))
        BY <2>1 DEF WrittenAs, PathsNameWrites
      <3> QED
        BY <2>1, <3>1 DEF HoldsWrites
    <2> QED
      BY <1>1, <2>1
  <1>2. CASE Held(e, k).path # << >>
    BY <1>2 DEF HoldsWrites, WrittenAs, PathsNameWrites
  <1> QED
    BY <1>1, <1>2

\* Merging keeps deletes informed.
LEMMA MergedDelete ==
  ASSUME PathsNameWrites, NEW n, NEW e \in Entry, NEW f \in Entry, HoldsWrites(n, e), HoldsWrites(n, f),
         DeleteIsInformed(e), DeleteIsInformed(f)
  PROVE  DeleteIsInformed(MergeEntry(e, f))
  <1> DEFINE g == MergeEntry(e, f)
  <1>1. /\ e.mod.path \in Path /\ f.mod.path \in Path /\ e.del.saw \in Path /\ f.del.saw \in Path
    BY EntryTypes
  <1>2. /\ g.mod = Current(e.mod, f.mod) /\ g.del \in {e.del, f.del}
        /\ g.mod \in {e.mod, f.mod}
    BY MergedEntry
  <1>3. /\ NotBefore(g.mod.path, e.mod.path)
        /\ NotBefore(g.mod.path, f.mod.path)
    BY <1>1, <1>2, CurrentIsLast
  <1>4. e.mod.path = f.mod.path => e.mod.stamp = f.mod.stamp
    BY SamePathSameStamp DEF Held, Stamped
  <1> HIDE DEF g
  <1>5. g.mod.path \in Path
    BY <1>1, <1>2
  <1>6. ASSUME NEW h \in {e, f}, Deleted(h), g.del = h.del
        PROVE  /\ NotBefore(g.mod.path, g.del.saw)
               /\ g.mod.path = g.del.saw => Beats(g.del.stamp, g.mod.stamp)
    <2>1. /\ h.mod.path \in Path /\ h.del.saw \in Path
          /\ NotBefore(g.mod.path, h.mod.path)
          /\ NotBefore(h.mod.path, h.del.saw)
          /\ h.mod.path = h.del.saw => Beats(h.del.stamp, h.mod.stamp)
      BY <1>1, <1>3, <1>6 DEF DeleteIsInformed
    <2>2. NotBefore(g.mod.path, g.del.saw)
      BY <1>5, <1>6, <2>1, NotBeforeTransitive
    <2>3. ASSUME g.mod.path = g.del.saw PROVE Beats(g.del.stamp, g.mod.stamp)
      <3>1. h.mod.path = g.mod.path
        <4>1. ~After(g.mod.path, g.mod.path)
          BY <1>5, AfterIrreflexive
        <4>2. NotBefore(h.mod.path, g.mod.path)
          BY <1>6, <2>1, <2>3
        <4> QED
          BY <1>5, <2>1, <4>1, <4>2, AfterTransitive DEF NotBefore
      <3>2. h.mod.stamp = g.mod.stamp
        BY <1>2, <1>4, <3>1
      <3> QED
        BY <1>6, <2>1, <2>3, <3>1, <3>2
    <2> QED
      BY <2>2, <2>3
  <1>7. Deleted(g) => \E h \in {e, f} : Deleted(h) /\ g.del = h.del
    BY <1>2 DEF Deleted
  <1>8. DeleteIsInformed(g)
    BY <1>6, <1>7 DEF DeleteIsInformed
  <1> QED
    BY <1>8 DEF g

\* What a merge holds of each node: one of the two, or both merged.
LEMMA MergeEffect ==
  ASSUME NEW m, NEW k, IsManifest(m), IsManifest(k)
  PROVE  /\ DOMAIN Merge(m, k) = DOMAIN m \cup DOMAIN k
         /\ \A n \in DOMAIN Merge(m, k) :
              \/ n \in DOMAIN m /\ n \notin DOMAIN k /\ Merge(m, k)[n] = m[n]
              \/ n \notin DOMAIN m /\ n \in DOMAIN k /\ Merge(m, k)[n] = k[n]
              \/ n \in DOMAIN m /\ n \in DOMAIN k /\ Merge(m, k)[n] = MergeEntry(m[n], k[n])
         /\ IsManifest(Merge(m, k))
  <1>1. /\ DOMAIN Merge(m, k) = DOMAIN m \cup DOMAIN k
        /\ \A n \in DOMAIN Merge(m, k) :
              \/ n \in DOMAIN m /\ n \notin DOMAIN k /\ Merge(m, k)[n] = m[n]
              \/ n \notin DOMAIN m /\ n \in DOMAIN k /\ Merge(m, k)[n] = k[n]
              \/ n \in DOMAIN m /\ n \in DOMAIN k /\ Merge(m, k)[n] = MergeEntry(m[n], k[n])
        /\ Merge(m, k) = [n \in DOMAIN Merge(m, k) |-> Merge(m, k)[n]]
    BY DEF Merge
  <1>2. \A n \in DOMAIN Merge(m, k) : Merge(m, k)[n] \in Entry
    <2>1. SUFFICES ASSUME NEW n \in DOMAIN Merge(m, k) PROVE Merge(m, k)[n] \in Entry
      OBVIOUS
    <2>2. /\ n \in DOMAIN m => m[n] \in Entry
          /\ n \in DOMAIN k => k[n] \in Entry
      BY DEF IsManifest
    <2>3. n \in DOMAIN m /\ n \in DOMAIN k => MergeEntry(m[n], k[n]) \in Entry
      BY <2>2, MergedEntry
    <2> QED
      BY <1>1, <2>2, <2>3
  <1>3. IsManifest(Merge(m, k))
    BY <1>1, <1>2 DEF IsManifest
  <1> QED
    BY <1>1, <1>3

\* An exchange keeps the invariant.
LEMMA ReceiveNext ==
  ASSUME IInv, NEW a \in Actors, NEW b \in Actors, a # b, Receive(a, b)
  PROVE  IInv'
  <1> DEFINE m == Merge(manifest[a], manifest[b])
  <1>1. /\ IsManifest(manifest[a]) /\ IsManifest(manifest[b])
        /\ manifest = [c \in Actors |-> manifest[c]]
        /\ lamport \in [Actors -> Nat]
    BY DEF IInv, TypeOK
  <1>2. DOMAIN manifest = Actors
    <2>1. DOMAIN [c \in Actors |-> manifest[c]] = Actors
      OBVIOUS
    <2> QED
      BY <1>1, <2>1
  <1>3. /\ manifest' = [manifest EXCEPT ![a] = m]
        /\ lamport' = [lamport EXCEPT ![a] = Observed(lamport[a], manifest'[a])]
        /\ UNCHANGED <<docId, usedIds, restarts, ops, written>>
    BY <1>1 DEF Receive
  <1>4. /\ DOMAIN m = DOMAIN manifest[a] \cup DOMAIN manifest[b]
        /\ IsManifest(m)
        /\ \A n \in DOMAIN m :
             \/ n \in DOMAIN manifest[a] /\ n \notin DOMAIN manifest[b] /\ m[n] = manifest[a][n]
             \/ n \notin DOMAIN manifest[a] /\ n \in DOMAIN manifest[b] /\ m[n] = manifest[b][n]
             \/ /\ n \in DOMAIN manifest[a] /\ n \in DOMAIN manifest[b]
                /\ m[n] = MergeEntry(manifest[a][n], manifest[b][n])
    <2> DEFINE ma == manifest[a]
               mb == manifest[b]
    <2>1. IsManifest(ma) /\ IsManifest(mb)
      BY <1>1
    <2>2. m = Merge(ma, mb)
      OBVIOUS
    <2> HIDE DEF ma, mb, m
    <2>3. /\ DOMAIN Merge(ma, mb) = DOMAIN ma \cup DOMAIN mb
          /\ IsManifest(Merge(ma, mb))
          /\ \A n \in DOMAIN Merge(ma, mb) :
               \/ n \in DOMAIN ma /\ n \notin DOMAIN mb /\ Merge(ma, mb)[n] = ma[n]
               \/ n \notin DOMAIN ma /\ n \in DOMAIN mb /\ Merge(ma, mb)[n] = mb[n]
               \/ n \in DOMAIN ma /\ n \in DOMAIN mb /\ Merge(ma, mb)[n] = MergeEntry(ma[n], mb[n])
      BY <2>1, MergeEffect, Zenon
    <2> QED
      BY <2>2, <2>3 DEF ma, mb
  <1> HIDE DEF m
  <1>5. /\ manifest'[a] = m /\ \A c \in Actors \ {a} : manifest'[c] = manifest[c] /\ lamport'[c] = lamport[c]
        /\ manifest' = [c \in Actors |-> manifest'[c]]
        /\ lamport'[a] = Observed(lamport[a], m)
    BY <1>1, <1>2, <1>3
  <1>6. ASSUME NEW c \in Actors, NEW n \in DOMAIN manifest[c]
        PROVE  /\ manifest[c][n] \in Entry
               /\ HoldsWrites(n, manifest[c][n])
               /\ DeleteIsInformed(manifest[c][n])
               /\ Observes(lamport[c], manifest[c][n])
    BY DEF IInv, TypeOK, IsManifest, EntriesAreWritten, DeletesAreInformed, ClocksObserve
  <1>7. /\ \A n \in DOMAIN m : HoldsWrites(n, m[n]) /\ DeleteIsInformed(m[n])
    <2>1. SUFFICES ASSUME NEW n \in DOMAIN m PROVE HoldsWrites(n, m[n]) /\ DeleteIsInformed(m[n])
      OBVIOUS
    <2>2. CASE n \in DOMAIN manifest[a] /\ n \in DOMAIN manifest[b]
      <3> DEFINE e == manifest[a][n]
                 f == manifest[b][n]
      <3>1. /\ e \in Entry /\ HoldsWrites(n, e) /\ DeleteIsInformed(e)
            /\ f \in Entry /\ HoldsWrites(n, f) /\ DeleteIsInformed(f)
            /\ m[n] = MergeEntry(e, f)
        BY <1>4, <1>6, <2>2
      <3> HIDE DEF e, f
      <3>2. DeleteIsInformed(MergeEntry(e, f))
        BY <3>1, MergedDelete DEF IInv
      <3>3. \A k \in Stamped : Held(MergeEntry(e, f), k) \in {Held(e, k), Held(f, k)}
        BY <3>1, MergedEntry
      <3>4. HoldsWrites(n, MergeEntry(e, f))
        BY <3>1, <3>3 DEF HoldsWrites
      <3> QED
        BY <3>1, <3>2, <3>4
    <2>3. CASE ~(n \in DOMAIN manifest[a] /\ n \in DOMAIN manifest[b])
      BY <1>4, <1>6, <2>3
    <2> QED
      BY <2>2, <2>3
  <1>8. EntriesAreWritten'
    <2>1. ASSUME NEW c \in Actors, NEW n \in DOMAIN manifest'[c] PROVE HoldsWrites(n, manifest[c][n])'
      <3>1. HoldsWrites(n, manifest'[c][n])
        BY <1>5, <1>6, <1>7
      <3> QED
        BY <1>3, <3>1 DEF HoldsWrites, WrittenAs
    <2> QED
      BY <2>1 DEF EntriesAreWritten
  <1>9. DeletesAreInformed'
    BY <1>5, <1>6, <1>7 DEF DeletesAreInformed
  <1>10. DocsAreDistinct' /\ PathsNameWrites' /\ BranchesGrow'
    BY <1>3 DEF IInv, DocsAreDistinct, PathsNameWrites, BranchesGrow
  <1>11. OwnWritesAreHeld'
    <2>1. ASSUME NEW c \in Actors, NEW w \in written, w.field \in Stamped, w.path[Len(w.path)] = docId[c]
          PROVE  /\ w.node \in DOMAIN manifest'[c]
                 /\ NotBefore(Held(manifest'[c][w.node], w.field).path, w.path)
      <3> DEFINE n == w.node
                 k == w.field
      <3>1. n \in DOMAIN manifest[c] /\ NotBefore(Held(manifest[c][n], k).path, w.path) /\ k \in Stamped
        BY <2>1 DEF IInv, OwnWritesAreHeld
      <3>2. w.path \in Path
        BY WrittenTypes DEF IInv
      <3>3. CASE c # a
        BY <1>5, <3>1, <3>3
      <3>4. CASE c = a /\ n \notin DOMAIN manifest[b]
        BY <1>4, <1>5, <3>1, <3>4
      <3>5. CASE c = a /\ n \in DOMAIN manifest[b]
        <4> DEFINE e == manifest[a][n]
                   f == manifest[b][n]
        <4>1. e \in Entry /\ f \in Entry /\ n \in DOMAIN m /\ m[n] = MergeEntry(e, f)
          BY <1>4, <1>6, <3>1, <3>5
        <4>2. NotBefore(Held(e, k).path, w.path)
          BY <3>1, <3>5
        <4> HIDE DEF e, f, n, k
        <4>3. /\ NotBefore(Held(MergeEntry(e, f), k).path, Held(e, k).path)
              /\ MergeEntry(e, f) \in Entry
          BY <3>1, <4>1, MergedEntry
        <4>4. Held(MergeEntry(e, f), k).path \in Path /\ Held(e, k).path \in Path
          BY <3>1, <4>1, <4>3, EntryTypes
        <4>5. NotBefore(Held(m[n], k).path, w.path)
          BY <3>2, <4>1, <4>2, <4>3, <4>4, NotBeforeTransitive
        <4> QED
          BY <1>5, <3>5, <4>1, <4>5 DEF n, k
      <3> QED
        BY <3>3, <3>4, <3>5
    <2> QED
      BY <1>3, <2>1 DEF OwnWritesAreHeld
  <1>12. Observed(lamport[a], m) \in Nat /\ \A n \in DOMAIN m : Observes(Observed(lamport[a], m), m[n])
    <2> DEFINE bound == lamport[a] + lamport[b]
    <2>1. lamport[a] \in Nat /\ lamport[b] \in Nat /\ bound \in Nat
      BY <1>1
    <2>2. ASSUME NEW c \in {a, b}, NEW n \in DOMAIN manifest[c] PROVE Observes(bound, manifest[c][n])
      <3>1. Observes(lamport[c], manifest[c][n]) /\ manifest[c][n] \in Entry
        BY <1>6
      <3>2. /\ manifest[c][n].create.lamport \in Nat
            /\ manifest[c][n].mod.stamp.lamport \in Nat
            /\ manifest[c][n].del.stamp.lamport \in Nat
        BY <3>1 DEF Entry, ModField, DelField, Stamp
      <3> QED
        BY <2>1, <3>1, <3>2 DEF Observes
    <2> HIDE DEF bound
    <2>3. ASSUME NEW n \in DOMAIN m PROVE Observes(bound, m[n])
      <3>1. CASE n \in DOMAIN manifest[a] /\ n \in DOMAIN manifest[b]
        <4>1. manifest[a][n] \in Entry /\ manifest[b][n] \in Entry /\ m[n] = MergeEntry(manifest[a][n], manifest[b][n])
          BY <1>4, <1>6, <3>1
        <4>2. /\ m[n].create = manifest[a][n].create
              /\ m[n].mod \in {manifest[a][n].mod, manifest[b][n].mod}
              /\ m[n].del \in {manifest[a][n].del, manifest[b][n].del}
          BY <4>1, MergedEntry
        <4>3. Observes(bound, manifest[a][n]) /\ Observes(bound, manifest[b][n])
          BY <2>2, <3>1
        <4> QED
          BY <4>2, <4>3 DEF Observes
      <3>2. CASE ~(n \in DOMAIN manifest[a] /\ n \in DOMAIN manifest[b])
        BY <1>4, <2>2, <3>2
      <3> QED
        BY <3>1, <3>2
    <2> QED
      BY <1>4, <2>1, <2>3, ObservedCovers
  <1>13. ClocksObserve'
    <2>1. ASSUME NEW c \in Actors, NEW n \in DOMAIN manifest'[c] PROVE Observes(lamport'[c], manifest'[c][n])
      <3>1. CASE c = a
        BY <1>5, <1>12, <3>1
      <3>2. CASE c # a
        BY <1>5, <1>6, <3>2
      <3> QED
        BY <3>1, <3>2
    <2> QED
      BY <2>1 DEF ClocksObserve
  <1>14. TypeOK'
    <2>1. \A c \in Actors : IsManifest(manifest'[c])
      BY <1>4, <1>5 DEF IInv, TypeOK
    <2>2. lamport' \in [Actors -> Nat]
      BY <1>1, <1>3, <1>5, <1>12
    <2> QED
      BY <1>3, <1>5, <2>1, <2>2 DEF IInv, TypeOK
  <1> QED
    BY <1>8, <1>9, <1>10, <1>11, <1>13, <1>14 DEF IInv

\* A new process has a Doc of its own and observes what it loaded.
LEMMA RestartNext ==
  ASSUME IInv, NEW a \in Actors, Restart(a)
  PROVE  IInv'
  <1>1. PICK d \in DocIds \ usedIds : docId' = [docId EXCEPT ![a] = d] /\ usedIds' = usedIds \cup {d}
    BY DEF Restart
  <1>2. UNCHANGED <<manifest, ops, written>> /\ restarts' = restarts + 1
        /\ lamport' = [lamport EXCEPT ![a] = Observed(0, manifest[a])]
    BY DEF Restart
  <1>3. /\ IsManifest(manifest[a]) /\ lamport \in [Actors -> Nat] /\ docId \in [Actors -> DocIds]
        /\ \A n \in DOMAIN manifest[a] : Observes(lamport[a], manifest[a][n])
    BY DEF IInv, TypeOK, ClocksObserve
  <1>4. Observed(0, manifest[a]) \in Nat
        /\ \A n \in DOMAIN manifest[a] : Observes(Observed(0, manifest[a]), manifest[a][n])
    BY <1>3, ObservedCovers
  <1>5. TypeOK'
    BY <1>1, <1>2, <1>3, <1>4 DEF IInv, TypeOK
  <1>6. DocsAreDistinct'
    BY <1>1, <1>2, <1>3 DEF IInv, DocsAreDistinct
  <1>7. OwnWritesAreHeld'
    <2>1. ASSUME NEW c \in Actors, NEW w \in written, w.field \in Stamped, w.path[Len(w.path)] = docId'[c]
          PROVE  docId[c] = docId'[c]
      <3>1. w.path \in Path /\ w.path # << >>
        BY WrittenTypes DEF IInv, PathsNameWrites
      <3>2. Len(w.path) \in DOMAIN w.path
        BY <3>1, PathTypes
      <3>3. w.path[Len(w.path)] \in usedIds
        BY <3>2 DEF IInv, DocsAreDistinct
      <3> QED
        BY <1>1, <1>3, <2>1, <3>3
    <2> QED
      BY <1>2, <2>1 DEF IInv, OwnWritesAreHeld
  <1>8. ClocksObserve'
    BY <1>2, <1>3, <1>4 DEF IInv, ClocksObserve
  <1>9. EntriesAreWritten' /\ PathsNameWrites' /\ DeletesAreInformed' /\ BranchesGrow'
    BY <1>2 DEF IInv, EntriesAreWritten, HoldsWrites, WrittenAs, PathsNameWrites, DeletesAreInformed,
                BranchesGrow
  <1> QED
    BY <1>5, <1>6, <1>7, <1>8, <1>9 DEF IInv

-----------------------------------------------------------------------------
(* Conflict copies *)

\* Stamps are totally ordered, and the effective stamp is the last of three.
LEMMA StampsOrdered ==
  ASSUME NEW s \in Stamp, NEW t \in Stamp
  PROVE  s = t \/ Beats(s, t) \/ Beats(t, s)
  <1>1. Actors \cup {0} \subseteq Nat
    BY NodeFieldsAssumption
  <1>2. s.lamport \in Nat /\ t.lamport \in Nat /\ s.actor \in Nat /\ t.actor \in Nat
    BY <1>1 DEF Stamp
  <1>3. s = [lamport |-> s.lamport, actor |-> s.actor] /\ t = [lamport |-> t.lamport, actor |-> t.actor]
    BY DEF Stamp
  <1>4. s.lamport = t.lamport /\ s.actor = t.actor => s = t
    BY <1>3
  <1> QED
    BY <1>2, <1>4 DEF Beats

LEMMA BeatsTransitive ==
  ASSUME NEW s \in Stamp, NEW t \in Stamp, NEW u \in Stamp, Beats(s, t), Beats(t, u)
  PROVE  Beats(s, u)
  <1>1. Actors \cup {0} \subseteq Nat
    BY NodeFieldsAssumption
  <1>2. /\ s.lamport \in Nat /\ t.lamport \in Nat /\ s.actor \in Nat /\ t.actor \in Nat
        /\ u.lamport \in Nat /\ u.actor \in Nat
    BY <1>1 DEF Stamp
  <1> QED
    BY <1>2 DEF Beats

LEMMA EffectiveStampIsLatest ==
  ASSUME NEW e \in Entry
  PROVE  /\ EffectiveStamp(e) \in {e.create, e.mod.stamp, e.del.stamp}
         /\ EffectiveStamp(e) \in Stamp
         /\ \A s \in {e.create, e.mod.stamp, e.del.stamp} : EffectiveStamp(e) = s \/ Beats(EffectiveStamp(e), s)
  <1> DEFINE S == {e.create, e.mod.stamp, e.del.stamp}
  <1>1. e.create \in Stamp /\ e.mod.stamp \in Stamp /\ e.del.stamp \in Stamp
    BY EntryTypes
  <1>2. \E s \in S : \A t \in S : s = t \/ Beats(s, t)
    <2> DEFINE first == IF Beats(e.mod.stamp, e.create) THEN e.mod.stamp ELSE e.create
    <2>1. /\ first \in Stamp
          /\ first = e.create \/ Beats(first, e.create)
          /\ first = e.mod.stamp \/ Beats(first, e.mod.stamp)
          /\ first \in S
      BY <1>1, StampsOrdered
    <2> HIDE DEF first
    <2>2. CASE Beats(e.del.stamp, first)
      BY <1>1, <2>1, <2>2, BeatsTransitive
    <2>3. CASE ~Beats(e.del.stamp, first)
      BY <1>1, <2>1, <2>3, StampsOrdered
    <2> QED
      BY <2>2, <2>3
  <1>3. /\ EffectiveStamp(e) \in S
        /\ \A s \in S : EffectiveStamp(e) = s \/ Beats(EffectiveStamp(e), s)
    <2>1. EffectiveStamp(e) = CHOOSE s \in S : \A t \in S : s = t \/ Beats(s, t)
      BY DEF EffectiveStamp, Latest
    <2> HIDE DEF S
    <2> QED
      BY <1>2, <2>1
  <1> QED
    BY <1>1, <1>3

\* Among some rows one is the first.
LEMMA FirstRowExists ==
  ASSUME NEW m, IsManifest(m), NEW S, S \subseteq DOMAIN m, S # {}
  PROVE  \E f \in S : \A k \in S \ {f} : RowBefore(m, f, k)
  <1> DEFINE stamp(n) == EffectiveStamp(m[n])
             clocks == {stamp(n).lamport : n \in S}
  <1>1. ASSUME NEW n \in S
        PROVE  stamp(n) \in Stamp /\ stamp(n).lamport \in Nat /\ stamp(n).actor \in Nat /\ n \in Nat
    <2>1. stamp(n) \in Stamp /\ n \in Nat
      BY EffectiveStampIsLatest, NodeFieldsAssumption DEF IsManifest
    <2>2. Actors \cup {0} \subseteq Nat
      BY NodeFieldsAssumption
    <2> HIDE DEF stamp
    <2> QED
      BY <2>1, <2>2 DEF Stamp
  <1>2. \A n, k \in S : RowBefore(m, n, k) <=> (Beats(stamp(k), stamp(n)) \/ (stamp(n) = stamp(k) /\ n < k))
    BY DEF RowBefore
  <1> HIDE DEF stamp
  <1>3. clocks \subseteq Nat /\ clocks # {}
    BY <1>1
  <1>4. PICK n1 \in S : \A k \in S : stamp(n1).lamport <= stamp(k).lamport
    <2> HIDE DEF clocks
    <2>1. PICK c \in clocks : \A d \in clocks : c <= d
      BY <1>3, LeastExists
    <2> USE DEF clocks
    <2>2. PICK n \in S : c = stamp(n).lamport
      BY <2>1
    <2> QED
      BY <2>1, <2>2
  <1> DEFINE S1 == {k \in S : stamp(k).lamport = stamp(n1).lamport}
             actors == {stamp(k).actor : k \in S1}
  <1>5. actors \subseteq Nat /\ actors # {}
    BY <1>1
  <1>6. PICK n2 \in S1 : \A k \in S1 : stamp(n2).actor <= stamp(k).actor
    <2> HIDE DEF actors
    <2>1. PICK c \in actors : \A d \in actors : c <= d
      BY <1>5, LeastExists
    <2> USE DEF actors
    <2>2. PICK n \in S1 : c = stamp(n).actor
      BY <2>1
    <2> QED
      BY <2>1, <2>2
  <1> DEFINE S2 == {k \in S1 : stamp(k).actor = stamp(n2).actor}
  <1>7. S2 \subseteq Nat /\ S2 # {}
    BY <1>1, <1>6
  <1>8. PICK f \in S2 : \A k \in S2 : f <= k
    <2> HIDE DEF S2
    <2> QED
      BY <1>7, LeastExists
  <1>9. ASSUME NEW k \in S \ {f} PROVE RowBefore(m, f, k)
    <2>1. f \in S /\ stamp(f).lamport = stamp(n1).lamport /\ stamp(f).actor = stamp(n2).actor
      BY <1>8
    <2>2. stamp(k).lamport > stamp(f).lamport => Beats(stamp(k), stamp(f))
      BY DEF Beats
    <2>3. stamp(k).lamport = stamp(f).lamport /\ stamp(k).actor > stamp(f).actor => Beats(stamp(k), stamp(f))
      BY DEF Beats
    <2>4. CASE stamp(k).lamport # stamp(f).lamport
      BY <1>1, <1>2, <1>4, <2>1, <2>2, <2>4
    <2>5. CASE stamp(k).lamport = stamp(f).lamport /\ stamp(k).actor # stamp(f).actor
      BY <1>1, <1>2, <1>6, <2>1, <2>3, <2>5
    <2>6. CASE stamp(k).lamport = stamp(f).lamport /\ stamp(k).actor = stamp(f).actor
      <3>1. k \in S2
        BY <2>1, <2>6
      <3>2. f < k
        BY <1>1, <1>8, <2>1, <3>1
      <3>3. stamp(f) = stamp(k)
        BY <1>1, <2>1, <2>6 DEF Stamp
      <3> QED
        BY <1>2, <2>1, <3>2, <3>3
    <2> QED
      BY <2>4, <2>5, <2>6
  <1> QED
    BY <1>8, <1>9

\* When one node changes, any other one keeps its path, unless the changed
\* node takes it.
LEMMA OthersKeepTheirPaths ==
  ASSUME NEW m, NEW mm, NEW n,
         DOMAIN mm = DOMAIN m \cup {n}, \A j \in DOMAIN m \ {n} : mm[j] = m[j],
         \A k \in Live(mm) \ {n} : n \in Rivals(mm, k) => RowBefore(mm, k, n)
  PROVE  ConflictCopies(mm) \ {n} \subseteq ConflictCopies(m)
  <1>1. ASSUME NEW k \in Live(mm) \ {n} PROVE k \in Live(m) /\ k \in DOMAIN m /\ mm[k] = m[k]
    BY DEF Live
  <1>2. SUFFICES ASSUME NEW k \in Live(mm) \ {n}, OwnsPath(m, k) PROVE OwnsPath(mm, k)
    BY <1>1 DEF ConflictCopies
  <1>3. ASSUME NEW j \in Rivals(mm, k) PROVE RowBefore(mm, k, j)
    <2>1. CASE j = n
      BY <1>3, <2>1
    <2>2. CASE j # n
      <3>1. j \in Live(mm) \ {n} /\ j # k /\ mm[j].name.name = mm[k].name.name
        BY <1>3, <2>2 DEF Rivals
      <3>2. j \in Live(m) /\ mm[j] = m[j] /\ mm[k] = m[k]
        BY <1>1, <3>1
      <3>3. RowBefore(m, k, j)
        BY <1>2, <3>1, <3>2 DEF OwnsPath, Rivals
      <3> QED
        BY <3>2, <3>3 DEF RowBefore
    <2> QED
      BY <2>1, <2>2
  <1> QED
    BY <1>3 DEF OwnsPath

\* A file at a path that was free owns it.
LEMMA FreePathIsOwned ==
  ASSUME NEW m, NEW mm, NEW n,
         DOMAIN mm = DOMAIN m \cup {n}, \A j \in DOMAIN m \ {n} : mm[j] = m[j],
         mm[n].name.name \notin Taken(m)
  PROVE  ConflictCopies(mm) \subseteq ConflictCopies(m)
  <1>1. ASSUME NEW k \in Live(mm) \ {n} PROVE mm[k].name.name # mm[n].name.name
    <2>1. k \in Live(m) /\ mm[k] = m[k]
      BY DEF Live
    <2> QED
      BY <2>1 DEF Taken
  <1>2. \A k \in Live(mm) \ {n} : n \notin Rivals(mm, k)
    BY <1>1 DEF Rivals
  <1>3. ConflictCopies(mm) \ {n} \subseteq ConflictCopies(m)
    BY <1>2, OthersKeepTheirPaths
  <1>4. Rivals(mm, n) = {}
    BY <1>1 DEF Rivals
  <1>5. n \notin ConflictCopies(mm)
    BY <1>4 DEF ConflictCopies, OwnsPath
  <1> QED
    BY <1>3, <1>5

\* What an operation leaves of the manifest of its actor.
LEMMA WriteOfField ==
  ASSUME IInv, NEW a \in Actors, NEW n \in DOMAIN manifest[a], NEW e \in Entry, NEW k \in Stamped,
         FieldWrite(a, n, e, k)
  PROVE  /\ DOMAIN manifest'[a] = DOMAIN manifest[a] \cup {n}
         /\ manifest'[a][n] = e
         /\ \A m \in DOMAIN manifest[a] \ {n} : manifest'[a][m] = manifest[a][m]
         /\ \A m \in DOMAIN manifest[a] :
              manifest[a][m] \in Entry /\ Observes(lamport[a], manifest[a][m])
         /\ n \in Nodes
         /\ Tick(a) \in Stamp /\ Tick(a).lamport = lamport[a] + 1 /\ lamport[a] \in Nat
  <1>1. n \in Nodes
    BY TickTypes DEF IInv
  <1>2. Write(a, n, e, k, Held(e, k).path)
    BY DEF FieldWrite
  <1>3. \A m \in DOMAIN manifest[a] : manifest[a][m] \in Entry /\ Observes(lamport[a], manifest[a][m])
    BY TickTypes DEF IInv, ClocksObserve
  <1>4. /\ DOMAIN manifest'[a] = DOMAIN manifest[a] \cup {n}
        /\ manifest'[a][n] = e
        /\ \A m \in DOMAIN manifest[a] \ {n} : manifest'[a][m] = manifest[a][m]
    BY <1>1, <1>2, WriteEffect DEF IInv
  <1> QED
    BY <1>1, <1>3, <1>4, TickTypes DEF IInv

LEMMA CreateKeepsConflicts ==
  ASSUME IInv, NEW a \in Actors, NEW name \in Names, Create(a, name)
  PROVE  ConflictCopies(manifest'[a]) \subseteq ConflictCopies(manifest[a])
  <1>1. name \notin Taken(manifest[a]) /\ CreateNode(a, name)
    BY DEF Create
  <1>2. PICK n \in Nodes : \E e \in Entry : NewNode(a, n, e) /\ e.name.name = name
    BY <1>1, CreateNodeWrites DEF IInv
  <1>3. PICK e \in Entry : NewNode(a, n, e) /\ e.name.name = name
    BY <1>2
  <1>4. Write(a, n, e, "create", <<docId[a]>>)
    BY <1>3 DEF NewNode
  <1>5. /\ DOMAIN manifest'[a] = DOMAIN manifest[a] \cup {n}
        /\ manifest'[a][n] = e
        /\ \A m \in DOMAIN manifest[a] \ {n} : manifest'[a][m] = manifest[a][m]
    BY <1>4, WriteEffect DEF IInv
  <1> DEFINE m == manifest[a]
             mm == manifest'[a]
  <1>6. /\ DOMAIN mm = DOMAIN m \cup {n} /\ \A j \in DOMAIN m \ {n} : mm[j] = m[j]
        /\ mm[n].name.name \notin Taken(m)
    BY <1>1, <1>3, <1>5
  <1> HIDE DEF m, mm
  <1>7. ConflictCopies(mm) \subseteq ConflictCopies(m)
    BY <1>6, FreePathIsOwned
  <1> QED
    BY <1>7 DEF m, mm

LEMMA RenameKeepsConflicts ==
  ASSUME IInv, NEW a \in Actors, NEW n \in DOMAIN manifest[a], NEW to \in Names, Rename(a, n, to)
  PROVE  ConflictCopies(manifest'[a]) \subseteq ConflictCopies(manifest[a])
  <1> DEFINE f == [path |-> Below(a, manifest[a][n].name), name |-> to]
  <1>1. to \notin Taken(manifest[a]) /\ Modified(a, n, f)
    BY DEF Rename
  <1>2. f \in NameField
    <2>1. manifest[a][n] \in Entry /\ docId[a] \in DocIds
      BY TickTypes DEF IInv
    <2> QED
      BY <2>1, EntryTypes, BelowIsAfter DEF Below, NameField
  <1>3. f.name = to
    OBVIOUS
  <1> HIDE DEF f
  <1>4. PICK e \in Entry : FieldWrite(a, n, e, "mod") /\ e.name = f
    BY <1>1, <1>2, ModifiedWrites DEF IInv
  <1>5. /\ DOMAIN manifest'[a] = DOMAIN manifest[a] \cup {n}
        /\ manifest'[a][n] = e
        /\ \A m \in DOMAIN manifest[a] \ {n} : manifest'[a][m] = manifest[a][m]
    BY <1>4, WriteOfField DEF Stamped
  <1> DEFINE m == manifest[a]
             mm == manifest'[a]
  <1>6. /\ DOMAIN mm = DOMAIN m \cup {n} /\ \A j \in DOMAIN m \ {n} : mm[j] = m[j]
        /\ mm[n].name.name \notin Taken(m)
    BY <1>1, <1>3, <1>4, <1>5
  <1> HIDE DEF m, mm
  <1>7. ConflictCopies(mm) \subseteq ConflictCopies(m)
    BY <1>6, FreePathIsOwned
  <1> QED
    BY <1>7 DEF m, mm

LEMMA DeleteKeepsConflicts ==
  ASSUME IInv, NEW a \in Actors, NEW n \in DOMAIN manifest[a], Delete(a, n)
  PROVE  ConflictCopies(manifest'[a]) \subseteq ConflictCopies(manifest[a])
  <1>1. PICK e \in Entry : FieldWrite(a, n, e, "del") /\ e.name = manifest[a][n].name
    BY DeleteWrites DEF IInv
  <1>2. /\ DOMAIN manifest'[a] = DOMAIN manifest[a] \cup {n}
        /\ manifest'[a][n] = e
        /\ \A m \in DOMAIN manifest[a] \ {n} : manifest'[a][m] = manifest[a][m]
        /\ manifest[a][n] \in Entry /\ Observes(lamport[a], manifest[a][n])
        /\ Tick(a) \in Stamp /\ Tick(a).lamport = lamport[a] + 1 /\ lamport[a] \in Nat
        /\ n \in Nodes
    BY <1>1, WriteOfField DEF Stamped
  <1>3. e.mod = manifest[a][n].mod /\ e.del.stamp = Tick(a) /\ e.del.path # << >>
    <2>1. Held(e, "del").path # << >>
      BY <1>1, <1>2, FieldWriteEffect DEF Stamped, IInv
    <2> QED
      BY <1>1, <2>1 DEF FieldWrite, Held
  <1>4. ~Beats(e.mod.stamp, e.del.stamp)
    <2>1. e.mod.stamp \in Stamp /\ e.del.stamp \in Stamp
      BY EntryTypes
    <2>2. e.mod.stamp.lamport < e.del.stamp.lamport
      BY <1>2, <1>3, <2>1, BeatsByClock DEF Observes
    <2> QED
      BY <2>1, <2>2, BeatsByClock
  <1>5. ~IsLive(e)
    BY <1>3, <1>4 DEF IsLive, Deleted
  <1> DEFINE m == manifest[a]
             mm == manifest'[a]
  <1>6. /\ DOMAIN mm = DOMAIN m \cup {n} /\ \A j \in DOMAIN m \ {n} : mm[j] = m[j]
        /\ ~IsLive(mm[n])
    BY <1>2, <1>5
  <1> HIDE DEF m, mm
  <1>7. n \notin Live(mm)
    BY <1>6 DEF Live
  <1>8. \A k \in Live(mm) \ {n} : n \notin Rivals(mm, k)
    BY <1>7 DEF Rivals
  <1>9. ConflictCopies(mm) \ {n} \subseteq ConflictCopies(m)
    BY <1>6, <1>8, OthersKeepTheirPaths
  <1>10. ConflictCopies(mm) \subseteq ConflictCopies(m)
    BY <1>7, <1>9 DEF ConflictCopies
  <1> QED
    BY <1>10 DEF m, mm

\* An edit makes its file the last of its rivals: the first of them takes
\* the path if the file had it.
LEMMA ModifySwapsOwners ==
  ASSUME IInv, NEW a \in Actors, NEW n \in DOMAIN manifest[a], RecordModify(a, n)
  PROVE  \/ ConflictCopies(manifest'[a]) \subseteq ConflictCopies(manifest[a])
         \/ \E f \in Rivals(manifest[a], n) : Yields(manifest[a], manifest'[a], n, f)
  <1>1. n \in Live(manifest[a]) /\ Modified(a, n, manifest[a][n].name) /\ manifest[a][n].name \in NameField
    <2>1. manifest[a][n] \in Entry
      BY TickTypes DEF IInv
    <2> QED
      BY <2>1, EntryTypes DEF RecordModify
  <1>2. PICK e \in Entry : FieldWrite(a, n, e, "mod") /\ e.name = manifest[a][n].name
    BY <1>1, ModifiedWrites DEF IInv
  <1>3. /\ DOMAIN manifest'[a] = DOMAIN manifest[a] \cup {n}
        /\ manifest'[a][n] = e
        /\ \A m \in DOMAIN manifest[a] \ {n} : manifest'[a][m] = manifest[a][m]
        /\ \A m \in DOMAIN manifest[a] :
              manifest[a][m] \in Entry /\ Observes(lamport[a], manifest[a][m])
        /\ Tick(a) \in Stamp /\ Tick(a).lamport = lamport[a] + 1 /\ lamport[a] \in Nat
    BY <1>2, WriteOfField DEF Stamped
  <1>4. e.mod.stamp = Tick(a)
    BY <1>2 DEF FieldWrite, Held
  <1>5. IsManifest(manifest[a])
    BY DEF IInv, TypeOK
  <1>12. manifest'[a][n].name = manifest[a][n].name /\ manifest'[a][n].mod # manifest[a][n].mod
    <2>1. manifest[a][n].mod.stamp \in Stamp /\ manifest[a][n].mod.stamp.lamport <= lamport[a]
      BY <1>3, EntryTypes DEF Observes
    <2>2. manifest[a][n].mod.stamp # Tick(a)
      BY <1>3, <2>1 DEF Stamp
    <2> QED
      BY <1>2, <1>3, <1>4, <2>2
  <1> DEFINE m == manifest[a]
             mm == manifest'[a]
  <1>6. ASSUME NEW k \in DOMAIN m \ {n} PROVE RowBefore(mm, k, n)
    <2>1. m[k] \in Entry /\ Observes(lamport[a], m[k]) /\ mm[k] = m[k] /\ mm[n] = e
      BY <1>3
    <2> DEFINE s == EffectiveStamp(m[k])
               t == EffectiveStamp(e)
    <2>2. s \in Stamp /\ s \in {m[k].create, m[k].mod.stamp, m[k].del.stamp}
      BY <2>1, EffectiveStampIsLatest
    <2>3. t \in Stamp /\ (t = Tick(a) \/ Beats(t, Tick(a)))
      BY <1>4, EffectiveStampIsLatest
    <2>4. RowBefore(mm, k, n) <=> (Beats(t, s) \/ (s = t /\ k < n))
      BY <2>1 DEF RowBefore
    <2>5. s.lamport <= lamport[a]
      BY <2>1, <2>2 DEF Observes
    <2> HIDE DEF s, t
    <2>6. s.lamport \in Nat /\ t.lamport \in Nat /\ Tick(a).lamport <= t.lamport
      BY <1>3, <2>2, <2>3, BeatsByClock
    <2>7. s.lamport < t.lamport
      BY <1>3, <2>5, <2>6
    <2> QED
      BY <2>2, <2>3, <2>4, <2>7, BeatsByClock
  <1>7. /\ DOMAIN mm = DOMAIN m \cup {n} /\ \A j \in DOMAIN m \ {n} : mm[j] = m[j]
        /\ n \in DOMAIN m /\ n \in Live(m) /\ mm[n].name.name = m[n].name.name
        /\ IsManifest(m)
        /\ mm[n].name = m[n].name /\ mm[n].mod # m[n].mod
    BY <1>1, <1>2, <1>3, <1>5, <1>12
  <1> HIDE DEF m, mm
  <1>8. \A k \in Live(mm) \ {n} : k \in DOMAIN m \ {n} /\ k \in Live(m)
    BY <1>7 DEF Live
  <1>9. ConflictCopies(mm) \ {n} \subseteq ConflictCopies(m)
    BY <1>6, <1>7, <1>8, OthersKeepTheirPaths
  <1>10. CASE n \in ConflictCopies(m) \/ n \notin ConflictCopies(mm)
    BY <1>9, <1>10 DEF m, mm
  <1>11. CASE n \notin ConflictCopies(m) /\ n \in ConflictCopies(mm)
    <2>1. OwnsPath(m, n) /\ Rivals(m, n) \subseteq DOMAIN m
      BY <1>7, <1>11 DEF ConflictCopies, Rivals, Live
    <2>2. Rivals(m, n) # {}
      <3>1. PICK j \in Rivals(mm, n) : TRUE
        BY <1>11 DEF ConflictCopies, OwnsPath
      <3>2. j \in Live(mm) \ {n} /\ mm[j].name.name = mm[n].name.name
        BY <3>1 DEF Rivals
      <3> QED
        BY <1>7, <1>8, <3>2 DEF Rivals
    <2>3. PICK f \in Rivals(m, n) : \A k \in Rivals(m, n) \ {f} : RowBefore(m, f, k)
      BY <1>7, <2>1, <2>2, FirstRowExists
    <2>4. f \in Live(m) /\ f # n /\ f \in DOMAIN m /\ m[f].name.name = m[n].name.name /\ n \in Rivals(m, f)
      BY <1>7, <2>3 DEF Rivals, Live
    <2>6. OwnsPath(mm, f)
      <3>1. f \in Live(mm) /\ mm[f] = m[f]
        BY <1>7, <2>4 DEF Live
      <3>2. ASSUME NEW j \in Rivals(mm, f) PROVE RowBefore(mm, f, j)
        <4>1. CASE j = n
          BY <1>6, <2>4, <4>1
        <4>2. CASE j # n
          <5>1. j \in Live(mm) \ {n} /\ j # f /\ mm[j].name.name = mm[f].name.name
            BY <4>2 DEF Rivals
          <5>2. j \in Live(m) /\ mm[j] = m[j]
            BY <1>7, <1>8, <5>1
          <5>3. j \in Rivals(m, n) \ {f}
            BY <2>4, <3>1, <5>1, <5>2 DEF Rivals
          <5>4. RowBefore(m, f, j)
            BY <2>3, <5>3
          <5> QED
            BY <3>1, <5>2, <5>4 DEF RowBefore
        <4> QED
          BY <4>1, <4>2
      <3> QED
        BY <3>1, <3>2 DEF OwnsPath
    <2>7. f \notin ConflictCopies(mm)
      BY <2>6 DEF ConflictCopies
    <2>8. ConflictCopies(mm) \subseteq (ConflictCopies(m) \ {f}) \cup {n}
      BY <1>9, <2>7
    <2> QED
      BY <1>7, <2>1, <2>3, <2>6, <2>8 DEF Yields, m, mm
  <1> QED
    BY <1>10, <1>11

\* An operation only takes conflict copies away, or edits the owner of a path.
LEMMA LocalStepsYield ==
  ASSUME IInv, NEW a \in Actors, LocalStep(a)
  PROVE  \/ ConflictCopies(manifest'[a]) \subseteq ConflictCopies(manifest[a])
         \/ \E n \in DOMAIN manifest[a] : \E f \in Rivals(manifest[a], n) :
              Yields(manifest[a], manifest'[a], n, f)
  BY CreateKeepsConflicts, RenameKeepsConflicts, DeleteKeepsConflicts, ModifySwapsOwners DEF LocalStep

-----------------------------------------------------------------------------
(* The theorems *)

LEMMA InvariantInit == Init => IInv
  <1> SUFFICES ASSUME Init PROVE IInv
    OBVIOUS
  <1>1. /\ manifest = [a \in Actors |-> << >>] /\ written = {} /\ ops = 0 /\ restarts = 0
        /\ lamport = [a \in Actors |-> 0]
        /\ docId \in [Actors -> DocIds] /\ \A a, b \in Actors : docId[a] = docId[b] => a = b
        /\ usedIds = {docId[a] : a \in Actors}
    BY DEF Init
  <1>2. \A a \in Actors : manifest[a] = << >> /\ DOMAIN manifest[a] = {}
    BY <1>1
  <1>3. \A a \in Actors : IsManifest(manifest[a])
    BY <1>2 DEF IsManifest
  <1>4. TypeOK
    BY <1>1, <1>3 DEF TypeOK
  <1>5. EntriesAreWritten /\ ClocksObserve /\ DeletesAreInformed
    BY <1>2 DEF EntriesAreWritten, ClocksObserve, DeletesAreInformed
  <1>6. DocsAreDistinct /\ PathsNameWrites /\ OwnWritesAreHeld /\ BranchesGrow
    BY <1>1 DEF DocsAreDistinct, PathsNameWrites, OwnWritesAreHeld, BranchesGrow
  <1> QED
    BY <1>4, <1>5, <1>6 DEF IInv

LEMMA InvariantNext == IInv /\ [Next]_vars => IInv'
  <1> SUFFICES ASSUME IInv, [Next]_vars PROVE IInv'
    OBVIOUS
  <1>1. ASSUME NEW a \in Actors, LocalStep(a) \/ (\E name \in Names : CreateColliding(a, name))
        PROVE  IInv'
    <2>1. PICK n \in Nodes, e \in Entry : NewNode(a, n, e) \/ (\E k \in Stamped : FieldWrite(a, n, e, k))
      BY <1>1, LocalStepsWrite DEF IInv
    <2> QED
      BY <2>1, NewNodeNext, FieldWriteNext
  <1>2. ASSUME NEW a \in Actors, NEW b \in Actors \ {a}, Receive(a, b) PROVE IInv'
    BY <1>2, ReceiveNext
  <1>3. ASSUME NEW a \in Actors, Restart(a) PROVE IInv'
    BY <1>3, RestartNext
  <1>4. CASE UNCHANGED vars
    BY <1>4 DEF vars, IInv, TypeOK, EntriesAreWritten, HoldsWrites, WrittenAs, DocsAreDistinct,
                PathsNameWrites, OwnWritesAreHeld, ClocksObserve, DeletesAreInformed, BranchesGrow
  <1> QED
    BY <1>1, <1>2, <1>3, <1>4 DEF Next

\* The inductive invariant.
THEOREM Inductive == Spec => []IInv
  BY InvariantInit, InvariantNext, PTL DEF Spec

\* The types of the variables.
THEOREM TypeCorrect == Spec => []TypeOK
  <1>1. IInv => TypeOK
    BY DEF IInv
  <1> QED
    BY <1>1, Inductive, PTL

\* A write that replaces another one has the greater stamp, whoever wrote
\* the two and however often clocks were lost in between.
THEOREM StampsFollowBranches == Spec => []BranchesGrow
  <1>1. IInv => BranchesGrow
    BY DEF IInv
  <1> QED
    BY <1>1, Inductive, PTL

\* A deleted file is back only through a modification that whoever deleted
\* it had not seen.
THEOREM SeenEditsStayDeleted == Spec => []OnlyUnseenEditsResurrect
  <1>1. IInv => OnlyUnseenEditsResurrect
    <2>1. ASSUME IInv, NEW a \in Actors, NEW n \in Live(manifest[a]), Deleted(manifest[a][n])
          PROVE  After(manifest[a][n].mod.path, manifest[a][n].del.saw)
      <3> DEFINE e == manifest[a][n]
      <3>1. n \in DOMAIN manifest[a] /\ IsLive(e)
        BY DEF Live
      <3>2. e \in Entry /\ DeleteIsInformed(e)
        BY <2>1, <3>1, TickTypes DEF IInv, DeletesAreInformed
      <3>3. e.mod.stamp \in Stamp /\ e.del.stamp \in Stamp
        BY <3>2, EntryTypes
      <3> HIDE DEF e
      <3>4. Beats(e.mod.stamp, e.del.stamp)
        BY <2>1, <3>1 DEF IsLive, e
      <3>5. ~Beats(e.del.stamp, e.mod.stamp)
        BY <3>3, <3>4, BeatsByClock
      <3>6. After(e.mod.path, e.del.saw)
        BY <2>1, <3>2, <3>5 DEF DeleteIsInformed, NotBefore, e
      <3> QED
        BY <3>6 DEF e
    <2> QED
      BY <2>1 DEF OnlyUnseenEditsResurrect
  <1> QED
    BY <1>1, Inductive, PTL

\* A client's own operations turn no file of its projection into a conflict copy,
\* but for the edit of a contested path's owner, which gives the path to a rival.
THEOREM OperationsYieldByEdits == Spec => OnlyEditsYieldPaths
  <1>1. IInv /\ [Next]_vars
        => [\A a \in Actors :
              LocalStep(a) =>
                \/ ConflictCopies(manifest'[a]) \subseteq ConflictCopies(manifest[a])
                \/ \E n \in DOMAIN manifest[a] : \E f \in Rivals(manifest[a], n) :
                     Yields(manifest[a], manifest'[a], n, f)]_vars
    BY LocalStepsYield
  <1> QED
    BY <1>1, Inductive, PTL DEF Spec, OnlyEditsYieldPaths
=============================================================================
