------------------------- MODULE ContentRelayProofs -------------------------
(***************************************************************************)
(* Proofs about ContentRelay, for any set of clients, any capacity of the  *)
(* channel and any number of edits and faults: what is relayed is saved,   *)
(* and a connection that has had its STEP_2 misses nothing.                *)
(***************************************************************************)
EXTENDS ContentRelay, SequenceTheorems, FiniteSetTheorems, TLAPS

\* The insertions of author in S.
InsertedBy(author, S) == {i \in Inserted(S) : i.author = author}

\* What a connection carries up, and what of it the server is about to pass
\* on, its client has: so the forwarding task may skip the client's own
\* messages, and STEP_2 what a STEP_1 names.
SendersHave ==
  \A c \in Clients :
    /\ \A f \in Range(c2s[c]) : f.ops \subseteq content[c] /\ f.sv \subseteq Inserted(content[c])
    /\ job[c] \subseteq content[c]
    /\ \A m \in Range(queue[c]) : m.own => m.ops \subseteq content[c]

\* An insertion is everywhere else only after its author has it.
AuthorsHave ==
  \A c \in Clients :
    /\ InsertedBy(c, rows) \subseteq InsertedBy(c, content[c])
    /\ \A d \in Clients : InsertedBy(c, content[d]) \subseteq InsertedBy(c, content[c])

\* A client's clock counts its insertions.
ClocksCount ==
  \A c \in Clients :
    IsFiniteSet(InsertedBy(c, content[c])) /\ Cardinality(InsertedBy(c, content[c])) <= edits

\* A handler has a job from its append to its broadcast, a connection that was
\* answered is in the channel, which holds at most Cap messages for it, and a
\* STEP_1 carries no operations.
HandlersInOrder ==
  \A c \in Clients :
    /\ stage[c] # "relay" => job[c] = {}
    /\ answered[c] \/ stage[c] \in {"read", "ask"} => subscribed[c]
    /\ Len(queue[c]) <= Cap
    /\ \A f \in Range(s2c[c]) : f.kind = "step1" => f.ops = {}

IInv ==
  /\ TypeOK /\ RelayedIsSaved /\ NothingMissed
  /\ SendersHave /\ AuthorsHave /\ ClocksCount /\ HandlersInOrder

-----------------------------------------------------------------------------
(* Sequences *)

\* What a message at the end of a queue changes.
LEMMA AppendRange ==
  ASSUME NEW S, NEW s \in Seq(S), NEW e \in S
  PROVE  /\ Append(s, e) \in Seq(S)
         /\ Range(Append(s, e)) = Range(s) \cup {e}
         /\ Len(Append(s, e)) = Len(s) + 1
         /\ Append(s, e) # <<>>
  <1> DEFINE t == Append(s, e)
  <1>1. /\ t \in Seq(S) /\ Len(t) = Len(s) + 1 /\ Len(s) \in Nat /\ t # <<>>
        /\ \A i \in 1..Len(s) : t[i] = s[i]
        /\ t[Len(s) + 1] = e
    BY AppendProperties
  <1> HIDE DEF t
  <1>2. DOMAIN t = 1..Len(s) + 1 /\ DOMAIN s = 1..Len(s)
    BY <1>1
  <1>3. DOMAIN t = DOMAIN s \cup {Len(s) + 1}
    BY <1>1, <1>2
  <1>4. Range(t) = Range(s) \cup {e}
    BY <1>1, <1>2, <1>3 DEF Range
  <1> QED
    BY <1>1, <1>4 DEF t

\* What is left of a queue whose first message is taken.
LEMMA TailRange ==
  ASSUME NEW S, NEW s \in Seq(S), s # <<>>
  PROVE  /\ Head(s) \in S /\ Tail(s) \in Seq(S)
         /\ Range(s) = {Head(s)} \cup Range(Tail(s))
         /\ Len(Tail(s)) = Len(s) - 1
  <1> DEFINE t == Tail(s)
  <1>1. /\ t \in Seq(S) /\ Len(t) = Len(s) - 1 /\ Len(s) \in Nat \ {0}
        /\ \A i \in 1..Len(t) : t[i] = s[i + 1]
        /\ Head(s) = s[1] /\ Head(s) \in S
    BY HeadTailProperties
  <1> HIDE DEF t
  <1>2. DOMAIN t = 1..Len(s) - 1 /\ DOMAIN s = 1..Len(s)
    BY <1>1
  <1>3. \A x \in Range(s) : x = Head(s) \/ x \in Range(t)
    <2> TAKE x \in Range(s)
    <2>1. PICK i \in 1..Len(s) : x = s[i]
      BY <1>2 DEF Range
    <2>2. CASE i # 1
      <3>1. i - 1 \in 1..Len(s) - 1 /\ t[i - 1] = s[i]
        BY <1>1, <2>2
      <3> QED
        BY <1>2, <2>1, <3>1 DEF Range
    <2> QED
      BY <1>1, <2>1, <2>2
  <1>4. \A x \in Range(t) : x \in Range(s)
    <2> TAKE x \in Range(t)
    <2>1. PICK i \in 1..Len(s) - 1 : x = t[i]
      BY <1>2 DEF Range
    <2>2. i + 1 \in DOMAIN s /\ s[i + 1] = x
      BY <1>1, <1>2, <2>1
    <2> QED
      BY <2>2 DEF Range
  <1>5. Head(s) \in Range(s)
    BY <1>1, <1>2 DEF Range
  <1> QED
    BY <1>1, <1>3, <1>4, <1>5 DEF t

-----------------------------------------------------------------------------
(* Operations *)

\* Insertions of unions.
LEMMA InsertedUnion ==
  ASSUME NEW S, NEW T, NEW a
  PROVE  /\ InsertedBy(a, S \cup T) = InsertedBy(a, S) \cup InsertedBy(a, T)
         /\ S \subseteq T => InsertedBy(a, S) \subseteq InsertedBy(a, T)
         /\ S \subseteq T => Inserted(S) \subseteq Inserted(T)
  <1>1. Inserted(S \cup T) = Inserted(S) \cup Inserted(T)
    BY DEF Inserted
  <1>2. InsertedBy(a, S \cup T) = InsertedBy(a, S) \cup InsertedBy(a, T)
    BY <1>1 DEF InsertedBy
  <1>3. S \subseteq T => Inserted(S) \subseteq Inserted(T)
    BY DEF Inserted
  <1>4. S \subseteq T => InsertedBy(a, S) \subseteq InsertedBy(a, T)
    BY <1>3 DEF InsertedBy
  <1> QED
    BY <1>2, <1>3, <1>4

\* The operators on replicas give operations and ids.
LEMMA OpTypes ==
  ASSUME NEW S \in SUBSET Op, NEW sv
  PROVE  /\ Inserted(S) \subseteq Id /\ Integrated(S) \subseteq Inserted(S)
         /\ Text(S) \subseteq Id
         /\ Diff(S, sv) \subseteq S
  <1>1. Inserted(S) \subseteq Id
    BY DEF Inserted, Op
  <1> QED
    BY <1>1 DEF Integrated, Text, Diff

\* The frames.
LEMMA FrameTypes ==
  ASSUME NEW S \in SUBSET Op, NEW sv
  PROVE  /\ Step1(S) \in Frame /\ Step2(S, sv) \in Frame /\ Push(S) \in Frame
         /\ Step1(S).kind = "step1" /\ Step1(S).ops = {} /\ Step1(S).sv \subseteq Inserted(S)
         /\ Step2(S, sv).kind # "step1" /\ Step2(S, sv).ops = Diff(S, sv) /\ Step2(S, sv).sv = {}
         /\ Push(S).kind # "step1" /\ Push(S).ops = S /\ Push(S).sv = {}
  BY OpTypes DEF Step1, Step2, Push, Frame

\* What there is in two sequences one after the other.
LEMMA ConcatRange ==
  ASSUME NEW S, NEW s \in Seq(S), NEW t \in Seq(S)
  PROVE  /\ s \o t \in Seq(S)
         /\ Range(s \o t) = Range(s) \cup Range(t)
  <1> DEFINE u == s \o t
  <1>1. /\ u \in Seq(S) /\ Len(u) = Len(s) + Len(t) /\ Len(s) \in Nat /\ Len(t) \in Nat
        /\ \A i \in 1..Len(s) : u[i] = s[i]
        /\ \A i \in 1..Len(t) : u[Len(s) + i] = t[i]
    BY ConcatProperties
  <1> HIDE DEF u
  <1>2. DOMAIN u = 1..Len(s) + Len(t) /\ DOMAIN s = 1..Len(s) /\ DOMAIN t = 1..Len(t)
    BY <1>1
  <1>3. \A x \in Range(s) : x \in Range(u)
    BY <1>1, <1>2 DEF Range
  <1>4. \A x \in Range(t) : x \in Range(u)
    <2> TAKE x \in Range(t)
    <2>1. PICK i \in 1..Len(t) : x = t[i]
      BY <1>2 DEF Range
    <2>2. Len(s) + i \in DOMAIN u /\ u[Len(s) + i] = x
      BY <1>1, <1>2, <2>1
    <2> QED
      BY <2>2 DEF Range
  <1>5. \A x \in Range(u) : x \in Range(s) \/ x \in Range(t)
    <2> TAKE x \in Range(u)
    <2>1. PICK i \in 1..Len(s) + Len(t) : x = u[i]
      BY <1>2 DEF Range
    <2>2. CASE i \in 1..Len(s)
      BY <1>1, <1>2, <2>1, <2>2 DEF Range
    <2>3. CASE i \notin 1..Len(s)
      <3>1. i - Len(s) \in 1..Len(t) /\ Len(s) + (i - Len(s)) = i
        BY <1>1, <2>3
      <3>2. x = t[i - Len(s)]
        BY <1>1, <2>1, <3>1
      <3> QED
        BY <1>2, <3>1, <3>2 DEF Range
    <2> QED
      BY <2>2, <2>3
  <1> QED
    BY <1>1, <1>3, <1>4, <1>5 DEF u

-----------------------------------------------------------------------------
(* Edits *)

\* An edit makes at most one insertion, its author's next one.
LEMMA EditIs ==
  ASSUME TypeOK, ClocksCount, NEW c \in Clients, NEW ops \in {{}} \cup EditsOf(c, content[c]),
         CountEdit(c, ops)
  PROVE  /\ ops \in SUBSET Op
         /\ edits' \in Nat /\ edits <= edits' /\ bareDelete' \in [Clients -> BOOLEAN]
         /\ \A d \in Clients \ {c} : InsertedBy(d, ops) = {}
         /\ IsFiniteSet(InsertedBy(c, content[c] \cup ops))
         /\ Cardinality(InsertedBy(c, content[c] \cup ops)) <= edits'
  <1> DEFINE old == InsertedBy(c, content[c])
             id  == [author |-> c, clock |-> Cardinality(old) + 1]
  <1>1. /\ content[c] \in SUBSET Op /\ edits \in Nat /\ IsFiniteSet(old)
        /\ Cardinality(old) <= edits /\ Cardinality(old) \in Nat
    BY FS_CardinalityType DEF TypeOK, ClocksCount
  <1>2. bareDelete' \in [Clients -> BOOLEAN]
    <2>1. bareDelete \in [Clients -> BOOLEAN]
      BY DEF TypeOK
    <2>2. (Inserted(ops) = {}) \in BOOLEAN
      OBVIOUS
    <2> QED
      BY <2>1, <2>2, Zenon DEF CountEdit
  <1>3. CASE ops = {}
    <2>1. edits' = edits
      BY <1>3 DEF CountEdit
    <2>2. \A a : InsertedBy(a, {}) = {}
      BY DEF InsertedBy, Inserted
    <2>3. content[c] \cup ops = content[c]
      BY <1>3
    <2> QED
      BY <1>1, <1>2, <1>3, <2>1, <2>2, <2>3
  <1>4. CASE ops # {}
    <2>1. edits < MaxEdits /\ edits' = edits + 1
      BY <1>4 DEF CountEdit
    <2>2. PICK new \in {{}, {Ins(id)}}, gone \in {{}} \cup {{Del(i)} : i \in Text(content[c])} :
            ops = new \cup gone
      <3> DEFINE News == {{}, {Ins(id)}}
                 Gones == {{}} \cup {{Del(i)} : i \in Text(content[c])}
      <3>1. EditsOf(c, content[c]) = {new \cup gone : new \in News, gone \in Gones} \ {{}}
        BY DEF EditsOf, InsertedBy
      <3> HIDE DEF News, Gones
      <3>2. ops \in {new \cup gone : new \in News, gone \in Gones}
        BY <1>4, <3>1
      <3>3. \E new \in News, gone \in Gones : ops = new \cup gone
        BY <3>2
      <3> QED
        BY <3>3 DEF News, Gones
    <2>3. id \in Id /\ id.author = c
      BY <1>1, <2>1, ContentRelayAssumption DEF Id
    <2>4. new \in SUBSET Op /\ gone \in SUBSET Op
      BY <1>1, <2>3, OpTypes DEF Op, Ins, Del
    <2> HIDE DEF id
    <2>5. Inserted(new) \subseteq {id} /\ Inserted(gone) = {}
      BY DEF Inserted, Ins, Del
    <2>6. \A a : InsertedBy(a, ops) = InsertedBy(a, new) \cup InsertedBy(a, gone)
      BY <2>2, InsertedUnion
    <2>7. \A d \in Clients \ {c} : InsertedBy(d, ops) = {}
      BY <2>3, <2>5, <2>6 DEF InsertedBy
    <2>8. InsertedBy(c, ops) \subseteq {id}
      BY <2>5, <2>6 DEF InsertedBy
    <2>9. InsertedBy(c, content[c] \cup ops) \in SUBSET (old \cup {id})
      BY <2>8, InsertedUnion
    <2> HIDE DEF old
    <2>10. IsFiniteSet(old \cup {id}) /\ Cardinality(old \cup {id}) <= edits + 1
      <3>1. /\ IsFiniteSet(old \cup {id})
            /\ Cardinality(old \cup {id}) = IF id \in old THEN Cardinality(old) ELSE Cardinality(old) + 1
        BY <1>1, FS_AddElement
      <3> QED
        BY <1>1, <3>1
    <2>11. /\ IsFiniteSet(InsertedBy(c, content[c] \cup ops))
           /\ Cardinality(InsertedBy(c, content[c] \cup ops)) <= Cardinality(old \cup {id})
      BY <2>9, <2>10, FS_Subset
    <2>12. Cardinality(InsertedBy(c, content[c] \cup ops)) \in Nat /\ Cardinality(old \cup {id}) \in Nat
      BY <2>10, <2>11, FS_CardinalityType
    <2>13. Cardinality(InsertedBy(c, content[c] \cup ops)) <= edits'
      BY <1>1, <2>1, <2>10, <2>11, <2>12
    <2>14. ops \in SUBSET Op
      BY <2>2, <2>4
    <2>15. edits' \in Nat /\ edits <= edits'
      BY <1>1, <2>1
    <2> QED
      BY <1>2, <2>7, <2>11, <2>13, <2>14, <2>15
  <1> QED
    BY <1>3, <1>4

\* The frame of an edit has no operation that its sender lacks.
LEMMA EditFrameTypes ==
  ASSUME TypeOK, NEW c \in Clients, NEW ops \in SUBSET Op
  PROVE  /\ EditFrames(c, ops) \in Seq(Frame)
         /\ \A f \in Range(EditFrames(c, ops)) : f.ops \subseteq content[c] \cup ops /\ f.sv = {}
  <1> DEFINE d == Diff(content[c] \cup ops, Integrated(content[c]))
  <1>1. content[c] \cup ops \in SUBSET Op
    BY DEF TypeOK
  <1>2. d \in SUBSET Op /\ d \subseteq content[c] \cup ops
    BY <1>1, OpTypes
  <1> HIDE DEF d
  <1>3. Push(d) \in Frame /\ Push(d).ops = d /\ Push(d).sv = {}
    BY <1>2, FrameTypes
  <1>4. EditFrames(c, ops) = <<>> \/ EditFrames(c, ops) = <<Push(d)>>
    BY DEF EditFrames, d
  <1>5. CASE EditFrames(c, ops) = <<>>
    <2>1. <<>> \in Seq(Frame) /\ Range(<<>>) = {}
      BY DEF Range
    <2> QED
      BY <1>5, <2>1
  <1>6. CASE EditFrames(c, ops) = <<Push(d)>>
    <2>1. <<Push(d)>> \in Seq(Frame) /\ Range(<<Push(d)>>) = {Push(d)}
      BY <1>3 DEF Range
    <2> QED
      BY <1>2, <1>3, <1>6, <2>1
  <1> QED
    BY <1>4, <1>5, <1>6

\* A client's replica grows by its own edit and by saved operations.
LEMMA ContentGrows ==
  ASSUME IInv, NEW c \in Clients, NEW ops \in {{}} \cup EditsOf(c, content[c]),
         CountEdit(c, ops), NEW more \in SUBSET rows, content' = Changed(c, ops \cup more),
         rows' = rows
  PROVE  /\ content' \in [Clients -> SUBSET Op]
         /\ \A d \in Clients : content[d] \subseteq content'[d]
         /\ ops \subseteq content'[c] /\ more \subseteq content'[c]
         /\ AuthorsHave' /\ ClocksCount'
  <1>0. TypeOK /\ AuthorsHave /\ ClocksCount /\ rows \in SUBSET Op
        /\ content \in [Clients -> SUBSET Op]
    BY DEF IInv, TypeOK
  <1>1. /\ ops \in SUBSET Op
        /\ edits' \in Nat /\ edits <= edits' /\ edits \in Nat
        /\ \A d \in Clients \ {c} : InsertedBy(d, ops) = {}
        /\ IsFiniteSet(InsertedBy(c, content[c] \cup ops))
        /\ Cardinality(InsertedBy(c, content[c] \cup ops)) <= edits'
    BY <1>0, EditIs DEF TypeOK
  <1>2. /\ content' \in [Clients -> SUBSET Op]
        /\ content'[c] = (content[c] \cup ops) \cup more
        /\ \A d \in Clients \ {c} : content'[d] = content[d]
    BY <1>0, <1>1 DEF Changed
  <1>3. \A a : /\ InsertedBy(a, content'[c]) = InsertedBy(a, content[c] \cup ops) \cup InsertedBy(a, more)
               /\ InsertedBy(a, content[c] \cup ops) = InsertedBy(a, content[c]) \cup InsertedBy(a, ops)
               /\ InsertedBy(a, more) \subseteq InsertedBy(a, rows)
    BY <1>2, InsertedUnion
  <1>4. \A a \in Clients : InsertedBy(a, more) \subseteq InsertedBy(a, content[a])
    BY <1>0, <1>3 DEF AuthorsHave
  <1>5. InsertedBy(c, content'[c]) = InsertedBy(c, content[c] \cup ops)
    BY <1>3, <1>4
  <1>6. \A a \in Clients : InsertedBy(a, content[a]) \subseteq InsertedBy(a, content'[a])
    BY <1>2, <1>3
  <1>7. AuthorsHave'
    <2>1. ASSUME NEW a \in Clients
          PROVE  InsertedBy(a, rows) \subseteq InsertedBy(a, content'[a])
      BY <1>0, <1>6 DEF AuthorsHave
    <2>2. ASSUME NEW a \in Clients, NEW d \in Clients
          PROVE  InsertedBy(a, content'[d]) \subseteq InsertedBy(a, content'[a])
      <3>1. CASE d # c
        BY <1>0, <1>2, <1>6, <3>1 DEF AuthorsHave
      <3>2. CASE d = c /\ a # c
        BY <1>0, <1>1, <1>3, <1>4, <1>6, <3>2 DEF AuthorsHave
      <3> QED
        BY <3>1, <3>2
    <2> QED
      BY <2>1, <2>2 DEF AuthorsHave
  <1>8. ClocksCount'
    <2>1. ASSUME NEW a \in Clients \ {c}
          PROVE  /\ IsFiniteSet(InsertedBy(a, content'[a]))
                 /\ Cardinality(InsertedBy(a, content'[a])) <= edits'
      <3>1. IsFiniteSet(InsertedBy(a, content[a])) /\ Cardinality(InsertedBy(a, content[a])) <= edits
        BY <1>0 DEF ClocksCount
      <3>2. Cardinality(InsertedBy(a, content[a])) \in Nat
        BY <3>1, FS_CardinalityType
      <3>3. InsertedBy(a, content'[a]) = InsertedBy(a, content[a])
        BY <1>2
      <3>4. Cardinality(InsertedBy(a, content[a])) <= edits'
        BY <1>1, <3>1, <3>2
      <3> QED
        BY <3>1, <3>3, <3>4
    <2> QED
      BY <1>1, <1>5, <2>1 DEF ClocksCount
  <1> QED
    BY <1>2, <1>7, <1>8

-----------------------------------------------------------------------------
(* What the invariant says, as the steps use it *)

\* Operation o is in client c or on the way to it.
Reaching(c, o) ==
  \/ o \in content[c]
  \/ \E f \in Range(s2c[c]) : o \in f.ops
  \/ \E m \in Range(queue[c]) : o \in m.ops
  \/ \E d \in Clients : o \in job[d]
  \/ \E S \in orphans : o \in S

\* Client c is connected, and nothing failed.
Current(c) == answered[c] /\ ~missed[c] /\ ~catching[c] /\ ~dbFailed

\* NothingMissed, operation by operation.
LEMMA MissedIs ==
  /\ NothingMissed <=> \A c \in Clients : Current(c) => \A o \in rows : Reaching(c, o)
  /\ NothingMissed' <=> \A c \in Clients : Current(c)' => \A o \in rows' : Reaching(c, o)'
  <1>1. \A c \in Clients : \A o : o \in content[c] \cup OnTheWay(c) <=> Reaching(c, o)
    BY DEF OnTheWay, Reaching
  <1>2. \A c \in Clients : \A o : o \in (content[c] \cup OnTheWay(c))' <=> Reaching(c, o)'
    BY DEF OnTheWay, Reaching
  <1>3. NothingMissed <=> \A c \in Clients : Current(c) => \A o \in rows : Reaching(c, o)
    BY <1>1 DEF NothingMissed, Current
  <1>4. NothingMissed' <=> \A c \in Clients : Current(c)' => \A o \in rows' : Reaching(c, o)'
    BY <1>2 DEF NothingMissed, Current
  <1> QED
    BY <1>3, <1>4

\* A step that saves nothing, and takes nothing out of a client's reach, keeps
\* NothingMissed.
LEMMA ReachKept ==
  ASSUME NothingMissed, rows' = rows,
         \A c \in Clients : Current(c)' =>
           Current(c) /\ \A o \in rows : Reaching(c, o) => Reaching(c, o)'
  PROVE  NothingMissed'
  BY MissedIs

\* What is under way from a client stays within a replica that grows.
LEMMA StillHave ==
  ASSUME SendersHave, NEW d \in Clients, content[d] \subseteq content'[d]
  PROVE  /\ \A f \in Range(c2s[d]) : f.ops \subseteq content'[d] /\ f.sv \subseteq Inserted(content'[d])
         /\ job[d] \subseteq content'[d]
         /\ \A m \in Range(queue[d]) : m.own => m.ops \subseteq content'[d]
  <1>1. Inserted(content[d]) \subseteq Inserted(content'[d])
    BY InsertedUnion
  <1> QED
    BY <1>1 DEF SendersHave

\* A step of client c's: an edit of its own, what a frame from the server
\* brought, and frames to the server.
LEMMA ClientStep ==
  ASSUME IInv, NEW c \in Clients, NEW ops \in {{}} \cup EditsOf(c, content[c]),
         CountEdit(c, ops), NEW more \in SUBSET rows, content' = Changed(c, ops \cup more),
         linked' \in [Clients -> BOOLEAN],
         c2s' \in [Clients -> Seq(Frame)], s2c' \in [Clients -> Seq(Frame)],
         \A d \in Clients \ {c} : c2s'[d] = c2s[d] /\ s2c'[d] = s2c[d],
         \A f \in Range(c2s'[c]) :
           f \in Range(c2s[c]) \/ (f.ops \subseteq content'[c] /\ f.sv \subseteq Inserted(content'[c])),
         Range(s2c'[c]) \subseteq Range(s2c[c]),
         \A f \in Range(s2c[c]) : f \in Range(s2c'[c]) \/ f.ops \subseteq content'[c],
         UNCHANGED <<taskVars, handlerVars, orphans, rows, faults, dbFailed>>
  PROVE  IInv'
  <1> USE DEF taskVars, handlerVars
  <1>0. TypeOK /\ RelayedIsSaved /\ NothingMissed /\ SendersHave /\ AuthorsHave /\ ClocksCount
        /\ HandlersInOrder
    BY DEF IInv
  <1>1. /\ content' \in [Clients -> SUBSET Op]
        /\ \A d \in Clients : content[d] \subseteq content'[d]
        /\ AuthorsHave' /\ ClocksCount'
    BY ContentGrows
  <1>2. edits' \in Nat /\ bareDelete' \in [Clients -> BOOLEAN]
    BY <1>0, EditIs
  <1>3. TypeOK'
    BY <1>0, <1>1, <1>2 DEF TypeOK
  <1>4. \A d \in Clients : Range(s2c'[d]) \subseteq Range(s2c[d])
    OBVIOUS
  <1>5. RelayedIsSaved'
    BY <1>0, <1>4 DEF RelayedIsSaved
  <1>6. HandlersInOrder'
    BY <1>0, <1>4 DEF HandlersInOrder
  <1>7. SendersHave'
    <2> SUFFICES ASSUME NEW d \in Clients
                 PROVE  /\ \A f \in Range(c2s'[d]) :
                             f.ops \subseteq content'[d] /\ f.sv \subseteq Inserted(content'[d])
                        /\ job'[d] \subseteq content'[d]
                        /\ \A m \in Range(queue'[d]) : m.own => m.ops \subseteq content'[d]
      BY DEF SendersHave
    <2>1. /\ \A f \in Range(c2s[d]) : f.ops \subseteq content'[d] /\ f.sv \subseteq Inserted(content'[d])
          /\ job[d] \subseteq content'[d]
          /\ \A m \in Range(queue[d]) : m.own => m.ops \subseteq content'[d]
      BY <1>0, <1>1, StillHave
    <2>2. \A f \in Range(c2s'[d]) : f \in Range(c2s[d]) \/
            (f.ops \subseteq content'[d] /\ f.sv \subseteq Inserted(content'[d]))
      <3>1. CASE d = c
        BY <3>1
      <3>2. CASE d # c
        <4>1. c2s'[d] = c2s[d]
          BY <3>2
        <4> QED
          BY <4>1
      <3> QED
        BY <3>1, <3>2
    <2> QED
      BY <2>1, <2>2
  <1>8. NothingMissed'
    <2>1. ASSUME NEW d \in Clients, NEW o \in rows, Reaching(d, o)
          PROVE  Reaching(d, o)'
      <3>1. \A f \in Range(s2c[d]) : f \in Range(s2c'[d]) \/ f.ops \subseteq content'[d]
        <4>1. CASE d = c
          BY <4>1
        <4>2. CASE d # c
          <5>1. s2c'[d] = s2c[d]
            BY <4>2
          <5> QED
            BY <5>1
        <4> QED
          BY <4>1, <4>2
      <3> QED
        BY <1>1, <2>1, <3>1 DEF Reaching
    <2>2. \A d \in Clients : Current(d)' => Current(d)
      BY DEF Current
    <2> QED
      BY <1>0, <2>1, <2>2, ReachKept
  <1> QED
    BY <1>1, <1>3, <1>5, <1>6, <1>7, <1>8 DEF IInv

\* A client joins a session.
LEMMA JoinStep ==
  ASSUME IInv, NEW c \in Clients, Join(c)
  PROVE  IInv'
  <1>0. TypeOK /\ ClocksCount /\ c2s \in [Clients -> Seq(Frame)] /\ s2c \in [Clients -> Seq(Frame)]
    BY DEF IInv, TypeOK
  <1>1. PICK ops \in {{}} \cup EditsOf(c, content[c]) :
          /\ CountEdit(c, ops) /\ content' = Changed(c, ops)
          /\ c2s' = [c2s EXCEPT ![c] = EditFrames(c, ops) \o <<Step1(content'[c])>>]
    BY DEF Join
  <1> DEFINE S == content'[c]
  <1>2. ops \in SUBSET Op
    BY <1>0, <1>1, EditIs
  <1>3. S = content[c] \cup ops /\ S \in SUBSET Op
    BY <1>0, <1>1, <1>2 DEF Changed, TypeOK
  <1> HIDE DEF S
  <1>4. Step1(S) \in Frame /\ Step1(S).ops = {} /\ Step1(S).sv \subseteq Inserted(S)
    BY <1>3, FrameTypes
  <1>5. <<Step1(S)>> \in Seq(Frame) /\ Range(<<Step1(S)>>) = {Step1(S)}
    BY <1>4 DEF Range
  <1>6. /\ EditFrames(c, ops) \in Seq(Frame)
        /\ \A f \in Range(EditFrames(c, ops)) : f.ops \subseteq S /\ f.sv = {}
    BY <1>0, <1>2, <1>3, EditFrameTypes
  <1> DEFINE frames == EditFrames(c, ops) \o <<Step1(S)>>
  <1>7. frames \in Seq(Frame) /\ Range(frames) = Range(EditFrames(c, ops)) \cup {Step1(S)}
    <2> DEFINE edit == EditFrames(c, ops)
               ask  == <<Step1(S)>>
    <2>1. edit \in Seq(Frame) /\ ask \in Seq(Frame) /\ Range(ask) = {Step1(S)}
      BY <1>5, <1>6
    <2> HIDE DEF edit, ask
    <2>2. edit \o ask \in Seq(Frame) /\ Range(edit \o ask) = Range(edit) \cup {Step1(S)}
      BY <2>1, ConcatRange
    <2> QED
      BY <2>2 DEF edit, ask
  <1>8. \A f \in Range(frames) : f.ops \subseteq S /\ f.sv \subseteq Inserted(S)
    BY <1>4, <1>6, <1>7
  <1>9. c2s' = [c2s EXCEPT ![c] = frames]
    BY <1>1 DEF S
  <1> HIDE DEF frames
  <1>10. c2s' \in [Clients -> Seq(Frame)] /\ c2s'[c] = frames
         /\ \A d \in Clients \ {c} : c2s'[d] = c2s[d]
    BY <1>0, <1>7, <1>9
  <1>11. linked' \in [Clients -> BOOLEAN]
    BY <1>0 DEF Join, TypeOK
  <1>12. content' = Changed(c, ops \cup {}) /\ {} \in SUBSET rows
    BY <1>1
  <1>13. UNCHANGED <<s2c, taskVars, handlerVars, orphans, rows, faults, dbFailed>>
    BY DEF Join
  <1> QED
    BY <1>0, <1>1, <1>8, <1>10, <1>11, <1>12, <1>13, ClientStep DEF S

\* A scan finds the file changed.
LEMMA EditStep ==
  ASSUME IInv, NEW c \in Clients, Edit(c)
  PROVE  IInv'
  <1>0. TypeOK /\ ClocksCount /\ c2s \in [Clients -> Seq(Frame)] /\ s2c \in [Clients -> Seq(Frame)]
        /\ linked \in [Clients -> BOOLEAN]
    BY DEF IInv, TypeOK
  <1>1. PICK ops \in EditsOf(c, content[c]) :
          /\ CountEdit(c, ops) /\ content' = Changed(c, ops)
          /\ c2s' = [c2s EXCEPT ![c] = @ \o EditFrames(c, ops)]
    BY DEF Edit
  <1>2. ops \in SUBSET Op
    BY <1>0, <1>1, EditIs
  <1>3. content'[c] = content[c] \cup ops
    BY <1>0, <1>1, <1>2 DEF Changed, TypeOK
  <1>4. /\ EditFrames(c, ops) \in Seq(Frame)
        /\ \A f \in Range(EditFrames(c, ops)) : f.ops \subseteq content'[c] /\ f.sv = {}
    BY <1>0, <1>2, <1>3, EditFrameTypes
  <1>5. /\ c2s[c] \o EditFrames(c, ops) \in Seq(Frame)
        /\ Range(c2s[c] \o EditFrames(c, ops)) = Range(c2s[c]) \cup Range(EditFrames(c, ops))
    BY <1>0, <1>4, ConcatRange
  <1>6. /\ c2s' \in [Clients -> Seq(Frame)] /\ c2s'[c] = c2s[c] \o EditFrames(c, ops)
        /\ \A d \in Clients \ {c} : c2s'[d] = c2s[d]
    BY <1>0, <1>1, <1>5
  <1>7. content' = Changed(c, ops \cup {}) /\ {} \in SUBSET rows
    BY <1>1
  <1>8. UNCHANGED <<linked, s2c, taskVars, handlerVars, orphans, rows, faults, dbFailed>>
    BY DEF Edit
  <1> QED
    BY <1>0, <1>1, <1>4, <1>5, <1>6, <1>7, <1>8, ClientStep

\* A client answers a STEP_1.
LEMMA AnswerStep ==
  ASSUME IInv, NEW c \in Clients, Answer(c)
  PROVE  IInv'
  <1>0. /\ c2s \in [Clients -> Seq(Frame)] /\ s2c \in [Clients -> Seq(Frame)]
        /\ linked \in [Clients -> BOOLEAN] /\ content \in [Clients -> SUBSET Op]
        /\ HandlersInOrder
    BY DEF IInv, TypeOK
  <1> DEFINE f == Step2(content[c], Head(s2c[c]).sv)
  <1>1. f \in Frame /\ f.ops \subseteq content[c] /\ f.sv = {}
    <2>1. content[c] \in SUBSET Op
      BY <1>0
    <2>2. Diff(content[c], Head(s2c[c]).sv) \subseteq content[c]
      BY <2>1, OpTypes
    <2>3. f \in Frame /\ f.ops = Diff(content[c], Head(s2c[c]).sv) /\ f.sv = {}
      BY <2>1, FrameTypes
    <2> QED
      BY <2>2, <2>3
  <1>2. c2s' = [c2s EXCEPT ![c] = Append(@, f)] /\ s2c[c] # <<>>
        /\ s2c' = [s2c EXCEPT ![c] = Tail(@)] /\ Head(s2c[c]).kind = "step1"
    BY DEF Answer
  <1> HIDE DEF f
  <1>3. Append(c2s[c], f) \in Seq(Frame) /\ Range(Append(c2s[c], f)) = Range(c2s[c]) \cup {f}
    BY <1>0, <1>1, AppendRange
  <1>4. Tail(s2c[c]) \in Seq(Frame) /\ Range(s2c[c]) = {Head(s2c[c])} \cup Range(Tail(s2c[c]))
    BY <1>0, <1>2, TailRange
  <1>5. Head(s2c[c]).ops = {}
    BY <1>0, <1>2, <1>4 DEF HandlersInOrder
  <1>6. /\ c2s' \in [Clients -> Seq(Frame)] /\ c2s'[c] = Append(c2s[c], f)
        /\ s2c' \in [Clients -> Seq(Frame)] /\ s2c'[c] = Tail(s2c[c])
        /\ \A d \in Clients \ {c} : c2s'[d] = c2s[d] /\ s2c'[d] = s2c[d]
    BY <1>0, <1>2, <1>3, <1>4
  <1>7. /\ UNCHANGED <<content, linked, taskVars, handlerVars, orphans, rows, countVars>>
    BY DEF Answer
  <1>8. CountEdit(c, {})
    <2>1. edits' = edits /\ bareDelete' = bareDelete /\ bareDelete \in [Clients -> BOOLEAN]
      BY <1>7 DEF countVars, IInv, TypeOK
    <2>2. bareDelete' = [bareDelete EXCEPT ![c] = bareDelete[c]]
      BY <2>1
    <2> QED
      BY <2>1, <2>2 DEF CountEdit
  <1>9. content' = Changed(c, {} \cup {}) /\ {} \in SUBSET rows
    BY <1>0, <1>7 DEF Changed
  <1>10. UNCHANGED <<taskVars, handlerVars, orphans, rows, faults, dbFailed>>
    BY <1>7 DEF countVars
  <1>11. \A g \in Range(c2s'[c]) :
           g \in Range(c2s[c]) \/ (g.ops \subseteq content'[c] /\ g.sv \subseteq Inserted(content'[c]))
    BY <1>1, <1>3, <1>6, <1>7
  <1>12. /\ Range(s2c'[c]) \subseteq Range(s2c[c])
         /\ \A g \in Range(s2c[c]) : g \in Range(s2c'[c]) \/ g.ops \subseteq content'[c]
    BY <1>4, <1>5, <1>6
  <1>13. linked' \in [Clients -> BOOLEAN]
    BY <1>0, <1>7
  <1> QED
    BY <1>6, <1>8, <1>9, <1>10, <1>11, <1>12, <1>13, ClientStep

\* A client folds in what it finds changed and applies a frame.
LEMMA ApplyStep ==
  ASSUME IInv, NEW c \in Clients, Apply(c)
  PROVE  IInv'
  <1>0. /\ c2s \in [Clients -> Seq(Frame)] /\ s2c \in [Clients -> Seq(Frame)]
        /\ linked \in [Clients -> BOOLEAN] /\ content \in [Clients -> SUBSET Op]
        /\ TypeOK /\ ClocksCount /\ RelayedIsSaved
    BY DEF IInv, TypeOK
  <1>1. s2c[c] # <<>> /\ s2c' = [s2c EXCEPT ![c] = Tail(@)]
    BY DEF Apply
  <1>2. PICK ops \in {{}} \cup EditsOf(c, content[c]) :
          /\ CountEdit(c, ops) /\ content' = Changed(c, ops \cup Head(s2c[c]).ops)
          /\ c2s' = [c2s EXCEPT ![c] = @ \o EditFrames(c, ops)]
    BY DEF Apply
  <1>3. Tail(s2c[c]) \in Seq(Frame) /\ Range(s2c[c]) = {Head(s2c[c])} \cup Range(Tail(s2c[c]))
    BY <1>0, <1>1, TailRange
  <1>4. Head(s2c[c]).ops \in SUBSET rows
    BY <1>0, <1>3 DEF RelayedIsSaved
  <1>5. ops \in SUBSET Op
    BY <1>0, <1>2, EditIs
  <1>6. content'[c] = content[c] \cup (ops \cup Head(s2c[c]).ops)
    BY <1>0, <1>2 DEF Changed
  <1>7. /\ EditFrames(c, ops) \in Seq(Frame)
        /\ \A f \in Range(EditFrames(c, ops)) : f.ops \subseteq content'[c] /\ f.sv = {}
    <2>1. /\ EditFrames(c, ops) \in Seq(Frame)
          /\ \A f \in Range(EditFrames(c, ops)) : f.ops \subseteq content[c] \cup ops /\ f.sv = {}
      BY <1>0, <1>5, EditFrameTypes
    <2> QED
      BY <1>6, <2>1
  <1>8. /\ c2s[c] \o EditFrames(c, ops) \in Seq(Frame)
        /\ Range(c2s[c] \o EditFrames(c, ops)) = Range(c2s[c]) \cup Range(EditFrames(c, ops))
    BY <1>0, <1>7, ConcatRange
  <1>9. /\ c2s' \in [Clients -> Seq(Frame)] /\ c2s'[c] = c2s[c] \o EditFrames(c, ops)
        /\ s2c' \in [Clients -> Seq(Frame)] /\ s2c'[c] = Tail(s2c[c])
        /\ \A d \in Clients \ {c} : c2s'[d] = c2s[d] /\ s2c'[d] = s2c[d]
    BY <1>0, <1>1, <1>2, <1>3, <1>8
  <1>10. UNCHANGED <<linked, taskVars, handlerVars, orphans, rows, faults, dbFailed>>
    BY DEF Apply
  <1>11. \A g \in Range(c2s'[c]) :
           g \in Range(c2s[c]) \/ (g.ops \subseteq content'[c] /\ g.sv \subseteq Inserted(content'[c]))
    BY <1>7, <1>8, <1>9
  <1>12. /\ Range(s2c'[c]) \subseteq Range(s2c[c])
         /\ \A g \in Range(s2c[c]) : g \in Range(s2c'[c]) \/ g.ops \subseteq content'[c]
    BY <1>3, <1>6, <1>9
  <1>13. linked' \in [Clients -> BOOLEAN]
    BY <1>0, <1>10
  <1> QED
    BY <1>2, <1>4, <1>9, <1>10, <1>11, <1>12, <1>13, ClientStep

-----------------------------------------------------------------------------
(* The server's steps *)

\* The types of the sequences.
LEMMA QueueTypes ==
  ASSUME IInv
  PROVE  /\ c2s \in [Clients -> Seq(Frame)] /\ s2c \in [Clients -> Seq(Frame)]
         /\ queue \in [Clients -> Seq([own : BOOLEAN, ops : SUBSET Op])]
         /\ rows \in SUBSET Op /\ content \in [Clients -> SUBSET Op]
         /\ job \in [Clients -> SUBSET Op] /\ orphans \in SUBSET SUBSET Op
  BY DEF IInv, TypeOK

\* A database call.
LEMMA DbTypes ==
  ASSUME TypeOK, NEW ok \in BOOLEAN, DbOutcome(ok)
  PROVE  /\ dbFailed' \in BOOLEAN /\ faults' \in Nat
         /\ ~dbFailed' => ok /\ ~dbFailed
  <1>1. ASSUME ok PROVE faults' \in Nat
    BY <1>1 DEF DbOutcome, TypeOK
  <1>2. ASSUME ~ok PROVE faults' \in Nat
    BY <1>2 DEF DbOutcome, TypeOK
  <1>3. dbFailed' \in BOOLEAN /\ (~dbFailed' => ok /\ ~dbFailed)
    BY DEF DbOutcome
  <1> QED
    BY <1>1, <1>2, <1>3

\* The next frame of a connection is taken.
LEMMA ConsumeIs ==
  ASSUME IInv, NEW c \in Clients, c2s[c] # <<>>, Consume(c)
  PROVE  /\ c2s' \in [Clients -> Seq(Frame)]
         /\ \A d \in Clients : Range(c2s'[d]) \subseteq Range(c2s[d])
         /\ Head(c2s[c]) \in Range(c2s[c]) /\ Head(c2s[c]) \in Frame
  <1>1. c2s \in [Clients -> Seq(Frame)]
    BY QueueTypes
  <1>2. /\ Tail(c2s[c]) \in Seq(Frame) /\ Head(c2s[c]) \in Frame
        /\ Range(c2s[c]) = {Head(c2s[c])} \cup Range(Tail(c2s[c]))
    BY <1>1, TailRange
  <1>3. c2s' = [c2s EXCEPT ![c] = Tail(c2s[c])]
    BY DEF Consume
  <1>4. \A d \in Clients : c2s'[d] = IF d = c THEN Tail(c2s[c]) ELSE c2s[d]
    BY <1>1, <1>3
  <1>5. \A d \in Clients : Range(c2s'[d]) \subseteq Range(c2s[d])
    <2> TAKE d \in Clients
    <2>1. CASE d = c
      <3>1. c2s'[d] = Tail(c2s[c]) /\ c2s[d] = c2s[c]
        BY <1>4, <2>1
      <3> QED
        BY <1>2, <3>1
    <2>2. CASE d # c
      <3>1. c2s'[d] = c2s[d]
        BY <1>4, <2>2
      <3> QED
        BY <3>1
    <2> QED
      BY <2>1, <2>2
  <1> QED
    BY <1>1, <1>2, <1>3, <1>5

\* A frame that the server sends.
LEMMA SendIs ==
  ASSUME IInv, NEW c \in Clients, NEW f \in Frame, s2c' = [s2c EXCEPT ![c] = Append(@, f)]
  PROVE  /\ s2c' \in [Clients -> Seq(Frame)]
         /\ Range(s2c'[c]) = Range(s2c[c]) \cup {f}
         /\ \A d \in Clients \ {c} : s2c'[d] = s2c[d]
  <1>1. s2c \in [Clients -> Seq(Frame)]
    BY QueueTypes
  <1>2. Append(s2c[c], f) \in Seq(Frame) /\ Range(Append(s2c[c], f)) = Range(s2c[c]) \cup {f}
    BY <1>1, AppendRange
  <1>3. s2c'[c] = Append(s2c[c], f)
    BY <1>1
  <1> QED
    BY <1>1, <1>2, <1>3

\* A step that changes nothing at the clients and nothing on the way to the
\* rest of the system.
LEMMA Untouched ==
  ASSUME IInv, UNCHANGED <<content, rows, edits>>
  PROVE  AuthorsHave' /\ ClocksCount'
  <1>1. AuthorsHave'
    BY DEF IInv, AuthorsHave
  <1>2. ClocksCount'
    BY DEF IInv, ClocksCount
  <1> QED
    BY <1>1, <1>2

\* What a connection has to do is less than before.
LEMMA SendersStay ==
  ASSUME IInv, UNCHANGED <<content, job, queue>>,
         \A d \in Clients : Range(c2s'[d]) \subseteq Range(c2s[d])
  PROVE  SendersHave'
  BY DEF IInv, SendersHave

\* The handler of a STEP_1 joins the channel.
LEMMA JoinChannelStep ==
  ASSUME IInv, NEW c \in Clients, JoinChannel(c)
  PROVE  IInv'
  <1> USE DEF JoinChannel, Handling, clientVars, taskVars, handlerVars, countVars
  <1>0. TypeOK /\ RelayedIsSaved /\ NothingMissed /\ HandlersInOrder
    BY DEF IInv
  <1>1. TypeOK'
    <2>1. stage' \in [Clients -> {"idle", "read", "ask", "relay"}]
      BY <1>0 DEF TypeOK
    <2>2. subscribed' \in [Clients -> BOOLEAN]
      BY <1>0 DEF TypeOK
    <2> QED
      BY <1>0, <2>1, <2>2 DEF TypeOK
  <1>2. RelayedIsSaved'
    BY <1>0 DEF RelayedIsSaved
  <1>3. HandlersInOrder'
    BY <1>0 DEF HandlersInOrder, TypeOK
  <1>4. SendersHave' /\ AuthorsHave' /\ ClocksCount'
    BY SendersStay, Untouched
  <1>5. NothingMissed'
    BY <1>0, ReachKept DEF Current, Reaching
  <1> QED
    BY <1>1, <1>2, <1>3, <1>4, <1>5 DEF IInv

\* It reads the rows and answers.
LEMMA SendStep2Step ==
  ASSUME IInv, NEW c \in Clients, SendStep2(c)
  PROVE  IInv'
  <1> USE DEF clientVars, taskVars, handlerVars, countVars
  <1>0. TypeOK /\ RelayedIsSaved /\ NothingMissed /\ HandlersInOrder /\ SendersHave /\ rows \in SUBSET Op
    BY DEF IInv, TypeOK
  <1> DEFINE sv == Head(c2s[c]).sv
             f  == Step2(rows, sv)
  <1>1. /\ c2s[c] # <<>> /\ stage[c] = "read"
        /\ stage' = [stage EXCEPT ![c] = "ask"]
        /\ UNCHANGED <<content, linked, c2s, subscribed, queue, missed, catching, job, orphans, rows,
                       edits, bareDelete>>
    BY DEF SendStep2, Handling
  <1>2. \/ /\ s2c' = [s2c EXCEPT ![c] = Append(@, f)]
           /\ answered' = [answered EXCEPT ![c] = TRUE]
           /\ DbOutcome(TRUE)
        \/ DbOutcome(FALSE) /\ UNCHANGED <<s2c, answered>>
    BY DEF SendStep2
  <1>3. f \in Frame /\ f.kind # "step1" /\ f.ops = Diff(rows, sv) /\ f.ops \subseteq rows
    BY <1>0, FrameTypes, OpTypes
  <1>4. \A o \in rows : o \in f.ops \/ o \in content[c]
    <2>1. sv \subseteq Inserted(content[c])
      <3>1. Head(c2s[c]) \in Range(c2s[c])
        BY <1>1, QueueTypes, TailRange
      <3> QED
        BY <1>0, <3>1 DEF SendersHave
    <2>2. ASSUME NEW o \in rows, o \notin f.ops PROVE o \in content[c]
      <3>1. o.op = "ins" /\ o.id \in sv /\ o = [op |-> o.op, id |-> o.id]
        BY <1>0, <1>3, <2>2 DEF Diff, Op
      <3>2. PICK p \in content[c] : p.op = "ins" /\ p.id = o.id
        BY <2>1, <3>1 DEF Inserted
      <3>3. p = [op |-> p.op, id |-> p.id]
        BY <1>0 DEF TypeOK, Op
      <3> QED
        BY <3>1, <3>2, <3>3
    <2> QED
      BY <2>2
  <1> HIDE DEF f, sv
  <1>5. dbFailed' \in BOOLEAN /\ faults' \in Nat
    BY <1>0, <1>2, DbTypes
  <1>6. /\ s2c' \in [Clients -> Seq(Frame)]
        /\ \A d \in Clients : Range(s2c[d]) \subseteq Range(s2c'[d])
        /\ \A d \in Clients : Range(s2c'[d]) \subseteq Range(s2c[d]) \cup {f}
    <2>1. CASE s2c' = [s2c EXCEPT ![c] = Append(@, f)]
      <3>1. /\ s2c' \in [Clients -> Seq(Frame)]
            /\ Range(s2c'[c]) = Range(s2c[c]) \cup {f}
            /\ \A d \in Clients \ {c} : s2c'[d] = s2c[d]
        BY <1>3, <2>1, SendIs
      <3>2. \A d \in Clients : d = c \/ Range(s2c'[d]) = Range(s2c[d])
        BY <3>1
      <3> QED
        BY <3>1, <3>2
    <2>2. CASE s2c' = s2c
      BY <2>2, QueueTypes
    <2> QED
      BY <1>2, <2>1, <2>2
  <1>7. TypeOK'
    <2>1. stage' \in [Clients -> {"idle", "read", "ask", "relay"}]
      BY <1>0, <1>1 DEF TypeOK
    <2>2. answered' \in [Clients -> BOOLEAN]
      BY <1>0, <1>2 DEF TypeOK
    <2> QED
      BY <1>0, <1>1, <1>5, <1>6, <2>1, <2>2 DEF TypeOK
  <1>8. RelayedIsSaved'
    BY <1>0, <1>1, <1>3, <1>6 DEF RelayedIsSaved
  <1>9. HandlersInOrder'
    <2>1. \A d \in Clients : stage'[d] = stage[d] \/ (d = c /\ stage'[d] = "ask")
      BY <1>0, <1>1 DEF TypeOK
    <2>2. \A d \in Clients : answered'[d] => answered[d] \/ d = c
      BY <1>0, <1>2 DEF TypeOK
    <2> QED
      BY <1>0, <1>1, <1>3, <1>6, <2>1, <2>2 DEF HandlersInOrder
  <1>10. SendersHave' /\ AuthorsHave' /\ ClocksCount'
    BY <1>1, SendersStay, Untouched
  <1>11. NothingMissed'
    <2> SUFFICES ASSUME NEW d \in Clients, Current(d)', NEW o \in rows
                 PROVE  Reaching(d, o)'
      BY <1>1, MissedIs
    <2>1. CASE Current(d)
      <3>1. Reaching(d, o)
        BY <1>0, <2>1, MissedIs
      <3> QED
        BY <1>1, <1>6, <3>1 DEF Reaching
    <2>2. CASE ~Current(d)
      <3>1. /\ d = c /\ s2c' = [s2c EXCEPT ![c] = Append(@, f)]
        BY <1>0, <1>1, <1>2, <2>2, DbTypes DEF Current, TypeOK
      <3>2. Range(s2c'[c]) = Range(s2c[c]) \cup {f}
        BY <1>3, <3>1, SendIs
      <3> QED
        BY <1>1, <1>4, <3>1, <3>2 DEF Reaching
    <2> QED
      BY <2>1, <2>2
  <1> QED
    BY <1>7, <1>8, <1>9, <1>10, <1>11 DEF IInv

\* It reads the rows again and asks for what they lack.
LEMMA AskBackStep ==
  ASSUME IInv, NEW c \in Clients, AskBack(c)
  PROVE  IInv'
  <1> USE DEF clientVars, taskVars, handlerVars, countVars
  <1>0. TypeOK /\ RelayedIsSaved /\ NothingMissed /\ HandlersInOrder /\ rows \in SUBSET Op
    BY DEF IInv, TypeOK
  <1> DEFINE f == Step1(rows)
  <1>1. /\ c2s[c] # <<>> /\ stage[c] = "ask" /\ Consume(c)
        /\ stage' = [stage EXCEPT ![c] = "idle"]
        /\ UNCHANGED <<content, linked, taskVars, job, answered, orphans, rows, edits, bareDelete>>
    BY DEF AskBack, Handling
  <1>2. \/ s2c' = [s2c EXCEPT ![c] = Append(@, f)] /\ DbOutcome(TRUE)
        \/ DbOutcome(FALSE) /\ UNCHANGED s2c
    BY DEF AskBack
  <1>3. f \in Frame /\ f.ops = {}
    BY <1>0, FrameTypes
  <1> HIDE DEF f
  <1>4. dbFailed' \in BOOLEAN /\ faults' \in Nat /\ (~dbFailed' => ~dbFailed)
    BY <1>0, <1>2, DbTypes
  <1>5. /\ c2s' \in [Clients -> Seq(Frame)]
        /\ \A d \in Clients : Range(c2s'[d]) \subseteq Range(c2s[d])
    BY <1>1, ConsumeIs
  <1>6. /\ s2c' \in [Clients -> Seq(Frame)]
        /\ \A d \in Clients : Range(s2c[d]) \subseteq Range(s2c'[d])
        /\ \A d \in Clients : Range(s2c'[d]) \subseteq Range(s2c[d]) \cup {f}
    <2>1. CASE s2c' = [s2c EXCEPT ![c] = Append(@, f)]
      <3>1. /\ s2c' \in [Clients -> Seq(Frame)]
            /\ Range(s2c'[c]) = Range(s2c[c]) \cup {f}
            /\ \A d \in Clients \ {c} : s2c'[d] = s2c[d]
        BY <1>3, <2>1, SendIs
      <3>2. \A d \in Clients : d = c \/ Range(s2c'[d]) = Range(s2c[d])
        BY <3>1
      <3> QED
        BY <3>1, <3>2
    <2>2. CASE s2c' = s2c
      BY <2>2, QueueTypes
    <2> QED
      BY <1>2, <2>1, <2>2
  <1>7. TypeOK'
    <2>1. stage' \in [Clients -> {"idle", "read", "ask", "relay"}]
      BY <1>0, <1>1 DEF TypeOK
    <2> QED
      BY <1>0, <1>1, <1>4, <1>5, <1>6, <2>1 DEF TypeOK
  <1>8. RelayedIsSaved'
    BY <1>0, <1>1, <1>3, <1>6 DEF RelayedIsSaved
  <1>9. HandlersInOrder'
    <2>1. \A d \in Clients : stage'[d] = stage[d] \/ (d = c /\ stage'[d] = "idle")
      BY <1>0, <1>1 DEF TypeOK
    <2>2. stage[c] # "relay"
      BY <1>1
    <2> QED
      BY <1>0, <1>1, <1>3, <1>6, <2>1, <2>2 DEF HandlersInOrder
  <1>10. SendersHave' /\ AuthorsHave' /\ ClocksCount'
    BY <1>1, <1>5, SendersStay, Untouched
  <1>11. NothingMissed'
    <2>1. \A d \in Clients : Current(d)' => Current(d)
      BY <1>1, <1>4 DEF Current
    <2>2. \A d \in Clients : \A o \in rows : Reaching(d, o) => Reaching(d, o)'
      BY <1>1, <1>6 DEF Reaching
    <2> QED
      BY <1>0, <1>1, <2>1, <2>2, ReachKept
  <1> QED
    BY <1>7, <1>8, <1>9, <1>10, <1>11 DEF IInv

\* An update that counts as empty is dropped.
LEMMA SkipUpdateStep ==
  ASSUME IInv, NEW c \in Clients, SkipUpdate(c)
  PROVE  IInv'
  <1> USE DEF clientVars, taskVars, handlerVars, countVars
  <1>0. TypeOK /\ RelayedIsSaved /\ NothingMissed /\ HandlersInOrder
    BY DEF IInv
  <1>1. /\ c2s[c] # <<>> /\ Consume(c)
        /\ UNCHANGED <<content, linked, s2c, taskVars, handlerVars, orphans, rows, countVars>>
    BY DEF SkipUpdate, Handling
  <1>2. /\ c2s' \in [Clients -> Seq(Frame)]
        /\ \A d \in Clients : Range(c2s'[d]) \subseteq Range(c2s[d])
    BY <1>1, ConsumeIs
  <1>3. TypeOK'
    BY <1>0, <1>1, <1>2 DEF TypeOK
  <1>4. RelayedIsSaved' /\ HandlersInOrder'
    BY <1>0, <1>1 DEF RelayedIsSaved, HandlersInOrder
  <1>5. SendersHave' /\ AuthorsHave' /\ ClocksCount'
    BY <1>1, <1>2, SendersStay, Untouched
  <1>6. NothingMissed'
    BY <1>0, <1>1, ReachKept DEF Current, Reaching
  <1> QED
    BY <1>3, <1>4, <1>5, <1>6 DEF IInv

\* An update is appended to the rows, or the append fails.
LEMMA SaveUpdateStep ==
  ASSUME IInv, NEW c \in Clients, SaveUpdate(c)
  PROVE  IInv'
  <1> USE DEF clientVars, taskVars, handlerVars, countVars
  <1>0. TypeOK /\ RelayedIsSaved /\ NothingMissed /\ HandlersInOrder /\ SendersHave
        /\ AuthorsHave /\ ClocksCount
    BY DEF IInv
  <1> DEFINE S == Head(c2s[c]).ops
  <1>1. /\ c2s[c] # <<>> /\ stage[c] = "idle" /\ Consume(c)
        /\ UNCHANGED <<content, linked, s2c, taskVars, answered, orphans, edits, bareDelete>>
    BY DEF SaveUpdate, Handling
  <1>2. \/ /\ rows' = rows \cup S
           /\ job' = [job EXCEPT ![c] = S]
           /\ stage' = [stage EXCEPT ![c] = "relay"]
           /\ DbOutcome(TRUE)
        \/ DbOutcome(FALSE) /\ UNCHANGED <<rows, job, stage>>
    BY DEF SaveUpdate
  <1>3. /\ c2s' \in [Clients -> Seq(Frame)]
        /\ \A d \in Clients : Range(c2s'[d]) \subseteq Range(c2s[d])
        /\ Head(c2s[c]) \in Range(c2s[c]) /\ Head(c2s[c]) \in Frame
    BY <1>1, ConsumeIs
  <1>4. S \in SUBSET Op /\ S \subseteq content[c]
    BY <1>0, <1>3 DEF SendersHave, Frame
  <1> HIDE DEF S
  <1>5. dbFailed' \in BOOLEAN /\ faults' \in Nat /\ (~dbFailed' => ~dbFailed)
    BY <1>0, <1>2, DbTypes
  <1>6. CASE UNCHANGED <<rows, job, stage>>
    <2>1. TypeOK'
      BY <1>0, <1>1, <1>3, <1>5, <1>6 DEF TypeOK
    <2>2. RelayedIsSaved' /\ HandlersInOrder'
      BY <1>0, <1>1, <1>6 DEF RelayedIsSaved, HandlersInOrder
    <2>3. SendersHave' /\ AuthorsHave' /\ ClocksCount'
      BY <1>1, <1>3, <1>6, SendersStay, Untouched
    <2>4. NothingMissed'
      BY <1>0, <1>1, <1>5, <1>6, ReachKept DEF Current, Reaching
    <2> QED
      BY <2>1, <2>2, <2>3, <2>4 DEF IInv
  <1>7. CASE /\ rows' = rows \cup S
             /\ job' = [job EXCEPT ![c] = S]
             /\ stage' = [stage EXCEPT ![c] = "relay"]
    <2>1. /\ rows' \in SUBSET Op /\ job' \in [Clients -> SUBSET Op]
          /\ stage' \in [Clients -> {"idle", "read", "ask", "relay"}]
          /\ job'[c] = S /\ stage'[c] = "relay"
          /\ \A d \in Clients \ {c} : job'[d] = job[d] /\ stage'[d] = stage[d]
      BY <1>0, <1>4, <1>7 DEF TypeOK
    <2>2. TypeOK'
      BY <1>0, <1>1, <1>3, <1>5, <2>1 DEF TypeOK
    <2>3. RelayedIsSaved'
      <3>1. \A d \in Clients : job'[d] \subseteq rows'
        BY <1>0, <1>7, <2>1 DEF RelayedIsSaved
      <3> QED
        BY <1>0, <1>1, <1>7, <3>1 DEF RelayedIsSaved
    <2>4. HandlersInOrder'
      BY <1>0, <1>1, <2>1 DEF HandlersInOrder
    <2>5. SendersHave'
      <3>1. \A d \in Clients : job'[d] \subseteq content[d]
        BY <1>0, <1>4, <2>1 DEF SendersHave
      <3> QED
        BY <1>0, <1>1, <1>3, <3>1 DEF SendersHave
    <2>6. AuthorsHave'
      <3>1. ASSUME NEW a \in Clients PROVE InsertedBy(a, rows') \subseteq InsertedBy(a, content[a])
        <4>1. InsertedBy(a, rows') = InsertedBy(a, rows) \cup InsertedBy(a, S)
          BY <1>7, InsertedUnion
        <4>2. InsertedBy(a, S) \subseteq InsertedBy(a, content[c])
          BY <1>4, InsertedUnion
        <4> QED
          BY <1>0, <4>1, <4>2 DEF AuthorsHave
      <3> QED
        BY <1>0, <1>1, <3>1 DEF AuthorsHave
    <2>7. ClocksCount'
      BY <1>0, <1>1 DEF ClocksCount
    <2>8. NothingMissed'
      <3> SUFFICES ASSUME NEW d \in Clients, Current(d)', NEW o \in rows'
                   PROVE  Reaching(d, o)'
        BY MissedIs
      <3>1. Current(d)
        BY <1>1, <1>5 DEF Current
      <3>2. CASE o \in S
        BY <2>1, <3>2 DEF Reaching
      <3>3. CASE o \notin S
        <4>1. Reaching(d, o)
          BY <1>0, <1>7, <3>1, <3>3, MissedIs
        <4>2. job[c] = {}
          BY <1>0, <1>1 DEF HandlersInOrder
        <4>3. \A e \in Clients : o \in job[e] => o \in job'[e]
          BY <2>1, <4>2
        <4> QED
          BY <1>1, <4>1, <4>3 DEF Reaching
      <3> QED
        BY <3>2, <3>3
    <2> QED
      BY <2>2, <2>3, <2>4, <2>5, <2>6, <2>7, <2>8 DEF IInv
  <1> QED
    BY <1>2, <1>6, <1>7

\* A message in the channel: who does not lag has all it had, and the message.
LEMMA BroadcastIs ==
  ASSUME IInv, NEW S \in SUBSET Op, NEW sender \in SUBSET Clients, Broadcast(S, sender)
  PROVE  /\ queue' \in [Clients -> Seq([own : BOOLEAN, ops : SUBSET Op])]
         /\ missed' \in [Clients -> BOOLEAN]
         /\ \A d \in Clients :
              /\ Len(queue'[d]) <= Cap
              /\ \A m \in Range(queue'[d]) :
                   m \in Range(queue[d]) \/ (m.ops = S /\ (m.own => d \in sender))
              /\ ~missed'[d] => ~missed[d]
              /\ ~missed'[d] /\ subscribed[d] =>
                   /\ Range(queue[d]) \subseteq Range(queue'[d])
                   /\ \E m \in Range(queue'[d]) : m.ops = S
  <1> DEFINE Message == [own : BOOLEAN, ops : SUBSET Op]
             msg(d) == [own |-> d \in sender, ops |-> S]
             q(d)   == Append(queue[d], msg(d))
  <1>0. /\ queue \in [Clients -> Seq(Message)] /\ missed \in [Clients -> BOOLEAN]
        /\ subscribed \in [Clients -> BOOLEAN] /\ Cap \in Nat \ {0}
        /\ \A d \in Clients : Len(queue[d]) <= Cap
    BY ContentRelayAssumption DEF IInv, TypeOK, HandlersInOrder
  <1>1. \A d \in Clients : queue'[d] = IF ~subscribed[d] THEN queue[d]
                                       ELSE IF Len(q(d)) > Cap THEN Tail(q(d)) ELSE q(d)
    BY DEF Broadcast
  <1>2. \A d \in Clients : missed'[d] <=> missed[d] \/ (subscribed[d] /\ Len(queue[d]) = Cap)
    BY DEF Broadcast
  <1>3. missed' \in [Clients -> BOOLEAN]
    BY <1>0, Zenon DEF Broadcast
  <1>4. ASSUME NEW d \in Clients
        PROVE  /\ queue'[d] \in Seq(Message)
               /\ Len(queue'[d]) <= Cap
               /\ \A m \in Range(queue'[d]) :
                    m \in Range(queue[d]) \/ (m.ops = S /\ (m.own => d \in sender))
               /\ ~missed'[d] => ~missed[d]
               /\ ~missed'[d] /\ subscribed[d] =>
                    /\ Range(queue[d]) \subseteq Range(queue'[d])
                    /\ \E m \in Range(queue'[d]) : m.ops = S
    <2>1. CASE ~subscribed[d]
      <3>1. queue'[d] = queue[d]
        BY <1>1, <2>1
      <3>2. ~missed'[d] => ~missed[d]
        BY <1>2
      <3> QED
        BY <1>0, <2>1, <3>1, <3>2
    <2>2. CASE subscribed[d]
      <3>1. msg(d) \in Message /\ msg(d).ops = S /\ (msg(d).own => d \in sender)
        <4>1. (d \in sender) \in BOOLEAN
          OBVIOUS
        <4> QED
          BY <4>1
      <3> DEFINE e == msg(d)
                 p == q(d)
      <3> HIDE DEF e, Message
      <3>2. /\ p \in Seq(Message) /\ Range(p) = Range(queue[d]) \cup {e}
            /\ Len(p) = Len(queue[d]) + 1 /\ p # <<>>
        <4>1. e \in Message /\ queue[d] \in Seq(Message)
          BY <1>0, <3>1 DEF e
        <4>2. p = Append(queue[d], e)
          BY DEF e
        <4> QED
          BY <4>1, <4>2, AppendRange
      <3>3. queue'[d] = IF Len(p) > Cap THEN Tail(p) ELSE p
        BY <1>1, <2>2
      <3>4. e.ops = S /\ (e.own => d \in sender)
        BY <3>1 DEF e
      <3> HIDE DEF p
      <3>5. Tail(p) \in Seq(Message) /\ Range(Tail(p)) \subseteq Range(p) /\ Len(Tail(p)) = Len(p) - 1
        BY <3>2, TailRange
      <3>6. Len(queue[d]) \in Nat /\ Len(queue[d]) <= Cap
        BY <1>0
      <3>7. CASE Len(p) > Cap
        <4>1. Len(queue[d]) = Cap
          BY <1>0, <3>2, <3>6, <3>7
        <4>2. missed'[d]
          BY <1>2, <2>2, <4>1
        <4>3. queue'[d] = Tail(p) /\ Len(Tail(p)) <= Cap
          BY <1>0, <3>2, <3>3, <3>5, <3>7, <4>1
        <4>4. \A m \in Range(Tail(p)) : m \in Range(queue[d]) \/ m = e
          BY <3>2, <3>5
        <4> QED
          BY <3>4, <3>5, <4>2, <4>3, <4>4
      <3>8. CASE ~(Len(p) > Cap)
        <4>1. queue'[d] = p /\ Len(p) <= Cap
          BY <1>0, <3>2, <3>3, <3>6, <3>8
        <4>2. ~missed'[d] => ~missed[d]
          BY <1>2
        <4>3. Range(p) = Range(queue[d]) \cup {e}
          BY <3>2
        <4> QED
          BY <3>2, <3>4, <4>1, <4>2, <4>3
      <3> QED
        BY <3>7, <3>8
    <2> QED
      BY <2>1, <2>2
  <1>5. queue' = [d \in Clients |-> queue'[d]]
    BY DEF Broadcast
  <1>6. queue' \in [Clients -> Seq(Message)]
    BY <1>4, <1>5
  <1> QED
    BY <1>3, <1>4, <1>6

\* What a broadcast does to the invariant, wherever its operations came from.
LEMMA BroadcastStep ==
  ASSUME IInv, NEW S \in SUBSET rows, NEW sender \in SUBSET Clients, Broadcast(S, sender),
         \A c \in sender : S \subseteq content[c],
         UNCHANGED <<clientVars, s2c, subscribed, catching, answered, rows, countVars>>,
         job' \in [Clients -> SUBSET Op], \A c \in Clients : job'[c] \subseteq job[c],
         stage' \in [Clients -> {"idle", "read", "ask", "relay"}],
         \A c \in Clients : stage'[c] \in {"idle", stage[c]},
         \A c \in Clients : stage'[c] # "relay" => job'[c] = {},
         orphans' \subseteq orphans,
         \A c \in Clients : \A o \in job[c] : o \in S \/ o \in job'[c],
         \A T \in orphans : T \in orphans' \/ T = S
  PROVE  IInv'
  <1> USE DEF clientVars, countVars
  <1>0. TypeOK /\ RelayedIsSaved /\ NothingMissed /\ HandlersInOrder /\ SendersHave
    BY DEF IInv
  <1>1. S \in SUBSET Op
    BY <1>0 DEF TypeOK
  <1>2. /\ queue' \in [Clients -> Seq([own : BOOLEAN, ops : SUBSET Op])]
        /\ missed' \in [Clients -> BOOLEAN]
        /\ \A d \in Clients :
             /\ Len(queue'[d]) <= Cap
             /\ \A m \in Range(queue'[d]) :
                  m \in Range(queue[d]) \/ (m.ops = S /\ (m.own => d \in sender))
             /\ ~missed'[d] => ~missed[d]
             /\ ~missed'[d] /\ subscribed[d] =>
                  /\ Range(queue[d]) \subseteq Range(queue'[d])
                  /\ \E m \in Range(queue'[d]) : m.ops = S
    BY <1>1, BroadcastIs
  <1>3. TypeOK'
    BY <1>0, <1>2 DEF TypeOK
  <1>4. RelayedIsSaved'
    <2>1. \A d \in Clients : \A m \in Range(queue'[d]) : m.ops \subseteq rows
      BY <1>0, <1>2 DEF RelayedIsSaved
    <2>2. UNION orphans' \subseteq rows /\ \A d \in Clients : job'[d] \subseteq rows
      BY <1>0 DEF RelayedIsSaved
    <2> QED
      BY <1>0, <2>1, <2>2 DEF RelayedIsSaved
  <1>5. HandlersInOrder'
    BY <1>0, <1>2 DEF HandlersInOrder
  <1>6. SendersHave'
    <2>1. \A d \in Clients : \A m \in Range(queue'[d]) : m.own => m.ops \subseteq content[d]
      BY <1>0, <1>2 DEF SendersHave
    <2>2. \A d \in Clients : job'[d] \subseteq content[d]
      BY <1>0 DEF SendersHave
    <2> QED
      BY <1>0, <2>1, <2>2 DEF SendersHave
  <1>7. AuthorsHave' /\ ClocksCount'
    BY Untouched
  <1>8. NothingMissed'
    <2> SUFFICES ASSUME NEW d \in Clients, Current(d)', NEW o \in rows
                 PROVE  Reaching(d, o)'
      BY MissedIs
    <2>1. Current(d) /\ subscribed[d] /\ ~missed'[d]
      BY <1>0, <1>2 DEF Current, HandlersInOrder
    <2>2. Reaching(d, o)
      BY <1>0, <2>1, MissedIs
    <2>3. PICK m \in Range(queue'[d]) : m.ops = S
      BY <1>2, <2>1
    <2>4. Range(queue[d]) \subseteq Range(queue'[d])
      BY <1>2, <2>1
    <2>5. CASE o \in S
      BY <2>3, <2>5 DEF Reaching
    <2>6. CASE o \notin S
      BY <2>2, <2>4, <2>6 DEF Reaching
    <2> QED
      BY <2>5, <2>6
  <1> QED
    BY <1>3, <1>4, <1>5, <1>6, <1>7, <1>8 DEF IInv

\* A handler broadcasts what it has saved.
LEMMA RelayStep ==
  ASSUME IInv, NEW c \in Clients, Relay(c)
  PROVE  IInv'
  <1>0. TypeOK /\ RelayedIsSaved /\ HandlersInOrder /\ SendersHave
    BY DEF IInv
  <1>1. /\ stage[c] = "relay" /\ Broadcast(job[c], {c})
        /\ job' = [job EXCEPT ![c] = {}] /\ stage' = [stage EXCEPT ![c] = "idle"]
        /\ UNCHANGED <<clientVars, s2c, subscribed, catching, answered, orphans, rows, countVars>>
    BY DEF Relay
  <1>2. job[c] \in SUBSET rows /\ job[c] \subseteq content[c]
    BY <1>0 DEF RelayedIsSaved, SendersHave
  <1>3. /\ job' \in [Clients -> SUBSET Op] /\ job'[c] = {}
        /\ \A d \in Clients \ {c} : job'[d] = job[d]
    BY <1>0, <1>1 DEF TypeOK
  <1>4. /\ stage' \in [Clients -> {"idle", "read", "ask", "relay"}] /\ stage'[c] = "idle"
        /\ \A d \in Clients \ {c} : stage'[d] = stage[d]
    BY <1>0, <1>1 DEF TypeOK
  <1>5. \A d \in Clients : stage'[d] # "relay" => job'[d] = {}
    BY <1>0, <1>3, <1>4 DEF HandlersInOrder
  <1>6. /\ \A d \in Clients : job'[d] \subseteq job[d]
        /\ \A d \in Clients : \A o \in job[d] : o \in job[c] \/ o \in job'[d]
    BY <1>3
  <1>7. \A d \in Clients : stage'[d] \in {"idle", stage[d]}
    BY <1>4
  <1>8. orphans' \subseteq orphans /\ \A T \in orphans : T \in orphans' \/ T = job[c]
    BY <1>1
  <1> DEFINE S == job[c]
             sender == {c}
  <1>9. /\ S \in SUBSET rows /\ sender \in SUBSET Clients /\ Broadcast(S, sender)
        /\ \A d \in sender : S \subseteq content[d]
        /\ \A d \in Clients : \A o \in job[d] : o \in S \/ o \in job'[d]
        /\ \A T \in orphans : T \in orphans' \/ T = S
    BY <1>1, <1>2, <1>6, <1>8
  <1> HIDE DEF S, sender
  <1> QED
    BY <1>1, <1>3, <1>4, <1>5, <1>6, <1>7, <1>8, <1>9, BroadcastStep

\* The handler of a closed connection broadcasts what it has saved.
LEMMA RelayOrphanStep ==
  ASSUME IInv, NEW S \in orphans, RelayOrphan(S)
  PROVE  IInv'
  <1>0. TypeOK /\ RelayedIsSaved /\ HandlersInOrder
    BY DEF IInv
  <1>1. /\ Broadcast(S, {}) /\ orphans' = orphans \ {S}
        /\ UNCHANGED <<clientVars, s2c, subscribed, catching, handlerVars, rows, countVars>>
    BY DEF RelayOrphan
  <1>2. S \in SUBSET rows
    BY <1>0 DEF RelayedIsSaved
  <1>3. job' = job /\ stage' = stage /\ answered' = answered
    BY <1>1 DEF handlerVars
  <1>4. /\ job' \in [Clients -> SUBSET Op] /\ stage' \in [Clients -> {"idle", "read", "ask", "relay"}]
        /\ \A d \in Clients : stage'[d] # "relay" => job'[d] = {}
    BY <1>0, <1>3 DEF TypeOK, HandlersInOrder
  <1>5. /\ \A d \in Clients : job'[d] \subseteq job[d] /\ stage'[d] \in {"idle", stage[d]}
        /\ \A d \in Clients : \A o \in job[d] : o \in S \/ o \in job'[d]
    BY <1>3
  <1>6. orphans' \subseteq orphans /\ \A T \in orphans : T \in orphans' \/ T = S
    BY <1>1
  <1>7. {} \in SUBSET Clients /\ \A d \in {} : S \subseteq content[d]
    OBVIOUS
  <1> QED
    BY <1>1, <1>2, <1>3, <1>4, <1>5, <1>6, <1>7, BroadcastStep

\* The forwarding task passes a message on, or skips the client's own.
LEMMA ForwardStep ==
  ASSUME IInv, NEW c \in Clients, Forward(c)
  PROVE  IInv'
  <1> USE DEF clientVars, handlerVars, countVars
  <1>0. TypeOK /\ RelayedIsSaved /\ NothingMissed /\ HandlersInOrder /\ SendersHave
    BY DEF IInv
  <1> DEFINE Message == [own : BOOLEAN, ops : SUBSET Op]
             m == Head(queue[c])
  <1>1. /\ queue[c] # <<>> /\ queue' = [queue EXCEPT ![c] = Tail(@)]
        /\ s2c' = [s2c EXCEPT ![c] = IF m.own THEN @ ELSE Append(@, Push(m.ops))]
        /\ UNCHANGED <<clientVars, subscribed, missed, catching, handlerVars, orphans, rows, countVars>>
    BY DEF Forward
  <1>2. /\ m \in Message /\ Tail(queue[c]) \in Seq(Message)
        /\ Range(queue[c]) = {m} \cup Range(Tail(queue[c]))
        /\ Len(Tail(queue[c])) = Len(queue[c]) - 1 /\ Len(queue[c]) \in Nat
    <2>1. queue[c] \in Seq(Message)
      BY QueueTypes
    <2> HIDE DEF Message
    <2> QED
      BY <1>1, <2>1, TailRange
  <1>3. m.ops \in SUBSET Op
    BY <1>2
  <1>4. Push(m.ops) \in Frame /\ Push(m.ops).ops = m.ops /\ Push(m.ops).kind # "step1"
    BY <1>3, FrameTypes
  <1>5. m.ops \subseteq rows /\ (m.own => m.ops \subseteq content[c])
    BY <1>0, <1>2 DEF RelayedIsSaved, SendersHave
  <1> HIDE DEF m, Message
  <1>6. /\ queue' \in [Clients -> Seq(Message)] /\ queue'[c] = Tail(queue[c])
        /\ \A d \in Clients \ {c} : queue'[d] = queue[d]
    BY <1>1, <1>2, QueueTypes DEF Message
  <1>7. \A d \in Clients : /\ Range(queue'[d]) \subseteq Range(queue[d])
                           /\ Len(queue'[d]) <= Cap
    <2>1. Cap \in Nat /\ \A d \in Clients : Len(queue[d]) <= Cap
      BY <1>0, ContentRelayAssumption DEF HandlersInOrder
    <2>2. ASSUME NEW d \in Clients, d # c
          PROVE  Range(queue'[d]) \subseteq Range(queue[d]) /\ Len(queue'[d]) <= Cap
      <3>1. queue'[d] = queue[d]
        BY <1>6, <2>2
      <3> QED
        BY <2>1, <3>1
    <2>3. Range(queue'[c]) \subseteq Range(queue[c]) /\ Len(queue'[c]) <= Cap
      BY <1>2, <1>6, <2>1
    <2> QED
      BY <2>2, <2>3
  <1>8. /\ s2c' \in [Clients -> Seq(Frame)]
        /\ \A d \in Clients : Range(s2c[d]) \subseteq Range(s2c'[d])
        /\ \A d \in Clients : Range(s2c'[d]) \subseteq Range(s2c[d]) \cup {Push(m.ops)}
        /\ ~m.own => Push(m.ops) \in Range(s2c'[c])
    <2>1. CASE m.own
      <3>1. s2c' = s2c
        BY <1>1, <2>1, QueueTypes
      <3> QED
        BY <2>1, <3>1, QueueTypes
    <2>2. CASE ~m.own
      <3> DEFINE f == Push(m.ops)
      <3>1. s2c' = [s2c EXCEPT ![c] = Append(@, f)] /\ f \in Frame
        BY <1>1, <1>4, <2>2
      <3> HIDE DEF f
      <3>2. /\ s2c' \in [Clients -> Seq(Frame)]
            /\ Range(s2c'[c]) = Range(s2c[c]) \cup {f}
            /\ \A d \in Clients \ {c} : s2c'[d] = s2c[d]
        BY <3>1, SendIs
      <3>3. \A d \in Clients : d = c \/ Range(s2c'[d]) = Range(s2c[d])
        BY <3>2
      <3> QED
        BY <3>2, <3>3 DEF f
    <2> QED
      BY <2>1, <2>2
  <1>9. TypeOK'
    BY <1>0, <1>1, <1>6, <1>8 DEF TypeOK, Message
  <1>10. RelayedIsSaved'
    BY <1>0, <1>1, <1>4, <1>5, <1>7, <1>8 DEF RelayedIsSaved
  <1>11. HandlersInOrder'
    BY <1>0, <1>1, <1>4, <1>7, <1>8 DEF HandlersInOrder
  <1>12. SendersHave'
    BY <1>0, <1>1, <1>7 DEF SendersHave
  <1>13. AuthorsHave' /\ ClocksCount'
    BY <1>1, Untouched
  <1>14. NothingMissed'
    <2>1. ASSUME NEW d \in Clients, NEW o \in rows, Reaching(d, o)
          PROVE  Reaching(d, o)'
      <3>1. CASE d # c
        <4>1. queue'[d] = queue[d]
          BY <1>6, <3>1
        <4> QED
          BY <1>1, <1>8, <2>1, <4>1 DEF Reaching
      <3>2. CASE d = c
        <4>1. CASE o \in m.ops
          BY <1>1, <1>4, <1>5, <1>8, <3>2, <4>1 DEF Reaching
        <4>2. CASE o \notin m.ops
          <5>1. \A e \in Range(queue[c]) : e \in Range(queue'[c]) \/ e = m
            BY <1>2, <1>6
          <5> QED
            BY <1>1, <1>8, <2>1, <3>2, <4>2, <5>1 DEF Reaching
        <4> QED
          BY <4>1, <4>2
      <3> QED
        BY <3>1, <3>2
    <2>2. \A d \in Clients : Current(d)' => Current(d)
      BY <1>1 DEF Current
    <2> QED
      BY <1>0, <1>1, <2>1, <2>2, ReachKept
  <1> QED
    BY <1>9, <1>10, <1>11, <1>12, <1>13, <1>14 DEF IInv

\* The forwarding task learns that it lags.
LEMMA LagStep ==
  ASSUME IInv, NEW c \in Clients, Lag(c)
  PROVE  IInv'
  <1> USE DEF Lag, clientVars, handlerVars, countVars
  <1>0. TypeOK /\ RelayedIsSaved /\ NothingMissed /\ HandlersInOrder
    BY DEF IInv
  <1>1. /\ missed' \in [Clients -> BOOLEAN] /\ catching' \in [Clients -> BOOLEAN]
        /\ catching'[c] /\ \A d \in Clients \ {c} : catching'[d] = catching[d] /\ missed'[d] = missed[d]
    BY <1>0 DEF TypeOK
  <1>2. TypeOK'
    BY <1>0, <1>1 DEF TypeOK
  <1>3. RelayedIsSaved' /\ HandlersInOrder'
    BY <1>0 DEF RelayedIsSaved, HandlersInOrder
  <1>4. SendersHave' /\ AuthorsHave' /\ ClocksCount'
    BY SendersStay, Untouched
  <1>5. NothingMissed'
    <2>1. \A d \in Clients : Current(d)' => Current(d)
      BY <1>1 DEF Current
    <2> QED
      BY <1>0, <2>1, ReachKept DEF Reaching
  <1> QED
    BY <1>2, <1>3, <1>4, <1>5 DEF IInv

\* The forwarding task reads all rows and sends them.
LEMMA CatchUpStep ==
  ASSUME IInv, NEW c \in Clients, CatchUp(c)
  PROVE  IInv'
  <1> USE DEF clientVars, handlerVars, countVars
  <1>0. TypeOK /\ RelayedIsSaved /\ NothingMissed /\ HandlersInOrder /\ rows \in SUBSET Op
    BY DEF IInv, TypeOK
  <1> DEFINE f == Step2(rows, {})
  <1>1. /\ catching[c] /\ catching' = [catching EXCEPT ![c] = FALSE]
        /\ UNCHANGED <<clientVars, subscribed, queue, missed, handlerVars, orphans, rows, edits, bareDelete>>
    BY DEF CatchUp
  <1>2. \/ s2c' = [s2c EXCEPT ![c] = Append(@, f)] /\ DbOutcome(TRUE)
        \/ DbOutcome(FALSE) /\ UNCHANGED s2c
    BY DEF CatchUp
  <1>3. f \in Frame /\ f.ops = rows /\ f.kind # "step1"
    <2>1. Diff(rows, {}) = rows
      BY DEF Diff
    <2> QED
      BY <1>0, <2>1, FrameTypes
  <1> HIDE DEF f
  <1>4. /\ s2c' \in [Clients -> Seq(Frame)]
        /\ \A d \in Clients : Range(s2c[d]) \subseteq Range(s2c'[d])
        /\ \A d \in Clients : Range(s2c'[d]) \subseteq Range(s2c[d]) \cup {f}
        /\ ~dbFailed' => f \in Range(s2c'[c])
    <2>1. CASE s2c' = [s2c EXCEPT ![c] = Append(@, f)]
      <3>1. /\ s2c' \in [Clients -> Seq(Frame)]
            /\ Range(s2c'[c]) = Range(s2c[c]) \cup {f}
            /\ \A d \in Clients \ {c} : s2c'[d] = s2c[d]
        BY <1>3, <2>1, SendIs
      <3>2. \A d \in Clients : d = c \/ Range(s2c'[d]) = Range(s2c[d])
        BY <3>1
      <3> QED
        BY <3>1, <3>2
    <2>2. CASE DbOutcome(FALSE) /\ UNCHANGED s2c
      BY <1>0, <2>2, QueueTypes, DbTypes
    <2> QED
      BY <1>2, <2>1, <2>2
  <1>5. dbFailed' \in BOOLEAN /\ faults' \in Nat /\ (~dbFailed' => ~dbFailed)
    BY <1>0, <1>2, DbTypes
  <1>6. /\ catching' \in [Clients -> BOOLEAN]
        /\ \A d \in Clients \ {c} : catching'[d] = catching[d]
    BY <1>0, <1>1 DEF TypeOK
  <1>7. TypeOK'
    BY <1>0, <1>1, <1>4, <1>5, <1>6 DEF TypeOK
  <1>8. RelayedIsSaved'
    BY <1>0, <1>1, <1>3, <1>4 DEF RelayedIsSaved
  <1>9. HandlersInOrder'
    BY <1>0, <1>1, <1>3, <1>4 DEF HandlersInOrder
  <1>10. SendersHave' /\ AuthorsHave' /\ ClocksCount'
    BY <1>1, SendersStay, Untouched
  <1>11. NothingMissed'
    <2> SUFFICES ASSUME NEW d \in Clients, Current(d)', NEW o \in rows
                 PROVE  Reaching(d, o)'
      BY <1>1, MissedIs
    <2>1. CASE d = c
      BY <1>3, <1>4, <2>1 DEF Reaching, Current
    <2>2. CASE d # c
      <3>1. Current(d)
        BY <1>1, <1>5, <1>6, <2>2 DEF Current
      <3>2. Reaching(d, o)
        BY <1>0, <3>1, MissedIs
      <3> QED
        BY <1>1, <1>4, <3>2 DEF Reaching
    <2> QED
      BY <2>1, <2>2
  <1> QED
    BY <1>7, <1>8, <1>9, <1>10, <1>11 DEF IInv

\* A connection is lost; what its handler has saved is still to be broadcast.
LEMMA LoseConnectionStep ==
  ASSUME IInv, NEW c \in Clients, LoseConnection(c)
  PROVE  IInv'
  <1>0. TypeOK /\ RelayedIsSaved /\ NothingMissed /\ HandlersInOrder /\ SendersHave
    BY DEF IInv
  <1>1. /\ c2s' = [c2s EXCEPT ![c] = <<>>] /\ s2c' = [s2c EXCEPT ![c] = <<>>]
        /\ queue' = [queue EXCEPT ![c] = <<>>]
        /\ job' = [job EXCEPT ![c] = {}] /\ stage' = [stage EXCEPT ![c] = "idle"]
        /\ orphans' = IF stage[c] = "relay" THEN orphans \cup {job[c]} ELSE orphans
        /\ faults' = faults + 1
        /\ UNCHANGED <<content, rows, edits, dbFailed, bareDelete>>
    BY DEF LoseConnection
  <1>2. /\ linked' = [linked EXCEPT ![c] = FALSE] /\ subscribed' = [subscribed EXCEPT ![c] = FALSE]
        /\ missed' = [missed EXCEPT ![c] = FALSE] /\ catching' = [catching EXCEPT ![c] = FALSE]
        /\ answered' = [answered EXCEPT ![c] = FALSE]
    BY DEF LoseConnection
  <1>3. /\ c2s' \in [Clients -> Seq(Frame)] /\ s2c' \in [Clients -> Seq(Frame)]
        /\ queue' \in [Clients -> Seq([own : BOOLEAN, ops : SUBSET Op])]
        /\ job' \in [Clients -> SUBSET Op] /\ stage' \in [Clients -> {"idle", "read", "ask", "relay"}]
        /\ orphans' \in SUBSET SUBSET Op /\ faults' \in Nat
    <2>1. \A S : <<>> \in Seq(S)
      OBVIOUS
    <2>2. /\ c2s' \in [Clients -> Seq(Frame)] /\ s2c' \in [Clients -> Seq(Frame)]
          /\ queue' \in [Clients -> Seq([own : BOOLEAN, ops : SUBSET Op])]
      BY <1>1, <2>1, QueueTypes
    <2>3. job' \in [Clients -> SUBSET Op] /\ stage' \in [Clients -> {"idle", "read", "ask", "relay"}]
      BY <1>0, <1>1 DEF TypeOK
    <2>4. orphans' \in SUBSET SUBSET Op /\ faults' \in Nat
      <3>1. job[c] \in SUBSET Op /\ faults \in Nat
        BY <1>0 DEF TypeOK
      <3> QED
        BY <1>0, <1>1, <3>1 DEF TypeOK
    <2> QED
      BY <2>2, <2>3, <2>4
  <1>4. /\ linked' \in [Clients -> BOOLEAN] /\ subscribed' \in [Clients -> BOOLEAN]
        /\ missed' \in [Clients -> BOOLEAN] /\ catching' \in [Clients -> BOOLEAN]
        /\ answered' \in [Clients -> BOOLEAN]
    BY <1>0, <1>2 DEF TypeOK
  <1>5. /\ c2s'[c] = <<>> /\ s2c'[c] = <<>> /\ queue'[c] = <<>> /\ job'[c] = {} /\ stage'[c] = "idle"
        /\ ~answered'[c]
        /\ \A d \in Clients \ {c} :
             /\ c2s'[d] = c2s[d] /\ s2c'[d] = s2c[d] /\ queue'[d] = queue[d] /\ job'[d] = job[d]
             /\ stage'[d] = stage[d] /\ subscribed'[d] = subscribed[d] /\ missed'[d] = missed[d]
             /\ catching'[d] = catching[d] /\ answered'[d] = answered[d]
    BY <1>0, <1>1, <1>2 DEF TypeOK
  <1>6. Range(<<>>) = {} /\ Len(<<>>) = 0 /\ 0 <= Cap
    BY ContentRelayAssumption DEF Range
  <1>7. \A d \in Clients : /\ Range(c2s'[d]) \subseteq Range(c2s[d])
                           /\ Range(s2c'[d]) \subseteq Range(s2c[d])
                           /\ Range(queue'[d]) \subseteq Range(queue[d])
                           /\ job'[d] \subseteq job[d] /\ Len(queue'[d]) <= Cap
    <2> TAKE d \in Clients
    <2>1. CASE d = c
      BY <1>5, <1>6, <2>1
    <2>2. CASE d # c
      <3>1. c2s'[d] = c2s[d] /\ s2c'[d] = s2c[d] /\ queue'[d] = queue[d] /\ job'[d] = job[d]
        BY <1>5, <2>2
      <3> QED
        BY <1>0, <3>1 DEF HandlersInOrder
    <2> QED
      BY <2>1, <2>2
  <1>8. TypeOK'
    BY <1>0, <1>1, <1>3, <1>4 DEF TypeOK
  <1>9. RelayedIsSaved'
    <2>1. UNION orphans' \subseteq rows
      BY <1>0, <1>1 DEF RelayedIsSaved
    <2> QED
      BY <1>0, <1>1, <1>7, <2>1 DEF RelayedIsSaved
  <1>10. HandlersInOrder'
    <2>1. \A d \in Clients : stage'[d] # "relay" => job'[d] = {}
      BY <1>0, <1>5 DEF HandlersInOrder
    <2>2. \A d \in Clients : answered'[d] \/ stage'[d] \in {"read", "ask"} => subscribed'[d]
      BY <1>0, <1>5 DEF HandlersInOrder
    <2>3. \A d \in Clients : \A f \in Range(s2c'[d]) : f.kind = "step1" => f.ops = {}
      BY <1>0, <1>7 DEF HandlersInOrder
    <2> QED
      BY <1>7, <2>1, <2>2, <2>3 DEF HandlersInOrder
  <1>11. SendersHave'
    BY <1>0, <1>1, <1>7 DEF SendersHave
  <1>12. AuthorsHave' /\ ClocksCount'
    BY <1>1, Untouched
  <1>13. NothingMissed'
    <2>1. ASSUME NEW d \in Clients, Current(d)', NEW o \in rows PROVE Reaching(d, o)'
      <3>1. d # c /\ Current(d)
        BY <1>1, <1>5, <2>1 DEF Current
      <3>2. Reaching(d, o)
        BY <1>0, <3>1, MissedIs
      <3>3. \A e \in Clients : o \in job[e] => o \in job'[e] \/ \E S \in orphans' : o \in S
        <4>1. o \in job[c] => \E S \in orphans' : o \in S
          BY <1>0, <1>1 DEF HandlersInOrder
        <4> QED
          BY <1>5, <4>1
      <3>4. orphans \subseteq orphans'
        BY <1>1
      <3>5. s2c'[d] = s2c[d] /\ queue'[d] = queue[d] /\ content'[d] = content[d]
        BY <1>1, <1>5, <3>1
      <3> QED
        BY <3>2, <3>3, <3>4, <3>5 DEF Reaching
    <2> QED
      BY <1>1, <2>1, MissedIs
  <1> QED
    BY <1>8, <1>9, <1>10, <1>11, <1>12, <1>13 DEF IInv

-----------------------------------------------------------------------------
(* The theorems *)

\* The invariant holds at the start.
LEMMA InitHolds == Init => IInv
  <1> SUFFICES ASSUME Init PROVE IInv
    OBVIOUS
  <1>1. Range(<<>>) = {} /\ Len(<<>>) = 0 /\ 0 <= Cap
    BY ContentRelayAssumption DEF Range
  <1>2. TypeOK
    <2>1. \A S : <<>> \in Seq(S)
      OBVIOUS
    <2> QED
      BY <2>1 DEF Init, TypeOK
  <1>3. RelayedIsSaved /\ NothingMissed
    BY <1>1 DEF Init, RelayedIsSaved, NothingMissed
  <1>4. SendersHave /\ HandlersInOrder
    BY <1>1 DEF Init, SendersHave, HandlersInOrder
  <1>5. \A a : InsertedBy(a, {}) = {}
    BY DEF InsertedBy, Inserted
  <1>6. AuthorsHave
    BY <1>5 DEF Init, AuthorsHave
  <1>7. ClocksCount
    <2>1. IsFiniteSet({}) /\ Cardinality({}) = 0
      BY FS_EmptySet
    <2>2. edits = 0 /\ \A c \in Clients : InsertedBy(c, content[c]) = {}
      BY <1>5 DEF Init
    <2> QED
      BY <2>1, <2>2 DEF ClocksCount
  <1> QED
    BY <1>2, <1>3, <1>4, <1>6, <1>7 DEF IInv

\* Every step keeps the invariant.
LEMMA InvNext == IInv /\ [Next]_vars => IInv'
  <1> SUFFICES ASSUME IInv, [Next]_vars PROVE IInv'
    OBVIOUS
  <1>1. ASSUME NEW c \in Clients, Join(c) \/ Edit(c) \/ Receive(c) PROVE IInv'
    BY <1>1, JoinStep, EditStep, AnswerStep, ApplyStep DEF Receive
  <1>2. ASSUME NEW c \in Clients, HandlerStep(c) PROVE IInv'
    BY <1>2, JoinChannelStep, SendStep2Step, AskBackStep, SkipUpdateStep, SaveUpdateStep, RelayStep
       DEF HandlerStep
  <1>3. ASSUME NEW c \in Clients, TaskStep(c) PROVE IInv'
    BY <1>3, ForwardStep, LagStep, CatchUpStep DEF TaskStep
  <1>4. ASSUME NEW c \in Clients, LoseConnection(c) PROVE IInv'
    BY <1>4, LoseConnectionStep
  <1>5. ASSUME NEW S \in orphans, RelayOrphan(S) PROVE IInv'
    BY <1>5, RelayOrphanStep
  <1>6. CASE UNCHANGED vars
    <2> USE <1>6 DEF vars, clientVars, taskVars, handlerVars, countVars
    <2>1. TypeOK' /\ RelayedIsSaved' /\ HandlersInOrder'
      BY DEF IInv, TypeOK, RelayedIsSaved, HandlersInOrder
    <2>2. SendersHave' /\ AuthorsHave' /\ ClocksCount'
      BY SendersStay, Untouched
    <2>3. NothingMissed'
      BY ReachKept DEF IInv, Current, Reaching
    <2> QED
      BY <2>1, <2>2, <2>3 DEF IInv
  <1> QED
    BY <1>1, <1>2, <1>3, <1>4, <1>5, <1>6 DEF Next

\* The inductive invariant.
THEOREM Inductive == Spec => []IInv
  BY InitHolds, InvNext, PTL DEF Spec

\* The variables keep their types; in particular a clock never passes the
\* number of edits.
THEOREM TypeCorrect == Spec => []TypeOK
  <1>1. IInv => TypeOK
    BY DEF IInv
  <1> QED
    BY <1>1, Inductive, PTL

\* No channel, handler or connection holds an operation that the rows lack.
THEOREM RelayIsBackedByRows == Spec => []RelayedIsSaved
  <1>1. IInv => RelayedIsSaved
    BY DEF IInv
  <1> QED
    BY <1>1, Inductive, PTL

\* From its STEP_2 on, a connection misses no saved operation.
THEOREM ConnectionsMissNothing == Spec => []NothingMissed
  <1>1. IInv => NothingMissed
    BY DEF IInv
  <1> QED
    BY <1>1, Inductive, PTL
=============================================================================
