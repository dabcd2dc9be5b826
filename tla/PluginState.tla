----------------------------- MODULE PluginState ----------------------------
(***************************************************************************)
(* What the Obsidian plugin keeps on disk of its manifest                  *)
(* (obsidian-plugin/main.ts): manifest.bin and lamport.txt, written one    *)
(* after the other by the debounced persistManifest and read by connect(), *)
(* and the move of the directory they were in before version 1.1.6.        *)
(*                                                                         *)
(* Of a manifest only the newest of this client's own stamps matters: the  *)
(* actor id is kept in the settings, so that a clock that starts behind it *)
(* issues a stamp again.                                                   *)
(***************************************************************************)
EXTENDS Naturals, Sequences, FiniteSets

CONSTANTS
  MaxStamp,    \* bound: the newest stamp
  MaxStops,    \* bound: crashes, unloads and reconnects
  MaxWriters,  \* bound: overlapping calls of persistManifest
  MaxAmiss     \* bound: mishaps after which no other comes

Stamps == 0..MaxStamp

ASSUME PluginStateAssumption ==
  /\ MaxStamp \in Nat \ {0} /\ MaxStops \in Nat
  /\ MaxWriters \in Nat /\ MaxAmiss \in Nat

VARIABLES
  phase,      \* where onload or connect() is, or "off", or "running"
  legacy,     \* the directory of old versions
  target,     \* stateRoot
  newest,     \* the newest stamp in the client's manifest
  clock,      \* the client's lamport counter
  debounced,  \* a call of persistManifest is due
  writers,    \* calls of persistManifest that await a write, oldest first
  issued,     \* history: the newest stamp this actor has given out
  twice,      \* history: a stamp was given out again
  stops,
  amiss       \* history: see Mishaps

rootVars   == <<legacy, target>>
clientVars == <<newest, clock>>
writeVars  == <<debounced, writers>>
pastVars   == <<issued, twice>>
vars == <<phase, rootVars, clientVars, writeVars, pastVars, stops, amiss>>

Roots  == [there : BOOLEAN, manifest : Stamps, lamport : Stamps]
Absent == [there |-> FALSE, manifest |-> 0, lamport |-> 0]
Kept(s) == [there |-> TRUE, manifest |-> s, lamport |-> s]

\* What makes a session start from less than there was:
\*   unsaved     a client was given up before all of its manifest was written
\*   unread      manifest.bin could not be read
\*   unwritten   a write failed
\*   unmigrated  the old directory was left where it was
Mishaps == {"unsaved", "unread", "unwritten", "unmigrated"}

TypeOK ==
  /\ phase \in {"off", "migrate", "connect", "running"}
  /\ legacy \in Roots /\ target \in Roots
  /\ newest \in Stamps /\ clock \in Stamps
  /\ debounced \in BOOLEAN
  /\ writers \in Seq([phase : {"manifest", "orphan", "lamport"}, value : Stamps])
  /\ Len(writers) <= MaxWriters
  /\ issued \in Stamps
  /\ twice \in BOOLEAN
  /\ stops \in Nat
  /\ amiss \subseteq Mishaps

\* What versions before left, in either directory or in both.
Init ==
  /\ phase = "off"
  /\ \E s, t \in {0, 1} :
       /\ legacy \in {Absent, Kept(s)}
       /\ target \in {Absent, Kept(t)}
  /\ newest = 0 /\ clock = 0
  /\ debounced = FALSE /\ writers = << >>
  /\ issued = IF legacy.lamport <= target.lamport THEN target.lamport ELSE legacy.lamport
  /\ twice = FALSE
  /\ stops = 0
  /\ amiss = {}

-----------------------------------------------------------------------------
Note(kinds) ==
  /\ amiss' = amiss \cup kinds
  /\ kinds \subseteq amiss \/ Cardinality(amiss') <= MaxAmiss

When(condition, kind) == IF condition THEN {kind} ELSE {}

\* The old directory has what the new one has not.
LegacyIsAhead == legacy.lamport > target.lamport

-----------------------------------------------------------------------------
(* onload and connect() *)

Load ==
  /\ phase = "off"
  /\ phase' = "migrate"
  /\ UNCHANGED <<rootVars, clientVars, writeVars, pastVars, stops, amiss>>

\* (A bug for the runs to find: the old directory is not looked for.)
NothingEverToMove == TRUE

NothingToMove == ~legacy.there \/ target.there

\* There is nothing to move, or there are two directories and the plugin warns.
SkipMigration ==
  /\ phase = "migrate"
  /\ NothingToMove
  /\ phase' = "connect"
  /\ Note(When(legacy.there /\ target.there /\ LegacyIsAhead, "unmigrated"))
  /\ UNCHANGED <<rootVars, clientVars, writeVars, pastVars, stops>>

Migrate ==
  /\ phase = "migrate"
  /\ ~NothingToMove
  /\ phase' = "connect"
  /\ target' = legacy
  /\ legacy' = Absent
  /\ UNCHANGED <<clientVars, writeVars, pastVars, stops, amiss>>

\* A stat, the mkdir or the rename fails; the plugin goes on with no state.
MigrateFails ==
  /\ phase = "migrate"
  /\ phase' = "connect"
  /\ Note(When(legacy.there /\ LegacyIsAhead, "unmigrated"))
  /\ UNCHANGED <<rootVars, clientVars, writeVars, pastVars, stops>>

EnsureStateRoot == target' = [target EXCEPT !.there = TRUE]

\* loadManifestFromDisk, and loadManifestState or initManifest with what it read.
Connect ==
  /\ phase = "connect"
  /\ phase' = "running"
  /\ EnsureStateRoot
  /\ \/ /\ newest' = target.manifest
        /\ clock' = IF target.manifest = 0 THEN 0 ELSE target.lamport
        /\ UNCHANGED amiss
     \/ /\ target.manifest # 0
        /\ newest' = 0 /\ clock' = 0
        /\ Note({"unread"})
  /\ UNCHANGED <<legacy, writeVars, pastVars, stops>>

-----------------------------------------------------------------------------
(* The running client *)

\* A change of the user's: the clock ticks, the stamp goes into the manifest.
Change ==
  /\ phase = "running"
  /\ clock < MaxStamp
  /\ clock' = clock + 1
  /\ newest' = IF newest <= clock + 1 THEN clock + 1 ELSE newest
  /\ twice' = (twice \/ clock + 1 <= issued)
  /\ issued' = IF issued <= clock + 1 THEN clock + 1 ELSE issued
  /\ debounced' = TRUE
  /\ UNCHANGED <<phase, rootVars, writers, stops, amiss>>

\* The server's manifest has every stamp; the clock goes past it.
Catchup ==
  /\ phase = "running"
  /\ newest' = issued
  /\ clock' = IF clock <= issued THEN issued ELSE clock
  /\ debounced' = TRUE
  /\ UNCHANGED <<phase, rootVars, writers, pastVars, stops, amiss>>

\* (A bug for the runs to find: while a call writes, others are dropped.)
PersistOnce ==
  writers' = IF writers = << >> THEN << [phase |-> "manifest", value |-> newest] >> ELSE writers

\* persistManifest takes its snapshot and writes it.
Persist == writers' = Append(writers, [phase |-> "manifest", value |-> newest])

\* The 500 ms are over; without a client nothing is written, nor is anything
\* before the manifest is loaded.
DebounceEnds ==
  /\ debounced
  /\ Len(writers) < MaxWriters
  /\ debounced' = FALSE
  /\ IF phase = "running" THEN Persist ELSE UNCHANGED writers
  /\ UNCHANGED <<phase, rootVars, clientVars, pastVars, stops, amiss>>

Without(i) == [j \in 1..(Len(writers) - 1) |-> IF j < i THEN writers[j] ELSE writers[j + 1]]

\* The next write that the adapter, which keeps the order of a file's writes,
\* completes.  An orphan is a call of an instance that was unloaded.
Turn(i, phases) ==
  /\ i \in DOMAIN writers
  /\ writers[i].phase \in phases
  /\ \A j \in 1..(i - 1) : writers[j].phase \notin phases

ToManifest == {"manifest", "orphan"}

\* (A bug for the runs to find: the stamp that comes next.)
ClockAhead == clock + 1

ClockToWrite == clock

\* manifest.bin is written; lamport.txt will have the clock of the client there
\* is now, or throws when there is none.
WriteManifest(i) ==
  /\ Turn(i, ToManifest)
  /\ target' = [target EXCEPT !.there = TRUE, !.manifest = writers[i].value]
  /\ writers' = IF phase = "running" /\ writers[i].phase = "manifest"
                THEN [writers EXCEPT ![i] = [phase |-> "lamport", value |-> ClockToWrite]]
                ELSE Without(i)
  /\ UNCHANGED <<phase, legacy, clientVars, debounced, pastVars, stops, amiss>>

WriteLamport(i) ==
  /\ Turn(i, {"lamport"})
  /\ target' = [target EXCEPT !.there = TRUE, !.lamport = writers[i].value]
  /\ writers' = Without(i)
  /\ UNCHANGED <<phase, legacy, clientVars, debounced, pastVars, stops, amiss>>

WriteFails(i) ==
  /\ Turn(i, ToManifest) \/ Turn(i, {"lamport"})
  /\ writers' = Without(i)
  /\ Note({"unwritten"})
  /\ UNCHANGED <<phase, rootVars, clientVars, debounced, pastVars, stops>>

-----------------------------------------------------------------------------
(* The end of a client *)

Stop ==
  /\ stops < MaxStops /\ stops' = stops + 1
  /\ newest' = 0 /\ clock' = 0
  /\ UNCHANGED <<rootVars, pastVars>>

Unsaved == When(debounced \/ writers # << >>, "unsaved")

Crash ==
  /\ Stop
  /\ phase # "off"
  /\ phase' = "off"
  /\ debounced' = FALSE /\ writers' = << >>
  /\ Note(Unsaved)

\* onunload does not write what is due, and the next instance is another object.
Unload ==
  /\ Stop
  /\ phase = "running"
  /\ phase' = "off"
  /\ debounced' = FALSE
  /\ writers' = [i \in DOMAIN writers |->
                    [writers[i] EXCEPT !.phase = IF @ = "manifest" THEN "orphan" ELSE @]]
  /\ Note(Unsaved)

\* The Reconnect button: what is due is written with the client that comes.
Reconnect ==
  /\ Stop
  /\ phase = "running"
  /\ phase' = "connect"
  /\ Note(Unsaved)
  /\ UNCHANGED writeVars

Next ==
  \/ Load \/ SkipMigration \/ Migrate \/ MigrateFails \/ Connect
  \/ Change \/ Catchup \/ DebounceEnds
  \/ \E i \in 1..MaxWriters : WriteManifest(i) \/ WriteLamport(i) \/ WriteFails(i)
  \/ Crash \/ Unload \/ Reconnect

Spec == Init /\ [][Next]_vars

-----------------------------------------------------------------------------
(* Properties *)

\* No stamp is given out a second time, over any number of sessions, unless one
\* of the named mishaps made a session start from less than there was
\* (main.ts:463, 525, 542).
NoStampTwice == twice => amiss # {}

\* Once no write is due or under way, the disk has the client's manifest and its
\* clock, also when calls of persistManifest overlapped (main.ts:542, 561).
DiskIsCurrent ==
  phase = "running" /\ ~debounced /\ writers = << >> /\ amiss = {} =>
    target = [there |-> TRUE, manifest |-> newest, lamport |-> clock]
=============================================================================
