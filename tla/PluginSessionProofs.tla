------------------------- MODULE PluginSessionProofs -------------------------
(***************************************************************************)
(* Proofs about PluginSession, for any set of calls of connect() and any   *)
(* bounds on faults, slow attempts and clicks.                             *)
(***************************************************************************)
EXTENDS PluginSession, TLAPS

\* A call past initWasm holds on to nothing but this.client, so NeverStranded
\* needs no more than the types.  QuietUnloadIsFinal needs to know that
\* nothing is under way before the plugin is loaded, and that a plugin
\* unloaded at rest is the end of it.
RestsBeforeLoad ==
  phase = "off" =>
    /\ ~timer /\ ~ticking /\ ~wanted /\ ~quiet
    /\ client = NoClient
    /\ \A k \in Calls : at[k] = "idle"

\* Call k will make a client or a socket.
Opens(k) == at[k] \in {"wasm", "disk"}

\* OneLiveClient needs to know why a call finds no live socket: a timer is
\* only set, and a call only begun, when there is none and nothing else is
\* about to make one.
OneAtATime ==
  slow = 0 /\ clicks = 0 =>
    /\ \A k \in Calls : Live(k) => k = client
    /\ phase = "off" \/ timer \/ (\E k \in Calls : Opens(k)) => \A k \in Calls : ~Live(k)
    /\ timer => \A k \in Calls : ~Opens(k)
    /\ \A k, j \in Calls : Opens(k) /\ Opens(j) => k = j

IInv == TypeOK /\ RestsBeforeLoad /\ NeverStranded /\ QuietUnloadIsFinal /\ OneAtATime

-----------------------------------------------------------------------------
(* The operators of the model *)

\* Replacing one socket gives sockets.
LEMMA SocketTypes ==
  ASSUME TypeOK
  PROVE  /\ \A k \in Calls, s \in Sockets : [socket EXCEPT ![k] = s] \in [Calls -> Sockets]
         /\ Hangup \in [Calls -> Sockets]
  <1>1. \A k \in Calls, s \in Sockets : [socket EXCEPT ![k] = s] \in [Calls -> Sockets]
    BY DEF TypeOK
  <1> QED
    BY <1>1 DEF TypeOK, Hangup, Sockets

\* A call of connect() begins with the types in order, and asks for a
\* connection.
LEMMA BeginCallTypes ==
  ASSUME TypeOK, NEW k \in Calls,
         NEW from \in Calls \cup {NoClient}, NEW sockets \in [Calls -> Sockets],
         BeginCall(k, from, sockets)
  PROVE  /\ client' = from
         /\ at' \in [Calls -> Awaits \cup {"idle"}]
         /\ at'[k] = "wasm"
         /\ socket' \in [Calls -> Sockets]
         /\ timer' = FALSE
         /\ status' \in Statuses
         /\ wanted' = TRUE
  BY DEF BeginCall, TypeOK, Sockets, Awaits, Statuses

\* A failed call leaves the reconnect timer set.
LEMMA CatchTypes ==
  ASSUME TypeOK, NEW k \in Calls, Catch(k)
  PROVE  /\ at' \in [Calls -> Awaits \cup {"idle"}]
         /\ timer' = TRUE
         /\ status' \in Statuses
         /\ UNCHANGED <<phase, client, ticking, was, ticks, wanted, quiet>>
  BY DEF Catch, ScheduleReconnect, TypeOK, Awaits, Statuses, historyVars

\* The bounds only count.
LEMMA BoundTypes ==
  ASSUME TypeOK, Fault \/ Click \/ InTime
  PROVE  faults' \in Nat /\ slow' \in Nat /\ clicks' \in Nat
  BY DEF TypeOK, Fault, Click, InTime

\* What a step that leaves the rest alone has to show.
LEMMA SessionTypes ==
  ASSUME TypeOK, UNCHANGED <<phase, client, was, ticks, historyVars>>,
         at' \in [Calls -> Awaits \cup {"idle"}], socket' = socket,
         timer' \in BOOLEAN, ticking' = ticking, status' \in Statuses,
         faults' \in Nat, slow' \in Nat, clicks' \in Nat
  PROVE  TypeOK'
  BY DEF TypeOK, historyVars

-----------------------------------------------------------------------------
(* Every action, by what it may disturb *)

\* The steps of a call that is under way.
LEMMA ProceedTypes ==
  ASSUME TypeOK, NEW k \in Calls, Proceed(k) \/ Throw(k)
  PROVE  TypeOK'
  <1> USE PluginSessionAssumption DEF TypeOK, timerVars, boundVars, historyVars, Awaits
  <1>1. CASE MakeClient(k)
    BY <1>1 DEF MakeClient
  <1>2. CASE OpenSocket(k)
    <2>1. client \in Calls /\ socket' \in [Calls -> Sockets]
      BY <1>2, SocketTypes DEF OpenSocket, HasNoSocket, Sockets
    <2> QED
      BY <1>2, <2>1 DEF OpenSocket
  <1>3. CASE OpenThrows(k)
    BY <1>3, CatchTypes DEF OpenThrows
  <1>4. CASE HandshakeDone(k)
    BY <1>4 DEF HandshakeDone
  <1>5. CASE HandshakeTimesOut(k)
    BY <1>5, CatchTypes, BoundTypes, SessionTypes DEF HandshakeTimesOut
  <1>6. CASE Finish(k)
    <2>1. at' \in [Calls -> Awaits \cup {"idle"}] /\ ticks' \in 0..GiveUp
      BY <1>6 DEF Finish
    <2> QED
      BY <1>6, <2>1 DEF Finish
  <1>7. CASE Throw(k)
    BY <1>7, CatchTypes, BoundTypes, SessionTypes DEF Throw
  <1> QED
    BY <1>1, <1>2, <1>3, <1>4, <1>5, <1>6, <1>7 DEF Proceed

\* The interval.
LEMMA TickTypes == TypeOK /\ Tick => TypeOK'
  <1> SUFFICES ASSUME TypeOK, Tick PROVE TypeOK'
    OBVIOUS
  <1> USE PluginSessionAssumption
      DEF TypeOK, timerVars, clientVars, boundVars, historyVars, Statuses, InTime, ScheduleReconnect
  <1>1. CASE TickWithoutClient
    BY <1>1 DEF TickWithoutClient
  <1>2. CASE TickConnected
    BY <1>2 DEF TickConnected
  <1>3. CASE TickLost
    <2>1. faults' \in Nat /\ slow' \in Nat /\ clicks' \in Nat /\ ticks' \in 0..GiveUp
      BY <1>3 DEF TickLost
    <2> QED
      BY <1>3, <2>1 DEF TickLost
  <1>4. CASE TickGivesUp
    BY <1>4 DEF TickGivesUp
  <1>5. CASE TickWaits
    BY <1>5 DEF TickWaits, PastLimit
  <1> QED
    BY <1>1, <1>2, <1>3, <1>4, <1>5 DEF Tick

\* Every step keeps the types.
LEMMA TypeNext == TypeOK /\ [Next]_vars => TypeOK'
  <1> SUFFICES ASSUME TypeOK, [Next]_vars PROVE TypeOK'
    OBVIOUS
  <1> USE PluginSessionAssumption DEF timerVars, clientVars, boundVars, historyVars
  <1>1. ASSUME NEW k \in Calls, Proceed(k) \/ Throw(k) PROVE TypeOK'
    BY <1>1, ProceedTypes
  <1>2. ASSUME NEW k \in Calls, SocketOpens(k) PROVE TypeOK'
    BY <1>2, SocketTypes DEF SocketOpens, TypeOK, Sockets
  <1>3. ASSUME NEW k \in Calls, SocketCloses(k) PROVE TypeOK'
    BY <1>3, SocketTypes DEF SocketCloses, Fault, TypeOK, Sockets
  <1>4. CASE TimerFires
    <2>1. PICK k \in Calls : BeginCall(k, client, socket)
      BY <1>4 DEF TimerFires
    <2> QED
      BY <1>4, <2>1, BeginCallTypes DEF TimerFires, TypeOK
  <1>5. CASE Tick
    BY <1>5, TickTypes
  <1>6. ASSUME NEW autoSync \in BOOLEAN, Load(autoSync) PROVE TypeOK'
    <2>1. CASE autoSync
      <3>1. PICK k \in Calls : BeginCall(k, client, socket)
        BY <1>6, <2>1 DEF Load
      <3> QED
        BY <1>6, <3>1, BeginCallTypes DEF Load, TypeOK
    <2>2. CASE ~autoSync
      BY <1>6, <2>2 DEF Load, TypeOK
    <2> QED
      BY <2>1, <2>2
  <1>7. CASE StatusClick
    <2>1. PICK k \in Calls : BeginCall(k, client, socket)
      BY <1>7 DEF StatusClick
    <2> QED
      BY <1>7, <2>1, BeginCallTypes, BoundTypes DEF StatusClick, TypeOK
  <1>8. CASE ReconnectClick
    <2>1. PICK k \in Calls : BeginCall(k, NoClient, Hangup)
      BY <1>8 DEF ReconnectClick
    <2> QED
      BY <1>8, <2>1, BeginCallTypes, BoundTypes, SocketTypes DEF ReconnectClick, StopTimers, TypeOK
  <1>9. CASE Unload
    BY <1>9, SocketTypes DEF Unload, StopTimers, TypeOK, Statuses
  <1>10. CASE UNCHANGED vars
    BY <1>10 DEF vars, TypeOK
  <1> QED
    BY <1>1, <1>2, <1>3, <1>4, <1>5, <1>6, <1>7, <1>8, <1>9, <1>10 DEF Next

\* Before the plugin is loaded nothing happens, and afterwards it is not the
\* time before any more.
LEMMA RestNext ==
  ASSUME TypeOK, RestsBeforeLoad, [Next]_vars
  PROVE  RestsBeforeLoad'
  <1> SUFFICES ASSUME phase' = "off"
               PROVE  UNCHANGED <<phase, timer, ticking, wanted, quiet, client, at>>
    <2>1. UNCHANGED <<phase, timer, ticking, wanted, quiet, client, at>> => RestsBeforeLoad'
      BY DEF RestsBeforeLoad
    <2> QED
      BY <2>1 DEF RestsBeforeLoad
  <1> USE DEF RestsBeforeLoad, timerVars, clientVars, boundVars, historyVars
  <1>1. phase = "off"
    BY DEF Next, Proceed, Throw, MakeClient, OpenSocket, OpenThrows, HandshakeDone,
           HandshakeTimesOut, Finish, Catch, SocketOpens, SocketCloses, TimerFires, Tick,
           TickWithoutClient, TickConnected, TickLost, TickGivesUp, TickWaits, Load, StatusClick,
           ReconnectClick, Unload, vars
  <1>2. ASSUME NEW k \in Calls PROVE ~Proceed(k) /\ ~Throw(k)
    BY <1>1 DEF Proceed, Throw, MakeClient, OpenSocket, OpenThrows, HandshakeDone,
           HandshakeTimesOut, Finish
  <1>3. ~TimerFires /\ ~Tick
    BY <1>1 DEF TimerFires, Tick, TickWithoutClient, TickConnected, TickLost, TickGivesUp, TickWaits
  <1>4. ~StatusClick /\ ~ReconnectClick /\ ~Unload
    BY <1>1 DEF StatusClick, ReconnectClick, Unload
  <1>5. ASSUME NEW autoSync \in BOOLEAN PROVE ~Load(autoSync)
    BY DEF Load
  <1>6. ASSUME NEW k \in Calls, SocketOpens(k) \/ SocketCloses(k)
        PROVE  UNCHANGED <<phase, timer, ticking, wanted, quiet, client, at>>
    BY <1>6 DEF SocketOpens, SocketCloses
  <1>7. CASE UNCHANGED vars
    BY <1>7 DEF vars
  <1> QED
    BY <1>2, <1>3, <1>4, <1>5, <1>6, <1>7 DEF Next

\* What a step shows that leaves something to bring the connection back.
LEMMA StrandedNext ==
  ASSUME TypeOK, RestsBeforeLoad, NeverStranded, [Next]_vars
  PROVE  NeverStranded'
  <1> SUFFICES ASSUME phase' = "loaded", wanted', ~timer',
                      \A k \in Calls : at'[k] # "wasm"
               PROVE  client' # NoClient /\ (ticking' \/ \E k \in Calls : at'[k] # "idle")
    BY DEF NeverStranded
  <1> USE DEF timerVars, clientVars, boundVars, historyVars
  <1>1. ASSUME NEW k \in Calls, NEW from \in Calls \cup {NoClient}, NEW sockets \in [Calls -> Sockets],
               BeginCall(k, from, sockets)
        PROVE  FALSE
    BY <1>1, BeginCallTypes
  <1>2. ASSUME NEW k \in Calls, Catch(k) PROVE FALSE
    BY <1>2, CatchTypes
  <1>3. ASSUME NEW k \in Calls, MakeClient(k)
        PROVE  client' # NoClient /\ at'[k] # "idle"
    BY <1>3, PluginSessionAssumption DEF MakeClient, TypeOK
  <1>4. ASSUME NEW k \in Calls, OpenSocket(k)
        PROVE  client' # NoClient /\ at'[k] # "idle"
    BY <1>4 DEF OpenSocket, HasNoSocket, TypeOK
  <1>5. ASSUME NEW k \in Calls, HandshakeDone(k)
        PROVE  client' # NoClient /\ at'[k] # "idle"
    BY <1>5 DEF HandshakeDone, Connected, TypeOK
  <1>6. ASSUME NEW k \in Calls, Finish(k)
        PROVE  client' # NoClient /\ ticking'
    <2>1. \A j \in Calls : at[j] # "wasm"
      BY <1>6 DEF Finish, TypeOK
    <2> QED
      BY <1>6, <2>1 DEF Finish, NeverStranded
  <1>7. ASSUME NEW k \in Calls, OpenThrows(k) \/ HandshakeTimesOut(k) \/ Throw(k) PROVE FALSE
    BY <1>7, <1>2 DEF OpenThrows, HandshakeTimesOut, Throw
  <1>8. CASE TimerFires
    BY <1>8, <1>1 DEF TimerFires, TypeOK
  <1>9. ASSUME NEW autoSync \in BOOLEAN, Load(autoSync) PROVE FALSE
    <2>1. CASE autoSync
      BY <1>9, <2>1, <1>1 DEF Load, TypeOK
    <2>2. CASE ~autoSync
      BY <1>9, <2>2 DEF Load, RestsBeforeLoad
    <2> QED
      BY <2>1, <2>2
  <1>10. CASE StatusClick \/ ReconnectClick
    BY <1>10, <1>1, SocketTypes DEF StatusClick, ReconnectClick, TypeOK
  <1>11. CASE Unload
    BY <1>11 DEF Unload
  <1>12. CASE Tick
    <2>1. /\ UNCHANGED <<phase, client, at, ticking, wanted>>
          /\ timer => timer'
      <3> USE DEF ScheduleReconnect
      <3>1. CASE TickWithoutClient
        BY <3>1 DEF TickWithoutClient
      <3>2. CASE TickConnected
        BY <3>2 DEF TickConnected
      <3>3. CASE TickLost \/ TickGivesUp
        BY <3>3 DEF TickLost, TickGivesUp
      <3>4. CASE TickWaits
        BY <3>4 DEF TickWaits
      <3> QED
        BY <1>12, <3>1, <3>2, <3>3, <3>4 DEF Tick
    <2> QED
      BY <2>1 DEF NeverStranded
  <1>13. CASE UNCHANGED vars \/ \E k \in Calls : SocketOpens(k) \/ SocketCloses(k)
    BY <1>13 DEF vars, SocketOpens, SocketCloses, NeverStranded
  <1> QED
    BY <1>3, <1>4, <1>5, <1>6, <1>7, <1>8, <1>9, <1>10, <1>11, <1>12, <1>13 DEF Next, Proceed

\* The quiet end of the plugin is reached by Unload alone, and nothing leads
\* out of it.
LEMMA QuietNext ==
  ASSUME TypeOK, QuietUnloadIsFinal, [Next]_vars
  PROVE  QuietUnloadIsFinal'
  <1> SUFFICES ASSUME phase' = "unloaded", quiet' PROVE QuietUnloadIsFinal'
    BY DEF QuietUnloadIsFinal
  <1> USE DEF timerVars, clientVars, boundVars, historyVars
  <1>1. CASE Unload
    BY <1>1 DEF Unload, StopTimers, QuietUnloadIsFinal
  <1>2. CASE ~Unload
    <2>1. phase = "unloaded" /\ quiet
      BY <1>2 DEF Next, Proceed, Throw, MakeClient, OpenSocket, OpenThrows, HandshakeDone,
           HandshakeTimesOut, Finish, Catch, SocketOpens, SocketCloses, TimerFires, Tick,
           TickWithoutClient, TickConnected, TickLost, TickGivesUp, TickWaits, Load, StatusClick,
           ReconnectClick, vars
    <2>2. ~timer /\ ~ticking /\ client = NoClient /\ \A k \in Calls : at[k] = "idle"
      BY <2>1 DEF QuietUnloadIsFinal
    <2>3. ASSUME NEW k \in Calls PROVE ~Proceed(k) /\ ~Throw(k)
      BY <2>2 DEF Proceed, Throw, MakeClient, OpenSocket, OpenThrows, HandshakeDone,
             HandshakeTimesOut, Finish
    <2>4. ~TimerFires /\ ~Tick
      BY <2>2 DEF TimerFires, Tick, TickWithoutClient, TickConnected, TickLost, TickGivesUp, TickWaits
    <2>5. ~StatusClick /\ ~ReconnectClick /\ \A autoSync \in BOOLEAN : ~Load(autoSync)
      BY <2>1 DEF StatusClick, ReconnectClick, Load
    <2>6. CASE UNCHANGED vars \/ \E k \in Calls : SocketOpens(k) \/ SocketCloses(k)
      BY <2>2, <2>6 DEF vars, SocketOpens, SocketCloses, QuietUnloadIsFinal
    <2> QED
      BY <1>2, <2>3, <2>4, <2>5, <2>6 DEF Next
  <1> QED
    BY <1>1, <1>2

\* Every step leaves the bounds alone or counts one of them.
LEMMA BoundsNext ==
  ASSUME [Next]_vars
  PROVE  UNCHANGED boundVars \/ Fault \/ Click \/ InTime
  <1>1. ASSUME NEW k \in Calls, Proceed(k) \/ Throw(k)
        PROVE  UNCHANGED boundVars \/ Fault \/ InTime
    BY <1>1 DEF Proceed, Throw, MakeClient, OpenSocket, OpenThrows, HandshakeDone,
                HandshakeTimesOut, Finish
  <1>2. ASSUME NEW k \in Calls, SocketOpens(k) \/ SocketCloses(k)
        PROVE  UNCHANGED boundVars \/ Fault
    BY <1>2 DEF SocketOpens, SocketCloses
  <1>3. Tick => UNCHANGED boundVars \/ InTime
    BY DEF Tick, TickWithoutClient, TickConnected, TickLost, TickGivesUp, TickWaits
  <1>4. TimerFires \/ Unload => UNCHANGED boundVars
    BY DEF TimerFires, Unload
  <1>5. StatusClick \/ ReconnectClick => Click
    BY DEF StatusClick, ReconnectClick
  <1>6. \A autoSync \in BOOLEAN : Load(autoSync) => UNCHANGED boundVars
    BY DEF Load
  <1>7. UNCHANGED vars => UNCHANGED boundVars
    BY DEF vars
  <1> QED
    BY <1>1, <1>2, <1>3, <1>4, <1>5, <1>6, <1>7 DEF Next

\* Without slow attempts and clicks, attempts follow one another.
LEMMA OneNext ==
  ASSUME TypeOK, RestsBeforeLoad, OneAtATime, [Next]_vars
  PROVE  OneAtATime'
  <1> SUFFICES ASSUME slow' = 0, clicks' = 0 PROVE OneAtATime'
    BY DEF OneAtATime
  <1> USE DEF timerVars, clientVars, boundVars, historyVars, Opens, Live
  <1>1. slow = 0 /\ clicks = 0
    BY BoundsNext DEF TypeOK, Fault, Click, InTime
  <1>2. /\ \A k \in Calls : Live(k) => k = client
        /\ phase = "off" \/ timer \/ (\E k \in Calls : Opens(k)) => \A k \in Calls : ~Live(k)
        /\ timer => \A k \in Calls : ~Opens(k)
        /\ \A k, j \in Calls : Opens(k) /\ Opens(j) => k = j
    BY <1>1 DEF OneAtATime
  <1>3. ~StatusClick /\ ~ReconnectClick
    BY <1>1 DEF StatusClick, ReconnectClick, Click
  <1>4. InTime => ~UnderWay
    BY <1>1 DEF InTime
  <1>5. InTime /\ ~Connected => \A k \in Calls : ~Live(k) /\ ~Opens(k)
    BY <1>2, <1>4, PluginSessionAssumption DEF UnderWay, Opening, Connected
  <1>6. ASSUME NEW k \in Calls, BeginCall(k, client, socket),
               \A j \in Calls : ~Live(j) /\ ~Opens(j)
        PROVE  OneAtATime'
    BY <1>6 DEF BeginCall, OneAtATime, TypeOK
  <1>7. ASSUME NEW k \in Calls, MakeClient(k) PROVE OneAtATime'
    BY <1>2, <1>7 DEF MakeClient, OneAtATime, TypeOK
  <1>8. ASSUME NEW k \in Calls, Catch(k), UNCHANGED socket, Opens(k) PROVE OneAtATime'
    BY <1>2, <1>8 DEF Catch, ScheduleReconnect, OneAtATime, TypeOK
  <1>9. ASSUME NEW k \in Calls, OpenSocket(k) PROVE OneAtATime'
    <2>1. client \in Calls /\ \A j \in Calls : j # k => ~Opens(j)
      BY <1>2, <1>9 DEF OpenSocket, HasNoSocket, TypeOK
    <2>2. ~timer /\ phase # "off" /\ \A j \in Calls : ~Live(j)
      BY <1>2, <1>9 DEF OpenSocket, RestsBeforeLoad
    <2>3. \A j \in Calls : ~Opens(j)'
      BY <1>9, <2>1 DEF OpenSocket, TypeOK
    <2>4. \A j \in Calls : Live(j)' => j = client'
      BY <1>9, <2>2 DEF OpenSocket, TypeOK
    <2> QED
      BY <1>9, <2>2, <2>3, <2>4 DEF OpenSocket, OneAtATime
  <1>10. ASSUME NEW k \in Calls, HandshakeDone(k) \/ Finish(k) PROVE OneAtATime'
    BY <1>2, <1>10 DEF HandshakeDone, Finish, OneAtATime, TypeOK
  <1>11. ASSUME NEW k \in Calls, HandshakeTimesOut(k) PROVE OneAtATime'
    BY <1>5, <1>11 DEF HandshakeTimesOut, Catch, OneAtATime, TypeOK
  <1>12. CASE TimerFires
    BY <1>2, <1>6, <1>12 DEF TimerFires
  <1>13. ASSUME NEW autoSync \in BOOLEAN, Load(autoSync) PROVE OneAtATime'
    <2>1. \A j \in Calls : ~Live(j) /\ ~Opens(j)
      BY <1>2, <1>13 DEF Load, RestsBeforeLoad
    <2> QED
      BY <1>6, <1>13, <2>1 DEF Load, OneAtATime
  <1>14. CASE TickWithoutClient \/ TickConnected \/ TickWaits
    <2>1. UNCHANGED <<phase, client, at, socket, timer>>
      <3>1. CASE TickWithoutClient
        BY <3>1 DEF TickWithoutClient
      <3>2. CASE TickConnected
        BY <3>2 DEF TickConnected
      <3>3. CASE TickWaits
        BY <3>3 DEF TickWaits
      <3> QED
        BY <1>14, <3>1, <3>2, <3>3
    <2> QED
      BY <1>2, <2>1 DEF OneAtATime
  <1>15. CASE TickLost \/ TickGivesUp
    BY <1>5, <1>15 DEF TickLost, TickGivesUp, OneAtATime
  <1>16. ASSUME NEW k \in Calls, SocketOpens(k) \/ SocketCloses(k) PROVE OneAtATime'
    BY <1>2, <1>16 DEF SocketOpens, SocketCloses, OneAtATime, TypeOK
  <1>17. CASE Unload
    <2>1. \A j \in Calls : ~Live(j)'
      BY <1>2, <1>17, PluginSessionAssumption DEF Unload, Hangup, TypeOK
    <2> QED
      BY <1>2, <1>17, <2>1 DEF Unload, StopTimers, OneAtATime
  <1>18. CASE UNCHANGED vars
    BY <1>2, <1>18 DEF vars, OneAtATime
  <1>19. ASSUME NEW k \in Calls, Proceed(k) \/ Throw(k) PROVE OneAtATime'
    BY <1>7, <1>8, <1>9, <1>10, <1>11, <1>19 DEF Proceed, Throw, OpenThrows
  <1>20. CASE Tick
    BY <1>14, <1>15, <1>20 DEF Tick
  <1> QED
    BY <1>3, <1>12, <1>13, <1>16, <1>17, <1>18, <1>19, <1>20 DEF Next

-----------------------------------------------------------------------------
(* The theorems *)

\* The inductive invariant.
THEOREM Inductive == Spec => []IInv
  <1>1. ASSUME Init PROVE IInv
    <2>1. TypeOK
      <3>1. ticks \in 0..GiveUp
        BY <1>1, PluginSessionAssumption DEF Init
      <3>2. at \in [Calls -> Awaits \cup {"idle"}] /\ socket \in [Calls -> Sockets]
        BY <1>1 DEF Init, Sockets
      <3> QED
        BY <1>1, <3>1, <3>2 DEF Init, TypeOK, Statuses
    <2>2. RestsBeforeLoad
      BY <1>1 DEF Init, RestsBeforeLoad
    <2>3. NeverStranded /\ QuietUnloadIsFinal
      BY <1>1 DEF Init, NeverStranded, QuietUnloadIsFinal
    <2>4. OneAtATime
      BY <1>1 DEF Init, OneAtATime, Live, Opens
    <2> QED
      BY <2>1, <2>2, <2>3, <2>4 DEF IInv
  <1>2. IInv /\ [Next]_vars => IInv'
    BY TypeNext, RestNext, StrandedNext, QuietNext, OneNext DEF IInv
  <1> QED
    BY <1>1, <1>2, PTL DEF Spec

\* The variables keep their types.
THEOREM TypeCorrect == Spec => []TypeOK
  <1>1. IInv => TypeOK
    BY DEF IInv
  <1> QED
    BY <1>1, Inductive, PTL

\* A loaded plugin that has ever called connect() has something left that
\* will bring the connection back, however many calls of connect() overlap
\* and wherever they fail.
THEOREM SomethingIsUnderWay == Spec => []NeverStranded
  <1>1. IInv => NeverStranded
    BY DEF IInv
  <1> QED
    BY <1>1, Inductive, PTL

\* A plugin that is unloaded with no connect() under way stays at rest.
THEOREM UnloadedForGood == Spec => []QuietUnloadIsFinal
  <1>1. IInv => QuietUnloadIsFinal
    BY DEF IInv
  <1> QED
    BY <1>1, Inductive, PTL

\* As long as no timer runs out on an attempt that is under way and nobody
\* clicks, the plugin never holds two live connections.
THEOREM OneConnection == Spec => []OneLiveClient
  <1>1. IInv => OneLiveClient
    BY DEF IInv, OneAtATime, OneLiveClient
  <1> QED
    BY <1>1, Inductive, PTL
=============================================================================
