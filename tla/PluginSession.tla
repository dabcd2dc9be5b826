--------------------------- MODULE PluginSession ---------------------------
(***************************************************************************)
(* The life of the Obsidian plugin's connection (obsidian-plugin/main.ts): *)
(* connect() with its awaits, the handshake poll, the reconnect timer, the *)
(* status interval, the buttons that call connect() again, onload and      *)
(* onunload; and the socket of the WASM client that it drives              *)
(* (wasm_client_v1.rs).                                                    *)
(*                                                                         *)
(* connect() is not single-flighted.  Several calls can be under way, each *)
(* suspended at an await, and all of them act on the one field this.client *)
(* as they find it when they resume.  A call and the client it makes have  *)
(* the same name; a name is used again once the call is over and its       *)
(* client replaced, and a replaced client is forgotten only then.          *)
(***************************************************************************)
EXTENDS Naturals

CONSTANTS
  Calls,      \* calls of connect(), and the clients they make
  NoClient,   \* this.client is null
  GiveUp,     \* ticks without a connection after which the interval retries
  MaxFaults,  \* bound: awaits that throw, refused and lost connections
  MaxSlow,    \* bound: timers that run out on an attempt still under way
  MaxClicks   \* bound: uses of the buttons

ASSUME PluginSessionAssumption ==
  /\ NoClient \notin Calls
  /\ GiveUp \in Nat
  /\ MaxFaults \in Nat
  /\ MaxSlow \in Nat
  /\ MaxClicks \in Nat

VARIABLES
  phase,     \* "off", "loaded", "unloaded"
  client,    \* this.client
  at,        \* at[k]: the await where call k is suspended, or "idle"
  socket,    \* socket[k]: the WebSocket of the client that call k made
  timer,     \* reconnectTimeout is not null
  ticking,   \* statusCheckInterval is not null
  was, ticks,\* wasConnected and ticksDisconnected of the interval's closure
  status,    \* syncStatus
  (* bounds and history *)
  faults, slow, clicks,
  wanted,    \* connect() has been called
  quiet      \* onunload ran when no call was under way

timerVars  == <<timer, ticking, was, ticks>>
clientVars == <<client, at, socket>>
boundVars  == <<faults, slow, clicks>>
historyVars == <<wanted, quiet>>
vars == <<phase, clientVars, timerVars, status, boundVars, historyVars>>

Awaits   == {"wasm", "disk", "handshake", "scan"}
Sockets  == {"none", "opening", "open", "closed"}
Statuses == {"synced", "syncing", "error", "disconnected"}

TypeOK ==
  /\ phase \in {"off", "loaded", "unloaded"}
  /\ client \in Calls \cup {NoClient}
  /\ at \in [Calls -> Awaits \cup {"idle"}]
  /\ socket \in [Calls -> Sockets]
  /\ timer \in BOOLEAN
  /\ ticking \in BOOLEAN
  /\ was \in BOOLEAN
  /\ ticks \in 0..GiveUp
  /\ status \in Statuses
  /\ faults \in Nat /\ slow \in Nat /\ clicks \in Nat
  /\ wanted \in BOOLEAN
  /\ quiet \in BOOLEAN

Init ==
  /\ phase = "off"
  /\ client = NoClient
  /\ at = [k \in Calls |-> "idle"]
  /\ socket = [k \in Calls |-> "none"]
  /\ timer = FALSE
  /\ ticking = FALSE
  /\ was = FALSE
  /\ ticks = 0
  /\ status = "disconnected"
  /\ faults = 0 /\ slow = 0 /\ clicks = 0
  /\ wanted = FALSE
  /\ quiet = FALSE

-----------------------------------------------------------------------------
(* Queries *)

\* isConnected() of the current client; false when there is none.
Connected == client # NoClient /\ socket[client] = "open"

\* The socket of the current client has been made and not yet answered.
Opening == client # NoClient /\ socket[client] = "opening"

\* There is a client, and its connect() has not been called.
HasNoSocket == client # NoClient /\ socket[client] = "none"

\* An attempt is on its way to an open socket, and would get there in time.
UnderWay == Opening \/ \E k \in Calls : at[k] \in {"wasm", "disk"}

Live(k) == socket[k] \in {"opening", "open"}

\* No call k is under way, and its client has been replaced.
Spare(k) == at[k] = "idle" /\ k # client

Fault == faults < MaxFaults /\ faults' = faults + 1 /\ UNCHANGED <<slow, clicks>>
Click == clicks < MaxClicks /\ clicks' = clicks + 1 /\ UNCHANGED <<faults, slow>>

\* A timer may run out on an attempt under way only so many times.
InTime ==
  /\ IF UnderWay THEN slow < MaxSlow /\ slow' = slow + 1 ELSE UNCHANGED slow
  /\ UNCHANGED <<faults, clicks>>

-----------------------------------------------------------------------------
(* connect() *)

\* (A bug for the runs to find: the timer is not cleared.)
BeginCallKeepingTimer(k, from, sockets) ==
  /\ at' = [at EXCEPT ![k] = "wasm"]
  /\ socket' = [sockets EXCEPT ![k] = "none"]
  /\ client' = from
  /\ timer' = timer
  /\ status' = "syncing"
  /\ wanted' = TRUE

\* Up to the first await: the timer is cleared, the status set.
BeginCall(k, from, sockets) ==
  /\ at' = [at EXCEPT ![k] = "wasm"]
  /\ socket' = [sockets EXCEPT ![k] = "none"]
  /\ client' = from
  /\ timer' = FALSE
  /\ status' = "syncing"
  /\ wanted' = TRUE

\* scheduleReconnect returns early when a timer is set.
ScheduleReconnect == timer' = TRUE

\* (A bug for the runs to find: an error that is only reported.)
CatchWithoutRetry(k) ==
  /\ at' = [at EXCEPT ![k] = "idle"]
  /\ status' = "error"
  /\ UNCHANGED <<phase, client, timer, ticking, was, ticks, historyVars>>

\* The catch block.
Catch(k) ==
  /\ at' = [at EXCEPT ![k] = "idle"]
  /\ status' = "error"
  /\ ScheduleReconnect
  /\ UNCHANGED <<phase, client, ticking, was, ticks, historyVars>>

\* initWasm resolved: this.client is replaced, whatever it was.
MakeClient(k) ==
  /\ at[k] = "wasm"
  /\ client' = k
  /\ at' = [at EXCEPT ![k] = "disk"]
  /\ UNCHANGED <<phase, socket, timerVars, status, boundVars, historyVars>>

\* The awaits up to here can throw: WASM, settings, the state directory.
Throw(k) ==
  /\ at[k] \in {"wasm", "disk"}
  /\ Fault
  /\ Catch(k)
  /\ UNCHANGED socket

\* The manifest is loaded into this.client and its socket made.
OpenSocket(k) ==
  /\ at[k] = "disk"
  /\ HasNoSocket
  /\ socket' = [socket EXCEPT ![client] = "opening"]
  /\ at' = [at EXCEPT ![k] = "handshake"]
  /\ UNCHANGED <<phase, client, timerVars, status, boundVars, historyVars>>

\* this.client is null, or another call's and "already connected".
OpenThrows(k) ==
  /\ at[k] = "disk"
  /\ ~HasNoSocket
  /\ Catch(k)
  /\ UNCHANGED <<socket, boundVars>>

\* A poll finds the current client connected; the scan starts.
HandshakeDone(k) ==
  /\ at[k] = "handshake"
  /\ Connected
  /\ at' = [at EXCEPT ![k] = "scan"]
  /\ UNCHANGED <<phase, client, socket, timerVars, status, boundVars, historyVars>>

\* HANDSHAKE_TIMEOUT_MS are over.
HandshakeTimesOut(k) ==
  /\ at[k] = "handshake"
  /\ ~Connected
  /\ InTime
  /\ Catch(k)
  /\ UNCHANGED socket

\* (A bug for the runs to find: nothing watches the connection.)
FinishUnwatched(k) ==
  /\ at[k] = "scan"
  /\ at' = [at EXCEPT ![k] = "idle"]
  /\ UNCHANGED <<phase, client, socket, timerVars, status, boundVars, historyVars>>

\* scanLocalVault and reconcileProjection, which catch their errors, are
\* over, and startStatusCheck replaces the interval.
Finish(k) ==
  /\ at[k] = "scan"
  /\ at' = [at EXCEPT ![k] = "idle"]
  /\ ticking' = TRUE
  /\ was' = FALSE
  /\ ticks' = 0
  /\ UNCHANGED <<phase, client, socket, timer, status, boundVars, historyVars>>

TimerFires ==
  /\ timer
  /\ \E k \in Calls : Spare(k) /\ BeginCall(k, client, socket)
  /\ UNCHANGED <<phase, ticking, was, ticks, boundVars, quiet>>

-----------------------------------------------------------------------------
(* The interval of startStatusCheck *)

\* (A bug for the runs to find: the limit is off by one.)
PastLimitLate == ticks > GiveUp

\* ticksDisconnected > 5, once this tick is counted.
PastLimit == ticks >= GiveUp

TickWithoutClient ==
  /\ ticking
  /\ client = NoClient
  /\ status' = "disconnected"
  /\ UNCHANGED <<phase, clientVars, timerVars, boundVars, historyVars>>

TickConnected ==
  /\ ticking
  /\ Connected
  /\ was' = TRUE
  /\ ticks' = 0
  /\ status' = "synced"
  /\ UNCHANGED <<phase, clientVars, timer, ticking, boundVars, historyVars>>

TickLost ==
  /\ ticking
  /\ client # NoClient /\ ~Connected
  /\ was
  /\ InTime
  /\ was' = FALSE
  /\ ticks' = 0
  /\ status' = "error"
  /\ ScheduleReconnect
  /\ UNCHANGED <<phase, clientVars, ticking, historyVars>>

TickGivesUp ==
  /\ ticking
  /\ client # NoClient /\ ~Connected
  /\ ~was
  /\ PastLimit /\ ~timer
  /\ InTime
  /\ status' = "error"
  /\ ScheduleReconnect
  /\ UNCHANGED <<phase, clientVars, ticking, was, ticks, historyVars>>

\* (ticks stays at the limit: only the comparison with it matters.)
TickWaits ==
  /\ ticking
  /\ client # NoClient /\ ~Connected
  /\ ~was
  /\ ~(PastLimit /\ ~timer)
  /\ InTime
  /\ ticks' = IF PastLimit THEN ticks ELSE ticks + 1
  /\ status' = IF status \in {"syncing", "error"} THEN status ELSE "syncing"
  /\ UNCHANGED <<phase, clientVars, timer, ticking, was, historyVars>>

Tick == TickWithoutClient \/ TickConnected \/ TickLost \/ TickGivesUp \/ TickWaits

-----------------------------------------------------------------------------
(* Sockets *)

SocketOpens(k) ==
  /\ socket[k] = "opening"
  /\ socket' = [socket EXCEPT ![k] = "open"]
  /\ UNCHANGED <<phase, client, at, timerVars, status, boundVars, historyVars>>

\* The connection is refused or lost; the client makes no new one.
SocketCloses(k) ==
  /\ Live(k)
  /\ Fault
  /\ socket' = [socket EXCEPT ![k] = "closed"]
  /\ UNCHANGED <<phase, client, at, timerVars, status, historyVars>>

-----------------------------------------------------------------------------
(* disconnect() and its callers *)

\* The sockets once the current client is disconnected and freed.
Hangup == IF client = NoClient THEN socket ELSE [socket EXCEPT ![client] = "closed"]

\* (A bug for the runs to find: disconnect() leaves the interval running.)
StopReconnectOnly == timer' = FALSE /\ UNCHANGED <<ticking, was, ticks>>

StopTimers == timer' = FALSE /\ ticking' = FALSE /\ UNCHANGED <<was, ticks>>

\* onload, with autoSync on or off.
Load(autoSync) ==
  /\ phase = "off"
  /\ phase' = "loaded"
  /\ IF autoSync
       THEN \E k \in Calls : Spare(k) /\ BeginCall(k, client, socket)
       ELSE UNCHANGED <<clientVars, timer, status, wanted>>
  /\ UNCHANGED <<ticking, was, ticks, boundVars, quiet>>

\* The status bar, clicked while it shows an error or no connection.
StatusClick ==
  /\ phase = "loaded"
  /\ status \in {"error", "disconnected"}
  /\ Click
  /\ \E k \in Calls : Spare(k) /\ BeginCall(k, client, socket)
  /\ UNCHANGED <<phase, ticking, was, ticks, quiet>>

\* The Reconnect button: disconnect(), then connect().
ReconnectClick ==
  /\ phase = "loaded"
  /\ Click
  /\ \E k \in Calls : Spare(k) /\ BeginCall(k, NoClient, Hangup)
  /\ StopTimers
  /\ UNCHANGED <<phase, quiet>>

Unload ==
  /\ phase = "loaded"
  /\ phase' = "unloaded"
  /\ quiet' = (\A k \in Calls : at[k] = "idle")
  /\ client' = NoClient
  /\ socket' = Hangup
  /\ StopTimers
  /\ status' = "disconnected"
  /\ UNCHANGED <<at, boundVars, wanted>>

-----------------------------------------------------------------------------
Proceed(k) ==
  \/ MakeClient(k) \/ OpenSocket(k) \/ OpenThrows(k)
  \/ HandshakeDone(k) \/ HandshakeTimesOut(k) \/ Finish(k)

Next ==
  \/ \E k \in Calls : Proceed(k) \/ Throw(k) \/ SocketOpens(k) \/ SocketCloses(k)
  \/ TimerFires
  \/ Tick
  \/ \E autoSync \in BOOLEAN : Load(autoSync)
  \/ StatusClick
  \/ ReconnectClick
  \/ Unload

Spec == Init /\ [][Next]_vars

\* Promises resolve, timers fire, and a server that is up answers.  Nobody
\* has to click, load or unload, and no fault has to happen.
Fairness ==
  /\ \A k \in Calls : WF_vars(Proceed(k)) /\ WF_vars(SocketOpens(k))
  /\ WF_vars(TimerFires)
  /\ WF_vars(Tick)

FairSpec == Spec /\ Fairness

-----------------------------------------------------------------------------
(* Properties *)

\* Once connect() has been called, a loaded plugin always has something that
\* will bring the connection back: a reconnect timer, a call that has yet to
\* make its client, or a client that a call or the interval looks after.
\* Every path through connect(), whichever calls overlap, must end in one.
NeverStranded ==
  phase = "loaded" /\ wanted =>
    \/ timer
    \/ \E k \in Calls : at[k] = "wasm"
    \/ client # NoClient /\ (ticking \/ \E k \in Calls : at[k] # "idle")

\* A plugin that is unloaded while no connect() is under way is at rest: no
\* timer of it fires again and no call of it resumes.
QuietUnloadIsFinal ==
  phase = "unloaded" /\ quiet =>
    /\ ~timer /\ ~ticking
    /\ client = NoClient
    /\ \A k \in Calls : at[k] = "idle"

\* connect() does not close the client it replaces.  That leaves a second
\* live client behind only when a button was used or a timer ran out on an
\* attempt that was still under way.
OneLiveClient ==
  slow = 0 /\ clicks = 0 => \A k \in Calls : Live(k) => k = client

\* When faults end, the plugin is connected for good and says so.
ComesBack == <>[](phase = "loaded" /\ wanted => Connected /\ status = "synced")
=============================================================================
