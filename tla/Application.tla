---------------------------- MODULE Application ----------------------------
(***************************************************************************)
(* The app (app_entrypoint.py) with the parts it wires: the account, the   *)
(* bridge registry, the HTTP and RTSP servers that are up from the start,  *)
(* the ARP listener, and one stream session per camera.  A session is what *)
(* StreamSession.tla shows of it: shared by its viewers, started under its *)
(* lock by the first active one, ended as a whole, closed for good.        *)
(* Account, network, viewers and cameras are external.  An operator with a *)
(* suffix is a faulty variant that no action uses.                         *)
(***************************************************************************)
EXTENDS CameraConfig, FiniteSetsExt, Functions

CONSTANTS
    Cameras,        \* the UIDs the account may know
    Configurations, \* the contents of options.json considered
    Answers,        \* the answers of the account service considered
    Active, Passive,\* those who watch: HTTP and snapshots, RTSP in standby
    NoCamera,
    MaxRestarts     \* bound: how often the app starts again

ASSUME ApplicationAssumption ==
    /\ MaxRestarts \in Nat
    /\ Active \cap Passive = {} /\ "arp" \notin Active \cup Passive
    /\ NoCamera \notin Cameras

Viewers == Active \cup Passive \cup {"arp"}

VARIABLES
    options,    \* load_options(), read anew at every start of the app
    main,       \* where main() is
    status,     \* STATUS: loader_ready, account_ready, configuration_required, phase
    selected,   \* the cameras selected, in order
    next,       \* the one configured (or closed) next
    bridges,    \* BRIDGES, in the order of registration
    routes,     \* the ARP listener's _ip_to_camera_uid
    arp,        \* where the ARP listener's thread is, and for which camera
    stop,       \* the signal was caught
    helper,     \* per camera: "none", "starting" (under the lock), "waking", "streaming"
    starter,    \* per camera: who is starting it
    viewers,    \* per camera: the subscriptions
    timer,      \* per camera: the idle timer is armed
    closed,     \* per camera: close() was called
    unlucky,    \* history: the cameras whose own set-up failed
    restarts

startup  == <<options, status, selected, bridges, routes, unlucky, restarts>>
sessions == <<helper, starter, viewers, timer, closed>>
appVars  == <<startup, main, next, arp, stop, sessions>>

Silent == [at |-> "off", camera |-> NoCamera]

\* A process that starts: nothing is kept from the one before.
NoStatus == [loader |-> FALSE, account |-> FALSE, required |-> TRUE, phase |-> "starting"]
ForEach(value) == [c \in Cameras |-> value]

AppInit ==
    /\ options \in Configurations /\ restarts = 0
    /\ main = "runtime" /\ status = NoStatus /\ stop = FALSE
    /\ selected = <<>> /\ next = 1 /\ bridges = <<>> /\ unlucky = {}
    /\ routes = <<>> /\ arp = Silent
    /\ helper = ForEach("none") /\ starter = ForEach(NoCamera) /\ viewers = ForEach({})
    /\ timer = ForEach(FALSE) /\ closed = ForEach(FALSE)

----------------------------------------------------------------------------
(* BridgeRegistry and the requests of make_handler.                        *)

Ids(b) == {b.id, b.uid}
First(field, name) ==
    {bridges[i] : i \in {j \in DOMAIN bridges :
        /\ bridges[j][field] = name
        /\ \A k \in 1 .. j - 1 : bridges[k][field] # name}}

\* The bridge with this camera_id, or else with this UID: a set of one or none.
Get(name) ==
    IF First("id", name) # {} THEN First("id", name) ELSE First("uid", name)

MayAdd(b) == \A i \in DOMAIN bridges : Ids(bridges[i]) \cap Ids(b) = {}

Up == main # "stopped"

\* GET /api/devices: an error while no camera is registered.
DevicesAnswer ==
    IF bridges = <<>> THEN Failed
    ELSE [i \in DOMAIN bridges |->
            [uid   |-> bridges[i].uid,
             alias |-> IF bridges[i].id # bridges[i].uid THEN bridges[i].id ELSE NoValue]]

\* CameraBridge.status; it waits for the session's lock.
BridgeState(c) ==
    CASE helper[c] = "streaming" -> "streaming"
      [] helper[c] = "waking"    -> "waking"
      [] helper[c] = "none"      -> IF viewers[c] \cap Passive # {} THEN "standby" ELSE "idle"

\* get_status: what is registered and streams goes before the phase of the start.
Phase ==
    IF \E i \in DOMAIN bridges : helper[bridges[i].uid] = "streaming" THEN "streaming"
    ELSE IF bridges # <<>> THEN "bridge_ready" ELSE status.phase

\* GET /ready; the tests its last condition asks for are not enabled.
Ready == status.loader /\ (status.required \/ bridges # <<>> \/ status.account)

----------------------------------------------------------------------------
(* A camera's session.                                                     *)

Unlocked(c) == helper[c] # "starting"
Watching(v) == \E c \in Cameras : v \in viewers[c] \/ starter[c] = v
Watched(c)  == viewers[c] \ Passive # {}

\* The first active viewer starts the helper and holds the lock meanwhile.
StartFor(c, v) ==
    /\ helper[c] = "none" /\ v \notin Passive
    /\ helper' = [helper EXCEPT ![c] = "starting"]
    /\ starter' = [starter EXCEPT ![c] = v]
    /\ timer' = [timer EXCEPT ![c] = FALSE]
    /\ UNCHANGED <<viewers, closed>>

JoinAs(c, v) ==
    /\ helper[c] \in {"waking", "streaming"} \/ (helper[c] = "none" /\ v \in Passive)
    /\ viewers' = [viewers EXCEPT ![c] = @ \cup {v}]
    /\ timer' = [timer EXCEPT ![c] = FALSE]
    /\ UNCHANGED <<helper, starter, closed>>

\* The last active viewer that leaves a running helper arms the timer.
Release(c, v) ==
    /\ v \in viewers[c] /\ Unlocked(c)
    /\ viewers' = [viewers EXCEPT ![c] = @ \ {v}]
    /\ timer' = [timer EXCEPT ![c] = @ \/ (/\ viewers[c] \ (Passive \cup {v}) = {}
                                           /\ helper[c] # "none" /\ ~closed[c])]
    /\ UNCHANGED <<helper, starter, closed>>

\* A helper that ends takes its active viewers with it.
Ended(c) ==
    /\ helper' = [helper EXCEPT ![c] = "none"]
    /\ viewers' = [viewers EXCEPT ![c] = @ \cap Passive]
    /\ UNCHANGED <<starter, closed>>

Close_LeavesOpen(c) ==
    /\ Unlocked(c)
    /\ helper' = [helper EXCEPT ![c] = "none"]
    /\ viewers' = [viewers EXCEPT ![c] = {}]
    /\ timer' = [timer EXCEPT ![c] = FALSE]
    /\ UNCHANGED <<starter, closed>>

Close(c) ==
    /\ Unlocked(c)
    /\ helper' = [helper EXCEPT ![c] = "none"]
    /\ viewers' = [viewers EXCEPT ![c] = {}]
    /\ timer' = [timer EXCEPT ![c] = FALSE]
    /\ closed' = [closed EXCEPT ![c] = TRUE]
    /\ UNCHANGED starter

----------------------------------------------------------------------------
(* main().                                                                 *)

Report(f) == status' = [k \in DOMAIN status |-> IF k \in DOMAIN f THEN f[k] ELSE status[k]]

\* The exception handler of main: the start is over, the servers stay up.
StartFails ==
    /\ Report([phase |-> IF status.loader THEN "startup_error" ELSE "native_loader_error"])
    /\ main' = "serving"

quiet == <<arp, stop, sessions, options, restarts>>

LoadRuntime ==
    /\ main = "runtime"
    /\ \/ Report([loader |-> TRUE, phase |-> "native_loader_ready"]) /\ main' = "account"
       \/ StartFails
    /\ UNCHANGED <<quiet, selected, next, bridges, routes, unlucky>>

\* Without credentials the app waits for its configuration.
NoAccount ==
    /\ main = "account" /\ ~options.account
    /\ Report([required |-> TRUE]) /\ main' = "serving"
    /\ UNCHANGED <<quiet, selected, next, bridges, routes, unlucky>>

EnumerateAccount ==
    /\ main = "account" /\ options.account
    /\ \E answer \in Answers :
         LET devices == Enumerated(answer)
             chosen  == IF devices = Failed THEN Failed ELSE Selections(devices, options)
         IN  \/ /\ chosen = Failed
                /\ status' = [status EXCEPT !.required = FALSE, !.phase = "startup_error"]
                /\ main' = "serving" /\ UNCHANGED <<selected, next>>
             \/ /\ chosen # Failed
                /\ status' = [status EXCEPT !.required = FALSE, !.account = TRUE,
                                            !.phase = "account_enumerated"]
                /\ main' = "register" /\ selected' = chosen /\ next' = 1
    /\ UNCHANGED <<quiet, bridges, routes, unlucky>>

Bridge(s) == [id |-> IF s.alias \in {NoValue, Blank} THEN s.uid ELSE s.alias,
              uid |-> s.uid, battery |-> s.battery, ip |-> s.ip]

\* configure_bridge raises: a lookup for this camera, the wake configuration.
ConfigureFails_EndsLoop(s) ==
    /\ unlucky' = unlucky \cup {s.uid}
    /\ next' = Len(selected) + 1
    /\ UNCHANGED <<status, bridges>>

ConfigureFails(s) ==
    /\ unlucky' = unlucky \cup {s.uid}
    /\ next' = next + 1
    /\ UNCHANGED <<status, bridges>>

NoToken(s) ==
    /\ ~options.token
    /\ Report([required |-> TRUE, phase |-> "api_token_required"])
    /\ next' = next + 1
    /\ UNCHANGED <<bridges, unlucky>>

Configure(s) ==
    /\ options.token /\ options.idle
    /\ IF MayAdd(Bridge(s))
       THEN /\ bridges' = Append(bridges, Bridge(s))
            /\ Report([required |-> FALSE, phase |-> "bridge_ready"])
       ELSE UNCHANGED <<bridges, status>>
    /\ next' = next + 1
    /\ UNCHANGED unlucky

\* One camera after the other, each failure its own (initialize_camera_runtimes).
InitializeCamera ==
    /\ main = "register" /\ next \in DOMAIN selected
    /\ LET s == selected[next] IN ConfigureFails(s) \/ NoToken(s) \/ Configure(s)
    /\ UNCHANGED <<quiet, main, selected, routes>>

NothingToServe ==
    /\ main = "register" /\ next \notin DOMAIN selected /\ bridges = <<>>
    /\ StartFails
    /\ UNCHANGED <<quiet, selected, next, bridges, routes, unlucky>>

Battery(ip) == {i \in DOMAIN bridges : bridges[i].battery /\ bridges[i].ip = ip}
Addresses == {bridges[i].ip : i \in {j \in DOMAIN bridges : bridges[j].battery}} \ {NoValue}

Routes_FirstWins == [ip \in Addresses |-> bridges[Min(Battery(ip))].uid]

\* configured_arp_routes: an address that two battery cameras claim is dropped.
ArpRoutes ==
    [ip \in {a \in Addresses : Cardinality(Battery(a)) = 1} |-> bridges[Min(Battery(ip))].uid]

\* The listener may be disabled, or its socket be refused.
StartListener ==
    /\ main = "register" /\ next \notin DOMAIN selected /\ bridges # <<>>
    /\ main' = "serving"
    /\ \/ routes' = ArpRoutes /\ arp' = [Silent EXCEPT !.at = "listening"] /\ options.arp
       \/ UNCHANGED <<routes, arp>>
    /\ UNCHANGED <<stop, sessions, options, restarts, status, selected, next, bridges, unlucky>>

RequestStop ==
    /\ main # "stopped" /\ ~stop
    /\ stop' = TRUE
    /\ UNCHANGED <<startup, main, next, arp, sessions>>

\* ArpWakeListener.close: the flag, the socket, and two seconds for the thread.
StopListener ==
    /\ main = "serving" /\ stop
    /\ main' = "joining"
    /\ UNCHANGED <<startup, next, arp, stop, sessions>>

Joined_WaitsForThread ==
    /\ main = "joining" /\ arp.at \in {"off", "gone"}
    /\ main' = "closing" /\ next' = 1
    /\ UNCHANGED <<startup, arp, stop, sessions>>

Joined ==
    /\ main = "joining"
    /\ main' = "closing" /\ next' = 1
    /\ UNCHANGED <<startup, arp, stop, sessions>>

\* BridgeRegistry.close, one session after the other.
CloseSession ==
    /\ main = "closing" /\ next \in DOMAIN bridges
    /\ Close(bridges[next].uid)
    /\ next' = next + 1
    /\ UNCHANGED <<startup, main, arp, stop>>

\* Both servers are shut down and main returns; the daemon threads end with it.
Exit ==
    /\ main = "closing" /\ next \notin DOMAIN bridges
    /\ main' = "stopped" /\ arp' = Silent
    /\ UNCHANGED <<startup, next, stop, sessions>>

\* The Supervisor starts the app again, with options.json as the user left it; a
\* container that is killed takes its helpers with it.
Restart ==
    /\ restarts < MaxRestarts
    /\ restarts' = restarts + 1
    /\ options' \in Configurations
    /\ main' = "runtime" /\ status' = NoStatus /\ stop' = FALSE
    /\ selected' = <<>> /\ next' = 1 /\ bridges' = <<>> /\ unlucky' = {}
    /\ routes' = <<>> /\ arp' = Silent
    /\ helper' = ForEach("none") /\ starter' = ForEach(NoCamera) /\ viewers' = ForEach({})
    /\ timer' = ForEach(FALSE) /\ closed' = ForEach(FALSE)

----------------------------------------------------------------------------
(* The listener's thread, the other viewers, timers and helpers.           *)

\* A frame: only a broadcast request from a configured address counts.
ArpRequest(ip) ==
    /\ arp.at = "listening"
    /\ ip \in DOMAIN routes
    /\ Get(routes[ip]) # {}
    /\ arp' = [at |-> "acquire", camera |-> (CHOOSE b \in Get(routes[ip]) : TRUE).uid]
    /\ UNCHANGED <<startup, main, next, stop, sessions>>

\* Back in the loop: the flag is looked at.
Loop == [Silent EXCEPT !.at = IF main \in {"joining", "closing"} THEN "gone" ELSE "listening"]

ListenerEnds ==
    /\ arp.at = "listening" /\ main \in {"joining", "closing"}
    /\ arp' = [Silent EXCEPT !.at = "gone"]
    /\ UNCHANGED <<startup, main, next, stop, sessions>>

\* on_arp_wake: acquire (without a wake request), and close at once.
ArpAcquire ==
    /\ arp.at = "acquire" /\ Unlocked(arp.camera)
    /\ \/ /\ closed[arp.camera]
          /\ arp' = Loop /\ UNCHANGED sessions
       \/ /\ ~closed[arp.camera]
          /\ StartFor(arp.camera, "arp")
          /\ arp' = [arp EXCEPT !.at = "start"]
       \/ /\ ~closed[arp.camera]
          /\ JoinAs(arp.camera, "arp")
          /\ arp' = [arp EXCEPT !.at = "hold"]
    /\ UNCHANGED <<startup, main, next, stop>>

ArpRelease ==
    /\ arp.at = "hold" /\ Unlocked(arp.camera)
    /\ IF "arp" \in viewers[arp.camera] THEN Release(arp.camera, "arp") ELSE UNCHANGED sessions
    /\ arp' = Loop
    /\ UNCHANGED <<startup, main, next, stop>>

\* A request for a camera by alias or UID: a stream, a snapshot, an RTSP PLAY.
Request(v, name) ==
    /\ Up /\ v # "arp" /\ ~Watching(v)
    /\ \E b \in Get(name) :
         /\ ~closed[b.uid] /\ Unlocked(b.uid)
         /\ StartFor(b.uid, v) \/ JoinAs(b.uid, v)
    /\ UNCHANGED <<startup, main, next, arp, stop>>

Leave(c, v) ==
    /\ Up /\ v # "arp"
    /\ Release(c, v)
    /\ UNCHANGED <<startup, main, next, arp, stop>>

\* The starter returns a process, or raises; the lock is released.
Starts(c) ==
    /\ helper[c] = "starting"
    /\ helper' = [helper EXCEPT ![c] = "waking"]
    /\ viewers' = [viewers EXCEPT ![c] = @ \cup {starter[c]}]
    /\ starter' = [starter EXCEPT ![c] = NoCamera]
    /\ arp' = IF starter[c] = "arp" THEN [arp EXCEPT !.at = "hold"] ELSE arp
    /\ UNCHANGED <<startup, main, next, stop, timer, closed>>

StartFailed(c) ==
    /\ helper[c] = "starting"
    /\ helper' = [helper EXCEPT ![c] = "none"]
    /\ starter' = [starter EXCEPT ![c] = NoCamera]
    /\ arp' = IF starter[c] = "arp" THEN Loop ELSE arp
    /\ UNCHANGED <<startup, main, next, stop, viewers, timer, closed>>

FirstMedia(c) ==
    /\ helper[c] = "waking"
    /\ helper' = [helper EXCEPT ![c] = "streaming"]
    /\ UNCHANGED <<startup, main, next, arp, stop, starter, viewers, timer, closed>>

HelperDies(c) ==
    /\ helper[c] \in {"waking", "streaming"}
    /\ Ended(c)
    /\ UNCHANGED <<startup, main, next, arp, stop, timer>>

IdleTimeout(c) ==
    /\ timer[c] /\ Unlocked(c)
    /\ timer' = [timer EXCEPT ![c] = FALSE]
    /\ IF Watched(c) \/ closed[c] THEN UNCHANGED <<helper, starter, viewers, closed>> ELSE Ended(c)
    /\ UNCHANGED <<startup, main, next, arp, stop>>

----------------------------------------------------------------------------
Names == UNION {Ids(bridges[i]) : i \in DOMAIN bridges}

MainStep == \/ LoadRuntime \/ NoAccount \/ EnumerateAccount \/ InitializeCamera
            \/ NothingToServe \/ StartListener
            \/ StopListener \/ Joined \/ CloseSession \/ Exit

ListenerStep == ListenerEnds \/ ArpAcquire \/ ArpRelease

StarterEnds(c) == Starts(c) \/ StartFailed(c)

AppStep(guests) ==
    \/ MainStep \/ ListenerStep
    \/ RequestStop \/ Restart
    \/ \E ip \in DOMAIN routes : ArpRequest(ip)
    \/ \E v \in guests, name \in Names : Request(v, name)
    \/ \E c \in Cameras : \/ \E v \in viewers[c] : Leave(c, v)
                          \/ StarterEnds(c) \/ FirstMedia(c) \/ HelperDies(c) \/ IdleTimeout(c)

AppNext == AppStep(Active \cup Passive)

\* main runs, and gets a session's lock in the end when it is free again and
\* again; a starter ends, since each of its waits is timed.  Nothing is assumed
\* of viewers, cameras and packets.
AppFairness ==
    /\ WF_appVars(MainStep) /\ SF_appVars(CloseSession)
    /\ \A c \in Cameras : WF_appVars(StarterEnds(c))

AppSpec == AppInit /\ [][AppNext]_appVars /\ AppFairness

----------------------------------------------------------------------------
(* Properties.                                                             *)

\* No helper is left behind by a main that returned, although the servers and
\* perhaps the ARP thread go on while the sessions are closed one by one
\* (app_entrypoint.py main; the order of the shutdown).
NoHelperOutlivesMain == main = "stopped" => \A c \in Cameras : helper[c] = "none"

\* Every name in use leads to one camera, its own, and an ARP route leads to
\* the only battery camera with this address, however the account, older
\* options and aliases mix (account.py, BridgeRegistry, configured_arp_routes).
AddressReachesOwner ==
    /\ \A i \in DOMAIN bridges : \A name \in Ids(bridges[i]) : Get(name) = {bridges[i]}
    /\ \A ip \in DOMAIN routes :
         Get(routes[ip]) = {bridges[i] : i \in Battery(ip)}

\* The start leaves a camera out only for a failure of its own or of the whole
\* configuration, and says afterwards what came out of it: cameras, a missing
\* configuration, or an error (initialize_camera_runtimes, get_status).
StartupIsHonest ==
    /\ main \in {"register", "serving"} =>
         \A i \in 1 .. next - 1 :
            \/ selected[i].uid \in {bridges[k].uid : k \in DOMAIN bridges} \cup unlucky
            \/ ~options.token \/ ~options.idle
    /\ main = "serving" =>
         /\ bridges # <<>> <=> Phase \in {"bridge_ready", "streaming"}
         /\ bridges # <<>> => Ready /\ ~status.required
         /\ bridges = <<>> => \/ Phase \in {"startup_error", "native_loader_error"}
                              \/ ~options.account /\ Ready /\ status.required

\* A stop that was asked for ends the app, whatever start-up, viewers, starters
\* and the ARP thread are doing (unless it is restarted first).
ShutdownEnds == (stop /\ main # "stopped") ~> (main \in {"stopped", "runtime"})
=============================================================================
