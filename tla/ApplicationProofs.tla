------------------------- MODULE ApplicationProofs -------------------------
(***************************************************************************)
(* Theorems about Application and HomeAssistant: no helper is left behind  *)
(* by a main that returned, every name and address leads to its own        *)
(* camera, what the app says of its start is true, a picture that says     *)
(* "waking" is followed up, and an entry keeps a camera that was served,   *)
(* for any cameras, viewers, configurations, entries and answers of the    *)
(* account service, and any number of restarts.                            *)
(***************************************************************************)
EXTENDS HomeAssistant, SequenceTheorems, FiniteSetTheorems, WellFoundedInduction,
        NaturalsInduction, TLAPS

Uids == {bridges[i].uid : i \in DOMAIN bridges}

\* What the argument needs of the variables' types.
Shapes ==
    /\ helper \in [Cameras -> {"none", "starting", "waking", "streaming"}]
    /\ closed \in [Cameras -> BOOLEAN]
    /\ next \in Nat \ {0}
    /\ arp = [at |-> arp.at, camera |-> arp.camera]
    /\ \E S : bridges \in Seq(S)

\* A helper runs for registered cameras only, and never on a closed session.
OnlyRegistered == \A c \in Cameras : helper[c] # "none" => c \in Uids
ClosedIsIdle   == \A c \in Cameras : closed[c] => helper[c] = "none"

\* The shutdown has closed the sessions before the next one, main's end all.
ClosedSoFar ==
    \A i \in DOMAIN bridges : bridges[i].uid \in Cameras =>
        /\ main = "closing" /\ i < next => closed[bridges[i].uid]
        /\ main = "stopped" => closed[bridges[i].uid]

\* The ARP thread acquires for a registered camera.
ArpIsRegistered == arp.at = "acquire" => arp.camera \in Uids

AppInv ==
    Shapes /\ OnlyRegistered /\ ClosedIsIdle /\ ClosedSoFar /\ ArpIsRegistered

LEMMA InitInv == AppInit => AppInv
<1> SUFFICES ASSUME AppInit PROVE AppInv
  OBVIOUS
<1>1. bridges \in Seq({})
  BY DEF AppInit
<1>2. \E S : bridges \in Seq(S)
  BY <1>1
<1> QED
  BY <1>2 DEF AppInit, ForEach, Silent, AppInv, Shapes, OnlyRegistered, ClosedIsIdle,
     ClosedSoFar, ArpIsRegistered

\* A process that starts again knows nothing.
LEMMA RestartInv ==
    ASSUME Restart
    PROVE  AppInv'
<1>1. bridges' \in Seq({})
  BY DEF Restart
<1>2. \E S : bridges' \in Seq(S)
  BY <1>1
<1> QED
  BY <1>2 DEF Restart, ForEach, Silent, AppInv, Shapes, OnlyRegistered, ClosedIsIdle,
     ClosedSoFar, ArpIsRegistered

\* After a frame the thread is back in its loop, or has left it.
LEMMA BackInLoop ==
    /\ Loop = [at |-> Loop.at, camera |-> Loop.camera]
    /\ Loop.at # "acquire"
  BY DEF Loop, Silent

LEMMA Holds ==
    ASSUME NEW r, r = [at |-> r.at, camera |-> r.camera],
           NEW q, q = [r EXCEPT !.at = "hold"] \/ q = [r EXCEPT !.at = "start"]
    PROVE  q = [at |-> q.at, camera |-> q.camera] /\ q.at # "acquire"
  OBVIOUS

\* The registry only grows.
LEMMA RegistryGrows ==
    ASSUME Shapes, NEW b, bridges' = Append(bridges, b)
    PROVE  /\ \E S : bridges' \in Seq(S)
           /\ Uids \subseteq Uids'
<1>1. PICK S : bridges \in Seq(S)
  BY DEF Shapes
<1>2. bridges \in Seq(S \cup {b}) /\ bridges' \in Seq(S \cup {b})
  BY <1>1, SeqMonotonic
<1>3. \A i \in DOMAIN bridges : i \in DOMAIN bridges' /\ bridges'[i] = bridges[i]
  BY <1>2
<1> QED
  BY <1>2, <1>3 DEF Uids

\* main's steps until the shutdown: no session is touched.
LEMMA StartupInv ==
    ASSUME AppInv,
           \/ LoadRuntime \/ NoAccount \/ EnumerateAccount \/ InitializeCamera
           \/ NothingToServe \/ StartListener \/ StopListener \/ Joined \/ RequestStop
    PROVE  AppInv'
<1> USE DEF quiet, sessions, startup, AppInv
<1>1. UNCHANGED <<helper, closed>>
  BY DEF LoadRuntime, NoAccount, EnumerateAccount, InitializeCamera,
     NothingToServe, StartListener, StopListener, Joined, RequestStop
<1>2. main' \notin {"closing", "stopped"} \/ (main' = "closing" /\ next' = 1)
      \/ UNCHANGED <<main, next, bridges>>
  BY DEF LoadRuntime, NoAccount, EnumerateAccount, InitializeCamera, StartFails,
     NothingToServe, StartListener, StopListener, Joined, RequestStop
<1>3. next' \in Nat \ {0}
  BY DEF Shapes, LoadRuntime, NoAccount, EnumerateAccount, InitializeCamera,
     ConfigureFails, NoToken, Configure,
     NothingToServe, StartListener, StopListener, Joined, RequestStop
<1>4. \/ bridges' = bridges
      \/ \E b : bridges' = Append(bridges, b)
  BY DEF LoadRuntime, NoAccount, EnumerateAccount, InitializeCamera,
     ConfigureFails, NoToken, Configure,
     NothingToServe, StartListener, StopListener, Joined, RequestStop
<1>5. (\E S : bridges' \in Seq(S)) /\ Uids \subseteq Uids'
  <2>1. CASE bridges' = bridges
    BY <2>1 DEF Uids, Shapes
  <2> QED
    BY <1>4, <2>1, RegistryGrows
<1>6. arp' = arp \/ arp' = [at |-> "listening", camera |-> NoCamera]
  BY DEF LoadRuntime, NoAccount, EnumerateAccount, InitializeCamera, Silent,
     NothingToServe, StartListener, StopListener, Joined, RequestStop
<1>7. ClosedSoFar'
  <2>1. \A i \in DOMAIN bridges' : ~ i < 1
    BY <1>5
  <2> QED
    BY <1>1, <1>2, <2>1 DEF ClosedSoFar
<1> QED
  BY <1>1, <1>3, <1>5, <1>6, <1>7 DEF Shapes, OnlyRegistered, ClosedIsIdle,
     ArpIsRegistered

\* One session is closed, and counts as closed from the next step on.
LEMMA CloseInv ==
    ASSUME AppInv, CloseSession
    PROVE  AppInv'
<1> DEFINE c == bridges[next].uid
<1> USE DEF startup, AppInv
<1>1. /\ helper' = [helper EXCEPT ![c] = "none"]
      /\ closed' = [closed EXCEPT ![c] = TRUE]
      /\ bridges' = bridges /\ main' = main /\ arp' = arp /\ next' = next + 1
      /\ main = "closing"
  BY DEF CloseSession, Close
<1>2. Shapes'
  <2>1. /\ helper' \in [Cameras -> {"none", "starting", "waking", "streaming"}]
        /\ closed' \in [Cameras -> BOOLEAN]
    BY <1>1, Zenon DEF Shapes
  <2>2. next' \in Nat \ {0} /\ arp' = [at |-> arp'.at, camera |-> arp'.camera]
    BY <1>1 DEF Shapes
  <2> QED
    BY <1>1, <2>1, <2>2 DEF Shapes
<1>3. OnlyRegistered' /\ ClosedIsIdle' /\ ArpIsRegistered'
  BY <1>1 DEF Shapes, OnlyRegistered, ClosedIsIdle, ArpIsRegistered, Uids
<1>4. ClosedSoFar'
  <2> SUFFICES ASSUME NEW i \in DOMAIN bridges, bridges[i].uid \in Cameras, i < next + 1
               PROVE  closed'[bridges[i].uid]
    BY <1>1 DEF ClosedSoFar
  <2>1. i \in Nat /\ next \in Nat
    BY DEF Shapes
  <2>2. CASE i = next
    BY <1>1, <2>2 DEF Shapes
  <2>3. CASE i < next
    BY <1>1, <2>3 DEF Shapes, ClosedSoFar
  <2> QED
    BY <2>1, <2>2, <2>3
<1> QED
  BY <1>2, <1>3, <1>4

LEMMA ExitInv ==
    ASSUME AppInv, Exit
    PROVE  AppInv'
<1> USE DEF startup, sessions, AppInv
<1>1. \A i \in DOMAIN bridges : i < next
  BY DEF Exit, Shapes
<1>2. ClosedSoFar'
  BY <1>1 DEF Exit, ClosedSoFar
<1> QED
  BY <1>2 DEF Exit, Silent, Shapes, OnlyRegistered, ClosedIsIdle, ArpIsRegistered, Uids

\* A step on the session of one registered camera, which is not closed.
OnSession(c) ==
    /\ UNCHANGED <<closed, bridges, main, next>>
    /\ \/ helper' = helper
       \/ helper' = [helper EXCEPT ![c] = "none"]
       \/ /\ c \in Uids /\ (c \in Cameras => ~closed[c])
          /\ \E h \in {"starting", "waking", "streaming"} : helper' = [helper EXCEPT ![c] = h]
    /\ arp' = [at |-> arp'.at, camera |-> arp'.camera]
    /\ arp'.at = "acquire" => arp'.camera \in Uids

LEMMA SessionInv ==
    ASSUME AppInv, NEW c, OnSession(c)
    PROVE  AppInv'
<1> USE DEF OnSession, AppInv
<1>1. Shapes' /\ ClosedSoFar' /\ ArpIsRegistered'
  BY DEF Shapes, ClosedSoFar, ArpIsRegistered, Uids
<1>2. OnlyRegistered' /\ ClosedIsIdle'
  BY DEF Shapes, OnlyRegistered, ClosedIsIdle, Uids
<1> QED
  BY <1>1, <1>2

LEMMA ListenerStarts ==
    ASSUME AppInv, NEW ip \in DOMAIN routes, ArpRequest(ip)
    PROVE  AppInv'
<1>1. Get(routes[ip]) \subseteq {bridges[i] : i \in DOMAIN bridges}
  BY DEF Get, First
<1>2. PICK b \in Get(routes[ip]) : arp' = [at |-> "acquire", camera |-> b.uid]
  BY DEF ArpRequest
<1>3. arp'.camera \in Uids
  BY <1>1, <1>2 DEF Uids
<1> QED
  BY <1>3, SessionInv DEF ArpRequest, OnSession, startup, sessions

\* The listener's own steps.
LEMMA ListenerInv ==
    ASSUME AppInv, ListenerStep
    PROVE  AppInv'
<1> USE DEF startup, sessions, AppInv
<1>1. CASE ListenerEnds
  <2>1. arp' = [at |-> "gone", camera |-> NoCamera]
    BY <1>1 DEF ListenerEnds, Silent
  <2> QED
    BY <1>1, <2>1, SessionInv DEF ListenerEnds, OnSession
<1>2. CASE ArpAcquire
  <2>1. arp' = [at |-> arp'.at, camera |-> arp'.camera] /\ arp'.at # "acquire"
    <3>1. \/ arp' = Loop
          \/ arp' = [arp EXCEPT !.at = "start"]
          \/ arp' = [arp EXCEPT !.at = "hold"]
      BY <1>2 DEF ArpAcquire
    <3> QED
      BY <3>1, BackInLoop, Holds DEF Shapes
  <2>2. arp.camera \in Uids
    BY <1>2 DEF ArpAcquire, ArpIsRegistered
  <2>3. \/ helper' = helper
        \/ helper' = [helper EXCEPT ![arp.camera] = "starting"] /\ ~closed[arp.camera]
    BY <1>2 DEF ArpAcquire, StartFor, JoinAs
  <2>4. UNCHANGED <<closed, bridges, main, next>>
    BY <1>2 DEF ArpAcquire, StartFor, JoinAs
  <2> QED
    BY <2>1, <2>2, <2>3, <2>4, SessionInv DEF OnSession
<1>3. CASE ArpRelease
  <2>1. arp' = Loop /\ UNCHANGED <<helper, closed, bridges, main, next>>
    BY <1>3 DEF ArpRelease, Release
  <2> QED
    BY <2>1, BackInLoop, SessionInv DEF OnSession
<1> QED
  BY <1>1, <1>2, <1>3 DEF ListenerStep

LEMMA RequestInv ==
    ASSUME AppInv, NEW v, NEW name, Request(v, name)
    PROVE  AppInv'
<1> USE DEF startup, AppInv
<1>1. Get(name) \subseteq {bridges[i] : i \in DOMAIN bridges}
  BY DEF Get, First
<1>2. PICK b \in Get(name) : /\ ~closed[b.uid]
                             /\ StartFor(b.uid, v) \/ JoinAs(b.uid, v)
  BY DEF Request
<1>3. b.uid \in Uids
  BY <1>1 DEF Uids
<1>4. /\ UNCHANGED <<closed, bridges, main, next, arp>>
      /\ \/ helper' = helper
         \/ helper' = [helper EXCEPT ![b.uid] = "starting"]
  BY <1>2 DEF Request, StartFor, JoinAs
<1>5. OnSession(b.uid)
  BY <1>2, <1>3, <1>4 DEF OnSession, ArpIsRegistered, Shapes
<1> QED
  BY <1>5, SessionInv

\* What happens to a session by itself: starts, media, deaths, timers, departures.
LEMMA CameraInv ==
    ASSUME AppInv, NEW c \in Cameras,
           \/ \E v \in viewers[c] : Leave(c, v)
           \/ StarterEnds(c) \/ FirstMedia(c) \/ HelperDies(c) \/ IdleTimeout(c)
    PROVE  AppInv'
<1> USE DEF startup, AppInv
<1>1. helper[c] # "none" => c \in Uids /\ ~closed[c]
  BY DEF OnlyRegistered, ClosedIsIdle
<1>2. /\ arp' = [at |-> arp'.at, camera |-> arp'.camera]
      /\ arp'.at = "acquire" => arp' = arp
  <2>1. arp' = arp \/ arp' = Loop \/ arp' = [arp EXCEPT !.at = "hold"]
    BY DEF Leave, StarterEnds, Starts, StartFailed, FirstMedia, HelperDies, IdleTimeout
  <2> QED
    BY <2>1, BackInLoop, Holds DEF Shapes
<1>3. UNCHANGED <<closed, bridges, main, next>>
  BY DEF Leave, Release, StarterEnds, Starts, StartFailed, FirstMedia, HelperDies,
     IdleTimeout, Ended
<1>4. \/ helper' = helper
      \/ helper' = [helper EXCEPT ![c] = "none"]
      \/ /\ helper[c] # "none"
         /\ \E h \in {"waking", "streaming"} : helper' = [helper EXCEPT ![c] = h]
  BY DEF Leave, Release, StarterEnds, Starts, StartFailed, FirstMedia, HelperDies,
     IdleTimeout, Ended
<1>5. OnSession(c)
  BY <1>1, <1>2, <1>3, <1>4 DEF OnSession, ArpIsRegistered
<1> QED
  BY <1>5, SessionInv

LEMMA NextInv == AppInv /\ [AppNext]_appVars => AppInv'
<1> SUFFICES ASSUME AppInv, [AppNext]_appVars PROVE AppInv'
  OBVIOUS
<1>1. CASE AppNext
  <2>1. CASE MainStep \/ RequestStop
    BY <2>1, StartupInv, CloseInv, ExitInv DEF MainStep
  <2>2. CASE Restart
    BY <2>2, RestartInv
  <2>3. CASE ListenerStep
    BY <2>3, ListenerInv
  <2>4. CASE \E ip \in DOMAIN routes : ArpRequest(ip)
    BY <2>4, ListenerStarts
  <2>5. CASE \E v \in Active \cup Passive, name \in Names : Request(v, name)
    BY <2>5, RequestInv
  <2>6. CASE \E c \in Cameras :
               \/ \E v \in viewers[c] : Leave(c, v)
               \/ StarterEnds(c) \/ FirstMedia(c) \/ HelperDies(c) \/ IdleTimeout(c)
    BY <2>6, CameraInv
  <2> QED
    BY <1>1, <2>1, <2>2, <2>3, <2>4, <2>5, <2>6 DEF AppNext, AppStep
<1>2. CASE UNCHANGED appVars
  BY <1>2 DEF appVars, startup, sessions, AppInv, Shapes, OnlyRegistered, ClosedIsIdle,
     ClosedSoFar, ArpIsRegistered, Uids
<1> QED
  BY <1>1, <1>2

LEMMA AlwaysInv == AppSpec => []AppInv
  BY InitInv, NextInv, PTL DEF AppSpec

\* Every session is closed before main returns, and no viewer, ARP frame or
\* starter brings a helper back (app_entrypoint.py, main; session.py, close).
THEOREM ShutdownLeavesNothing == AppSpec => []NoHelperOutlivesMain
<1>1. AppInv => NoHelperOutlivesMain
  BY DEF AppInv, NoHelperOutlivesMain, OnlyRegistered, ClosedIsIdle, ClosedSoFar, Uids
<1> QED
  BY <1>1, AlwaysInv, PTL

----------------------------------------------------------------------------
(* Names and addresses.                                                    *)

\* No two bridges share a name, and a route was made of the registry that is.
Distinct == \A i, j \in DOMAIN bridges : i # j => Ids(bridges[i]) \cap Ids(bridges[j]) = {}

RoutesAreOwn ==
    /\ \A ip \in DOMAIN routes :
          \E i \in DOMAIN bridges : Battery(ip) = {i} /\ routes[ip] = bridges[i].uid
    /\ main \in {"runtime", "account", "register"} => DOMAIN routes = {}

\* The registry finds a bridge by either of its names.
LEMMA GetFinds ==
    ASSUME Shapes, Distinct, NEW i \in DOMAIN bridges, NEW name \in Ids(bridges[i])
    PROVE  Get(name) = {bridges[i]}
<1>1. \A j \in DOMAIN bridges : j # i => bridges[j].id # name /\ bridges[j].uid # name
  BY DEF Distinct, Ids
<1>2. \A k \in 1 .. i - 1 : k \in DOMAIN bridges /\ k # i
  BY DEF Shapes
<1>3. CASE bridges[i].id = name
  <2>1. First("id", name) = {bridges[i]}
    BY <1>1, <1>2, <1>3 DEF First
  <2> QED
    BY <2>1 DEF Get
<1>4. CASE bridges[i].id # name
  <2>1. bridges[i].uid = name
    BY <1>4 DEF Ids
  <2>2. First("id", name) = {}
    BY <1>1, <1>4 DEF First
  <2>3. First("uid", name) = {bridges[i]}
    BY <1>1, <1>2, <2>1 DEF First
  <2> QED
    BY <2>2, <2>3 DEF Get
<1> QED
  BY <1>3, <1>4

\* An address only one battery camera has leads to that camera.
LEMMA RoutesFind ==
    ASSUME Shapes, NEW ip \in DOMAIN ArpRoutes
    PROVE  \E i \in DOMAIN bridges : Battery(ip) = {i} /\ ArpRoutes[ip] = bridges[i].uid
<1>1. PICK S : bridges \in Seq(S)
  BY DEF Shapes
<1>2. IsFiniteSet(1 .. Len(bridges))
  BY <1>1, FS_Interval
<1>3. Battery(ip) \in SUBSET (1 .. Len(bridges))
  BY <1>1 DEF Battery
<1>4. IsFiniteSet(Battery(ip))
  BY <1>2, <1>3, FS_Subset
<1>5. Cardinality(Battery(ip)) = 1 /\ ArpRoutes[ip] = bridges[Min(Battery(ip))].uid
  BY DEF ArpRoutes
<1>6. PICK i : Battery(ip) = {i}
  BY <1>4, <1>5, FS_Singleton
<1>7. i \in Nat /\ i \in DOMAIN bridges
  BY <1>1, <1>3, <1>6
<1>8. Min({i}) = i
  BY <1>7 DEF Min
<1> QED
  BY <1>5, <1>6, <1>7, <1>8

LEMMA NamesInit == AppInit => Distinct /\ RoutesAreOwn
  BY DEF AppInit, Distinct, RoutesAreOwn

LEMMA NamesNext ==
    ASSUME AppInv, AppInv', Distinct, RoutesAreOwn, [AppNext]_appVars
    PROVE  Distinct' /\ RoutesAreOwn'
<1> USE DEF startup, sessions, quiet
<1>1. CASE Restart
  BY <1>1 DEF Restart, Distinct, RoutesAreOwn
<1>2. CASE InitializeCamera
  <2>1. routes' = routes /\ main' = main /\ main = "register"
    BY <1>2 DEF InitializeCamera
  <2>2. RoutesAreOwn'
    BY <2>1 DEF RoutesAreOwn
  <2>3. CASE bridges' = bridges
    BY <2>2, <2>3 DEF Distinct
  <2>4. CASE \E b : MayAdd(b) /\ bridges' = Append(bridges, b)
    <3>1. PICK b : MayAdd(b) /\ bridges' = Append(bridges, b)
      BY <2>4
    <3>2. PICK S : bridges \in Seq(S)
      BY DEF AppInv, Shapes
    <3>3. bridges \in Seq(S \cup {b})
      BY <3>2, SeqMonotonic
    <3>4. \A i \in DOMAIN bridges' : \/ i \in DOMAIN bridges /\ bridges'[i] = bridges[i]
                                     \/ i = Len(bridges) + 1 /\ bridges'[i] = b
      BY <3>1, <3>3
    <3>5. Distinct'
      BY <3>1, <3>4 DEF Distinct, MayAdd
    <3> QED
      BY <2>2, <3>5
  <2>5. \/ bridges' = bridges
        \/ \E b : MayAdd(b) /\ bridges' = Append(bridges, b)
    BY <1>2 DEF InitializeCamera, ConfigureFails, NoToken, Configure
  <2> QED
    BY <2>3, <2>4, <2>5
<1>3. CASE StartListener
  <2>1. bridges' = bridges /\ main' = "serving" /\ routes' \in {routes, ArpRoutes}
    BY <1>3 DEF StartListener
  <2>2. \A ip : Battery(ip)' = Battery(ip)
    BY <2>1 DEF Battery
  <2>3. CASE routes' = routes
    BY <2>1, <2>2, <2>3 DEF Distinct, RoutesAreOwn
  <2>4. CASE routes' = ArpRoutes
    BY <2>1, <2>2, <2>4, RoutesFind DEF Distinct, RoutesAreOwn, AppInv
  <2> QED
    BY <2>1, <2>3, <2>4
<1>4. ASSUME bridges' = bridges, routes' = routes,
             main' \in {"runtime", "account", "register"} =>
                main \in {"runtime", "account", "register"}
      PROVE  Distinct' /\ RoutesAreOwn'
  BY <1>4 DEF Distinct, RoutesAreOwn, Battery
<1>5. CASE \/ LoadRuntime \/ NoAccount \/ EnumerateAccount \/ NothingToServe
           \/ StopListener \/ Joined \/ CloseSession \/ Exit \/ RequestStop
  BY <1>4, <1>5 DEF LoadRuntime, NoAccount, EnumerateAccount, NothingToServe,
     StartFails, StopListener, Joined, CloseSession, Exit, RequestStop
<1>6. CASE ListenerStep \/ \E ip \in DOMAIN routes : ArpRequest(ip)
  BY <1>4, <1>6 DEF ListenerStep, ListenerEnds, ArpAcquire, ArpRelease, ArpRequest
<1>7. CASE \E v \in Active \cup Passive, name \in Names : Request(v, name)
  BY <1>4, <1>7 DEF Request
<1>8. CASE \E c \in Cameras :
             \/ \E v \in viewers[c] : Leave(c, v)
             \/ StarterEnds(c) \/ FirstMedia(c) \/ HelperDies(c) \/ IdleTimeout(c)
  BY <1>4, <1>8 DEF Leave, StarterEnds, Starts, StartFailed, FirstMedia, HelperDies,
     IdleTimeout
<1>9. CASE UNCHANGED appVars
  BY <1>4, <1>9 DEF appVars
<1> QED
  BY <1>1, <1>2, <1>3, <1>5, <1>6, <1>7, <1>8, <1>9 DEF AppNext, AppStep, MainStep

\* A name in use leads to its own camera, and an ARP frame to the only battery
\* camera with its address (bridge.py, BridgeRegistry; app_entrypoint.py,
\* configured_arp_routes).
THEOREM AddressesAreOwn == AppSpec => []AddressReachesOwner
<1>1. AppInv /\ Distinct /\ RoutesAreOwn => AddressReachesOwner
  <2> SUFFICES ASSUME AppInv, Distinct, RoutesAreOwn PROVE AddressReachesOwner
    OBVIOUS
  <2>1. \A i \in DOMAIN bridges : \A name \in Ids(bridges[i]) : Get(name) = {bridges[i]}
    BY GetFinds DEF AppInv
  <2>2. ASSUME NEW ip \in DOMAIN routes
        PROVE  Get(routes[ip]) = {bridges[i] : i \in Battery(ip)}
    <3>1. PICK i \in DOMAIN bridges : Battery(ip) = {i} /\ routes[ip] = bridges[i].uid
      BY DEF RoutesAreOwn
    <3>2. Get(routes[ip]) = {bridges[i]}
      BY <2>1, <3>1 DEF Ids
    <3> QED
      BY <3>1, <3>2
  <2> QED
    BY <2>1, <2>2 DEF AddressReachesOwner
<1>2. AppInit => AppInv /\ Distinct /\ RoutesAreOwn
  BY InitInv, NamesInit
<1>3. AppInv /\ Distinct /\ RoutesAreOwn /\ [AppNext]_appVars
        => (AppInv /\ Distinct /\ RoutesAreOwn)'
  BY NextInv, NamesNext
<1> QED
  BY <1>1, <1>2, <1>3, PTL DEF AppSpec

----------------------------------------------------------------------------
(* What the app says of its start.                                         *)

\* Two selections are the same camera, or share no name.
ApartOrSame(s, t) == s.uid = t.uid \/ Ids(Bridge(s)) \cap Ids(Bridge(t)) = {}

\* Blank aliases are no names.
LEMMA IdsOfBridge ==
    ASSUME NEW s, NEW name \in Ids(Bridge(s))
    PROVE  \/ name = s.uid
           \/ name = s.alias /\ name \notin {NoValue, Blank}
  BY DEF Ids, Bridge

LEMMA PlainUidsAreApart ==
    ASSUME NEW s, NEW t, s.alias = NoValue, t.alias = NoValue
    PROVE  ApartOrSame(s, t)
  BY DEF ApartOrSame, Ids, Bridge

\* The explicit configuration keeps the names of its cameras apart, and the
\* UIDs are taken from the account's devices.
LEMMA ConfiguredAreApart ==
    ASSUME NEW items, Unambiguous(items),
           NEW k \in DOMAIN items, NEW l \in DOMAIN items,
           NEW s, s.alias = Normalized(items[k]).alias, Same(s.uid, items[k].uid),
           NEW t, t.alias = Normalized(items[l]).alias, Same(t.uid, items[l].uid)
    PROVE  k = l \/ Ids(Bridge(s)) \cap Ids(Bridge(t)) = {}
<1> SUFFICES ASSUME k # l, NEW name \in Ids(Bridge(s)), name \in Ids(Bridge(t))
             PROVE  FALSE
  OBVIOUS
<1>1. /\ s.alias \notin {NoValue, Blank} => s.alias = items[k].alias
      /\ t.alias \notin {NoValue, Blank} => t.alias = items[l].alias
  BY DEF Normalized
<1>2. /\ ~Same(items[k].uid, items[l].uid)
      /\ ~Same(items[k].alias, items[l].alias)
      /\ Same(items[k].alias, items[l].uid) => Same(items[k].alias, items[k].uid)
      /\ Same(items[l].alias, items[k].uid) => Same(items[l].alias, items[l].uid)
  BY DEF Unambiguous
<1>3. CASE name = s.uid /\ name = t.uid
  BY <1>2, <1>3 DEF Same
<1>4. CASE name = s.alias /\ name \notin {NoValue, Blank} /\ name = t.uid
  BY <1>1, <1>2, <1>4 DEF Same
<1>5. CASE name = s.uid /\ name = t.alias /\ name \notin {NoValue, Blank}
  BY <1>1, <1>2, <1>5 DEF Same
<1>6. CASE name = s.alias /\ name = t.alias /\ name \notin {NoValue, Blank}
  BY <1>1, <1>2, <1>6 DEF Same
<1> QED
  BY <1>3, <1>4, <1>5, <1>6, IdsOfBridge

\* What the account and the options select never claims a name twice for two
\* cameras, whichever of the three forms of configuration is in use.
LEMMA SelectionsAreApart ==
    ASSUME NEW devices, NEW o, NEW chosen,
           chosen = Selections(devices, o), chosen # Failed,
           NEW i \in DOMAIN chosen, NEW j \in DOMAIN chosen
    PROVE  ApartOrSame(chosen[i], chosen[j])
<1> DEFINE current == Current(o)
           pick(k) == CHOOSE d \in Named(devices, current[k].uid) : TRUE
<1>1. CASE current = <<>> /\ current # Failed
  <2>1. chosen = [d \in DOMAIN devices |-> Select(devices[d], Automatic(devices[d].uid, NoValue))]
    BY <1>1 DEF Selections
  <2>2. chosen[i].alias = NoValue /\ chosen[j].alias = NoValue
    BY <2>1 DEF Select, Automatic
  <2> QED
    BY <2>2, PlainUidsAreApart
<1>2. CASE current # <<>> /\ current # Failed
  <2>1. /\ chosen = [k \in DOMAIN current |-> Select(devices[pick(k)], current[k])]
        /\ \A k \in DOMAIN current : Named(devices, current[k].uid) # {}
    BY <1>2 DEF Selections
  <2>2. ASSUME NEW k \in DOMAIN current
        PROVE  chosen[k].alias = current[k].alias /\ Same(chosen[k].uid, current[k].uid)
    <3>1. pick(k) \in Named(devices, current[k].uid)
      BY <2>1
    <3>2. Same(devices[pick(k)].uid, current[k].uid)
      BY <3>1 DEF Named
    <3>3. chosen[k].alias = current[k].alias /\ chosen[k].uid = devices[pick(k)].uid
      BY <2>1 DEF Select
    <3> QED
      BY <3>2, <3>3
  <2>3. i \in DOMAIN current /\ j \in DOMAIN current
    BY <2>1
  <2>4. CASE o.cameras # NoValue
    <3>1. current = NormalizeConfigurations(o.cameras)
      BY <2>4 DEF Current
    <3>2. /\ current = [k \in DOMAIN o.cameras |-> Normalized(o.cameras[k])]
          /\ Unambiguous(o.cameras)
      BY <3>1, <1>2 DEF NormalizeConfigurations
    <3>3. \A k \in DOMAIN current : /\ k \in DOMAIN o.cameras
                                    /\ current[k].alias = Normalized(o.cameras[k]).alias
                                    /\ current[k].uid = o.cameras[k].uid
      BY <3>2 DEF Normalized
    <3>4. i = j \/ Ids(Bridge(chosen[i])) \cap Ids(Bridge(chosen[j])) = {}
      <4>1. /\ i \in DOMAIN o.cameras /\ chosen[i].alias = Normalized(o.cameras[i]).alias
            /\ Same(chosen[i].uid, o.cameras[i].uid)
        BY <2>2, <2>3, <3>3
      <4>2. /\ j \in DOMAIN o.cameras /\ chosen[j].alias = Normalized(o.cameras[j]).alias
            /\ Same(chosen[j].uid, o.cameras[j].uid)
        BY <2>2, <2>3, <3>3
      <4> QED
        BY <4>1, <4>2, <3>2, ConfiguredAreApart
    <3> QED
      BY <3>4 DEF ApartOrSame
  <2>5. CASE o.cameras = NoValue /\ o.uids # NoValue
    <3>1. current = Legacy(o)
      BY <2>5 DEF Current
    <3> DEFINE uids == NormalizeUids(o.uids)
               only == DOMAIN uids = {1} /\ o.id \notin {NoValue, Blank}
    <3>2. current = [k \in DOMAIN uids |-> Automatic(uids[k], IF only THEN o.id ELSE NoValue)]
      BY <3>1, <1>2 DEF Legacy
    <3>3. CASE only
      <4>1. i = j
        BY <2>3, <3>2, <3>3
      <4> QED
        BY <4>1 DEF ApartOrSame
    <3>4. CASE ~only
      <4>1. chosen[i].alias = NoValue /\ chosen[j].alias = NoValue
        BY <2>2, <2>3, <3>2, <3>4 DEF Automatic
      <4> QED
        BY <4>1, PlainUidsAreApart
    <3> QED
      BY <3>3, <3>4
  <2>6. CASE o.cameras = NoValue /\ o.uids = NoValue
    BY <1>2, <2>6 DEF Current
  <2> QED
    BY <2>4, <2>5, <2>6
<1>3. current # Failed
  BY FailedAssumption DEF Selections
<1> QED
  BY <1>1, <1>2, <1>3

StatusShape == DOMAIN status = {"loader", "account", "required", "phase"}

\* A camera is left behind only with a bridge for it, for a failure of its own,
\* or because no camera can have one.
Tried ==
    /\ main \in {"runtime", "account"} => next = 1
    /\ main \in {"register", "serving"} =>
         \A i \in 1 .. next - 1 : \/ selected[i].uid \in Uids \cup unlucky
                                  \/ ~options.token \/ ~options.idle

\* A bridge that is in the way of a camera's is that camera's.
OneBridgeEach ==
    main = "register" =>
        /\ \A i, j \in DOMAIN selected : ApartOrSame(selected[i], selected[j])
        /\ \A k \in DOMAIN bridges : \E i \in DOMAIN selected : bridges[k] = Bridge(selected[i])

\* STATUS, by how far main is.
Told ==
    /\ main \in {"runtime", "account"} => bridges = <<>>
    /\ main \in {"account", "register"} => status.loader
    /\ main = "account" => status.phase = "native_loader_ready"
    /\ bridges # <<>> => status.loader /\ ~status.required /\ options.token
    /\ main = "serving" /\ bridges = <<>> =>
         \/ status.phase \in {"startup_error", "native_loader_error"}
         \/ /\ status.phase = "native_loader_ready" /\ ~options.account
            /\ status.loader /\ status.required

HonestInv == StatusShape /\ Tried /\ OneBridgeEach /\ Told

LEMMA HonestInit == AppInit => HonestInv
  BY DEF AppInit, NoStatus, HonestInv, StatusShape, Tried, OneBridgeEach, Told

\* Outside of main's start nothing is reported and nothing registered.
LEMMA HonestElsewhere ==
    ASSUME HonestInv, UNCHANGED <<status, selected, bridges, options, unlucky>>,
           UNCHANGED <<main, next>> \/ main' \in {"joining", "closing", "stopped"}
    PROVE  HonestInv'
<1>1. StatusShape' /\ Told'
  BY DEF HonestInv, StatusShape, Told
<1>2. Tried'
  BY DEF HonestInv, Tried, Uids
<1>3. OneBridgeEach'
  BY DEF HonestInv, OneBridgeEach, ApartOrSame, Ids, Bridge
<1> QED
  BY <1>1, <1>2, <1>3 DEF HonestInv

LEMMA HonestRestart ==
    ASSUME Restart
    PROVE  HonestInv'
  BY DEF Restart, NoStatus, HonestInv, StatusShape, Tried, OneBridgeEach, Told

\* The runtime, the account and the end of an unsuccessful start.
LEMMA HonestSetUp ==
    ASSUME AppInv, HonestInv, LoadRuntime \/ NoAccount \/ NothingToServe
    PROVE  HonestInv'
<1> USE DEF HonestInv
<1>1. UNCHANGED <<options, selected, next, bridges, unlucky>>
  BY DEF LoadRuntime, NoAccount, NothingToServe, quiet
<1>2. bridges = <<>>
  BY DEF LoadRuntime, NoAccount, NothingToServe, Told
<1>3. ASSUME NEW f, Report(f)
      PROVE  StatusShape' /\ \A k \in {"loader", "account", "required", "phase"} :
                                status'[k] = IF k \in DOMAIN f THEN f[k] ELSE status[k]
  BY <1>3 DEF StatusShape, Report
<1>4. ASSUME StartFails
      PROVE  /\ StatusShape' /\ main' = "serving"
             /\ status'.phase \in {"startup_error", "native_loader_error"}
  BY <1>3, <1>4 DEF StartFails
<1>5. Tried' \/ main' \notin {"runtime", "account", "register", "serving"}
  BY <1>1 DEF LoadRuntime, NoAccount, NothingToServe, StartFails, Tried, Uids
<1>6. CASE LoadRuntime
  <2>1. CASE Report([loader |-> TRUE, phase |-> "native_loader_ready"]) /\ main' = "account"
    <3>1. StatusShape' /\ status'.loader = TRUE /\ status'.phase = "native_loader_ready"
      BY <1>3, <2>1
    <3> QED
      BY <1>1, <1>2, <1>5, <2>1, <3>1 DEF Told, OneBridgeEach
  <2>2. CASE StartFails
    BY <1>1, <1>2, <1>4, <1>5, <2>2 DEF Told, OneBridgeEach
  <2> QED
    BY <1>6, <2>1, <2>2 DEF LoadRuntime
<1>7. CASE NoAccount
  <2>1. /\ StatusShape' /\ status'.required = TRUE
        /\ status'.loader = status.loader /\ status'.phase = status.phase
    BY <1>3, <1>7 DEF NoAccount
  <2>2. main = "account" /\ main' = "serving" /\ ~options.account
    BY <1>7 DEF NoAccount
  <2> QED
    BY <1>1, <1>2, <1>5, <2>1, <2>2 DEF Told, OneBridgeEach
<1>8. CASE NothingToServe
  BY <1>1, <1>2, <1>4, <1>5, <1>8 DEF NothingToServe, Told, OneBridgeEach
<1> QED
  BY <1>6, <1>7, <1>8

\* What the account answers is an error, or a list of cameras apart.
LEMMA HonestAccount ==
    ASSUME AppInv, HonestInv, EnumerateAccount
    PROVE  HonestInv'
<1> USE DEF HonestInv
<1>1. /\ UNCHANGED <<options, bridges, unlucky>>
      /\ bridges = <<>> /\ status.loader /\ next = 1
  BY DEF EnumerateAccount, quiet, Told, Tried
<1>2. CASE /\ status' = [status EXCEPT !.required = FALSE, !.phase = "startup_error"]
           /\ main' = "serving" /\ UNCHANGED <<selected, next>>
  <2>1. StatusShape' /\ status'.phase = "startup_error"
    BY <1>2 DEF StatusShape
  <2> QED
    BY <1>1, <1>2, <2>1 DEF Tried, Told, OneBridgeEach
<1>3. CASE /\ status' = [status EXCEPT !.required = FALSE, !.account = TRUE,
                                       !.phase = "account_enumerated"]
           /\ main' = "register" /\ next' = 1
           /\ \E devices : selected' = Selections(devices, options) /\ selected' # Failed
  <2>1. StatusShape' /\ status'.loader
    BY <1>1, <1>3 DEF StatusShape
  <2>2. \A i, j \in DOMAIN selected' : ApartOrSame(selected'[i], selected'[j])
    BY <1>3, SelectionsAreApart
  <2>3. OneBridgeEach'
    BY <1>1, <2>2 DEF OneBridgeEach, ApartOrSame, Ids, Bridge
  <2> QED
    BY <1>1, <1>3, <2>1, <2>3 DEF Tried, Told
<1> QED
  BY <1>2, <1>3 DEF EnumerateAccount

\* One camera is configured, and with it or without it the next one is due.
LEMMA HonestCamera ==
    ASSUME AppInv, AppInv', HonestInv, InitializeCamera
    PROVE  HonestInv'
<1> DEFINE s == selected[next]
           uid == selected[next].uid
<1> USE DEF HonestInv
<1>1. /\ UNCHANGED <<main, options, selected>> /\ next' = next + 1
      /\ main = "register" /\ next \in DOMAIN selected /\ next \in Nat \ {0}
  BY DEF InitializeCamera, quiet, ConfigureFails, NoToken, Configure, AppInv, Shapes
<1>2. ASSUME Uids \subseteq Uids', unlucky \subseteq unlucky',
             uid \in Uids' \cup unlucky' \/ ~options.token
      PROVE  Tried'
  <2> SUFFICES ASSUME NEW i \in 1 .. next
               PROVE  \/ selected[i].uid \in Uids' \cup unlucky'
                      \/ ~options.token \/ ~options.idle
    BY <1>1 DEF Tried
  <2>1. CASE i = next
    BY <1>2, <2>1
  <2>2. CASE i # next
    <3>1. i \in 1 .. next - 1
      BY <1>1, <2>2
    <3> QED
      BY <1>1, <1>2, <3>1 DEF Tried
  <2> QED
    BY <2>1, <2>2
<1>3. ASSUME bridges' = bridges
      PROVE  OneBridgeEach' /\ Uids' = Uids
  BY <1>1, <1>3 DEF OneBridgeEach, Uids, ApartOrSame, Ids, Bridge
<1>4. CASE ConfigureFails(s)
  <2>1. UNCHANGED <<status, bridges>> /\ unlucky' = unlucky \cup {uid}
    BY <1>4 DEF ConfigureFails
  <2>2. StatusShape' /\ Told'
    BY <1>1, <2>1 DEF StatusShape, Told
  <2> QED
    BY <1>2, <1>3, <2>1, <2>2
<1>5. CASE NoToken(s)
  <2>1. /\ ~options.token /\ UNCHANGED <<bridges, unlucky>>
        /\ Report([required |-> TRUE, phase |-> "api_token_required"])
    BY <1>5 DEF NoToken
  <2>2. StatusShape' /\ status'.loader = status.loader
    BY <2>1 DEF StatusShape, Report
  <2>3. Told'
    BY <1>1, <2>1, <2>2 DEF Told
  <2> QED
    BY <1>2, <1>3, <2>1, <2>2, <2>3
<1>6. CASE Configure(s) /\ MayAdd(Bridge(s))
  <2>1. /\ bridges' = Append(bridges, Bridge(s)) /\ unlucky' = unlucky /\ options.token
        /\ Report([required |-> FALSE, phase |-> "bridge_ready"])
    BY <1>6 DEF Configure
  <2>2. StatusShape' /\ status'.loader = status.loader /\ status'.required = FALSE
    BY <2>1 DEF StatusShape, Report
  <2>3. Told'
    BY <1>1, <2>1, <2>2 DEF Told
  <2>4. PICK S : bridges \in Seq(S)
    BY DEF AppInv, Shapes
  <2>5. bridges \in Seq(S \cup {Bridge(s)})
    BY <2>4, SeqMonotonic
  <2>6. /\ \A i \in DOMAIN bridges' : \/ i \in DOMAIN bridges /\ bridges'[i] = bridges[i]
                                      \/ bridges'[i] = Bridge(s)
        /\ Len(bridges) + 1 \in DOMAIN bridges' /\ bridges'[Len(bridges) + 1] = Bridge(s)
    BY <2>1, <2>5
  <2>7. Uids \subseteq Uids' /\ uid \in Uids'
    <3>1. Bridge(s).uid = uid
      BY DEF Bridge
    <3> QED
      BY <2>1, <2>6, <3>1, RegistryGrows DEF AppInv, Uids
  <2>8. OneBridgeEach'
    BY <1>1, <2>6 DEF OneBridgeEach, ApartOrSame, Ids, Bridge
  <2> QED
    BY <1>2, <2>1, <2>2, <2>3, <2>7, <2>8
<1>7. CASE Configure(s) /\ ~MayAdd(Bridge(s))
  <2>1. UNCHANGED <<status, bridges, unlucky>>
    BY <1>7 DEF Configure
  <2>2. StatusShape' /\ Told'
    BY <1>1, <2>1 DEF StatusShape, Told
  <2>3. uid \in Uids
    <3>1. PICK k \in DOMAIN bridges : Ids(bridges[k]) \cap Ids(Bridge(s)) # {}
      BY <1>7 DEF MayAdd
    <3>2. PICK i \in DOMAIN selected : bridges[k] = Bridge(selected[i])
      BY <1>1 DEF OneBridgeEach
    <3>3. selected[i].uid = uid
      BY <1>1, <3>1, <3>2 DEF OneBridgeEach, ApartOrSame
    <3>4. bridges[k].uid = selected[i].uid
      BY <3>2 DEF Bridge
    <3> QED
      BY <3>3, <3>4 DEF Uids
  <2> QED
    BY <1>2, <1>3, <2>1, <2>2, <2>3
<1> QED
  BY <1>4, <1>5, <1>6, <1>7 DEF InitializeCamera

LEMMA HonestNext ==
    ASSUME AppInv, AppInv', HonestInv, [AppNext]_appVars
    PROVE  HonestInv'
<1> USE DEF startup, sessions, quiet
<1>1. CASE LoadRuntime \/ NoAccount \/ NothingToServe
  BY <1>1, HonestSetUp
<1>2. CASE EnumerateAccount
  BY <1>2, HonestAccount
<1>3. CASE InitializeCamera
  BY <1>3, HonestCamera
<1>4. CASE StartListener
  <2>1. /\ bridges # <<>> /\ main = "register" /\ main' = "serving"
        /\ UNCHANGED <<options, status, selected, next, bridges, unlucky>>
    BY <1>4 DEF StartListener
  <2>2. Tried' /\ OneBridgeEach' /\ Told' /\ StatusShape'
    BY <2>1 DEF HonestInv, StatusShape, Tried, Uids, OneBridgeEach, Told
  <2> QED
    BY <2>2 DEF HonestInv
<1>5. CASE Restart
  BY <1>5, HonestRestart
<1>6. CASE StopListener \/ Joined \/ CloseSession \/ Exit \/ RequestStop
  BY <1>6, HonestElsewhere DEF StopListener, Joined, CloseSession, Exit, RequestStop
<1>7. CASE ListenerStep \/ \E ip \in DOMAIN routes : ArpRequest(ip)
  BY <1>7, HonestElsewhere DEF ListenerStep, ListenerEnds, ArpAcquire, ArpRelease, ArpRequest
<1>8. CASE \E v \in Active \cup Passive, name \in Names : Request(v, name)
  BY <1>8, HonestElsewhere DEF Request
<1>9. CASE \E c \in Cameras :
             \/ \E v \in viewers[c] : Leave(c, v)
             \/ StarterEnds(c) \/ FirstMedia(c) \/ HelperDies(c) \/ IdleTimeout(c)
  BY <1>9, HonestElsewhere DEF Leave, StarterEnds, Starts, StartFailed, FirstMedia,
     HelperDies, IdleTimeout
<1>10. CASE UNCHANGED appVars
  BY <1>10, HonestElsewhere DEF appVars
<1> QED
  BY <1>1, <1>2, <1>3, <1>4, <1>5, <1>6, <1>7, <1>8, <1>9, <1>10
     DEF AppNext, AppStep, MainStep

\* The start leaves a camera out only for a failure of its own or of the whole
\* configuration, and says what came out of it (app_entrypoint.py,
\* initialize_camera_runtimes and get_status; account.py,
\* configured_camera_selections).
THEOREM StartTellsTheTruth == AppSpec => []StartupIsHonest
<1>1. HonestInv => StartupIsHonest
  <2> SUFFICES ASSUME HonestInv PROVE StartupIsHonest
    OBVIOUS
  <2>1. main = "serving" /\ bridges # <<>> =>
           Phase \in {"bridge_ready", "streaming"} /\ Ready /\ ~status.required
    BY DEF HonestInv, Told, Phase, Ready
  <2>2. main = "serving" /\ bridges = <<>> =>
           /\ Phase \notin {"bridge_ready", "streaming"}
           /\ \/ Phase \in {"startup_error", "native_loader_error"}
              \/ ~options.account /\ Ready /\ status.required
    BY DEF HonestInv, Told, Phase, Ready
  <2> QED
    BY <2>1, <2>2 DEF StartupIsHonest, HonestInv, Tried, Uids
<1>2. AppInit => AppInv /\ HonestInv
  BY InitInv, HonestInit
<1>3. AppInv /\ HonestInv /\ [AppNext]_appVars => (AppInv /\ HonestInv)'
  BY NextInv, HonestNext
<1> QED
  BY <1>1, <1>2, <1>3, PTL DEF AppSpec

----------------------------------------------------------------------------
(* The integration: its entities.                                          *)

EntityShape ==
    /\ DOMAIN entity = Slots
    /\ \A e \in Slots : DOMAIN entity[e] = {"published", "shown", "asked", "last", "watcher"}

WatchInv == EntityShape /\ WakingIsWatched

\* What an entity may hold.
WellWatched(held) ==
    /\ DOMAIN held = {"published", "shown", "asked", "last", "watcher"}
    /\ held.shown = "waking" /\ held.published = "waking" => held.watcher \in {"on", "over"}

LEMMA WatchIsEach == WatchInv <=> DOMAIN entity = Slots /\ \A e \in Slots : WellWatched(entity[e])
BY DEF WatchInv, EntityShape, WakingIsWatched, WellWatched

\* One entity changes to what an entity may hold, or is forgotten.
LEMMA SeenKeeps ==
    ASSUME WatchInv, NEW e \in Slots, NEW held, See(e, held), WellWatched(held)
    PROVE  WatchInv'
<1>1. DOMAIN entity = Slots /\ \A s \in Slots : WellWatched(entity[s])
  BY WatchIsEach
<1>2. DOMAIN entity' = Slots /\ \A s \in Slots : entity'[s] = IF s = e THEN held ELSE entity[s]
  BY <1>1 DEF See
<1>3. \A s \in Slots : WellWatched(entity'[s])
  BY <1>1, <1>2
<1> HIDE DEF WatchInv
<1> QED
  BY <1>2, <1>3 DEF WatchInv, EntityShape, WakingIsWatched, WellWatched

LEMMA NothingSeen == WellWatched(NoEntity)
BY DEF WellWatched, NoEntity

LEMMA ExcusedIsWatched ==
    ASSUME NEW held, WellWatched(held)
    PROVE  WellWatched(Excused(held))
<1>1. CASE held.last
  BY <1>1 DEF Excused, WellWatched
<1>2. CASE ~held.last
  BY <1>2 DEF Excused, WithWatcher, WellWatched
<1> QED
  BY <1>1, <1>2

LEMMA EntityKeeps ==
    ASSUME WatchInv, NEW e \in Slots, EntityStep(e)
    PROVE  WatchInv'
<1> DEFINE held == entity[e]
           state == BridgeState(Camera(Uid(e)))
<1>a. WellWatched(held)
  BY WatchIsEach
<1>1. CASE AskPicture(e)
  <2>1. CASE See(e, Excused(held))
    BY <1>a, <2>1, ExcusedIsWatched, SeenKeeps
  <2>2. CASE See(e, [held EXCEPT !.published = state, !.shown = "sleeping"])
    <3>1. WellWatched([held EXCEPT !.published = state, !.shown = "sleeping"])
      BY <1>a DEF WellWatched
    <3> QED
      BY <2>2, <3>1, SeenKeeps
  <2>3. CASE See(e, [WithWatcher(held) EXCEPT !.published = state, !.shown = "waking"])
    <3>1. WellWatched([WithWatcher(held) EXCEPT !.published = state, !.shown = "waking"])
      BY <1>a DEF WellWatched, WithWatcher
    <3> QED
      BY <2>3, <3>1, SeenKeeps
  <2>4. CASE /\ state \in {"standby", "streaming"}
             /\ See(e, [held EXCEPT !.published = state, !.asked = state])
    <3>1. WellWatched([held EXCEPT !.published = state, !.asked = state])
      BY <1>a, <2>4 DEF WellWatched
    <3> QED
      BY <2>4, <3>1, SeenKeeps
  <2> QED
    BY <1>1, <2>1, <2>2, <2>3, <2>4 DEF AskPicture
<1>2. CASE SnapshotBegins(e)
  <2>1. WellWatched([held EXCEPT !.asked = "snapshot"])
    BY <1>a DEF WellWatched
  <2> QED
    BY <1>2, <2>1, SeenKeeps DEF SnapshotBegins
<1>3. CASE SnapshotTaken(e)
  <2>1. WellWatched([held EXCEPT !.asked = "none", !.shown = "picture", !.last = TRUE])
    BY <1>a DEF WellWatched
  <2> QED
    BY <1>3, <2>1, SeenKeeps DEF SnapshotTaken
<1>4. CASE SnapshotFails(e)
  BY <1>4, <1>a, ExcusedIsWatched, SeenKeeps DEF SnapshotFails
<1>5. CASE Poll(e)
  <2> DEFINE new == [held EXCEPT !.published = state,
                                 !.watcher = IF state = "streaming" THEN "done" ELSE @]
  <2>1. held.watcher = "on"
    BY <1>5 DEF Poll
  <2>2. WellWatched(new)
    BY <1>a, <2>1 DEF WellWatched
  <2> QED
    BY <1>5, <2>2, SeenKeeps DEF Poll
<1>6. CASE WatchEnds(e)
  <2>1. WellWatched([held EXCEPT !.watcher = "over"])
    BY <1>a DEF WellWatched
  <2> QED
    BY <1>6, <2>1, SeenKeeps DEF WatchEnds
<1>7. CASE StreamSource(e)
  <2>1. WellWatched(WithWatcher(held))
    BY <1>a DEF WellWatched, WithWatcher
  <2> QED
    BY <1>7, <2>1, SeenKeeps DEF StreamSource
<1> QED
  BY <1>1, <1>2, <1>3, <1>4, <1>5, <1>6, <1>7 DEF EntityStep

\* An entry's set-up, its end and its user's choice forget what the entity held.
LEMMA ForgetKeeps ==
    ASSUME WatchInv, NEW e, Unseen(e)
    PROVE  WatchInv'
<1>1. CASE e \in Slots
  BY <1>1, NothingSeen, SeenKeeps DEF Unseen, See
<1>2. CASE e \notin Slots
  <2>1. DOMAIN entity' = DOMAIN entity /\ \A s \in Slots : entity'[s] = entity[s]
    BY <1>2 DEF Unseen, WatchInv, EntityShape
  <2> QED
    BY <2>1 DEF WatchInv, EntityShape, WakingIsWatched
<1> QED
  BY <1>1, <1>2

LEMMA NoChangeKeeps ==
    ASSUME WatchInv, UNCHANGED entity
    PROVE  WatchInv'
BY DEF WatchInv, EntityShape, WakingIsWatched

LEMMA WatchStep ==
    ASSUME WatchInv, [HaNext]_haVars
    PROVE  WatchInv'
<1>1. CASE \E e \in Slots : EntityStep(e)
  BY <1>1, EntityKeeps
<1>2. CASE \E e \in Slots : SetupStep(e)
  <2>1. PICK e \in Slots : SetupStep(e)
    BY <1>2
  <2>2. CASE UNCHANGED entity
    BY <2>2, NoChangeKeeps
  <2>3. CASE See(e, [NoEntity EXCEPT !.published = BridgeState(Camera(entries[e].target.uid))])
    <3>1. WellWatched([NoEntity EXCEPT !.published = BridgeState(Camera(entries[e].target.uid))])
      BY DEF WellWatched, NoEntity
    <3> QED
      BY <2>3, <3>1, SeenKeeps
  <2> QED
    BY <2>1, <2>2, <2>3 DEF SetupStep, BeginSetup, ResolveCamera, ConfigureCamera,
       FirstRefresh, See
<1>3. CASE \E e \in Slots : Retry(e)
  BY <1>3, NoChangeKeeps DEF Retry
<1>4. CASE \E e \in Slots : Reload(e) \/ Remove(e)
  BY <1>4, ForgetKeeps DEF Reload, Remove
<1>5. CASE FlowStep
  <2>1. CASE UNCHANGED entity
    BY <2>1, NoChangeKeeps
  <2>2. CASE \E uid : Settled(uid)
    BY <2>2, NoChangeKeeps, ForgetKeeps DEF Settled, Update
  <2> QED
    BY <1>5, <2>1, <2>2 DEF FlowStep, OpenFlow, Submit, Choose, Abandon
<1>6. CASE HaRestarts
  <2>1. entity' = [e \in Slots |-> NoEntity]
    BY <1>6 DEF HaRestarts
  <2> QED
    BY <2>1 DEF WatchInv, EntityShape, WakingIsWatched, NoEntity
<1>7. CASE UNCHANGED entity
  BY <1>7, NoChangeKeeps
<1> QED
  BY <1>1, <1>2, <1>3, <1>4, <1>5, <1>6, <1>7 DEF HaNext, haVars

\* A picture that says the camera wakes up is watched over, through reloads,
\* failures and several wakings (camera.py, _ensure_wake_watcher).
THEOREM WakingHasWatcher == HaSpec => []WakingIsWatched
<1>1. HaInit => WatchInv
  BY DEF HaInit, WatchInv, EntityShape, WakingIsWatched, NoEntity
<1>2. WatchInv /\ [HaNext]_haVars => WatchInv'
  BY WatchStep
<1>3. WatchInv => WakingIsWatched
  BY DEF WatchInv
<1> QED
  BY <1>1, <1>2, <1>3, PTL DEF HaSpec

----------------------------------------------------------------------------
(* The integration: which camera an entry stands for.                      *)

Text(uid) == uid \notin {NoValue, Blank}

\* The account and the registry name their cameras.
RegistryNamed ==
    /\ \E S : bridges \in Seq(S) /\ \A b \in S : Text(b.uid)
    /\ \A i \in DOMAIN selected : Text(selected[i].uid)

IsEntry(entry) == DOMAIN entry = {"uid", "ref", "unique", "state", "target", "again"}

\* An entry's UID is not there or is a camera's.
EntriesNamed ==
    /\ DOMAIN entries = Slots
    /\ \A e \in Slots : entries[e] # NoEntry => IsEntry(entries[e]) /\ entries[e].uid # Blank

\* A flow is about an entry that is there, or adds one.
FlowNamed ==
    /\ DOMAIN flow = {"step", "slot", "uids"}
    /\ flow.slot # NoEntry => flow.slot \in Slots /\ IsEntry(entries[flow.slot])

EntryInv == RegistryNamed /\ EntriesNamed /\ FlowNamed

\* What the account lists is named, and so is what the options select of it.
LEMMA SelectedAreNamed ==
    ASSUME NEW answer \in Answers, NEW o, NEW chosen, Enumerated(answer) # Failed,
           chosen = Selections(Enumerated(answer), o), chosen # Failed
    PROVE  \A i \in DOMAIN chosen : Text(chosen[i].uid)
<1> DEFINE devices == Enumerated(answer)
           current == Current(o)
           pick(k) == CHOOSE d \in Named(devices, current[k].uid) : TRUE
<1>1. \A d \in DOMAIN devices : Text(devices[d].uid)
  BY IntegrationAssumption DEF Text
<1> HIDE DEF devices
<1>2. CASE current = <<>> /\ current # Failed
  <2>1. chosen = [d \in DOMAIN devices |-> Select(devices[d], Automatic(devices[d].uid, NoValue))]
    BY <1>2 DEF Selections, devices
  <2> QED
    BY <1>1, <2>1 DEF Select
<1>3. CASE current # <<>> /\ current # Failed
  <2>1. /\ chosen = [k \in DOMAIN current |-> Select(devices[pick(k)], current[k])]
        /\ \A k \in DOMAIN current : Named(devices, current[k].uid) # {}
    BY <1>3 DEF Selections, devices
  <2> SUFFICES ASSUME NEW k \in DOMAIN chosen PROVE Text(chosen[k].uid)
    OBVIOUS
  <2>2. k \in DOMAIN current /\ chosen[k].uid = devices[pick(k)].uid
    BY <2>1 DEF Select
  <2>3. pick(k) \in Named(devices, current[k].uid)
    BY <2>1, <2>2
  <2>4. pick(k) \in DOMAIN devices
    BY <2>3 DEF Named
  <2> QED
    BY <1>1, <2>2, <2>4
<1>4. current # Failed
  BY FailedAssumption DEF Selections
<1> QED
  BY <1>2, <1>3, <1>4

LEMMA RegistryStep ==
    ASSUME RegistryNamed, NEW guests, AppStep(guests)
    PROVE  RegistryNamed'
<1> USE DEF startup, quiet
<1>0. ASSUME UNCHANGED <<bridges, selected>>
      PROVE  RegistryNamed'
  BY <1>0 DEF RegistryNamed, Text
<1>1. CASE EnumerateAccount
  <2>1. bridges' = bridges
    BY <1>1 DEF EnumerateAccount
  <2>2. CASE selected' = selected
    BY <1>0, <2>1, <2>2
  <2>3. CASE selected' # selected
    <3>1. PICK answer \in Answers :
            /\ Enumerated(answer) # Failed /\ selected' # Failed
            /\ selected' = Selections(Enumerated(answer), options)
      BY <1>1, <2>3 DEF EnumerateAccount
    <3>2. \A i \in DOMAIN selected' : Text(selected'[i].uid)
      BY <3>1, SelectedAreNamed
    <3> QED
      BY <2>1, <3>2 DEF RegistryNamed, Text
  <2> QED
    BY <2>2, <2>3
<1>2. CASE InitializeCamera
  <2> DEFINE b == Bridge(selected[next])
  <2>1. Text(b.uid) /\ selected' = selected
    BY <1>2 DEF InitializeCamera, RegistryNamed, Bridge
  <2> HIDE DEF b
  <2>2. CASE bridges' = bridges
    BY <1>0, <2>1, <2>2
  <2>3. CASE bridges' = Append(bridges, b)
    <3>1. PICK S : bridges \in Seq(S) /\ \A c \in S : Text(c.uid)
      BY DEF RegistryNamed
    <3>2. bridges' \in Seq(S \cup {b}) /\ \A c \in S \cup {b} : Text(c.uid)
      BY <2>1, <2>3, <3>1, SeqMonotonic, AppendProperties
    <3> QED
      BY <2>1, <3>2 DEF RegistryNamed, Text
  <2> QED
    BY <1>2, <2>2, <2>3 DEF InitializeCamera, ConfigureFails, NoToken, Configure, b
<1>3. CASE Restart
  <2>1. bridges' \in Seq({}) /\ selected' = <<>>
    BY <1>3 DEF Restart
  <2>2. \E S : bridges' \in Seq(S) /\ \A b \in S : Text(b.uid)
    BY <2>1
  <2> QED
    BY <2>1, <2>2 DEF RegistryNamed, Text
<1>4. CASE LoadRuntime \/ NoAccount \/ NothingToServe \/ StartListener
  BY <1>0, <1>4 DEF LoadRuntime, NoAccount, NothingToServe, StartListener
<1>5. CASE StopListener \/ Joined \/ CloseSession \/ Exit \/ RequestStop
  BY <1>0, <1>5 DEF StopListener, Joined, CloseSession, Exit, RequestStop
<1>6. CASE ListenerStep \/ \E ip \in DOMAIN routes : ArpRequest(ip)
  BY <1>0, <1>6 DEF ListenerStep, ListenerEnds, ArpAcquire, ArpRelease, ArpRequest
<1>7. CASE \E v \in guests, name \in Names : Request(v, name)
  BY <1>0, <1>7 DEF Request
<1>8. CASE \E c \in Cameras :
             \/ \E v \in viewers[c] : Leave(c, v)
             \/ StarterEnds(c) \/ FirstMedia(c) \/ HelperDies(c) \/ IdleTimeout(c)
  BY <1>0, <1>8 DEF Leave, StarterEnds, Starts, StartFailed, FirstMedia, HelperDies,
     IdleTimeout
<1> QED
  BY <1>1, <1>2, <1>3, <1>4, <1>5, <1>6, <1>7, <1>8 DEF AppStep, MainStep

LEMMA LeastIndex ==
    ASSUME NEW T, T \subseteq Nat, T # {}
    PROVE  \E m \in T : \A n \in T : m <= n
<1> DEFINE R == OpToRel(<, Nat)
<1>1. IsWellFoundedOn(R, Nat)
  BY NatLessThanWellFounded
<1>2. \A m, n \in Nat : <<n, m>> \in R <=> n < m
  BY DEF OpToRel
<1> HIDE DEF R
<1>3. \E m \in T : \A n \in T : ~(<<n, m>> \in R)
  BY <1>1, WFMin
<1>4. \E m \in T : \A n \in T : ~(n < m)
  BY <1>2, <1>3, Zenon
<1> QED
  BY <1>4

\* What the registry lists is a list, and everything in it is served under its UID.
LEMMA ListedIsServed ==
    ASSUME RegistryNamed, Devices # Failed
    PROVE  /\ \E S : Devices \in Seq(S)
           /\ \A d \in Range(Devices) : Text(d.uid) /\ Reaches(d.uid)
<1>1. PICK S : bridges \in Seq(S) /\ \A b \in S : Text(b.uid)
  BY DEF RegistryNamed
<1> DEFINE alias(i) == IF bridges[i].id # bridges[i].uid THEN bridges[i].id ELSE NoValue
           device(i) == [uid |-> bridges[i].uid, alias |-> alias(i)]
           T == {device(i) : i \in DOMAIN bridges}
<1>2. Up /\ Devices = [i \in DOMAIN bridges |-> device(i)]
  BY DEF Devices, DevicesAnswer
<1>3. \A i \in DOMAIN bridges : device(i).uid = bridges[i].uid
  OBVIOUS
<1> HIDE DEF device
<1>4. Devices \in Seq(T)
  BY <1>1, <1>2
<1>5. ASSUME NEW d \in Range(Devices)
      PROVE  Text(d.uid) /\ Reaches(d.uid)
  <2>1. PICK i \in DOMAIN bridges : d = device(i)
    BY <1>2 DEF Range
  <2>2. d.uid = bridges[i].uid
    BY <1>3, <2>1
  <2>3. Text(d.uid)
    BY <1>1, <2>2
  <2> DEFINE J == {j \in DOMAIN bridges : bridges[j].uid = d.uid}
  <2>4. J \subseteq Nat /\ i \in J
    BY <1>1, <2>2
  <2>5. PICK m \in J : \A j \in J : m <= j
    <3> HIDE DEF J
    <3> QED
      BY <2>4, LeastIndex
  <2>6. \A k \in 1 .. m - 1 : bridges[k].uid # d.uid
    BY <1>1, <2>5
  <2>7. bridges[m] \in First("uid", d.uid)
    BY <2>5, <2>6 DEF First
  <2>8. Get(d.uid) # {}
    BY <2>7 DEF Get
  <2> QED
    BY <1>2, <2>3, <2>8 DEF Reaches
<1> QED
  BY <1>4, <1>5

LEMMA OneIsChosen ==
    ASSUME NEW found, Cardinality(found) = 1
    PROVE  (CHOOSE d \in found : TRUE) \in found
<1>1. found # {}
  BY FS_EmptySet
<1> QED
  BY <1>1

LEMMA OnlyOneIsListed ==
    ASSUME NEW S, NEW devices \in Seq(S)
    PROVE  /\ OnlyOne(devices) \subseteq Range(devices)
           /\ Len(devices) = 1 => (CHOOSE d \in Range(devices) : TRUE) \in Range(devices)
<1>1. Len(devices) = 1 => devices[1] \in Range(devices)
  BY DEF Range
<1> QED
  BY <1>1 DEF OnlyOne

\* A text resolves to cameras of the list; a UID to those that are the same.
LEMMA ResolvedIsListed ==
    ASSUME NEW S, NEW devices \in Seq(S), NEW of
    PROVE  /\ Resolve(devices, of) \subseteq Range(devices)
           /\ of.uid # NoValue => \A d \in Resolve(devices, of) : Same(d.uid, of.uid)
<1>1. /\ ByUid(devices, of.uid) \subseteq Range(devices)
      /\ ByUid(devices, of.ref) \subseteq Range(devices)
      /\ ByAlias(devices, of.ref) \subseteq Range(devices)
      /\ OnlyOne(devices) \subseteq Range(devices)
  BY OnlyOneIsListed DEF ByUid, ByAlias
<1>2. CASE of.uid # NoValue
  <2>1. Resolve(devices, of) = ByUid(devices, of.uid)
    BY <1>2 DEF Resolve
  <2> QED
    BY <1>1, <2>1 DEF ByUid
<1>3. CASE of.uid = NoValue
  <2> DEFINE uids == ByUid(devices, of.ref)
             matches == IF uids # {} THEN uids ELSE ByAlias(devices, of.ref)
  <2>1. matches \subseteq Range(devices)
    BY <1>1
  <2>2. Resolve(devices, of) = matches \/ Resolve(devices, of) = OnlyOne(devices)
    BY <1>3 DEF Resolve
  <2> QED
    BY <1>1, <1>3, <2>1, <2>2
<1> QED
  BY <1>2, <1>3

\* What is validated as a camera is one of the list.
LEMMA ValidatedIsListed ==
    ASSUME NEW S, NEW devices \in Seq(S), NEW text, Validated(devices, text).is = "camera"
    PROVE  \E d \in Range(devices) : Validated(devices, text).uid = d.uid
<1> DEFINE uids == ByUid(devices, text)
           aliases == ByAlias(devices, text)
           One(found) == [is |-> "camera", uid |-> (CHOOSE d \in found : TRUE).uid]
           answer == Validated(devices, text)
<1>1. uids \subseteq Range(devices) /\ aliases \subseteq Range(devices)
  BY DEF ByUid, ByAlias
<1>2. ASSUME NEW found, found \subseteq Range(devices), answer = One(found),
             (CHOOSE d \in found : TRUE) \in found
      PROVE  \E d \in Range(devices) : answer.uid = d.uid
  <2>1. answer.uid = (CHOOSE d \in found : TRUE).uid
    BY <1>2
  <2> QED
    BY <1>2, <2>1
<1>3. CASE text \in {NoValue, Blank}
  <2>1. answer = IF Len(devices) = 1 THEN One(Range(devices)) ELSE [is |-> "choice"]
    BY <1>3 DEF Validated
  <2>2. [is |-> "choice"].is # "camera"
    OBVIOUS
  <2>3. Len(devices) = 1 /\ answer = One(Range(devices))
    <3> HIDE DEF One
    <3> QED
      BY <2>1, <2>2
  <2>4. (CHOOSE d \in Range(devices) : TRUE) \in Range(devices)
    BY <2>3, OnlyOneIsListed
  <2> HIDE DEF answer
  <2>5. \E d \in Range(devices) : answer.uid = d.uid
    BY <1>2, <2>3, <2>4
  <2> QED
    BY <2>5 DEF answer
<1>4. CASE text \notin {NoValue, Blank} /\ uids # {}
  <2>1. answer = IF Cardinality(uids) = 1 THEN One(uids) ELSE [is |-> "choice"]
    BY <1>4 DEF Validated
  <2>2. [is |-> "choice"].is # "camera"
    OBVIOUS
  <2>3. Cardinality(uids) = 1 /\ answer = One(uids)
    <3> HIDE DEF One, uids
    <3> QED
      BY <2>1, <2>2
  <2> HIDE DEF answer, uids
  <2>4. (CHOOSE d \in uids : TRUE) \in uids
    BY <2>3, OneIsChosen
  <2>5. \E d \in Range(devices) : answer.uid = d.uid
    BY <1>1, <1>2, <2>3, <2>4
  <2> QED
    BY <2>5 DEF answer
<1>5. CASE text \notin {NoValue, Blank} /\ uids = {}
  <2>1. answer = IF Cardinality(aliases) = 1 THEN One(aliases)
                 ELSE [is |-> IF aliases = {} THEN "unknown" ELSE "ambiguous"]
    BY <1>5 DEF Validated
  <2>2. [is |-> IF aliases = {} THEN "unknown" ELSE "ambiguous"].is # "camera"
    OBVIOUS
  <2>3. Cardinality(aliases) = 1 /\ answer = One(aliases)
    <3> HIDE DEF One, aliases
    <3> QED
      BY <2>1, <2>2
  <2> HIDE DEF answer, aliases
  <2>4. (CHOOSE d \in aliases : TRUE) \in aliases
    BY <2>3, OneIsChosen
  <2>5. \E d \in Range(devices) : answer.uid = d.uid
    BY <1>1, <1>2, <2>3, <2>4
  <2> QED
    BY <2>5 DEF answer
<1> QED
  BY <1>3, <1>4, <1>5

\* What a step does to the entry in a slot: it keeps the UID; its user chooses
\* one; or a set-up stores what it found.
KeepsUid(e) == entries[e] # NoEntry /\ entries'[e] # NoEntry => entries'[e].uid = entries[e].uid

Chosen(e) ==
    /\ flow.step # "none" /\ flow.slot \in {e, NoEntry} /\ flow' = NoFlow
    /\ flow.slot = NoEntry => entries[e] = NoEntry
    /\ Text(entries'[e].uid) /\ Reaches(entries'[e].uid)

Found(e) ==
    /\ In(e, "resolve")
    /\ Text(entries'[e].uid) /\ Reaches(entries'[e].uid)
    /\ entries[e].target.uid # NoValue => Same(entries'[e].uid, entries[e].target.uid)

EntryEffect(e) ==
    /\ entries'[e] # NoEntry => IsEntry(entries'[e])
    /\ \/ KeepsUid(e) /\ (entries[e] = NoEntry => entries'[e] = NoEntry)
       \/ Chosen(e)
       \/ Found(e)

Effects == DOMAIN entries' = Slots /\ \A e \in Slots : EntryEffect(e)

LEMMA NoEffect ==
    ASSUME EntriesNamed, UNCHANGED entries
    PROVE  Effects
BY DEF EntriesNamed, Effects, EntryEffect, KeepsUid

\* One slot changes.
LEMMA OneEffect ==
    ASSUME EntriesNamed, NEW x \in Slots, DOMAIN entries' = Slots,
           \A s \in Slots : s # x => entries'[s] = entries[s], EntryEffect(x)
    PROVE  Effects
<1> SUFFICES ASSUME NEW s \in Slots, s # x PROVE EntryEffect(s)
  BY DEF Effects
<1>1. entries'[s] = entries[s]
  OBVIOUS
<1> QED
  BY <1>1 DEF EntriesNamed, EntryEffect, KeepsUid

\* A set-up goes on, ends or starts again.
LEMMA SetupEffect ==
    ASSUME EntryInv, NEW x \in Slots,
           BeginSetup(x) \/ ConfigureCamera(x) \/ FirstRefresh(x) \/ Retry(x) \/ Reload(x)
    PROVE  Effects /\ FlowNamed' /\ flow' = flow
<1> DEFINE Going == /\ DOMAIN entries' = Slots
                    /\ \A s \in Slots : s # x => entries'[s] = entries[s]
                    /\ IsEntry(entries'[x]) /\ entries'[x].uid = entries[x].uid
<1>1. DOMAIN entries = Slots /\ entries[x] # NoEntry /\ IsEntry(entries[x]) /\ flow' = flow
  BY DEF EntryInv, EntriesNamed, BeginSetup, ConfigureCamera, FirstRefresh, Retry, Reload,
     In, Present
<1>2. ASSUME BeginSetup(x) PROVE Going
  BY <1>1, <1>2 DEF BeginSetup, IsEntry
<1>3. ASSUME NEW state, Continues(x, state) PROVE Going
  BY <1>1, <1>3 DEF Continues, IsEntry
<1>4. ASSUME NEW state, EndsAs(x, state) PROVE Going
  BY <1>1, <1>4 DEF EndsAs, IsEntry
<1>5. ASSUME ConfigureCamera(x) PROVE Going
  <2>1. CASE Reaches(entries[x].target.uid)
    BY <1>1, <1>5, <2>1 DEF ConfigureCamera, IsEntry
  <2>2. CASE ~Reaches(entries[x].target.uid)
    BY <1>4, <1>5, <2>2 DEF ConfigureCamera
  <2> QED
    BY <2>1, <2>2
<1>6. Going
  BY <1>2, <1>3, <1>4, <1>5 DEF FirstRefresh, Retry, Reload
<1>7. EntryEffect(x)
  BY <1>1, <1>6 DEF EntryEffect, KeepsUid
<1>8. Effects
  BY <1>6, <1>7, OneEffect DEF EntryInv
<1>9. FlowNamed'
  <2>1. \A s \in Slots : IsEntry(entries[s]) => IsEntry(entries'[s])
    BY <1>6
  <2> QED
    BY <1>1, <2>1 DEF EntryInv, FlowNamed
<1> QED
  BY <1>1, <1>8, <1>9

LEMMA ResolveEffect ==
    ASSUME EntryInv, NEW x \in Slots, ResolveCamera(x)
    PROVE  Effects /\ FlowNamed' /\ flow' = flow
<1> DEFINE found == IF Devices = Failed THEN {} ELSE Resolve(Devices, entries[x].target)
           uid == (CHOOSE d \in found : TRUE).uid
           kept == entries'[x].uid = entries[x].uid
           taken == /\ Text(entries'[x].uid) /\ Reaches(entries'[x].uid)
                    /\ entries[x].target.uid # NoValue
                          => Same(entries'[x].uid, entries[x].target.uid)
           Going == /\ DOMAIN entries' = Slots
                    /\ \A s \in Slots : s # x => entries'[s] = entries[s]
                    /\ IsEntry(entries'[x])
<1>1. DOMAIN entries = Slots /\ entries[x] # NoEntry /\ IsEntry(entries[x]) /\ flow' = flow
  BY DEF EntryInv, EntriesNamed, ResolveCamera, In, Present
<1>a. ASSUME Going, kept \/ taken
      PROVE  Effects /\ FlowNamed'
  <2>1. EntryEffect(x)
    BY <1>1, <1>a DEF EntryEffect, KeepsUid, Found, ResolveCamera
  <2>2. Effects
    BY <1>a, <2>1, OneEffect DEF EntryInv
  <2>3. \A s \in Slots : IsEntry(entries[s]) => IsEntry(entries'[s])
    BY <1>a
  <2> QED
    BY <1>1, <2>2, <2>3 DEF EntryInv, FlowNamed
<1>2. CASE Cardinality(found) = 1
  <2>1. /\ DOMAIN entries' = Slots /\ \A s \in Slots : s # x => entries'[s] = entries[s]
        /\ IsEntry(entries'[x]) /\ entries'[x].uid = uid
    <3>1. entries' = [entries EXCEPT ![x].state = "configure", ![x].uid = uid,
                          ![x].ref = uid, ![x].target = [uid |-> uid, ref |-> uid]]
      BY <1>2 DEF ResolveCamera
    <3> HIDE DEF uid
    <3> QED
      BY <1>1, <3>1 DEF IsEntry
  <2>2. (CHOOSE d \in found : TRUE) \in found
    <3> HIDE DEF found
    <3> QED
      BY <1>2, OneIsChosen
  <2>3. Devices # Failed /\ found = Resolve(Devices, entries[x].target)
    BY <2>2
  <2>4. PICK S : Devices \in Seq(S)
    BY <2>3, ListedIsServed DEF EntryInv
  <2>5. PICK d \in found : uid = d.uid
    BY <2>2
  <2>6. /\ d \in Range(Devices)
        /\ entries[x].target.uid # NoValue => Same(d.uid, entries[x].target.uid)
    BY <2>3, <2>4, <2>5, ResolvedIsListed
  <2>7. Text(d.uid) /\ Reaches(d.uid)
    BY <2>3, <2>6, ListedIsServed DEF EntryInv
  <2>8. entries'[x].uid = d.uid
    BY <2>1, <2>5
  <2> QED
    BY <1>1, <1>a, <2>1, <2>6, <2>7, <2>8
<1>3. CASE Cardinality(found) # 1
  <2>1. \E state : EndsAs(x, state)
    BY <1>3 DEF ResolveCamera
  <2>2. Going /\ kept
    BY <1>1, <2>1 DEF EndsAs, IsEntry
  <2> QED
    BY <1>1, <1>a, <2>2
<1> QED
  BY <1>2, <1>3

\* The user's choice is stored in a new entry, or in that of the flow.
LEMMA SettledEffect ==
    ASSUME EntryInv, flow.step # "none", NEW uid, Text(uid), Reaches(uid), Settled(uid)
    PROVE  Effects /\ FlowNamed'
<1>1. DOMAIN entries = Slots /\ flow' = NoFlow
  BY DEF EntryInv, EntriesNamed, Settled
<1>2. FlowNamed'
  BY <1>1 DEF FlowNamed, NoFlow
<1>3. CASE flow.slot = NoEntry
  <2>1. CASE UNCHANGED entries
    BY <1>2, <2>1, NoEffect DEF EntryInv
  <2>2. CASE \E e \in Slots : ~Present(e) /\ entries' = [entries EXCEPT ![e] = Entry(uid, uid, uid)]
    <3>1. PICK e \in Slots :
            ~Present(e) /\ entries' = [entries EXCEPT ![e] = Entry(uid, uid, uid)]
      BY <2>2
    <3>2. IsEntry(Entry(uid, uid, uid)) /\ Entry(uid, uid, uid).uid = uid
      BY DEF IsEntry, Entry
    <3>3. /\ DOMAIN entries' = Slots /\ \A s \in Slots : s # e => entries'[s] = entries[s]
          /\ entries'[e] = Entry(uid, uid, uid)
      BY <1>1, <3>1
    <3>4. EntryEffect(e)
      BY <1>1, <1>3, <3>1, <3>2, <3>3 DEF EntryEffect, Chosen, Present
    <3> QED
      BY <1>2, <3>3, <3>4, OneEffect DEF EntryInv
  <2> QED
    BY <1>3, <2>1, <2>2 DEF Settled, Create
<1>4. CASE flow.slot # NoEntry
  <2> DEFINE x == flow.slot
  <2>1. x \in Slots /\ IsEntry(entries[x])
    BY <1>4 DEF EntryInv, FlowNamed
  <2>2. /\ DOMAIN entries' = Slots /\ \A s \in Slots : s # x => entries'[s] = entries[s]
        /\ IsEntry(entries'[x]) /\ entries'[x].uid = uid
    <3> DEFINE busy == entries[x].state \in {"resolve", "configure", "refresh"}
               state == IF busy THEN entries[x].state ELSE "setup"
    <3>1. entries' = [entries EXCEPT ![x].uid = uid, ![x].ref = uid, ![x].again = busy,
                                     ![x].state = IF busy THEN @ ELSE "setup"]
      BY <1>4 DEF Settled, Update
    <3> HIDE DEF busy
    <3> QED
      BY <1>1, <2>1, <3>1 DEF IsEntry
  <2>3. EntryEffect(x)
    BY <1>1, <1>4, <2>2 DEF EntryEffect, Chosen
  <2> QED
    BY <1>2, <2>1, <2>2, <2>3, OneEffect DEF EntryInv
<1> QED
  BY <1>3, <1>4

\* What is chosen is one of the cameras the registry lists.
LEMMA FlowEffect ==
    ASSUME EntryInv, FlowStep
    PROVE  Effects /\ FlowNamed'
<1>1. ASSUME NEW text, flow.step # "none", Devices # Failed,
             Validated(Devices, text).is = "camera", Settled(Validated(Devices, text).uid)
      PROVE  Effects /\ FlowNamed'
  <2>1. PICK S : Devices \in Seq(S)
    BY <1>1, ListedIsServed DEF EntryInv
  <2>2. PICK d \in Range(Devices) : Validated(Devices, text).uid = d.uid
    BY <1>1, <2>1, ValidatedIsListed
  <2>3. Text(d.uid) /\ Reaches(d.uid)
    BY <1>1, ListedIsServed DEF EntryInv
  <2> QED
    BY <1>1, <2>2, <2>3, SettledEffect
<1>2. ASSUME UNCHANGED entries, FlowNamed'
      PROVE  Effects /\ FlowNamed'
  BY <1>2, NoEffect DEF EntryInv
<1>3. CASE Abandon
  <2>1. entries' = entries /\ flow' = NoFlow
    BY <1>3 DEF Abandon
  <2>2. FlowNamed'
    BY <2>1 DEF FlowNamed, NoFlow
  <2> QED
    BY <1>2, <2>1, <2>2
<1>4. CASE \E slot \in Slots \cup {NoEntry} : OpenFlow(slot)
  <2>1. PICK slot \in Slots \cup {NoEntry} : OpenFlow(slot)
    BY <1>4
  <2>2. /\ entries' = entries /\ flow' = [NoFlow EXCEPT !.step = "form", !.slot = slot]
        /\ slot \in {NoEntry} \cup {e \in Slots : entries[e] # NoEntry}
    BY <2>1 DEF OpenFlow, Present
  <2>3. DOMAIN flow' = {"step", "slot", "uids"} /\ flow'.slot = slot
    BY <2>2 DEF NoFlow
  <2>4. slot # NoEntry => slot \in Slots /\ IsEntry(entries[slot])
    BY <2>2 DEF EntryInv, EntriesNamed
  <2>5. FlowNamed'
    BY <2>2, <2>3, <2>4 DEF FlowNamed
  <2> QED
    BY <1>2, <2>2, <2>5
<1>5. CASE \E text \in References : Submit(text)
  <2>1. PICK text \in References : Submit(text)
    BY <1>5
  <2>2. CASE /\ flow' = [flow EXCEPT !.step = "camera", !.uids = {d.uid : d \in Range(Devices)}]
             /\ entries' = entries
    <3>1. DOMAIN flow' = {"step", "slot", "uids"} /\ flow'.slot = flow.slot
      BY <2>2 DEF EntryInv, FlowNamed
    <3>2. FlowNamed'
      BY <2>2, <3>1 DEF EntryInv, FlowNamed
    <3> QED
      BY <1>2, <2>2, <3>2
  <2>3. CASE Validated(Devices, text).is = "camera" /\ Settled(Validated(Devices, text).uid)
    BY <1>1, <2>1, <2>3 DEF Submit
  <2> QED
    BY <2>1, <2>2, <2>3 DEF Submit
<1>6. CASE \E uid \in Cameras : Choose(uid)
  BY <1>1, <1>6 DEF Choose
<1> QED
  BY <1>3, <1>4, <1>5, <1>6 DEF FlowStep

LEMMA RemoveEffect ==
    ASSUME EntryInv, NEW x \in Slots, Remove(x)
    PROVE  Effects /\ FlowNamed'
<1>1. /\ DOMAIN entries' = Slots /\ \A s \in Slots : s # x => entries'[s] = entries[s]
      /\ entries'[x] = NoEntry /\ flow' = IF flow.slot = x THEN NoFlow ELSE flow
  BY DEF Remove, EntryInv, EntriesNamed
<1>2. EntryEffect(x)
  BY <1>1 DEF EntryEffect, KeepsUid
<1>3. Effects
  BY <1>1, <1>2, OneEffect DEF EntryInv
<1>4. FlowNamed'
  <2>1. CASE flow.slot = x
    BY <1>1, <2>1 DEF FlowNamed, NoFlow
  <2>2. CASE flow.slot # x
    BY <1>1, <2>2 DEF EntryInv, FlowNamed
  <2> QED
    BY <2>1, <2>2
<1> QED
  BY <1>3, <1>4

LEMMA RestartEffect ==
    ASSUME EntryInv, HaRestarts
    PROVE  Effects /\ FlowNamed'
<1>1. /\ entries' = [e \in Slots |->
                       IF entries[e] # NoEntry
                       THEN [entries[e] EXCEPT !.state = "setup", !.again = FALSE]
                       ELSE NoEntry]
      /\ flow' = NoFlow
  BY DEF HaRestarts, Present
<1>2. FlowNamed'
  BY <1>1 DEF FlowNamed, NoFlow
<1>3. ASSUME NEW e \in Slots
      PROVE  EntryEffect(e)
  <2>1. CASE entries[e] # NoEntry
    <3>1. entries'[e] = [entries[e] EXCEPT !.state = "setup", !.again = FALSE]
      BY <1>1, <2>1
    <3>2. IsEntry(entries[e])
      BY <2>1 DEF EntryInv, EntriesNamed
    <3>3. IsEntry(entries'[e]) /\ entries'[e].uid = entries[e].uid
      BY <3>1, <3>2 DEF IsEntry
    <3> QED
      BY <2>1, <3>3 DEF EntryEffect, KeepsUid
  <2>2. CASE entries[e] = NoEntry
    BY <1>1, <2>2 DEF EntryEffect, KeepsUid
  <2> QED
    BY <2>1, <2>2
<1> QED
  BY <1>1, <1>2, <1>3 DEF Effects

LEMMA HaEffect ==
    ASSUME EntryInv, [HaNext]_haVars
    PROVE  Effects /\ FlowNamed'
<1>1. ASSUME UNCHANGED <<entries, flow>>
      PROVE  Effects /\ FlowNamed'
  BY <1>1, NoEffect DEF EntryInv, FlowNamed
<1>2. CASE \E e \in Slots : SetupStep(e) \/ Retry(e) \/ Reload(e)
  BY <1>2, SetupEffect, ResolveEffect DEF SetupStep
<1>3. CASE \E e \in Slots : Remove(e)
  BY <1>3, RemoveEffect
<1>4. CASE \E e \in Slots : EntityStep(e)
  BY <1>1, <1>4 DEF EntityStep, AskPicture, SnapshotBegins, SnapshotTaken, SnapshotFails,
     Poll, WatchEnds, StreamSource
<1>5. CASE FlowStep
  BY <1>5, FlowEffect
<1>6. CASE HaRestarts
  BY <1>6, RestartEffect
<1>7. CASE UNCHANGED <<entries, flow>>
  BY <1>1, <1>7
<1> QED
  BY <1>2, <1>3, <1>4, <1>5, <1>6, <1>7 DEF HaNext, haVars

LEMMA EntryStep ==
    ASSUME EntryInv, [HaNext]_haVars
    PROVE  EntryInv'
<1>1. EntriesNamed'
  <2>1. Effects
    BY HaEffect
  <2> SUFFICES ASSUME NEW e \in Slots, entries'[e] # NoEntry
               PROVE  IsEntry(entries'[e]) /\ entries'[e].uid # Blank
    BY <2>1 DEF Effects, EntriesNamed
  <2>2. EntryEffect(e)
    BY <2>1 DEF Effects
  <2> QED
    BY <2>2 DEF EntryInv, EntriesNamed, EntryEffect, KeepsUid, Chosen, Found, Text
<1>2. RegistryNamed'
  <2>1. CASE UNCHANGED <<bridges, selected>>
    BY <2>1 DEF EntryInv, RegistryNamed, Text
  <2>2. CASE AppStep(scene.guests)
    BY <2>2, RegistryStep DEF EntryInv
  <2>3. CASE \E e \in Slots : SetupStep(e) \/ Retry(e) \/ Reload(e) \/ Remove(e)
    BY <2>1, <2>3 DEF SetupStep, BeginSetup, ResolveCamera, ConfigureCamera, FirstRefresh,
       Retry, Reload, Remove, appVars, startup
  <2>4. CASE \E e \in Slots : EntityStep(e)
    BY <2>1, <2>4 DEF EntityStep, AskPicture, SnapshotBegins, SnapshotTaken, SnapshotFails,
       Poll, WatchEnds, StreamSource, Request, Leave, appVars, startup
  <2>5. CASE FlowStep \/ HaRestarts
    BY <2>1, <2>5 DEF FlowStep, OpenFlow, Submit, Choose, Abandon, HaRestarts, appVars, startup
  <2>6. CASE UNCHANGED haVars
    BY <2>1, <2>6 DEF haVars, appVars, startup
  <2> QED
    BY <2>2, <2>3, <2>4, <2>5, <2>6 DEF HaNext
<1> QED
  BY <1>1, <1>2, HaEffect DEF EntryInv

LEMMA EntryInit == HaInit => EntryInv
<1> SUFFICES ASSUME HaInit PROVE EntryInv
  OBVIOUS
<1>1. RegistryNamed
  <2>1. bridges \in Seq({}) /\ selected = <<>>
    BY DEF HaInit, AppInit
  <2>2. \E S : bridges \in Seq(S) /\ \A b \in S : Text(b.uid)
    BY <2>1
  <2> QED
    BY <2>1, <2>2 DEF RegistryNamed
<1>2. EntriesNamed
  <2>1. DOMAIN entries = Slots
    BY IntegrationAssumption DEF HaInit
  <2> SUFFICES ASSUME NEW e \in Slots, entries[e] # NoEntry
               PROVE  IsEntry(entries[e]) /\ entries[e].uid # Blank
    BY <2>1 DEF EntriesNamed
  <2>2. /\ entries[e] = Entry(entries[e].uid, entries[e].ref, entries[e].unique)
        /\ entries[e].uid # Blank
    BY IntegrationAssumption DEF HaInit
  <2>3. \A u, r, v : IsEntry(Entry(u, r, v))
    BY DEF IsEntry, Entry
  <2> QED
    BY <2>2, <2>3
<1>3. FlowNamed
  BY DEF HaInit, FlowNamed, NoFlow
<1> QED
  BY <1>1, <1>2, <1>3 DEF EntryInv

LEMMA AlwaysEntries == HaSpec => []EntryInv
<1>1. EntryInv /\ [HaNext]_haVars => EntryInv'
  BY EntryStep
<1> QED
  BY <1>1, EntryInit, PTL DEF HaSpec

\* An entry that knows its camera stands for it until its user chooses another,
\* through restarts of the app and of Home Assistant, except for a set-up that
\* began before the choice (__init__.py, _resolve_camera_uid).
THEOREM EntriesKeepTheirCameras == HaSpec => EntryKeepsItsCamera
<1> DEFINE Kept ==
      \A e \in Slots :
         (/\ entries[e] # NoEntry /\ entries'[e] # NoEntry
          /\ entries[e].uid # NoValue /\ ~Same(entries'[e].uid, entries[e].uid))
         => \/ flow.slot = e /\ flow' = NoFlow
            \/ In(e, "resolve") /\ entries[e].uid # entries[e].target.uid
<1>1. EntryInv /\ [HaNext]_haVars => [Kept]_haVars
  <2> SUFFICES ASSUME EntryInv, [HaNext]_haVars, NEW e \in Slots,
                      entries[e] # NoEntry, entries'[e] # NoEntry,
                      entries[e].uid # NoValue, ~Same(entries'[e].uid, entries[e].uid)
               PROVE  \/ flow.slot = e /\ flow' = NoFlow
                      \/ In(e, "resolve") /\ entries[e].uid # entries[e].target.uid
    OBVIOUS
  <2>1. EntryEffect(e) /\ Text(entries[e].uid)
    BY HaEffect DEF Effects, EntryInv, EntriesNamed, Text
  <2>2. CASE KeepsUid(e)
    BY <2>1, <2>2 DEF KeepsUid, Same, Text
  <2>3. CASE Chosen(e)
    BY <2>3 DEF Chosen
  <2>4. CASE Found(e)
    BY <2>4 DEF Found
  <2> QED
    BY <2>1, <2>2, <2>3, <2>4 DEF EntryEffect
<1>2. HaSpec => [][Kept]_haVars
  BY <1>1, AlwaysEntries, PTL DEF HaSpec
<1> QED
  BY <1>2 DEF EntryKeepsItsCamera

\* The camera a flow stores is one the bridge serves at that moment
\* (config_flow.py, _validate).
THEOREM StoredIsServed == HaSpec => StoredCameraIsServed
<1> DEFINE Stored ==
      (flow.step # "none" /\ entries' # entries) =>
         \A e \in Slots : (/\ entries'[e] # NoEntry
                           /\ entries[e] = NoEntry \/ entries'[e].uid # entries[e].uid
                           /\ entries[e] = NoEntry \/ flow.slot = e)
             => Reaches(entries'[e].uid)
<1>1. EntryInv /\ [HaNext]_haVars => [Stored]_haVars
  <2> SUFFICES ASSUME EntryInv, [HaNext]_haVars, NEW e \in Slots, entries'[e] # NoEntry,
                      entries[e] = NoEntry \/ entries'[e].uid # entries[e].uid
               PROVE  Reaches(entries'[e].uid)
    OBVIOUS
  <2>1. EntryEffect(e)
    BY HaEffect DEF Effects
  <2> QED
    BY <2>1 DEF EntryEffect, KeepsUid, Chosen, Found
<1>2. HaSpec => [][Stored]_haVars
  BY <1>1, AlwaysEntries, PTL DEF HaSpec
<1> QED
  BY <1>2 DEF StoredCameraIsServed
=============================================================================
