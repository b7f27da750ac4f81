----------------------------- MODULE CS2Connect -----------------------------
(***************************************************************************)
(* The negotiation of a peer by CS2Session.connect (cs2.py) and its end by *)
(* close(): directory, relays and camera answer in any order, twice, late  *)
(* or not at all.  They are external: an answer is put on its way when the *)
(* packet it answers is sent, and may be lost.  A packet has the name of   *)
(* its type and its sender, or, from the directory, the endpoint it names: *)
(* f140 tells a camera endpoint, f169 a relay, f182 any endpoint; f171 and *)
(* f173 are a relay's; f141 is the camera's, and stands for f142 too, which*)
(* does the same.  f184, which makes its sender the peer, is taken from    *)
(* anybody but the directory.  An operator with a suffix is a faulty       *)
(* variant that no action uses.                                            *)
(***************************************************************************)
EXTENDS Naturals, FiniteSets

CONSTANTS
    Cameras,     \* endpoints of the camera
    Relays,      \* relays the directory knows
    None         \* no endpoint

ASSUME ConnectAssumption ==
    None \notin Cameras \cup Relays /\ Cameras \cap Relays = {}

Endpoints == Cameras \cup Relays

Packet(k, e) == [kind |-> k, of |-> e]
Packets ==
    [kind : {"f140", "f141"}, of : Cameras]
        \cup [kind : {"f169", "f171", "f173"}, of : Relays]
        \cup [kind : {"f184"}, of : Endpoints] \cup {Packet("f182", None)}

VARIABLES
    preferRelay,   \* prefer_relay: FALSE only in the local probe
    pc,            \* "negotiating", "connected", "closed"
    inbox,         \* packets on their way to the session
    endpoints,     \* camera endpoints to punch
    relays,        \* relay_endpoints
    relayPort,     \* relay_port_endpoint, the relay that answered first
    request,       \* relay_request, by the relay whose answer it was made of
    closeTargets,  \* _close_targets
    peer,          \* _peer
    goodbyes       \* whom close() told

found == <<endpoints, relays, relayPort, request>>
end   == <<closeTargets, peer, goodbyes>>
vars  == <<preferRelay, pc, inbox, found, end>>

Init ==
    /\ preferRelay \in BOOLEAN
    /\ pc = "negotiating" /\ inbox = {}
    /\ endpoints = {} /\ relays = {} /\ relayPort = None /\ request = None
    /\ closeTargets = {} /\ peer = None /\ goodbyes = {}

----------------------------------------------------------------------------
(* What is sent puts its answers on their way.                             *)

Lookup       == {Packet("f140", c) : c \in Cameras}
ListRequest  == {Packet("f169", r) : r \in Relays}
Hello(rs)    == {Packet("f171", r) : r \in rs}
PortRequest(r)  == {Packet("f173", r)}
RelayRequest    == {Packet("f182", None)}
RelayPunch(es)  == {Packet("f184", e) : e \in es}
Punch(cs)    == {Packet("f141", c) : c \in cs}

\* The four repeated sends of the loop, each when its time has come.
TickDirectory ==
    /\ pc = "negotiating"
    /\ inbox' = inbox \cup Lookup
    /\ UNCHANGED <<preferRelay, pc, found, end>>

TickRelayList ==
    /\ pc = "negotiating"
    /\ inbox' = inbox \cup ListRequest
    /\ UNCHANGED <<preferRelay, pc, found, end>>

TickRelay_HelloOnly ==
    /\ pc = "negotiating" /\ relays # {}
    /\ inbox' = inbox \cup Hello(relays)
    /\ UNCHANGED <<preferRelay, pc, found, end>>

TickRelay ==
    /\ pc = "negotiating" /\ relays # {}
    /\ inbox' = inbox \cup
           CASE relayPort = None -> Hello(relays)
             [] relayPort # None /\ request = None -> PortRequest(relayPort)
             [] OTHER -> RelayRequest
    /\ UNCHANGED <<preferRelay, pc, found, end>>

TickPunch ==
    /\ pc = "negotiating" /\ endpoints # {}
    /\ inbox' = inbox \cup Punch(endpoints)
    /\ UNCHANGED <<preferRelay, pc, found, end>>

----------------------------------------------------------------------------
(* What is received; the network may have a duplicate.                     *)

Receive(p, answers) ==
    /\ pc = "negotiating" /\ p \in inbox
    /\ \E rest \in {inbox, inbox \ {p}} : inbox' = rest \cup answers

CameraNamed(c) ==
    /\ Receive(Packet("f140", c), Punch({c}))
    /\ endpoints' = endpoints \cup {c}
    /\ closeTargets' = closeTargets \cup {c}
    /\ UNCHANGED <<preferRelay, pc, relays, relayPort, request, peer, goodbyes>>

RelayNamed(r) ==
    /\ Receive(Packet("f169", r), {})
    /\ relays' = relays \cup {r}
    /\ UNCHANGED <<preferRelay, pc, endpoints, relayPort, request, end>>

RelayAnswers_TakesLast(r) ==
    /\ r \in relays
    /\ relayPort' = r
    /\ Receive(Packet("f171", r), PortRequest(r))
    /\ UNCHANGED <<preferRelay, pc, endpoints, relays, request, end>>

\* The first relay that answers is kept; the others' answers are ignored.
RelayAnswers(r) ==
    /\ r \in relays
    /\ \/ /\ relayPort = None
          /\ relayPort' = r
          /\ Receive(Packet("f171", r), PortRequest(r))
       \/ /\ relayPort # None
          /\ Receive(Packet("f171", r), {})
          /\ UNCHANGED relayPort
    /\ UNCHANGED <<preferRelay, pc, endpoints, relays, request, end>>

PortAllocated(r) ==
    /\ r \in relays
    /\ \/ /\ r = relayPort
          /\ request' = r /\ Receive(Packet("f173", r), RelayRequest)
       \/ /\ r # relayPort
          /\ Receive(Packet("f173", r), {}) /\ UNCHANGED request
    /\ UNCHANGED <<preferRelay, pc, endpoints, relays, relayPort, end>>

\* Both rendezvous packets name endpoints to punch, f182 one and f102 two, of
\* which any may be unreadable.  f102 comes unasked, and from anybody.
Rendezvous(e) ==
    /\ Receive(Packet("f182", None), RelayPunch({e}))
    /\ UNCHANGED <<preferRelay, pc, found, end>>

RelayTo(targets) ==
    /\ pc = "negotiating" /\ Cardinality(targets) <= 2
    /\ inbox' = inbox \cup RelayPunch(targets)
    /\ UNCHANGED <<preferRelay, pc, found, end>>

Adopt(e) == peer' = e /\ pc' = "connected"

\* Whoever says that the relay is ready is the peer: it need not be the relay
\* that was asked.
RelayReady(e) ==
    /\ Receive(Packet("f184", e), {})
    /\ closeTargets' = closeTargets \cup {e}
    /\ Adopt(e)
    /\ UNCHANGED <<preferRelay, found, goodbyes>>

\* A direct session accepts commands and never streams.
AdoptsCamera == ~preferRelay

\* The camera punches or says it is ready: adopted only if no relay is
\* preferred, and to be told goodbye in any case.
CameraSpeaks(c) ==
    /\ Receive(Packet("f141", c), {})
    /\ closeTargets' = closeTargets \cup {c}
    /\ IF AdoptsCamera THEN Adopt(c) ELSE UNCHANGED <<pc, peer>>
    /\ UNCHANGED <<preferRelay, found, goodbyes>>

----------------------------------------------------------------------------
(* The end: connect gives up, the peer says goodbye, or the helper closes. *)

Close ==
    /\ pc \in {"negotiating", "connected"}
    /\ pc' = "closed" /\ peer' = None
    /\ goodbyes' = closeTargets \cup ({peer} \ {None})
    /\ inbox' = {}
    /\ UNCHANGED <<preferRelay, found, closeTargets>>

(* The network, and the camera that tries to reach the session by itself.  *)

Lose(p) ==
    /\ pc = "negotiating" /\ p \in inbox
    /\ inbox' = inbox \ {p}
    /\ UNCHANGED <<preferRelay, pc, found, end>>

CameraFloods(c) ==
    /\ pc = "negotiating"
    /\ inbox' = inbox \cup Punch({c})
    /\ UNCHANGED <<preferRelay, pc, found, end>>

Finished == pc = "closed" /\ UNCHANGED vars

Handle ==
    \/ \E c \in Cameras : CameraNamed(c) \/ CameraSpeaks(c)
    \/ \E r \in Relays : RelayNamed(r) \/ RelayAnswers(r) \/ PortAllocated(r)
    \/ \E e \in Endpoints : Rendezvous(e) \/ RelayReady(e)
    \/ \E targets \in SUBSET Endpoints : RelayTo(targets)

Next ==
    \/ TickDirectory \/ TickRelayList \/ TickRelay \/ TickPunch
    \/ Handle \/ Close
    \/ \E p \in Packets : Lose(p)
    \/ \E c \in Cameras : CameraFloods(c)
    \/ Finished

\* The loop repeats what is due, and of an answer that is sent again and again
\* some copy arrives.  Nothing is assumed of the camera's own packets.
Fairness ==
    /\ WF_vars(TickRelayList) /\ WF_vars(TickRelay)
    /\ SF_vars(\E r \in Relays : RelayNamed(r))
    /\ SF_vars(\E r \in Relays : RelayAnswers(r))
    /\ SF_vars(\E r \in Relays : r = relayPort /\ PortAllocated(r))
    /\ SF_vars(\E e \in Endpoints : Rendezvous(e))
    /\ SF_vars(\E e \in Endpoints : RelayReady(e))

Spec == Init /\ [][Next]_vars /\ Fairness

----------------------------------------------------------------------------
(* Properties.                                                             *)

\* Every variable has its type, and there is a peer exactly while connected.
TypeOK ==
    /\ preferRelay \in BOOLEAN /\ pc \in {"negotiating", "connected", "closed"}
    /\ inbox \subseteq Packets
    /\ endpoints \subseteq Cameras /\ relays \subseteq Relays
    /\ relayPort \in relays \cup {None} /\ request \in relays \cup {None}
    /\ peer \in Endpoints \cup {None} /\ (pc = "connected" <=> peer # None)
    /\ closeTargets \subseteq Endpoints /\ goodbyes \subseteq Endpoints

\* The rendezvous is requested with a port of the relay that was asked for one:
\* the answers of several relays, in any order, late or twice, are never mixed
\* (cs2.py, the check against relay_port_endpoint).
OneRelayAtATime == request # None => request = relayPort

\* As long as the relays answer, losing and repeating packets cannot keep the
\* session from a peer: every request is repeated until it is answered.
NegotiationEnds == <>(pc # "negotiating")

=============================================================================
