-------------------------- MODULE CS2ConnectProofs --------------------------
(***************************************************************************)
(* Proofs about the negotiation, for any camera endpoints and any relays.  *)
(***************************************************************************)
EXTENDS CS2Connect, TLAPS

\* There is no peer before the connection, and no two relays are mixed.
ConnectInv ==
    /\ OneRelayAtATime
    /\ pc = "negotiating" => peer = None

\* The invariant holds at first.
LEMMA InitConnect == Init => ConnectInv
BY DEF Init, ConnectInv, OneRelayAtATime

\* A step of the negotiation keeps the invariant: a relay is asked for its port
\* only once, so that the request cannot be made of an earlier relay's answer.
LEMMA StepConnect == ConnectInv /\ [Next]_vars => ConnectInv'
<1>. SUFFICES ASSUME ConnectInv, [Next]_vars PROVE ConnectInv'
  OBVIOUS
<1>. USE ConnectAssumption DEF ConnectInv, OneRelayAtATime, found, end
<1>1. CASE TickDirectory \/ TickRelayList \/ TickRelay \/ TickPunch
  BY <1>1 DEF TickDirectory, TickRelayList, TickRelay, TickPunch
<1>2. ASSUME NEW c \in Cameras, CameraNamed(c) \/ CameraSpeaks(c) PROVE ConnectInv'
  BY <1>2 DEF CameraNamed, CameraSpeaks, Receive, Adopt
<1>3. ASSUME NEW r \in Relays, RelayNamed(r) \/ PortAllocated(r) PROVE ConnectInv'
  BY <1>3 DEF RelayNamed, PortAllocated, Receive
<1>4. ASSUME NEW r \in Relays, RelayAnswers(r) PROVE ConnectInv'
  BY <1>4 DEF RelayAnswers, Receive
<1>5. ASSUME NEW e \in Endpoints, Rendezvous(e) \/ RelayReady(e) PROVE ConnectInv'
  BY <1>5 DEF Rendezvous, RelayReady, Receive, Adopt
<1>6. ASSUME NEW targets \in SUBSET Endpoints, RelayTo(targets) PROVE ConnectInv'
  BY <1>6 DEF RelayTo
<1>7. CASE Close
  BY <1>7 DEF Close
<1>8. ASSUME NEW p \in Packets, Lose(p) PROVE ConnectInv'
  BY <1>8 DEF Lose
<1>9. ASSUME NEW c \in Cameras, CameraFloods(c) PROVE ConnectInv'
  BY <1>9 DEF CameraFloods
<1>10. CASE Finished \/ UNCHANGED vars
  BY <1>10 DEF Finished, vars
<1>. QED
  BY <1>1, <1>2, <1>3, <1>4, <1>5, <1>6, <1>7, <1>8, <1>9, <1>10 DEF Next, Handle

\* The invariant always holds.
THEOREM ConnectInvariant == Spec => []ConnectInv
BY InitConnect, StepConnect, PTL DEF Spec

\* The rendezvous is requested with a port of the relay that was asked for one,
\* in whatever order and however often the relays answer.
THEOREM NeverMixed == Spec => []OneRelayAtATime
<1>1. ConnectInv => OneRelayAtATime
  BY DEF ConnectInv
<1>. QED BY <1>1, ConnectInvariant, PTL

----------------------------------------------------------------------------
(* Types.                                                                  *)

\* What each send puts under way, and what is received, are packets.
LEMMA PacketTypes ==
    /\ \A c \in Cameras : Packet("f140", c) \in Packets /\ Packet("f141", c) \in Packets
    /\ \A r \in Relays : \A k \in {"f169", "f171", "f173"} : Packet(k, r) \in Packets
    /\ \A e \in Endpoints : Packet("f184", e) \in Packets
    /\ Packet("f182", None) \in Packets
BY DEF Packet, Packets

LEMMA StepTypes == TypeOK /\ ConnectInv /\ [Next]_vars => TypeOK'
<1>. SUFFICES ASSUME TypeOK, ConnectInv, [Next]_vars PROVE TypeOK'
  OBVIOUS
<1>. USE ConnectAssumption, PacketTypes DEF TypeOK, found, end
<1>0. preferRelay' = preferRelay
  BY DEF Next, Handle, TickDirectory, TickRelayList, TickRelay, TickPunch, CameraNamed,
     CameraSpeaks, RelayNamed, RelayAnswers, PortAllocated, Rendezvous, RelayReady,
     RelayTo, Close, Lose, CameraFloods, Finished, vars
<1>1. CASE TickDirectory \/ TickRelayList \/ TickPunch
  BY <1>0, <1>1 DEF TickDirectory, TickRelayList, TickPunch, Lookup, ListRequest, Punch
<1>2. CASE TickRelay
  <2>1. Hello(relays) \subseteq Packets
    BY DEF Hello
  <2>2. relayPort # None => PortRequest(relayPort) \subseteq Packets
    BY DEF PortRequest
  <2>3. RelayRequest \subseteq Packets
    BY DEF RelayRequest
  <2>4. inbox' \subseteq Packets
    BY <1>2, <2>1, <2>2, <2>3 DEF TickRelay
  <2>. QED BY <1>0, <1>2, <2>4 DEF TickRelay
<1>3. ASSUME NEW c \in Cameras, CameraNamed(c) \/ CameraSpeaks(c) PROVE TypeOK'
  BY <1>0, <1>3
  DEF CameraNamed, CameraSpeaks, Receive, Punch, Adopt, ConnectInv, Endpoints
<1>4. ASSUME NEW r \in Relays, RelayNamed(r) PROVE TypeOK'
  BY <1>0, <1>4 DEF RelayNamed, Receive
<1>5. ASSUME NEW r \in Relays, RelayAnswers(r) \/ PortAllocated(r) PROVE TypeOK'
  BY <1>0, <1>5 DEF RelayAnswers, PortAllocated, Receive, PortRequest, RelayRequest
<1>6. ASSUME NEW e \in Endpoints, Rendezvous(e) \/ RelayReady(e) PROVE TypeOK'
  BY <1>0, <1>6 DEF Rendezvous, RelayReady, Receive, RelayPunch, Adopt, Endpoints
<1>7. ASSUME NEW targets \in SUBSET Endpoints, RelayTo(targets) PROVE TypeOK'
  BY <1>0, <1>7 DEF RelayTo, RelayPunch
<1>8. CASE Close
  BY <1>0, <1>8 DEF Close
<1>9. ASSUME NEW p \in Packets, Lose(p) PROVE TypeOK'
  BY <1>0, <1>9 DEF Lose
<1>10. ASSUME NEW c \in Cameras, CameraFloods(c) PROVE TypeOK'
  BY <1>0, <1>10 DEF CameraFloods, Punch
<1>11. CASE Finished \/ UNCHANGED vars
  BY <1>11 DEF Finished, vars
<1>. QED
  BY <1>1, <1>2, <1>3, <1>4, <1>5, <1>6, <1>7, <1>8, <1>9, <1>10, <1>11 DEF Next, Handle

\* Every variable has its type: the session asks, and answers to, only relays it
\* was told of, and it has a peer exactly while it is connected.
THEOREM ConnectTypes == Spec => []TypeOK
<1>1. Init => TypeOK
  BY DEF Init, TypeOK
<1>. QED BY <1>1, StepTypes, ConnectInvariant, PTL DEF Spec

=============================================================================
