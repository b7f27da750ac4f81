SPECIFICATION Spec
CONSTANTS
    Cameras = {c1}
    Relays = {r1, r2}
    None = none
INVARIANTS
    OneRelayAtATime
PROPERTIES
    NegotiationEnds
