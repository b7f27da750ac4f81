---------------------------- MODULE SharedStream ----------------------------
(***************************************************************************)
(* What NativeStreamSession promises its users: at any time one stream (a  *)
(* session) at most, shared by every active viewer; a session is opened by *)
(* a viewer, lives on until its helper is gone, and takes all its viewers  *)
(* with it; the next one has a new number.  After close() nobody attaches. *)
(***************************************************************************)
EXTENDS Integers

CONSTANT Viewers

VARIABLES
    session,    \* the number of the stream, 0 when there is none
    started,    \* how many starts were tried
    live,       \* the helpers that are running
    attached,   \* the viewers of the stream
    closed      \* close() was called

vars == <<session, started, live, attached, closed>>

Init == /\ session = 0 /\ started = 0 /\ live = {}
        /\ attached = {} /\ closed = FALSE

\* The first viewer opens a session.
Open(v) ==
    /\ ~closed /\ session = 0
    /\ started' = started + 1
    /\ session' = started'
    /\ live' = live \cup {started'}
    /\ attached' = {v}
    /\ UNCHANGED closed

\* The start was tried in vain.
FailToOpen ==
    /\ ~closed /\ session = 0
    /\ started' = started + 1
    /\ UNCHANGED <<session, live, attached, closed>>

\* Another viewer shares the session while its helper lives.
Join(v) ==
    /\ ~closed /\ session \in live /\ v \notin attached
    /\ attached' = attached \cup {v}
    /\ UNCHANGED <<session, started, live, closed>>

Leave(v) ==
    /\ v \in attached
    /\ attached' = attached \ {v}
    /\ UNCHANGED <<session, started, live, closed>>

HelperEnds ==
    /\ \E g \in live : live' = live \ {g}
    /\ UNCHANGED <<session, started, attached, closed>>

\* The session ends after its helper, and no viewer stays behind.
End ==
    /\ session # 0 /\ session \notin live
    /\ session' = 0 /\ attached' = {}
    /\ UNCHANGED <<started, live, closed>>

Shutdown ==
    /\ ~closed
    /\ closed' = TRUE /\ attached' = {}
    /\ UNCHANGED <<session, started, live>>

Next == \/ \E v \in Viewers : Open(v) \/ Join(v) \/ Leave(v)
        \/ FailToOpen \/ HelperEnds \/ End \/ Shutdown

Spec == Init /\ [][Next]_vars
=============================================================================
