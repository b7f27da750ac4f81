-------------------------- MODULE MCStreamSession --------------------------
(* Bounds and symmetry for the model checking of StreamSession.            *)
EXTENDS StreamSession, TLC

\* Active viewers differ in nothing but their name, nor do passive ones.
ViewerSymmetry == Permutations(ActiveViewers) \cup Permutations(PassiveViewers)

CONSTANT Last      \* the viewer whose leaving stopped the first helper

\* A session in the middle of its life: its idle timer has stopped the helper of
\* its last viewer, and the pump has not cleaned up yet.  New viewers come while
\* that goes on.
LateInit ==
    /\ generation = 1 /\ process = 1
    /\ state = "STOPPING" /\ mediaReady = TRUE /\ cleanupComplete = FALSE
    /\ cachedMedia = {1}
    /\ helper = [g \in Generations |-> IF g = 1 THEN "exited" ELSE "none"]
    /\ pump = [g \in Generations |-> IF g = 1 THEN "reading" ELSE "none"]
    /\ pumpTo = [g \in Generations |-> {}]
    /\ subscribers = {}
    /\ viewer = [v \in Viewers |-> IF v = Last THEN "closed" ELSE "new"]
    /\ joined = [v \in Viewers |-> 0]
    /\ chunks = [v \in Viewers |-> {}]
    /\ idleTimer = NoViewer
    /\ timer = [v \in Viewers |-> "none"]
    /\ stopTarget = [v \in Viewers |-> 0]
    /\ standbyThread = "none" /\ standbyTo = {}
    /\ closer = "open" /\ closeTo = {} /\ closeTarget = 0

LateSpec == LateInit /\ [][Next]_vars /\ Fairness
=============================================================================
