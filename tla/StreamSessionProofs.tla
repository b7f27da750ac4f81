------------------------ MODULE StreamSessionProofs ------------------------
(***************************************************************************)
(* Proofs about StreamSession for any number of viewers and generations.   *)
(***************************************************************************)
EXTENDS StreamSession, TLAPS

-----------------------------------------------------------------------------
(* Type correctness.                                                       *)

LEMMA StandbyMediaType == StandbyMedia \in SUBSET Media
  BY DEF StandbyMedia, Media

LEMMA InitTypeOK == Init => TypeOK
<1> SUFFICES ASSUME Init PROVE TypeOK
  OBVIOUS
<1>1. /\ helper \in [Generations ->
                    {"none", "running", "signalled", "exited", "drained"}]
      /\ pump \in [Generations -> {"none", "reading", "delivering", "ending",
                                   "ensure", "signal", "done"}]
      /\ pumpTo \in [Generations -> SUBSET Viewers]
  BY DEF Init
<1>2. /\ viewer \in [Viewers -> {"new", "toWait", "waiting", "retrying", "open",
                             "ended", "closed"}]
      /\ chunks \in [Viewers -> SUBSET Item]
      /\ timer \in [Viewers -> {"none", "armed", "fired", "stopping"}]
  BY DEF Init
<1>3. 0 \in 0 .. MaxGeneration
  BY BoundsAssumption
<1>4. /\ joined \in [Viewers -> 0 .. MaxGeneration]
      /\ stopTarget \in [Viewers -> 0 .. MaxGeneration]
  BY <1>3 DEF Init
<1>5. QED
  BY <1>1, <1>2, <1>3, <1>4, StandbyMediaType DEF Init, TypeOK

\* A put keeps the queues' type.
LEMMA OfferType ==
  ASSUME TypeOK, NEW v \in Viewers, NEW item \in Item
  PROVE  Offer(v, item) => chunks' \in [Viewers -> SUBSET Item]
<1>1. \A queue \in SUBSET Item : AfterPut(queue, item) \subseteq SUBSET Item
  BY DEF AfterPut, Item
<1>2. chunks[v] \in SUBSET Item
  BY DEF TypeOK
<1>3. QED
  BY <1>1, <1>2 DEF TypeOK, Offer

LEMMA CancelledType ==
  ASSUME TypeOK, NEW t \in Viewers \cup {NoViewer}
  PROVE  Cancelled(t) \in [Viewers -> {"none", "armed", "fired", "stopping"}]
  BY DEF TypeOK, Cancelled

LEMMA TerminatedType ==
  ASSUME TypeOK, NEW g \in 0 .. MaxGeneration
  PROVE  Terminated(g) \in [Generations ->
                    {"none", "running", "signalled", "exited", "drained"}]
  BY DEF TypeOK, Terminated

LEMMA AcquireType ==
  ASSUME TypeOK, NEW v \in Viewers, Acquire(v)
  PROVE  TypeOK'
<1> USE BoundsAssumption
<1> USE DEF sessionVars, pumpVars, viewerVars, timerVars, standbyVars,
            closeVars, NeedsHelper, StartHelper, ArmIdleTimer, AtEndOfFile,
            DropActive, RestoreStandbyMedia, SnapshotForClose, NoteMedia
<1>0. idleTimer \in Viewers \cup {NoViewer}
  BY DEF TypeOK
<1>1. CASE \/ AcquireRefused(v) \/ AcquireMeetsDead(v) \/ AcquireWait(v)
           \/ AcquireTimeout(v)
  BY <1>1 DEF TypeOK, AcquireRefused, AcquireMeetsDead, AcquireWait,
              AcquireTimeout
<1>2. CASE AcquireStart(v)
  <2>1. generation + 1 \in Generations /\ generation + 1 \in 0 .. MaxGeneration
    BY <1>2 DEF TypeOK, AcquireStart, Generations
  <2>2. QED
    BY <1>2, <2>1, CancelledType, <1>0
    DEF TypeOK, AcquireStart, Subscribe, CancelIdleTimer
<1>3. CASE AcquireStartFails(v)
  <2>1. generation + 1 \in 0 .. MaxGeneration
    BY <1>3 DEF TypeOK, AcquireStartFails
  <2>2. QED
    BY <1>3, <2>1, CancelledType, <1>0
    DEF TypeOK, AcquireStartFails, CancelIdleTimer
<1>4. CASE AcquireJoin(v)
  BY <1>4, CancelledType, <1>0
  DEF TypeOK, AcquireJoin, Subscribe, CancelIdleTimer, Preamble, Item
<1>5. CASE AcquireStandby(v)
  BY <1>5, CancelledType, <1>0
  DEF TypeOK, AcquireStandby, Subscribe, CancelIdleTimer, Preamble, Item,
      Media, EnsureStandbyThread
<1>6. QED
  BY <1>1, <1>2, <1>3, <1>4, <1>5 DEF Acquire

LEMMA ViewerType ==
  ASSUME TypeOK, NEW v \in Viewers, TakeEnd(v) \/ Close(v) \/ Timer(v)
  PROVE  TypeOK'
<1> USE BoundsAssumption
<1> USE DEF sessionVars, pumpVars, viewerVars, timerVars, standbyVars,
            closeVars, NeedsHelper, StartHelper, ArmIdleTimer, AtEndOfFile,
            DropActive, RestoreStandbyMedia, SnapshotForClose, NoteMedia
<1>1. CASE TakeEnd(v)
  BY <1>1 DEF TypeOK, TakeEnd
<1>2. CASE Close(v)
  <2>1. Cancelled(idleTimer) \in
            [Viewers -> {"none", "armed", "fired", "stopping"}]
    BY CancelledType DEF TypeOK
  <2>2. timer' \in [Viewers -> {"none", "armed", "fired", "stopping"}]
    BY <1>2, <2>1 DEF TypeOK, Close
  <2>3. idleTimer' \in Viewers \cup {NoViewer}
    BY <1>2 DEF TypeOK, Close
  <2>4. /\ viewer' \in
             [Viewers -> {"new", "toWait", "waiting", "retrying", "open",
                          "ended",
                          "closed"}]
        /\ chunks' \in [Viewers -> SUBSET Item]
        /\ joined' \in [Viewers -> 0 .. MaxGeneration]
        /\ subscribers' \in SUBSET Viewers
    BY <1>2 DEF TypeOK, Close
  <2>5. QED
    BY <1>2, <2>2, <2>3, <2>4 DEF TypeOK, Close
<1>3. CASE TimerFires(v)
  BY <1>3 DEF TypeOK, TimerFires
<1>4. CASE StopIfIdle(v)
  BY <1>4 DEF TypeOK, StopIfIdle
<1>5. CASE TerminateIdle(v)
  <2>1. stopTarget[v] \in 0 .. MaxGeneration
    BY DEF TypeOK
  <2>2. QED
    BY <1>5, <2>1, TerminatedType DEF TypeOK, TerminateIdle
<1>6. QED
  BY <1>1, <1>2, <1>3, <1>4, <1>5 DEF Timer

LEMMA HelperType ==
  ASSUME TypeOK, NEW g \in Generations, HelperExit(g) \/ Pump(g)
  PROVE  TypeOK'
<1> USE BoundsAssumption
<1> USE DEF sessionVars, pumpVars, viewerVars, timerVars, standbyVars,
            closeVars, NeedsHelper, StartHelper, ArmIdleTimer, AtEndOfFile,
            DropActive, RestoreStandbyMedia, SnapshotForClose, NoteMedia
<1>0. g \in Item /\ END \in Item
  BY DEF Item, Media
<1>1. CASE HelperExit(g)
  BY <1>1 DEF TypeOK, HelperExit
<1>2. CASE PumpRead(g)
  BY <1>2 DEF TypeOK, PumpRead, Media
<1>3. CASE PumpDeliver(g)
  <2>1. chunks' \in [Viewers -> SUBSET Item]
    BY <1>0, <1>3, OfferType DEF TypeOK, PumpDeliver
  <2>2. QED
    BY <1>3, <2>1 DEF TypeOK, PumpDeliver
<1>4. CASE PumpCleanup(g)
  <2>1. /\ ActiveSubscribers \in SUBSET Viewers
        /\ PassiveSubscribers \in SUBSET Viewers
    BY DEF TypeOK, ActiveSubscribers, PassiveSubscribers
  <2>2. /\ helper' \in [Generations ->
                      {"none", "running", "signalled", "exited", "drained"}]
        /\ pump' \in [Generations -> {"none", "reading", "delivering",
                                     "ending", "ensure", "signal", "done"}]
        /\ pumpTo' \in [Generations -> SUBSET Viewers]
    BY <1>4, <2>1 DEF TypeOK, PumpCleanup
  <2>3. /\ process' \in 0 .. MaxGeneration
        /\ subscribers' \in SUBSET Viewers
        /\ cachedMedia' \in SUBSET Media
    BY <1>4, <2>1, StandbyMediaType DEF TypeOK, PumpCleanup
  <2>4. /\ mediaReady' \in BOOLEAN
        /\ state' \in {"IDLE", "STANDBY"}
    BY <1>4 DEF PumpCleanup
  <2>5. QED
    BY <1>4, <2>2, <2>3, <2>4 DEF TypeOK, PumpCleanup
<1>5. CASE PumpEnd(g)
  <2>1. chunks' \in [Viewers -> SUBSET Item]
    BY <1>0, <1>5, OfferType DEF TypeOK, PumpEnd
  <2>2. QED
    BY <1>5, <2>1 DEF TypeOK, PumpEnd
<1>6. CASE PumpEnsureStandby(g)
  BY <1>6 DEF TypeOK, PumpEnsureStandby, EnsureStandbyThread
<1>7. CASE PumpSignal(g)
  BY <1>7 DEF TypeOK, PumpSignal
<1>8. QED
  BY <1>1, <1>2, <1>3, <1>4, <1>5, <1>6, <1>7 DEF Pump, PumpTeardown

LEMMA OtherType ==
  ASSUME TypeOK, Standby \/ SessionClose \/ Closing
  PROVE  TypeOK'
<1> USE BoundsAssumption
<1> USE DEF sessionVars, pumpVars, viewerVars, timerVars, standbyVars,
            closeVars, NeedsHelper, StartHelper, ArmIdleTimer, AtEndOfFile,
            DropActive, RestoreStandbyMedia, SnapshotForClose, NoteMedia
<1>0. END \in Item /\ StandbyFrame \in Item
  BY DEF Item, Media
<1>1. CASE StandbyCheck
  BY <1>1 DEF TypeOK, StandbyCheck, PassiveSubscribers
<1>2. CASE StandbyEmit
  <2>1. chunks' \in [Viewers -> SUBSET Item]
    BY <1>0, <1>2, OfferType DEF TypeOK, StandbyEmit
  <2>2. QED
    BY <1>2, <2>1 DEF TypeOK, StandbyEmit
<1>3. CASE StandbyExit
  BY <1>3 DEF TypeOK, StandbyExit
<1>4. CASE SessionClose
  <2>1. Cancelled(idleTimer) \in
            [Viewers -> {"none", "armed", "fired", "stopping"}]
    BY CancelledType DEF TypeOK
  <2>2. QED
    BY <1>4, <2>1 DEF TypeOK, SessionClose
<1>5. CASE CloseEnd
  <2>1. chunks' \in [Viewers -> SUBSET Item]
    BY <1>0, <1>5, OfferType DEF TypeOK, CloseEnd
  <2>2. QED
    BY <1>5, <2>1 DEF TypeOK, CloseEnd
<1>6. CASE CloseTerminate
  <2>1. closeTarget \in 0 .. MaxGeneration
    BY DEF TypeOK
  <2>2. QED
    BY <1>6, <2>1, TerminatedType DEF TypeOK, CloseTerminate
<1>7. QED
  BY <1>1, <1>2, <1>3, <1>4, <1>5, <1>6 DEF Standby, Closing

LEMMA UnchangedType ==
  ASSUME TypeOK, UNCHANGED vars
  PROVE  TypeOK'
  BY DEF vars, sessionVars, pumpVars, viewerVars, timerVars, standbyVars,
         closeVars, TypeOK

LEMMA StepTypeOK == TypeOK /\ [Next]_vars => TypeOK'
<1> SUFFICES ASSUME TypeOK, [Next]_vars
             PROVE  TypeOK'
  OBVIOUS
<1>1. CASE Next
  BY <1>1, AcquireType, ViewerType, HelperType, OtherType,
     UnchangedType DEF Next, Finished
<1>2. CASE UNCHANGED vars
  BY <1>2, UnchangedType
<1>3. QED
  BY <1>1, <1>2

\* Every variable has its type in every reachable state.
THEOREM TypeCorrect == Spec => []TypeOK
<1>1. Init => TypeOK
  BY InitTypeOK
<1>2. TypeOK /\ [Next]_vars => TypeOK'
  BY StepTypeOK
<1>3. QED
  BY <1>1, <1>2, PTL DEF Spec
-----------------------------------------------------------------------------
(* The session invariant is inductive.                                     *)

LEMMA InitSessionInv == Init => SessionInv
  BY BoundsAssumption
  DEF Init, SessionInv, FutureUntouched, PumpOwnsProcess, RegisteredIsOpen,
      OneHelper, ActiveHasHelper, StateTracksHelper, Alive, ActiveSubscribers,
      Generations

\* The signal of _terminate leaves a helper alive.
LEMMA TerminatedAlive ==
  ASSUME TypeOK, NEW g \in 0 .. MaxGeneration, NEW h \in Generations
  PROVE  /\ Terminated(g)[h] \in {"running", "signalled"} <=> Alive(h)
         /\ helper[h] = "none" => Terminated(g)[h] = "none"
  BY DEF TypeOK, Terminated, Alive

\* What the invariant reads.
invVars == <<generation, process, helper, pump, subscribers, viewer, joined,
             state, mediaReady>>

LEMMA SessionInvUnchanged ==
  ASSUME SessionInv, UNCHANGED invVars
  PROVE  SessionInv'
  BY DEF invVars, SessionInv, FutureUntouched, PumpOwnsProcess,
         RegisteredIsOpen, OneHelper, ActiveHasHelper, StateTracksHelper,
         Alive, ActiveSubscribers

\* The same when only the helper's signal is sent.
LEMMA SessionInvTerminated ==
  ASSUME TypeOK, SessionInv, NEW g \in 0 .. MaxGeneration,
         helper' = Terminated(g),
         UNCHANGED <<generation, process, pump, subscribers, viewer, joined,
                     state, mediaReady>>
  PROVE  SessionInv'
<1>1. \A h \in Generations : Alive(h)' <=> Alive(h)
  BY TerminatedAlive DEF Alive
<1>2. FutureUntouched'
  BY TerminatedAlive DEF SessionInv, FutureUntouched
<1>3. QED
  BY <1>1, <1>2
  DEF SessionInv, PumpOwnsProcess, RegisteredIsOpen, OneHelper,
      ActiveHasHelper, StateTracksHelper, ActiveSubscribers

LEMMA AcquireSessionInv ==
  ASSUME TypeOK, SessionInv, NEW v \in Viewers, Acquire(v)
  PROVE  SessionInv'
<1> USE BoundsAssumption
<1> USE DEF sessionVars, pumpVars, viewerVars, timerVars, standbyVars,
            closeVars, NeedsHelper, StartHelper, ArmIdleTimer, AtEndOfFile,
            DropActive, RestoreStandbyMedia, SnapshotForClose, NoteMedia
<1>1. CASE \/ AcquireRefused(v) \/ AcquireMeetsDead(v) \/ AcquireWait(v)
           \/ AcquireTimeout(v)
  <2>1. RegisteredIsOpen'
    BY <1>1 DEF SessionInv, TypeOK, RegisteredIsOpen, AcquireRefused,
                AcquireMeetsDead,
                AcquireWait, AcquireTimeout, CanAcquire
  <2>2. QED
    BY <1>1, <2>1 DEF SessionInv, FutureUntouched, PumpOwnsProcess, OneHelper,
         ActiveHasHelper, StateTracksHelper, Alive, ActiveSubscribers,
         AcquireRefused, AcquireMeetsDead, AcquireWait, AcquireTimeout
<1>2. CASE AcquireStart(v)
  <2>1. generation + 1 \in Generations /\ process = 0
    BY <1>2 DEF TypeOK, AcquireStart, Generations
  <2>2. \A g \in Generations : ~Alive(g)
    BY <2>1 DEF SessionInv, OneHelper, Generations
  <2>3. \A g \in Generations : pump[g] \notin {"reading", "delivering"}
    BY <2>1 DEF SessionInv, PumpOwnsProcess, Generations
  <2>4. ActiveSubscribers = {}
    BY <2>1 DEF SessionInv, ActiveHasHelper
  <2>5. FutureUntouched'
    BY <1>2, <2>1 DEF SessionInv, FutureUntouched, TypeOK, AcquireStart,
                      Generations
  <2>6. PumpOwnsProcess'
    BY <1>2, <2>1, <2>3 DEF TypeOK, PumpOwnsProcess, AcquireStart
  <2>7. OneHelper'
    BY <1>2, <2>1, <2>2 DEF TypeOK, OneHelper, AcquireStart, Alive
  <2>8. ActiveHasHelper'
    BY <1>2, <2>1, <2>4 DEF TypeOK, ActiveHasHelper, ActiveSubscribers,
                            AcquireStart, Subscribe, Generations
  <2>9. RegisteredIsOpen' /\ StateTracksHelper'
    BY <1>2, <2>1 DEF SessionInv, TypeOK, RegisteredIsOpen, StateTracksHelper,
                      AcquireStart, Subscribe, Generations
  <2>10. QED
    BY <2>5, <2>6, <2>7, <2>8, <2>9 DEF SessionInv
<1>3. CASE AcquireStartFails(v)
  <2>1. RegisteredIsOpen'
    BY <1>3 DEF SessionInv, TypeOK, RegisteredIsOpen, AcquireStartFails,
                CanAcquire
  <2>2. FutureUntouched' /\ StateTracksHelper'
    BY <1>3 DEF SessionInv, TypeOK, FutureUntouched, StateTracksHelper,
                AcquireStartFails, Generations
  <2>3. PumpOwnsProcess' /\ OneHelper' /\ ActiveHasHelper'
    BY <1>3 DEF SessionInv, PumpOwnsProcess, OneHelper, ActiveHasHelper,
                Alive, ActiveSubscribers, AcquireStartFails
  <2>4. QED
    BY <2>1, <2>2, <2>3 DEF SessionInv
<1>4. CASE AcquireJoin(v)
  <2>1. RegisteredIsOpen'
    BY <1>4 DEF SessionInv, TypeOK, RegisteredIsOpen, AcquireJoin, Subscribe
  <2>2. ActiveHasHelper'
    BY <1>4 DEF SessionInv, TypeOK, ActiveHasHelper, ActiveSubscribers,
                AcquireJoin, Subscribe, HelperAlive
  <2>3. QED
    BY <1>4, <2>1, <2>2 DEF SessionInv, FutureUntouched, PumpOwnsProcess,
         OneHelper, StateTracksHelper, Alive, AcquireJoin
<1>5. CASE AcquireStandby(v)
  <2>1. RegisteredIsOpen'
    BY <1>5 DEF SessionInv, TypeOK, RegisteredIsOpen, AcquireStandby, Subscribe
  <2>2. ActiveHasHelper'
    BY <1>5, ViewersAssumption
    DEF SessionInv, ActiveHasHelper, ActiveSubscribers, AcquireStandby,
        Subscribe
  <2>3. StateTracksHelper'
    BY <1>5 DEF SessionInv, StateTracksHelper, AcquireStandby
  <2>4. QED
    BY <1>5, <2>1, <2>2, <2>3 DEF SessionInv, FutureUntouched,
         PumpOwnsProcess, OneHelper, Alive, AcquireStandby
<1>6. QED
  BY <1>1, <1>2, <1>3, <1>4, <1>5 DEF Acquire

LEMMA ViewerSessionInv ==
  ASSUME TypeOK, SessionInv, NEW v \in Viewers,
         TakeEnd(v) \/ Close(v) \/ Timer(v)
  PROVE  SessionInv'
<1> USE DEF sessionVars, pumpVars, viewerVars, timerVars, standbyVars,
            closeVars, NeedsHelper, StartHelper, ArmIdleTimer, AtEndOfFile,
            DropActive, RestoreStandbyMedia, SnapshotForClose, NoteMedia
<1>1. CASE TakeEnd(v)
  <2>1. RegisteredIsOpen'
    BY <1>1 DEF SessionInv, TypeOK, RegisteredIsOpen, TakeEnd
  <2>2. QED
    BY <1>1, <2>1 DEF SessionInv, FutureUntouched, PumpOwnsProcess, OneHelper,
         ActiveHasHelper, StateTracksHelper, Alive, ActiveSubscribers, TakeEnd
<1>2. CASE Close(v)
  <2>1. RegisteredIsOpen' /\ ActiveHasHelper'
    BY <1>2 DEF SessionInv, TypeOK, RegisteredIsOpen, ActiveHasHelper,
                ActiveSubscribers, Close
  <2>2. QED
    BY <1>2, <2>1 DEF SessionInv, FutureUntouched, PumpOwnsProcess, OneHelper,
         StateTracksHelper, Alive, Close
<1>3. CASE TimerFires(v)
  BY <1>3, SessionInvUnchanged DEF TimerFires, invVars
<1>4. CASE StopIfIdle(v)
  <2>1. StateTracksHelper'
    BY <1>4 DEF SessionInv, StateTracksHelper, StopIfIdle, HelperAlive
  <2>2. QED
    BY <1>4, <2>1 DEF SessionInv, FutureUntouched, PumpOwnsProcess,
         RegisteredIsOpen, OneHelper, ActiveHasHelper, Alive,
         ActiveSubscribers, StopIfIdle
<1>5. CASE TerminateIdle(v)
  <2>1. stopTarget[v] \in 0 .. MaxGeneration
    BY DEF TypeOK
  <2>2. QED
    BY <1>5, <2>1, SessionInvTerminated DEF TerminateIdle
<1>6. QED
  BY <1>1, <1>2, <1>3, <1>4, <1>5 DEF Timer

LEMMA HelperSessionInv ==
  ASSUME TypeOK, SessionInv, NEW g \in Generations, HelperExit(g) \/ Pump(g)
  PROVE  SessionInv'
<1> USE DEF sessionVars, pumpVars, viewerVars, timerVars, standbyVars,
            closeVars, NeedsHelper, StartHelper, ArmIdleTimer, AtEndOfFile,
            DropActive, RestoreStandbyMedia, SnapshotForClose, NoteMedia
<1>1. CASE HelperExit(g)
  <2>1. FutureUntouched' /\ OneHelper'
    BY <1>1 DEF SessionInv, TypeOK, FutureUntouched, OneHelper, HelperExit,
                Alive
  <2>2. QED
    BY <1>1, <2>1 DEF SessionInv, PumpOwnsProcess, RegisteredIsOpen,
         ActiveHasHelper, StateTracksHelper, ActiveSubscribers, HelperExit
<1>2. CASE PumpRead(g)
  <2>1. process = g /\ process # 0
    BY <1>2 DEF SessionInv, PumpOwnsProcess, PumpRead, Generations
  <2>2. FutureUntouched' /\ OneHelper' /\ PumpOwnsProcess'
    BY <1>2 DEF SessionInv, TypeOK, FutureUntouched, OneHelper,
                PumpOwnsProcess, PumpRead, Alive
  <2>3. StateTracksHelper'
    BY <1>2, <2>1 DEF SessionInv, StateTracksHelper, PumpRead
  <2>4. QED
    BY <1>2, <2>2, <2>3 DEF SessionInv, RegisteredIsOpen, ActiveHasHelper,
         ActiveSubscribers, PumpRead
<1>3. CASE PumpDeliver(g)
  <2>1. PumpOwnsProcess' /\ FutureUntouched'
    BY <1>3 DEF SessionInv, TypeOK, PumpOwnsProcess, FutureUntouched,
                PumpDeliver
  <2>2. QED
    BY <1>3, <2>1 DEF SessionInv, RegisteredIsOpen, OneHelper,
         ActiveHasHelper, StateTracksHelper, Alive, ActiveSubscribers,
         PumpDeliver
<1>4. CASE PumpCleanup(g)
  <2>1. process = g
    BY <1>4 DEF SessionInv, PumpOwnsProcess, PumpCleanup
  <2>2. process' = 0
    BY <1>4, <2>1 DEF PumpCleanup
  <2>3. \A h \in Generations : ~Alive(h)'
    BY <1>4, <2>1 DEF SessionInv, TypeOK, OneHelper, PumpCleanup, Alive
  <2>4. FutureUntouched'
    BY <1>4, <2>1, <2>2
    DEF SessionInv, TypeOK, FutureUntouched, PumpCleanup, Generations
  <2>9. PumpOwnsProcess'
    BY <1>4, <2>1, <2>2 DEF SessionInv, TypeOK, PumpOwnsProcess, PumpCleanup
  <2>5. ActiveSubscribers' = {}
    BY <1>4, ViewersAssumption
    DEF PumpCleanup, ActiveSubscribers, PassiveSubscribers
  <2>6. RegisteredIsOpen'
    BY <1>4 DEF SessionInv, RegisteredIsOpen, PumpCleanup, PassiveSubscribers
  <2>7. OneHelper' /\ ActiveHasHelper'
    BY <2>3, <2>5 DEF OneHelper, ActiveHasHelper
  <2>8. StateTracksHelper'
    BY <1>4, <2>2 DEF StateTracksHelper, PumpCleanup
  <2>10. QED
    BY <2>4, <2>6, <2>7, <2>8, <2>9 DEF SessionInv
<1>5. CASE PumpEnd(g) \/ PumpEnsureStandby(g) \/ PumpSignal(g)
  <2>0. /\ pump[g] \in {"ending", "ensure", "signal"}
        /\ \E p \in {"ending", "ensure", "signal", "done"} :
              pump' = [pump EXCEPT ![g] = p]
        /\ UNCHANGED <<generation, process, helper>>
    BY <1>5 DEF TypeOK, PumpEnd, PumpEnsureStandby, PumpSignal
  <2>1. FutureUntouched' /\ PumpOwnsProcess'
    BY <2>0 DEF SessionInv, TypeOK, PumpOwnsProcess, FutureUntouched,
                Generations
  <2>2. RegisteredIsOpen'
    BY <1>5 DEF SessionInv, TypeOK, RegisteredIsOpen, PumpEnd,
                PumpEnsureStandby, PumpSignal
  <2>3. OneHelper' /\ ActiveHasHelper' /\ StateTracksHelper'
    BY <1>5 DEF SessionInv, OneHelper, ActiveHasHelper, StateTracksHelper,
                Alive, ActiveSubscribers, PumpEnd, PumpEnsureStandby,
                PumpSignal
  <2>4. QED
    BY <2>1, <2>2, <2>3 DEF SessionInv
<1>6. QED
  BY <1>1, <1>2, <1>3, <1>4, <1>5 DEF Pump, PumpTeardown

LEMMA OtherSessionInv ==
  ASSUME TypeOK, SessionInv, Standby \/ SessionClose \/ Closing
  PROVE  SessionInv'
<1> USE DEF sessionVars, pumpVars, viewerVars, timerVars, standbyVars,
            closeVars, NeedsHelper, StartHelper, ArmIdleTimer, AtEndOfFile,
            DropActive, RestoreStandbyMedia, SnapshotForClose, NoteMedia
<1>1. CASE Standby
  BY <1>1, SessionInvUnchanged
  DEF Standby, StandbyCheck, StandbyEmit, StandbyExit, invVars
<1>2. CASE SessionClose
  BY <1>2 DEF SessionInv, FutureUntouched, PumpOwnsProcess, RegisteredIsOpen,
     OneHelper, ActiveHasHelper, StateTracksHelper, Alive, ActiveSubscribers,
     HelperAlive, SessionClose
<1>3. CASE CloseEnd
  BY <1>3, SessionInvUnchanged DEF CloseEnd, invVars
<1>4. CASE CloseTerminate
  <2>1. closeTarget \in 0 .. MaxGeneration
    BY DEF TypeOK
  <2>2. QED
    BY <1>4, <2>1, SessionInvTerminated DEF CloseTerminate
<1>5. QED
  BY <1>1, <1>2, <1>3, <1>4 DEF Closing

LEMMA StepSessionInv == TypeOK /\ SessionInv /\ [Next]_vars => SessionInv'
<1> SUFFICES ASSUME TypeOK, SessionInv, [Next]_vars
             PROVE  SessionInv'
  OBVIOUS
<1>1. CASE UNCHANGED vars
  BY <1>1, SessionInvUnchanged
  DEF vars, sessionVars, pumpVars, viewerVars, invVars
<1>2. CASE Next
  BY <1>1, <1>2, AcquireSessionInv, ViewerSessionInv, HelperSessionInv,
     OtherSessionInv DEF Next, Finished
<1>3. QED
  BY <1>1, <1>2

LEMMA SessionInvHolds == Spec => [](TypeOK /\ SessionInv)
<1>1. Init => TypeOK /\ SessionInv
  BY InitTypeOK, InitSessionInv
<1>2. TypeOK /\ SessionInv /\ [Next]_vars => (TypeOK /\ SessionInv)'
  BY StepTypeOK, StepSessionInv
<1>3. QED
  BY <1>1, <1>2, PTL DEF Spec

\* Two helpers of one camera are never alive together, whatever the order of
\* exits, cleanups and starts.
THEOREM NeverTwoHelpers == Spec => []OneHelper
<1>1. TypeOK /\ SessionInv => OneHelper
  BY DEF SessionInv
<1>2. QED
  BY <1>1, SessionInvHolds, PTL

\* No active viewer stays registered without the helper it acquired.
THEOREM NoViewerLeftBehind == Spec => []ActiveHasHelper
<1>1. TypeOK /\ SessionInv => ActiveHasHelper
  BY DEF SessionInv
<1>2. QED
  BY <1>1, SessionInvHolds, PTL

\* The reported state is one of a running stream exactly while there is one.
THEOREM StateIsHonest == Spec => []StateTracksHelper
<1>1. TypeOK /\ SessionInv => StateTracksHelper
  BY DEF SessionInv
<1>2. QED
  BY <1>1, SessionInvHolds, PTL

-----------------------------------------------------------------------------
(* The feed invariant is inductive, given the session invariant.           *)

\* What it reads.
feedVars == <<process, cachedMedia, pump, pumpTo, subscribers, viewer, joined,
              chunks, standbyTo, closer, closeTo>>

LEMMA InitFeedInv == Init => FeedInv
  BY DEF Init, FeedInv, CacheIsCurrent, TargetsWereOpened, DeliversToItsOwn,
         EndsActiveOnly, StandbyIsPassive, CloseEndsOnce, OpenViewerHasFeed,
         NoForeignMedia, PassiveKept, Closed, Viewers

LEMMA FeedInvUnchanged ==
  ASSUME FeedInv, UNCHANGED feedVars
  PROVE  FeedInv'
  BY DEF feedVars, FeedInv, CacheIsCurrent, TargetsWereOpened,
         DeliversToItsOwn, EndsActiveOnly, StandbyIsPassive, CloseEndsOnce,
         OpenViewerHasFeed, NoForeignMedia, PassiveKept, Closed

\* The end item was put into the queue, and may be lost.
EndPut(queue) == END \in queue \/ LOST \in queue

\* A put adds its item at most and forgets no end item.
LEMMA AfterPutKeepsEnd ==
  ASSUME NEW queue, NEW item, item # LOST, NEW after \in AfterPut(queue, item)
  PROVE  /\ after \subseteq queue \cup {item, LOST}
         /\ EndPut(after) <=> EndPut(queue) \/ item = END
  BY DEF AfterPut, EndPut

\* A put changes one queue, and only that of an open subscription.
LEMMA OfferPuts ==
  ASSUME TypeOK, NEW v \in Viewers, NEW item, item # LOST, Offer(v, item),
         NEW w \in Viewers
  PROVE  IF w = v /\ viewer[v] = "open"
         THEN /\ chunks'[w] \subseteq chunks[w] \cup {item, LOST}
              /\ EndPut(chunks'[w]) <=> EndPut(chunks[w]) \/ item = END
         ELSE chunks'[w] = chunks[w]
<1>1. CASE viewer[v] = "open"
  <2>1. PICK queue \in AfterPut(chunks[v], item) :
                chunks' = [chunks EXCEPT ![v] = queue]
    BY <1>1 DEF Offer
  <2>2. chunks'[w] = IF w = v THEN queue ELSE chunks[w]
    BY <2>1 DEF TypeOK
  <2>3. QED
    BY <1>1, <2>2, AfterPutKeepsEnd
<1>2. CASE viewer[v] # "open"
  BY <1>2 DEF Offer
<1>3. QED
  BY <1>1, <1>2

\* An item that belongs to the viewer's stream may be put into its queue, and
\* whoever has a feed keeps it.
LEMMA PutKeepsQueues ==
  ASSUME TypeOK, FeedInv, NEW v \in Viewers, NEW item, item # LOST,
         Offer(v, item),
         UNCHANGED <<subscribers, viewer, joined, Closed>>,
         v \in ActiveViewers /\ viewer[v] = "open" => item \in {joined[v], END},
         v \in PassiveViewers /\ ~Closed => item # END
  PROVE  /\ NoForeignMedia' /\ PassiveKept'
         /\ \A w \in Viewers : EndPut(chunks[w]) => EndPut(chunks'[w])
         /\ item = END /\ viewer[v] = "open" => EndPut(chunks'[v])
<1>1. \A w \in Viewers :
         IF w = v /\ viewer[v] = "open"
         THEN /\ chunks'[w] \subseteq chunks[w] \cup {item, LOST}
              /\ EndPut(chunks'[w]) <=> EndPut(chunks[w]) \/ item = END
         ELSE chunks'[w] = chunks[w]
  BY OfferPuts
<1>2. NoForeignMedia'
  BY <1>1 DEF FeedInv, NoForeignMedia, Viewers
<1>3. PassiveKept'
  <2>1. SUFFICES ASSUME NEW w \in PassiveViewers, viewer[w] = "open", ~Closed
                 PROVE  w \in subscribers /\ ~EndPut(chunks'[w])
    BY DEF PassiveKept, EndPut
  <2>2. w \in subscribers /\ ~EndPut(chunks[w]) /\ w \in Viewers
    BY <2>1 DEF FeedInv, PassiveKept, EndPut, Viewers
  <2>3. QED
    BY <1>1, <2>1, <2>2
<1>4. QED
  BY <1>1, <1>2, <1>3

\* A subscription that is handed out has a feed and a queue of its own stream.
LEMMA SubscribeKeepsFeed ==
  ASSUME TypeOK, FeedInv, NEW v \in Viewers, NEW queue \in SUBSET Media,
         CanAcquire(v), Subscribe(v, queue),
         joined' \in [Viewers -> 0 .. MaxGeneration],
         \A w \in Viewers \ {v} : joined'[w] = joined[w],
         v \in ActiveViewers => queue \subseteq {joined'[v]},
         UNCHANGED <<pumpTo, closer, closeTo>>,
         \A g \in Generations :
            /\ pump'[g] = "ending" <=> pump[g] = "ending"
            /\ pump'[g] = "delivering" <=> pump[g] = "delivering"
  PROVE  /\ TargetsWereOpened' /\ DeliversToItsOwn' /\ EndsActiveOnly'
         /\ OpenViewerHasFeed' /\ NoForeignMedia' /\ PassiveKept'
         /\ CloseEndsOnce'
<1>0. END \notin Media /\ LOST \notin Media
  BY DEF END, LOST, Media, Generations, StandbyFrame
<1>1. \A w \in Viewers :
        /\ viewer'[w] = IF w = v THEN "open" ELSE viewer[w]
        /\ chunks'[w] = IF w = v THEN queue ELSE chunks[w]
  BY DEF TypeOK, Subscribe
<1>2. \A g \in Generations : v \notin pumpTo[g] /\ pumpTo[g] \subseteq Viewers
  BY DEF TypeOK, FeedInv, TargetsWereOpened, CanAcquire
<1>3. TargetsWereOpened'
  BY <1>1, <1>2 DEF FeedInv, TargetsWereOpened
<1>4. DeliversToItsOwn'
  BY <1>1, <1>2 DEF FeedInv, DeliversToItsOwn
<1>5. EndsActiveOnly' /\ CloseEndsOnce'
  BY DEF FeedInv, EndsActiveOnly, CloseEndsOnce, Closed
<1>6. OpenViewerHasFeed'
  BY <1>1, <1>2 DEF FeedInv, OpenViewerHasFeed, Subscribe
<1>7. NoForeignMedia'
  BY <1>1 DEF FeedInv, NoForeignMedia, Viewers
<1>8. PassiveKept'
  BY <1>0, <1>1 DEF FeedInv, PassiveKept, Subscribe, Closed, Viewers
<1>9. QED
  BY <1>3, <1>4, <1>5, <1>6, <1>7, <1>8

\* A subscription that is not open, or stops being so, needs no feed.
LEMMA LeavingKeepsFeed ==
  ASSUME TypeOK, FeedInv,
         viewer' \in [Viewers -> {"new", "toWait", "waiting", "retrying",
                                  "open",
                                  "ended", "closed"}],
         \A w \in Viewers :
            /\ viewer'[w] = "open" =>
                  /\ viewer[w] = "open"
                  /\ w \in subscribers => w \in subscribers'
                  /\ joined'[w] = joined[w]
            /\ viewer[w] \in {"open", "ended", "closed"} =>
                  viewer'[w] \in {"open", "ended", "closed"}
            /\ chunks'[w] = {} \/ (chunks'[w] = chunks[w]
                                   /\ joined'[w] = joined[w]),
         \A w \in Viewers : viewer'[w] = "open" => chunks'[w] = chunks[w],
         UNCHANGED <<pumpTo, closer, closeTo>>,
         \A g \in Generations :
            /\ pump'[g] = "ending" <=> pump[g] = "ending"
            /\ pump'[g] = "delivering" <=> pump[g] = "delivering"
  PROVE  /\ TargetsWereOpened' /\ DeliversToItsOwn' /\ EndsActiveOnly'
         /\ OpenViewerHasFeed' /\ NoForeignMedia' /\ PassiveKept'
         /\ CloseEndsOnce'
<1>1. \A g \in Generations : pumpTo[g] \subseteq Viewers
  BY DEF TypeOK
<1>2. TargetsWereOpened'
  BY <1>1 DEF FeedInv, TargetsWereOpened
<1>3. DeliversToItsOwn'
  BY <1>1 DEF FeedInv, DeliversToItsOwn
<1>4. EndsActiveOnly' /\ CloseEndsOnce'
  BY DEF FeedInv, EndsActiveOnly, CloseEndsOnce, Closed
<1>5. OpenViewerHasFeed'
  BY DEF FeedInv, OpenViewerHasFeed
<1>6. NoForeignMedia'
  BY DEF FeedInv, NoForeignMedia, Viewers
<1>7. PassiveKept'
  BY DEF FeedInv, PassiveKept, Closed, Viewers
<1>8. QED
  BY <1>2, <1>3, <1>4, <1>5, <1>6, <1>7

LEMMA AcquireFeedInv ==
  ASSUME TypeOK, SessionInv, FeedInv, NEW v \in Viewers, Acquire(v), TypeOK'
  PROVE  FeedInv'
<1> USE BoundsAssumption
<1> USE DEF sessionVars, pumpVars, viewerVars, timerVars, standbyVars,
            closeVars, NeedsHelper, StartHelper
<1>0. /\ joined' \in [Viewers -> 0 .. MaxGeneration]
      /\ viewer' \in [Viewers -> {"new", "toWait", "waiting", "retrying",
                                  "open",
                                  "ended", "closed"}]
  BY DEF TypeOK
<1>1. CASE \/ AcquireRefused(v) \/ AcquireMeetsDead(v) \/ AcquireWait(v)
           \/ AcquireTimeout(v)
           \/ AcquireStartFails(v)
  <2>1. /\ UNCHANGED <<process, pump, pumpTo, subscribers, joined, chunks,
                       standbyTo, closer, closeTo>>
        /\ cachedMedia' = cachedMedia \/ process = 0
    BY <1>1 DEF AcquireRefused, AcquireMeetsDead, AcquireWait, AcquireTimeout,
                AcquireStartFails
  <2>2. /\ viewer[v] \in {"new", "toWait", "waiting", "retrying"}
        /\ viewer'[v] \in {"closed", "toWait", "waiting", "retrying"}
        /\ \A w \in Viewers \ {v} : viewer'[w] = viewer[w]
    BY <1>1 DEF TypeOK, AcquireRefused, AcquireMeetsDead, AcquireWait,
                AcquireTimeout,
                AcquireStartFails, CanAcquire
  <2>3. /\ TargetsWereOpened' /\ DeliversToItsOwn' /\ EndsActiveOnly'
        /\ OpenViewerHasFeed' /\ NoForeignMedia' /\ PassiveKept'
        /\ CloseEndsOnce'
    BY <1>0, <2>1, <2>2, LeavingKeepsFeed
  <2>4. CacheIsCurrent' /\ StandbyIsPassive'
    BY <2>1 DEF FeedInv, CacheIsCurrent, StandbyIsPassive
  <2>5. QED
    BY <2>3, <2>4 DEF FeedInv
<1>2. CASE AcquireStart(v)
  <2>1. /\ CanAcquire(v) /\ Subscribe(v, {})
        /\ UNCHANGED <<pumpTo, closer, closeTo, standbyTo>>
        /\ cachedMedia' = {}
    BY <1>2 DEF AcquireStart
  <2>2. \A w \in Viewers \ {v} : joined'[w] = joined[w]
    BY <1>2 DEF TypeOK, AcquireStart
  <2>3. \A g \in Generations :
            /\ pump'[g] = "ending" <=> pump[g] = "ending"
            /\ pump'[g] = "delivering" <=> pump[g] = "delivering"
    <3>1. generation + 1 \in Generations /\ generation + 1 > generation
      BY <1>2 DEF TypeOK, AcquireStart, Generations
    <3>2. pump[generation + 1] = "none"
      BY <3>1 DEF SessionInv, FutureUntouched
    <3>3. QED
      BY <1>2, <3>1, <3>2 DEF TypeOK, AcquireStart
  <2>4. /\ TargetsWereOpened' /\ DeliversToItsOwn' /\ EndsActiveOnly'
        /\ OpenViewerHasFeed' /\ NoForeignMedia' /\ PassiveKept'
        /\ CloseEndsOnce'
    BY <1>0, <2>1, <2>2, <2>3, SubscribeKeepsFeed
  <2>5. CacheIsCurrent' /\ StandbyIsPassive'
    BY <2>1 DEF FeedInv, CacheIsCurrent, StandbyIsPassive
  <2>6. QED
    BY <2>4, <2>5 DEF FeedInv
<1>3. CASE AcquireJoin(v)
  <2>1. /\ CanAcquire(v) /\ Subscribe(v, cachedMedia)
        /\ UNCHANGED <<process, cachedMedia, pump, pumpTo, closer, closeTo,
                       standbyTo>>
        /\ process # 0
    BY <1>3 DEF AcquireJoin, Preamble, HelperAlive
  <2>2. /\ \A w \in Viewers \ {v} : joined'[w] = joined[w]
        /\ v \in ActiveViewers => joined'[v] = process
    BY <1>3 DEF TypeOK, AcquireJoin
  <2>3. cachedMedia \subseteq {process} /\ cachedMedia \in SUBSET Media
    BY <2>1 DEF TypeOK, FeedInv, CacheIsCurrent
  <2>4. /\ TargetsWereOpened' /\ DeliversToItsOwn' /\ EndsActiveOnly'
        /\ OpenViewerHasFeed' /\ NoForeignMedia' /\ PassiveKept'
        /\ CloseEndsOnce'
    BY <1>0, <2>1, <2>2, <2>3, SubscribeKeepsFeed
  <2>5. CacheIsCurrent' /\ StandbyIsPassive'
    BY <2>1 DEF FeedInv, CacheIsCurrent, StandbyIsPassive
  <2>6. QED
    BY <2>4, <2>5 DEF FeedInv
<1>4. CASE AcquireStandby(v)
  <2>1. /\ CanAcquire(v) /\ Subscribe(v, cachedMedia \cup {StandbyFrame})
        /\ UNCHANGED <<process, cachedMedia, pump, pumpTo, joined, closer,
                       closeTo, standbyTo>>
        /\ v \in PassiveViewers
    BY <1>4 DEF AcquireStandby, Preamble
  <2>2. v \notin ActiveViewers
    BY <2>1, ViewersAssumption
  <2>3. cachedMedia \cup {StandbyFrame} \in SUBSET Media
    BY DEF TypeOK, Media
  <2>4. /\ TargetsWereOpened' /\ DeliversToItsOwn' /\ EndsActiveOnly'
        /\ OpenViewerHasFeed' /\ NoForeignMedia' /\ PassiveKept'
        /\ CloseEndsOnce'
    BY <1>0, <2>1, <2>2, <2>3, SubscribeKeepsFeed
  <2>5. CacheIsCurrent' /\ StandbyIsPassive'
    BY <2>1 DEF FeedInv, CacheIsCurrent, StandbyIsPassive
  <2>6. QED
    BY <2>4, <2>5 DEF FeedInv
<1>5. QED
  BY <1>1, <1>2, <1>3, <1>4 DEF Acquire

LEMMA ViewerFeedInv ==
  ASSUME TypeOK, FeedInv, NEW v \in Viewers,
         TakeEnd(v) \/ Close(v) \/ Timer(v), TypeOK'
  PROVE  FeedInv'
<1> USE DEF sessionVars, pumpVars, viewerVars, timerVars, standbyVars,
            closeVars
<1>1. CASE TakeEnd(v) \/ Close(v)
  <2>1. UNCHANGED <<process, cachedMedia, pump, pumpTo, standbyTo, closer,
                    closeTo>>
    BY <1>1 DEF TakeEnd, Close
  <2>2. /\ viewer[v] \in {"open", "ended"} /\ viewer'[v] \in {"ended", "closed"}
        /\ chunks'[v] \in {{}, chunks[v]}
        /\ chunks'[v] = {} \/ joined'[v] = joined[v]
        /\ \A w \in Viewers \ {v} :
              /\ viewer'[w] = viewer[w] /\ chunks'[w] = chunks[w]
              /\ joined'[w] = joined[w]
              /\ w \in subscribers => w \in subscribers'
    BY <1>1 DEF TypeOK, TakeEnd, Close
  <2>3. viewer' \in [Viewers -> {"new", "toWait", "waiting", "retrying",
                                 "open", "ended",
                                 "closed"}]
    BY DEF TypeOK
  <2>4. /\ TargetsWereOpened' /\ DeliversToItsOwn' /\ EndsActiveOnly'
        /\ OpenViewerHasFeed' /\ NoForeignMedia' /\ PassiveKept'
        /\ CloseEndsOnce'
    BY <2>1, <2>2, <2>3, LeavingKeepsFeed
  <2>5. CacheIsCurrent' /\ StandbyIsPassive'
    BY <2>1 DEF FeedInv, CacheIsCurrent, StandbyIsPassive
  <2>6. QED
    BY <2>4, <2>5 DEF FeedInv
<1>2. CASE Timer(v)
  BY <1>2, FeedInvUnchanged
  DEF Timer, TimerFires, StopIfIdle, TerminateIdle, feedVars
<1>3. QED
  BY <1>1, <1>2

LEMMA HelperFeedInv ==
  ASSUME TypeOK, SessionInv, FeedInv, NEW g \in Generations,
         HelperExit(g) \/ Pump(g), TypeOK'
  PROVE  FeedInv'
<1> USE DEF sessionVars, pumpVars, viewerVars, timerVars, standbyVars,
            closeVars
<1>0. g # END /\ g # LOST /\ END # LOST
  BY DEF Generations, END, LOST
<1>1. CASE HelperExit(g)
  BY <1>1, FeedInvUnchanged DEF HelperExit, feedVars
<1>2. CASE PumpRead(g)
  <2>1. process = g
    BY <1>2 DEF SessionInv, PumpOwnsProcess, PumpRead
  <2>2. UNCHANGED <<process, subscribers, viewer, joined, chunks, standbyTo,
                    closer, closeTo>>
    BY <1>2 DEF PumpRead
  <2>3. /\ pump[g] = "reading"
        /\ pump'[g] \in {"reading", "delivering"} /\ pumpTo'[g] = subscribers
        /\ \A h \in Generations \ {g} :
              pump'[h] = pump[h] /\ pumpTo'[h] = pumpTo[h]
    BY <1>2 DEF TypeOK, PumpRead
  <2>4. CacheIsCurrent'
    BY <1>2, <2>1 DEF FeedInv, CacheIsCurrent, PumpRead, NoteMedia
  <2>5. TargetsWereOpened'
    BY <2>2, <2>3 DEF FeedInv, TargetsWereOpened, SessionInv, RegisteredIsOpen
  <2>6. DeliversToItsOwn'
    BY <2>1, <2>2, <2>3
    DEF FeedInv, DeliversToItsOwn, SessionInv, ActiveHasHelper,
        ActiveSubscribers
  <2>7. EndsActiveOnly' /\ StandbyIsPassive' /\ CloseEndsOnce'
    BY <2>2, <2>3
    DEF FeedInv, EndsActiveOnly, StandbyIsPassive, CloseEndsOnce, Closed
  <2>8. OpenViewerHasFeed'
    BY <2>2, <2>3 DEF FeedInv, OpenViewerHasFeed
  <2>9. NoForeignMedia' /\ PassiveKept'
    BY <2>2 DEF FeedInv, NoForeignMedia, PassiveKept, Closed
  <2>10. QED
    BY <2>4, <2>5, <2>6, <2>7, <2>8, <2>9 DEF FeedInv
<1>3. CASE PumpDeliver(g)
  <2>1. PICK s \in pumpTo[g] : Offer(s, g)
                               /\ pumpTo' = [pumpTo EXCEPT ![g] = @ \ {s}]
                               /\ pump' = [pump EXCEPT
                        ![g] = IF pumpTo[g] = {s} THEN "reading" ELSE @]
    BY <1>3 DEF PumpDeliver
  <2>2. UNCHANGED <<process, cachedMedia, subscribers, viewer, joined,
                    standbyTo, closer, closeTo, Closed>>
    BY <1>3 DEF PumpDeliver, Closed
  <2>3. s \in Viewers /\ pump[g] = "delivering"
    BY <1>3, <2>1 DEF TypeOK, PumpDeliver
  <2>4. /\ pump'[g] \in {"reading", "delivering"}
        /\ pumpTo'[g] \subseteq pumpTo[g]
        /\ \A h \in Generations \ {g} :
              pump'[h] = pump[h] /\ pumpTo'[h] = pumpTo[h]
    BY <2>1, <2>3 DEF TypeOK
  <2>5. /\ NoForeignMedia' /\ PassiveKept'
        /\ \A w \in Viewers : EndPut(chunks[w]) => EndPut(chunks'[w])
    BY <1>0, <2>1, <2>2, <2>3, PutKeepsQueues DEF FeedInv, DeliversToItsOwn
  <2>6. TargetsWereOpened' /\ DeliversToItsOwn'
    BY <2>2, <2>3, <2>4 DEF FeedInv, TargetsWereOpened, DeliversToItsOwn
  <2>7. /\ EndsActiveOnly' /\ StandbyIsPassive' /\ CloseEndsOnce'
        /\ CacheIsCurrent'
    BY <2>2, <2>3, <2>4
    DEF FeedInv, EndsActiveOnly, StandbyIsPassive, CloseEndsOnce,
        CacheIsCurrent
  <2>8. OpenViewerHasFeed'
    BY <2>2, <2>3, <2>4, <2>5 DEF FeedInv, OpenViewerHasFeed, EndPut
  <2>9. QED
    BY <2>5, <2>6, <2>7, <2>8 DEF FeedInv
<1>4. CASE PumpCleanup(g)
  <2>1. process = g /\ process' = 0 /\ pump[g] = "reading"
    BY <1>4 DEF SessionInv, PumpOwnsProcess, PumpCleanup, AtEndOfFile
  <2>2. /\ UNCHANGED <<viewer, joined, chunks, standbyTo, closer, closeTo>>
        /\ subscribers' = PassiveSubscribers
        /\ pump'[g] \in {"ensure", "ending"} /\ pumpTo'[g] = ActiveSubscribers
        /\ pumpTo'[g] # {} => pump'[g] = "ending"
        /\ \A h \in Generations \ {g} :
              pump'[h] = pump[h] /\ pumpTo'[h] = pumpTo[h]
    BY <1>4 DEF TypeOK, PumpCleanup, DropActive
  <2>3. CacheIsCurrent'
    BY <2>1 DEF CacheIsCurrent
  <2>4. TargetsWereOpened'
    BY <2>2 DEF FeedInv, TargetsWereOpened, SessionInv, RegisteredIsOpen,
                ActiveSubscribers
  <2>5. DeliversToItsOwn'
    BY <2>2 DEF FeedInv, DeliversToItsOwn
  <2>6. EndsActiveOnly'
    BY <2>2 DEF FeedInv, EndsActiveOnly, ActiveSubscribers
  <2>7. StandbyIsPassive' /\ CloseEndsOnce'
    BY <2>2 DEF FeedInv, StandbyIsPassive, CloseEndsOnce, Closed
  <2>8. OpenViewerHasFeed'
    <3>1. \A v \in subscribers : v \in subscribers' \/ v \in pumpTo'[g]
      BY <2>2 DEF TypeOK, ActiveSubscribers, PassiveSubscribers, Viewers
    <3>2. QED
      BY <2>1, <2>2, <3>1 DEF FeedInv, OpenViewerHasFeed
  <2>9. NoForeignMedia' /\ PassiveKept'
    BY <2>2 DEF FeedInv, NoForeignMedia, PassiveKept, Closed,
                PassiveSubscribers
  <2>10. QED
    BY <2>3, <2>4, <2>5, <2>6, <2>7, <2>8, <2>9 DEF FeedInv
<1>5. CASE PumpEnd(g)
  <2>1. PICK s \in pumpTo[g] : Offer(s, END)
                               /\ pumpTo' = [pumpTo EXCEPT ![g] = @ \ {s}]
                               /\ pump' = [pump EXCEPT
                        ![g] = IF pumpTo[g] = {s} THEN "ensure" ELSE @]
    BY <1>5 DEF PumpEnd
  <2>2. UNCHANGED <<process, cachedMedia, subscribers, viewer, joined,
                    standbyTo, closer, closeTo, Closed>>
    BY <1>5 DEF PumpEnd, Closed
  <2>3. s \in Viewers /\ pump[g] = "ending" /\ s \in ActiveViewers
    BY <1>5, <2>1 DEF TypeOK, PumpEnd, FeedInv, EndsActiveOnly
  <2>4. /\ pump'[g] \in {"ending", "ensure"}
        /\ pumpTo'[g] = pumpTo[g] \ {s}
        /\ pumpTo'[g] # {} => pump'[g] = "ending"
        /\ \A h \in Generations \ {g} :
              pump'[h] = pump[h] /\ pumpTo'[h] = pumpTo[h]
    BY <2>1, <2>3 DEF TypeOK
  <2>5. s \notin PassiveViewers
    BY <2>3, ViewersAssumption
  <2>6. /\ NoForeignMedia' /\ PassiveKept'
        /\ \A w \in Viewers : EndPut(chunks[w]) => EndPut(chunks'[w])
        /\ viewer[s] = "open" => EndPut(chunks'[s])
    BY <1>0, <2>1, <2>2, <2>3, <2>5, PutKeepsQueues
  <2>7. TargetsWereOpened' /\ DeliversToItsOwn'
    BY <2>2, <2>4 DEF FeedInv, TargetsWereOpened, DeliversToItsOwn
  <2>8. /\ EndsActiveOnly' /\ StandbyIsPassive' /\ CloseEndsOnce'
        /\ CacheIsCurrent'
    BY <2>2, <2>3, <2>4
    DEF FeedInv, EndsActiveOnly, StandbyIsPassive, CloseEndsOnce,
        CacheIsCurrent
  <2>9. OpenViewerHasFeed'
    BY <2>2, <2>3, <2>4, <2>6 DEF FeedInv, OpenViewerHasFeed, EndPut
  <2>10. QED
    BY <2>6, <2>7, <2>8, <2>9 DEF FeedInv
<1>6. CASE PumpEnsureStandby(g) \/ PumpSignal(g)
  <2>1. UNCHANGED <<process, cachedMedia, pumpTo, subscribers, joined, chunks,
                    standbyTo, closer, closeTo>>
    BY <1>6 DEF PumpEnsureStandby, PumpSignal
  <2>2. \A h \in Generations :
            /\ pump'[h] = "ending" <=> pump[h] = "ending"
            /\ pump'[h] = "delivering" <=> pump[h] = "delivering"
    BY <1>6 DEF TypeOK, PumpEnsureStandby, PumpSignal
  <2>3. \A w \in Viewers :
            \/ viewer'[w] = viewer[w]
            \/ viewer[w] = "waiting" /\ viewer'[w] = "retrying"
    BY <1>6 DEF PumpEnsureStandby, PumpSignal
  <2>4. viewer' \in [Viewers -> {"new", "toWait", "waiting", "retrying",
                                 "open", "ended",
                                 "closed"}]
    BY DEF TypeOK
  <2>5. /\ TargetsWereOpened' /\ DeliversToItsOwn' /\ EndsActiveOnly'
        /\ OpenViewerHasFeed' /\ NoForeignMedia' /\ PassiveKept'
        /\ CloseEndsOnce'
    BY <2>1, <2>2, <2>3, <2>4, LeavingKeepsFeed
  <2>6. CacheIsCurrent' /\ StandbyIsPassive'
    BY <2>1 DEF FeedInv, CacheIsCurrent, StandbyIsPassive
  <2>7. QED
    BY <2>5, <2>6 DEF FeedInv
<1>7. QED
  BY <1>1, <1>2, <1>3, <1>4, <1>5, <1>6 DEF Pump, PumpTeardown

LEMMA OtherFeedInv ==
  ASSUME TypeOK, SessionInv, FeedInv, Standby \/ SessionClose \/ Closing, TypeOK'
  PROVE  FeedInv'
<1> USE DEF sessionVars, pumpVars, viewerVars, timerVars, standbyVars,
            closeVars
<1>1. CASE StandbyCheck
  <2>1. standbyTo' \subseteq PassiveViewers
    BY <1>1 DEF FeedInv, StandbyIsPassive, StandbyCheck, PassiveSubscribers
  <2>2. QED
    BY <1>1, <2>1
    DEF StandbyCheck, FeedInv, CacheIsCurrent, TargetsWereOpened,
        DeliversToItsOwn, EndsActiveOnly, StandbyIsPassive, CloseEndsOnce,
        OpenViewerHasFeed, NoForeignMedia, PassiveKept, Closed
<1>2. CASE StandbyEmit
  <2>1. PICK s \in standbyTo : Offer(s, StandbyFrame)
                               /\ standbyTo' = standbyTo \ {s}
    BY <1>2 DEF StandbyEmit
  <2>2. UNCHANGED <<process, cachedMedia, pump, pumpTo, subscribers, viewer,
                    joined, closer, closeTo, Closed>>
    BY <1>2 DEF StandbyEmit, Closed
  <2>3. s \in Viewers /\ s \in PassiveViewers /\ s \notin ActiveViewers
    BY <2>1, ViewersAssumption DEF TypeOK, FeedInv, StandbyIsPassive
  <2>4. /\ NoForeignMedia' /\ PassiveKept'
        /\ \A w \in Viewers : EndPut(chunks[w]) => EndPut(chunks'[w])
    BY <2>1, <2>2, <2>3, PutKeepsQueues DEF StandbyFrame, END, LOST
  <2>5. OpenViewerHasFeed'
    BY <2>2, <2>4 DEF FeedInv, OpenViewerHasFeed, EndPut
  <2>6. QED
    BY <2>1, <2>2, <2>4, <2>5
    DEF FeedInv, CacheIsCurrent, TargetsWereOpened, DeliversToItsOwn,
        EndsActiveOnly, StandbyIsPassive, CloseEndsOnce
<1>3. CASE StandbyExit
  BY <1>3, FeedInvUnchanged DEF StandbyExit, feedVars
<1>4. CASE SessionClose
  <2>1. /\ UNCHANGED <<process, cachedMedia, pump, pumpTo, viewer, joined,
                       chunks, standbyTo>>
        /\ ~Closed /\ Closed' /\ closeTo' = subscribers /\ subscribers' = {}
    BY <1>4 DEF SessionClose, SnapshotForClose, Closed
  <2>2. closeTo = {}
    BY <2>1 DEF FeedInv, CloseEndsOnce
  <2>3. OpenViewerHasFeed'
    BY <2>1, <2>2 DEF FeedInv, OpenViewerHasFeed
  <2>4. PassiveKept' /\ CloseEndsOnce'
    BY <2>1 DEF PassiveKept, CloseEndsOnce
  <2>5. QED
    BY <2>1, <2>3, <2>4
    DEF FeedInv, CacheIsCurrent, TargetsWereOpened, DeliversToItsOwn,
        EndsActiveOnly, StandbyIsPassive, NoForeignMedia
<1>5. CASE CloseEnd
  <2>1. PICK s \in closeTo : Offer(s, END)
                             /\ closeTo' = closeTo \ {s}
    BY <1>5 DEF CloseEnd
  <2>2. /\ UNCHANGED <<process, cachedMedia, pump, pumpTo, subscribers, viewer,
                       joined, standbyTo, Closed>>
        /\ Closed
    BY <1>5 DEF CloseEnd, Closed
  <2>3. s \in Viewers
    BY <2>1 DEF TypeOK
  <2>4. /\ NoForeignMedia' /\ PassiveKept'
        /\ \A w \in Viewers : EndPut(chunks[w]) => EndPut(chunks'[w])
        /\ viewer[s] = "open" => EndPut(chunks'[s])
    BY <2>1, <2>2, <2>3, PutKeepsQueues DEF END, LOST
  <2>5. OpenViewerHasFeed'
    BY <2>1, <2>2, <2>4 DEF FeedInv, OpenViewerHasFeed, EndPut
  <2>6. CloseEndsOnce'
    BY <2>2 DEF CloseEndsOnce
  <2>7. QED
    BY <2>2, <2>4, <2>5, <2>6
    DEF FeedInv, CacheIsCurrent, TargetsWereOpened, DeliversToItsOwn,
        EndsActiveOnly, StandbyIsPassive
<1>6. CASE CloseTerminate
  <2>1. /\ UNCHANGED <<process, cachedMedia, pump, pumpTo, subscribers, viewer,
                       joined, chunks, standbyTo, closeTo>>
        /\ Closed /\ Closed'
    BY <1>6 DEF CloseTerminate, Closed
  <2>2. QED
    BY <2>1
    DEF FeedInv, CacheIsCurrent, TargetsWereOpened, DeliversToItsOwn,
        EndsActiveOnly, StandbyIsPassive, CloseEndsOnce, OpenViewerHasFeed,
        NoForeignMedia, PassiveKept
<1>7. QED
  BY <1>1, <1>2, <1>3, <1>4, <1>5, <1>6 DEF Standby, Closing

LEMMA StepFeedInv ==
  TypeOK /\ SessionInv /\ FeedInv /\ [Next]_vars => FeedInv'
<1> SUFFICES ASSUME TypeOK, SessionInv, FeedInv, [Next]_vars
             PROVE  FeedInv'
  OBVIOUS
<1>0. TypeOK'
  BY StepTypeOK
<1>1. CASE UNCHANGED vars
  BY <1>1, FeedInvUnchanged
  DEF vars, sessionVars, pumpVars, viewerVars, standbyVars, closeVars, feedVars
<1>2. CASE Next
  BY <1>0, <1>1, <1>2, AcquireFeedInv, ViewerFeedInv, HelperFeedInv,
     OtherFeedInv DEF Next, Finished
<1>3. QED
  BY <1>1, <1>2

LEMMA FeedInvHolds == Spec => []FeedInv
<1>1. Init => FeedInv
  BY InitFeedInv
<1>2. TypeOK /\ SessionInv /\ FeedInv /\ [Next]_vars => FeedInv'
  BY StepFeedInv
<1>3. QED
  BY <1>1, <1>2, SessionInvHolds, PTL DEF Spec

\* An open subscription is fed, or its end item is to be put or was put (and may
\* be lost in the queue): whatever the pump and close() take out of _subscribers
\* under the lock keeps its claim to an end item.
THEOREM EndIsPutForEveryViewer == Spec => []OpenViewerHasFeed
<1>1. FeedInv => OpenViewerHasFeed
  BY DEF FeedInv
<1>2. QED
  BY <1>1, FeedInvHolds, PTL

\* An active viewer is given media of the helper it acquired and nothing else,
\* although pumps deliver after the lock and generations follow one another.
THEOREM OnlyOwnMedia == Spec => []NoForeignMedia
<1>1. FeedInv => NoForeignMedia
  BY DEF FeedInv
<1>2. QED
  BY <1>1, FeedInvHolds, PTL

\* A passive viewer survives every end of a helper.
THEOREM PassiveViewersStay == Spec => []PassiveKept
<1>1. FeedInv => PassiveKept
  BY DEF FeedInv
<1>2. QED
  BY <1>1, FeedInvHolds, PTL

-----------------------------------------------------------------------------
(* Refinement: every step is a step of SharedStream or leaves its          *)
(* variables unchanged.                                                    *)

LEMMA InitShared == Init => Shared!Init
  BY DEF Init, Shared!Init, LiveHelpers, Alive, ActiveSubscribers, Closed

\* The signal does not change which helpers live.
LEMMA TerminatedLive ==
  ASSUME TypeOK, NEW g \in 0 .. MaxGeneration, helper' = Terminated(g)
  PROVE  LiveHelpers' = LiveHelpers
  BY TerminatedAlive DEF LiveHelpers, Alive

LEMMA AcquireShared ==
  ASSUME TypeOK, SessionInv, NEW v \in Viewers, Acquire(v)
  PROVE  [Shared!Next]_(Shared!vars)
<1> USE DEF sessionVars, pumpVars, viewerVars, timerVars, standbyVars,
            closeVars, NeedsHelper, StartHelper, ArmIdleTimer, AtEndOfFile,
            DropActive, RestoreStandbyMedia, SnapshotForClose, NoteMedia
<1>1. CASE \/ AcquireRefused(v) \/ AcquireMeetsDead(v) \/ AcquireWait(v)
           \/ AcquireTimeout(v)
  BY <1>1 DEF AcquireRefused, AcquireMeetsDead, AcquireWait, AcquireTimeout,
              Shared!vars,
              LiveHelpers, Alive, ActiveSubscribers, Closed
<1>2. CASE AcquireStart(v)
  <2>1. /\ generation' = generation + 1 /\ process' = generation'
        /\ ~Closed /\ process = 0 /\ Closed' = Closed /\ v \in ActiveViewers
    BY <1>2 DEF AcquireStart, Closed
  <2>2. LiveHelpers' = LiveHelpers \cup {generation'}
    <3>1. generation + 1 \in Generations
      BY <1>2, BoundsAssumption DEF TypeOK, AcquireStart, Generations
    <3>2. helper' = [helper EXCEPT ![generation'] = "running"]
      BY <1>2 DEF AcquireStart
    <3>3. \A h \in Generations :
             helper'[h] = IF h = generation' THEN "running" ELSE helper[h]
      BY <2>1, <3>1, <3>2 DEF TypeOK
    <3>4. \A h \in Generations : Alive(h)' <=> (Alive(h) \/ h = generation')
      BY <3>3 DEF Alive
    <3>5. generation' \in Generations
      BY <2>1, <3>1
    <3>6. QED
      BY <3>4, <3>5 DEF LiveHelpers
  <2>3. ActiveSubscribers' = {v}
    <3>1. ActiveSubscribers = {}
      BY <2>1 DEF SessionInv, ActiveHasHelper
    <3>2. QED
      BY <1>2, <2>1, <3>1 DEF AcquireStart, Subscribe, ActiveSubscribers
  <2>4. Shared!Open(v)
    BY <2>1, <2>2, <2>3 DEF Shared!Open
  <2>5. QED
    BY <2>1, <2>4 DEF Shared!Next
<1>3. CASE AcquireStartFails(v)
  <2>1. Shared!FailToOpen
    BY <1>3 DEF AcquireStartFails, Shared!FailToOpen, LiveHelpers, Alive,
                ActiveSubscribers, Closed
  <2>2. QED
    BY <2>1 DEF Shared!Next
<1>4. CASE AcquireJoin(v)
  <2>1. UNCHANGED <<process, generation, LiveHelpers, Closed>> /\ ~Closed
    BY <1>4 DEF AcquireJoin, LiveHelpers, Alive, Closed
  <2>2. process \in LiveHelpers
    BY <1>4 DEF AcquireJoin, HelperAlive, LiveHelpers, TypeOK, Generations
  <2>3. CASE v \in ActiveViewers
    <3>1. v \notin ActiveSubscribers
      BY <1>4 DEF AcquireJoin, CanAcquire, SessionInv, RegisteredIsOpen,
                  ActiveSubscribers
    <3>2. ActiveSubscribers' = ActiveSubscribers \cup {v}
      BY <1>4, <2>3 DEF AcquireJoin, Subscribe, ActiveSubscribers
    <3>3. Shared!Join(v)
      BY <2>1, <2>2, <3>1, <3>2 DEF Shared!Join
    <3>4. QED
      BY <2>3, <3>3 DEF Shared!Next
  <2>4. CASE v \notin ActiveViewers
    <3>1. ActiveSubscribers' = ActiveSubscribers
      BY <1>4, <2>4 DEF AcquireJoin, Subscribe, ActiveSubscribers
    <3>2. QED
      BY <2>1, <3>1 DEF Shared!vars
  <2>5. QED
    BY <2>3, <2>4
<1>5. CASE AcquireStandby(v)
  BY <1>5, ViewersAssumption
  DEF AcquireStandby, Subscribe, Shared!vars, LiveHelpers, Alive,
      ActiveSubscribers, Closed
<1>6. QED
  BY <1>1, <1>2, <1>3, <1>4, <1>5 DEF Acquire

LEMMA ViewerShared ==
  ASSUME TypeOK, NEW v \in Viewers, TakeEnd(v) \/ Close(v) \/ Timer(v)
  PROVE  [Shared!Next]_(Shared!vars)
<1> USE DEF sessionVars, pumpVars, viewerVars, timerVars, standbyVars,
            closeVars, NeedsHelper, StartHelper, ArmIdleTimer, AtEndOfFile,
            DropActive, RestoreStandbyMedia, SnapshotForClose, NoteMedia
<1>1. CASE TakeEnd(v) \/ TimerFires(v) \/ StopIfIdle(v)
  BY <1>1 DEF TakeEnd, TimerFires, StopIfIdle, Shared!vars, LiveHelpers, Alive,
              ActiveSubscribers, Closed
<1>2. CASE Close(v)
  <2>1. UNCHANGED <<process, generation, LiveHelpers, Closed>>
    BY <1>2 DEF Close, LiveHelpers, Alive, Closed
  <2>2. ActiveSubscribers' = ActiveSubscribers \ {v}
    BY <1>2 DEF Close, ActiveSubscribers
  <2>3. CASE v \in ActiveSubscribers
    <3>1. Shared!Leave(v)
      BY <2>1, <2>2, <2>3 DEF Shared!Leave
    <3>2. QED
      BY <2>3, <3>1 DEF Shared!Next, ActiveSubscribers
  <2>4. CASE v \notin ActiveSubscribers
    BY <2>1, <2>2, <2>4 DEF Shared!vars
  <2>5. QED
    BY <2>3, <2>4
<1>3. CASE TerminateIdle(v)
  <2>1. stopTarget[v] \in 0 .. MaxGeneration
    BY DEF TypeOK
  <2>2. LiveHelpers' = LiveHelpers
    BY <1>3, <2>1, TerminatedLive DEF TerminateIdle
  <2>3. QED
    BY <1>3, <2>2 DEF TerminateIdle, Shared!vars, ActiveSubscribers, Closed
<1>4. QED
  BY <1>1, <1>2, <1>3 DEF Timer

LEMMA HelperShared ==
  ASSUME TypeOK, SessionInv, NEW g \in Generations, HelperExit(g) \/ Pump(g)
  PROVE  [Shared!Next]_(Shared!vars)
<1> USE DEF sessionVars, pumpVars, viewerVars, timerVars, standbyVars,
            closeVars, NeedsHelper, StartHelper, ArmIdleTimer, AtEndOfFile,
            DropActive, RestoreStandbyMedia, SnapshotForClose, NoteMedia
<1>1. CASE HelperExit(g)
  <2>1. g \in LiveHelpers /\ LiveHelpers' = LiveHelpers \ {g}
    BY <1>1 DEF HelperExit, LiveHelpers, Alive, TypeOK
  <2>2. Shared!HelperEnds
    BY <1>1, <2>1 DEF HelperExit, Shared!HelperEnds, ActiveSubscribers, Closed
  <2>3. QED
    BY <2>2 DEF Shared!Next
<1>2. CASE PumpRead(g)
  <2>1. LiveHelpers' = LiveHelpers
    BY <1>2 DEF PumpRead, LiveHelpers, Alive, TypeOK
  <2>2. QED
    BY <1>2, <2>1 DEF PumpRead, Shared!vars, ActiveSubscribers, Closed
<1>3. CASE PumpDeliver(g) \/ PumpEnd(g) \/ PumpEnsureStandby(g) \/ PumpSignal(g)
  BY <1>3 DEF PumpDeliver, PumpEnd, PumpEnsureStandby, PumpSignal, Shared!vars,
              LiveHelpers, Alive, ActiveSubscribers, Closed
<1>4. CASE PumpCleanup(g)
  <2>1. process = g /\ process # 0
    BY <1>4 DEF SessionInv, PumpOwnsProcess, PumpCleanup, Generations
  <2>2. g \notin LiveHelpers /\ LiveHelpers' = LiveHelpers
    BY <1>4 DEF PumpCleanup, LiveHelpers, Alive, TypeOK
  <2>3. process' = 0 /\ ActiveSubscribers' = {}
    BY <1>4, <2>1, ViewersAssumption
    DEF PumpCleanup, ActiveSubscribers, PassiveSubscribers
  <2>4. Shared!End
    BY <1>4, <2>1, <2>2, <2>3 DEF PumpCleanup, Shared!End, Closed
  <2>5. QED
    BY <2>4 DEF Shared!Next
<1>5. QED
  BY <1>1, <1>2, <1>3, <1>4 DEF Pump, PumpTeardown

LEMMA OtherShared ==
  ASSUME TypeOK, Standby \/ SessionClose \/ Closing
  PROVE  [Shared!Next]_(Shared!vars)
<1> USE DEF sessionVars, pumpVars, viewerVars, timerVars, standbyVars,
            closeVars, NeedsHelper, StartHelper, ArmIdleTimer, AtEndOfFile,
            DropActive, RestoreStandbyMedia, SnapshotForClose, NoteMedia
<1>1. CASE Standby \/ CloseEnd
  BY <1>1 DEF Standby, StandbyCheck, StandbyEmit, StandbyExit, CloseEnd,
              Shared!vars, LiveHelpers, Alive, ActiveSubscribers, Closed
<1>2. CASE SessionClose
  <2>1. Shared!Shutdown
    BY <1>2 DEF SessionClose, Shared!Shutdown, LiveHelpers, Alive,
                ActiveSubscribers, Closed
  <2>2. QED
    BY <2>1 DEF Shared!Next
<1>3. CASE CloseTerminate
  <2>1. closeTarget \in 0 .. MaxGeneration
    BY DEF TypeOK
  <2>2. LiveHelpers' = LiveHelpers
    BY <1>3, <2>1, TerminatedLive DEF CloseTerminate
  <2>3. QED
    BY <1>3, <2>2 DEF CloseTerminate, Shared!vars, ActiveSubscribers, Closed
<1>4. QED
  BY <1>1, <1>2, <1>3 DEF Closing

LEMMA StepShared ==
  TypeOK /\ SessionInv /\ [Next]_vars => [Shared!Next]_(Shared!vars)
<1> SUFFICES ASSUME TypeOK, SessionInv, [Next]_vars
             PROVE  [Shared!Next]_(Shared!vars)
  OBVIOUS
<1>1. CASE UNCHANGED vars
  BY <1>1 DEF vars, sessionVars, pumpVars, viewerVars, closeVars, Shared!vars,
              LiveHelpers, Alive, ActiveSubscribers, Closed
<1>2. CASE Next
  BY <1>1, <1>2, AcquireShared, ViewerShared, HelperShared, OtherShared
  DEF Next, Finished
<1>3. QED
  BY <1>1, <1>2

\* The session implements the shared stream: sessions come one after the
\* other, every viewer belongs to the current one and is let go with it, and
\* nobody is attached after close().
THEOREM SessionRefinesSharedStream == Spec => ImplementsSharedStream
<1>1. Init => Shared!Init
  BY InitShared
<1>2. TypeOK /\ SessionInv /\ [Next]_vars => [Shared!Next]_(Shared!vars)
  BY StepShared
<1>3. QED
  BY <1>1, <1>2, SessionInvHolds, PTL DEF Spec, ImplementsSharedStream,
     Shared!Spec

=============================================================================
