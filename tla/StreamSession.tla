--------------------------- MODULE StreamSession ---------------------------
(***************************************************************************)
(* NativeStreamSession (session.py): one camera helper process shared by   *)
(* every viewer of that camera.  The first active viewer starts a helper   *)
(* (a generation), later viewers join it, a pump thread copies its output  *)
(* to the queue of every subscriber, and an idle timer stops the helper    *)
(* some time after the last active viewer left.  Passive viewers never     *)
(* start a helper: without one a standby thread feeds them a placeholder.  *)
(*                                                                         *)
(* Every `with self._lock` block is one action; what a thread does outside *)
(* the lock (deliveries, terminate) is a step of its own.  The starter     *)
(* runs under the lock, so that acquire and start are one action.  A       *)
(* viewer is one subscription: it acquires at most once.  An operator with *)
(* a suffix (StartHelper_KeepsUnits) is a faulty variant of the one it     *)
(* precedes, which no action uses: the model shows what would catch it.    *)
(*                                                                         *)
(* A subscription queue is abstracted to the kinds of item it was given,   *)
(* and to the outcomes a put may have (SubscriptionQueue models the        *)
(* bounded queue itself, item by item).                                    *)
(***************************************************************************)
EXTENDS Integers, FiniteSets

CONSTANTS ActiveViewers,    \* subscriptions acquired with passive=False
          PassiveViewers,   \* subscriptions acquired with passive=True
          NoViewer,         \* the value of a timer reference that is None
          MaxGeneration,    \* bound on the number of starts
          HasStandby        \* a standby frame was given to the constructor

Viewers == ActiveViewers \cup PassiveViewers
Generations == 1 .. MaxGeneration

ASSUME ViewersAssumption ==
    /\ ActiveViewers \cap PassiveViewers = {}
    /\ NoViewer \notin Viewers
    /\ IsFiniteSet(Viewers)
ASSUME BoundsAssumption ==
    /\ MaxGeneration \in Nat \ {0}
    /\ HasStandby \in BOOLEAN

\* Kinds of item: the media of generation g is g, and a standby frame 0.  LOST
\* is history: the end item was put and is not in the queue.
StandbyFrame == 0
END == -1
LOST == -2
Media == Generations \cup {StandbyFrame}
Item == Media \cup {END, LOST}

\* _standby_media: the parameter sets of the placeholder, if there is one.
StandbyMedia == IF HasStandby THEN {StandbyFrame} ELSE {}

VARIABLES
    generation,       \* _session_generation
    process,          \* _process: 0 for None, otherwise its generation
    helper,           \* the helper process of every generation
    pump,             \* the pump thread of every generation
    pumpTo,           \* the queues the pump has still to put into
    subscribers,      \* keys of _subscribers
    viewer,           \* the life of every subscription
    joined,           \* history: the generation an active viewer acquired
    chunks,           \* the kinds of item every queue was given so far
    idleTimer,        \* _idle_timer: the viewer whose release armed it
    timer,            \* the threading.Timer armed by the release of a viewer
    stopTarget,       \* `process` of _stop_if_idle, read under the lock
    cleanupComplete,  \* the event _cleanup_complete
    state,            \* _state
    mediaReady,       \* _media_ready
    cachedMedia,      \* the media _sps/_pps/_keyframe were taken from
    standbyThread,    \* _standby_thread: is_alive() iff not "none"
    standbyTo,        \* the passive queues it has still to put into
    closer,           \* the thread in close(); _closed iff not "open"
    closeTo,          \* the queues close() has still to end
    closeTarget       \* `process` of close(), read under the lock

sessionVars == <<generation, process, state, mediaReady, cachedMedia,
                 cleanupComplete>>
pumpVars    == <<helper, pump, pumpTo>>
viewerVars  == <<subscribers, viewer, joined, chunks>>
timerVars   == <<idleTimer, timer, stopTarget>>
standbyVars == <<standbyThread, standbyTo>>
closeVars   == <<closer, closeTo, closeTarget>>
vars == <<sessionVars, pumpVars, viewerVars, timerVars, standbyVars, closeVars>>

Init ==
    /\ generation = 0 /\ process = 0
    /\ state = "IDLE" /\ mediaReady = FALSE /\ cleanupComplete = TRUE
    /\ cachedMedia = StandbyMedia
    /\ helper = [g \in Generations |-> "none"]
    /\ pump = [g \in Generations |-> "none"]
    /\ pumpTo = [g \in Generations |-> {}]
    /\ subscribers = {}
    /\ viewer = [v \in Viewers |-> "new"]
    /\ joined = [v \in Viewers |-> 0]
    /\ chunks = [v \in Viewers |-> {}]
    /\ idleTimer = NoViewer
    /\ timer = [v \in Viewers |-> "none"]
    /\ stopTarget = [v \in Viewers |-> 0]
    /\ standbyThread = "none" /\ standbyTo = {}
    /\ closer = "open" /\ closeTo = {} /\ closeTarget = 0

Closed == closer # "open"
Alive(g) == helper[g] \in {"running", "signalled"}       \* poll() is None
HelperAlive == process # 0 /\ Alive(process)
HelperDead == process # 0 /\ ~Alive(process)
ActiveSubscribers == subscribers \cap ActiveViewers
PassiveSubscribers == subscribers \cap PassiveViewers

-----------------------------------------------------------------------------
(* Queues and timers.                                                      *)

\* What a put makes of a queue.  At a full one the head, perhaps the end item, is
\* taken first.  The item is dropped when another putter takes the place or the
\* consumer has emptied the queue meanwhile; no new queue is full.  An eviction
\* counts the item as given, dropped after it or not: no step tells these apart.
AfterPut(queue, item) ==
    LET Dropped == IF item = END THEN queue \cup {LOST} ELSE queue
        Evicted == IF END \in queue THEN (queue \ {END}) \cup {item, LOST}
                                    ELSE queue \cup {item}
    IN  {queue \cup {item}} \cup (IF queue = {} THEN {} ELSE {Dropped, Evicted})

\* _put_chunk.  Nobody reads the queue of a closed subscription any more.
Offer(v, item) ==
    IF viewer[v] = "open"
    THEN \E queue \in AfterPut(chunks[v], item) : chunks' = [chunks EXCEPT ![v] = queue]
    ELSE UNCHANGED chunks

\* Timer.cancel(): without effect on a timer that has already fired.
Cancelled(t) ==
    IF t # NoViewer /\ timer[t] = "armed"
    THEN [timer EXCEPT ![t] = "none"] ELSE timer

Terminated(g) ==          \* _terminate, the signal
    IF g # 0 /\ Alive(g) THEN [helper EXCEPT ![g] = "signalled"] ELSE helper

-----------------------------------------------------------------------------
(* acquire().  A viewer that meets a dead helper leaves the lock, waits    *)
(* for the event and starts over when it was set, also if it was cleared   *)
(* again since; it may be cleared before the wait begins, too.             *)

CanAcquire(v) == viewer[v] \in {"new", "retrying"}

AcquireRefused(v) ==
    /\ CanAcquire(v) /\ Closed
    /\ viewer' = [viewer EXCEPT ![v] = "closed"]
    /\ UNCHANGED <<sessionVars, pumpVars, subscribers, joined, chunks,
                   timerVars, standbyVars, closeVars>>

AcquireMeetsDead(v) ==
    /\ CanAcquire(v) /\ ~Closed /\ HelperDead
    /\ viewer' = [viewer EXCEPT ![v] = "toWait"]
    /\ UNCHANGED <<sessionVars, pumpVars, subscribers, joined, chunks,
                   timerVars, standbyVars, closeVars>>

\* cleanup_wait.wait(), outside the lock.
AcquireWait(v) ==
    /\ viewer[v] = "toWait"
    /\ viewer' = [viewer EXCEPT
                    ![v] = IF cleanupComplete THEN "retrying" ELSE "waiting"]
    /\ UNCHANGED <<sessionVars, pumpVars, subscribers, joined, chunks,
                   timerVars, standbyVars, closeVars>>

\* cleanup_wait.wait(timeout=15.0) returned False.
AcquireTimeout(v) ==
    /\ viewer[v] = "waiting"
    /\ viewer' = [viewer EXCEPT ![v] = "closed"]
    /\ UNCHANGED <<sessionVars, pumpVars, subscribers, joined, chunks,
                   timerVars, standbyVars, closeVars>>

CancelIdleTimer ==
    /\ timer' = Cancelled(idleTimer)
    /\ idleTimer' = NoViewer
    /\ UNCHANGED stopTarget

\* A joining viewer starts on the cached parameter sets and keyframe.
Preamble == cachedMedia

Subscribe(v, queue) ==
    /\ subscribers' = subscribers \cup {v}
    /\ viewer' = [viewer EXCEPT ![v] = "open"]
    /\ chunks' = [chunks EXCEPT ![v] = queue]

\* An active viewer finds no helper.
NeedsHelper(v) ==
    /\ v \in ActiveViewers /\ CanAcquire(v) /\ ~Closed /\ process = 0
    /\ generation < MaxGeneration

StartHelper_KeepsUnits(g) ==
    /\ generation' = g /\ process' = g
    /\ state' = "CONNECTED" /\ mediaReady' = FALSE /\ UNCHANGED cachedMedia
    /\ cleanupComplete' = FALSE
    /\ helper' = [helper EXCEPT ![g] = "running"]
    /\ pump' = [pump EXCEPT ![g] = "reading"]

\* _start_locked: the new helper has no cached media yet.
StartHelper(g) ==
    /\ generation' = g /\ process' = g
    /\ state' = "CONNECTED" /\ mediaReady' = FALSE /\ cachedMedia' = {}
    /\ cleanupComplete' = FALSE
    /\ helper' = [helper EXCEPT ![g] = "running"]
    /\ pump' = [pump EXCEPT ![g] = "reading"]

AcquireStart(v) ==
    /\ NeedsHelper(v)
    /\ StartHelper(generation + 1)
    /\ joined' = [joined EXCEPT ![v] = generation + 1]
    /\ CancelIdleTimer
    /\ Subscribe(v, {})
    /\ UNCHANGED <<pumpTo, standbyVars, closeVars>>

\* The starter raised: the generation is used up, the cached units are gone.
AcquireStartFails(v) ==
    /\ NeedsHelper(v)
    /\ generation' = generation + 1
    /\ state' = "FAILED" /\ mediaReady' = FALSE /\ cachedMedia' = {}
    /\ CancelIdleTimer
    /\ viewer' = [viewer EXCEPT ![v] = "closed"]
    /\ UNCHANGED <<process, cleanupComplete, pumpVars, subscribers, joined,
                   chunks, standbyVars, closeVars>>

AcquireJoin_IgnoresClosed(v) ==
    /\ CanAcquire(v) /\ HelperAlive
    /\ CancelIdleTimer
    /\ Subscribe(v, Preamble)
    /\ joined' = [joined EXCEPT
                    ![v] = IF v \in ActiveViewers THEN process ELSE 0]
    /\ UNCHANGED <<sessionVars, pumpVars, standbyVars, closeVars>>

\* Any viewer joins the helper that is running.
AcquireJoin(v) ==
    /\ CanAcquire(v) /\ ~Closed /\ HelperAlive
    /\ CancelIdleTimer
    /\ Subscribe(v, Preamble)
    /\ joined' = [joined EXCEPT
                    ![v] = IF v \in ActiveViewers THEN process ELSE 0]
    /\ UNCHANGED <<sessionVars, pumpVars, standbyVars, closeVars>>

\* _ensure_standby_thread_locked
EnsureStandbyThread ==
    standbyThread' = IF HasStandby /\ ~Closed /\ standbyThread = "none"
                     THEN "loop" ELSE standbyThread

\* A passive viewer without a helper gets the preamble and a standby frame.
AcquireStandby(v) ==
    /\ v \in PassiveViewers /\ CanAcquire(v) /\ ~Closed /\ process = 0
    /\ CancelIdleTimer
    /\ state' = "STANDBY"
    /\ Subscribe(v, Preamble \cup {StandbyFrame})
    /\ EnsureStandbyThread
    /\ UNCHANGED <<generation, process, mediaReady, cachedMedia,
                   cleanupComplete, pumpVars, joined, standbyTo, closeVars>>

-----------------------------------------------------------------------------
(* A subscription: iteration, close() and release().                       *)

\* __iter__ yields what it takes until it takes the end item.
TakeEnd(v) ==
    /\ viewer[v] = "open" /\ END \in chunks[v]
    /\ viewer' = [viewer EXCEPT ![v] = "ended"]
    /\ UNCHANGED <<sessionVars, pumpVars, subscribers, joined, chunks,
                   timerVars, standbyVars, closeVars>>

ArmIdleTimer_ChecksBeforePop(v) ==
    IF ActiveSubscribers = {} /\ process # 0 /\ ~Closed
    THEN /\ timer' = [Cancelled(idleTimer) EXCEPT ![v] = "armed"]
         /\ idleTimer' = v
    ELSE UNCHANGED <<timer, idleTimer>>

\* The last active viewer arms the idle timer, and so does every later release
\* without an active viewer.
ArmIdleTimer(v) ==
    IF ActiveSubscribers \ {v} = {} /\ process # 0 /\ ~Closed
    THEN /\ timer' = [Cancelled(idleTimer) EXCEPT ![v] = "armed"]
         /\ idleTimer' = v
    ELSE UNCHANGED <<timer, idleTimer>>

\* close() of the subscription and release().
Close(v) ==
    /\ viewer[v] \in {"open", "ended"}
    /\ viewer' = [viewer EXCEPT ![v] = "closed"]
    /\ chunks' = [chunks EXCEPT ![v] = {}]
    /\ joined' = [joined EXCEPT ![v] = 0]
    /\ subscribers' = subscribers \ {v}
    /\ ArmIdleTimer(v)
    /\ UNCHANGED <<sessionVars, pumpVars, stopTarget, standbyVars,
                   closeVars>>

-----------------------------------------------------------------------------
(* The idle timer thread: the decision under the lock, the signal after it. *)

TimerFires(t) ==
    /\ timer[t] = "armed"
    /\ timer' = [timer EXCEPT ![t] = "fired"]
    /\ UNCHANGED <<sessionVars, pumpVars, viewerVars, idleTimer, stopTarget,
                   standbyVars, closeVars>>

StopIfIdle(t) ==
    /\ timer[t] = "fired"
    /\ idleTimer' = NoViewer
    /\ IF ActiveSubscribers # {} \/ Closed
       THEN /\ timer' = [timer EXCEPT ![t] = "none"]
            /\ UNCHANGED <<stopTarget, state>>
       ELSE /\ timer' = [timer EXCEPT ![t] = "stopping"]
            /\ stopTarget' = [stopTarget EXCEPT ![t] = process]
            /\ state' = IF HelperAlive THEN "STOPPING" ELSE state
    /\ UNCHANGED <<generation, process, mediaReady, cachedMedia,
                   cleanupComplete, pumpVars, viewerVars, standbyVars,
                   closeVars>>

TerminateIdle(t) ==
    /\ timer[t] = "stopping"
    /\ timer' = [timer EXCEPT ![t] = "none"]
    /\ helper' = Terminated(stopTarget[t])
    /\ stopTarget' = [stopTarget EXCEPT ![t] = 0]
    /\ UNCHANGED <<sessionVars, pump, pumpTo, viewerVars, idleTimer,
                   standbyVars, closeVars>>

-----------------------------------------------------------------------------
(* The helper process and its pump thread.                                 *)

\* The helper ends by itself (camera or network), by the signal, or it is
\* killed when it has ignored the signal for ten seconds.
HelperExit(g) ==
    /\ Alive(g)
    /\ helper' = [helper EXCEPT ![g] = "exited"]
    /\ UNCHANGED <<sessionVars, pump, pumpTo, viewerVars, timerVars,
                   standbyVars, closeVars>>

\* _note_media: the chunk may complete a unit that is worth keeping.
NoteMedia(g) == cachedMedia' \in {cachedMedia, {g}}

\* One read of the pipe, and the section under the lock: after the exit the
\* pipe may hold one more chunk.
PumpRead(g) ==
    /\ pump[g] = "reading"
    /\ helper[g] \in {"running", "signalled", "exited"}
    /\ helper' = [helper EXCEPT ![g] = IF @ = "exited" THEN "drained" ELSE @]
    /\ mediaReady' = TRUE
    /\ state' = IF state = "CONNECTED" THEN "STREAMING" ELSE state
    /\ NoteMedia(g)
    /\ pumpTo' = [pumpTo EXCEPT ![g] = subscribers]
    /\ pump' = [pump EXCEPT
                  ![g] = IF subscribers = {} THEN "reading" ELSE "delivering"]
    /\ UNCHANGED <<generation, process, cleanupComplete, viewerVars,
                   timerVars, standbyVars, closeVars>>

\* The put into one queue of the snapshot; after the last one the pump reads on.
PumpDeliver(g) ==
    /\ pump[g] = "delivering"
    /\ \E s \in pumpTo[g] :
          /\ Offer(s, g)
          /\ pumpTo' = [pumpTo EXCEPT ![g] = @ \ {s}]
          /\ pump' = [pump EXCEPT
                        ![g] = IF pumpTo[g] = {s} THEN "reading" ELSE @]
    /\ UNCHANGED <<sessionVars, helper, subscribers, viewer, joined,
                   timerVars, standbyVars, closeVars>>

AtEndOfFile_WithoutWait(g) ==
    pump[g] = "reading" /\ helper[g] \in {"signalled", "exited", "drained"}

\* The pipe is at its end and process.wait() has reaped the helper.
AtEndOfFile(g) == pump[g] = "reading" /\ helper[g] \in {"exited", "drained"}

DropActive_Nobody(g) ==
    /\ pumpTo' = [pumpTo EXCEPT ![g] = ActiveSubscribers]
    /\ UNCHANGED subscribers
DropActive_Everybody(g) ==
    /\ pumpTo' = [pumpTo EXCEPT ![g] = ActiveSubscribers]
    /\ subscribers' = {}
DropActive_SnapshotAfterPop(g) ==
    /\ pumpTo' = [pumpTo EXCEPT ![g] = {}]
    /\ subscribers' = PassiveSubscribers

\* The active subscriptions are popped, and their queues kept for the end item.
DropActive(g) ==
    /\ pumpTo' = [pumpTo EXCEPT ![g] = ActiveSubscribers]
    /\ subscribers' = PassiveSubscribers

\* _restore_standby_media_locked
RestoreStandbyMedia == cachedMedia' = StandbyMedia /\ mediaReady' = FALSE

\* End of file: the session is cleaned under the lock.
PumpCleanup(g) ==
    /\ AtEndOfFile(g)
    /\ helper' = [helper EXCEPT ![g] = IF @ = "exited" THEN "drained" ELSE @]
    /\ DropActive(g)
    /\ process' = IF process = g THEN 0 ELSE process
    /\ RestoreStandbyMedia
    /\ state' = IF PassiveSubscribers # {} THEN "STANDBY" ELSE "IDLE"
    /\ pump' = [pump EXCEPT
                  ![g] = IF pumpTo'[g] = {} THEN "ensure" ELSE "ending"]
    /\ UNCHANGED <<generation, cleanupComplete, viewer, joined, chunks,
                   timerVars, standbyVars, closeVars>>

\* The end item goes to every active viewer that was registered.
PumpEnd(g) ==
    /\ pump[g] = "ending"
    /\ \E s \in pumpTo[g] :
          /\ Offer(s, END)
          /\ pumpTo' = [pumpTo EXCEPT ![g] = @ \ {s}]
          /\ pump' = [pump EXCEPT
                        ![g] = IF pumpTo[g] = {s} THEN "ensure" ELSE @]
    /\ UNCHANGED <<sessionVars, helper, subscribers, viewer, joined,
                   timerVars, standbyVars, closeVars>>

PumpEnsureStandby(g) ==
    /\ pump[g] = "ensure"
    /\ pump' = [pump EXCEPT ![g] = "signal"]
    /\ IF subscribers # {} THEN EnsureStandbyThread ELSE UNCHANGED standbyThread
    /\ UNCHANGED <<sessionVars, helper, pumpTo, viewerVars, timerVars,
                   standbyTo, closeVars>>

PumpSignal_Forgotten(g) ==
    /\ pump[g] = "signal"
    /\ pump' = [pump EXCEPT ![g] = "done"]
    /\ UNCHANGED <<sessionVars, helper, pumpTo, viewerVars, timerVars,
                   standbyVars, closeVars>>

\* The event is set and every waiting viewer woken.
PumpSignal(g) ==
    /\ pump[g] = "signal"
    /\ pump' = [pump EXCEPT ![g] = "done"]
    /\ cleanupComplete' = TRUE
    /\ viewer' = [v \in Viewers |->
                    IF viewer[v] = "waiting" THEN "retrying" ELSE viewer[v]]
    /\ UNCHANGED <<generation, process, state, mediaReady, cachedMedia, helper,
                   pumpTo, subscribers, joined, chunks, timerVars, standbyVars,
                   closeVars>>

-----------------------------------------------------------------------------
(* The standby thread: a snapshot under the lock, the puts after it.  A    *)
(* thread that has decided to return is still alive for a moment.          *)

StandbyCheck ==
    /\ standbyThread = "loop"
    /\ \/ /\ Closed \/ (~HelperAlive /\ PassiveSubscribers = {})
          /\ standbyThread' = "returning"
          /\ UNCHANGED standbyTo
       \/ /\ ~Closed /\ ~HelperAlive /\ PassiveSubscribers # {}
          /\ standbyThread' = "emitting"
          /\ standbyTo' = PassiveSubscribers
    /\ UNCHANGED <<sessionVars, pumpVars, viewerVars, timerVars, closeVars>>

StandbyEmit ==
    /\ standbyThread = "emitting"
    /\ \E s \in standbyTo :
          /\ Offer(s, StandbyFrame)
          /\ standbyTo' = standbyTo \ {s}
          /\ standbyThread' = IF standbyTo = {s} THEN "loop" ELSE "emitting"
    /\ UNCHANGED <<sessionVars, pumpVars, subscribers, viewer, joined,
                   timerVars, closeVars>>

StandbyExit ==
    /\ standbyThread = "returning"
    /\ standbyThread' = "none"
    /\ UNCHANGED <<sessionVars, pumpVars, viewerVars, timerVars, standbyTo,
                   closeVars>>

-----------------------------------------------------------------------------
(* close() of the session.                                                 *)

SnapshotForClose_AfterClear ==
    closeTo' = {} /\ subscribers' = {} /\ closeTarget' = process
SnapshotForClose_NoTarget ==
    closeTo' = subscribers /\ subscribers' = {} /\ closeTarget' = 0

\* The queues to end and the process to stop, and no subscription is left.
SnapshotForClose ==
    closeTo' = subscribers /\ subscribers' = {} /\ closeTarget' = process

SessionClose ==
    /\ closer = "open"
    /\ timer' = Cancelled(idleTimer)
    /\ idleTimer' = NoViewer
    /\ state' = IF HelperAlive THEN "STOPPING" ELSE state
    /\ SnapshotForClose
    /\ closer' = IF closeTo' = {} THEN "terminating" ELSE "ending"
    /\ UNCHANGED <<generation, process, mediaReady, cachedMedia,
                   cleanupComplete, pumpVars, viewer, joined, chunks,
                   stopTarget, standbyVars>>

CloseEnd ==
    /\ closer = "ending"
    /\ \E s \in closeTo :
          /\ Offer(s, END)
          /\ closeTo' = closeTo \ {s}
          /\ closer' = IF closeTo = {s} THEN "terminating" ELSE "ending"
    /\ UNCHANGED <<sessionVars, pumpVars, subscribers, viewer, joined,
                   timerVars, standbyVars, closeTarget>>

CloseTerminate ==
    /\ closer = "terminating"
    /\ closer' = "done"
    /\ helper' = Terminated(closeTarget)
    /\ closeTarget' = 0
    /\ UNCHANGED <<sessionVars, pump, pumpTo, viewerVars, timerVars,
                   standbyVars, closeTo>>

-----------------------------------------------------------------------------
Acquire(v) == \/ AcquireRefused(v) \/ AcquireMeetsDead(v) \/ AcquireWait(v)
              \/ AcquireTimeout(v) \/ AcquireStart(v) \/ AcquireStartFails(v)
              \/ AcquireJoin(v) \/ AcquireStandby(v)
Timer(t)   == TimerFires(t) \/ StopIfIdle(t) \/ TerminateIdle(t)
PumpTeardown(g) == PumpCleanup(g) \/ PumpEnd(g) \/ PumpEnsureStandby(g)
                   \/ PumpSignal(g)
Pump(g)    == PumpRead(g) \/ PumpDeliver(g) \/ PumpTeardown(g)
Standby    == StandbyCheck \/ StandbyEmit \/ StandbyExit
Closing    == CloseEnd \/ CloseTerminate

\* Every subscription came and went and the session was closed.
Finished ==
    /\ \A v \in Viewers : viewer[v] = "closed"
    /\ closer = "done"
    /\ UNCHANGED vars

Next ==
    \/ \E v \in Viewers : Acquire(v) \/ TakeEnd(v) \/ Close(v) \/ Timer(v)
    \/ \E g \in Generations : HelperExit(g) \/ Pump(g)
    \/ Standby
    \/ SessionClose \/ Closing
    \/ Finished

(***************************************************************************)
(* The threads of the session run: pump, timer, standby and close threads, *)
(* and a viewer's, which waits for the event, retries after it, reads its  *)
(* queue to the end item and closes after it.  A signalled helper exits    *)
(* (kill after 10 s).  No answer may depend on the timeout of a wait.      *)
(* Nobody has to open or leave a stream or close the session, and a helper *)
(* need neither send anything nor exit by itself.                          *)
(***************************************************************************)
GoesOn(v) == \/ AcquireWait(v) \/ TakeEnd(v)
             \/ viewer[v] = "retrying" /\ Acquire(v)
             \/ viewer[v] = "ended" /\ Close(v)
Fairness ==
    /\ \A v \in Viewers : WF_vars(GoesOn(v)) /\ WF_vars(Timer(v))
    /\ \A g \in Generations :
          /\ WF_vars(helper[g] = "signalled" /\ HelperExit(g))
          /\ WF_vars(PumpDeliver(g) \/ PumpTeardown(g))
    /\ WF_vars(Standby)
    /\ WF_vars(Closing)

Spec == Init /\ [][Next]_vars
FairSpec == Spec /\ Fairness
-----------------------------------------------------------------------------
(* Properties.                                                             *)

\* Every variable keeps to the values the code gives it.
TypeOK ==
    /\ generation \in 0 .. MaxGeneration
    /\ process \in 0 .. MaxGeneration
    /\ helper \in [Generations ->
                    {"none", "running", "signalled", "exited", "drained"}]
    /\ pump \in [Generations -> {"none", "reading", "delivering", "ending",
                                 "ensure", "signal", "done"}]
    /\ pumpTo \in [Generations -> SUBSET Viewers]
    /\ subscribers \in SUBSET Viewers
    /\ viewer \in [Viewers -> {"new", "toWait", "waiting", "retrying", "open",
                             "ended", "closed"}]
    /\ joined \in [Viewers -> 0 .. MaxGeneration]
    /\ chunks \in [Viewers -> SUBSET Item]
    /\ idleTimer \in Viewers \cup {NoViewer}
    /\ timer \in [Viewers -> {"none", "armed", "fired", "stopping"}]
    /\ stopTarget \in [Viewers -> 0 .. MaxGeneration]
    /\ cleanupComplete \in BOOLEAN
    /\ state \in {"IDLE", "STANDBY", "FAILED", "CONNECTED", "STREAMING",
                   "STOPPING"}
    /\ mediaReady \in BOOLEAN
    /\ cachedMedia \in SUBSET Media
    /\ standbyThread \in {"none", "loop", "emitting", "returning"}
    /\ standbyTo \in SUBSET Viewers
    /\ closer \in {"open", "ending", "terminating", "done"}
    /\ closeTo \in SUBSET Viewers
    /\ closeTarget \in 0 .. MaxGeneration

\* Two helpers of one camera are never alive together, and a live helper is
\* the one the session knows: a helper is forgotten only after process.wait().
OneHelper == \A g \in Generations : Alive(g) => process = g

\* A registered active viewer has a helper (alive or not yet cleaned up) that
\* is the one it acquired: the cleanup of a generation takes all its active
\* viewers with it, so that none is left behind or handed to the next one.
ActiveHasHelper ==
    \A v \in ActiveSubscribers : process # 0 /\ joined[v] = process

\* Nobody waits on a queue that no thread will feed or end, but for an end item
\* the queue has lost: an open viewer is registered, or a thread is about to put
\* the end item, or has put it.  The teardown of the pump and close() remove
\* subscriptions under the lock and put the end items after it.
OpenViewerHasFeed ==
    \A v \in Viewers : viewer[v] = "open" =>
        \/ v \in subscribers
        \/ v \in closeTo
        \/ \E g \in Generations : pump[g] = "ending" /\ v \in pumpTo[g]
        \/ END \in chunks[v] \/ LOST \in chunks[v]

\* An active viewer never decodes another stream: its queue is given media of the
\* generation it acquired, neither standby frames nor a preamble of an earlier
\* helper ("cached units are stale").
NoForeignMedia ==
    \A v \in ActiveViewers : chunks[v] \subseteq {joined[v], END, LOST}

\* The end of a helper is invisible to passive viewers: until close() they stay
\* registered and nobody puts an end item, whatever the pump tears down.
PassiveKept ==
    \A v \in PassiveViewers : viewer[v] = "open" /\ ~Closed =>
        v \in subscribers /\ {END, LOST} \cap chunks[v] = {}

\* What status() reports agrees with the helper: a state of the helper's life
\* exactly while there is one, and media only from a helper.
StateTracksHelper ==
    /\ process # 0 <=> state \in {"CONNECTED", "STREAMING", "STOPPING"}
    /\ mediaReady => process # 0

-----------------------------------------------------------------------------
(* The inductive invariant behind OneHelper, ActiveHasHelper,              *)
(* StateTracksHelper and the refinement: who owns _process, and since when.*)

\* A generation that was not started has neither helper nor pump.
FutureUntouched ==
    /\ process <= generation
    /\ \A g \in Generations :
          g > generation => helper[g] = "none" /\ pump[g] = "none"

\* The pump of the session's helper is in its reading loop, and no other is:
\* the section that leaves the loop is the one that sets _process to None.
PumpOwnsProcess ==
    /\ process # 0 => pump[process] \in {"reading", "delivering"}
    /\ \A g \in Generations :
          pump[g] \in {"reading", "delivering"} => process = g

RegisteredIsOpen ==
    \A v \in subscribers : viewer[v] \in {"open", "ended"}

\* All of it together: the session is in one of the states its lock protects.
SessionInv == FutureUntouched /\ PumpOwnsProcess /\ RegisteredIsOpen
              /\ OneHelper /\ ActiveHasHelper /\ StateTracksHelper

-----------------------------------------------------------------------------
(* The inductive invariant behind OpenViewerHasFeed, NoForeignMedia and    *)
(* PassiveKept: which queues a thread may still put into, and what.        *)

\* The cached units were taken from the helper that is running.
CacheIsCurrent == process # 0 => cachedMedia \subseteq {process}

\* A queue the pump has still to put into belongs to a subscription that was
\* handed out, and none is handed out twice; while the pump delivers media it
\* is one of the pump's generation, and the end items are for active viewers.
TargetsWereOpened ==
    \A g \in Generations : \A v \in pumpTo[g] :
        viewer[v] \in {"open", "ended", "closed"}
DeliversToItsOwn ==
    \A g \in Generations : \A v \in pumpTo[g] \cap ActiveViewers :
        pump[g] = "delivering" /\ viewer[v] = "open" => joined[v] = g
EndsActiveOnly ==
    \A g \in Generations : pump[g] = "ending" => pumpTo[g] \subseteq ActiveViewers

\* The snapshots of the standby thread and of close().
StandbyIsPassive == standbyTo \subseteq PassiveViewers
CloseEndsOnce == ~Closed => closeTo = {}

FeedInv == CacheIsCurrent /\ TargetsWereOpened /\ DeliversToItsOwn
           /\ EndsActiveOnly /\ StandbyIsPassive /\ CloseEndsOnce
           /\ OpenViewerHasFeed /\ NoForeignMedia /\ PassiveKept

-----------------------------------------------------------------------------
(* The session implements the shared stream it promises.                   *)

LiveHelpers == {g \in Generations : Alive(g)}

Shared == INSTANCE SharedStream WITH
            Viewers  <- ActiveViewers,
            session  <- process,
            started  <- generation,
            live     <- LiveHelpers,
            attached <- ActiveSubscribers,
            closed   <- Closed

\* Every step of acquire, release, the timers, the pump and close() is a step
\* of the shared stream or invisible to its users: one session at a time, no
\* viewer outlives it, none is attached after close().
ImplementsSharedStream == Shared!Spec

-----------------------------------------------------------------------------
(* Liveness, under Fairness.  There are finitely many viewers and          *)
(* generations and close() is for ever, so that []<>P says that whatever   *)
(* keeps P from holding comes to an end, whoever else comes and goes.      *)

\* A viewer whose helper died is not left hanging: its iteration ends, unless its
\* queue has lost the end item.
Hangs(v) == viewer[v] = "open" /\ ~Alive(joined[v]) /\ LOST \notin chunks[v]
DeadHelperEndsViewers == []<>(\A v \in ActiveViewers : ~Hangs(v))

\* A viewer that met a dead helper gets an answer, and not by the timeout of its
\* wait, however many helpers die in its way: the event cannot stay unset, nor
\* the retries go on for ever.  Only a live helper can keep it waiting, one that
\* started before the wait did.
Unanswered(v) == viewer[v] \in {"toWait", "waiting", "retrying"}
WaiterResolved == []<>(HelperAlive \/ \A v \in Viewers : ~Unanswered(v))

\* close() stops the helper and ends every viewer, passive ones too, but for one
\* whose queue has lost the end item.
Ended(v) == viewer[v] \in {"new", "closed"} \/ LOST \in chunks[v]
ShutdownCompletes ==
    []<>(Closed => LiveHelpers = {} /\ \A v \in Viewers : Ended(v))

\* A helper without an active viewer is stopped or gets a viewer again: no
\* order of releases, acquires and late timers loses the idle stop.
IdleHelperStops == []<>(process = 0 \/ ActiveSubscribers # {})

=============================================================================
