--------------------------- MODULE HomeAssistant ---------------------------
(***************************************************************************)
(* The Home Assistant integration (custom_components/okam) over the app:   *)
(* the config entries with their set-up (__init__.py, coordinator.py), the *)
(* flow in which a user adds or reconfigures one (config_flow.py,          *)
(* identity.py), and the camera entity with its pictures and the task that *)
(* watches a camera wake up (camera.py).  Everything runs in one event     *)
(* loop: a step is what happens between two awaits, with the request sent  *)
(* at its start answered by the app as it is then.  Home Assistant itself  *)
(* and the user are external.                                              *)
(***************************************************************************)
EXTENDS Application

CONSTANTS
    Slots,      \* bound: the config entries there may be
    References, \* what a user may type as the camera
    NoEntry,
    Scenes      \* the options the app may be given, its other viewers, the
                \* entries at the start, and whether there is a user or an
                \* entity's viewer

VARIABLES
    scene,
    entries,    \* per slot: NoEntry, or a config entry
    flow,       \* the flow in progress
    entity      \* per slot: what the camera entity of a loaded entry holds

haVars == <<appVars, scene, entries, flow, entity>>

\* uid, ref and unique are the entry's data; its set-up keeps the target in a
\* local variable, and is to run again when the data change meanwhile.
Entry(uid, ref, unique) ==
    [uid |-> uid, ref |-> ref, unique |-> unique,
     state |-> "setup", target |-> [uid |-> uid, ref |-> ref], again |-> FALSE]

\* The entries of a scene are about to be set up; what the account lists has UIDs.
ASSUME IntegrationAssumption ==
    /\ "picture" \in Active /\ NoEntry \notin Slots
    /\ \A s \in Scenes :
         /\ s.options \subseteq Configurations /\ s.guests \subseteq Active \cup Passive
         /\ DOMAIN s.entries = Slots
         /\ \A e \in Slots : s.entries[e] # NoEntry =>
              /\ s.entries[e] = Entry(s.entries[e].uid, s.entries[e].ref, s.entries[e].unique)
              /\ s.entries[e].uid # Blank
    /\ \A answer \in Answers : Enumerated(answer) # Failed =>
         \A i \in DOMAIN Enumerated(answer) : Enumerated(answer)[i].uid \notin {NoValue, Blank}

NoFlow == [step |-> "none", slot |-> NoEntry, uids |-> {}]
NoEntity == [published |-> "idle", shown |-> "none", asked |-> "none", last |-> FALSE,
             watcher |-> "off"]

HaInit ==
    /\ AppInit
    /\ scene \in Scenes /\ options \in scene.options
    /\ entries = scene.entries
    /\ flow = NoFlow
    /\ entity = [e \in Slots |-> NoEntity]

----------------------------------------------------------------------------
(* Requests to the app, and which of its cameras a text means.             *)

Devices == IF Up THEN DevicesAnswer ELSE Failed
Reaches(uid) == Up /\ Get(uid) # {}
Camera(uid)  == (CHOOSE b \in Get(uid) : TRUE).uid

\* The status request waits for the session, and gives up after 15 seconds.
StatusAnswered(uid) == Reaches(uid) /\ Unlocked(Camera(uid))

ByUid(devices, text)   == {d \in Range(devices) : Same(d.uid, text)}
ByAlias(devices, text) == {d \in Range(devices) : Same(d.alias, text)}
OnlyOne(devices)       == IF Len(devices) = 1 THEN Range(devices) ELSE {}

\* _resolve_camera_uid: a set of one, or of none or several for ConfigEntryNotReady.
Resolve_ExactCase(devices, of) ==
    IF of.uid # NoValue THEN {d \in Range(devices) : d.uid = of.uid} ELSE OnlyOne(devices)

Resolve_TakesTheOnlyOne(devices, of) ==
    IF ByUid(devices, of.uid) # {} THEN ByUid(devices, of.uid) ELSE OnlyOne(devices)

Resolve(devices, of) ==
    LET uids    == ByUid(devices, of.ref)
        matches == IF uids # {} THEN uids ELSE ByAlias(devices, of.ref)
    IN  CASE of.uid # NoValue -> ByUid(devices, of.uid)
          [] of.uid = NoValue /\ matches # {} -> matches
          [] OTHER -> OnlyOne(devices)

\* validated_from_devices: one camera, a choice to be made, or an error.
Validated(devices, text) ==
    LET uids == ByUid(devices, text) aliases == ByAlias(devices, text)
        One(found) == [is |-> "camera", uid |-> (CHOOSE d \in found : TRUE).uid]
    IN  CASE text \in {NoValue, Blank} ->
               IF Len(devices) = 1 THEN One(Range(devices)) ELSE [is |-> "choice"]
          [] text \notin {NoValue, Blank} /\ uids # {} ->
               IF Cardinality(uids) = 1 THEN One(uids) ELSE [is |-> "choice"]
          [] OTHER ->
               IF Cardinality(aliases) = 1 THEN One(aliases)
               ELSE [is |-> IF aliases = {} THEN "unknown" ELSE "ambiguous"]

----------------------------------------------------------------------------
(* async_setup_entry: the list of cameras, the configuration, the first    *)
(* refresh.  An OkamApiError ends it for good, ConfigEntryNotReady is      *)
(* tried again by Home Assistant.                                          *)

Present(e) == entries[e] # NoEntry
In(e, state) == Present(e) /\ entries[e].state = state
Unseen(e) == entity' = [entity EXCEPT ![e] = NoEntity]

Continues(e, state) == entries' = [entries EXCEPT ![e].state = state]

EndsAs(e, state) ==
    entries' = [entries EXCEPT ![e].state = IF entries[e].again THEN "setup" ELSE state,
                               ![e].again = FALSE]

\* What the entry says is read, and the list of cameras asked for.
BeginSetup(e) ==
    /\ In(e, "setup")
    /\ entries' = [entries EXCEPT ![e].state = "resolve",
                                  ![e].target = [uid |-> entries[e].uid, ref |-> entries[e].ref]]
    /\ UNCHANGED <<appVars, scene, flow, entity>>

\* The camera found is written into the entry's data.
ResolveCamera(e) ==
    /\ In(e, "resolve")
    /\ LET found == IF Devices = Failed THEN {} ELSE Resolve(Devices, entries[e].target)
       IN  IF Cardinality(found) = 1
           THEN LET uid == (CHOOSE d \in found : TRUE).uid
                IN  entries' = [entries EXCEPT ![e].state = "configure", ![e].uid = uid,
                                    ![e].ref = uid, ![e].target = [uid |-> uid, ref |-> uid]]
           ELSE EndsAs(e, IF Devices = Failed THEN "error" ELSE "retry")
    /\ UNCHANGED <<appVars, scene, flow, entity>>

\* Then the coordinator takes its camera from the entry's data.
ConfigureCamera(e) ==
    /\ In(e, "configure")
    /\ IF Reaches(entries[e].target.uid)
       THEN entries' = [entries EXCEPT ![e].state = "refresh",
                            ![e].target = [uid |-> entries[e].uid, ref |-> entries[e].ref]]
       ELSE EndsAs(e, "error")
    /\ UNCHANGED <<appVars, scene, flow, entity>>

FirstRefresh(e) ==
    /\ In(e, "refresh")
    /\ LET uid == entries[e].target.uid
       IN  \/ /\ StatusAnswered(uid)
              /\ EndsAs(e, "loaded")
              /\ entity' = [entity EXCEPT ![e] = [NoEntity EXCEPT
                                !.published = BridgeState(Camera(uid))]]
           \/ /\ ~StatusAnswered(uid)
              /\ EndsAs(e, "retry") /\ UNCHANGED entity
    /\ UNCHANGED <<appVars, scene, flow>>

Retry(e) ==
    /\ In(e, "retry")
    /\ Continues(e, "setup")
    /\ UNCHANGED <<appVars, scene, flow, entity>>

\* The user reloads the entry: the entity goes, and its watcher is cancelled.
Reload(e) ==
    /\ Present(e) /\ entries[e].state \in {"loaded", "retry", "error"}
    /\ Continues(e, "setup") /\ Unseen(e)
    /\ UNCHANGED <<appVars, scene, flow>>

Remove(e) ==
    /\ scene.user /\ Present(e) /\ entries[e].state \in {"loaded", "retry", "error"}
    /\ entries' = [entries EXCEPT ![e] = NoEntry] /\ Unseen(e)
    /\ flow' = IF flow.slot = e THEN NoFlow ELSE flow
    /\ UNCHANGED <<appVars, scene>>

HaRestarts ==
    /\ entries' = [e \in Slots |->
                     IF Present(e) THEN [entries[e] EXCEPT !.state = "setup", !.again = FALSE]
                     ELSE NoEntry]
    /\ flow' = NoFlow /\ entity' = [e \in Slots |-> NoEntity]
    /\ UNCHANGED <<appVars, scene>>

----------------------------------------------------------------------------
(* OkamConfigFlow.                                                         *)

\* The user step, or the reconfigure step of an entry.
OpenFlow(slot) ==
    /\ scene.user /\ flow.step = "none"
    /\ slot \in {NoEntry} \cup {e \in Slots : Present(e)}
    /\ flow' = [NoFlow EXCEPT !.step = "form", !.slot = slot]
    /\ UNCHANGED <<appVars, scene, entries, entity>>

Abandon ==
    /\ flow.step # "none"
    /\ flow' = NoFlow
    /\ UNCHANGED <<appVars, scene, entries, entity>>

Claims(entry, uid) == Same(IF entry.uid # NoValue THEN entry.uid ELSE entry.ref, uid)

\* Aborted when an entry has this camera in its data or as its unique id.
Create(uid) ==
    IF \E e \in Slots : Present(e) /\ (Claims(entries[e], uid) \/ Same(entries[e].unique, uid))
    THEN UNCHANGED entries
    ELSE \E e \in Slots :
            /\ ~Present(e)
            /\ entries' = [entries EXCEPT ![e] = Entry(uid, uid, uid)]

\* async_update_reload_and_abort: other data, the same unique id; the reload
\* waits for a set-up that is on its way.
Update(e, uid) ==
    LET busy == entries[e].state \in {"resolve", "configure", "refresh"}
    IN  /\ entries' = [entries EXCEPT ![e].uid = uid, ![e].ref = uid, ![e].again = busy,
                                      ![e].state = IF busy THEN @ ELSE "setup"]
        /\ Unseen(e)

Settled(uid) ==
    /\ flow' = NoFlow
    /\ IF flow.slot = NoEntry THEN Create(uid) /\ UNCHANGED entity ELSE Update(flow.slot, uid)

\* async_step_user and async_step_reconfigure; whatever is refused leaves the form.
Submit(text) ==
    /\ flow.step = "form" /\ Devices # Failed
    /\ LET answer == Validated(Devices, text)
       IN  \/ answer.is = "camera" /\ Settled(answer.uid)
           \/ /\ answer.is = "choice" \/ (answer.is = "ambiguous" /\ flow.slot # NoEntry)
              /\ flow' = [flow EXCEPT !.step = "camera", !.uids = {d.uid : d \in Range(Devices)}]
              /\ UNCHANGED <<entries, entity>>
    /\ UNCHANGED <<appVars, scene>>

\* async_step_camera and async_step_reconfigure_camera: the list shown may be
\* old, what was chosen from it is validated against a new one.
Choose_FromTheListShown(uid) ==
    /\ flow.step = "camera" /\ uid \in flow.uids
    /\ Settled(uid)
    /\ UNCHANGED <<appVars, scene>>

Choose(uid) ==
    /\ flow.step = "camera" /\ uid \in flow.uids /\ Devices # Failed
    /\ LET answer == Validated(Devices, uid)
       IN  answer.is = "camera" /\ Settled(answer.uid)
    /\ UNCHANGED <<appVars, scene>>

----------------------------------------------------------------------------
(* OkamCamera.  At most one picture of all entities is in the making       *)
(* (_snapshot_lock holds for one entity, the bound is that of the model).  *)

Loaded(e) == In(e, "loaded")
Uid(e) == entries[e].target.uid
See(e, what) == entity' = [entity EXCEPT ![e] = what]

\* _ensure_wake_watcher.
WithWatcher_Once(held) == [held EXCEPT !.watcher = IF @ = "off" THEN "on" ELSE @]

WithWatcher(held) == [held EXCEPT !.watcher = "on"]

\* The exception handler: the last picture, or the placeholder of a camera that wakes.
Excused(held) ==
    IF held.last THEN [held EXCEPT !.shown = "picture", !.asked = "none"]
    ELSE [WithWatcher(held) EXCEPT !.shown = "waking", !.asked = "none"]

\* async_camera_image up to the request for a snapshot.
AskPicture(e) ==
    /\ Loaded(e) /\ \A s \in Slots : entity[s].asked = "none"
    /\ LET held == entity[e] state == BridgeState(Camera(Uid(e)))
       IN  \/ ~StatusAnswered(Uid(e)) /\ See(e, Excused(held))
           \/ /\ StatusAnswered(Uid(e)) /\ state = "idle"
              /\ See(e, [held EXCEPT !.published = state, !.shown = "sleeping"])
           \/ /\ StatusAnswered(Uid(e)) /\ state = "waking"
              /\ See(e, [WithWatcher(held) EXCEPT !.published = state, !.shown = "waking"])
           \/ /\ StatusAnswered(Uid(e)) /\ state \in {"standby", "streaming"}
              /\ See(e, [held EXCEPT !.published = state, !.asked = state])
    /\ UNCHANGED <<appVars, scene, entries, flow>>

\* The snapshot request: an active viewer of the session (bridge.py _snapshot).
SnapshotBegins(e) ==
    /\ Loaded(e) /\ entity[e].asked \in {"standby", "streaming"}
    /\ Reaches(Uid(e)) /\ Request("picture", Uid(e))
    /\ See(e, [entity[e] EXCEPT !.asked = "snapshot"])
    /\ UNCHANGED <<scene, entries, flow>>

\* The picture comes while the helper streams; the viewer leaves.
SnapshotTaken(e) ==
    /\ Loaded(e) /\ entity[e].asked = "snapshot" /\ Reaches(Uid(e))
    /\ helper[Camera(Uid(e))] = "streaming"
    /\ Leave(Camera(Uid(e)), "picture")
    /\ See(e, [entity[e] EXCEPT !.asked = "none", !.shown = "picture", !.last = TRUE])
    /\ UNCHANGED <<scene, entries, flow>>

\* No answer, or an error: the app, the session or ffmpeg failed, or 90 seconds passed.
SnapshotFails(e) ==
    /\ Loaded(e) /\ entity[e].asked \in {"standby", "streaming", "snapshot"}
    /\ See(e, Excused(entity[e]))
    /\ UNCHANGED <<appVars, scene, entries, flow>>

\* One round of _async_watch_until_streaming, and its end after 90 seconds.
Poll(e) ==
    /\ Loaded(e) /\ entity[e].watcher = "on" /\ StatusAnswered(Uid(e))
    /\ LET state == BridgeState(Camera(Uid(e)))
       IN  See(e, [entity[e] EXCEPT !.published = state,
                      !.watcher = IF state = "streaming" THEN "done" ELSE @])
    /\ UNCHANGED <<appVars, scene, entries, flow>>

WatchEnds(e) ==
    /\ Loaded(e) /\ entity[e].watcher = "on"
    /\ See(e, [entity[e] EXCEPT !.watcher = "over"])
    /\ UNCHANGED <<appVars, scene, entries, flow>>

\* stream_source; the stream itself is a viewer like the others.
StreamSource(e) ==
    /\ Loaded(e)
    /\ See(e, WithWatcher(entity[e]))
    /\ UNCHANGED <<appVars, scene, entries, flow>>

----------------------------------------------------------------------------
SetupStep(e) == BeginSetup(e) \/ ResolveCamera(e) \/ ConfigureCamera(e) \/ FirstRefresh(e)

EntityStep(e) == \/ AskPicture(e) \/ SnapshotBegins(e) \/ SnapshotTaken(e) \/ SnapshotFails(e)
                 \/ Poll(e) \/ WatchEnds(e) \/ StreamSource(e)

FlowStep == \/ \E slot \in Slots \cup {NoEntry} : OpenFlow(slot)
            \/ \E text \in References : Submit(text)
            \/ \E uid \in Cameras : Choose(uid)
            \/ Abandon

HaNext ==
    \/ AppStep(scene.guests) /\ options' \in scene.options
       /\ UNCHANGED <<scene, entries, flow, entity>>
    \/ \E e \in Slots : SetupStep(e) \/ Retry(e) \/ Reload(e) \/ Remove(e)
    \/ scene.watched /\ \E e \in Slots : EntityStep(e)
    \/ FlowStep \/ HaRestarts

\* Home Assistant goes on with a set-up and repeats one that was not ready.
HaFairness == AppFairness /\ \A e \in Slots : WF_haVars(SetupStep(e)) /\ WF_haVars(Retry(e))

HaSpec == HaInit /\ [][HaNext]_haVars /\ HaFairness

----------------------------------------------------------------------------
(* Properties.                                                             *)

\* An entry that knows its camera stands for that camera until its user chooses
\* another one, through restarts of the app that register the cameras one by
\* one, or some of them only.  The exception is a set-up that began before the
\* user's choice and writes what it resolved over it (_resolve_camera_uid).
EntryKeepsItsCamera ==
    [][\A e \in Slots :
         (/\ entries[e] # NoEntry /\ entries'[e] # NoEntry
          /\ entries[e].uid # NoValue /\ ~Same(entries'[e].uid, entries[e].uid))
         => \/ flow.slot = e /\ flow' = NoFlow
            \/ In(e, "resolve") /\ entries[e].uid # entries[e].target.uid]_haVars

\* The camera a flow stores is one the bridge serves at that moment, however
\* old the list was from which it was chosen (_validate).
StoredCameraIsServed ==
    [][(flow.step # "none" /\ entries' # entries) =>
         \A e \in Slots : (/\ entries'[e] # NoEntry
                           /\ entries[e] = NoEntry \/ entries'[e].uid # entries[e].uid
                           /\ entries[e] = NoEntry \/ flow.slot = e)
             => Reaches(entries'[e].uid)]_haVars

\* An entry whose camera the bridge serves for good is loaded in the end, when
\* nobody but Home Assistant's own set-ups and retries changes it any more and
\* they do not end in an error (async_setup_entry, ConfigEntryNotReady).
Served(e) ==
    /\ Present(e) /\ entries[e].uid # NoValue
    /\ \E i \in DOMAIN bridges : Same(bridges[i].uid, entries[e].uid)
                               /\ Up /\ Unlocked(bridges[i].uid)
EntryComesUp ==
    \A e \in Slots : (/\ <>[](Served(e) /\ ~In(e, "error"))
                      /\ <>[][SetupStep(e) \/ Retry(e)]_(entries[e]))
                     => <>[]Loaded(e)

\* A picture that says the camera wakes up is not the last word: somebody
\* watches the camera, or did so for 90 seconds, or another state was
\* published since (OkamCamera._ensure_wake_watcher, through several wakings).
WakingIsWatched ==
    \A e \in Slots : (entity[e].shown = "waking" /\ entity[e].published = "waking")
        => entity[e].watcher \in {"on", "over"}

\* A picture of a sleeping camera does not wake it: a helper that a picture
\* starts was streaming when its state was asked (README "Daily use").
SleepingCameraSleepsOn ==
    [][\A e \in Slots : entity'[e].asked = "snapshot" /\ entity[e].asked = "standby"
         => starter' = starter]_haVars
=============================================================================
