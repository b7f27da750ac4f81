# A TLA+ model of the O-KAM native bridge

The bridge lets Home Assistant and other consumers watch O-KAM battery cameras.
For every camera it runs at most one *helper* process, which speaks the camera's
peer-to-peer protocol (CS2) and writes H.264 to its standard output, and shares
that stream between any number of viewers. This directory holds the TLA+
modules that model the program, the TLC configurations that check them and the
proofs TLAPS checks. All paths below are relative to the repository.

## Inventory

| Component | State it keeps | Operations | What is hard |
|---|---|---|---|
| Shared stream session (`src/okam_native/session.py`) | helper process, subscribers, idle timer, cached parameter sets and keyframe, reported state, event of the teardown, standby thread, closed flag | `acquire`, `release`, idle timer, `_start_locked`, `_pump`, `_standby_loop`, `close`, `status`, `snapshot` | five kinds of thread under one lock, with puts, signals and waits outside it |
| Subscription queue (`session.py`) | bounded queue, closed flag | `_put_chunk`, iteration, `close` | several producers and a consumer at a full queue |
| CS2 reliable channel (`src/okam_native/cs2.py`) | next expected and kept packets per channel; packets sent and not acknowledged | `_handle_data`; `write`, `_handle_ack`, `_retransmit` | loss, duplication, reordering, wrap-around, timeouts |
| CS2 connection (`cs2.py`) | peer, relay, endpoints to say goodbye to | `connect`, `close` | candidates answering in any order |
| CS2 codec (`cs2.py`) | none | encryption, packets, commands, frame scanning | byte boundaries |
| Helper, amd64 (`src/okam_native/amd64_helper.py`) and arm64 (`native/hybris_connect`) | stage, running flag, result | connect, log in, start, stream, stop | signals and late answers against blocking reads |
| Helper processes and probes (`src/okam_native/p2p.py`) | none | start a helper, wait for its login event | timeouts against late events |
| Credential selection (`src/okam_native/auth.py`) | cache of the source that worked, on disk too; a lock per camera | `authenticate`, `authenticate_resource` | stale cache, failed writes, restarts |
| Account and selection (`src/okam_native/account.py`) | none | enumerate, select, normalise | identifiers that differ in case only |
| HTTP API and registry (`src/okam_native/bridge.py`) | registry, tokens | device list, status, snapshot, raw and muxed stream | a client that goes away at any point |
| RTSP server (`src/okam_native/rtsp.py`) | per connection: subscription, stream thread, stop event | requests, stream thread, packetizer | handler and stream thread share the subscription |
| Cloud wake (`src/okam_native/wakeup.py`) | none | two exchanges in parallel | partial failure |
| ARP listener (`src/okam_native/arp_listener.py`) | routes, socket, thread | start, run, close | a thread that waits for a session when the app stops |
| Entry point (`okam_native_app/app_entrypoint.py`) | status, registry, listener | start, register cameras, status, shutdown | servers are up while cameras are registered and closed one by one |
| Home Assistant integration (`custom_components/okam`) | config entries; last image, published state, wake watcher | set-up and retry, flows, image, stream source, watcher | what an await returned is old when it is used |

A viewer of the HTTP API or of an RTSP connection calls `acquire` and iterates
over the subscription it gets. An *active* viewer starts the helper; a *passive*
one (RTSP of a battery camera) never does and is fed placeholder frames by the
standby thread until an active viewer comes. The session's starter wakes the
camera and runs the credential selection, which runs
`open_authenticated_stream_process` for one candidate after another; the helper
process runs the CS2 connection. The entry point makes one session per camera
of the account and registers it while the servers already answer. The
integration reads the list of cameras from the HTTP API, and its pictures and
streams are viewers like the others.

What makes each component correct:

* session: one helper at a time; a viewer of a dead helper is ended;
  no media of another helper; the helper stops when unused and at shutdown;
  passive viewers survive helpers;
* queue: bounded, in order, and ended by `close`;
* reliable channel: an exact prefix is delivered, all of it in the end; what was
  acknowledged is kept if there is room, and what counts as sent was received;
* helper: what it reports is true, answers go to their commands, a stream is
  called off, and a stop signal ends it;
* start of a stream: a rejected credential is never reported as working, the
  cache never names a source that did not work, no helper is left behind, and
  every start ends;
* RTSP and HTTP consumers: every subscription acquired is closed;
* application: each name and address leads to its own camera, one camera's
  failure is its own, the shutdown ends and leaves no helper;
* integration: an entry keeps its camera and comes back after restarts, a
  picture does not wake a sleeping camera, and one that says "waking" is followed up.

The hazards behind these, at their lines, are the `hazards` of `PROJECT.json`.

## Modules

| Module | Models | Kind |
|---|---|---|
| `SharedStream` | what the session promises its active viewers | abstract specification |
| `StreamSession` | `NativeStreamSession` with all its threads | detailed specification |
| `MCStreamSession` | symmetry for the runs of `StreamSession` | model checking |
| `StreamSessionProofs` | theorems about `StreamSession` | proofs |
| `SubscriptionQueue` | one subscription queue, call by call | specification |
| `SubscriptionQueueProofs` | theorems about `SubscriptionQueue` | proofs |
| `DrwReceiver` | `CS2Session._handle_data` with camera and network | specification |
| `DrwReceiverProofs` | theorems about `DrwReceiver` | proofs |
| `HelperProcess` | the amd64 helper from connection to exit over `write`, `_handle_ack`, `_retransmit` and the readers of answers | specification |
| `HelperProcessProofs` | theorems about `HelperProcess` | proofs |
| `StreamStart` | wake request, credential selection, its cache, and the helper's start | specification |
| `MCStreamStart` | accounts and passwords for the runs of `StreamStart` | model checking |
| `StreamStartProofs` | theorems about `StreamStart` | proofs |
| `CS2Connect` | `CS2Session.connect` and `close` | specification |
| `CS2ConnectProofs` | theorems about `CS2Connect` | proofs |
| `StreamConsumers` | one RTSP or HTTP connection that holds a subscription | specification |
| `StreamConsumersProofs` | theorems about `StreamConsumers` | proofs |
| `CameraConfig` | account answers and options to the list of cameras | operators |
| `Application` | the app: start, registry, servers, ARP listener, shutdown, restart; one session per camera | specification, EXTENDS `CameraConfig` |
| `MCApplication` | options and account answers for the run of `Application` | model checking |
| `HomeAssistant` | config entries, flow, camera entity | composition, EXTENDS `Application` |
| `MCHomeAssistant` | scenes for the runs of `HomeAssistant` | model checking |
| `ApplicationProofs` | theorems about `Application` and `HomeAssistant` | proofs, EXTENDS `HomeAssistant` |

An operator with a suffix (`StartHelper_KeepsUnits`) is a faulty variant of the
operator it stands before. No action uses it. It records a mistake the property
named beside it in `PROJECT.json` would catch.

### StreamSession

*State.* The Python attributes keep their names (`generation` is
`_session_generation`, `process` is the generation of `_process`, 0 for None).
`helper[g]` is the process of generation g: running, signalled, exited, and
drained once its pipe is empty. `pump[g]` and `pumpTo[g]` are where the pump
thread of g is and the queues it still has to put into. `timer[v]` is the
`threading.Timer` armed by the release of v, which may have fired and wait for
the lock; `idleTimer` is the reference the session holds. `closer`, `closeTo` and
`closeTarget` are the thread inside `close()`.

*Steps.* Each `with self._lock` block is one action. What a thread does outside
the lock is a step of its own, one per queue for deliveries: `PumpDeliver`,
`PumpEnd`, `StandbyEmit`, `CloseEnd`, `TerminateIdle`, `CloseTerminate`. The
starter runs under the lock, so acquire and start are one action (`AcquireStart`
or `AcquireStartFails`). A viewer that meets a dead helper leaves the lock
(`AcquireMeetsDead`) and waits for the event in a step of its own (`AcquireWait`), before
which the teardown may have set the event and another viewer's start cleared it again. The
teardown of a helper is four steps: `PumpCleanup`
under the lock, then `PumpEnd` for each viewer, `PumpEnsureStandby`, `PumpSignal`;
viewers, timers and `close()` move between them.

*Abstractions.* A subscription is used once, so a client that comes back is
another viewer. A queue is the set of kinds of item it was given: media of a
generation, a placeholder frame, the end item. That is what the properties tell
apart; order and the bound are the subject of `SubscriptionQueue`. `AfterPut` has the
outcomes of `_put_chunk`: the item is put, or dropped at a full queue, or the head, which
may be an end item, is evicted for it. Any queue that has been given something may be full.
`LOST` records that an end item was lost, which no thread makes good (Known limits): the
properties about end items except viewers to whom that happened and hold for all others.
`_note_media` either keeps the cached units or replaces them by units of this
generation. `snapshot()` is the life of an active viewer. `status()` is the
variables it reads; its summary of the helper's stderr is left out.

*Fairness.* The threads run: pump deliveries and teardown, timers, standby and
close threads. A consumer reads to the end item and closes after it, and a viewer
that met a dead helper waits and retries when woken. A signalled helper exits, because `_terminate` kills
it after ten seconds. Nothing is assumed of the outside: nobody has to acquire,
leave or close, and a helper need not send or exit by itself. The timeouts of
waits are steps without fairness, so that no property holds because a wait gave
up. Viewers and generations are finite and `close()` is for ever, so the liveness
properties are of the form []<>P: whatever keeps P from holding comes to an end.
`WaiterResolved` lets a viewer wait while a helper is alive, since its event may have been
cleared by that helper's start.

*Deadlock.* `Finished` stutters when every subscription is over and the session
closed; every other state without a successor would be reported.

### SubscriptionQueue

The pump, the thread in the session's `close()`, the thread that closes the
subscription and the consumer work on one `queue.Queue`. `_put_chunk` is up to
three steps (`PutNowait`, `Evict`, `PutAgain`), since each call of the queue is
atomic and the three together are not. The consumer is two steps, the check of
the flag and the blocking `get`. Putters and consumer run; nobody has to close.

### DrwReceiver

The camera sends a stream packet by packet, repeats what was not acknowledged,
and runs ahead of its oldest unacknowledged packet by less than `CameraWindow`, which may
be more than the receiver keeps. The network is a set of
packets, any of which may be lost, taken more than once or in any order, and
forgets what is older than `MaxAge` packets: without such a bound a number that
is used again cannot be told from its first use. `HandleData` is `_handle_data`:
acknowledge, then deliver with what follows, keep, or drop. A packet that is dropped
for want of room is acknowledged all the same: `missed` remembers it until a copy of it
that was still under way finds room. When the numbers have come half way round since,
no copy is left and it is `Gone`. Camera and network are external.

### HelperProcess

*State.* `stage` is where `run()` of `amd64_helper.py` is, `facts` what its result
dictionary says, `running` the flag `_stop` clears. `sent` are the commands in the
order of their packet numbers, `pending` the packets not acknowledged with their
attempts, `writing` the packet `write()` waits for. `channel` is what channel 0
holds of answers, in two parts each, since `read_command` takes header and body in
two reads. `got`, `done`, `verdict` and `due` are the camera's.

*Steps.* A command is written (`BeginWrite`), repeated round by round (`Retransmit`),
acknowledged (`HandleAck`), given up after too many attempts (`GiveUp`, in whatever
write or read is under way) or after the deadline (`WriteTimeout`, which leaves the
packet pending). Answers are read header first; one to another command, or without a result, is skipped.
`Rescue` is the `except` branch, which calls a started stream off once more before
the close. `Terminate` is SIGTERM, fatal until the handlers are installed after the
live-start answer, a cleared flag from then on; `Kill` may come at any time.

*Network and camera* are external. The network hands a packet or an
acknowledgement over never, late or again; the camera obeys its commands in order,
answers or not, hangs up when it wants; the host's network may go.

*Abstractions.* One command is one packet, so numbers do not wrap in a run of the
helper. A frame is read in one step; that of another codec is passed over. Time is
the rounds of a write; every other timeout may come at any point of its wait.

*Fairness.* `WF(Helper)`: the helper's thread runs, and every wait of it is timed.
Nothing is assumed of camera, network and parent.

### StreamStart

*State.* `asking` are the ports the wake request still waits for. `account` is what `configure_bridge` made the candidates from; it is read
at start-up and stays. `cache` is the entry of this camera in
`CredentialSourceCache._values`, `disk` the entry in its file. `pc` says where
the start is: waking, before an attempt, waiting for the helper's `event`,
waiting for its `exit`, deciding, or gone with the process (`streaming`).
`helper` is the stage of the helper process. `proven`, `refused` and `trust` are
history: what the camera accepted, what it refused in this selection, and
whether anything has changed since it accepted the cached source.

*Steps.* `StartStream`, `PortEnds` and `WakeOver` are the wake request: the two
exchanges of `wake_camera` run in parallel and end in any order and with any
outcome, and an error of both is reported and does not end the start. A start
from the ARP listener goes without it. Every return and raise of `open_authenticated_stream_process` is an
action. A save of the cache reaches the file or not (`_save_locked` returns
False); a save for another camera writes this camera's entry too, since the cache
is one file. `Restart` stops the program at any point and reads file and account
again. The two helpers differ in two places: arm64 reports a connection that
failed, amd64 goes on to the livestream request after a login that was not
accepted.

*Abstractions.* One camera and one selection at a time, because the starter runs
under the lock of the session. Identifiers are compared up to case. The
messages of the wake exchange and the states it reads, which nobody uses, are
left out. A helper that is leaving is assumed
to leave within the ten seconds its parent waits.

*Fairness.* The parent's thread runs, its waits, those for the wake service too,
time out, and a helper that
is leaving leaves. A helper need not connect, log in or report, and a start need
not be asked for.

### CS2Connect

*State.* `endpoints`, `relays`, `relayPort` and `request` are the local variables
of `connect`, `closeTargets` and `peer` attributes of the session.

*Steps.* The four repeated sends of the loop are the `Tick` actions; each branch
on a received packet is an action with every send it makes. Directory, relays
and camera are external: what is sent puts its answer in `inbox`,
from where it may be lost, taken in any order, or taken twice. A branch checks what the
code checks: relay lists and camera addresses come from the directory, answers to hello
and port request from a relay it named. A rendezvous may name any endpoint; `RelayTo`, which
names up to two, comes from anybody and unasked (`cs2.py:451`); and whoever then says that it
is ready becomes the peer, the relay that was asked or another (`cs2.py:504`). The camera may
also punch and report readiness by itself at any time. `Close` stands for the
deadline, a send that fails (the helper then calls `close`), the peer's goodbye
and the helper's end.

*Abstractions.* One directory server; a list of relays arrives relay by relay; a
request is identified by the relay whose port it names. `f141` stands for `f142` too, which
does the same to the state. Packets of a wrong length
change nothing and are left out. The control packets `_pump` answers once
connected change no state of the session.

*Fairness.* The loop repeats its sends, and of a relay's or the directory's answer
that is sent again and again some copy arrives. The camera owes nothing.

### StreamConsumers

*State.* One connection, of one `kind`. `handler` is where its thread is, `then` what
that thread does after the write under way; `worker` is the stream thread of RTSP
or the thread that feeds ffmpeg, which iterate over the subscription alike. `ref`
is `_subscription`, `open` how many subscriptions are acquired and not closed, and
the two differ for a moment in the handler's `finally`. `muxer`, `input` and `output`
are ffmpeg and its two pipes, which hold one chunk each, so that a client that does
not read stops the whole chain behind it.

*Steps.* A write to the client is a step that succeeds or fails. The first write
after the client's FIN succeeds and draws a reset, the next one fails. A client
that stalls blocks a write: RTSP sockets have a timeout of a second, HTTP sockets
none. A message of RTSP is written under `_write_lock`, which is taken in a step of
its own.

*Abstractions.* Requests name one camera. Requests that only answer are
`OtherRequest`; over HTTP only the two stream requests are modelled. One access
unit is sent per chunk. The session is what the subscription shows of it: media,
silence, or the end item after the last chunk. Waits for the other thread
(`Join`) may give up at any time, as they have a timeout.

*Fairness.* The threads and ffmpeg run, and neither thread of an RTSP connection
loses the race for the lock for ever. Media that goes on completes access units and
makes ffmpeg write. Clients and helper owe nothing.

`EndOfStreamEndsConnection` and `DepartureReleases` are what `StreamSession` assumes
of a consumer when it is fair to `Close`.

### CameraConfig and Application

*Operators.* `CameraConfig` translates `account.py` and the account part of the
entry point: `Enumerated` the three requests of `Eye4AccountClient.enumerate`,
`NormalizeConfigurations` and `Legacy` the options of today and of older versions,
`Selections` the cameras to serve. `Failed` is any `AccountError`. `Fold` is
`casefold()`, so that identifiers differing in case only can be told from different
ones.

*State.* `main` is where `main()` is, `status` the fields of `STATUS` other requests
read, `bridges` the registry, `routes` and `arp` the ARP listener's map and thread.
Per camera `helper`, `starter`, `viewers`, `timer` and `closed` are what
`StreamSession` shows of a session: shared by its viewers, started under its lock,
ended as a whole, closed for good. `helper = "starting"` is the lock held by the
starter. `unlucky` is history: the cameras whose own set-up failed.

*Steps.* The start is one action per phase (`LoadRuntime`, `EnumerateAccount`,
`InitializeCamera` per camera, `StartListener`), the shutdown likewise
(`StopListener`, `Joined`, `CloseSession` per camera, `Exit`). Viewers find cameras
by alias or UID from the first moment on. An ARP frame is `ArpRequest`, its callback
`ArpAcquire` and `ArpRelease`, which wait for the session. `Restart` is the
supervisor's.

`options` are read again at every restart, which may find others.

*Abstractions.* A text stands for what `strip()` leaves of it, but for passwords, which
are not stripped. The account service
answers with one of `Answers`. Join waits two seconds: `Joined` may come before the
thread ends.

*Fairness.* main runs; a starter ends, since all its waits are timed
(`StreamStart.StartEnds`); `CloseSession` is strongly fair, since the lock it takes is
free again and again. Nothing is assumed of viewers, cameras and packets.

### HomeAssistant

*State.* An entry has its stored camera (`uid`, `ref`), its `unique` id, the `state` of
its set-up, and in `target` what the running set-up read before its last await.
`flow` is the one flow in progress with the list it showed. `entity` is the camera
entity: state `published`, picture `shown`, request `asked`, whether it has a `last`
picture, and its wake `watcher`.

*Steps.* Everything runs in one event loop, so a step is what happens between two
awaits; the request sent there is answered by the app as it then is. The set-up is
three requests (`ResolveCamera`, `ConfigureCamera`, `FirstRefresh`), a picture two
(`AskPicture`, `SnapshotBegins`). Home Assistant restarts at any time, the user adds,
changes, reloads and removes entries.

*Abstractions.* The run combines two scenes, an entity beside live and passive viewers
and a user with entries of several ages, since their product adds states and no
interaction: pictures use the entry's camera, flows only its data. Each scene names the
options the app may start and restart with. One picture is in
the making at a time, as `_snapshot_lock` has it for one entity. The stream a
`stream_source` leads to is a viewer of the app.

*Fairness.* Home Assistant goes on with a set-up and repeats one that was not ready
(`WF`), over the fairness of `Application`.

## Runs

| Run | Instance | States | Shows |
|---|---|---|---|
| `stream_safety` | 2 active, 1 passive, 2 generations, placeholder | 4.1 M | the safety invariants in every interleaving; `SharedStream` is implemented |
| `stream_live` | 3 active, 3 generations, from the teardown of the first viewer's helper | 230 K | viewers of a dead helper end, waiters are answered, an unused helper stops, `close()` stops and ends everything |
| `stream_passive_holds_helper` | 1 active, 1 passive | violation | a passive viewer cancels the idle stop for good |
| `queue` | 3 places, 6 chunks | 19 K | bounded, ordered, ended by `close` |
| `drw_receive` | 8 numbers, a stream of 12, 2 kept, window 4 | 757 K | exact prefix, acknowledged packets are held and all is delivered, up to packets without room |
| `helper_process` | a write of 2 rounds, 4 attempts | 129 K | reports are true, answers are attributed, streams are called off, a stop signal ends the helper |
| `stream_start` | 7 accounts, 4 passwords, both helpers, 2 wake ports, one change of password, one restart | 432 K | what starts try, report, remember and leave behind, and that they end |
| `cs2_connect` | 1 camera endpoint, 2 relays, both modes | 197 K | the negotiation ends while relays answer, relays are not mixed |
| `consumers` | the three kinds of connection, 2 pipelined requests | 6.7 K | every way out but one closes the subscription, departures are noticed, the end of a stream ends the connection |
| `application` | 3 UIDs, two of which differ in case only, 10 configurations, 4 account answers, an HTTP, an RTSP and the ARP viewer, one restart | 72 K | addresses, an honest start, a shutdown that ends and leaves no helper |
| `integration` | 2 cameras, 1 entry, 4 scenes with two sets of options each, one restart of the app, any of Home Assistant | 240 K | entries keep their camera and come up, flows store served cameras, a waking picture is followed up |
| `integration_picture_wakes` | the same | violation | a picture of a camera in standby wakes it |

*Bounds.* Two generations are what it takes for the teardown of one helper to
overlap the life of the next; two active viewers are what it takes for one to
join, leave or come back while the other's helper, timer or teardown is under
way, and a passive one shares their table. Generations are
bounded in the guard `NeedsHelper`. `stream_live` begins where the idle timer has stopped the
first helper and the pump has not cleaned up (`LateInit`, a state the session comes to after
one viewer came and left). Two viewers that come then are what it takes for one to meet the
dead helper, another to start the next before the first waits, and that helper to be dead
at the retry; the two generations left are as many as the two viewers can start.
The queue has three places so that two producers can fill it around a consumer;
the sequence numbers run over eight so that a stream wraps within the run, with a camera
that may send one packet more than are expected and kept, so that packets are acknowledged
without room, found again, or gone when the numbers return. In
`helper_process` a packet is repeated for twice as many rounds as its write waits,
as in the code (20 and 10), so that a packet given up on by its write is repeated by
later reads. The
accounts of `StreamStart` have every kind of password for the camera and two
other devices that share it, share one, or differ; one change of the camera's
password and one restart, at any point, make a source stale in memory or on disk. Two relays are
what it takes for their answers to be mixed. Two pipelined requests are what it
takes for PLAY to be followed by another request in the same buffer, which the
handler takes without looking at the event. The configurations of `application` are
one of each kind normalisation tells apart: none, aliases, a shared address with
and without a mains camera, an alias that is another's UID, older options with one
and two UIDs, no account, no token, a rejected idle timeout; its account answers with
cameras in another order, twice, without a name, or not at all. One restart is what it
takes for an entry or a flow to have seen another list of cameras.

`CHECK_DEADLOCK FALSE` stands where the program may stop: a helper that has exited,
an app that has stopped and is not started again.

The two violated properties are sentences of documents, quoted under
`findings` in `PROJECT.json` with the trace. Both are mistakes of the code:

* `IdleHelperStops`: `acquire` cancels the idle timer for a passive viewer too
  (`session.py:154`), and only the release of an active one arms it, so a passive
  viewer that joins in the idle time keeps helper and camera running;
* `SleepingCameraSleepsOn`: `camera.py:87` takes only `idle` for a sleeping camera. With a
  passive consumer attached the state is `standby`, the picture goes on to a
  snapshot, and the snapshot is an active viewer.

## Known limits of the code

Met while modelling, and not checked by a run:

* An acquire that comes between the cleanup under the lock and the event
  (`session.py:541`, `562`) starts the next helper inside the teardown of the last one,
  which a comment (`session.py:149-151`) rules out. `OneHelper` holds all the same,
  since the old helper is gone by then; the late `set()` marks a teardown complete
  that has not begun, so that a viewer that meets the new helper dead retries
  without waiting.
* A client of the HTTP API that stops reading and stays connected holds its handler
  in a write without a timeout, and with it the subscription (`bridge.py:446`, `556`).
  `DepartureReleases` therefore speaks of stalled clients for RTSP only. A client
  that is gone is noticed over HTTP with the next media only, since nobody reads its
  socket.
* A frame of RTP whose write times out may be half sent, and replies to pipelined
  requests still follow it before the connection ends (`rtsp.py:309-324`).
* `_handle_data` acknowledges a packet it then has no room for (`cs2.py:645-659`). The
  camera does not repeat it, and unless a copy is still under way the channel stops; when
  the numbers have come round, a packet of the next round is delivered in its place. The
  window of a real camera is not in the repository; one of at most 65 packets avoids it.
  The properties of `DrwReceiver` except what comes behind such a packet and nothing else.
* A viewer that meets a dead helper leaves the lock before it waits (`session.py:181-182`).
  If the teardown sets the event and another viewer's start clears it (480) in between, it
  waits on a live helper it could join, and fails after 15 seconds with "native stream
  cleanup did not complete".
* `cancel()` has no effect on an idle timer that has fired. Its thread may wait
  for the lock while a viewer comes and goes, and then stops the helper at once
  instead of after a new idle time (`session.py:590-605`).
* The first relay that answers the hello is kept for the whole of `connect`
  (`cs2.py:424-427`). If it then never allocates a port, `connect` runs into its
  deadline while another relay would answer. `NegotiationEnds` assumes relays that
  go on answering.
* `close()` tells the peer, the camera endpoints the directory named, and who punched or
  said it is ready during `connect`. A comment (`cs2.py:559`) speaks of every endpoint the
  session touched: relays that answered hello or port request, the targets of a rendezvous,
  and ports from which `_pump` took and answered a readiness request later are not told.
  No property is about it, since whom `close()` tells is what each branch remembers.
* Whoever knows the camera's id and says it is a ready relay becomes the peer
  (`cs2.py:504-516`): it is not compared with the relay that was asked.
* `_put_chunk` may lose the new item instead of an old one: when another thread takes
  the place it evicted for, its second put fails and the exception is ignored
  (`session.py:629-636`). The end item can be lost so too; a consumer that `close()` of
  its subscription ends then meets the flag, but the one the pump or the session's
  `close()` ends waits for its client to leave. `StreamSession` has these outcomes (`LOST`).
* The standby thread is restarted only when it is not alive, and is alive for a moment
  after it decided to return (`session.py:262`): the passive viewer that comes in
  that moment gets no placeholder until the next helper ends.
* A starter holds the session's lock for the whole start, which may take minutes:
  `status()`, and with it the HTTP status of the camera, waits as long
  (`session.py:458`). `HomeAssistant` lets the requests fail meanwhile.
* The raw stream's headers are written before the `try` whose `finally` closes the
  subscription (`bridge.py:438`): a client that resets there leaves its viewer
  registered. `Released` excepts this way out.
* After a login that was not accepted the amd64 helper goes on to its livestream
  request, and the parent's ten seconds for the exit may pass (`p2p.py:767`): the
  selection then fails instead of trying the next candidate. `RefusalIsNotAFailure`
  therefore holds for arm64 only (theorem `Arm64ActsOnRefusal`).
* The helper's signal handlers are installed after the live-start answer
  (`amd64_helper.py:250`): a SIGTERM before that, the SIGKILL after ten seconds, and a
  live request whose write timed out although the camera has it, all end the helper
  without a stop request. `StreamIsCalledOff` speaks of the helper's own exits and of
  acknowledged requests.
* A picture is two requests (`camera.py:84-95`): a camera that streamed at the first and fell
  asleep before the second is woken by the snapshot. `SleepingCameraSleepsOn` is about the
  camera in standby only.
* `main` does not try a failed start again: the app stays up and reports the error
  (`app_entrypoint.py:819-829`).
* A reconfiguration during a set-up is overwritten by the camera the set-up resolved
  (`__init__.py:129`); `EntryKeepsItsCamera` excepts it.
* An `OkamApiError` in a set-up is not a `ConfigEntryNotReady`, so Home Assistant does not
  try again (`__init__.py:95`); `EntryComesUp` excepts entries that end so.
* A reference no camera has raises an uncaught `ValueError` in the flow
  (`config_flow.py:199`); `Submit` then changes nothing.
* An idle timeout changed through the API lives in the app's memory: a restart of the
  app brings back that of its options until the entry is set up again.

## Proofs

Every safety invariant and every action property a passing run checks is also a
theorem: the run shows it on its instance, the theorem for every value of the
constants. Assumptions on constants have names and stand in the module that declares
the constants, where the runs evaluate them too. Three theorems of `StreamStart` need a
hypothesis more, named below.

`StreamSessionProofs` proves for any sets of viewers and any number of
generations, from `ViewersAssumption` and `BoundsAssumption` only:

* `TypeCorrect`: `Spec => []TypeOK`;
* `NeverTwoHelpers`, `NoViewerLeftBehind`, `StateIsHonest`: `OneHelper`,
  `ActiveHasHelper` and `StateTracksHelper` always hold;
* `SessionRefinesSharedStream`: `Spec => ImplementsSharedStream`.

The argument is one inductive invariant, `SessionInv`, about who owns `_process`.
`OneHelper` alone is not inductive: a pump that reads a pipe of a helper the
session no longer knows could clean up a session that is not its own. So the
invariant says that a generation not started has neither helper nor pump
(`FutureUntouched`), that the pump in its reading loop is the pump of the
session's helper and the only one (`PumpOwnsProcess`), and that a registered
viewer is open or about to close (`RegisteredIsOpen`). Since only `PumpCleanup`
leaves the loop, sets `_process` to None and removes the active viewers, all in
one section and after `process.wait()`, the rest follows. The refinement needs
the invariant for the steps that look at the session: a start happens with
`process = 0` and a fresh generation, and `PumpCleanup` is the end of the shared
session with all its viewers. A lemma `StepShared` maps every action to a step of
`SharedStream` or to a stutter.

* `EndIsPutForEveryViewer`, `OnlyOwnMedia`, `PassiveViewersStay`: `OpenViewerHasFeed`,
  `NoForeignMedia` and `PassiveKept` always hold. The first says that the loss of an end item
  in a full queue is the only way to a viewer that waits for nothing.

These are about what threads do outside the lock, to queues of snapshots taken under
it. `FeedInv` says what each snapshot may still hold: the pump that delivers has
open viewers of its own generation only (`DeliversToItsOwn`), the one that ends has
active viewers only (`EndsActiveOnly`), the standby thread passive ones
(`StandbyIsPassive`), nobody is there who was not given a subscription
(`TargetsWereOpened`), and `close()` has a snapshot once the session is closed
(`CloseEndsOnce`). A newcomer is given cached units before its first delivery, so they
have to be of the helper it joins (`CacheIsCurrent`). That media of an old helper
never reach a viewer of the new one then follows from `PumpOwnsProcess`: only the pump of
the session's helper delivers.

`StreamStartProofs` proves for any accounts, passwords, kinds of helper, changes
and restarts:

* `NobodyLeftBehind`: `Spec => []NoHelperLeftBehind`;
* `CacheIsProven`: `Spec => []CacheNamesProvenSource`;
* `Arm64ActsOnRefusal`: with the arm64 helper a refused login never counts as a
  failure (`RefusalIsNotAFailure`);
* `StartTypes`: `Spec => []TypeOK`.

The invariant `StartInv` adds to the two properties that no helper lives while
its parent decides, and that an accepted event is about the candidate being tried,
which is why the source `Select` remembers is proven. `EventInv` follows what each
stage of the helper allows the event to be: an arm64 helper that goes on has been
accepted, so the wait for the exit never times out on a live one.

* `RejectedIsRefusedByAll`, `SecretsAreTriedOnce`: `RejectedMeansAllRefused` and
  `NoSecretTwice` always hold.

They depend on the list of candidates. Of the list `resolve_candidates` makes, the lemma
`ConfiguredList` proves that no two entries share a password, though the account's devices,
the configuration and the empty password may repeat one; of the list a selection starts with,
`OrderIsOrdered` proves that it is a rearrangement of the former with the cached source first.
`SelectionInv` says that the list of a selection under way holds exactly the candidates the
camera has not refused, each once (`ListInv`, where the head may just have been refused and
not been acted upon), and that "rejected" is said only when all were (`RefusedInv`). So
nothing is tried again and nothing is left out. `CountSecrets` turns that into the counts of
`NoSecretTwice`.

* `KnownIsTriedFirst`, `RefusedIsForgotten`: `KnownSourceGoesFirst` and
  `RefusedSourceIsForgotten`, by the invariant `KnownInv`, assuming `EachDeviceOnce`: an
  account lists no uid twice.

The cache names a source by its kind and uid. With two devices of one uid and two
passwords the name fits both candidates (lemma `Unique` fails), and the one tried first
need not be the one that worked. The cloud gives uids to devices and the code relies on it
without a check, so the hypothesis is about the service, not about the program. All accounts of
the run satisfy it. `KnownInv` says that the remembered candidate heads the list until it is
refused (`FirstInv`), and that a cache whose password the camera still has names a candidate with
that password (`TrustInv`, `TrustedInv`).

`CS2ConnectProofs` proves for any camera endpoints and relays, from
`ConnectAssumption`:

* `NeverMixed`: `OneRelayAtATime` always holds, whatever arrives from whom;
* `ConnectTypes`: `Spec => []TypeOK`, with a peer exactly while connected.

`relayPort` is set once and a request is made only of its answer. Nothing is proved about
who becomes the peer, because the code takes whoever says it is ready.

`StreamConsumersProofs` proves for any set of consumers, from `ConsumersAssumption`:

* `OneSubscription`, `EveryEndReleases`: `TypeOK`, with `open` at most 1, and
  `Released` always hold.

`ConsumersInv` says where a handler holds a subscription: in RTSP exactly while its
reference is set, but for the moment between `close()` and the assignment
(`RtspPart`), and over HTTP from acquire() to `finally` (`HttpPart`). `FlagsInv` is a
lemma of its own because truth values and arithmetic need different provers.

`SubscriptionQueueProofs` proves for any limit of at least three and any number of
chunks, from `QueueAssumption`:

* `QueueTypes`, `NeverOutOfOrder`: `TypeOK` and `ChunksInOrder` always hold.

`ChunksInOrder` is not inductive, since a put appends an item chosen some steps
before. `QueueInv` adds that only the pump puts chunks (`OnlyPumpPutsChunks`) and that
the chunk it is putting is newer than everything in the queue and than the last one
taken (`PumpPutsNewest`); evictions and takes only remove the head.

`DrwReceiverProofs` proves for any range of the sequence numbers, any buffer, any window of
the camera up to half the numbers and a stream of any length, from `DrwAssumption` only:

* `DeliveryIsAPrefix`, `OnlyTheLimitLoses`: `DeliveredInOrder` and `AckedIsHeld` always hold.

The receiver knows a packet by its number modulo `SeqMod` only. `DrwInv` says that whatever
may still arrive is at most half the numbers behind the newest (`Recent`), and that the
receiver is in step with the camera or behind a packet that is gone (`Derailed`). In step
(`InStep`), what is kept is ahead of what was delivered, under its own number (`Kept`), and
what is acknowledged was delivered, is kept, or found no room (`Held`). Two packets with one
number are then the same packet (`SameNumber`, from lemmas about `%` at the head of the
module), so `_handle_data` never takes an old packet for a new one, until the numbers have
come half way round (`~Close`), and then the packet it waits for is one that found no
room. Delivery takes a run of kept packets; the
length of that run is a least element, below.

`HelperProcessProofs` proves for any number of rounds and attempts, from
`HelperAssumption`:

* `HelperTypes`, `ReportsAreTrue`, `EndsCallOff`: `HelperTypeOK`, `SentMeansReceived` and
  `StreamIsCalledOff` always hold;
* `AnswersCount`: `AnswersAreAttributed` always holds.

`HelperInv` adds `WritePart` (a write waits for a packet that carries the command of its
stage, and that the camera has received once it is not pending any more) and
`StagePart` (what each stage has reported, sent and closed so far). The lemma `Reports` says which step may add a fact to the result, `Grown` that what is sent
and received is never taken back. `AnswerInv` is about the stages that read answers: headers
and bodies alternate in what is read, buffered and on its way (`AnswersInTurn`), so a
reader never takes a body for a header, whatever answers it skips; and the login is the first
command and the only one with a verdict (`OneLogin`).

`ApplicationProofs` proves for any cameras, viewers, options, account answers and
restarts, from the named assumptions of `Application`:

* `ShutdownLeavesNothing`: `NoHelperOutlivesMain` always holds. `AppInv` says that a helper
  runs for registered cameras only (`OnlyRegistered`), never on a closed session
  (`ClosedIsIdle`), and that the shutdown has closed the sessions before the one it is
  at (`ClosedSoFar`); the ARP thread may still be waiting to acquire, but only for a
  registered camera (`ArpIsRegistered`), which is closed by then;
* `AddressesAreOwn`: `AddressReachesOwner` always holds. No two bridges share a name
  (`Distinct`, kept by `MayAdd`), and each route belongs to the only battery camera with
  its address in the registry as it is (`RoutesAreOwn`), which no longer grows once the
  listener runs.

* `StartTellsTheTruth`: `StartupIsHonest` always holds. `HonestInv` says that every camera main
  is past has a bridge, or failed by itself, or could not have one (`Tried`), that a bridge in
  a camera's way is that camera's own (`OneBridgeEach`), and what the status says at
  each point of the start (`Told`). The lemma `SelectionsAreApart` is about normalisation: two
  cameras it returns are the same or share neither name nor alias, for any options.
  `FailedAssumption` is that an error is not an empty list.

The module goes on with the integration, over any app that `Application` allows:

* `WakingHasWatcher`: `WakingIsWatched` always holds, by `WatchInv`, which adds only the shape of
  an entity: a picture that says "waking" and the start of its watcher are one step;
* `EntriesKeepTheirCameras`, `StoredIsServed`: the action properties `EntryKeepsItsCamera` and
  `StoredCameraIsServed`. `EntryInv` says that cameras served and entries stored have a
  name (`RegistryNamed`, `EntriesNamed`), and that a flow is about an entry that is there
  (`FlowNamed`). What a set-up or a flow resolves is then a camera of the list it read, and of
  the UID the entry has if it has one (`ListedIsServed`, `ResolvedIsListed`,
  `ValidatedIsListed`), and `Effects` says of every step what it may do to an entry. `IntegrationAssumption` is that entries are about to be set up when a run begins and
  that a device without a UID is not listed, which `account.py:325` sees to.

*Least elements.* The library's induction theorems take an operator as a parameter, which the
provers cannot instantiate. Where an argument needs the first index of a kind (the first of
equal passwords, the run of kept packets, the first camera with a name), the proofs take
a least element of a set of numbers: `WFMin` of `WellFoundedInduction` takes a set, and the
lemmas `LeastElement` and `LeastIndex` apply it to the order of the naturals.

*Model-checked only.* All liveness, since fairness and ENABLED are out of the prover's reach:
`DeadHelperEndsViewers`, `WaiterResolved`, `IdleHelperStops`, `ShutdownCompletes`,
`CloseEndsConsumer`, `AllDelivered`, `StartEnds`, `NegotiationEnds`, `DepartureReleases`,
`EndOfStreamEndsConnection`, `StopSignalEndsHelper`, `ShutdownEnds`, `EntryComesUp`. The two
properties the code violates are refuted by their runs.

## Plan

Done, in this order: `StreamSession` with `SharedStream`, `SubscriptionQueue`,
`DrwReceiver`, `CS2Connect`, `StreamStart`, `StreamConsumers`, `HelperProcess`,
`CameraConfig` and `Application`, `HomeAssistant`, and the proofs above.

Left:

1. The contract `Application` and `StreamSession` assume of a starter as an abstract
   specification that `StreamStart` implements, with a proof.
2. Pure operators checked against references: access units, Annex-B splitting,
   RTP fragmentation.
3. Lemmas the liveness arguments would rest on (which step of a dead helper's teardown comes
   next, what is left of a shutdown), as far as they are safety.

## Not modelled

Byte layouts and encryption (`cs2.py`), the access-unit assembler and packetizer of
`rtsp.py`, HTTP lookups, authentication of requests, logging and redaction,
placeholder images, developer tools and the probes of the vendor library: they
have no state that several steps could bring out of order. The start-up probe and
its acceptance record run the selection of `StreamStart` once more and decide nothing.
`PROJECT.json` says for each component what of it is left out.
