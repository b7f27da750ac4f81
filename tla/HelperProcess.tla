--------------------------- MODULE HelperProcess ---------------------------
(***************************************************************************)
(* The amd64 helper that carries one stream (amd64_helper.run, mode        *)
(* stream-stdout with a forced candidate) over the sending half of channel *)
(* 0 of its CS2Session (cs2.py): write, _handle_ack, _retransmit and the   *)
(* readers of command answers.  Camera, network and the parent's signals   *)
(* belong to the environment.  A command fits one packet, whose number is  *)
(* its place in "sent".  The network keeps every packet and every          *)
(* acknowledgement: it hands one over never, late or repeatedly.  An       *)
(* operator with a suffix is a faulty variant that no action uses.         *)
(***************************************************************************)
EXTENDS Integers, Sequences, Functions

CONSTANTS
    WriteRounds,   \* rounds of RETRANSMIT_SECONDS a write waits (10 in the code)
    MaxAttempts    \* MAX_RETRANSMITS (20 in the code)

ASSUME HelperAssumption ==
    /\ WriteRounds \in Nat \ {0}
    /\ MaxAttempts \in Nat \ {0}

Nothing == "nothing"
Commands == {"login", "live", "stop"}
Part(c, k) == [of |-> c, part |-> k]
Parts == [of : Commands, part : {"header", "body"}]

VARIABLES
    stage,      \* where run() is
    facts,      \* what its result dictionary says, and how run() went
    half,       \* the command whose answer's header has been read, or Nothing
    running,    \* _running
    code,       \* how the process ended, "none" before
    sent,       \* the commands sent, in the order of their numbers
    pending,    \* _pending: from numbers to attempts
    writing,    \* the number write() waits for, 0 outside
    rounds,     \* rounds since the write began
    channel,    \* parts of answers in the buffer of channel 0
    closed,     \* session._closed
    goodbye,    \* a close packet was sent
    got, done,  \* camera: packets it has, and how many commands it has obeyed
    on,         \* camera: it streams
    verdict,    \* camera: its answer to the login
    due,        \* camera: parts of answers on their way
    hungUp,     \* the camera has ended the session
    broken,     \* the host's network is gone
    asked       \* the parent has sent SIGTERM

run    == <<stage, facts, half, running, code>>
link   == <<sent, pending, writing, rounds>>
ends   == <<closed, goodbye>>
camera == <<got, done, on, verdict, due, hungUp>>
world  == <<broken, asked>>
vars   == <<run, link, channel, ends, camera, world>>

Facts == {"connected", "authenticated", "started", "handlers", "media", "stopped",
          "misread", "failed"}

Init ==
    /\ stage = "connect" /\ facts = {} /\ half = Nothing
    /\ running = TRUE /\ code = "none"
    /\ sent = <<>> /\ pending = <<>> /\ writing = 0 /\ rounds = 0
    /\ channel = <<>> /\ closed = FALSE /\ goodbye = FALSE
    /\ got = {} /\ done = 0 /\ on = FALSE /\ verdict = "none" /\ due = <<>>
    /\ hungUp = FALSE /\ broken = FALSE /\ asked = FALSE

Alive   == stage # "exit"
Reading == stage \in {"loginAnswer", "liveAnswer"}
Pumping == writing > 0 \/ Reading \/ stage = "frames"
Numbers == 1 .. Len(sent)

----------------------------------------------------------------------------
(* How run() goes on.                                                      *)

\* The except branch: a stream that was started is called off once more.
Rescue_ForgetsStop == "close"
Rescue ==
    IF "started" \in facts /\ "stopped" \notin facts /\ stage # "lastStop"
    THEN "lastStop" ELSE "close"

Fail ==
    /\ stage' = Rescue
    /\ facts' = facts \cup {"failed"}
    /\ writing' = 0 /\ rounds' = 0 /\ half' = Nothing

\* The error that needs no other change.
Raise == Fail /\ UNCHANGED <<running, code, sent, pending, channel>>

ConnectionMade ==
    /\ stage = "connect"
    /\ stage' = "login"
    /\ facts' = facts \cup {"connected"}
    /\ UNCHANGED <<half, running, code, link, channel, ends, camera, world>>

\* connect() has closed the session before it raises.
ConnectionFails ==
    /\ stage = "connect"
    /\ Raise
    /\ closed' = TRUE /\ goodbye' = TRUE
    /\ UNCHANGED <<camera, world>>

Command == CASE stage = "login" -> "login"
             [] stage = "live"  -> "live"
             [] stage \in {"stop", "lastStop"} -> "stop"
             [] OTHER -> Nothing

\* write(): the packet is sent and kept until it is acknowledged.
BeginWrite ==
    /\ Command # Nothing /\ writing = 0 /\ ~closed /\ ~broken
    /\ sent' = Append(sent, Command)
    /\ writing' = Len(sent')
    /\ pending' = [i \in DOMAIN pending \cup {writing'} |->
                      IF i = writing' THEN 1 ELSE pending[i]]
    /\ UNCHANGED <<run, rounds, channel, ends, camera, world>>

\* _require_connected raises, or the first send does.
CannotWrite ==
    /\ Command # Nothing /\ writing = 0 /\ (closed \/ broken)
    /\ Raise
    /\ UNCHANGED <<ends, camera, world>>

StageAfter(c) == CASE c = "login" -> "loginAnswer"
              [] c = "live"  -> "liveAnswer"
              [] OTHER       -> "close"

Reported == CASE Command = "live" -> {"started"}
              [] Command = "stop" -> {"stopped"}
              [] OTHER            -> {}

\* Its packet is pending no more: write() returns.
Written ==
    /\ writing > 0 /\ writing \notin DOMAIN pending
    /\ stage' = StageAfter(Command)
    /\ facts' = facts \cup Reported
    /\ writing' = 0 /\ rounds' = 0
    /\ UNCHANGED <<half, running, code, sent, pending, channel, ends,
                   camera, world>>

WriteTimeout_Returns ==
    /\ writing \in DOMAIN pending /\ rounds >= WriteRounds
    /\ stage' = StageAfter(Command)
    /\ facts' = facts \cup Reported
    /\ writing' = 0 /\ rounds' = 0
    /\ UNCHANGED <<half, running, code, sent, pending, channel, ends, camera, world>>

\* The deadline passes; the packet stays in _pending.
WriteTimeout ==
    /\ writing \in DOMAIN pending /\ rounds >= WriteRounds
    /\ Raise
    /\ UNCHANGED <<ends, camera, world>>

Exhausted(i) == pending[i] >= MaxAttempts

\* _retransmit, one round: all is sent again.
Retransmit ==
    /\ Pumping /\ ~broken /\ DOMAIN pending # {}
    /\ writing > 0 => rounds < WriteRounds
    /\ \A i \in DOMAIN pending : ~Exhausted(i)
    /\ pending' = [i \in DOMAIN pending |-> pending[i] + 1]
    /\ rounds' = IF writing > 0 THEN rounds + 1 ELSE rounds
    /\ UNCHANGED <<run, sent, writing, channel, ends, camera, world>>

\* _retransmit, one packet too often: it is dropped and the pump raises, in
\* whatever write or read is under way.
GiveUp ==
    /\ Pumping /\ ~broken
    /\ \E i \in DOMAIN pending : /\ Exhausted(i)
                                 /\ pending' = Restrict(pending, DOMAIN pending \ {i})
    /\ Fail
    /\ UNCHANGED <<running, code, sent, channel, ends, camera, world>>

\* _pump: an acknowledgement, however late or often it comes.
HandleAck ==
    /\ Pumping /\ ~broken
    /\ \E i \in got : pending' = Restrict(pending, DOMAIN pending \ {i})
    /\ UNCHANGED <<run, sent, writing, rounds, channel, ends, camera, world>>

\* _pump: the next part of an answer reaches the channel's buffer.
Arrive ==
    /\ Pumping /\ ~broken /\ due # <<>>
    /\ channel' = Append(channel, Head(due))
    /\ due' = Tail(due)
    /\ UNCHANGED <<run, link, ends, got, done, on, verdict, hungUp, world>>

\* _pump: the camera's close packet; close() answers with one.
PeerCloses ==
    /\ Pumping /\ ~broken /\ hungUp
    /\ closed' = TRUE /\ goodbye' = TRUE
    /\ Raise
    /\ UNCHANGED <<camera, world>>

PumpFails ==
    /\ Pumping /\ broken
    /\ Raise
    /\ UNCHANGED <<ends, camera, world>>

----------------------------------------------------------------------------
(* read_command and _read_response.                                        *)

Expected_Anything(c) == TRUE
Expected(c) == c = IF stage = "loginAnswer" THEN "login" ELSE "live"

\* read_command takes the first bytes for a header; if they are none, it raises.
ReadHeader ==
    /\ Reading /\ half = Nothing /\ channel # <<>>
    /\ channel' = Tail(channel)
    /\ IF Head(channel).part = "header"
       THEN half' = Head(channel).of /\ UNCHANGED <<stage, facts, writing>>
       ELSE /\ stage' = Rescue /\ UNCHANGED <<half, writing>>
            /\ facts' = facts \cup {"failed", "misread"}
    /\ UNCHANGED <<running, code, sent, pending, rounds, ends, camera, world>>

\* After the wait for the live-start answer the signal handlers are installed.
GoOn(f) ==
    IF stage = "loginAnswer" THEN stage' = "live" /\ facts' = facts \cup f
    ELSE stage' = "check" /\ facts' = facts \cup f \cup {"handlers"}

Learned == CASE half = "login" /\ stage = "loginAnswer" /\ verdict = "accepted" -> {"authenticated"}
             [] half # "live" /\ stage = "liveAnswer" -> {"misread"}
             [] OTHER -> {}

\* A body: an answer to another command, or one without a result, is skipped, the
\* expected one reported.
ReadBody ==
    /\ Reading /\ half # Nothing /\ channel # <<>>
    /\ channel' = Tail(channel) /\ half' = Nothing
    /\ \/ UNCHANGED <<stage, facts>>
       \/ Expected(half) /\ GoOn(Learned)
    /\ UNCHANGED <<running, code, link, ends, camera, world>>

\* No answer in time: the helper goes on without one.
NoAnswer ==
    /\ Reading /\ half = Nothing
    /\ GoOn({})
    /\ UNCHANGED <<half, running, code, link, channel, ends, camera, world>>

\* The header is consumed and its body does not come: the channel is lost.
BodyTimeout ==
    /\ Reading /\ half # Nothing /\ channel = <<>>
    /\ Raise
    /\ UNCHANGED <<ends, camera, world>>

----------------------------------------------------------------------------
(* The loop over video frames and the end.                                 *)

LoopCheck ==
    /\ stage = "check"
    /\ stage' = IF running THEN "frames" ELSE "stop"
    /\ UNCHANGED <<facts, half, running, code, link, channel, ends, camera, world>>

\* A frame; one of another codec, or that is none, is passed over.
Frame ==
    /\ stage = "frames" /\ on /\ ~broken
    /\ stage' = "check"
    /\ \E valid \in BOOLEAN : facts' = facts \cup (IF valid THEN {"media"} ELSE {})
    /\ UNCHANGED <<half, running, code, link, channel, ends, camera, world>>

\* The parent has closed its end of stdout: the loop is left.
OutputGone ==
    /\ stage = "frames" /\ on /\ ~broken
    /\ stage' = "stop"
    /\ facts' = facts \cup {"media"}
    /\ UNCHANGED <<half, running, code, link, channel, ends, camera, world>>

FrameTimeout_ReadsOn ==
    /\ stage = "frames"
    /\ UNCHANGED vars

\* 45 seconds without a frame, or one that cannot be parsed.
FrameTimeout ==
    /\ stage = "frames"
    /\ Raise
    /\ UNCHANGED <<ends, camera, world>>

ExitCode ==
    IF "failed" \notin facts THEN IF {"media", "stopped"} \subseteq facts THEN "0" ELSE "6"
    ELSE IF "connected" \notin facts THEN "4"
    ELSE IF "authenticated" \notin facts THEN "5" ELSE "6"

\* session.close() and the return; the close packet is sent once.
Close ==
    /\ stage = "close"
    /\ stage' = "exit" /\ code' = ExitCode
    /\ closed' = TRUE /\ goodbye' = (goodbye \/ ~broken)
    /\ UNCHANGED <<facts, half, running, link, channel, camera, world>>

----------------------------------------------------------------------------
(* The parent, the network and the camera (external).                     *)

\* The process ends where it is, without a word to the camera.
Dies(how) ==
    /\ stage' = "exit" /\ code' = how
    /\ writing' = 0 /\ half' = Nothing /\ pending' = <<>> /\ channel' = <<>>
    /\ UNCHANGED <<facts, running, sent, rounds, ends, camera, broken>>

\* SIGTERM ends the process until the handlers are installed.
Terminate ==
    /\ Alive /\ ~asked
    /\ asked' = TRUE
    /\ IF "handlers" \notin facts THEN Dies("signal")
       ELSE /\ running' = FALSE
            /\ UNCHANGED <<stage, facts, half, code, link, channel, ends, camera, broken>>

\* SIGKILL, when the parent has waited long enough, after SIGTERM or for the
\* exit that a login that was not accepted should bring.
Kill ==
    /\ Alive
    /\ Dies("killed")
    /\ UNCHANGED asked

NetworkFails ==
    /\ ~broken /\ Alive
    /\ broken' = TRUE
    /\ UNCHANGED <<run, link, channel, ends, camera, asked>>

CameraReceives ==
    /\ Alive /\ ~hungUp
    /\ \E i \in Numbers \ got : got' = got \cup {i}
    /\ UNCHANGED <<run, link, channel, ends, done, on, verdict, due, hungUp, world>>

Answer(c) == <<Part(c, "header"), Part(c, "body")>>

\* The camera obeys its commands in order and answers, late, or not at all.
CameraObeys ==
    /\ Alive /\ ~hungUp /\ done + 1 \in got
    /\ done' = done + 1
    /\ LET c == sent[done + 1] IN
       /\ verdict' \in IF c = "login" THEN {"accepted", "refused"} ELSE {verdict}
       /\ on' \in IF c = "live" THEN BOOLEAN ELSE {on /\ c # "stop"}
       /\ due' \in IF c = "stop" THEN {due} ELSE {due, due \o Answer(c)}
    /\ UNCHANGED <<run, link, channel, ends, got, hungUp, world>>

CameraHangsUp ==
    /\ ~hungUp /\ stage # "connect" /\ Alive
    /\ hungUp' = TRUE /\ on' = FALSE
    /\ UNCHANGED <<run, link, channel, ends, got, done, verdict, due, world>>

----------------------------------------------------------------------------
Helper ==
    \/ ConnectionMade \/ ConnectionFails \/ BeginWrite \/ CannotWrite \/ Written
    \/ WriteTimeout \/ Retransmit \/ GiveUp \/ PumpFails
    \/ ReadHeader \/ ReadBody \/ NoAnswer \/ BodyTimeout
    \/ LoopCheck \/ FrameTimeout \/ Close

Next ==
    \/ Helper
    \/ HandleAck \/ Arrive \/ PeerCloses \/ Frame \/ OutputGone
    \/ Terminate \/ Kill \/ NetworkFails
    \/ CameraReceives \/ CameraObeys \/ CameraHangsUp

Spec == Init /\ [][Next]_vars

\* The helper's thread runs and every wait of it is timed; nothing is assumed
\* of the camera, the network and the parent.
FairSpec == Spec /\ WF_vars(Helper)

----------------------------------------------------------------------------
(* Properties.                                                             *)

Has(c) == \E i \in got \cap Numbers : sent[i] = c

Flags ==
    /\ running \in BOOLEAN /\ closed \in BOOLEAN /\ goodbye \in BOOLEAN
    /\ on \in BOOLEAN /\ hungUp \in BOOLEAN /\ broken \in BOOLEAN /\ asked \in BOOLEAN

\* Every variable keeps its type; a write waits for the last command sent.
HelperTypeOK ==
    /\ stage \in {"connect", "login", "loginAnswer", "live", "liveAnswer", "check",
                  "frames", "stop", "lastStop", "close", "exit"}
    /\ facts \subseteq Facts
    /\ half \in Commands \cup {Nothing}
    /\ code \in {"none", "0", "4", "5", "6", "signal", "killed"}
    /\ sent \in Seq(Commands)
    /\ channel \in Seq(Parts) /\ due \in Seq(Parts)
    /\ writing \in {0, Len(sent)}
    /\ DOMAIN pending \subseteq Numbers
    /\ \A i \in DOMAIN pending : pending[i] \in 1 .. MaxAttempts
    /\ rounds \in 0 .. WriteRounds
    /\ got \subseteq Numbers
    /\ done \in 0 .. Len(sent) /\ verdict \in {"none", "accepted", "refused"}
    /\ Flags

\* What the helper reports as sent, the camera has, across losses, repeats, late
\* acknowledgements and packets given up on (cs2.py, write and _retransmit); an
\* exit with 0 means that video came and the stop request arrived.
SentMeansReceived ==
    /\ "started" \in facts => Has("live")
    /\ "stopped" \in facts => Has("stop")
    /\ code = "0" => "media" \in facts /\ Has("stop")

\* An answer counts for the command it answers, also when the answer before it
\* came too late to be read in its turn, and the reader never takes a body for a
\* header (cs2.py, _read_response and read_command).
AnswersAreAttributed ==
    /\ "misread" \notin facts
    /\ "authenticated" \in facts => verdict = "accepted"

\* A helper that ends by itself has said goodbye to the camera and, when its
\* stream request was acknowledged, has asked for the stop, unless the camera
\* had left or the network was gone (amd64_helper.py, run and its except branch).
StreamIsCalledOff ==
    code \in {"0", "4", "5", "6"} =>
        /\ goodbye \/ broken
        /\ "started" \in facts => "stop" \in Range(sent) \/ hungUp \/ broken

\* A helper told to stop ends by itself, whatever camera and network do
\* (amd64_helper.py, the loop over _running and the timed reads).
StopSignalEndsHelper == asked ~> ~Alive

=============================================================================
