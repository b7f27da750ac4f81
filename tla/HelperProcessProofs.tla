------------------------ MODULE HelperProcessProofs ------------------------
(***************************************************************************)
(* Theorems about HelperProcess: what the helper reports as sent has       *)
(* arrived, an answer counts for the command it answers, and a helper      *)
(* that ends by itself has called its stream off, for any number of        *)
(* packets, rounds and attempts.                                           *)
(***************************************************************************)
EXTENDS HelperProcess, SequenceTheorems, TLAPS

\* write() waits for the command of its stage; when the packet is pending no
\* more and nobody gave up on it, the camera acknowledged it.
WritePart ==
    writing > 0 =>
        /\ Command # Nothing
        /\ sent[writing] = Command
        /\ writing \notin DOMAIN pending => writing \in got

CalledOff == "stop" \in Range(sent) \/ hungUp \/ broken

\* What is known at each stage about the stream and about the session.
StagePart ==
    /\ stage \in {"connect", "login", "loginAnswer", "live"} => "started" \notin facts
    /\ stage = "close" /\ "started" \in facts => CalledOff
    /\ closed => stage \in {"close", "exit"} \/ hungUp
    /\ code # "none" => stage = "exit"

HelperInv ==
    HelperTypeOK /\ WritePart /\ StagePart /\ SentMeansReceived /\ StreamIsCalledOff

USE HelperAssumption DEF HelperAssumption

LEMMA InitInv == Init => HelperInv
<1> SUFFICES ASSUME Init PROVE HelperInv
  OBVIOUS
<1>1. Flags
  BY Zenon DEF Init, Flags
<1>2. HelperTypeOK
  BY <1>1 DEF Init, HelperTypeOK, Facts, Commands, Nothing, Numbers
<1> QED
  BY <1>2 DEF Init, HelperInv, WritePart, StagePart, SentMeansReceived,
     StreamIsCalledOff

\* Every step gives a flag a truth value or leaves it alone.
LEMMA FlagsInv ==
    ASSUME Flags, [Next]_vars
    PROVE  Flags'
<1> USE DEF Flags, run, link, ends, camera, world, Raise, Fail, Dies
<1>1. CASE \/ ConnectionMade \/ ConnectionFails \/ BeginWrite \/ CannotWrite
           \/ Written \/ WriteTimeout \/ Retransmit \/ GiveUp \/ PumpFails
  BY <1>1, Zenon DEF ConnectionMade, ConnectionFails, BeginWrite, CannotWrite,
     Written, WriteTimeout, Retransmit, GiveUp, PumpFails
<1>2. CASE \/ ReadHeader \/ ReadBody \/ NoAnswer \/ BodyTimeout
           \/ LoopCheck \/ FrameTimeout \/ Close
  BY <1>2, Zenon DEF ReadHeader, ReadBody, NoAnswer, BodyTimeout, LoopCheck,
     FrameTimeout, Close
<1>3. CASE HandleAck \/ Arrive \/ PeerCloses \/ Frame \/ OutputGone
  BY <1>3, Zenon DEF HandleAck, Arrive, PeerCloses, Frame, OutputGone
<1>4. CASE Terminate \/ Kill \/ NetworkFails
  BY <1>4, Zenon DEF Terminate, Kill, NetworkFails
<1>5. CASE CameraReceives \/ CameraHangsUp
  BY <1>5, Zenon DEF CameraReceives, CameraHangsUp
<1>6. CASE CameraObeys
  BY <1>6, Zenon DEF CameraObeys
<1>7. CASE UNCHANGED vars
  BY <1>7, Zenon DEF vars
<1> QED
  BY <1>1, <1>2, <1>3, <1>4, <1>5, <1>6, <1>7 DEF Next, Helper

\* An error ends the write or the read that was under way.
LEMMA RaiseType ==
    ASSUME HelperTypeOK, Flags', Raise, UNCHANGED camera
    PROVE  HelperTypeOK'
  BY DEF HelperTypeOK, Raise, Fail, Rescue, camera, Facts, Numbers

LEMMA DiesType ==
    ASSUME HelperTypeOK, Flags', NEW how \in {"signal", "killed"}, Dies(how)
    PROVE  HelperTypeOK'
  BY DEF Dies, HelperTypeOK, Numbers, camera

LEMMA Joined ==
    ASSUME NEW S, NEW s \in Seq(S), NEW t \in Seq(S)
    PROVE  s \o t \in Seq(S)
  OBVIOUS

LEMMA TypeInv ==
    ASSUME HelperTypeOK, [Next]_vars
    PROVE  HelperTypeOK'
<1>f. Flags'
  BY FlagsInv DEF HelperTypeOK
<1> USE DEF Numbers
<1>1. CASE ConnectionMade
  BY <1>1, <1>f DEF ConnectionMade, HelperTypeOK, Facts, link, camera
<1>2. CASE BeginWrite
  <2>1. Command \in Commands
    BY <1>2 DEF BeginWrite, Command, Commands, Nothing
  <2>2. sent' \in Seq(Commands) /\ Len(sent') = Len(sent) + 1
    BY <1>2, <2>1 DEF BeginWrite, HelperTypeOK
  <2> QED
    BY <1>2, <2>2, <1>f DEF BeginWrite, HelperTypeOK, run, camera
<1>3. CASE Written
  <2>1. facts' \subseteq Facts
    BY <1>3 DEF Written, Reported, Facts, HelperTypeOK
  <2> QED
    BY <1>3, <1>f, <2>1 DEF Written, StageAfter, HelperTypeOK, camera
<1>4. CASE Retransmit
  BY <1>4, <1>f DEF Retransmit, Exhausted, HelperTypeOK, run, camera
<1>5. CASE GiveUp
  BY <1>5, <1>f DEF GiveUp, Fail, Rescue, Restrict, HelperTypeOK, Facts, camera
<1>6. CASE HandleAck
  BY <1>6, <1>f DEF HandleAck, Restrict, HelperTypeOK, run, camera
<1>7. CASE \/ ConnectionFails \/ CannotWrite \/ WriteTimeout \/ PumpFails
           \/ PeerCloses \/ FrameTimeout \/ BodyTimeout
  BY <1>7, <1>f, RaiseType DEF ConnectionFails, CannotWrite, WriteTimeout,
     PumpFails, PeerCloses, FrameTimeout, BodyTimeout
<1>8. CASE ReadHeader
  <2>1. Head(channel) \in Parts /\ Tail(channel) \in Seq(Parts)
    BY <1>8 DEF ReadHeader, HelperTypeOK
  <2>2. Head(channel).of \in Commands
    BY <2>1 DEF Parts
  <2> QED
    BY <1>8, <1>f, <2>1, <2>2 DEF ReadHeader, HelperTypeOK, Rescue, Facts, camera
<1>9. CASE ReadBody
  <2>1. Tail(channel) \in Seq(Parts)
    BY <1>9 DEF ReadBody, HelperTypeOK
  <2>2. Learned \subseteq Facts
    BY DEF Learned, Facts
  <2> QED
    BY <1>9, <1>f, <2>1, <2>2 DEF ReadBody, GoOn, HelperTypeOK, Facts, link, camera
<1>10. CASE NoAnswer
  BY <1>10, <1>f DEF NoAnswer, GoOn, HelperTypeOK, Facts, link, camera
<1>11. CASE LoopCheck \/ Close
  <2>1. CASE LoopCheck
    BY <2>1, <1>f DEF LoopCheck, HelperTypeOK, link, camera
  <2>2. CASE Close
    <3>1. code' \in {"0", "4", "5", "6"}
      BY <2>2 DEF Close, ExitCode
    <3> QED
      BY <2>2, <3>1, <1>f DEF Close, HelperTypeOK, link, camera
  <2> QED
    BY <1>11, <2>1, <2>2
<1>12. CASE Frame \/ OutputGone
  BY <1>12, <1>f DEF Frame, OutputGone, HelperTypeOK, Facts, link, camera
<1>13. CASE Terminate
  <2>1. CASE "handlers" \in facts
    BY <1>13, <2>1, <1>f DEF Terminate, HelperTypeOK, link, camera
  <2>2. CASE "handlers" \notin facts
    <3>1. Dies("signal")
      BY <1>13, <2>2, Zenon DEF Terminate
    <3> QED
      BY <3>1, <1>f, DiesType
  <2> QED
    BY <2>1, <2>2
<1>14. CASE Kill
  BY <1>14, <1>f, DiesType DEF Kill
<1>15. CASE Arrive
  <2>1. Head(due) \in Parts /\ Tail(due) \in Seq(Parts)
    BY <1>15 DEF Arrive, HelperTypeOK
  <2> QED
    BY <1>15, <1>f, <2>1 DEF Arrive, HelperTypeOK, run, link
<1>16. CASE NetworkFails \/ CameraReceives \/ CameraHangsUp
  <2>1. CASE NetworkFails
    BY <2>1, <1>f DEF NetworkFails, HelperTypeOK, run, link, camera
  <2>2. CASE CameraReceives
    BY <2>2, <1>f DEF CameraReceives, HelperTypeOK, run, link
  <2>3. CASE CameraHangsUp
    BY <2>3, <1>f DEF CameraHangsUp, HelperTypeOK, run, link
  <2> QED
    BY <1>16, <2>1, <2>2, <2>3
<1>17. CASE CameraObeys
  <2> DEFINE c == sent[done + 1]
  <2>1. c \in Commands /\ done + 1 \in 0 .. Len(sent)
    BY <1>17 DEF CameraObeys, HelperTypeOK
  <2>2. Answer(c) \in Seq(Parts)
    BY <2>1 DEF Answer, Part, Parts
  <2>3. due' \in {due, due \o Answer(c)}
    BY <1>17 DEF CameraObeys
  <2>4. due' \in Seq(Parts)
    <3>1. due \in Seq(Parts)
      BY DEF HelperTypeOK
    <3>2. due \o Answer(c) \in Seq(Parts)
      BY <2>2, <3>1, Joined
    <3> QED
      BY <2>3, <3>1, <3>2, Zenon
  <2>5. verdict' \in {"none", "accepted", "refused"}
    BY <1>17 DEF CameraObeys, HelperTypeOK
  <2> QED
    BY <1>17, <1>f, <2>1, <2>4, <2>5 DEF CameraObeys, HelperTypeOK, run, link
<1>18. CASE UNCHANGED vars
  BY <1>18, <1>f DEF vars, HelperTypeOK, run, link, camera
<1> QED
  BY <1>1, <1>2, <1>3, <1>4, <1>5, <1>6, <1>7, <1>8, <1>9, <1>10, <1>11, <1>12,
     <1>13, <1>14, <1>15, <1>16, <1>17, <1>18 DEF Next, Helper

----------------------------------------------------------------------------
\* Commands and packets the camera has are never lost, nor is an end forgotten.
Grown ==
    /\ got \subseteq got'
    /\ Len(sent) <= Len(sent')
    /\ \A i \in Numbers : sent'[i] = sent[i]
    /\ hungUp => hungUp'
    /\ broken => broken'
    /\ goodbye => goodbye'

LEMMA Grows ==
    ASSUME HelperTypeOK, [Next]_vars
    PROVE  Grown
<1> USE DEF Grown, Numbers, run, link, ends, camera, world
<1>1. CASE BeginWrite
  <2>1. Command \in Commands
    BY <1>1 DEF BeginWrite, Command, Commands, Nothing
  <2>2. /\ Len(sent') = Len(sent) + 1
        /\ \A i \in 1 .. Len(sent) : sent'[i] = sent[i]
    BY <1>1, <2>1 DEF BeginWrite, HelperTypeOK
  <2> QED
    BY <1>1, <2>2 DEF BeginWrite, HelperTypeOK
<1>2. sent \in Seq(Commands) /\ Len(sent) \in Nat
  BY DEF HelperTypeOK
<1>3. CASE \/ ConnectionMade \/ ConnectionFails \/ CannotWrite \/ Written
           \/ WriteTimeout \/ Retransmit \/ GiveUp \/ PumpFails \/ HandleAck
           \/ Arrive \/ PeerCloses
  BY <1>2, <1>3 DEF ConnectionMade, ConnectionFails, CannotWrite, Written,
     WriteTimeout, Retransmit, GiveUp, PumpFails, HandleAck, Arrive, PeerCloses,
     Raise, Fail
<1>4. CASE \/ ReadHeader \/ ReadBody \/ NoAnswer \/ BodyTimeout
           \/ LoopCheck \/ FrameTimeout \/ Frame \/ OutputGone
  BY <1>2, <1>4 DEF ReadHeader, ReadBody, NoAnswer, BodyTimeout, LoopCheck,
     FrameTimeout, Frame, OutputGone, Raise, Fail
<1>5. CASE Terminate \/ Kill \/ NetworkFails
  BY <1>2, <1>5 DEF Terminate, Kill, Dies, NetworkFails
<1>6. CASE CameraReceives \/ CameraObeys \/ CameraHangsUp
  BY <1>2, <1>6 DEF CameraReceives, CameraObeys, CameraHangsUp
<1>7. CASE UNCHANGED vars
  BY <1>2, <1>7 DEF vars
<1>8. CASE Close
  <2>1. goodbye => goodbye'
    BY <1>8, Zenon DEF Close
  <2> QED
    BY <1>2, <1>8, <2>1 DEF Close
<1> QED
  BY <1>1, <1>3, <1>4, <1>5, <1>6, <1>7, <1>8 DEF Next, Helper

LEMMA HasKept ==
    ASSUME HelperTypeOK, HelperTypeOK', Grown, NEW c, Has(c)
    PROVE  Has(c)'
<1>1. PICK i \in got \cap Numbers : sent[i] = c
  BY DEF Has
<1>2. i \in got' /\ i \in Numbers' /\ sent'[i] = c
  BY <1>1 DEF Grown, HelperTypeOK, Numbers
<1> QED
  BY <1>2 DEF Has

LEMMA CalledOffKept ==
    ASSUME HelperTypeOK, HelperTypeOK', Grown, CalledOff
    PROVE  CalledOff'
<1>1. ASSUME "stop" \in Range(sent) PROVE "stop" \in Range(sent')
  <2>1. PICK i \in 1 .. Len(sent) : sent[i] = "stop"
    BY <1>1 DEF Range, HelperTypeOK
  <2>2. i \in 1 .. Len(sent') /\ sent'[i] = "stop"
    BY <2>1 DEF Grown, HelperTypeOK, Numbers
  <2> QED
    BY <2>2 DEF Range, HelperTypeOK
<1> QED
  BY <1>1 DEF CalledOff, Grown

\* Outside the stages that send a command no write is under way.
LEMMA NotWriting ==
    ASSUME HelperTypeOK, WritePart, Command = Nothing
    PROVE  writing = 0
  BY DEF HelperTypeOK, WritePart

LEMMA WriteInv ==
    ASSUME HelperTypeOK, HelperTypeOK', WritePart, [Next]_vars
    PROVE  WritePart'
<1>g. Grown
  BY Grows
<1>0. \/ writing = 0
      \/ writing \in Numbers /\ writing > 0
  BY DEF HelperTypeOK, Numbers
<1> SUFFICES ASSUME writing' > 0 PROVE
          /\ (Command # Nothing)'
          /\ (sent[writing] = Command)'
          /\ writing' \notin DOMAIN pending' => writing' \in got'
  BY DEF WritePart
<1>1. CASE BeginWrite
  <2>1. Command \in Commands /\ Command' = Command
    BY <1>1 DEF BeginWrite, run, Command, Commands, Nothing
  <2>2. sent'[writing'] = Command /\ writing' \in DOMAIN pending'
    BY <1>1, <2>1 DEF BeginWrite, HelperTypeOK
  <2> QED
    BY <2>1, <2>2 DEF Commands, Nothing
<1>2. \/ writing = 0 /\ writing' = writing
      \/ writing' = 0
      \/ BeginWrite
      \/ /\ writing > 0 /\ writing' = writing
         /\ stage' = stage /\ sent' = sent
         /\ \A i \in DOMAIN pending \ DOMAIN pending' : i \in got
  <2> USE DEF run, link, ends, camera, world
  <2>1. CASE \/ ConnectionMade \/ ConnectionFails \/ CannotWrite \/ Written
             \/ WriteTimeout \/ GiveUp \/ PumpFails \/ PeerCloses \/ FrameTimeout
             \/ BodyTimeout \/ Kill
    <3>1. Command = Nothing \/ writing' = 0
      BY <2>1 DEF ConnectionMade, ConnectionFails, CannotWrite, Written,
         WriteTimeout, GiveUp, PumpFails, PeerCloses, FrameTimeout, BodyTimeout,
         Kill, Dies, Raise, Fail, Command
    <3>2. writing' \in {0, writing}
      BY <2>1 DEF ConnectionMade, ConnectionFails, CannotWrite, Written,
         WriteTimeout, GiveUp, PumpFails, PeerCloses, FrameTimeout, BodyTimeout,
         Kill, Dies, Raise, Fail
    <3> QED
      BY <3>1, <3>2, NotWriting
  <2>2. CASE \/ ReadHeader \/ ReadBody \/ NoAnswer \/ LoopCheck \/ Close
             \/ Frame \/ OutputGone
    <3>1. Command = Nothing /\ writing' = writing
      BY <2>2 DEF ReadHeader, ReadBody, NoAnswer, LoopCheck, Close, Frame,
         OutputGone, Reading, Command
    <3> QED
      BY <3>1, NotWriting
  <2>3. CASE Retransmit \/ Arrive \/ NetworkFails
    BY <1>0, <2>3 DEF Retransmit, Arrive, NetworkFails
  <2>4. CASE HandleAck
    BY <1>0, <2>4 DEF HandleAck, Restrict
  <2>5. CASE Terminate
    BY <1>0, <2>5 DEF Terminate, Dies
  <2>6. CASE CameraReceives \/ CameraObeys \/ CameraHangsUp
    BY <1>0, <2>6 DEF CameraReceives, CameraObeys, CameraHangsUp
  <2>7. CASE UNCHANGED vars
    BY <1>0, <2>7 DEF vars
  <2>8. CASE BeginWrite
    BY <2>8
  <2> QED
    BY <2>1, <2>2, <2>3, <2>4, <2>5, <2>6, <2>7, <2>8 DEF Next, Helper
<1>3. CASE /\ writing > 0 /\ writing' = writing
           /\ stage' = stage /\ sent' = sent
           /\ \A i \in DOMAIN pending \ DOMAIN pending' : i \in got
  <2>1. Command' = Command
    BY <1>3 DEF Command
  <2> QED
    BY <1>3, <1>g, <2>1 DEF WritePart, Grown
<1> QED
  BY <1>1, <1>2, <1>3

----------------------------------------------------------------------------
\* What a step may add to the report and to the exit code.
LEMMA Reports ==
    ASSUME [Next]_vars
    PROVE  /\ facts \subseteq facts'
           /\ \A f \in {"started", "stopped"} :
                 f \in facts' => f \in facts \/ (Written /\ f \in Reported)
           /\ \/ code' = code
              \/ Close /\ code' = ExitCode
              \/ code' \in {"signal", "killed"} /\ stage' = "exit"
<1> USE DEF run, Raise, Fail
<1>1. CASE \/ ConnectionMade \/ ConnectionFails \/ BeginWrite \/ CannotWrite
           \/ WriteTimeout \/ Retransmit \/ GiveUp \/ PumpFails \/ FrameTimeout
  BY <1>1 DEF ConnectionMade, ConnectionFails, BeginWrite, CannotWrite,
     WriteTimeout, Retransmit, GiveUp, PumpFails, FrameTimeout
<1>2. CASE ReadHeader \/ ReadBody \/ NoAnswer \/ BodyTimeout
  BY <1>2 DEF ReadHeader, ReadBody, NoAnswer, BodyTimeout, GoOn, Learned
<1>3. CASE HandleAck \/ Arrive \/ PeerCloses \/ LoopCheck \/ Frame \/ OutputGone
  BY <1>3 DEF HandleAck, Arrive, PeerCloses, LoopCheck, Frame, OutputGone
<1>4. CASE Terminate \/ Kill \/ NetworkFails
  BY <1>4 DEF Terminate, Kill, Dies, NetworkFails
<1>5. CASE CameraReceives \/ CameraObeys \/ CameraHangsUp
  BY <1>5 DEF CameraReceives, CameraObeys, CameraHangsUp
<1>6. CASE Written
  BY <1>6 DEF Written
<1>7. CASE Close
  BY <1>7 DEF Close
<1>8. CASE UNCHANGED vars
  BY <1>8 DEF vars
<1> QED
  BY <1>1, <1>2, <1>3, <1>4, <1>5, <1>6, <1>7, <1>8 DEF Next, Helper

\* A write that returns has put its command into the camera's hands.
LEMMA WrittenArrived ==
    ASSUME HelperTypeOK, WritePart, Written
    PROVE  Has(Command)
<1>1. writing \in got /\ sent[writing] = Command /\ writing \in Numbers
  BY DEF Written, WritePart, HelperTypeOK, Numbers
<1> QED
  BY <1>1 DEF Has

LEMMA SentInv ==
    ASSUME HelperTypeOK, HelperTypeOK', WritePart, SentMeansReceived, [Next]_vars
    PROVE  SentMeansReceived'
<1>g. Grown
  BY Grows
<1>1. ASSUME "started" \in facts' PROVE Has("live")'
  <2>1. CASE "started" \in facts
    BY <2>1, <1>g, HasKept DEF SentMeansReceived
  <2>2. CASE Written /\ "started" \in Reported
    <3>1. Command = "live"
      BY <2>2 DEF Reported
    <3> QED
      BY <2>2, <3>1, <1>g, HasKept, WrittenArrived
  <2> QED
    BY <1>1, <2>1, <2>2, Reports
<1>2. ASSUME "stopped" \in facts' PROVE Has("stop")'
  <2>1. CASE "stopped" \in facts
    BY <2>1, <1>g, HasKept DEF SentMeansReceived
  <2>2. CASE Written /\ "stopped" \in Reported
    <3>1. Command = "stop"
      BY <2>2 DEF Reported
    <3> QED
      BY <2>2, <3>1, <1>g, HasKept, WrittenArrived
  <2> QED
    BY <1>2, <2>1, <2>2, Reports
<1>3. ASSUME code' = "0" PROVE "media" \in facts' /\ Has("stop")'
  <2>1. CASE code = "0"
    BY <2>1, <1>g, HasKept, Reports DEF SentMeansReceived
  <2>2. CASE Close /\ ExitCode = "0"
    <3>1. {"media", "stopped"} \subseteq facts
      BY <2>2 DEF ExitCode
    <3> QED
      BY <3>1, <1>2, Reports
  <2> QED
    BY <1>3, <2>1, <2>2, Reports
<1> QED
  BY <1>1, <1>2, <1>3 DEF SentMeansReceived

LEMMA Asked ==
    ASSUME HelperTypeOK, Has("stop")
    PROVE  CalledOff
  BY DEF Has, CalledOff, Range, Numbers, HelperTypeOK

\* An error leads to the last stop or, when the stream is called off, to the end.
LEMMA FailStage ==
    ASSUME HelperTypeOK, HelperTypeOK', StagePart, SentMeansReceived, Grown, Fail,
           code' = code, stage # "exit",
           stage = "lastStop" => CalledOff,
           closed' => hungUp \/ stage = "connect"
    PROVE  StagePart'
<1>1. code = "none" /\ code' = "none"
  BY DEF StagePart
<1>2. stage' \in {"close", "lastStop"}
  BY DEF Fail, Rescue
<1>3. ASSUME stage' = "close", "started" \in facts' PROVE CalledOff'
  <2>1. "started" \in facts
    BY <1>3 DEF Fail
  <2>2. "stopped" \in facts \/ stage = "lastStop"
    BY <1>3, <2>1 DEF Fail, Rescue
  <2>3. CalledOff
    BY <2>2, Asked DEF SentMeansReceived
  <2> QED
    BY <2>3, CalledOffKept
<1>4. closed' => stage' = "close" \/ hungUp'
  <2>1. stage = "connect" => stage' = "close"
    BY DEF StagePart, Fail, Rescue
  <2> QED
    BY <2>1 DEF Grown
<1> QED
  BY <1>1, <1>2, <1>3, <1>4 DEF StagePart

\* Where the helper pumps, it is neither closing nor gone.
LEMMA PumpStage ==
    ASSUME HelperTypeOK, WritePart, Pumping
    PROVE  /\ stage \notin {"connect", "close", "exit"}
           /\ stage = "lastStop" => CalledOff
<1>1. CASE writing > 0
  <2>1. Command # Nothing /\ sent[writing] = Command /\ writing \in 1 .. Len(sent)
    BY <1>1 DEF WritePart, HelperTypeOK
  <2>2. stage = "lastStop" => sent[writing] = "stop"
    BY <2>1 DEF Command
  <2> QED
    BY <2>1, <2>2 DEF Command, CalledOff, Range, HelperTypeOK
<1>2. CASE writing <= 0
  BY <1>2 DEF Pumping, Reading, HelperTypeOK
<1> QED
  BY <1>1, <1>2 DEF HelperTypeOK

LEMMA StageInv ==
    ASSUME HelperTypeOK, HelperTypeOK', WritePart, StagePart, SentMeansReceived,
           [Next]_vars
    PROVE  StagePart'
<1>g. Grown
  BY Grows
<1>r. /\ facts \subseteq facts'
      /\ CalledOff => CalledOff'
  BY <1>g, Reports, CalledOffKept
<1> USE DEF run, link, ends, camera, world
<1>1. CASE ConnectionMade \/ BeginWrite
  BY <1>1, <1>g, <1>r DEF ConnectionMade, BeginWrite, StagePart, Grown, run
<1>2. CASE ConnectionFails
  BY <1>2, <1>g, FailStage DEF ConnectionFails, Raise
<1>3. CASE CannotWrite
  <2>1. stage \notin {"close", "exit", "connect"}
    BY <1>3 DEF CannotWrite, Command
  <2>2. closed \/ broken => CalledOff
    BY <2>1 DEF StagePart, CalledOff
  <2> QED
    BY <1>3, <1>g, <2>1, <2>2, FailStage DEF CannotWrite, Raise, StagePart
<1>4. CASE WriteTimeout \/ GiveUp \/ PumpFails \/ PeerCloses
  <2>1. Pumping
    BY <1>4 DEF WriteTimeout, GiveUp, PumpFails, PeerCloses, Pumping,
       HelperTypeOK, Numbers
  <2>2. Fail /\ code' = code /\ (closed' = closed \/ hungUp)
    BY <1>4 DEF WriteTimeout, GiveUp, PumpFails, PeerCloses, Raise
  <2>3. closed' => hungUp
    BY <2>1, <2>2, PumpStage DEF StagePart
  <2> QED
    BY <1>g, <2>1, <2>2, <2>3, PumpStage, FailStage
<1>5. CASE FrameTimeout \/ BodyTimeout
  <2>1. /\ stage \in {"loginAnswer", "liveAnswer", "frames"}
        /\ Fail /\ code' = code /\ closed' = closed
    BY <1>5 DEF FrameTimeout, BodyTimeout, Reading, Raise
  <2> QED
    BY <1>g, <2>1, FailStage DEF StagePart
<1>6. CASE Written
  <2>1. Command \in Commands /\ stage' = StageAfter(Command)
    BY <1>6, PumpStage DEF Written, WritePart, Command, Commands, Nothing
  <2>2. stage \notin {"close", "exit"}
    BY <2>1 DEF Command, Commands, Nothing
  <2>3. Command = "stop" => CalledOff'
    BY <1>6, <1>r, WrittenArrived, Asked
  <2>4. Command = "login" => stage = "login" /\ Reported = {}
    BY DEF Command, Reported, Nothing
  <2> QED
    BY <1>6, <1>g, <2>1, <2>2, <2>3, <2>4 DEF Written, StageAfter, StagePart,
       Grown, Commands
<1>7. CASE ReadHeader \/ ReadBody \/ NoAnswer
  <2>1. /\ stage \in {"loginAnswer", "liveAnswer"}
        /\ code' = code /\ closed' = closed
        /\ "started" \in facts' => "started" \in facts
    BY <1>7 DEF ReadHeader, ReadBody, NoAnswer, Reading, GoOn, Learned
  <2>2. \/ stage' = stage
        \/ stage' = "live" /\ stage = "loginAnswer"
        \/ stage' = "check"
        \/ stage' = "lastStop"
        \/ stage' = "close" /\ ("started" \in facts => "stopped" \in facts)
    BY <1>7, <2>1 DEF ReadHeader, ReadBody, NoAnswer, GoOn, Rescue
  <2>3. "stopped" \in facts => CalledOff
    BY Asked DEF SentMeansReceived
  <2> QED
    BY <1>g, <1>r, <2>1, <2>2, <2>3 DEF StagePart, Grown
<1>8. CASE Retransmit \/ HandleAck \/ Arrive
  BY <1>8, <1>g, <1>r DEF Retransmit, HandleAck, Arrive, StagePart, Grown
<1>9. CASE LoopCheck \/ Frame \/ OutputGone
  BY <1>9, <1>g, <1>r DEF LoopCheck, Frame, OutputGone, StagePart, Grown
<1>10. CASE Close
  BY <1>10 DEF Close, StagePart
<1>11. CASE Terminate \/ Kill
  BY <1>11, <1>g, <1>r DEF Terminate, Kill, Dies, StagePart, Grown
<1>12. CASE \/ NetworkFails \/ CameraReceives \/ CameraObeys \/ CameraHangsUp
            \/ UNCHANGED vars
  <2>1. stage' = stage /\ facts' = facts /\ code' = code /\ closed' = closed
    BY <1>12 DEF NetworkFails, CameraReceives, CameraObeys, CameraHangsUp, vars
  <2> QED
    BY <1>g, <1>r, <2>1 DEF StagePart, Grown
<1> QED
  BY <1>1, <1>2, <1>3, <1>4, <1>5, <1>6, <1>7, <1>8, <1>9, <1>10, <1>11, <1>12
     DEF Next, Helper

LEMMA EndInv ==
    ASSUME HelperTypeOK, HelperTypeOK', WritePart, StagePart, StreamIsCalledOff,
           [Next]_vars
    PROVE  StreamIsCalledOff'
<1>g. Grown
  BY Grows
<1> SUFFICES ASSUME code' \in {"0", "4", "5", "6"}
             PROVE  /\ goodbye' \/ broken'
                    /\ "started" \in facts' => CalledOff'
  BY DEF StreamIsCalledOff, CalledOff
<1>1. CASE Close
  <2>1. goodbye' \/ broken'
    BY <1>1, Zenon DEF Close, world
  <2>2. "started" \in facts' => CalledOff
    BY <1>1 DEF Close, StagePart
  <2> QED
    BY <1>g, <2>1, <2>2, CalledOffKept
<1>2. CASE code' = code
  <2>1. code # "none" /\ stage = "exit"
    BY <1>2 DEF StagePart
  <2>2. ~Written
    BY <2>1, NotWriting DEF Written, Command, HelperTypeOK
  <2>3. "started" \in facts' => "started" \in facts
    BY <2>2, Reports
  <2>4. goodbye \/ broken
    BY <1>2, Zenon DEF StreamIsCalledOff
  <2>5. "started" \in facts => CalledOff
    BY <1>2 DEF StreamIsCalledOff, CalledOff
  <2> QED
    BY <1>g, <2>3, <2>4, <2>5, CalledOffKept DEF Grown
<1> QED
  BY <1>1, <1>2, Reports

----------------------------------------------------------------------------
(* The parts of answers come in turn: headers and bodies alternate in the  *)
(* buffer and on the way, and the reader's place in them is known.         *)

\* No error was met yet and answers are still to be read, now or later.
Early == stage \in {"connect", "login", "loginAnswer", "live", "liveAnswer"}

Turn(n) == IF n % 2 = 1 THEN "header" ELSE "body"
TakenOf == IF half = Nothing THEN 0 ELSE 1

AnswersInTurn ==
    Early =>
        /\ \A i \in 1 .. Len(channel) : channel[i].part = Turn(TakenOf + i)
        /\ \A i \in 1 .. Len(due) : due[i].part = Turn(TakenOf + Len(channel) + i)
        /\ (TakenOf + Len(channel) + Len(due)) % 2 = 0

\* The login is the first command and the only one the camera gives a verdict on.
OneLogin ==
    /\ stage \in {"connect", "login"} /\ writing = 0 => sent = <<>>
    /\ \A i \in Numbers : sent[i] = "login" => i = 1
    /\ verdict # "none" => done > 0

AnswerInv == AnswersInTurn /\ OneLogin /\ AnswersAreAttributed

LEMMA InitAnswerInv == Init => AnswerInv
  BY DEF Init, AnswerInv, AnswersInTurn, OneLogin, AnswersAreAttributed,
     TakenOf, Numbers

\* What a step that reads, obeys or delivers no answer does to the answers.
LEMMA AnswersAside ==
    ASSUME HelperTypeOK, [Next]_vars,
           ~(\/ Arrive \/ ReadHeader \/ ReadBody \/ CameraObeys)
    PROVE  /\ UNCHANGED <<due, done, verdict>>
           /\ Early' => Early /\ UNCHANGED <<channel, half>>
           /\ facts' \subseteq facts \cup (Facts \ {"misread", "authenticated"})
<1> USE DEF run, link, ends, camera, world, Raise, Fail, Rescue, Early, Facts
<1>1. CASE \/ ConnectionMade \/ ConnectionFails \/ BeginWrite \/ CannotWrite
           \/ WriteTimeout \/ Retransmit
  BY <1>1 DEF ConnectionMade, ConnectionFails, BeginWrite, CannotWrite,
     WriteTimeout, Retransmit
<1>2. CASE \/ GiveUp \/ PumpFails \/ FrameTimeout \/ BodyTimeout \/ PeerCloses
           \/ HandleAck
  BY <1>2 DEF GiveUp, PumpFails, FrameTimeout, BodyTimeout, PeerCloses, HandleAck
<1>3. CASE Written
  <2>1. /\ Command = "login" => stage = "login"
        /\ Command = "live" => stage = "live"
    BY DEF Command, Nothing
  <2>2. stage' \in {"loginAnswer", "liveAnswer"} => Command \in {"login", "live"}
    BY <1>3 DEF Written, StageAfter
  <2>3. stage' \in {"loginAnswer", "liveAnswer", "close"}
    BY <1>3 DEF Written, StageAfter
  <2>4. Reported \subseteq {"started", "stopped"}
    BY DEF Reported
  <2> QED
    BY <1>3, <2>1, <2>2, <2>3, <2>4 DEF Written
<1>4. CASE NoAnswer \/ LoopCheck \/ Frame \/ OutputGone \/ Close
  BY <1>4 DEF NoAnswer, Reading, GoOn, LoopCheck, Frame, OutputGone, Close
<1>5. CASE Terminate \/ Kill \/ NetworkFails \/ CameraReceives \/ CameraHangsUp
  BY <1>5 DEF Terminate, Kill, Dies, NetworkFails, CameraReceives, CameraHangsUp
<1>6. CASE UNCHANGED vars
  BY <1>6 DEF vars
<1> QED
  BY <1>1, <1>2, <1>3, <1>4, <1>5, <1>6 DEF Next, Helper

\* A turn is followed by the other one.
LEMMA Turns ==
    ASSUME NEW n \in Nat
    PROVE  /\ n % 2 = 0 => Turn(n + 1) = "header" /\ Turn(n + 2) = "body"
           /\ Turn(n + 2) = Turn(n)
           /\ n % 2 = 0 <=> (n + 2) % 2 = 0
           /\ Turn(1) = "header"
  BY DEF Turn

LEMMA Pair ==
    ASSUME NEW S, NEW s \in Seq(S), NEW t \in Seq(S), Len(t) = 2
    PROVE  /\ Len(s \o t) = Len(s) + 2
           /\ \A i \in 1 .. Len(s) : (s \o t)[i] = s[i]
           /\ (s \o t)[Len(s) + 1] = t[1]
           /\ (s \o t)[Len(s) + 2] = t[2]
<1>1. /\ Len(s \o t) = Len(s) + Len(t)
      /\ \A i \in 1 .. Len(s) + Len(t) :
            (s \o t)[i] = IF i <= Len(s) THEN s[i] ELSE t[i - Len(s)]
  BY ConcatProperties, Zenon
<1>2. Len(s) \in Nat
  OBVIOUS
<1>3. /\ Len(s) + 1 \in 1 .. Len(s) + 2 /\ ~(Len(s) + 1 <= Len(s))
      /\ Len(s) + 2 \in 1 .. Len(s) + 2 /\ ~(Len(s) + 2 <= Len(s))
      /\ (Len(s) + 1) - Len(s) = 1 /\ (Len(s) + 2) - Len(s) = 2
  BY <1>2
<1> QED
  BY <1>1, <1>2, <1>3

LEMMA TurnsInv ==
    ASSUME HelperTypeOK, HelperTypeOK', AnswersInTurn, [Next]_vars
    PROVE  AnswersInTurn'
<1>t. /\ channel \in Seq(Parts) /\ due \in Seq(Parts)
      /\ Len(channel) \in Nat /\ Len(due) \in Nat /\ TakenOf \in {0, 1}
  BY DEF HelperTypeOK, TakenOf
<1>1. CASE Arrive
  <2>1. /\ channel' = Append(channel, Head(due)) /\ due' = Tail(due) /\ due # <<>>
        /\ TakenOf' = TakenOf /\ Early' = Early
    BY <1>1 DEF Arrive, run, TakenOf, Early
  <2>2. /\ Len(channel') = Len(channel) + 1 /\ Len(due') = Len(due) - 1
        /\ Len(due) > 0
        /\ channel'[Len(channel) + 1] = due[1]
        /\ \A i \in 1 .. Len(channel) : channel'[i] = channel[i]
        /\ \A i \in 1 .. Len(due') : due'[i] = due[i + 1]
    BY <1>t, <2>1
  <2> SUFFICES ASSUME Early
               PROVE  /\ \A i \in 1 .. Len(channel') :
                            channel'[i].part = Turn(TakenOf + i)
                      /\ \A i \in 1 .. Len(due') :
                            due'[i].part = Turn(TakenOf + Len(channel') + i)
                      /\ (TakenOf + Len(channel') + Len(due')) % 2 = 0
    BY <2>1 DEF AnswersInTurn
  <2>3. ASSUME NEW i \in 1 .. Len(channel')
        PROVE  channel'[i].part = Turn(TakenOf + i)
    <3>1. CASE i = Len(channel) + 1
      <4>1. due[1].part = Turn(TakenOf + Len(channel) + 1)
        BY <2>2, <1>t DEF AnswersInTurn
      <4>2. TakenOf + Len(channel) + 1 = TakenOf + i
        BY <1>t, <3>1
      <4> QED
        BY <2>2, <3>1, <4>1, <4>2
    <3>2. CASE i \in 1 .. Len(channel)
      BY <2>2, <3>2 DEF AnswersInTurn
    <3> QED
      BY <1>t, <2>2, <3>1, <3>2
  <2>4. ASSUME NEW i \in 1 .. Len(due')
        PROVE  due'[i].part = Turn(TakenOf + Len(channel') + i)
    <3>1. i + 1 \in 1 .. Len(due) /\ due'[i] = due[i + 1]
      BY <1>t, <2>2
    <3>2. due[i + 1].part = Turn(TakenOf + Len(channel) + (i + 1))
      BY <3>1 DEF AnswersInTurn
    <3>3. TakenOf + Len(channel) + (i + 1) = TakenOf + Len(channel') + i
      BY <1>t, <2>2, <3>1
    <3> QED
      BY <3>1, <3>2, <3>3
  <2>5. TakenOf + Len(channel') + Len(due') = TakenOf + Len(channel) + Len(due)
    BY <1>t, <2>2
  <2> QED
    BY <2>3, <2>4, <2>5 DEF AnswersInTurn
<1>2. CASE ReadHeader \/ ReadBody
  <2>1. /\ channel' = Tail(channel) /\ channel # <<>> /\ due' = due
        /\ Early
    BY <1>2 DEF ReadHeader, ReadBody, camera, Reading, Early
  <2>2. /\ Len(channel') = Len(channel) - 1 /\ Len(channel) > 0
        /\ \A i \in 1 .. Len(channel') : channel'[i] = channel[i + 1]
        /\ Head(channel) = channel[1] /\ Head(channel) \in Parts
    BY <1>t, <2>1
  <2>3. Early' => \/ TakenOf = 0 /\ TakenOf' = 1
                  \/ TakenOf = 1 /\ TakenOf' = 0
    <3>1. CASE ReadHeader
      <4>1. Head(channel).of # Nothing
        BY <2>2 DEF Parts, Commands, Nothing
      <4> QED
        BY <3>1, <4>1 DEF ReadHeader, Early, TakenOf, Rescue
    <3>2. CASE ReadBody
      BY <3>2 DEF ReadBody, TakenOf
    <3> QED
      BY <1>2, <3>1, <3>2
  <2> SUFFICES ASSUME Early'
               PROVE  /\ \A i \in 1 .. Len(channel') :
                            channel'[i].part = Turn(TakenOf' + i)
                      /\ \A i \in 1 .. Len(due) :
                            due[i].part = Turn(TakenOf' + Len(channel') + i)
                      /\ (TakenOf' + Len(channel') + Len(due)) % 2 = 0
    BY <2>1 DEF AnswersInTurn
  <2>4. ASSUME NEW i \in Nat
        PROVE  Turn(TakenOf' + i) = Turn(TakenOf + (i + 1))
    <3>1. CASE TakenOf = 0 /\ TakenOf' = 1
      <4>1. TakenOf' + i = TakenOf + (i + 1)
        BY <3>1
      <4> QED
        BY <4>1
    <3>2. CASE TakenOf = 1 /\ TakenOf' = 0
      <4>1. TakenOf' + i = i /\ TakenOf + (i + 1) = i + 2
        BY <3>2
      <4> QED
        BY <4>1, Turns
    <3> QED
      BY <2>3, <3>1, <3>2
  <2>5. ASSUME NEW i \in 1 .. Len(channel')
        PROVE  channel'[i].part = Turn(TakenOf' + i)
    <3>1. i + 1 \in 1 .. Len(channel) /\ channel'[i] = channel[i + 1]
      BY <1>t, <2>2
    <3>2. channel[i + 1].part = Turn(TakenOf + (i + 1))
      BY <2>1, <3>1 DEF AnswersInTurn
    <3> QED
      BY <2>4, <3>1, <3>2
  <2>6. ASSUME NEW i \in 1 .. Len(due)
        PROVE  due[i].part = Turn(TakenOf' + Len(channel') + i)
    <3>1. due[i].part = Turn(TakenOf + Len(channel) + i)
      BY <2>1 DEF AnswersInTurn
    <3>2. Len(channel') + i \in Nat /\ Len(channel') + i + 1 = Len(channel) + i
      BY <1>t, <2>2
    <3>3. Turn(TakenOf' + (Len(channel') + i)) = Turn(TakenOf + (Len(channel) + i))
      BY <2>4, <3>2
    <3> QED
      BY <1>t, <2>2, <2>3, <3>1, <3>3
  <2>7. (TakenOf' + Len(channel') + Len(due)) % 2 = 0
    <3> DEFINE all == TakenOf + Len(channel) + Len(due)
               rest == TakenOf' + Len(channel') + Len(due)
    <3>1. all % 2 = 0
      BY <2>1 DEF AnswersInTurn
    <3>2. /\ all \in Nat /\ rest \in Nat
          /\ rest = all \/ all = rest + 2
      <4>1. CASE TakenOf = 0 /\ TakenOf' = 1
        BY <1>t, <2>2, <4>1
      <4>2. CASE TakenOf = 1 /\ TakenOf' = 0
        BY <1>t, <2>2, <4>2
      <4> QED
        BY <2>3, <4>1, <4>2
    <3> HIDE DEF all, rest
    <3>3. rest % 2 = 0
      BY <3>1, <3>2, Turns
    <3> QED
      BY <3>3 DEF rest
  <2> QED
    BY <2>5, <2>6, <2>7
<1>3. CASE CameraObeys
  <2>1. channel' = channel /\ TakenOf' = TakenOf /\ Early' = Early
    BY <1>3 DEF CameraObeys, run, TakenOf, Early
  <2>2. PICK c : due' \in {due, due \o Answer(c)} /\ c \in Commands
    <3>1. sent[done + 1] \in Commands
      BY <1>3 DEF CameraObeys, HelperTypeOK, Numbers
    <3>2. due' \in {due, due \o Answer(sent[done + 1])}
      BY <1>3 DEF CameraObeys
    <3> WITNESS sent[done + 1]
    <3> QED
      BY <3>1, <3>2
  <2>3. CASE due' = due
    BY <2>1, <2>3 DEF AnswersInTurn
  <2>4. CASE due' = due \o Answer(c)
    <3>1. /\ Answer(c) \in Seq(Parts) /\ Len(Answer(c)) = 2
          /\ Answer(c)[1].part = "header" /\ Answer(c)[2].part = "body"
      BY <2>2 DEF Answer, Part, Parts
    <3>2. /\ Len(due') = Len(due) + 2
          /\ \A i \in 1 .. Len(due) : due'[i] = due[i]
          /\ due'[Len(due) + 1] = Answer(c)[1]
          /\ due'[Len(due) + 2] = Answer(c)[2]
      BY <1>t, <2>4, <3>1, Pair
    <3> SUFFICES ASSUME Early
                 PROVE  /\ \A i \in 1 .. Len(due') :
                              due'[i].part = Turn(TakenOf + Len(channel) + i)
                        /\ (TakenOf + Len(channel) + Len(due')) % 2 = 0
      BY <2>1 DEF AnswersInTurn
    <3> DEFINE all == TakenOf + Len(channel) + Len(due)
    <3>3. all \in Nat /\ all % 2 = 0
      <4>1. all % 2 = 0
        BY DEF AnswersInTurn
      <4>2. all \in Nat
        BY <1>t
      <4> QED
        BY <4>1, <4>2
    <3>4. /\ Turn(all + 1) = "header" /\ Turn(all + 2) = "body"
          /\ (all + 2) % 2 = 0
      BY <3>3, Turns
    <3>5. /\ all + 1 = TakenOf + Len(channel) + (Len(due) + 1)
          /\ all + 2 = TakenOf + Len(channel) + (Len(due) + 2)
      BY <1>t
    <3>6. ASSUME NEW i \in 1 .. Len(due')
          PROVE  due'[i].part = Turn(TakenOf + Len(channel) + i)
      <4>1. \/ i \in 1 .. Len(due)
            \/ i = Len(due) + 1
            \/ i = Len(due) + 2
        BY <1>t, <3>2
      <4>2. CASE i \in 1 .. Len(due)
        BY <3>2, <4>2 DEF AnswersInTurn
      <4>3. CASE i = Len(due) + 1
        BY <3>1, <3>2, <3>4, <3>5, <4>3
      <4>4. CASE i = Len(due) + 2
        BY <3>1, <3>2, <3>4, <3>5, <4>4
      <4> QED
        BY <4>1, <4>2, <4>3, <4>4
    <3>7. (TakenOf + Len(channel) + Len(due')) % 2 = 0
      BY <3>2, <3>4, <3>5
    <3> QED
      BY <3>6, <3>7
  <2> QED
    BY <2>2, <2>3, <2>4
<1>4. CASE ~(\/ Arrive \/ ReadHeader \/ ReadBody \/ CameraObeys)
  <2>1. due' = due /\ (Early' => Early /\ channel' = channel /\ half' = half)
    BY <1>4, AnswersAside
  <2> QED
    BY <2>1 DEF AnswersInTurn, TakenOf
<1> QED
  BY <1>1, <1>2, <1>3, <1>4

LEMMA LoginInv ==
    ASSUME HelperTypeOK, HelperTypeOK', WritePart, OneLogin, [Next]_vars
    PROVE  OneLogin'
<1>t. sent \in Seq(Commands) /\ Len(sent) \in Nat
  BY DEF HelperTypeOK
<1>1. CASE BeginWrite
  <2>1. /\ Command \in Commands /\ writing = 0
        /\ Command = "login" => stage = "login"
    BY <1>1 DEF BeginWrite, Command, Commands, Nothing
  <2>2. /\ Len(sent') = Len(sent) + 1 /\ sent'[Len(sent) + 1] = Command
        /\ \A i \in 1 .. Len(sent) : sent'[i] = sent[i]
        /\ writing' = Len(sent) + 1
    BY <1>1, <1>t, <2>1 DEF BeginWrite
  <2>3. Command = "login" => Len(sent) = 0
    BY <2>1 DEF OneLogin
  <2>4. ASSUME NEW i \in 1 .. Len(sent'), sent'[i] = "login" PROVE i = 1
    <3>1. i \in 1 .. Len(sent) \/ i = Len(sent) + 1
      BY <1>t, <2>2
    <3> QED
      BY <2>2, <2>3, <2>4, <3>1 DEF OneLogin, Numbers
  <2>5. verdict' = verdict /\ done' = done /\ writing' # 0
    BY <1>1, <1>t, <2>2 DEF BeginWrite, camera
  <2> QED
    BY <2>4, <2>5 DEF OneLogin, Numbers
<1>2. CASE ~BeginWrite
  <2>1. sent' = sent
    BY <1>2 DEF Next, Helper, ConnectionMade, ConnectionFails, CannotWrite,
       Written, WriteTimeout, Retransmit, GiveUp, PumpFails, ReadHeader,
       ReadBody, NoAnswer, BodyTimeout, LoopCheck, FrameTimeout, Close,
       HandleAck, Arrive, PeerCloses, Frame, OutputGone, Terminate, Kill, Dies,
       NetworkFails, CameraReceives, CameraObeys, CameraHangsUp, Raise, link,
       vars
  <2>2. ASSUME stage' \in {"connect", "login"}, writing' = 0
        PROVE  stage \in {"connect", "login"} /\ writing = 0
    <3> USE DEF run, link, Raise, Fail, Rescue
    <3>1. CASE \/ ConnectionMade \/ ConnectionFails \/ CannotWrite
               \/ WriteTimeout \/ Retransmit \/ GiveUp \/ PumpFails
               \/ PeerCloses \/ HandleAck \/ Arrive
      BY <2>2, <3>1, NotWriting DEF ConnectionMade, ConnectionFails,
         CannotWrite, WriteTimeout, Retransmit, GiveUp, PumpFails, PeerCloses,
         HandleAck, Arrive, Command
    <3>2. CASE Written
      <4>1. stage' \in {"loginAnswer", "liveAnswer", "close"}
        BY <3>2 DEF Written, StageAfter
      <4> QED
        BY <2>2, <4>1
    <3>3. CASE ReadHeader \/ ReadBody \/ NoAnswer \/ BodyTimeout
      BY <2>2, <3>3, NotWriting DEF ReadHeader, ReadBody, NoAnswer,
         BodyTimeout, Reading, GoOn
    <3>4. CASE LoopCheck \/ FrameTimeout \/ Close \/ Frame \/ OutputGone
      BY <2>2, <3>4 DEF LoopCheck, FrameTimeout, Close, Frame, OutputGone
    <3>5. CASE \/ Terminate \/ Kill \/ NetworkFails \/ CameraReceives
               \/ CameraObeys \/ CameraHangsUp
      BY <2>2, <3>5 DEF Terminate, Kill, Dies, NetworkFails, CameraReceives,
         CameraObeys, CameraHangsUp
    <3>6. CASE UNCHANGED vars
      BY <2>2, <3>6 DEF vars
    <3> QED
      BY <1>2, <3>1, <3>2, <3>3, <3>4, <3>5, <3>6 DEF Next, Helper
  <2>3. verdict' # "none" => done' > 0
    <3>1. CASE CameraObeys
      BY <3>1 DEF CameraObeys, HelperTypeOK
    <3>2. CASE ~CameraObeys
      <4>1. verdict' = verdict /\ done' = done
        BY <3>2, AnswersAside DEF Arrive, ReadHeader, ReadBody, camera
      <4> QED
        BY <4>1 DEF OneLogin
    <3> QED
      BY <3>1, <3>2
  <2> QED
    BY <2>1, <2>2, <2>3 DEF OneLogin, Numbers
<1> QED
  BY <1>1, <1>2

LEMMA AnswersInv ==
    ASSUME HelperTypeOK, HelperTypeOK', WritePart, AnswerInv, [Next]_vars
    PROVE  AnswersAreAttributed'
<1>1. CASE ReadHeader
  <2>1. /\ Early /\ half = Nothing /\ channel # <<>> /\ verdict' = verdict
    BY <1>1 DEF ReadHeader, Reading, Early, camera
  <2>2. Len(channel) \in Nat /\ Len(channel) > 0 /\ Head(channel) = channel[1]
    BY <2>1 DEF HelperTypeOK
  <2>3. channel[1].part = Turn(0 + 1)
    BY <2>1, <2>2 DEF AnswerInv, AnswersInTurn, TakenOf
  <2>4. Head(channel).part = "header"
    BY <2>2, <2>3 DEF Turn
  <2>5. facts' = facts
    BY <1>1, <2>4 DEF ReadHeader
  <2> QED
    BY <2>1, <2>5 DEF AnswerInv, AnswersAreAttributed
<1>2. CASE ReadBody
  <2>1. verdict' = verdict
    BY <1>2 DEF ReadBody, camera
  <2>2. /\ "misread" \in facts' => "misread" \in facts
        /\ "authenticated" \in facts' =>
              "authenticated" \in facts \/ verdict = "accepted"
    BY <1>2 DEF ReadBody, Reading, Expected, GoOn, Learned
  <2> QED
    BY <2>1, <2>2 DEF AnswerInv, AnswersAreAttributed
<1>3. CASE CameraObeys
  <2>1. facts' = facts
    BY <1>3 DEF CameraObeys, run
  <2>2. ASSUME verdict = "accepted" PROVE verdict' = verdict
    <3>1. done > 0 /\ done + 1 \in Numbers
      BY <1>3, <2>2 DEF CameraObeys, AnswerInv, OneLogin, HelperTypeOK
    <3>2. done + 1 # 1
      BY <3>1 DEF HelperTypeOK
    <3>3. sent[done + 1] # "login"
      BY <3>1, <3>2 DEF AnswerInv, OneLogin
    <3> QED
      BY <1>3, <3>3 DEF CameraObeys
  <2> QED
    BY <2>1, <2>2 DEF AnswerInv, AnswersAreAttributed
<1>4. CASE ~(\/ ReadHeader \/ ReadBody \/ CameraObeys)
  <2>1. /\ verdict' = verdict
        /\ facts' \subseteq facts \cup (Facts \ {"misread", "authenticated"})
    <3>1. CASE Arrive
      BY <3>1 DEF Arrive, run
    <3> QED
      BY <1>4, <3>1, AnswersAside
  <2> QED
    BY <2>1 DEF AnswerInv, AnswersAreAttributed
<1> QED
  BY <1>1, <1>2, <1>3, <1>4

LEMMA NextInv == HelperInv /\ [Next]_vars => HelperInv'
<1> SUFFICES ASSUME HelperInv, [Next]_vars PROVE HelperInv'
  OBVIOUS
<1>1. HelperTypeOK'
  BY TypeInv DEF HelperInv
<1> QED
  BY <1>1, WriteInv, SentInv, StageInv, EndInv DEF HelperInv

LEMMA NextAnswerInv == HelperInv /\ AnswerInv /\ [Next]_vars => AnswerInv'
<1> SUFFICES ASSUME HelperInv, AnswerInv, [Next]_vars PROVE AnswerInv'
  OBVIOUS
<1>1. HelperTypeOK /\ HelperTypeOK' /\ WritePart
  BY TypeInv DEF HelperInv
<1> QED
  BY <1>1, TurnsInv, LoginInv, AnswersInv DEF AnswerInv

----------------------------------------------------------------------------
LEMMA AlwaysInv == Spec => []HelperInv
  BY InitInv, NextInv, PTL DEF Spec

\* Every variable keeps its type, with any number of rounds and attempts: a
\* write waits for the last packet, and no packet is repeated too often
\* (cs2.py, write and _retransmit).
THEOREM HelperTypes == Spec => []HelperTypeOK
<1>1. HelperInv => HelperTypeOK
  BY DEF HelperInv
<1> QED
  BY <1>1, AlwaysInv, PTL

\* What the helper reports as sent, the camera has (cs2.py, write; amd64_helper.py,
\* the result it exits with).
THEOREM ReportsAreTrue == Spec => []SentMeansReceived
<1>1. HelperInv => SentMeansReceived
  BY DEF HelperInv
<1> QED
  BY <1>1, AlwaysInv, PTL

\* A helper that ends by itself has said goodbye and called its stream off, unless
\* the camera had left or the network was gone (amd64_helper.py, run).
THEOREM EndsCallOff == Spec => []StreamIsCalledOff
<1>1. HelperInv => StreamIsCalledOff
  BY DEF HelperInv
<1> QED
  BY <1>1, AlwaysInv, PTL

\* An answer counts for its command and no body is taken for a header, however
\* late answers come and whatever part of one a timed read left in the buffer
\* (cs2.py, read_command and _read_response).
THEOREM AnswersCount == Spec => []AnswersAreAttributed
<1>1. AnswerInv => AnswersAreAttributed
  BY DEF AnswerInv
<1> QED
  BY <1>1, InitAnswerInv, NextAnswerInv, AlwaysInv, PTL DEF Spec

=============================================================================
