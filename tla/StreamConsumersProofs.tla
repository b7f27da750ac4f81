----------------------- MODULE StreamConsumersProofs -----------------------
(***************************************************************************)
(* Theorems about StreamConsumers: a connection never holds two            *)
(* subscriptions, and it gives back the one it has whichever way it ends.  *)
(***************************************************************************)
EXTENDS StreamConsumers, TLAPS

\* The subscription of an RTSP connection is open exactly while the handler's
\* reference is set, but for the moment between close() and the assignment.
RtspPart ==
    kind = "rtsp" =>
        /\ muxer = "none" /\ ~headersSent
        /\ handler \notin {"idle", "get", "popen", "read", "terminate", "wait"}
        /\ then \in {"next", "spawn", "teardown"}
        /\ open = 1 <=> (ref /\ handler # "forget")
        /\ handler \in {"join", "over"} => ~ref

\* Where the handler of an HTTP connection holds a subscription, and where
\* ffmpeg is known not to run.
HttpPart ==
    kind # "rtsp" =>
        /\ handler \in {"idle", "sending", "get", "popen", "read", "finally",
                        "terminate", "wait", "join", "over"}
        /\ handler = "sending" =>
              /\ then \in {"error", "headers", "media"}
              /\ open = 1 <=> then # "error"
              /\ then # "media" => ~headersSent
              /\ then = "error" => muxer = "none"
        /\ handler \in {"idle", "popen"} => muxer = "none" /\ ~headersSent
        /\ handler \in {"idle", "terminate", "wait", "join"} => open = 0
        /\ handler \in {"get", "popen", "read", "finally"} => open = 1
        /\ handler = "join" => Stopped(muxer)
        /\ kind = "raw" =>
              /\ muxer = "none"
              /\ handler \notin {"popen", "read", "terminate", "wait", "join"}

ConsumersInv == TypeOK /\ RtspPart /\ HttpPart /\ Released

USE ConsumersAssumption DEF ConsumersAssumption, AllKinds

\* The part of the type invariant that is about truth values.
Flags ==
    /\ stalled \in BOOLEAN /\ closed \in BOOLEAN /\ bridge \in BOOLEAN
    /\ ref \in BOOLEAN /\ stop \in BOOLEAN /\ headersSent \in BOOLEAN
    /\ input \in BOOLEAN /\ output \in BOOLEAN

LEMMA InitInv == Init => ConsumersInv
<1> SUFFICES ASSUME Init PROVE ConsumersInv
  OBVIOUS
<1>1. Flags
  BY Zenon DEF Init, Flags
<1>2. TypeOK
  BY <1>1 DEF Init, Flags, TypeOK
<1> QED
  BY <1>1, <1>2 DEF Init, ConsumersInv, RtspPart, HttpPart, Released, Stopped

\* Every step gives a flag a truth value or leaves it alone.
LEMMA FlagsInv ==
    ASSUME Flags, [Next]_vars
    PROVE  Flags'
<1> USE DEF Flags, outside, rtsp, mux
<1>1. CASE Client
  BY <1>1, Zenon DEF Client, Stall, Resume, Leave, Feed
<1>2. CASE Reply \/ Written
  BY <1>2, Zenon DEF Reply, Written, Replied, Answered
<1>3. CASE \/ Test \/ RecvData \/ RecvNothing \/ Setup \/ Play \/ Teardown
           \/ OtherRequest \/ Malformed \/ BufferEmpty \/ RtspFinally
           \/ Forget \/ Join
  BY <1>3, Zenon DEF Test, RecvData, RecvNothing, Setup, Play, Teardown,
       OtherRequest, Malformed, BufferEmpty, RtspFinally, Forget, Join
<1>4. CASE \/ Request \/ NoRequest \/ RawGet \/ HttpFinally \/ Popen \/ Read
           \/ Terminate \/ Wait
  BY <1>4, Zenon DEF Request, NoRequest, RawGet, HttpFinally, Popen, Read,
       Terminate, Wait
<1>5. CASE Work
  BY <1>5, Zenon DEF Work, Start, Iterate, StreamChunk, End, StreamEnd,
       SendFrame, FrameSent, FeedChunk, FeedWrite, FeedEnd
<1>6. CASE Mux \/ MuxerExit \/ MuxerCrash
  BY <1>6, Zenon DEF Mux, MuxerExit, MuxerCrash
<1>7. CASE Finished \/ UNCHANGED vars
  BY <1>7, Zenon DEF Finished, vars
<1> QED BY <1>1, <1>2, <1>3, <1>4, <1>5, <1>6, <1>7 DEF Next, Handle

\* What the client, the session, ffmpeg and the second thread do disturbs no
\* part of the invariant but the types.
LEMMA OutsideInv ==
    ASSUME ConsumersInv, Flags', Client \/ Mux \/ MuxerExit \/ MuxerCrash
    PROVE  ConsumersInv'
<1>1. CASE Client
  BY <1>1 DEF Client, Stall, Resume, Leave, Feed, rtsp, mux, Flags,
              ConsumersInv, TypeOK, RtspPart, HttpPart, Released, Stopped
<1>2. CASE Mux
  BY <1>2 DEF Mux, outside, rtsp, Flags, ConsumersInv, TypeOK, RtspPart,
              HttpPart, Released, Stopped
<1>3. CASE MuxerExit \/ MuxerCrash
  BY <1>3 DEF MuxerExit, MuxerCrash, outside, rtsp, Flags, ConsumersInv, TypeOK,
              RtspPart, HttpPart, Released, Stopped
<1> QED BY <1>1, <1>2, <1>3

LEMMA WorkInv ==
    ASSUME ConsumersInv, Flags', Work
    PROVE  ConsumersInv'
<1> USE DEF Flags, outside, mux, ConsumersInv, TypeOK, RtspPart, HttpPart,
            Released, Stopped
<1>1. CASE Start
  <2>1. /\ worker' \in {"test", "done"}
        /\ UNCHANGED <<kind, client, stalled, feed, open, closed, handler, then,
                       left, ref, lock, headersSent, muxer>>
    BY <1>1, Zenon DEF Start
  <2> QED BY <2>1
<1>2. CASE Iterate \/ StreamChunk \/ End \/ FeedChunk \/ FeedEnd
  BY <1>2 DEF Iterate, StreamChunk, End, FeedChunk, FeedEnd, rtsp
<1>3. CASE StreamEnd
  BY <1>3 DEF StreamEnd
<1>4. CASE SendFrame
  BY <1>4 DEF SendFrame
<1>5. CASE FrameSent
  BY <1>5 DEF FrameSent, Drawn
<1>6. CASE FeedWrite
  BY <1>6 DEF FeedWrite, rtsp
<1> QED BY <1>1, <1>2, <1>3, <1>4, <1>5, <1>6 DEF Work

\* A write of the handler: in RTSP the flow goes on whether it succeeds or not,
\* in HTTP a failure ends the connection, with the subscription closed unless
\* it was the headers that failed.
LEMMA WrittenInv ==
    ASSUME ConsumersInv, Flags', Written
    PROVE  ConsumersInv'
<1>1. client' \in {"here", "closed", "reset"} /\ stalled' = stalled
      /\ feed' = feed
  BY DEF Written, Drawn, outside, ConsumersInv, TypeOK
<1>2. ASSUME NEW ok \in BOOLEAN, Replied(ok) PROVE ConsumersInv'
  BY <1>1, <1>2 DEF Replied, mux, Flags, ConsumersInv, TypeOK, RtspPart,
                    HttpPart, Released, Stopped
<1>3. ASSUME NEW ok \in BOOLEAN, Answered(ok) PROVE ConsumersInv'
  BY <1>1, <1>3 DEF Answered, rtsp, mux, Flags, ConsumersInv, TypeOK, RtspPart,
                    HttpPart, Released, Stopped
<1> QED BY <1>2, <1>3 DEF Written

LEMMA RtspHandlerInv ==
    ASSUME ConsumersInv, Flags',
           \/ Reply \/ Test \/ RecvData \/ RecvNothing
           \/ Setup \/ Play \/ Teardown \/ OtherRequest \/ Malformed
           \/ BufferEmpty \/ RtspFinally \/ Forget
    PROVE  ConsumersInv'
<1> USE DEF Flags, outside, mux, ConsumersInv, TypeOK, RtspPart, HttpPart,
            Released, Stopped
<1>1. CASE Reply
  BY <1>1 DEF Reply
<1>2. CASE Test \/ RecvNothing \/ BufferEmpty
  BY <1>2 DEF Test, RecvNothing, BufferEmpty, rtsp
<1>3. CASE RecvData
  BY <1>3 DEF RecvData
<1>4. CASE Setup \/ Teardown \/ OtherRequest \/ Malformed
  BY <1>4 DEF Setup, Teardown, OtherRequest, Malformed, Answer
<1>5. CASE Play
  BY <1>5 DEF Play, Answer
<1>6. CASE RtspFinally
  BY <1>6 DEF RtspFinally
<1>7. CASE Forget
  BY <1>7 DEF Forget
<1> QED BY <1>1, <1>2, <1>3, <1>4, <1>5, <1>6, <1>7

LEMMA HttpHandlerInv ==
    ASSUME ConsumersInv, Flags',
           \/ Request \/ NoRequest \/ RawGet \/ HttpFinally \/ Popen \/ Read
           \/ Terminate \/ Wait \/ Join
    PROVE  ConsumersInv'
<1> USE DEF Flags, outside, rtsp, mux, ConsumersInv, TypeOK, RtspPart, HttpPart,
            Released, Stopped
<1>1. CASE Request
  BY <1>1 DEF Request
<1>2. CASE NoRequest \/ RawGet
  BY <1>2 DEF NoRequest, RawGet
<1>3. CASE HttpFinally
  BY <1>3 DEF HttpFinally
<1>4. CASE Popen
  BY <1>4 DEF Popen
<1>5. CASE Read
  BY <1>5 DEF Read
<1>6. CASE Terminate
  BY <1>6 DEF Terminate
<1>7. CASE Wait \/ Join
  BY <1>7 DEF Wait, Join
<1> QED BY <1>1, <1>2, <1>3, <1>4, <1>5, <1>6, <1>7

\* The invariant holds in every state, for every set of consumers.
THEOREM ConsumersSafe == Spec => []ConsumersInv
<1>1. ConsumersInv /\ [Next]_vars => ConsumersInv'
  <2> SUFFICES ASSUME ConsumersInv, [Next]_vars PROVE ConsumersInv'
    OBVIOUS
  <2> Flags'
    BY FlagsInv, Zenon DEF ConsumersInv, TypeOK, Flags
  <2>1. CASE UNCHANGED vars
    BY <2>1 DEF vars, outside, rtsp, mux, ConsumersInv, TypeOK, RtspPart,
                HttpPart, Released, Stopped
  <2>2. CASE Finished
    BY <2>1, <2>2 DEF Finished
  <2>3. CASE Handle \/ Request
    BY <2>3, WrittenInv, RtspHandlerInv, HttpHandlerInv DEF Handle
  <2> QED BY <2>1, <2>2, <2>3, OutsideInv, WorkInv DEF Next
<1> QED BY InitInv, <1>1, PTL DEF Spec

\* A connection never holds two subscriptions.
THEOREM OneSubscription == Spec => []TypeOK
BY ConsumersSafe, PTL DEF ConsumersInv

\* Whichever way a connection ends, its subscription is closed and ffmpeg is
\* stopped, unless the write of the HTTP headers failed.
THEOREM EveryEndReleases == Spec => []Released
BY ConsumersSafe, PTL DEF ConsumersInv
=============================================================================
