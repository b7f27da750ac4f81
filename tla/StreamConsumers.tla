--------------------------- MODULE StreamConsumers ---------------------------
(***************************************************************************)
(* One connection of a consumer: an RTSP connection (rtsp.py) with its     *)
(* handler and its stream thread, a raw HTTP stream, or a muxed one with   *)
(* ffmpeg and the thread that feeds it (bridge.py).  The session is the    *)
(* subscription it gave; the client reads, stalls or goes away at any      *)
(* point.  An operator with a suffix is a faulty variant that no action    *)
(* uses.                                                                   *)
(***************************************************************************)
EXTENDS Naturals

CONSTANTS Kinds,          \* which consumers: a subset of AllKinds
          MaxPipelined    \* bound on the requests one recv() completes

AllKinds == {"rtsp", "raw", "muxed"}

ASSUME ConsumersAssumption ==
    /\ Kinds \subseteq AllKinds /\ Kinds # {}
    /\ MaxPipelined \in Nat \ {0}

VARIABLES
    kind,       \* what this connection is
    client,     \* "here", "closed" (its FIN came), "reset" (writes fail)
    stalled,    \* the client does not read and every buffer to it is full
    feed,       \* the subscription: "flowing", "silent" or "ended"
    open,       \* how many subscriptions are acquired and not closed
    closed,     \* StreamSubscription._closed
    handler,    \* where the thread of the connection is
    then,       \* what it does after the write under way
    left,       \* complete requests in the RTSP buffer
    bridge,     \* _bridge is set: SETUP was done
    ref,        \* _subscription is set
    stop,       \* the event _stop_stream
    lock,       \* who holds _write_lock
    worker,     \* where the stream thread, or the thread feeding ffmpeg, is
    headersSent,    \* the headers of the stream were written (HTTP)
    muxer,      \* the ffmpeg process
    input,      \* the pipe to ffmpeg is full
    output      \* the pipe from ffmpeg holds a piece

outside == <<client, stalled, feed>>
rtsp == <<left, bridge, ref, stop, lock>>
mux == <<muxer, input, output>>
vars == <<kind, outside, open, closed, handler, then, rtsp, worker,
          headersSent, mux>>

Init ==
    /\ kind \in Kinds
    /\ client = "here" /\ stalled = FALSE /\ feed = "flowing"
    /\ open = 0 /\ closed = FALSE
    /\ handler = IF kind = "rtsp" THEN "test" ELSE "idle"
    /\ then = "next" /\ left = 0
    /\ bridge = FALSE /\ ref = FALSE /\ stop = FALSE /\ lock = "none"
    /\ worker = "none" /\ headersSent = FALSE
    /\ muxer = "none" /\ input = FALSE /\ output = FALSE

-----------------------------------------------------------------------------
(* The client, and the session behind the subscription.                    *)

Stall ==
    /\ client = "here" /\ ~stalled
    /\ stalled' = TRUE
    /\ UNCHANGED <<kind, client, feed, open, closed, handler, then, rtsp,
                   worker, headersSent, mux>>

Resume ==
    /\ stalled
    /\ stalled' = FALSE
    /\ UNCHANGED <<kind, client, feed, open, closed, handler, then, rtsp,
                   worker, headersSent, mux>>

Leave ==
    /\ \/ client = "here" /\ client' \in {"closed", "reset"}
       \/ client = "closed" /\ client' = "reset"
    /\ stalled' = FALSE
    /\ UNCHANGED <<kind, feed, open, closed, handler, then, rtsp, worker,
                   headersSent, mux>>

\* The helper pauses, goes on, or is over: the end item follows the last chunk.
Feed ==
    /\ open > 0 /\ feed # "ended"
    /\ feed' \in {"flowing", "silent", "ended"} \ {feed}
    /\ UNCHANGED <<kind, client, stalled, open, closed, handler, then, rtsp,
                   worker, headersSent, mux>>

-----------------------------------------------------------------------------
(* Writes to the client.  The first write after the client's FIN succeeds  *)
(* and draws a reset.  RTSP sockets have a timeout of a second, HTTP       *)
(* sockets have none.                                                      *)

Writable == client # "reset" /\ ~stalled /\ handler # "over"

WriteFails ==
    \/ client = "reset"
    \/ handler = "over"
    \/ kind = "rtsp" /\ stalled

Drawn == client' = IF client = "closed" THEN "reset" ELSE client

\* A message of the handler gets the lock.
Reply ==
    /\ handler = "reply" /\ lock = "none"
    /\ lock' = "handler" /\ handler' = "sending"
    /\ UNCHANGED <<kind, outside, open, closed, then, left, bridge, ref, stop,
                   worker, headersSent, mux>>

\* RTSP: _reply catches the error and sets the event; what follows is the same.
Replied(ok) ==
    /\ kind = "rtsp" /\ handler = "sending"
    /\ lock' = "none"
    /\ stop' = (stop \/ ~ok \/ then = "teardown")
    /\ handler' = IF then = "teardown" THEN "finally" ELSE "request"
    /\ worker' = IF then = "spawn" THEN "start" ELSE worker
    /\ UNCHANGED <<kind, open, closed, then, left, bridge, ref, headersSent,
                   mux>>

\* HTTP: a failed write of media ends the loop; a failed write of the headers
\* or of an error leaves the method by an exception.
Answered(ok) ==
    /\ kind # "rtsp" /\ handler = "sending"
    /\ handler' = IF ok
                  THEN IF then = "error" THEN "idle"
                       ELSE IF kind = "raw" THEN "get" ELSE "read"
                  ELSE IF then = "media" THEN "finally" ELSE "over"
    /\ headersSent' = (headersSent \/ (ok /\ then = "headers"))
    /\ worker' = IF ok /\ then = "headers" /\ kind = "muxed"
                 THEN "test" ELSE worker
    /\ UNCHANGED <<kind, open, closed, then, rtsp, mux>>

Written ==
    \/ /\ Writable /\ Drawn
       /\ Replied(TRUE) \/ Answered(TRUE)
       /\ UNCHANGED <<stalled, feed>>
    \/ /\ WriteFails
       /\ Replied(FALSE) \/ Answered(FALSE)
       /\ UNCHANGED outside

-----------------------------------------------------------------------------
(* RTSP: the handler.                                                      *)

Test ==
    /\ handler = "test"
    /\ handler' = IF stop THEN "finally" ELSE "recv"
    /\ UNCHANGED <<kind, outside, open, closed, then, rtsp, worker,
                   headersSent, mux>>

\* Data the client sent, before it closed if it did.
RecvData ==
    /\ handler = "recv" /\ client # "reset"
    /\ left' \in 1 .. MaxPipelined
    /\ handler' = "request"
    /\ UNCHANGED <<kind, outside, open, closed, then, bridge, ref, stop, lock,
                   worker, headersSent, mux>>

\* The timeout of a second, the end of the connection, or its reset.
RecvNothing ==
    /\ handler = "recv"
    /\ handler' = IF client = "here" THEN "test" ELSE "finally"
    /\ UNCHANGED <<kind, outside, open, closed, then, rtsp, worker,
                   headersSent, mux>>

Answer(next) == handler' = "reply" /\ then' = next /\ left' = left - 1

Setup ==
    /\ handler = "request" /\ left > 0
    /\ bridge' = TRUE
    /\ Answer("next")
    /\ UNCHANGED <<kind, outside, open, closed, ref, stop, lock, worker,
                   headersSent, mux>>

Play ==
    /\ handler = "request" /\ left > 0 /\ bridge /\ ~ref
    /\ open' = open + 1 /\ ref' = TRUE
    /\ Answer("spawn")
    /\ UNCHANGED <<kind, outside, closed, bridge, stop, lock, worker,
                   headersSent, mux>>

Teardown ==
    /\ handler = "request" /\ left > 0
    /\ Answer("teardown")
    /\ UNCHANGED <<kind, outside, open, closed, bridge, ref, stop, lock,
                   worker, headersSent, mux>>

\* OPTIONS, DESCRIBE, GET_PARAMETER, a PLAY that is refused (454) or whose
\* acquire() fails (503), and what gets 404, 461 or 501.
OtherRequest ==
    /\ handler = "request" /\ left > 0
    /\ Answer("next")
    /\ UNCHANGED <<kind, outside, open, closed, bridge, ref, stop, lock,
                   worker, headersSent, mux>>

\* A request line without a method and a target ends the connection.
Malformed ==
    /\ handler = "request" /\ left > 0
    /\ handler' = "finally" /\ left' = left - 1
    /\ UNCHANGED <<kind, outside, open, closed, then, bridge, ref, stop, lock,
                   worker, headersSent, mux>>

BufferEmpty ==
    /\ handler = "request" /\ left = 0
    /\ handler' = "test"
    /\ UNCHANGED <<kind, outside, open, closed, then, rtsp, worker,
                   headersSent, mux>>

RtspFinally ==
    /\ kind = "rtsp" /\ handler = "finally"
    /\ stop' = TRUE
    /\ IF ref
       THEN open' = open - 1 /\ closed' = TRUE /\ handler' = "forget"
       ELSE handler' = "join" /\ UNCHANGED <<open, closed>>
    /\ UNCHANGED <<kind, outside, then, left, bridge, ref, lock, worker,
                   headersSent, mux>>

Forget ==
    /\ handler = "forget"
    /\ ref' = FALSE /\ handler' = "join"
    /\ UNCHANGED <<kind, outside, open, closed, then, left, bridge, stop,
                   lock, worker, headersSent, mux>>

\* The thread of the connection waits for the other one, three seconds (RTSP)
\* or two (muxed) at most, and closes the socket.
Join ==
    /\ handler = "join"
    /\ handler' = "over"
    /\ UNCHANGED <<kind, outside, open, closed, then, rtsp, worker,
                   headersSent, mux>>

-----------------------------------------------------------------------------
(* RTSP: the stream thread, _stream.                                       *)

\* The assertion, or the iteration over None, fails when the handler has
\* already forgotten the subscription.
Start ==
    /\ worker = "start"
    /\ \/ ref /\ worker' = "test" /\ UNCHANGED stop
       \/ ~ref /\ worker' = "done" /\ stop' \in {stop, TRUE}
    /\ UNCHANGED <<kind, outside, open, closed, handler, then, left, bridge,
                   ref, lock, headersSent, mux>>

\* __iter__ tests the flag; both threads do.
Iterate ==
    /\ worker = "test"
    /\ worker' = IF closed THEN "end" ELSE "get"
    /\ UNCHANGED <<kind, outside, open, closed, handler, then, rtsp,
                   headersSent, mux>>

\* A chunk completes access units, which are sent, or none.
StreamChunk ==
    /\ kind = "rtsp" /\ worker = "get" /\ feed = "flowing"
    /\ IF stop THEN worker' = "done" ELSE worker' \in {"test", "send"}
    /\ UNCHANGED <<kind, outside, open, closed, handler, then, rtsp,
                   headersSent, mux>>

\* The end item, of the session or of close().
End ==
    /\ worker = "get" /\ (closed \/ feed = "ended")
    /\ worker' = "end"
    /\ UNCHANGED <<kind, outside, open, closed, handler, then, rtsp,
                   headersSent, mux>>

\* flush() may leave a last access unit to send.
StreamEnd ==
    /\ kind = "rtsp" /\ worker = "end"
    /\ worker' \in {"last", "done"}
    /\ stop' = (stop \/ worker' = "done")
    /\ UNCHANGED <<kind, outside, open, closed, handler, then, left, bridge,
                   ref, lock, headersSent, mux>>

SendFrame ==
    /\ worker \in {"send", "last"} /\ lock = "none"
    /\ lock' = "worker"
    /\ worker' = IF worker = "send" THEN "sending" ELSE "sendingLast"
    /\ UNCHANGED <<kind, outside, open, closed, handler, then, left, bridge,
                   ref, stop, headersSent, mux>>

FrameSent_StopUnset ==
    /\ worker \in {"sending", "sendingLast"}
    /\ lock' = "none"
    /\ \/ /\ Writable /\ Drawn
          /\ worker' = IF worker = "sending" THEN "test" ELSE "done"
          /\ UNCHANGED <<stalled, feed>>
       \/ /\ WriteFails
          /\ worker' = "done"
          /\ UNCHANGED outside
    /\ UNCHANGED <<kind, open, closed, handler, then, left, bridge, ref, stop,
                   headersSent, mux>>

\* The first frame that cannot be written ends the thread and, through the
\* event, the connection.
FrameSent ==
    /\ worker \in {"sending", "sendingLast"}
    /\ lock' = "none"
    /\ \/ /\ Writable /\ Drawn
          /\ worker' = IF worker = "sending" THEN "test" ELSE "done"
          /\ UNCHANGED <<stalled, feed>>
       \/ /\ WriteFails
          /\ worker' = "done"
          /\ UNCHANGED outside
    /\ stop' = (stop \/ worker' = "done")
    /\ UNCHANGED <<kind, open, closed, handler, then, left, bridge, ref,
                   headersSent, mux>>

-----------------------------------------------------------------------------
(* HTTP: the request, and the raw stream.                                  *)

Stopped(m) == m \in {"none", "exited"}

\* The request, sent before the client closed if it did.
Request ==
    /\ handler = "idle" /\ client # "reset"
    /\ \/ /\ open' = open + 1 /\ closed' = FALSE /\ feed' = "flowing"
          /\ IF kind = "raw" THEN handler' = "sending" /\ then' = "headers"
             ELSE handler' = "popen" /\ UNCHANGED then
       \/ /\ handler' = "sending" /\ then' = "error"    \* a P2PError
          /\ UNCHANGED <<open, closed, feed>>
       \/ /\ handler' = "over"                          \* any other
          /\ UNCHANGED <<open, closed, feed, then>>
    /\ UNCHANGED <<kind, client, stalled, rtsp, worker, headersSent, mux>>

\* The client went away between two requests.
NoRequest ==
    /\ handler = "idle" /\ client # "here"
    /\ handler' = "over"
    /\ UNCHANGED <<kind, outside, open, closed, then, rtsp, worker,
                   headersSent, mux>>

RawGet ==
    /\ handler = "get"
    /\ \/ feed = "flowing" /\ handler' = "sending" /\ then' = "media"
       \/ feed = "ended" /\ handler' = "finally" /\ UNCHANGED then
    /\ UNCHANGED <<kind, outside, open, closed, rtsp, worker, headersSent,
                   mux>>

HttpFinally ==
    /\ kind # "rtsp" /\ handler = "finally"
    /\ open' = open - 1 /\ closed' = TRUE
    /\ handler' = IF kind = "raw" THEN "over" ELSE "terminate"
    /\ UNCHANGED <<kind, outside, then, rtsp, worker, headersSent, mux>>

-----------------------------------------------------------------------------
(* HTTP: the muxed stream and ffmpeg.                                      *)

Popen ==
    /\ handler = "popen"
    /\ handler' = "sending"
    /\ \/ /\ muxer' = "running" /\ then' = "headers"
          /\ UNCHANGED <<open, closed>>
       \/ /\ then' = "error" /\ open' = open - 1 /\ closed' = TRUE
          /\ UNCHANGED muxer
    /\ UNCHANGED <<kind, outside, rtsp, worker, headersSent, input, output>>

Read ==
    /\ handler = "read"
    /\ \/ /\ output
          /\ output' = FALSE /\ handler' = "sending" /\ then' = "media"
       \/ /\ ~output /\ muxer = "exited"
          /\ handler' = "finally"
          /\ UNCHANGED <<output, then>>
    /\ UNCHANGED <<kind, outside, open, closed, rtsp, worker, headersSent,
                   muxer, input>>

Terminate_Dead ==
    /\ handler = "terminate"
    /\ handler' = "join"
    /\ UNCHANGED <<kind, outside, open, closed, then, rtsp, worker,
                   headersSent, mux>>

Terminate ==
    /\ handler = "terminate"
    /\ IF muxer = "exited"
       THEN handler' = "join" /\ UNCHANGED muxer
       ELSE handler' = "wait" /\ muxer' = "signalled"
    /\ UNCHANGED <<kind, outside, open, closed, then, rtsp, worker,
                   headersSent, input, output>>

Wait ==
    /\ handler = "wait" /\ muxer = "exited"
    /\ handler' = "join"
    /\ UNCHANGED <<kind, outside, open, closed, then, rtsp, worker,
                   headersSent, mux>>

FeedChunk ==
    /\ kind = "muxed" /\ worker = "get" /\ feed = "flowing"
    /\ worker' = "write"
    /\ UNCHANGED <<kind, outside, open, closed, handler, then, rtsp,
                   headersSent, mux>>

FeedWrite ==
    /\ worker = "write"
    /\ \/ ~Stopped(muxer) /\ ~input /\ worker' = "test" /\ input' = TRUE
       \/ Stopped(muxer) /\ worker' = "done" /\ UNCHANGED input
    /\ UNCHANGED <<kind, outside, open, closed, handler, then, rtsp,
                   headersSent, muxer, output>>

FeedEnd_LeavesStdin ==
    /\ kind = "muxed" /\ worker = "end"
    /\ worker' = "none"
    /\ UNCHANGED <<kind, outside, open, closed, handler, then, rtsp,
                   headersSent, mux>>

\* The end of the feeding thread closes the standard input of ffmpeg.
FeedEnd ==
    /\ kind = "muxed" /\ worker = "end"
    /\ worker' = "done"
    /\ UNCHANGED <<kind, outside, open, closed, handler, then, rtsp,
                   headersSent, mux>>

\* ffmpeg takes its input, with or without output, while there is room for it.
Mux ==
    /\ muxer = "running" /\ input /\ ~output
    /\ input' = FALSE /\ output' \in BOOLEAN
    /\ UNCHANGED <<kind, outside, open, closed, handler, then, rtsp, worker,
                   headersSent, muxer>>

\* It exits at the end of its input, also when its pipes go with the handler
\* that was left by an exception, and when it was told to: a second signal after
\* five seconds kills it.
MuxerExit ==
    /\ \/ muxer = "running" /\ worker = "done" /\ ~input
       \/ muxer = "running" /\ handler = "over"
       \/ muxer = "signalled"
    /\ muxer' = "exited" /\ input' = FALSE
    /\ UNCHANGED <<kind, outside, open, closed, handler, then, rtsp, worker,
                   headersSent, output>>

MuxerCrash ==
    /\ muxer = "running"
    /\ muxer' = "exited" /\ input' = FALSE
    /\ UNCHANGED <<kind, outside, open, closed, handler, then, rtsp, worker,
                   headersSent, output>>

-----------------------------------------------------------------------------
Client == Stall \/ Resume \/ Leave \/ Feed

Handle ==
    \/ Reply \/ Written
    \/ Test \/ RecvData \/ RecvNothing
    \/ Setup \/ Play \/ Teardown \/ OtherRequest \/ Malformed \/ BufferEmpty
    \/ RtspFinally \/ Forget \/ Join
    \/ NoRequest \/ RawGet \/ HttpFinally
    \/ Popen \/ Read \/ Terminate \/ Wait

Work ==
    \/ Start \/ Iterate \/ StreamChunk \/ End \/ StreamEnd
    \/ SendFrame \/ FrameSent
    \/ FeedChunk \/ FeedWrite \/ FeedEnd

Finished ==
    /\ handler = "over" /\ worker \in {"none", "done"}
    /\ UNCHANGED vars

Next == Client \/ Handle \/ Request \/ Work \/ Mux \/ MuxerExit \/ MuxerCrash
        \/ Finished

\* The threads run, and so does ffmpeg; a client need not do anything, nor need
\* the helper behind the subscription.  Neither thread loses the race for the
\* lock for ever.  Media that goes on completes access units, and makes ffmpeg
\* write, again and again.
Fairness ==
    /\ WF_vars(Handle)
    /\ WF_vars(Work)
    /\ WF_vars(Mux \/ MuxerExit)
    /\ SF_vars(Reply) /\ SF_vars(SendFrame)
    /\ SF_vars(StreamChunk /\ worker' = "send")
    /\ SF_vars(Mux /\ output')

Spec == Init /\ [][Next]_vars
FairSpec == Spec /\ Fairness

-----------------------------------------------------------------------------
(* Properties.                                                             *)

\* A connection never holds two subscriptions: PLAY is refused while one is
\* held, and the HTTP connection that streamed takes no further request.
TypeOK ==
    /\ kind \in Kinds
    /\ client \in {"here", "closed", "reset"} /\ stalled \in BOOLEAN
    /\ feed \in {"flowing", "silent", "ended"}
    /\ open \in {0, 1} /\ closed \in BOOLEAN
    /\ handler \in {"test", "recv", "request", "reply", "sending", "finally",
                    "forget", "join", "over", "idle", "get", "popen", "read",
                    "terminate", "wait"}
    /\ then \in {"next", "spawn", "teardown", "error", "headers", "media"}
    /\ left \in 0 .. MaxPipelined
    /\ bridge \in BOOLEAN /\ ref \in BOOLEAN /\ stop \in BOOLEAN
    /\ lock \in {"none", "handler", "worker"}
    /\ worker \in {"none", "start", "test", "get", "send", "sending", "last",
                   "sendingLast", "write", "end", "done"}
    /\ headersSent \in BOOLEAN
    /\ muxer \in {"none", "running", "signalled", "exited"}
    /\ input \in BOOLEAN /\ output \in BOOLEAN

\* A connection that is over has closed its subscription and stopped ffmpeg,
\* whichever way it went, unless the write of the HTTP headers failed.
Released ==
    handler = "over" =>
        \/ open = 0 /\ Stopped(muxer)
        \/ kind # "rtsp" /\ then = "headers" /\ ~headersSent

\* A client that goes away, and an RTSP client that stops reading, does not
\* keep the camera on.  RTSP notices the departure by itself; a stream over
\* HTTP, and a stalled client, are met by the next media.
DepartureReleases ==
    /\ (kind = "rtsp" /\ client # "here") ~> open = 0
    /\ (kind = "rtsp" /\ stalled) ~> (~stalled \/ open = 0 \/ feed = "silent")
    /\ (headersSent /\ client # "here") ~> (open = 0 \/ feed = "silent")

\* When the session ends the subscription the connection ends too, so that the
\* player comes back: the thread that meets the end item tells the other one.
\* (If ffmpeg does not start, the connection is ready for the next request.)
\* Over HTTP a client that does not read holds the thread in its write.
EndOfStreamEndsConnection ==
    (feed = "ended" /\ open = 1) ~>
        (handler \in {"over", "idle"} \/ (kind # "rtsp" /\ stalled))

=============================================================================
