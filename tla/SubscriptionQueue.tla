------------------------- MODULE SubscriptionQueue -------------------------
(***************************************************************************)
(* The queue of one subscription (session.py), operation by operation.     *)
(* Each of put_nowait, get_nowait and get of queue.Queue is atomic; what   *)
(* _put_chunk and close() make of them is not: a put into a full queue is  *)
(* three steps, and the pump, the session's close(), the subscription's    *)
(* close() and the consumer run in threads of their own.  An operator with *)
(* a suffix is a faulty variant that no action uses.                       *)
(***************************************************************************)
EXTENDS Integers, Sequences

CONSTANTS QueueCap,     \* maxsize of the queue (32 in the code)
          MaxChunks     \* bound on the chunks the helper sends

ASSUME QueueAssumption ==
    /\ QueueCap \in Nat /\ QueueCap >= 3
    /\ MaxChunks \in Nat

\* The putting threads: the pump of the session, the close() of the session
\* and the close() of the subscription.
Putters == {"pump", "session", "subscription"}
END == 0                   \* _END; the chunks are 1, 2, 3 ...

VARIABLES
    queue,        \* the items of the queue, oldest first
    registered,   \* the subscription is in _subscribers
    flag,         \* StreamSubscription._closed
    sent,         \* how many chunks the helper has sent
    put,          \* where each thread is in its put
    item,         \* the item it puts
    consumer,     \* "check": at the loop's test, "get": in get(), "done"
    last          \* the newest chunk the consumer got

vars == <<queue, registered, flag, sent, put, item, consumer, last>>

Init ==
    /\ queue = <<>> /\ registered = TRUE /\ flag = FALSE /\ sent = 0
    /\ put = [t \in Putters |-> "none"]
    /\ item = [t \in Putters |-> END]
    /\ consumer = "check" /\ last = 0

Begin(t, x) ==
    /\ put' = [put EXCEPT ![t] = "put"]
    /\ item' = [item EXCEPT ![t] = x]

\* The pump has read a chunk and took the snapshot of the subscribers.
PumpChunk ==
    /\ put["pump"] = "none" /\ sent < MaxChunks
    /\ sent' = sent + 1
    /\ IF registered THEN Begin("pump", sent') ELSE UNCHANGED <<put, item>>
    /\ UNCHANGED <<queue, registered, flag, consumer, last>>

\* End of file: the pump unregisters the subscription and ends it.
PumpEnd ==
    /\ put["pump"] = "none" /\ registered
    /\ registered' = FALSE
    /\ Begin("pump", END)
    /\ UNCHANGED <<queue, flag, sent, consumer, last>>

\* close() of the session.
SessionEnd ==
    /\ put["session"] = "none" /\ registered
    /\ registered' = FALSE
    /\ Begin("session", END)
    /\ UNCHANGED <<queue, flag, sent, consumer, last>>

\* close() of the subscription: the flag, then the end item.
CloseSubscription ==
    /\ ~flag
    /\ flag' = TRUE
    /\ Begin("subscription", END)
    /\ UNCHANGED <<queue, registered, sent, consumer, last>>

\* release(), after the end item.
Release ==
    /\ flag /\ put["subscription"] = "done" /\ registered
    /\ registered' = FALSE
    /\ UNCHANGED <<queue, flag, sent, put, item, consumer, last>>

-----------------------------------------------------------------------------
(* The put: put_nowait; if the queue was full, get_nowait and put_nowait   *)
(* again, and any exception of these two is ignored.                       *)

\* The pump goes on to its next chunk; the others put once.
Finish(t) ==
    put' = [put EXCEPT ![t] = IF item[t] = END THEN "done" ELSE "none"]

PutNowait(t) ==
    /\ put[t] = "put"
    /\ \/ /\ Len(queue) < QueueCap
          /\ queue' = Append(queue, item[t])
          /\ Finish(t)
       \/ /\ Len(queue) = QueueCap
          /\ put' = [put EXCEPT ![t] = "evict"]
          /\ UNCHANGED queue
    /\ UNCHANGED <<registered, flag, sent, item, consumer, last>>

\* queue.Empty: the consumer emptied the queue meanwhile.
Evict(t) ==
    /\ put[t] = "evict"
    /\ \/ /\ queue # <<>>
          /\ queue' = Tail(queue)
          /\ put' = [put EXCEPT ![t] = "again"]
       \/ /\ queue = <<>>
          /\ Finish(t)
          /\ UNCHANGED queue
    /\ UNCHANGED <<registered, flag, sent, item, consumer, last>>

PutAgain_InFront(t) ==
    /\ put[t] = "again"
    /\ \/ /\ Len(queue) < QueueCap
          /\ queue' = <<item[t]>> \o queue
       \/ /\ Len(queue) = QueueCap
          /\ UNCHANGED queue
    /\ Finish(t)
    /\ UNCHANGED <<registered, flag, sent, item, consumer, last>>

\* queue.Full: another thread has taken the place meanwhile.
PutAgain(t) ==
    /\ put[t] = "again"
    /\ \/ /\ Len(queue) < QueueCap
          /\ queue' = Append(queue, item[t])
       \/ /\ Len(queue) = QueueCap
          /\ UNCHANGED queue
    /\ Finish(t)
    /\ UNCHANGED <<registered, flag, sent, item, consumer, last>>

-----------------------------------------------------------------------------
(* The consumer: __iter__.                                                 *)

Check_IgnoresFlag ==
    /\ consumer = "check"
    /\ consumer' = "get"
    /\ UNCHANGED <<queue, registered, flag, sent, put, item, last>>

Check ==
    /\ consumer = "check"
    /\ consumer' = IF flag THEN "done" ELSE "get"
    /\ UNCHANGED <<queue, registered, flag, sent, put, item, last>>

Get ==
    /\ consumer = "get" /\ queue # <<>>
    /\ queue' = Tail(queue)
    /\ IF Head(queue) = END
       THEN consumer' = "done" /\ UNCHANGED last
       ELSE consumer' = "check" /\ last' = Head(queue)
    /\ UNCHANGED <<registered, flag, sent, put, item>>

Put(t) == PutNowait(t) \/ Evict(t) \/ PutAgain(t)
Consume == Check \/ Get

\* The consumer has finished and nobody has anything left to put.
Finished ==
    /\ consumer = "done" /\ ~registered
    /\ \A t \in Putters : put[t] \in {"none", "done"}
    /\ UNCHANGED vars

Next == \/ PumpChunk \/ PumpEnd \/ SessionEnd \/ CloseSubscription \/ Release
        \/ \E t \in Putters : Put(t)
        \/ Consume
        \/ Finished

\* The threads run; nobody has to close anything.
Fairness ==
    /\ \A t \in Putters : WF_vars(Put(t))
    /\ WF_vars(Release)
    /\ WF_vars(Consume)

Spec == Init /\ [][Next]_vars
FairSpec == Spec /\ Fairness

-----------------------------------------------------------------------------
(* Properties.                                                             *)

Flags == registered \in BOOLEAN /\ flag \in BOOLEAN

\* Every variable has its type, and the queue never exceeds its maxsize, even
\* when threads race for a place (session.py, _put_chunk).
TypeOK ==
    /\ queue \in Seq(0 .. MaxChunks) /\ Len(queue) <= QueueCap
    /\ Flags /\ sent \in 0 .. MaxChunks
    /\ put \in [Putters -> {"none", "put", "evict", "again", "done"}]
    /\ item \in [Putters -> 0 .. MaxChunks]
    /\ consumer \in {"check", "get", "done"}
    /\ last \in 0 .. MaxChunks

\* A slow viewer loses chunks but never sees one twice or out of order, however
\* the evictions race, and the queue never grows past its limit: H.264 units that
\* moved would not decode (session.py, _put_chunk by two threads).
ChunksInOrder ==
    /\ Len(queue) <= QueueCap
    /\ \A i, j \in DOMAIN queue :
           i < j /\ queue[i] # END /\ queue[j] # END => queue[i] < queue[j]
    /\ \A i \in DOMAIN queue : queue[i] # END => last < queue[i]

\* close() of the subscription ends the consumer even when its end item loses
\* the race for a place: a blocked get() means an empty queue, and otherwise the
\* loop meets the flag.
CloseEndsConsumer == flag ~> consumer = "done"

=============================================================================
