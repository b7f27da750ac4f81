---------------------- MODULE SubscriptionQueueProofs ----------------------
(***************************************************************************)
(* Proofs about the queue of a subscription, for any limit and any number  *)
(* of chunks: it stays within its limit and in order whatever the threads  *)
(* that put into it do to each other.                                      *)
(***************************************************************************)
EXTENDS SubscriptionQueue, TLAPS

\* The threads that close put nothing but the end item.
OnlyPumpPutsChunks == item["session"] = END /\ item["subscription"] = END

\* Nothing in the queue, and nothing the consumer got, is newer than what the
\* pump has read.
NoneIsNewer == last <= sent /\ \A i \in DOMAIN queue : queue[i] <= sent

\* A chunk the pump is still putting is newer than all of them.
PuttingChunk == put["pump"] \in {"put", "evict", "again"} /\ item["pump"] # END

PumpPutsNewest ==
    PuttingChunk => /\ item["pump"] = sent /\ last < sent
                    /\ \A i \in DOMAIN queue : queue[i] < sent

QueueInv ==
    /\ TypeOK /\ OnlyPumpPutsChunks /\ NoneIsNewer /\ PumpPutsNewest
    /\ ChunksInOrder

\* The invariant holds at first.
LEMMA InitQueue == Init => QueueInv
<1>. SUFFICES ASSUME Init PROVE QueueInv
  OBVIOUS
<1>1. Flags
  BY Zenon DEF Init, Flags
<1>. QED
  BY <1>1, QueueAssumption
  DEF Init, QueueInv, TypeOK, OnlyPumpPutsChunks, NoneIsNewer, PumpPutsNewest,
      PuttingChunk, ChunksInOrder, Putters, END

\* Truth values have a lemma of their own: they need another prover.
LEMMA FlagsInv == Flags /\ [Next]_vars => Flags'
<1>. SUFFICES ASSUME Flags, [Next]_vars PROVE Flags'
  OBVIOUS
<1>. QED
  BY Zenon DEF Flags, Next, PumpChunk, PumpEnd, SessionEnd, CloseSubscription, Release,
     Put, PutNowait, Evict, PutAgain, Consume, Check, Get, Finished, vars

\* An item has left the queue at its head.
Shortened ==
    /\ queue' \in Seq(0 .. MaxChunks) /\ Len(queue') = Len(queue) - 1
    /\ \A i \in DOMAIN queue' : i + 1 \in DOMAIN queue /\ queue'[i] = queue[i + 1]

LEMMA TailShortens ==
    ASSUME TypeOK, queue # <<>>, queue' = Tail(queue)
    PROVE  Shortened /\ Len(queue') <= QueueCap
  BY QueueAssumption DEF TypeOK, Shortened

\* What is left is in order, and newer than the item that left if that was got.
LEMMA ShortenedOrder ==
    ASSUME TypeOK, ChunksInOrder, Shortened,
           \/ last' = last
           \/ 1 \in DOMAIN queue /\ last' = queue[1] /\ queue[1] # END
    PROVE  ChunksInOrder'
<1>1. ASSUME NEW i \in DOMAIN queue', NEW j \in DOMAIN queue', i < j,
             queue'[i] # END, queue'[j] # END
      PROVE  queue'[i] < queue'[j]
  BY <1>1 DEF ChunksInOrder, Shortened
<1>2. ASSUME NEW i \in DOMAIN queue', queue'[i] # END
      PROVE  last' < queue'[i]
  BY <1>2 DEF ChunksInOrder, Shortened
<1>3. Len(queue') <= QueueCap
  BY QueueAssumption DEF ChunksInOrder, Shortened, TypeOK
<1>. QED BY <1>1, <1>2, <1>3 DEF ChunksInOrder

\* A put either appends the item, which is the newest chunk or the end item, or
\* takes the oldest item away, or leaves the queue alone.
LEMMA PutInv ==
    ASSUME QueueInv, Flags', NEW t \in Putters, Put(t)
    PROVE  QueueInv'
<1>. USE DEF QueueInv, TypeOK, OnlyPumpPutsChunks, NoneIsNewer, PumpPutsNewest,
             PuttingChunk, Putters, END
<1>0. UNCHANGED <<registered, flag, sent, item, consumer, last>>
  BY DEF Put, PutNowait, Evict, PutAgain
<1>1. put' \in [Putters -> {"none", "put", "evict", "again", "done"}]
  BY DEF Put, PutNowait, Evict, PutAgain, Finish
<1>2. /\ put[t] \in {"put", "evict", "again"}
      /\ PuttingChunk' => PuttingChunk
  BY DEF Put, PutNowait, Evict, PutAgain, Finish
<1>3. \/ queue' = queue
      \/ queue # <<>> /\ queue' = Tail(queue)
      \/ Len(queue) < QueueCap /\ queue' = Append(queue, item[t])
         /\ put'[t] \in {"none", "done"}
  BY DEF Put, PutNowait, Evict, PutAgain, Finish
<1>4. CASE queue' = queue
  BY <1>0, <1>1, <1>2, <1>4 DEF ChunksInOrder
<1>5. CASE queue # <<>> /\ queue' = Tail(queue)
  <2>1. TypeOK' /\ Shortened
    BY <1>0, <1>1, <1>5, TailShortens
  <2>2. ChunksInOrder'
    BY <1>0, <2>1, ShortenedOrder
  <2>3. NoneIsNewer' /\ PumpPutsNewest'
    BY <1>0, <1>2, <2>1 DEF Shortened
  <2>. QED BY <1>0, <2>1, <2>2, <2>3
<1>6. CASE /\ Len(queue) < QueueCap /\ queue' = Append(queue, item[t])
           /\ put'[t] \in {"none", "done"}
  <2>1. /\ queue' \in Seq(0 .. MaxChunks) /\ Len(queue') = Len(queue) + 1
        /\ \A i \in DOMAIN queue' :
              \/ i \in DOMAIN queue /\ queue'[i] = queue[i]
              \/ i = Len(queue) + 1 /\ queue'[i] = item[t]
    BY <1>6
  <2>2. item[t] # END => t = "pump" /\ item[t] = sent /\ last < sent
                          /\ \A i \in DOMAIN queue : queue[i] < sent
    BY <1>2
  <2>3. ChunksInOrder'
    <3>1. \A i \in DOMAIN queue' : queue'[i] # END => last < queue'[i]
      BY <2>1, <2>2 DEF ChunksInOrder
    <3>2. ASSUME NEW i \in DOMAIN queue', NEW j \in DOMAIN queue', i < j,
                 queue'[i] # END, queue'[j] # END
          PROVE  queue'[i] < queue'[j]
      <4>1. i \in DOMAIN queue /\ queue'[i] = queue[i]
        BY <2>1, <3>2
      <4>2. CASE j \in DOMAIN queue /\ queue'[j] = queue[j]
        BY <3>2, <4>1, <4>2 DEF ChunksInOrder
      <4>3. CASE j = Len(queue) + 1 /\ queue'[j] = item[t]
        BY <2>2, <3>2, <4>1, <4>3
      <4>. QED BY <2>1, <4>2, <4>3
    <3>3. Len(queue') <= QueueCap
      BY <1>6, <2>1, QueueAssumption
    <3>. QED BY <1>0, <3>1, <3>2, <3>3 DEF ChunksInOrder
  <2>4. PumpPutsNewest'
    <3>1. PuttingChunk' => t # "pump"
      BY <1>6
    <3>2. PuttingChunk' => item[t] = END
      BY <3>1
    <3>3. ASSUME PuttingChunk' PROVE \A i \in DOMAIN queue' : queue'[i] < sent
      BY <1>2, <2>1, <3>2, <3>3
    <3>. QED BY <1>0, <1>2, <3>3
  <2>5. NoneIsNewer'
    BY <1>0, <2>1, <2>2
  <2>6. TypeOK'
    BY <1>0, <1>1, <1>6, <2>1, QueueAssumption
  <2>. QED BY <1>0, <2>3, <2>4, <2>5, <2>6
<1>. QED BY <1>3, <1>4, <1>5, <1>6

LEMMA Numbers ==
    ASSUME TypeOK, NoneIsNewer
    PROVE  /\ sent \in Nat /\ last \in 0 .. MaxChunks /\ last <= sent
           /\ \A i \in DOMAIN queue : queue[i] \in 0 .. MaxChunks /\ queue[i] <= sent
  BY QueueAssumption DEF TypeOK, NoneIsNewer

LEMMA StepQueue == QueueInv /\ [Next]_vars => QueueInv'
<1>. SUFFICES ASSUME QueueInv, [Next]_vars PROVE QueueInv'
  OBVIOUS
<1>f. Flags'
  BY FlagsInv DEF QueueInv, TypeOK
<1>. USE <1>f DEF QueueInv, TypeOK, OnlyPumpPutsChunks, NoneIsNewer, PumpPutsNewest,
                  PuttingChunk, Putters, END
<1>1. CASE PumpChunk
  <2>1. sent' \in 0 .. MaxChunks /\ sent' = sent + 1
    BY <1>1, QueueAssumption DEF PumpChunk
  <2>2. /\ item' \in [Putters -> 0 .. MaxChunks]
        /\ put' \in [Putters -> {"none", "put", "evict", "again", "done"}]
    BY <1>1, <2>1 DEF PumpChunk, Begin
  <2>3. item["session"]' = item["session"] /\ item["subscription"]' = item["subscription"]
    BY <1>1 DEF PumpChunk, Begin
  <2>4. PuttingChunk' => item["pump"]' = sent'
    BY <1>1 DEF PumpChunk, Begin
  <2>5. /\ UNCHANGED <<queue, registered, flag, consumer, last>>
        /\ PuttingChunk' => put'["pump"] = "put"
    BY <1>1 DEF PumpChunk, Begin
  <2>6. NoneIsNewer' /\ PumpPutsNewest'
    <3>1. last' < sent' /\ \A i \in DOMAIN queue' : queue'[i] < sent'
      BY <2>1, <2>5, Numbers
    <3>2. last' <= sent' /\ \A i \in DOMAIN queue' : queue'[i] <= sent'
      BY <2>1, <2>5, Numbers
    <3>. QED BY <2>4, <3>1, <3>2
  <2>7. ChunksInOrder'
    BY <2>5 DEF ChunksInOrder
  <2>8. TypeOK' /\ OnlyPumpPutsChunks'
    BY <2>1, <2>2, <2>3, <2>5
  <2>. QED BY <2>6, <2>7, <2>8
<1>2. CASE PumpEnd \/ SessionEnd \/ CloseSubscription
  <2>1. /\ item' \in [Putters -> 0 .. MaxChunks]
        /\ put' \in [Putters -> {"none", "put", "evict", "again", "done"}]
    BY <1>2, QueueAssumption DEF PumpEnd, SessionEnd, CloseSubscription, Begin
  <2>2. item["session"]' = END /\ item["subscription"]' = END
    BY <1>2 DEF PumpEnd, SessionEnd, CloseSubscription, Begin
  <2>3. PuttingChunk' => PuttingChunk /\ item["pump"]' = item["pump"]
    BY <1>2 DEF PumpEnd, SessionEnd, CloseSubscription, Begin
  <2>. QED
    BY <1>2, <2>1, <2>2, <2>3 DEF PumpEnd, SessionEnd, CloseSubscription, ChunksInOrder
<1>3. CASE Release \/ Check
  BY <1>3 DEF Release, Check, ChunksInOrder
<1>4. ASSUME NEW t \in Putters, Put(t) PROVE QueueInv'
  BY <1>4, PutInv
<1>5. CASE Get
  <2>1. queue # <<>> /\ queue' = Tail(queue)
        /\ UNCHANGED <<registered, flag, sent, put, item>>
    BY <1>5 DEF Get
  <2>2. Shortened /\ Len(queue') <= QueueCap
    BY <2>1, TailShortens
  <2>3. /\ consumer' \in {"check", "get", "done"}
        /\ \/ last' = last
           \/ 1 \in DOMAIN queue /\ last' = queue[1] /\ queue[1] # END
    BY <1>5 DEF Get
  <2>4. ChunksInOrder'
    BY <2>2, <2>3, ShortenedOrder
  <2>5. last' \in 0 .. MaxChunks /\ last' <= sent
    BY <2>3, Numbers
  <2>6. NoneIsNewer' /\ PumpPutsNewest'
    BY <2>1, <2>2, <2>3, <2>5 DEF Shortened
  <2>7. TypeOK'
    BY <2>1, <2>2, <2>3, <2>5 DEF Shortened
  <2>. QED BY <2>1, <2>4, <2>6, <2>7
<1>6. CASE Finished \/ UNCHANGED vars
  BY <1>6 DEF Finished, vars, ChunksInOrder
<1>. QED BY <1>1, <1>2, <1>3, <1>4, <1>5, <1>6 DEF Next, Consume

\* The invariant always holds.
THEOREM QueueInvariant == Spec => []QueueInv
BY InitQueue, StepQueue, PTL DEF Spec

\* Every variable has its type, and the queue stays within its limit.
THEOREM QueueTypes == Spec => []TypeOK
<1>1. QueueInv => TypeOK
  BY DEF QueueInv
<1>. QED BY <1>1, QueueInvariant, PTL

\* The consumer gets the chunks in the order the pump has read them, none twice,
\* however the threads' evictions race (session.py, _put_chunk).
THEOREM NeverOutOfOrder == Spec => []ChunksInOrder
<1>1. QueueInv => ChunksInOrder
  BY DEF QueueInv
<1>. QED BY <1>1, QueueInvariant, PTL

=============================================================================
