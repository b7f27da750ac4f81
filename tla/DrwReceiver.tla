---------------------------- MODULE DrwReceiver ----------------------------
(***************************************************************************)
(* The receiving half of a channel of CS2Session (cs2.py): _handle_data    *)
(* acknowledges every data packet, delivers the one it expects, keeps a    *)
(* bounded number of later ones and ignores the rest.  The network loses,  *)
(* duplicates and reorders; the camera is external: it sends a packet      *)
(* again until an acknowledgement for it arrives.                          *)
(*                                                                         *)
(* A packet is its index 0, 1, 2 ... in the stream; on the wire it carries *)
(* the index modulo SeqMod (2^16).  An operator with a suffix is a faulty  *)
(* variant that no action uses.                                            *)
(***************************************************************************)
EXTENDS Integers, Sequences, FiniteSets, FiniteSetsExt, Functions

CONSTANTS SeqMod,         \* 65536 in the code
          OooCap,         \* packets kept out of order at most (64 in the code)
          CameraWindow,   \* how far the camera runs ahead of its oldest packet
                          \* without an acknowledgement
          MaxAge,         \* bound: the network forgets older packets
          Total           \* bound: length of the stream

ASSUME DrwAssumption ==
    /\ SeqMod \in Nat /\ SeqMod % 2 = 0 /\ SeqMod > 2
    /\ OooCap \in Nat /\ CameraWindow \in Nat \ {0} /\ Total \in Nat
    /\ CameraWindow <= SeqMod \div 2
    /\ MaxAge \in Nat /\ MaxAge <= SeqMod \div 2

Packets == 0 .. Total - 1
SeqNumber(i) == i % SeqMod

VARIABLES
    next,        \* the packet the camera sends next
    unacked,     \* packets it has no acknowledgement for
    net,         \* data packets on their way
    acks,        \* acknowledgements on their way
    expected,    \* _incoming_sequence
    ooo,         \* _out_of_order: from sequence numbers to packets
    buffer,      \* what was delivered to _channel_buffers, in order
    missed       \* history: packets that found no room, and none since

vars == <<next, unacked, net, acks, expected, ooo, buffer, missed>>

Init ==
    /\ next = 0 /\ unacked = {} /\ net = {} /\ acks = {}
    /\ expected = 0 /\ ooo = <<>> /\ buffer = <<>> /\ missed = {}

-----------------------------------------------------------------------------
(* The camera and the network (external).                                  *)

\* Packets and acknowledgements that are too old get lost.
CameraSend ==
    /\ next < Total
    /\ \A i \in unacked : next - i < CameraWindow
    /\ next' = next + 1
    /\ unacked' = unacked \cup {next}
    /\ net' = {i \in net \cup {next} : next - i < MaxAge}
    /\ acks' = {i \in acks : next - i < MaxAge}
    /\ UNCHANGED <<expected, ooo, buffer, missed>>

CameraResend(i) ==
    /\ i \in unacked \ net
    /\ net' = net \cup {i}
    /\ UNCHANGED <<next, unacked, acks, expected, ooo, buffer, missed>>

CameraAck(i) ==
    /\ i \in acks
    /\ unacked' = unacked \ {i}
    /\ acks' = acks \ {i}
    /\ UNCHANGED <<next, net, expected, ooo, buffer, missed>>

Lose(i) ==
    /\ i \in net \cup acks
    /\ net' = net \ {i} /\ acks' = acks \ {i}
    /\ UNCHANGED <<next, unacked, expected, ooo, buffer, missed>>

-----------------------------------------------------------------------------
(* _handle_data.                                                           *)

\* How many of the kept packets follow the expected one without a gap.
Following ==
    Max({n \in 0 .. Cardinality(DOMAIN ooo) :
            \A k \in 1 .. n : SeqNumber(expected + k) \in DOMAIN ooo})

Deliver_KeepsStored(i) ==
    /\ buffer' = buffer \o <<i>> \o
           [k \in 1 .. Following |-> ooo[SeqNumber(expected + k)]]
    /\ expected' = SeqNumber(expected + 1)
    /\ UNCHANGED ooo

\* The expected packet, and the kept ones that follow it.
Deliver(i) ==
    /\ buffer' = buffer \o <<i>> \o
           [k \in 1 .. Following |-> ooo[SeqNumber(expected + k)]]
    /\ expected' = SeqNumber(expected + 1 + Following)
    /\ ooo' = Restrict(ooo, DOMAIN ooo \
           {SeqNumber(expected + k) : k \in 1 .. Following})

Distance(i) == (SeqNumber(i) - expected) % SeqMod

\* The wrap-around: the other half of the numbers belongs to old packets.
IsAhead(i) == Distance(i) > 0 /\ Distance(i) < SeqMod \div 2

CanKeep_OneLess(i) ==
    /\ SeqNumber(i) \notin DOMAIN ooo
    /\ Cardinality(DOMAIN ooo) < OooCap - 1
    /\ IsAhead(i)

\* A packet ahead of the expected one is kept if there is room.
CanKeep(i) ==
    /\ SeqNumber(i) \notin DOMAIN ooo
    /\ Cardinality(DOMAIN ooo) < OooCap
    /\ IsAhead(i)

Acknowledge_OnlyNew(i) ==
    acks' = IF SeqNumber(i) = expected \/ CanKeep(i) THEN acks \cup {i} ELSE acks

Acknowledge(i) == acks' = acks \cup {i}

\* Sixty-four later packets are kept already.
NoRoom(i) ==
    /\ SeqNumber(i) \notin DOMAIN ooo
    /\ Cardinality(DOMAIN ooo) >= OooCap
    /\ IsAhead(i)

\* The acknowledgement is sent first, whatever becomes of the packet; the
\* network may have a duplicate.
HandleData(i) ==
    /\ i \in net
    /\ net' \in {net, net \ {i}}
    /\ Acknowledge(i)
    /\ \/ /\ SeqNumber(i) = expected
          /\ Deliver(i)
          /\ missed' = missed \ {i}
       \/ /\ SeqNumber(i) # expected /\ CanKeep(i)
          /\ ooo' = [s \in DOMAIN ooo \cup {SeqNumber(i)} |->
                        IF s \in DOMAIN ooo THEN ooo[s] ELSE i]
          /\ missed' = missed \ {i}
          /\ UNCHANGED <<expected, buffer>>
       \/ /\ SeqNumber(i) # expected /\ ~CanKeep(i)
          /\ missed' = IF NoRoom(i) THEN missed \cup {i} ELSE missed
          /\ UNCHANGED <<expected, ooo, buffer>>
    /\ UNCHANGED <<next, unacked>>

\* The whole stream arrived and every acknowledgement too.
Finished == next = Total /\ unacked = {} /\ net = {} /\ acks = {}
            /\ UNCHANGED vars

Next == \/ CameraSend
        \/ \E i \in Packets : \/ CameraResend(i) \/ CameraAck(i) \/ Lose(i)
                              \/ HandleData(i)
        \/ Finished

\* The camera sends, and sends its oldest packet without an acknowledgement
\* again; that packet and its acknowledgement do not get lost every time.
Oldest(i) == i \in unacked /\ \A j \in unacked : i <= j
Fairness ==
    /\ WF_vars(CameraSend)
    /\ WF_vars(\E i \in Packets : Oldest(i) /\ CameraResend(i))
    /\ SF_vars(\E i \in Packets : Oldest(i) /\ HandleData(i))
    /\ SF_vars(\E i \in Packets : Oldest(i) /\ CameraAck(i))

Spec == Init /\ [][Next]_vars
FairSpec == Spec /\ Fairness

-----------------------------------------------------------------------------
(* Properties.                                                             *)

\* A packet that found no room is gone for good when the numbers have come half
\* way round since: the camera has its acknowledgement, and no copy is under way.
Gone == {d \in missed : next - d > SeqMod \div 2}

\* The channel is ordered: what was delivered is a prefix of what the camera
\* sent, without a gap, a repetition or a packet out of place, also after the
\* numbers wrapped.  Only behind a packet that is gone may it be something else:
\* the receiver takes a packet of the next round for it.
DeliveredInOrder ==
    \A k \in DOMAIN buffer : buffer[k] = k - 1 \/ \E d \in Gone : d < k

\* The channel is reliable but for its limit: a packet the camera will not send
\* again was delivered or is kept, unless it was acknowledged and found no room,
\* or comes after one that is gone.
AckedIsHeld ==
    \A i \in 0 .. next - 1 :
        \/ i \in unacked \cup Range(buffer) \cup Range(ooo) \cup missed
        \/ \E d \in Gone : d < i

\* Everything the camera sends is delivered in the end, unless it takes a packet
\* that found no room for received.
AllDelivered == <>(Len(buffer) = Total \/ missed \ unacked # {})
=============================================================================
