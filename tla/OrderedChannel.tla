--------------------------- MODULE OrderedChannel ---------------------------
(***************************************************************************)
(* One ordered reliable channel: the sender of ReliableSender and the      *)
(* channel branch of RecvDispatch at the other end.  The receiver accepts  *)
(* the next sequence number, keeps packets that arrive early in            *)
(* cachePackets until the gap closes, and acknowledges what it has.        *)
(* Session::RecvDispatch, Client::RecvDispatch and                         *)
(* InternalClient::RecvDispatch are the same code word for word.           *)
(***************************************************************************)
EXTENDS ReliableReceiver, Sequences

VARIABLES
  cachePackets,      \* the ring of packets that arrived early
  delivered          \* what PacketParse was called with, in order

receiverVars == <<receiverBase, cachePackets, delivered>>
vars == <<senderVars, data, acks, receiverVars>>

CachePacket == [isKeep : BOOLEAN, sequenceNo : SeqNo,
                buffer : {nullptr} \cup Payload]

Init ==
  /\ SenderInit
  /\ ReceiverInit
  /\ cachePackets = [i \in SlotIndex |->
                       [isKeep |-> FALSE, sequenceNo |-> 0, buffer |-> nullptr]]
  /\ delivered = << >>

-----------------------------------------------------------------------------
(* RecvDispatch, channel branch                                            *)

IsKept(seq) == /\ cachePackets[Slot(seq)].isKeep
               /\ cachePackets[Slot(seq)].sequenceNo = seq

RecvDuplicate(p) ==
  /\ AlreadyReceived(p.sequenceNo)
  /\ SendAck(p)
  /\ UNCHANGED receiverVars

\* A packet ahead of the next one is kept until the gap closes.
RecvAhead(p) ==
  LET seq == p.sequenceNo IN
  /\ IsAhead(seq)
  /\ lastRepeatSeq' = HighestSeen(seq)
  /\ \/ IsKept(seq) /\ UNCHANGED <<cachePackets, cacheRepeatCount>>
     \/ /\ ~IsKept(seq)
        /\ cachePackets' = [cachePackets EXCEPT ![Slot(seq)] =
              [isKeep |-> TRUE, sequenceNo |-> seq, buffer |-> p.payload]]
        /\ cacheRepeatCount' = cacheRepeatCount \cup {Bit(seq)}
  /\ SendAck(p)
  /\ UNCHANGED <<recvRepeatSeq, delivered>>

\* The next packet: hand it over, then the n kept packets that follow it
\* without a gap, no further than lastRepeatSeq.
RecvNext(p) ==
  LET seq == p.sequenceNo
      isLastUpdate == recvRepeatSeq = lastRepeatSeq
      ahead == USub(lastRepeatSeq, seq)
      Follower(k) == UAdd(seq, k)
  IN  /\ ~AlreadyReceived(seq)
      /\ IsNext(seq)
      /\ \E n \in 0 .. Window :
           /\ \A k \in 1 .. n : IsKept(Follower(k))
           /\ n <= ahead
           /\ n = ahead \/ ~IsKept(Follower(n + 1))
           /\ delivered' = delivered \o <<p.payload>>
                 \o [k \in 1 .. n |-> cachePackets[Slot(Follower(k))].buffer]
           /\ cachePackets' = [i \in SlotIndex |->
                 IF \E k \in 1 .. n : Slot(Follower(k)) = i
                 THEN [cachePackets[i] EXCEPT !.isKeep = FALSE, !.buffer = nullptr]
                 ELSE cachePackets[i]]
           /\ recvRepeatSeq' = UAdd(seq, n)
           /\ cacheRepeatCount' = ShiftRight(cacheRepeatCount, n + 1)
      /\ lastRepeatSeq' = IF isLastUpdate THEN recvRepeatSeq' ELSE lastRepeatSeq
      /\ SendAck(p)

RecvDispatch(p) ==
  /\ RecvDuplicate(p) \/ RecvAhead(p) \/ RecvNext(p)
  /\ UNCHANGED <<senderVars, data>>

\* SessionWorker::ProcessPacket, REPEAT branch: what a Client or an
\* InternalClient sent reaches a Session.
SessionRecvDispatch(p) == sender # "Session" /\ RecvDispatch(p)

\* OnRecvFrom of Client and of InternalClient, REPEAT branch: what a Session
\* sent reaches one of them.
ClientRecvDispatch(p) == sender = "Session" /\ RecvDispatch(p)

Next ==
  \/ SendPacket /\ UNCHANGED receiverVars
  \/ LosePacket /\ UNCHANGED receiverVars
  \/ \E due \in SUBSET SlotIndex : RepeatMessage(due) /\ UNCHANGED receiverVars
  \/ \E a \in acks : RecvDispatchACK(a) /\ UNCHANGED receiverVars
  \/ \E p \in data : SessionRecvDispatch(p) \/ ClientRecvDispatch(p)

Spec == Init /\ [][Next]_vars

\* The resend timer runs for ever and comes round to the oldest kept packet;
\* that packet, and its ACK, sent again and again are not lost every time.
OldestRepeated ==
  \E due \in SUBSET SlotIndex : /\ \E i \in due : IsOldest(i)
                               /\ RepeatMessage(due) /\ UNCHANGED receiverVars

OldestReceived ==
  \E i \in SlotIndex : /\ IsOldest(i) /\ KeptDatagram(i) \in data
                       /\ RecvDispatch(KeptDatagram(i))

OldestAcknowledged ==
  \E i \in SlotIndex : /\ IsOldest(i) /\ KeptDatagram(i) \in acks
                       /\ RecvDispatchACK(KeptDatagram(i)) /\ UNCHANGED receiverVars

FairSpec ==
  /\ Spec
  /\ WF_vars(OldestRepeated)
  /\ SF_vars(OldestReceived)
  /\ SF_vars(OldestAcknowledged)

-----------------------------------------------------------------------------
(* Properties                                                              *)

\* Types.  With SenderTypeOK and ReceiverTypeOK: RecvDispatch sets no bit
\* beyond the mask's width.
TypeOK ==
  /\ SenderTypeOK
  /\ ReceiverTypeOK
  /\ cachePackets \in [SlotIndex -> CachePacket]
  /\ delivered \in Seq(Payload)

Delivered == {delivered[i] : i \in 1 .. Len(delivered)}
Cached == {cachePackets[i].buffer : i \in {j \in SlotIndex : cachePackets[j].isKeep}}

\* The channel implements FifoDelivery: whatever is lost, repeated or
\* reordered below, and whatever a full window does above, RecvDispatch
\* calls PacketParse on the packets in sending order and once each.
Fifo == INSTANCE FifoDelivery WITH sent <- sent, delivered <- delivered
RefinesFifoDelivery == Fifo!Spec

\* AckProcess releases a packet only after the receiver has it: a packet the
\* sender accepted is still kept for retransmission, or the receiver has
\* delivered it or keeps it in its cache.
AcceptedPacketIsSafe ==
  isConnect =>
    \A n \in 1 .. sent :
      n \in overflowed \/ n \in Kept \/ n \in Delivered \/ n \in Cached

\* Every kept packet is one that RepeatMessage visits.  A packet outside the
\* visited range would never be sent again.  (AddPendingPacket advances
\* localSeqence by a plain >=: an overflow at the wrap would leave the next
\* kept packet outside, so this is about streams without overflow.)
KeptPacketIsRepeated ==
  overflowed = {} =>
    \A i \in SlotIndex :
      pendingPackets[i].buffer # nullptr => InRepeatRange(pendingPackets[i].sequenceNo)

\* The receiver's three records of what it holds agree: the mask, the cache
\* and lastRepeatSeq, which bounds the loop that empties the cache.
CacheAgreement ==
  /\ \A b \in SlotIndex :
       b \in cacheRepeatCount <=> IsKept(UAdd(recvRepeatSeq, b + 1))
  /\ Cardinality(Cached) = Cardinality(cacheRepeatCount)
  /\ lastRepeatSeq = UAdd(recvRepeatSeq,
                          IF cacheRepeatCount = {} THEN 0
                          ELSE 1 + CHOOSE b \in cacheRepeatCount :
                                     \A c \in cacheRepeatCount : c <= b)

\* A packet that was kept early leaves the cache only by being delivered;
\* storing another one never overwrites it.
CacheOnlyDrainsToDelivery ==
  [][\A i \in SlotIndex :
       cachePackets[i].isKeep /\ cachePackets'[i] # cachePackets[i]
         => \E k \in 1 .. Len(delivered') : delivered'[k] = cachePackets[i].buffer]_vars

\* The README's guarantee: a reliable packet passed to SendPacket is
\* eventually handed to the receiving application.
ReliablePacketArrives ==
  \A n \in Payload : sent >= n ~> Len(delivered) >= n

\* The window empties again: no packet is retransmitted for ever.
WindowDrains == \A n \in Payload : sent >= n ~> n \notin Kept
=============================================================================
