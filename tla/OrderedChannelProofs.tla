------------------------ MODULE OrderedChannelProofs ------------------------
(***************************************************************************)
(* The ordered channel, for every modulus, window, number of packets and   *)
(* for each of the three senders: it keeps its types; a packet kept early  *)
(* leaves the receiver's cache only by being delivered; a slot is released *)
(* only for a packet the receiver has; what is kept is repeated and is     *)
(* still acceptable; the three records of early packets agree; and the     *)
(* channel implements FifoDelivery.                                        *)
(*                                                                         *)
(* The first two need types and CacheWithinReach only.  The others rest on *)
(* ChannelInvariant, which states both ends in packets, not in numbers.    *)
(***************************************************************************)
EXTENDS OrderedChannel, ReliableStreamProofs, SequenceTheorems

\* A cache slot marked isKeep has a packet in it: what RecvNext hands to
\* PacketParse is never a null buffer.
KeptSlotHasPacket ==
  \A i \in SlotIndex : cachePackets[i].isKeep => cachePackets[i].buffer \in Payload

ChannelTypes == TypeOK /\ KeptSlotHasPacket

\* The initial state, after Reset or further on.
LEMMA ChannelTypesInit == Init => ChannelTypes
<1> SUFFICES ASSUME Init PROVE ChannelTypes
  OBVIOUS
<1>1. 0 \in SeqNo /\ StartSeq \in SeqNo
  BY SeqModAssumption DEF SeqNo
<1>2. SenderTypeOK
  BY SenderInitType DEF Init
<1>3. ReceiverTypeOK
  BY <1>1 DEF Init, ReceiverInit, ReceiverTypeOK
<1> QED
  BY <1>1, <1>2, <1>3
     DEF Init, ChannelTypes, TypeOK, KeptSlotHasPacket, CachePacket

\* A packet kept early.
LEMMA RecvAheadTypes ==
  ASSUME ChannelTypes, NEW p \in Datagram, RecvAhead(p)
  PROVE  /\ ReceiverTypeOK'
         /\ cachePackets' \in [SlotIndex -> CachePacket]
         /\ KeptSlotHasPacket'
<1>1. p.sequenceNo \in SeqNo /\ p.payload \in Payload
  BY DEF Datagram
<1>2. Slot(p.sequenceNo) \in SlotIndex /\ Bit(p.sequenceNo) \in SlotIndex
  BY <1>1, SlotType, BitType DEF ChannelTypes, TypeOK, RecvAhead
<1>3. ReceiverTypeOK'
  BY <1>1, <1>2 DEF ChannelTypes, TypeOK, ReceiverTypeOK, RecvAhead, HighestSeen
<1>4. cachePackets' \in [SlotIndex -> CachePacket]
  <2> DEFINE rec == [isKeep |-> TRUE, sequenceNo |-> p.sequenceNo,
                     buffer |-> p.payload]
  <2>1. rec \in CachePacket
    BY <1>1 DEF CachePacket
  <2>2. \/ cachePackets' = cachePackets
        \/ cachePackets' = [cachePackets EXCEPT ![Slot(p.sequenceNo)] = rec]
    BY DEF RecvAhead
  <2> HIDE DEF rec
  <2> QED
    BY <1>2, <2>1, <2>2 DEF ChannelTypes, TypeOK
<1>5. KeptSlotHasPacket'
  BY <1>1, <1>2 DEF ChannelTypes, TypeOK, RecvAhead, KeptSlotHasPacket, CachePacket
<1> QED
  BY <1>3, <1>4, <1>5

\* The next packet and the run of kept packets behind it.
LEMMA RecvNextTypes ==
  ASSUME ChannelTypes, NEW p \in Datagram, RecvNext(p)
  PROVE  /\ ReceiverTypeOK'
         /\ cachePackets' \in [SlotIndex -> CachePacket]
         /\ delivered' \in Seq(Payload)
         /\ KeptSlotHasPacket'
<1> DEFINE seq == p.sequenceNo
           Follower(k) == UAdd(seq, k)
           Run(n) == [k \in 1 .. n |-> cachePackets[Slot(Follower(k))].buffer]
<1>1. seq \in SeqNo /\ p.payload \in Payload
  BY DEF Datagram
<1>2. PICK n \in 0 .. Window :
        /\ \A k \in 1 .. n : IsKept(Follower(k))
        /\ delivered' = delivered \o <<p.payload>> \o Run(n)
        /\ cachePackets' = [i \in SlotIndex |->
              IF \E k \in 1 .. n : Slot(Follower(k)) = i
              THEN [cachePackets[i] EXCEPT !.isKeep = FALSE, !.buffer = nullptr]
              ELSE cachePackets[i]]
        /\ recvRepeatSeq' = UAdd(seq, n)
        /\ cacheRepeatCount' = ShiftRight(cacheRepeatCount, n + 1)
  BY DEF RecvNext
<1>a. n \in Nat /\ n <= Window /\ n + 1 \in Nat
  BY SeqModAssumption
<1>3. recvRepeatSeq' \in SeqNo
  BY <1>1, <1>2, UAddType, SmallDistances
<1>4. lastRepeatSeq' \in SeqNo
  BY <1>3 DEF ChannelTypes, TypeOK, ReceiverTypeOK, RecvNext
<1>5. cacheRepeatCount' \subseteq SlotIndex
  BY <1>2, <1>a, ShiftRightType DEF ChannelTypes, TypeOK, ReceiverTypeOK
<1>6. cachePackets' \in [SlotIndex -> CachePacket]
  BY <1>2 DEF ChannelTypes, TypeOK, CachePacket
<1>7. KeptSlotHasPacket'
  BY <1>2 DEF ChannelTypes, TypeOK, KeptSlotHasPacket, CachePacket
<1>8. \A k \in 1 .. n : Slot(Follower(k)) \in SlotIndex
  <2> TAKE k \in 1 .. n
  <2>1. k \in SeqNo
    BY <1>a, SeqModAssumption DEF SeqNo
  <2> QED
    BY <1>1, <2>1, UAddType, SlotType
<1>9. \A k \in 1 .. n : cachePackets[Slot(Follower(k))].buffer \in Payload
  BY <1>2, <1>8 DEF ChannelTypes, KeptSlotHasPacket, IsKept
<1>10. Run(n) \in Seq(Payload)
  BY <1>a, <1>9
<1>11. delivered' \in Seq(Payload)
  <2>1. delivered \in Seq(Payload) /\ <<p.payload>> \in Seq(Payload)
    BY <1>1 DEF ChannelTypes, TypeOK
  <2>2. delivered \o <<p.payload>> \in Seq(Payload)
    BY <2>1
  <2>3. delivered' = (delivered \o <<p.payload>>) \o Run(n)
    BY <1>2
  <2> HIDE DEF Run
  <2> QED
    BY <1>10, <2>2, <2>3
<1> QED
  BY <1>3, <1>4, <1>5, <1>6, <1>7, <1>11 DEF ReceiverTypeOK

\* RecvDispatch as a whole, with its ACK.
LEMMA RecvDispatchTypes ==
  ASSUME ChannelTypes, NEW p \in data, RecvDispatch(p)
  PROVE  ChannelTypes'
<1>1. p \in Datagram
  BY DEF ChannelTypes, TypeOK, SenderTypeOK
<1>2. acks' = acks \cup {p}
  BY DEF RecvDispatch, RecvDuplicate, RecvAhead, RecvNext, SendAck
<1>3. SenderTypeOK'
  BY <1>1, <1>2 DEF ChannelTypes, TypeOK, SenderTypeOK, RecvDispatch, senderVars
<1>4. CASE RecvDuplicate(p)
  BY <1>3, <1>4 DEF RecvDuplicate, ChannelTypes, TypeOK, ReceiverTypeOK,
                    KeptSlotHasPacket, receiverVars, receiverBase
<1>5. CASE RecvAhead(p)
  BY <1>1, <1>3, <1>5, RecvAheadTypes DEF RecvAhead, ChannelTypes, TypeOK
<1>6. CASE RecvNext(p)
  BY <1>1, <1>3, <1>6, RecvNextTypes DEF ChannelTypes, TypeOK
<1> QED
  BY <1>4, <1>5, <1>6 DEF RecvDispatch

\* Every step of the channel keeps ChannelTypes.
LEMMA ChannelTypesStep == ChannelTypes /\ [Next]_vars => ChannelTypes'
<1> SUFFICES ASSUME ChannelTypes, [Next]_vars PROVE ChannelTypes'
  OBVIOUS
<1>1. CASE UNCHANGED vars
  BY <1>1 DEF vars, senderVars, receiverVars, receiverBase, ChannelTypes, TypeOK,
              SenderTypeOK, ReceiverTypeOK, KeptSlotHasPacket
<1>2. CASE /\ \/ SendPacket
              \/ LosePacket
              \/ \E due \in SUBSET SlotIndex : RepeatMessage(due)
              \/ \E a \in acks : RecvDispatchACK(a)
           /\ UNCHANGED receiverVars
  <2>1. SenderTypeOK'
    BY <1>2, SenderStepType DEF ChannelTypes, TypeOK
  <2> QED
    BY <1>2, <2>1 DEF ChannelTypes, TypeOK, ReceiverTypeOK, KeptSlotHasPacket,
                      receiverVars, receiverBase
<1>3. ASSUME NEW p \in data, SessionRecvDispatch(p) \/ ClientRecvDispatch(p)
      PROVE  ChannelTypes'
  BY <1>3, RecvDispatchTypes DEF SessionRecvDispatch, ClientRecvDispatch
<1> QED
  BY <1>1, <1>2, <1>3 DEF Next

\* Sequence numbers stay in Uint32, the mask in its bits, array indices in
\* their arrays, and PacketParse is only called with packets that were sent.
THEOREM ChannelTypeCorrect == Spec => []TypeOK
<1>1. Spec => []ChannelTypes
  BY ChannelTypesInit, ChannelTypesStep, PTL DEF Spec
<1>2. ChannelTypes => TypeOK
  BY DEF ChannelTypes
<1> QED
  BY <1>1, <1>2, PTL

-----------------------------------------------------------------------------
(* The cache of packets that arrived early                                 *)

\* Every kept packet is in the slot of its number, further ahead than the
\* next packet, and no further than lastRepeatSeq, which is itself within the
\* window.  Without the last part the loop of RecvNext would stop short and
\* leave packets behind recvRepeatSeq; without the first, RecvAhead would
\* overwrite one kept packet with another.
CacheWithinReach ==
  /\ USub(lastRepeatSeq, recvRepeatSeq) < Window
  /\ \A i \in SlotIndex : cachePackets[i].isKeep =>
       LET seq == cachePackets[i].sequenceNo IN
       /\ Slot(seq) = i
       /\ USub(seq, recvRepeatSeq) >= 2
       /\ USub(seq, recvRepeatSeq) <= USub(lastRepeatSeq, recvRepeatSeq)

CacheInvariant == ChannelTypes /\ CacheWithinReach

\* A packet that may be kept early is 2 to Window - 1 ahead.
LEMMA AheadDistance ==
  ASSUME ReceiverTypeOK, NEW seq \in SeqNo, IsAhead(seq)
  PROVE  USub(seq, recvRepeatSeq) \in 2 .. Window - 1
<1>1. USub(seq, recvRepeatSeq) \in SeqNo /\ USub(seq, recvRepeatSeq) < Window
  BY USubType DEF ReceiverTypeOK, IsAhead, WithinWindow
<1>2. USub(seq, recvRepeatSeq) # 0
  BY SeqModAssumption DEF IsAhead, AlreadyReceived, USub, ReceiverTypeOK, SeqNo
<1>3. USub(seq, recvRepeatSeq) # 1
  BY SeqModAssumption DEF IsAhead, IsNext, USub, UAdd, ReceiverTypeOK, SeqNo
<1> QED
  BY <1>1, <1>2, <1>3, SeqModAssumption DEF SeqNo

\* A slot RecvAhead writes is free: the packet it keeps would be the same one.
LEMMA RecvAheadSlotFree ==
  ASSUME CacheInvariant, NEW p \in Datagram, IsAhead(p.sequenceNo),
         cachePackets[Slot(p.sequenceNo)].isKeep
  PROVE  IsKept(p.sequenceNo)
<1> DEFINE i == Slot(p.sequenceNo)
           seq == cachePackets[i].sequenceNo
<1>1. p.sequenceNo \in SeqNo /\ recvRepeatSeq \in SeqNo /\ lastRepeatSeq \in SeqNo
  BY DEF Datagram, CacheInvariant, ChannelTypes, TypeOK, ReceiverTypeOK
<1>2. i \in SlotIndex
  BY <1>1, SlotType
<1>3. seq \in SeqNo
  BY <1>2 DEF CacheInvariant, ChannelTypes, TypeOK, CachePacket
<1>4. Slot(seq) = i
  BY <1>2 DEF CacheInvariant, CacheWithinReach
<1>5. USub(seq, recvRepeatSeq) < Window
  <2>1. /\ USub(seq, recvRepeatSeq) <= USub(lastRepeatSeq, recvRepeatSeq)
        /\ USub(lastRepeatSeq, recvRepeatSeq) < Window
    BY <1>2 DEF CacheInvariant, CacheWithinReach
  <2>2. USub(seq, recvRepeatSeq) \in SeqNo /\ USub(lastRepeatSeq, recvRepeatSeq) \in SeqNo
    BY <1>1, <1>3, USubType
  <2> QED
    BY <2>1, <2>2, SeqModAssumption DEF SeqNo
<1>6. USub(p.sequenceNo, recvRepeatSeq) < Window
  BY DEF IsAhead, WithinWindow
<1>7. seq = p.sequenceNo
  BY <1>1, <1>3, <1>4, <1>5, <1>6, SlotUnique
<1> QED
  BY <1>7 DEF IsKept

\* lastRepeatSeq becomes the further ahead of the two numbers, although the
\* test in the code compares them with each other and not with recvRepeatSeq:
\* the window is at most half of the number space.
LEMMA HighestSeenIsFurthest ==
  ASSUME NEW r \in SeqNo, NEW l \in SeqNo, NEW seq \in SeqNo,
         USub(l, r) < Window, USub(seq, r) < Window
  PROVE  USub(seq, l) < Window <=> USub(seq, r) >= USub(l, r)
BY SeqModAssumption DEF USub, SeqNo

\* RecvAhead keeps the cache within reach.
LEMMA RecvAheadReach ==
  ASSUME CacheInvariant, NEW p \in Datagram, RecvAhead(p)
  PROVE  CacheWithinReach'
<1> DEFINE seq == p.sequenceNo
           Distance(n) == USub(n, recvRepeatSeq)
<1>1. seq \in SeqNo /\ recvRepeatSeq \in SeqNo /\ lastRepeatSeq \in SeqNo
  BY DEF Datagram, CacheInvariant, ChannelTypes, TypeOK, ReceiverTypeOK
<1>2. Slot(seq) \in SlotIndex
  BY <1>1, SlotType
<1>3. Distance(seq) \in 2 .. Window - 1
  BY <1>1, AheadDistance DEF RecvAhead, CacheInvariant, ChannelTypes, TypeOK
<1>4. Distance(lastRepeatSeq) \in SeqNo /\ Distance(lastRepeatSeq) < Window
  BY <1>1, USubType DEF CacheInvariant, CacheWithinReach
<1>5. recvRepeatSeq' = recvRepeatSeq /\ lastRepeatSeq' = HighestSeen(seq)
  BY DEF RecvAhead
<1>6. USub(seq, lastRepeatSeq) < Window <=> Distance(seq) >= Distance(lastRepeatSeq)
  <2>1. Distance(seq) < Window
    BY <1>3, SeqModAssumption
  <2> QED
    BY <1>1, <1>4, <2>1, HighestSeenIsFurthest
<1>7. /\ Distance(lastRepeatSeq') < Window
      /\ Distance(lastRepeatSeq') >= Distance(lastRepeatSeq)
      /\ Distance(lastRepeatSeq') >= Distance(seq)
  <2>1. CASE USub(seq, lastRepeatSeq) < Window
    <3>1. lastRepeatSeq' = seq
      BY <1>5, <2>1 DEF HighestSeen
    <3> HIDE DEF Distance
    <3> QED
      BY <1>3, <1>6, <2>1, <3>1, SeqModAssumption DEF SeqNo
  <2>2. CASE ~(USub(seq, lastRepeatSeq) < Window)
    <3>1. lastRepeatSeq' = lastRepeatSeq
      BY <1>5, <2>2 DEF HighestSeen
    <3> HIDE DEF Distance
    <3> QED
      BY <1>3, <1>4, <1>6, <2>2, <3>1, SeqModAssumption DEF SeqNo
  <2> QED
    BY <2>1, <2>2
<1>8. Distance(lastRepeatSeq') \in SeqNo
  <2>1. lastRepeatSeq' \in SeqNo
    BY <1>1, <1>5 DEF HighestSeen
  <2> QED
    BY <1>1, <2>1, USubType
<1>9. ASSUME NEW i \in SlotIndex, cachePackets[i]'.isKeep
      PROVE  LET s == cachePackets[i]'.sequenceNo IN
             /\ Slot(s) = i
             /\ Distance(s) >= 2
             /\ Distance(s) <= Distance(lastRepeatSeq')
  <2>1. CASE cachePackets'[i] = cachePackets[i]
    <3> DEFINE s == cachePackets[i].sequenceNo
    <3>1. Slot(s) = i /\ Distance(s) >= 2 /\ Distance(s) <= Distance(lastRepeatSeq)
      BY <1>9, <2>1 DEF CacheInvariant, CacheWithinReach
    <3>2. Distance(s) \in SeqNo
      BY <1>1, USubType DEF CacheInvariant, ChannelTypes, TypeOK, CachePacket
    <3> HIDE DEF Distance
    <3>3. Distance(s) <= Distance(lastRepeatSeq')
      BY <1>4, <1>7, <1>8, <3>1, <3>2, SeqModAssumption DEF SeqNo
    <3> QED
      BY <2>1, <3>1, <3>3
  <2>2. CASE cachePackets'[i] # cachePackets[i]
    <3>1. i = Slot(seq) /\ cachePackets'[i].sequenceNo = seq
      BY <1>2, <2>2 DEF RecvAhead, CacheInvariant, ChannelTypes, TypeOK
    <3>2. Distance(seq) >= 2
      BY <1>3, SeqModAssumption
    <3> HIDE DEF Distance
    <3> QED
      BY <1>7, <3>1, <3>2
  <2> QED
    BY <2>1, <2>2
<1> QED
  BY <1>5, <1>7, <1>9 DEF CacheWithinReach

\* Moving on by m brings what lies ahead nearer by m.
LEMMA Nearer ==
  ASSUME NEW r \in SeqNo, NEW x \in SeqNo, NEW m \in SeqNo, m <= USub(x, r)
  PROVE  USub(x, UAdd(r, m)) = USub(x, r) - m
BY SeqModAssumption DEF USub, UAdd, SeqNo

\* The next number after UAdd(seq, k).
LEMMA UAddNext ==
  ASSUME NEW r \in SeqNo, NEW k \in SeqNo, k + 1 \in SeqNo
  PROVE  UAdd(UAdd(r, 1), k) = UAdd(r, k + 1)
BY SeqModAssumption DEF UAdd, SeqNo

\* RecvNext empties the slots of all the numbers it passes, so what stays kept
\* is still ahead, and the packet it stops before is not kept.
LEMMA RecvNextReach ==
  ASSUME CacheInvariant, NEW p \in Datagram, RecvNext(p)
  PROVE  CacheWithinReach'
<1> DEFINE r == recvRepeatSeq
           seq == p.sequenceNo
           Follower(k) == UAdd(seq, k)
           D == USub(lastRepeatSeq, r)
<1>1. r \in SeqNo /\ lastRepeatSeq \in SeqNo /\ seq = UAdd(r, 1)
  BY DEF CacheInvariant, ChannelTypes, TypeOK, ReceiverTypeOK, RecvNext, IsNext
<1>2. PICK n \in 0 .. Window :
        /\ n <= USub(lastRepeatSeq, seq)
        /\ n = USub(lastRepeatSeq, seq) \/ ~IsKept(Follower(n + 1))
        /\ cachePackets' = [i \in SlotIndex |->
              IF \E k \in 1 .. n : Slot(Follower(k)) = i
              THEN [cachePackets[i] EXCEPT !.isKeep = FALSE, !.buffer = nullptr]
              ELSE cachePackets[i]]
        /\ recvRepeatSeq' = UAdd(seq, n)
  BY DEF RecvNext
<1>3. lastRepeatSeq' = IF r = lastRepeatSeq THEN recvRepeatSeq' ELSE lastRepeatSeq
  BY DEF RecvNext
<1>4. recvRepeatSeq' \in SeqNo
  BY RecvNextTypes DEF CacheInvariant, ReceiverTypeOK
<1>5. ASSUME NEW i \in SlotIndex, cachePackets[i]'.isKeep
      PROVE  /\ cachePackets'[i] = cachePackets[i]
             /\ \A k \in 1 .. n : Slot(Follower(k)) # i
  BY <1>2, <1>5 DEF CacheInvariant, ChannelTypes, TypeOK, CachePacket
<1>6. ASSUME NEW i \in SlotIndex, cachePackets[i].isKeep
      PROVE  LET s == cachePackets[i].sequenceNo IN
             s \in SeqNo /\ Slot(s) = i /\ USub(s, r) >= 2 /\ USub(s, r) <= D
  BY <1>6 DEF CacheInvariant, CacheWithinReach, ChannelTypes, TypeOK, CachePacket
<1>7. D \in SeqNo /\ D < Window
  BY <1>1, USubType DEF CacheInvariant, CacheWithinReach
<1>8. CASE r = lastRepeatSeq
  <2>1. D = 0
    BY <1>1, <1>8, SeqModAssumption DEF USub, SeqNo
  <2>2. \A i \in SlotIndex : ~cachePackets[i].isKeep
    <3> SUFFICES ASSUME NEW i \in SlotIndex, cachePackets[i].isKeep PROVE FALSE
      OBVIOUS
    <3>1. USub(cachePackets[i].sequenceNo, r) \in SeqNo
      BY <1>1, <1>6, USubType
    <3> HIDE DEF D
    <3> QED
      BY <1>6, <2>1, <3>1, SeqModAssumption DEF SeqNo
  <2>3. USub(lastRepeatSeq', recvRepeatSeq') < Window
    <3>1. lastRepeatSeq' = recvRepeatSeq'
      BY <1>3, <1>8
    <3>2. USub(recvRepeatSeq', recvRepeatSeq') = 0
      BY <1>4, USubSelf
    <3> QED
      BY <3>1, <3>2, SeqModAssumption
  <2> QED
    BY <1>5, <2>2, <2>3 DEF CacheWithinReach
<1>9. CASE r # lastRepeatSeq
  <2>1. lastRepeatSeq' = lastRepeatSeq
    BY <1>3, <1>9
  <2>2. 1 <= D
    BY <1>1, <1>9, SeqModAssumption DEF USub, SeqNo
  <2>3. USub(lastRepeatSeq, seq) = D - 1
    BY <1>1, <2>2, Nearer, SmallDistances
  <2>4. n \in Nat /\ n + 1 <= D /\ n \in SeqNo /\ n + 1 \in SeqNo
    <3>1. n <= D - 1
      BY <1>2, <2>3
    <3> HIDE DEF D
    <3> QED
      BY <1>7, <3>1, SeqModAssumption DEF SeqNo
  <2>5. recvRepeatSeq' = UAdd(r, n + 1)
    BY <1>1, <1>2, <2>4, UAddNext
  <2>6. USub(lastRepeatSeq, recvRepeatSeq') = D - (n + 1)
    BY <1>1, <2>4, <2>5, Nearer
  <2>7. ASSUME NEW i \in SlotIndex, cachePackets[i]'.isKeep
        PROVE  LET s == cachePackets[i]'.sequenceNo IN
               /\ Slot(s) = i
               /\ USub(s, recvRepeatSeq') >= 2
               /\ USub(s, recvRepeatSeq') <= USub(lastRepeatSeq', recvRepeatSeq')
    <3> DEFINE s == cachePackets[i].sequenceNo
               d == USub(s, r)
    <3>1. cachePackets'[i] = cachePackets[i] /\ \A k \in 1 .. n : Slot(Follower(k)) # i
      BY <1>5, <2>7
    <3>2. s \in SeqNo /\ Slot(s) = i /\ d >= 2 /\ d <= D
      BY <1>6, <2>7, <3>1
    <3>3. d \in SeqNo /\ s = UAdd(r, d)
      BY <1>1, <3>2, USubType, UAddUSub
    <3>4. d - 1 \in SeqNo
      <4> HIDE DEF d
      <4> QED
        BY <3>2, <3>3, SeqModAssumption DEF SeqNo
    <3>5. s = Follower(d - 1)
      <4>1. (d - 1) + 1 = d
        BY <3>3 DEF SeqNo
      <4> HIDE DEF d
      <4> QED
        BY <1>1, <3>3, <3>4, <4>1, UAddNext
    <3>6. ~(d <= n + 1)
      <4> SUFFICES ASSUME d <= n + 1 PROVE FALSE
        OBVIOUS
      <4>1. d - 1 \in 1 .. n
        <5> HIDE DEF d
        <5> QED
          BY <2>4, <3>2, <3>3, SeqModAssumption DEF SeqNo
      <4> QED
        BY <3>1, <3>2, <3>5, <4>1
    <3>7. d # n + 2
      <4> SUFFICES ASSUME d = n + 2 PROVE FALSE
        OBVIOUS
      <4>1. s = Follower(n + 1)
        BY <2>4, <3>5, d - 1 = n + 1
      <4>2. IsKept(Follower(n + 1))
        BY <2>7, <3>1, <3>2, <4>1 DEF IsKept
      <4>3. n = D - 1
        BY <1>2, <2>3, <4>2
      <4> HIDE DEF d, D
      <4> QED
        BY <1>7, <2>4, <3>2, <4>3 DEF SeqNo
    <3>8. n + 1 <= d /\ d - (n + 1) >= 2 /\ d - (n + 1) <= D - (n + 1)
      <4> HIDE DEF d, D
      <4> QED
        BY <1>7, <2>4, <3>2, <3>3, <3>6, <3>7, SeqModAssumption DEF SeqNo
    <3>9. USub(s, recvRepeatSeq') = d - (n + 1)
      BY <1>1, <2>4, <2>5, <3>2, <3>8, Nearer
    <3> HIDE DEF d, D
    <3> QED
      BY <2>1, <2>6, <3>1, <3>2, <3>8, <3>9
  <2>8. USub(lastRepeatSeq', recvRepeatSeq') < Window
    <3> HIDE DEF D
    <3> QED
      BY <1>7, <2>1, <2>4, <2>6, SeqModAssumption DEF SeqNo
  <2> QED
    BY <2>7, <2>8 DEF CacheWithinReach
<1> QED
  BY <1>8, <1>9

\* Every step keeps the cache within reach, whoever sends and whatever is lost,
\* repeated or reordered.
LEMMA CacheInvariantInit == Init => CacheInvariant
<1> SUFFICES ASSUME Init PROVE CacheInvariant
  OBVIOUS
<1>1. USub(lastRepeatSeq, recvRepeatSeq) = 0
  BY SeqModAssumption DEF Init, ReceiverInit, USub
<1> QED
  BY <1>1, ChannelTypesInit, SeqModAssumption DEF Init, CacheInvariant, CacheWithinReach

\* Every step of the channel keeps CacheInvariant.
LEMMA CacheInvariantStep == CacheInvariant /\ [Next]_vars => CacheInvariant'
<1> SUFFICES ASSUME CacheInvariant, [Next]_vars PROVE CacheInvariant'
  OBVIOUS
<1>1. ChannelTypes'
  BY ChannelTypesStep DEF CacheInvariant
<1>2. CASE UNCHANGED receiverVars
  BY <1>1, <1>2 DEF CacheInvariant, CacheWithinReach, receiverVars, receiverBase
<1>3. ASSUME NEW p \in data, RecvAhead(p) \/ RecvNext(p)
      PROVE  CacheInvariant'
  <2>1. p \in Datagram
    BY DEF CacheInvariant, ChannelTypes, TypeOK, SenderTypeOK
  <2> QED
    BY <1>1, <1>3, <2>1, RecvAheadReach, RecvNextReach DEF CacheInvariant
<1>4. UNCHANGED receiverVars \/ \E p \in data : RecvAhead(p) \/ RecvNext(p)
  BY DEF Next, vars, SessionRecvDispatch, ClientRecvDispatch, RecvDispatch,
         RecvDuplicate
<1> QED
  BY <1>2, <1>3, <1>4

\* A packet RecvDispatch has acknowledged and kept leaves the cache only by
\* being handed to PacketParse: RecvAhead never overwrites it, and the loop in
\* RecvNext never drops it.
THEOREM CacheDrains == Spec => CacheOnlyDrainsToDelivery
<1> DEFINE Drains(i) ==
      cachePackets[i].isKeep /\ cachePackets'[i] # cachePackets[i]
        => \E k \in 1 .. Len(delivered') : delivered'[k] = cachePackets[i].buffer
<1>1. ASSUME CacheInvariant, NEW p \in data, RecvAhead(p), NEW i \in SlotIndex
      PROVE  Drains(i)
  <2>1. p \in Datagram
    BY <1>1 DEF CacheInvariant, ChannelTypes, TypeOK, SenderTypeOK
  <2>2. ASSUME cachePackets'[i] # cachePackets[i]
        PROVE  i = Slot(p.sequenceNo) /\ ~IsKept(p.sequenceNo) /\ IsAhead(p.sequenceNo)
    BY <1>1, <2>2 DEF RecvAhead, CacheInvariant, ChannelTypes, TypeOK
  <2> QED
    BY <1>1, <2>1, <2>2, RecvAheadSlotFree
<1>2. ASSUME CacheInvariant, NEW p \in data, RecvNext(p), NEW i \in SlotIndex
      PROVE  Drains(i)
  <2> SUFFICES ASSUME cachePackets'[i] # cachePackets[i]
      PROVE  \E k \in 1 .. Len(delivered') : delivered'[k] = cachePackets[i].buffer
    OBVIOUS
  <2> DEFINE Follower(k) == UAdd(p.sequenceNo, k)
             Run(n) == [k \in 1 .. n |-> cachePackets[Slot(Follower(k))].buffer]
  <2>1. PICK n \in 0 .. Window :
          /\ delivered' = (delivered \o <<p.payload>>) \o Run(n)
          /\ cachePackets' = [j \in SlotIndex |->
                IF \E k \in 1 .. n : Slot(Follower(k)) = j
                THEN [cachePackets[j] EXCEPT !.isKeep = FALSE, !.buffer = nullptr]
                ELSE cachePackets[j]]
    BY <1>2 DEF RecvNext
  <2>2. PICK k \in 1 .. n : Slot(Follower(k)) = i
    BY <2>1
  <2>3. n \in Nat /\ k \in Nat /\ 1 <= k /\ k <= n
    BY SeqModAssumption
  <2>4. p.payload \in Payload /\ delivered \in Seq(Payload)
    BY <1>2 DEF CacheInvariant, ChannelTypes, TypeOK, SenderTypeOK, Datagram
  <2> DEFINE front == delivered \o <<p.payload>>
             T == Payload \cup {Run(n)[x] : x \in 1 .. n}
  <2>5. front \in Seq(T) /\ Len(front) \in Nat
    BY <2>4
  <2>6. Len(Run(n)) = n /\ Run(n)[k] = cachePackets[i].buffer
    BY <2>2, <2>3
  <2>7. Run(n) \in Seq(T)
    BY <2>3
  <2> HIDE DEF Run, front, T
  <2>8. /\ Len(front \o Run(n)) = Len(front) + n
        /\ (front \o Run(n))[Len(front) + k] = Run(n)[k]
    BY <2>3, <2>5, <2>6, <2>7
  <2>9. delivered' = front \o Run(n)
    BY <2>1 DEF front
  <2>10. Len(front) + k \in 1 .. Len(delivered')
    BY <2>3, <2>5, <2>8, <2>9
  <2> QED
    BY <2>6, <2>8, <2>9, <2>10
<1>3. CacheInvariant /\ [Next]_vars => [\A i \in SlotIndex : Drains(i)]_vars
  <2> SUFFICES ASSUME CacheInvariant, Next PROVE \A i \in SlotIndex : Drains(i)
    OBVIOUS
  <2>1. UNCHANGED receiverVars \/ \E p \in data : RecvAhead(p) \/ RecvNext(p)
    BY DEF Next, SessionRecvDispatch, ClientRecvDispatch, RecvDispatch, RecvDuplicate
  <2>2. CASE UNCHANGED receiverVars
    BY <2>2 DEF receiverVars
  <2> QED
    BY <1>1, <1>2, <2>1, <2>2
<1> QED
  BY <1>3, CacheInvariantInit, CacheInvariantStep, PTL DEF Spec, CacheOnlyDrainsToDelivery

-----------------------------------------------------------------------------
(* The channel over packets instead of sequence numbers                    *)

Received == Delivered \cup Cached

\* Packets 1 to d have been handed over, in that order.  A packet in the cache
\* is in its own slot, ahead of packet d + 1 and less than a window from d; the
\* mask has its bit; and lastRepeatSeq is the number of the highest of them, or
\* of d if there is none.
ReceiverAt(d) ==
  /\ delivered = [i \in 1 .. d |-> i]
  /\ recvRepeatSeq = Wire(d)
  /\ \A i \in SlotIndex :
       LET n == cachePackets[i].buffer IN
       cachePackets[i].isKeep => /\ cachePackets[i].sequenceNo = Wire(n)
                                 /\ Slot(Wire(n)) = i
                                 /\ n \in d + 2 .. d + Window - 1
                                 /\ n <= sent
  /\ cacheRepeatCount = {n - d - 1 : n \in Cached}
  /\ \E h \in Cached \cup {d} : lastRepeatSeq = Wire(h) /\ \A n \in Cached : n <= h

\* The channel's inductive invariant.
ChannelInvariant ==
  /\ ChannelTypes
  /\ SenderInvariant
  /\ AcceptedIsKeptOrIn(Received)
  /\ AckedIsIn(Received)
  /\ \E d \in 0 .. sent : ReceiverAt(d) /\ Lead(d)

\* What Delivered is.
LEMMA DeliveredIsPrefix ==
  ASSUME NEW d \in Nat, ReceiverAt(d)
  PROVE  Delivered = 1 .. d /\ Len(delivered) = d
<1>1. Len(delivered) = d /\ \A i \in 1 .. d : delivered[i] = i
  BY DEF ReceiverAt
<1> QED
  BY <1>1 DEF Delivered

\* A packet in the cache, found by its number.
LEMMA CachedSlot ==
  ASSUME NEW d \in Nat, ReceiverAt(d), NEW n \in Cached
  PROVE  /\ n \in Nat /\ n \in d + 2 .. d + Window - 1 /\ n <= sent
         /\ Slot(Wire(n)) \in SlotIndex
         /\ cachePackets[Slot(Wire(n))].isKeep
         /\ cachePackets[Slot(Wire(n))].buffer = n
         /\ IsKept(Wire(n))
<1>1. PICK i \in SlotIndex : cachePackets[i].isKeep /\ cachePackets[i].buffer = n
  BY DEF Cached
<1>2. /\ cachePackets[i].sequenceNo = Wire(n) /\ Slot(Wire(n)) = i
      /\ n \in d + 2 .. d + Window - 1 /\ n <= sent
  BY <1>1 DEF ReceiverAt
<1>3. n \in Nat
  BY <1>2, SeqModAssumption
<1> QED
  BY <1>1, <1>2, <1>3 DEF IsKept

\* IsKept on the number of a packet near d says that this packet is cached.
LEMMA KeptIsCached ==
  ASSUME NEW d \in Nat, ReceiverAt(d), NEW n \in d .. d + Window + 2
  PROVE  IsKept(Wire(n)) <=> n \in Cached
<1>1. n \in Cached => IsKept(Wire(n))
  BY CachedSlot
<1>2. ASSUME IsKept(Wire(n)) PROVE n \in Cached
  <2> DEFINE i == Slot(Wire(n))
             m == cachePackets[i].buffer
  <2>1. n \in Nat /\ Window \in Nat /\ 1 <= Window /\ SeqMod \in Nat /\ 3 * Window <= SeqMod
    BY SeqModAssumption, SenderAssumption
  <2>2. i \in SlotIndex /\ cachePackets[i].isKeep /\ cachePackets[i].sequenceNo = Wire(n)
    BY <1>2, <2>1, WireType, SlotType DEF IsKept
  <2>3. Wire(m) = Wire(n) /\ m \in d + 2 .. d + Window - 1
    BY <2>2 DEF ReceiverAt
  <2>4. m = n
    <3>1. m \in Nat /\ m - n < SeqMod /\ n - m < SeqMod
      <4> HIDE DEF m
      <4> QED
        BY <2>1, <2>3
    <3> HIDE DEF m
    <3> QED
      BY <2>1, <2>3, <3>1, WireEqual
  <2> QED
    BY <2>2, <2>4 DEF Cached
<1> QED
  BY <1>1, <1>2

\* The receiver holds nothing further than a window ahead, and not packet d + 1.
LEMMA ReceivedReach ==
  ASSUME NEW d \in Nat, ReceiverAt(d)
  PROVE  /\ \A n \in Received : n < d + Window
         /\ d + 1 \notin Received
         /\ \A n \in Received : n \in Nat
<1>1. Window \in Nat /\ 1 <= Window
  BY SeqModAssumption
<1> QED
  BY <1>1, DeliveredIsPrefix, CachedSlot DEF Received

\* The first state.
LEMMA ChannelInvariantInit == Init => ChannelInvariant
<1> SUFFICES ASSUME Init PROVE ChannelInvariant
  OBVIOUS
<1>1. ChannelTypes /\ SenderInvariant
  BY ChannelTypesInit, SenderInvariantInit DEF Init
<1>2. Cached = {} /\ sent = 0 /\ acks = {} /\ overflowed = {}
  BY DEF Cached, Init, SenderInit
<1>3. Wire(0) = StartSeq
  BY WireZero
<1>4. ReceiverAt(0)
  BY <1>2, <1>3 DEF ReceiverAt, Init, ReceiverInit
<1>5. Lead(0)
  BY <1>2, FS_EmptySet, SeqModAssumption DEF Lead
<1>6. AcceptedIsKeptOrIn(Received) /\ AckedIsIn(Received)
  BY <1>2 DEF AcceptedIsKeptOrIn, AckedIsIn
<1> QED
  BY <1>1, <1>2, <1>4, <1>5, <1>6 DEF ChannelInvariant

\* A step of the sender keeps the invariant.
LEMMA ChannelSenderStep ==
  ASSUME ChannelInvariant, SenderStep, UNCHANGED receiverVars
  PROVE  ChannelInvariant'
<1>1. PICK d \in 0 .. sent : ReceiverAt(d) /\ Lead(d)
  BY DEF ChannelInvariant
<1>2. PICK R : R = Received
  OBVIOUS
<1>3. SenderTypeOK /\ sent \in Nat /\ d \in Nat
  BY SenderNumbers DEF ChannelInvariant, ChannelTypes, TypeOK
<1>4. /\ \A n \in R : n < d + Window
      /\ AcceptedIsKeptOrIn(R) /\ AckedIsIn(R)
  BY <1>1, <1>2, <1>3, ReceivedReach DEF ChannelInvariant
<1>5. /\ SenderInvariant' /\ AcceptedIsKeptOrIn(R)' /\ AckedIsIn(R)' /\ Lead(d)'
      /\ sent <= sent'
  BY <1>1, <1>3, <1>4, SenderStepInvariant DEF ChannelInvariant
<1>6. ChannelTypes'
  <2>1. SenderTypeOK'
    BY <1>3, SenderStepType DEF SenderStep
  <2> QED
    BY <2>1 DEF ChannelInvariant, ChannelTypes, TypeOK, ReceiverTypeOK,
                KeptSlotHasPacket, receiverVars, receiverBase
<1>7. Received' = R /\ Cached' = Cached
  BY <1>2 DEF Received, Delivered, Cached, receiverVars
<1>8. AcceptedIsKeptOrIn(Received)' /\ AckedIsIn(Received)'
  BY <1>5, <1>7 DEF AcceptedIsKeptOrIn, AckedIsIn
<1>9. sent' \in Nat
  BY <1>6, SenderNumbers DEF ChannelTypes, TypeOK, SenderTypeOK
<1>10. ReceiverAt(d)'
  <2>1. \A i \in SlotIndex :
          LET n == cachePackets[i].buffer IN
          cachePackets[i].isKeep => n \in d + 2 .. d + Window - 1 /\ n <= sent'
    <3> TAKE i \in SlotIndex
    <3> DEFINE n == cachePackets[i].buffer
    <3>1. cachePackets[i].isKeep => n \in d + 2 .. d + Window - 1 /\ n <= sent
      BY <1>1 DEF ReceiverAt
    <3>2. n \in d + 2 .. d + Window - 1 /\ n <= sent => n <= sent'
      <4> HIDE DEF n
      <4> QED
        BY <1>3, <1>5, <1>9, SeqModAssumption
    <3> QED
      BY <3>1, <3>2
  <2> QED
    BY <1>1, <1>7, <2>1 DEF ReceiverAt, receiverVars, receiverBase
<1>11. d \in 0 .. sent'
  BY <1>3, <1>5, <1>9
<1> QED
  BY <1>5, <1>6, <1>8, <1>10, <1>11 DEF ChannelInvariant
\* After a packet was received: the sender has not moved, and the receiver has
\* what it had and the packet it acknowledges.
LEMMA ChannelAfterReceive ==
  ASSUME ChannelInvariant, ChannelTypes', NEW p \in data, UNCHANGED <<senderVars, data>>,
         SendAck(p), Received \subseteq Received', p.payload \in Received',
         NEW d \in Nat, NEW e \in Nat, Lead(d), d <= e, e <= sent, ReceiverAt(e)'
  PROVE  ChannelInvariant'
<1>1. SenderInvariant' /\ Kept' = Kept
  BY AckInvariant DEF SendAck, ChannelInvariant
<1>2. UNCHANGED <<isConnect, sent, overflowed>> /\ acks' = acks \cup {p}
  BY DEF senderVars, SendAck
<1>3. AcceptedIsKeptOrIn(Received)' /\ AckedIsIn(Received)'
  BY <1>1, <1>2 DEF ChannelInvariant, AcceptedIsKeptOrIn, AckedIsIn
<1>4. SenderTypeOK /\ sent \in Nat
  BY SenderNumbers DEF ChannelInvariant, ChannelTypes, TypeOK
<1>5. Lead(e)'
  BY <1>2, <1>4, OverflowedIsFinite, SenderNumbers DEF Lead
<1> QED
  BY <1>1, <1>2, <1>3, <1>4, <1>5 DEF ChannelInvariant

\* A duplicate.
LEMMA ChannelRecvDuplicate ==
  ASSUME ChannelInvariant, NEW p \in data, RecvDuplicate(p), UNCHANGED <<senderVars, data>>
  PROVE  ChannelInvariant'
<1>1. PICK d \in 0 .. sent : ReceiverAt(d) /\ Lead(d)
  BY DEF ChannelInvariant
<1>2. SenderTypeOK /\ sent \in Nat /\ d \in Nat /\ d <= sent
  BY <1>1, SenderNumbers DEF ChannelInvariant, ChannelTypes, TypeOK
<1>3. ChannelTypes'
  BY RecvDispatchTypes DEF ChannelInvariant, RecvDispatch
<1>4. /\ p.payload \in Nat /\ p.payload \in Payload
      /\ p.sequenceNo = Wire(p.payload)
      /\ p.payload - d < SeqMod - Window /\ d - p.payload < SeqMod - Window
  BY <1>1, <1>2, FlightIsNear DEF ChannelInvariant
<1>5. p.payload <= d
  BY <1>1, <1>2, <1>4, ReceiverTests DEF RecvDuplicate, ReceiverAt
<1>6. p.payload \in Received
  BY <1>1, <1>2, <1>4, <1>5, DeliveredIsPrefix DEF Received, Payload
<1>7. UNCHANGED receiverVars /\ SendAck(p)
  BY DEF RecvDuplicate
<1>8. Received' = Received /\ Cached' = Cached
  BY <1>7 DEF Received, Delivered, Cached, receiverVars
<1>9. ReceiverAt(d)'
  BY <1>1, <1>7, <1>8 DEF ReceiverAt, receiverVars, receiverBase, senderVars
<1> QED
  BY <1>1, <1>2, <1>3, <1>6, <1>7, <1>8, <1>9, ChannelAfterReceive

\* A packet ahead of the next one: it is in the cache already, or its slot is
\* free and takes it.
LEMMA ChannelRecvAhead ==
  ASSUME ChannelInvariant, NEW p \in data, RecvAhead(p), UNCHANGED <<senderVars, data>>
  PROVE  ChannelInvariant'
<1>1. PICK d \in 0 .. sent : ReceiverAt(d) /\ Lead(d)
  BY DEF ChannelInvariant
<1>2. SenderTypeOK /\ sent \in Nat /\ d \in Nat /\ d <= sent
  BY <1>1, SenderNumbers DEF ChannelInvariant, ChannelTypes, TypeOK
<1>3. ChannelTypes' /\ SendAck(p)
  BY RecvDispatchTypes DEF ChannelInvariant, RecvDispatch, RecvAhead
<1>4. PICK n \in Nat : /\ n = p.payload /\ n \in Payload /\ n <= sent
                       /\ p.sequenceNo = Wire(n)
                       /\ n - d < SeqMod - Window /\ d - n < SeqMod - Window
  BY <1>1, <1>2, FlightIsNear DEF ChannelInvariant
<1>5. IsAhead(Wire(n)) /\ recvRepeatSeq = Wire(d)
  BY <1>1, <1>4 DEF RecvAhead, ReceiverAt
<1>6. n \in d + 2 .. d + Window - 1 /\ Bit(Wire(n)) = n - d - 1
  BY <1>2, <1>4, <1>5, ReceiverTests
<1>7. Window \in Nat /\ 1 <= Window /\ 3 * Window <= SeqMod /\ SeqMod \in Nat
  BY SeqModAssumption, SenderAssumption
<1>8. PICK h \in Cached \cup {d} : lastRepeatSeq = Wire(h) /\ \A m \in Cached : m <= h
  BY <1>1 DEF ReceiverAt
<1>9. h \in Nat /\ d <= h /\ h < d + Window
  BY <1>1, <1>2, <1>7, <1>8, CachedSlot
<1>10. lastRepeatSeq' = Wire(IF n >= h THEN n ELSE h)
  <2>1. d <= n /\ n < d + Window
    BY <1>2, <1>6, <1>7
  <2>2. lastRepeatSeq' = HighestSeen(Wire(n))
    BY <1>4 DEF RecvAhead
  <2> QED
    BY <1>2, <1>8, <1>9, <2>1, <2>2, HighestSeenPacket
<1>11. recvRepeatSeq' = recvRepeatSeq /\ delivered' = delivered /\ sent' = sent
  BY DEF RecvAhead, senderVars
<1>12. n \in d .. d + Window + 2
  BY <1>2, <1>6, <1>7
<1>13. CASE IsKept(Wire(n))
  <2>1. n \in Cached
    BY <1>1, <1>2, <1>12, <1>13, KeptIsCached
  <2>2. UNCHANGED <<cachePackets, cacheRepeatCount>>
    BY <1>4, <1>13 DEF RecvAhead
  <2>3. Cached' = Cached /\ Received' = Received
    BY <1>11, <2>2 DEF Cached, Received, Delivered
  <2>4. lastRepeatSeq' = Wire(h)
    BY <1>8, <1>9, <1>10, <2>1
  <2>5. ReceiverAt(d)'
    BY <1>1, <1>8, <1>11, <2>2, <2>3, <2>4 DEF ReceiverAt
  <2>6. p.payload \in Received'
    BY <1>4, <2>1, <2>3 DEF Received
  <2> QED
    BY <1>1, <1>2, <1>3, <2>3, <2>5, <2>6, ChannelAfterReceive
<1>14. CASE ~IsKept(Wire(n))
  <2> DEFINE s == Slot(Wire(n))
             rec == [isKeep |-> TRUE, sequenceNo |-> Wire(n), buffer |-> n]
  <2>1. s \in SlotIndex /\ cachePackets \in [SlotIndex -> CachePacket]
    BY WireType, SlotType DEF ChannelInvariant, ChannelTypes, TypeOK
  <2>2. /\ cachePackets' = [cachePackets EXCEPT ![s] = rec]
        /\ cacheRepeatCount' = cacheRepeatCount \cup {n - d - 1}
    BY <1>4, <1>6, <1>14 DEF RecvAhead
  <2>3. ~cachePackets[s].isKeep
    <3> DEFINE m == cachePackets[s].buffer
    <3> SUFFICES ASSUME cachePackets[s].isKeep PROVE FALSE
      OBVIOUS
    <3>1. /\ cachePackets[s].sequenceNo = Wire(m) /\ Slot(Wire(m)) = Slot(Wire(n))
          /\ m \in d + 2 .. d + Window - 1
      BY <1>1, <2>1 DEF ReceiverAt
    <3>2. m \in Nat /\ m - n < Window /\ n - m < Window
      <4> HIDE DEF m
      <4> QED
        BY <1>2, <1>6, <1>7, <3>1
    <3>3. m = n
      <4> HIDE DEF m
      <4> QED
        BY <3>1, <3>2, WireSlot
    <3> QED
      BY <1>14, <3>1, <3>3 DEF IsKept
  <2>4. \A i \in SlotIndex : cachePackets'[i] = IF i = s THEN rec ELSE cachePackets[i]
    BY <2>1, <2>2
  <2>5. /\ rec.isKeep /\ rec.sequenceNo = Wire(n) /\ rec.buffer = n
    OBVIOUS
  <2> HIDE DEF rec
  <2>6. Cached' = Cached \cup {n}
    BY <2>1, <2>3, <2>4, <2>5 DEF Cached
  <2>7. Received' = Received \cup {n}
    BY <1>11, <2>6 DEF Received, Delivered
  <2>8. cacheRepeatCount' = {m - d - 1 : m \in Cached'}
    <3>1. cacheRepeatCount = {m - d - 1 : m \in Cached}
      BY <1>1 DEF ReceiverAt
    <3> QED
      BY <2>2, <2>6, <3>1
  <2>9. \E g \in Cached' \cup {d} : lastRepeatSeq' = Wire(g) /\ \A m \in Cached' : m <= g
    <3>1. PICK g \in Nat : g = IF n >= h THEN n ELSE h
      BY <1>9
    <3>2. \A m \in Cached : m \in Nat /\ m <= h
      BY <1>1, <1>2, <1>8, CachedSlot
    <3>3. g \in Cached' \cup {d} /\ \A m \in Cached' : m <= g
      BY <1>8, <1>9, <2>6, <3>1, <3>2
    <3> QED
      BY <1>10, <3>1, <3>3
  <2>10. \A i \in SlotIndex :
           LET m == cachePackets'[i].buffer IN
           cachePackets'[i].isKeep => /\ cachePackets'[i].sequenceNo = Wire(m)
                                      /\ Slot(Wire(m)) = i
                                      /\ m \in d + 2 .. d + Window - 1
                                      /\ m <= sent
    BY <1>1, <1>4, <1>6, <2>4, <2>5 DEF ReceiverAt
  <2>11. ReceiverAt(d)'
    BY <1>1, <1>11, <2>8, <2>9, <2>10 DEF ReceiverAt
  <2>12. p.payload \in Received' /\ Received \subseteq Received'
    BY <1>4, <2>7
  <2> QED
    BY <1>1, <1>2, <1>3, <2>11, <2>12, ChannelAfterReceive
<1> QED
  BY <1>13, <1>14
\* q is the sequence m + 1, ..., m + n.
Counts(q, m, n) == q \in Seq(Nat) /\ Len(q) = n /\ \A i \in 1 .. n : q[i] = m + i

\* A sequence that counts to m, and one that counts on from there.
LEMMA CountOn ==
  ASSUME NEW m \in Nat, NEW k \in Nat, NEW q, NEW r, Counts(q, 0, m), Counts(r, m, k)
  PROVE  Counts(q \o r, 0, m + k)
<1>1. /\ q \in Seq(Nat) /\ Len(q) = m /\ \A i \in 1 .. m : q[i] = i
      /\ r \in Seq(Nat) /\ Len(r) = k /\ \A i \in 1 .. k : r[i] = m + i
  BY DEF Counts
<1>2. /\ q \o r \in Seq(Nat) /\ Len(q \o r) = m + k
      /\ \A i \in 1 .. m + k : (q \o r)[i] = IF i <= m THEN q[i] ELSE r[i - m]
  BY <1>1, ConcatProperties
<1>3. ASSUME NEW i \in 1 .. m + k PROVE (q \o r)[i] = i
  <2>1. CASE i <= m
    BY <1>1, <1>2, <2>1
  <2>2. CASE i > m
    BY <1>1, <1>2, <2>2, i - m \in 1 .. k
  <2>3. i <= m \/ i > m
    OBVIOUS
  <2> QED
    BY <2>1, <2>2, <2>3, Zenon
<1> QED
  BY <1>2, <1>3 DEF Counts

\* The sequence 1, ..., d followed by d + 1 and by the k numbers after it.
LEMMA PrefixExtends ==
  ASSUME NEW d \in Nat, NEW k \in Nat
  PROVE  [i \in 1 .. d |-> i] \o <<d + 1>> \o [j \in 1 .. k |-> d + 1 + j]
           = [i \in 1 .. d + 1 + k |-> i]
<1> DEFINE a == [i \in 1 .. d |-> i]
           next == <<d + 1>>
           run == [j \in 1 .. k |-> d + 1 + j]
           c == [i \in 1 .. d + 1 + k |-> i]
<1>1. Counts(a, 0, d) /\ Counts(next, d, 1) /\ Counts(run, d + 1, k) /\ Counts(c, 0, d + 1 + k)
  BY DEF Counts
<1>2. 1 \in Nat /\ d + 1 \in Nat
  OBVIOUS
<1> HIDE DEF a, next, run, c
<1>3. Counts(a \o next, 0, d + 1)
  BY <1>1, <1>2, CountOn
<1>4. Counts((a \o next) \o run, 0, d + 1 + k)
  BY <1>1, <1>2, <1>3, CountOn
<1>5. a \o next \o run = c
  <2> DEFINE q == a \o next \o run
  <2>1. /\ q \in Seq(Nat) /\ Len(q) = d + 1 + k /\ \A i \in 1 .. d + 1 + k : q[i] = 0 + i
        /\ c \in Seq(Nat) /\ Len(c) = d + 1 + k /\ \A i \in 1 .. d + 1 + k : c[i] = 0 + i
    BY <1>1, <1>4 DEF Counts
  <2> HIDE DEF q
  <2>2. q = c
    BY <2>1, SeqEqual
  <2> QED
    BY <2>2 DEF q
<1> QED
  BY <1>5 DEF a, next, run, c

\* The next packet, and the run of cached packets behind it: the loop stops at
\* the first gap, because lastRepeatSeq is the highest cached packet.
LEMMA ChannelRecvNext ==
  ASSUME ChannelInvariant, NEW p \in data, RecvNext(p), UNCHANGED <<senderVars, data>>
  PROVE  /\ ChannelInvariant'
         /\ \E d, e \in 0 .. sent : /\ d < e
                                    /\ delivered = [i \in 1 .. d |-> i]
                                    /\ delivered' = [i \in 1 .. e |-> i]
<1>1. PICK d \in 0 .. sent : ReceiverAt(d) /\ Lead(d)
  BY DEF ChannelInvariant
<1>2. SenderTypeOK /\ sent \in Nat /\ d \in Nat /\ d <= sent
  BY <1>1, SenderNumbers DEF ChannelInvariant, ChannelTypes, TypeOK
<1>3. ChannelTypes' /\ SendAck(p)
  BY RecvDispatchTypes DEF ChannelInvariant, RecvDispatch, RecvNext
<1>4. /\ p.payload = d + 1 /\ d + 1 <= sent /\ p.sequenceNo = Wire(d + 1)
  <2>1. /\ p.payload \in Nat /\ p.payload <= sent /\ p.sequenceNo = Wire(p.payload)
        /\ p.payload - d < SeqMod - Window /\ d - p.payload < SeqMod - Window
    BY <1>1, <1>2, FlightIsNear DEF ChannelInvariant
  <2>2. IsNext(Wire(p.payload)) /\ recvRepeatSeq = Wire(d)
    BY <1>1, <2>1 DEF RecvNext, ReceiverAt
  <2>3. p.payload = d + 1
    BY <1>2, <2>1, <2>2, ReceiverTests
  <2> QED
    BY <2>1, <2>3
<1> DEFINE Follower(j) == UAdd(p.sequenceNo, j)
           Run(k) == [j \in 1 .. k |-> cachePackets[Slot(Follower(j))].buffer]
<1>5. PICK k \in 0 .. Window :
        /\ \A j \in 1 .. k : IsKept(Follower(j))
        /\ k <= USub(lastRepeatSeq, p.sequenceNo)
        /\ k = USub(lastRepeatSeq, p.sequenceNo) \/ ~IsKept(Follower(k + 1))
        /\ delivered' = delivered \o <<p.payload>> \o Run(k)
        /\ cachePackets' = [i \in SlotIndex |->
              IF \E j \in 1 .. k : Slot(Follower(j)) = i
              THEN [cachePackets[i] EXCEPT !.isKeep = FALSE, !.buffer = nullptr]
              ELSE cachePackets[i]]
        /\ recvRepeatSeq' = Follower(k)
        /\ cacheRepeatCount' = ShiftRight(cacheRepeatCount, k + 1)
  BY DEF RecvNext
<1>6. /\ Window \in Nat /\ 1 <= Window /\ 3 * Window <= SeqMod /\ SeqMod \in Nat
      /\ k \in Nat /\ k <= Window
  BY SeqModAssumption, SenderAssumption
<1>7. \A j \in 0 .. k + 1 : Follower(j) = Wire(d + 1 + j)
  <2> TAKE j \in 0 .. k + 1
  <2>1. j \in SeqNo /\ d + 1 \in Nat
    BY <1>2, <1>6 DEF SeqNo
  <2> QED
    BY <1>4, <2>1, WireAdd
<1>8. PICK e \in Nat : e = d + 1 + k
  BY <1>2, <1>6
<1>9. \A j \in 0 .. k + 1 : IsKept(Follower(j)) <=> d + 1 + j \in Cached
  <2> TAKE j \in 0 .. k + 1
  <2>1. d + 1 + j \in d .. d + Window + 2
    BY <1>2, <1>6
  <2> QED
    BY <1>1, <1>2, <1>7, <2>1, KeptIsCached
<1>10. \A j \in 1 .. k : d + 1 + j \in Cached
  <2> TAKE j \in 1 .. k
  <2>1. j \in 0 .. k + 1
    BY <1>6
  <2> HIDE DEF Follower, Run
  <2>2. IsKept(Follower(j))
    BY <1>5, Zenon
  <2> QED
    BY <1>9, <2>1, <2>2
<1>11. PICK h \in Cached \cup {d} : lastRepeatSeq = Wire(h) /\ \A m \in Cached : m <= h
  BY <1>1 DEF ReceiverAt
<1>12. \A m \in Cached : /\ m \in Nat /\ m \in d + 2 .. d + Window - 1 /\ m <= sent
                         /\ Slot(Wire(m)) \in SlotIndex
                         /\ cachePackets[Slot(Wire(m))].isKeep
                         /\ cachePackets[Slot(Wire(m))].buffer = m
  BY <1>1, <1>2, CachedSlot
<1>13. h \in Nat /\ d <= h /\ h < d + Window
  BY <1>2, <1>6, <1>11, <1>12
<1>14. h # d => /\ h >= d + 2 /\ h \in Cached
                /\ USub(lastRepeatSeq, p.sequenceNo) = h - (d + 1)
  <2> SUFFICES ASSUME h # d
               PROVE  /\ h >= d + 2 /\ h \in Cached
                      /\ USub(lastRepeatSeq, p.sequenceNo) = h - (d + 1)
    OBVIOUS
  <2>1. h \in Cached /\ h >= d + 2
    BY <1>2, <1>6, <1>11, <1>12
  <2>2. d + 1 \in Nat /\ d + 1 <= h /\ h - (d + 1) < SeqMod
    BY <1>2, <1>6, <1>13, <2>1
  <2> QED
    BY <1>4, <1>11, <1>13, <2>1, <2>2, WireSub
<1>15. h = d => Cached = {}
  BY <1>2, <1>6, <1>11, <1>12
<1>16. e + 1 \notin Cached
  <2>1. CASE h = d
    BY <1>15, <2>1
  <2>2. CASE h # d
    <3>1. CASE k = h - (d + 1)
      BY <1>2, <1>6, <1>8, <1>11, <1>13, <3>1
    <3>2. CASE ~IsKept(Follower(k + 1))
      <4>1. k + 1 \in 0 .. k + 1 /\ d + 1 + (k + 1) = e + 1
        BY <1>2, <1>6, <1>8
      <4> QED
        BY <1>9, <3>2, <4>1
    <3> QED
      BY <1>5, <1>14, <2>2, <3>1, <3>2
  <2> QED
    BY <2>1, <2>2
<1>17. e <= sent
  <2>1. CASE k = 0
    BY <1>4, <1>8, <2>1
  <2>2. CASE k # 0
    <3>1. d + 1 + k \in Cached
      BY <1>6, <1>10, <2>2
    <3> QED
      BY <1>8, <1>12, <3>1
  <2> QED
    BY <2>1, <2>2
<1>18. delivered' = [i \in 1 .. e |-> i]
  <2>1. Run(k) = [j \in 1 .. k |-> d + 1 + j]
    <3>1. ASSUME NEW j \in 1 .. k
          PROVE  cachePackets[Slot(Follower(j))].buffer = d + 1 + j
      BY <1>6, <1>7, <1>10, <1>12
    <3> QED
      BY <3>1
  <2>2. delivered = [i \in 1 .. d |-> i]
    BY <1>1 DEF ReceiverAt
  <2>3. [i \in 1 .. d |-> i] \o <<d + 1>> \o Run(k) = [i \in 1 .. d + 1 + k |-> i]
    BY <1>2, <1>6, <2>1, PrefixExtends
  <2> QED
    BY <1>4, <1>5, <1>8, <2>2, <2>3
<1>19. \A i \in SlotIndex :
         cachePackets'[i].isKeep <=> cachePackets[i].isKeep /\ cachePackets[i].buffer > e
  <2> TAKE i \in SlotIndex
  <2> DEFINE m == cachePackets[i].buffer
             drained == \E j \in 1 .. k : Slot(Follower(j)) = i
  <2>1. cachePackets'[i].isKeep <=> cachePackets[i].isKeep /\ ~drained
    BY <1>5 DEF ChannelInvariant, ChannelTypes, TypeOK, CachePacket
  <2>2. CASE cachePackets[i].isKeep
    <3>1. m \in Cached /\ m \in Nat /\ m \in d + 2 .. d + Window - 1 /\ Slot(Wire(m)) = i
      <4>1. m \in Cached
        BY <2>2 DEF Cached
      <4> QED
        BY <1>1, <1>12, <2>2, <4>1 DEF ReceiverAt
    <3>2. ASSUME ~(m > e) PROVE drained
      <4>1. m - (d + 1) \in 1 .. k /\ m - (d + 1) \in 0 .. k + 1 /\ d + 1 + (m - (d + 1)) = m
        <5> HIDE DEF m
        <5> QED
          BY <1>2, <1>6, <1>8, <3>1, <3>2
      <4>2. Slot(Follower(m - (d + 1))) = i
        <5> HIDE DEF m, Follower
        <5> QED
          BY <1>7, <3>1, <4>1
      <4> QED
        BY <4>1, <4>2
    <3>3. ASSUME m > e, drained PROVE FALSE
      <4>1. PICK j \in 1 .. k : Slot(Follower(j)) = i
        BY <3>3
      <4>2. d + 1 + j \in Cached /\ Slot(Wire(d + 1 + j)) = i
        BY <1>6, <1>7, <1>10, <4>1
      <4>3. /\ d + 1 + j \in Nat /\ (d + 1 + j) - m < Window /\ m - (d + 1 + j) < Window
            /\ d + 1 + j <= e
        <5> HIDE DEF m
        <5> QED
          BY <1>2, <1>6, <1>8, <1>12, <3>1, <4>2
      <4>4. d + 1 + j = m
        <5> HIDE DEF m
        <5> QED
          BY <3>1, <4>2, <4>3, WireSlot
      <4> HIDE DEF m
      <4> QED
        BY <1>8, <3>1, <3>3, <4>3, <4>4
    <3> QED
      BY <2>1, <2>2, <3>2, <3>3
  <2> QED
    BY <2>1, <2>2
<1>20. \A i \in SlotIndex : cachePackets'[i].isKeep => cachePackets'[i] = cachePackets[i]
  BY <1>5 DEF ChannelInvariant, ChannelTypes, TypeOK, CachePacket
<1>21. Cached' = {m \in Cached : m > e}
  BY <1>19, <1>20 DEF Cached
<1>22. Received \subseteq Received' /\ p.payload \in Received'
  <2>1. Delivered' = 1 .. e
    BY <1>8, <1>18 DEF Delivered
  <2>2. Delivered = 1 .. d
    BY <1>1, <1>2, DeliveredIsPrefix
  <2>3. \A m \in Cached : m \in 1 .. e \/ m \in Cached'
    BY <1>2, <1>8, <1>12, <1>21
  <2> QED
    BY <1>2, <1>4, <1>6, <1>8, <2>1, <2>2, <2>3 DEF Received
<1>23. recvRepeatSeq' = Wire(e)
  <2>1. k \in 0 .. k + 1
    BY <1>6
  <2> HIDE DEF Follower, Run
  <2>2. recvRepeatSeq' = Follower(k)
    BY <1>5, Zenon
  <2> QED
    BY <1>7, <1>8, <2>1, <2>2
<1>24. cacheRepeatCount' = {m - e - 1 : m \in Cached'}
  <2>1. cacheRepeatCount = {m - d - 1 : m \in Cached}
    BY <1>1 DEF ReceiverAt
  <2>2. \A m \in Cached : (m - d - 1 >= k + 1 <=> m > e) /\ (m - d - 1) - (k + 1) = m - e - 1
    BY <1>2, <1>6, <1>8, <1>12
  <2>3. {c \in cacheRepeatCount : c >= k + 1} = {m - d - 1 : m \in Cached'}
    BY <1>21, <2>1, <2>2
  <2>4. cacheRepeatCount' = {c - (k + 1) : c \in {m - d - 1 : m \in Cached'}}
    BY <1>5, <2>3 DEF ShiftRight
  <2>5. \A m \in Cached' : (m - d - 1) - (k + 1) = m - e - 1
    BY <1>21, <2>2
  <2> QED
    BY <2>4, <2>5
<1>25. \E g \in Cached' \cup {e} : lastRepeatSeq' = Wire(g) /\ \A m \in Cached' : m <= g
  <2>1. CASE h = d
    <3>1. recvRepeatSeq = lastRepeatSeq /\ Cached' = {}
      BY <1>1, <1>11, <1>15, <1>21, <2>1 DEF ReceiverAt
    <3>2. lastRepeatSeq' = Wire(e)
      BY <1>23, <3>1 DEF RecvNext
    <3> QED
      BY <3>1, <3>2
  <2>2. CASE h # d
    <3>1. recvRepeatSeq # lastRepeatSeq
      <4>1. h - d < SeqMod /\ d - h < SeqMod
        BY <1>2, <1>6, <1>13
      <4> QED
        BY <1>1, <1>2, <1>11, <1>13, <2>2, <4>1, WireEqual DEF ReceiverAt
    <3>2. lastRepeatSeq' = Wire(h)
      BY <1>11, <3>1 DEF RecvNext
    <3>3. e <= h
      <4>1. k <= h - (d + 1)
        BY <1>5, <1>14, <2>2
      <4> QED
        BY <1>2, <1>6, <1>8, <1>13, <4>1
    <3>4. h \in Cached' \cup {e}
      BY <1>8, <1>13, <1>14, <1>21, <2>2, <3>3
    <3> QED
      BY <1>11, <1>21, <3>2, <3>4
  <2> QED
    BY <2>1, <2>2
<1>26. \A i \in SlotIndex :
         LET m == cachePackets'[i].buffer IN
         cachePackets'[i].isKeep => /\ cachePackets'[i].sequenceNo = Wire(m)
                                    /\ Slot(Wire(m)) = i
                                    /\ m \in e + 2 .. e + Window - 1
                                    /\ m <= sent'
  <2> TAKE i \in SlotIndex
  <2> DEFINE m == cachePackets[i].buffer
  <2> SUFFICES ASSUME cachePackets'[i].isKeep
      PROVE /\ cachePackets[i].sequenceNo = Wire(m)
            /\ Slot(Wire(m)) = i
            /\ m \in e + 2 .. e + Window - 1
            /\ m <= sent'
    BY <1>20
  <2>1. cachePackets[i].isKeep /\ m > e
    BY <1>19
  <2>2. /\ cachePackets[i].sequenceNo = Wire(m) /\ Slot(Wire(m)) = i
        /\ m \in d + 2 .. d + Window - 1 /\ m <= sent /\ m \in Cached
    BY <1>1, <2>1 DEF ReceiverAt, Cached
  <2>3. m \in e + 2 .. e + Window - 1
    <3> HIDE DEF m
    <3> QED
      BY <1>2, <1>6, <1>8, <1>16, <2>1, <2>2
  <2> QED
    BY <2>2, <2>3 DEF senderVars
<1>27. ReceiverAt(e)'
  BY <1>18, <1>23, <1>24, <1>25, <1>26 DEF ReceiverAt
<1>28. ChannelInvariant'
  BY <1>1, <1>2, <1>3, <1>6, <1>8, <1>17, <1>22, <1>27, ChannelAfterReceive
<1>29. d < e /\ e \in 0 .. sent /\ delivered = [i \in 1 .. d |-> i]
  BY <1>1, <1>2, <1>6, <1>8, <1>17 DEF ReceiverAt
<1> QED
  BY <1>18, <1>28, <1>29
\* Every step of the channel keeps its invariant.
LEMMA ChannelInvariantStep == ChannelInvariant /\ [Next]_vars => ChannelInvariant'
<1> SUFFICES ASSUME ChannelInvariant, [Next]_vars PROVE ChannelInvariant'
  OBVIOUS
<1>1. CASE UNCHANGED vars
  <2>1. ChannelTypes'
    BY <1>1, ChannelTypesStep DEF ChannelInvariant
  <2>2. Cached' = Cached /\ Received' = Received /\ Kept' = Kept
    BY <1>1 DEF Cached, Received, Delivered, Kept, vars, senderVars, receiverVars
  <2>3. SenderInvariant'
    BY <1>1 DEF ChannelInvariant, SenderInvariant, SenderWindow, InFlight, vars, senderVars
  <2>4. \A d : (ReceiverAt(d) => ReceiverAt(d)') /\ (Lead(d) => Lead(d)')
    BY <1>1, <2>2 DEF ReceiverAt, Lead, vars, senderVars, receiverVars, receiverBase
  <2>5. UNCHANGED <<isConnect, sent, overflowed, acks>>
    BY <1>1 DEF vars, senderVars
  <2> QED
    BY <2>1, <2>2, <2>3, <2>4, <2>5 DEF ChannelInvariant, AcceptedIsKeptOrIn, AckedIsIn
<1>2. CASE SenderStep /\ UNCHANGED receiverVars
  BY <1>2, ChannelSenderStep
<1>3. ASSUME NEW p \in data, SessionRecvDispatch(p) \/ ClientRecvDispatch(p)
      PROVE  ChannelInvariant'
  BY <1>3, ChannelRecvDuplicate, ChannelRecvAhead, ChannelRecvNext
     DEF SessionRecvDispatch, ClientRecvDispatch, RecvDispatch
<1> QED
  BY <1>1, <1>2, <1>3 DEF Next, SenderStep

\* The channel's inductive invariant holds, for every modulus and window.
LEMMA ChannelInvariantHolds == Spec => []ChannelInvariant
BY ChannelInvariantInit, ChannelInvariantStep, PTL DEF Spec

\* No packet the sender accepted is lost: AckProcess releases a packet only when
\* RecvDispatch has handed it over or keeps it in its cache.
THEOREM AcceptedSafe == Spec => []AcceptedPacketIsSafe
<1>1. ChannelInvariant => AcceptedPacketIsSafe
  BY DEF ChannelInvariant, AcceptedIsKeptOrIn, Received, AcceptedPacketIsSafe
<1> QED
  BY <1>1, ChannelInvariantHolds, PTL

\* RepeatMessage visits every kept packet of a stream without overflow.
THEOREM KeptIsRepeated == Spec => []KeptPacketIsRepeated
<1>1. ASSUME ChannelInvariant, overflowed = {}, NEW i \in SlotIndex,
             pendingPackets[i].buffer # nullptr
      PROVE  InRepeatRange(pendingPackets[i].sequenceNo)
  <2> DEFINE n == pendingPackets[i].buffer
  <2>1. SenderTypeOK /\ SenderInvariant
    BY <1>1 DEF ChannelInvariant, ChannelTypes, TypeOK
  <2>2. isConnect /\ n \in Nat /\ n <= sent /\ pendingPackets[i].sequenceNo = Wire(n)
    BY <1>1, <2>1, KeptSlot
  <2>3. PICK b \in 0 .. sent + 1, t \in 0 .. sent + 1 : SenderWindow(b, t)
    BY <2>1, <2>2 DEF SenderInvariant
  <2>4. sent \in Nat /\ b \in Nat /\ t \in Nat
    BY <2>1, <2>3, SenderNumbers
  <2>5. n \in b .. b + Window - 1 /\ n # 0 /\ localWindowStart = Wire(b) /\ localSeqence = Wire(t)
    BY <1>1, <2>3 DEF SenderWindow, nullptr
  <2>6. t = sent + 1
    <3> HIDE DEF n
    <3> QED
      BY <1>1, <2>2, <2>3, <2>4, <2>5 DEF SenderWindow
  <2>7. sent + 1 - b < SeqMod
    BY <2>1, <2>3, <2>4, WindowSpan, SenderNumbers
  <2>8. b <= n /\ n - b < SeqMod /\ b <= t /\ t - b < SeqMod /\ n - b < t - b
    <3> HIDE DEF n
    <3> QED
      BY <2>1, <2>2, <2>4, <2>5, <2>6, <2>7, SenderNumbers
  <2>9. USub(Wire(n), Wire(b)) = n - b /\ USub(Wire(t), Wire(b)) = t - b
    <3> HIDE DEF n
    <3> QED
      BY <2>2, <2>4, <2>8, WireSub
  <2> QED
    BY <2>2, <2>5, <2>8, <2>9 DEF InRepeatRange
<1>2. ChannelInvariant => KeptPacketIsRepeated
  BY <1>1 DEF KeptPacketIsRepeated
<1> QED
  BY <1>2, ChannelInvariantHolds, PTL

\* The sender's window and the receiver's tests fit: no kept packet of a stream
\* without overflow is refused for ever.  The window cannot have passed packet
\* d + 1, which the receiver does not have, and so must still be kept.
THEOREM KeptIsAcceptable == Spec => []KeptPacketIsAcceptable
<1>1. ASSUME ChannelInvariant, overflowed = {}, NEW i \in SlotIndex,
             pendingPackets[i].buffer # nullptr
      PROVE  \/ AlreadyReceived(pendingPackets[i].sequenceNo)
             \/ USub(pendingPackets[i].sequenceNo, recvRepeatSeq) \in 1 .. Window
  <2>1. SenderTypeOK /\ SenderInvariant
    BY <1>1 DEF ChannelInvariant, ChannelTypes, TypeOK
  <2>2. PICK n \in Nat : /\ n = pendingPackets[i].buffer /\ n <= sent /\ isConnect
                         /\ pendingPackets[i].sequenceNo = Wire(n)
    BY <1>1, <2>1, KeptSlot
  <2>3. PICK b \in 0 .. sent + 1, t \in 0 .. sent + 1 : SenderWindow(b, t)
    BY <2>1, <2>2 DEF SenderInvariant
  <2>4. /\ sent \in Nat /\ b \in Nat /\ Window \in Nat /\ 1 <= Window
        /\ SeqMod \in Nat /\ 3 * Window <= SeqMod
    BY <2>1, <2>3, SenderNumbers
  <2>5. b <= n /\ n < b + Window
    BY <1>1, <2>2, <2>3, <2>4 DEF SenderWindow
  <2>6. sent < b + Window
    BY <1>1, <2>3, <2>4 DEF SenderWindow
  <2>7. PICK d \in 0 .. sent : ReceiverAt(d) /\ Lead(d)
    BY <1>1 DEF ChannelInvariant
  <2>8. recvRepeatSeq = Wire(d) /\ d \in Nat /\ d <= sent
    BY <2>4, <2>7 DEF ReceiverAt
  <2>9. CASE n <= d
    <3>1. d - n < Window /\ d - n < SeqMod
      BY <2>4, <2>5, <2>6, <2>8, <2>9
    <3>2. USub(Wire(d), Wire(n)) = d - n
      BY <2>8, <2>9, <3>1, WireSub
    <3> QED
      BY <2>2, <2>8, <3>1, <3>2 DEF AlreadyReceived
  <2>10. CASE d < n
    <3>1. d + 1 \in 1 .. sent /\ d + 1 \notin Received
      BY <2>2, <2>4, <2>7, <2>8, <2>10, ReceivedReach
    <3>2. d + 1 \in Kept
      BY <1>1, <2>2, <3>1 DEF ChannelInvariant, AcceptedIsKeptOrIn
    <3>3. b <= d + 1
      BY <2>3, <3>2 DEF Kept, SenderWindow
    <3>4. n - d \in 1 .. Window /\ n - d < SeqMod
      BY <2>4, <2>5, <2>8, <2>10, <3>3
    <3>5. USub(Wire(n), Wire(d)) = n - d
      BY <2>8, <2>10, <3>4, WireSub
    <3> QED
      BY <2>2, <2>8, <3>4, <3>5
  <2> QED
    BY <2>8, <2>9, <2>10
<1>2. ChannelInvariant => KeptPacketIsAcceptable
  BY <1>1 DEF KeptPacketIsAcceptable
<1> QED
  BY <1>2, ChannelInvariantHolds, PTL
\* The receiver's three records agree: the bit of a number is set just when its
\* packet is in the cache, and lastRepeatSeq is the number of the highest bit.
THEOREM CacheAgrees == Spec => []CacheAgreement
<1>1. ASSUME ChannelInvariant PROVE CacheAgreement
  <2>1. PICK d \in 0 .. sent : ReceiverAt(d)
    BY <1>1 DEF ChannelInvariant
  <2>2. /\ sent \in Nat /\ d \in Nat /\ Window \in Nat /\ 1 <= Window
        /\ SeqMod \in Nat /\ 3 * Window <= SeqMod
    BY <1>1, <2>1, SenderNumbers DEF ChannelInvariant, ChannelTypes, TypeOK
  <2>3. \A n \in Cached : n \in Nat /\ n \in d + 2 .. d + Window - 1 /\ n <= sent
    BY <2>1, <2>2, CachedSlot
  <2>4. cacheRepeatCount = {n - d - 1 : n \in Cached} /\ recvRepeatSeq = Wire(d)
    BY <2>1 DEF ReceiverAt
  <2>5. ASSUME NEW b \in SlotIndex
        PROVE  b \in cacheRepeatCount <=> IsKept(UAdd(recvRepeatSeq, b + 1))
    <3>1. b \in Nat /\ b + 1 \in SeqNo /\ d + (b + 1) \in d .. d + Window + 2
      BY <2>2 DEF SlotIndex, SeqNo
    <3>2. UAdd(recvRepeatSeq, b + 1) = Wire(d + (b + 1))
      BY <2>2, <2>4, <3>1, WireAdd
    <3>3. b \in cacheRepeatCount <=> d + (b + 1) \in Cached
      <4>1. b \in cacheRepeatCount => d + (b + 1) \in Cached
        BY <2>2, <2>3, <2>4, <3>1
      <4>2. d + (b + 1) \in Cached => b \in cacheRepeatCount
        <5>1. b = (d + (b + 1)) - d - 1
          BY <2>2, <3>1
        <5> QED
          BY <2>4, <5>1
      <4> QED
        BY <4>1, <4>2
    <3> QED
      BY <2>1, <2>2, <3>1, <3>2, <3>3, KeptIsCached
  <2>6. Cardinality(Cached) = Cardinality(cacheRepeatCount)
    <3> DEFINE f == [n \in Cached |-> n - d - 1]
    <3>1. f \in Bijection(Cached, cacheRepeatCount)
      <4>1. f \in [Cached -> cacheRepeatCount]
        BY <2>4
      <4>2. \A m, n \in Cached : f[m] = f[n] => m = n
        BY <2>2, <2>3
      <4>3. \A b \in cacheRepeatCount : \E n \in Cached : f[n] = b
        BY <2>4
      <4> QED
        BY <4>1, <4>2, <4>3 DEF Bijection, Injection, Surjection, IsInjective
    <3>2. IsFiniteSet(Cached)
      <4>1. Cached \in SUBSET (0 .. sent) /\ 0 \in Int /\ sent \in Int
        BY <2>2, <2>3
      <4>2. IsFiniteSet(0 .. sent)
        BY <4>1, FS_Interval
      <4> QED
        BY <4>1, <4>2, FS_Subset
    <3> QED
      BY <3>1, <3>2, FS_Bijection DEF ExistsBijection
  <2>7. PICK h \in Cached \cup {d} : lastRepeatSeq = Wire(h) /\ \A n \in Cached : n <= h
    BY <2>1 DEF ReceiverAt
  <2>8. CASE cacheRepeatCount = {}
    <3>1. Cached = {}
      BY <2>4, <2>8
    <3>2. lastRepeatSeq = Wire(d + 0)
      BY <2>2, <2>7, <3>1
    <3>3. UAdd(Wire(d), 0) = Wire(d + 0)
      BY <2>2, WireAdd DEF SeqNo
    <3> QED
      BY <2>4, <2>5, <2>6, <2>8, <3>2, <3>3 DEF CacheAgreement
  <2>9. CASE cacheRepeatCount # {}
    <3>1. h \in Cached /\ h \in Nat
      BY <2>2, <2>3, <2>4, <2>7, <2>9
    <3> DEFINE top == CHOOSE b \in cacheRepeatCount : \A c \in cacheRepeatCount : c <= b
    <3>2. /\ h - d - 1 \in cacheRepeatCount
          /\ \A c \in cacheRepeatCount : c <= h - d - 1
      BY <2>2, <2>3, <2>4, <2>7, <3>1
    <3>3. top \in cacheRepeatCount /\ \A c \in cacheRepeatCount : c <= top
      BY <3>2
    <3>4. top = h - d - 1
      <4>1. \A c \in cacheRepeatCount : c \in Int
        BY <2>2, <2>3, <2>4
      <4> HIDE DEF top
      <4> QED
        BY <2>2, <3>1, <3>2, <3>3, <4>1
    <3>5. 1 + top \in SeqNo /\ d + (1 + top) = h
      <4> HIDE DEF top
      <4> QED
        BY <2>2, <2>3, <3>1, <3>4 DEF SeqNo
    <3>6. lastRepeatSeq = UAdd(recvRepeatSeq, 1 + top)
      <4> HIDE DEF top
      <4> QED
        BY <2>2, <2>4, <2>7, <3>5, WireAdd
    <3> QED
      BY <2>5, <2>6, <2>9, <3>6 DEF CacheAgreement
  <2> QED
    BY <2>8, <2>9
<1> QED
  BY <1>1, ChannelInvariantHolds, PTL

-----------------------------------------------------------------------------
(* The ordered channel implements FifoDelivery                             *)

\* Handing over packets d + 1 to e appends them.
LEMMA PrefixGrows ==
  ASSUME NEW d \in Nat, NEW e \in Nat, d < e
  PROVE  [i \in 1 .. e |-> i] = [i \in 1 .. d |-> i] \o [i \in 1 .. e - d |-> d + i]
<1> DEFINE a == [i \in 1 .. d |-> i]
           b == [i \in 1 .. e - d |-> d + i]
           c == [i \in 1 .. e |-> i]
<1>1. a \in Seq(Nat) /\ Len(a) = d /\ \A i \in 1 .. d : a[i] = i
  OBVIOUS
<1>2. e - d \in Nat
  OBVIOUS
<1>3. b \in Seq(Nat) /\ Len(b) = e - d /\ \A i \in 1 .. e - d : b[i] = d + i
  BY <1>2
<1>4. c \in Seq(Nat) /\ Len(c) = e /\ \A i \in 1 .. e : c[i] = i
  OBVIOUS
<1> HIDE DEF a, b, c
<1>5. a \o b \in Seq(Nat) /\ Len(a \o b) = e /\ \A i \in 1 .. e : (a \o b)[i] = i
  <2>1. /\ a \o b \in Seq(Nat) /\ Len(a \o b) = Len(a) + Len(b)
        /\ \A i \in 1 .. Len(a) + Len(b) :
             (a \o b)[i] = IF i <= Len(a) THEN a[i] ELSE b[i - Len(a)]
    BY <1>1, <1>3, ConcatProperties
  <2>2. Len(a) + Len(b) = e
    BY <1>1, <1>3
  <2>3. ASSUME NEW i \in 1 .. e PROVE (a \o b)[i] = i
    <3>1. (a \o b)[i] = IF i <= d THEN a[i] ELSE b[i - d]
      BY <1>1, <2>1, <2>2
    <3>2. i > d => i - d \in 1 .. e - d /\ d + (i - d) = i
      OBVIOUS
    <3> QED
      BY <1>1, <1>3, <3>1, <3>2
  <2> QED
    BY <2>1, <2>2, <2>3
<1>6. c = a \o b
  BY <1>4, <1>5, SeqEqual
<1> QED
  BY <1>6 DEF a, b, c

\* A step of the channel is a step of FifoDelivery or changes neither of its
\* variables.
LEMMA ChannelStepIsFifoStep ==
  ASSUME ChannelInvariant, [Next]_vars
  PROVE  [Fifo!Next]_<<sent, delivered>>
<1>1. CASE UNCHANGED vars
  BY <1>1 DEF vars, senderVars, receiverVars
<1>2. CASE SendPacket /\ UNCHANGED receiverVars
  <2>1. sent' = sent + 1
    BY <1>2, SendPacketInvariant DEF ChannelInvariant, ChannelTypes, TypeOK
  <2> QED
    BY <1>2, <2>1 DEF Fifo!Next, Fifo!Send, receiverVars
<1>3. CASE /\ \/ LosePacket
              \/ \E due \in SUBSET SlotIndex : RepeatMessage(due)
              \/ \E a \in acks : RecvDispatchACK(a)
           /\ UNCHANGED receiverVars
  BY <1>3 DEF LosePacket, RepeatMessage, RecvDispatchACK, senderVars, receiverVars
<1>4. ASSUME NEW p \in data, SessionRecvDispatch(p) \/ ClientRecvDispatch(p)
      PROVE  [Fifo!Next]_<<sent, delivered>>
  <2>1. UNCHANGED <<senderVars, data>>
    BY <1>4 DEF SessionRecvDispatch, ClientRecvDispatch, RecvDispatch
  <2>2. CASE RecvDuplicate(p) \/ RecvAhead(p)
    BY <2>1, <2>2 DEF RecvDuplicate, RecvAhead, receiverVars, senderVars
  <2>3. CASE RecvNext(p)
    <3>1. PICK d \in 0 .. sent, e \in 0 .. sent :
                 /\ d < e
                 /\ delivered = [i \in 1 .. d |-> i]
                 /\ delivered' = [i \in 1 .. e |-> i]
      BY <2>1, <2>3, ChannelRecvNext
    <3>2. sent \in Nat /\ d \in Nat /\ e \in Nat
      BY SenderNumbers DEF ChannelInvariant, ChannelTypes, TypeOK
    <3>3. Len(delivered) = d
      BY <3>1, <3>2
    <3>4. delivered' = delivered \o [i \in 1 .. e - d |-> d + i]
      BY <3>1, <3>2, PrefixGrows
    <3>5. e \in d + 1 .. sent
      BY <3>1, <3>2
    <3>6. Fifo!Deliver
      BY <2>1, <3>3, <3>4, <3>5 DEF Fifo!Deliver, senderVars
    <3> QED
      BY <3>6 DEF Fifo!Next
  <2> QED
    BY <1>4, <2>2, <2>3 DEF SessionRecvDispatch, ClientRecvDispatch, RecvDispatch
<1> QED
  BY <1>1, <1>2, <1>3, <1>4 DEF Next

\* Whatever is lost, repeated or reordered, and whatever a full window does,
\* PacketParse is called on the packets in sending order and once each.
THEOREM ChannelIsFifo == Spec => RefinesFifoDelivery
<1>1. Init => Fifo!Init
  BY DEF Init, SenderInit, Fifo!Init
<1>2. ChannelInvariant /\ [Next]_vars => [Fifo!Next]_<<sent, delivered>>
  BY ChannelStepIsFifoStep
<1> QED
  BY <1>1, <1>2, ChannelInvariantHolds, PTL DEF Spec, RefinesFifoDelivery, Fifo!Spec
=============================================================================
