----------------------- MODULE UnorderedStreamProofs -----------------------
(***************************************************************************)
(* The streams without a channel, for every modulus, window and number of  *)
(* packets and for each of the three senders: both implement OnceDelivery, *)
(* the reliable one's mask describes exactly what was handled, and the     *)
(* unreliable one never goes back to an older packet.                      *)
(***************************************************************************)
EXTENDS UnorderedStream, ReliableStreamProofs

\* The initial state, after Reset or further on.
LEMMA StreamTypesInit == Init => TypeOK
<1> SUFFICES ASSUME Init PROVE TypeOK
  OBVIOUS
<1>1. StartSeq \in SeqNo
  BY SeqModAssumption DEF SeqNo
<1>2. SenderTypeOK
  BY SenderInitType DEF Init
<1> QED
  BY <1>1, <1>2 DEF Init, ReceiverInit, ReceiverTypeOK, TypeOK

\* RecvDispatch, with its ACK.
LEMMA RecvDispatchTypes ==
  ASSUME TypeOK, NEW p \in data, RecvDispatch(p), UNCHANGED reliable
  PROVE  TypeOK'
<1>1. p \in Datagram /\ p.sequenceNo \in SeqNo /\ p.payload \in Payload
  BY DEF TypeOK, SenderTypeOK, Datagram
<1>2. acks' \subseteq acks \cup {p}
  BY DEF RecvDispatch, RecvDuplicate, RecvAhead, RecvNext, RecvUnreliable, SendAck
<1>3. SenderTypeOK' /\ reliable' \in BOOLEAN
  BY <1>1, <1>2 DEF TypeOK, SenderTypeOK, RecvDispatch, senderVars
<1>4. CASE RecvDuplicate(p)
  BY <1>3, <1>4 DEF RecvDuplicate, TypeOK, ReceiverTypeOK, receiverVars, receiverBase
<1>5. CASE RecvAhead(p)
  <2>1. Bit(p.sequenceNo) \in SlotIndex
    BY <1>1, <1>5, BitType DEF TypeOK, RecvAhead
  <2>2. ReceiverTypeOK'
    BY <1>1, <1>5, <2>1 DEF TypeOK, ReceiverTypeOK, RecvAhead, HighestSeen
  <2>3. handled' \in [Payload -> Nat]
    BY <1>1, <1>5 DEF TypeOK, RecvAhead, Handle
  <2> QED
    BY <1>3, <2>2, <2>3 DEF TypeOK
<1>6. CASE RecvNext(p)
  <2>1. PICK n \in 0 .. Window :
          /\ cacheRepeatCount' = ShiftRight(cacheRepeatCount, n + 1)
          /\ recvRepeatSeq' = UAdd(p.sequenceNo, n)
    BY <1>6 DEF RecvNext
  <2>2. n + 1 \in Nat /\ n \in SeqNo
    BY SmallDistances, SeqModAssumption
  <2>3. recvRepeatSeq' \in SeqNo /\ cacheRepeatCount' \subseteq SlotIndex
    BY <1>1, <2>1, <2>2, UAddType, ShiftRightType DEF TypeOK, ReceiverTypeOK
  <2>4. lastRepeatSeq' \in SeqNo /\ handled' \in [Payload -> Nat]
    BY <1>1, <1>6, <2>3 DEF TypeOK, ReceiverTypeOK, RecvNext, Handle
  <2> QED
    BY <1>3, <2>3, <2>4 DEF TypeOK, ReceiverTypeOK
<1>7. CASE RecvUnreliable(p)
  <2>1. ReceiverTypeOK'
    BY <1>1, <1>7 DEF TypeOK, ReceiverTypeOK, RecvUnreliable
  <2>2. handled' \in [Payload -> Nat]
    BY <1>1, <1>7 DEF TypeOK, RecvUnreliable, Handle
  <2> QED
    BY <1>3, <2>1, <2>2 DEF TypeOK
<1> QED
  BY <1>4, <1>5, <1>6, <1>7 DEF RecvDispatch

\* An unreliable packet takes a number and leaves the window alone.
LEMMA SendUnreliableTypes ==
  ASSUME TypeOK, SendUnreliable
  PROVE  SenderTypeOK'
<1>1. sent' \in Payload /\ sent' \in 0 .. MaxSend
  BY SenderAssumption DEF SendUnreliable, TakeSequenceNo, TypeOK, SenderTypeOK, Payload
<1>2. sendRepeatSeq' \in SeqNo
  BY UAddType, SeqModAssumption DEF SendUnreliable, TakeSequenceNo, TypeOK, SenderTypeOK, SeqNo
<1>3. data' \subseteq Datagram /\ acks' \subseteq Datagram
  BY <1>1, <1>2 DEF SendUnreliable, SendToReliable, Alive, TypeOK, SenderTypeOK, Datagram
<1> QED
  BY <1>1, <1>2, <1>3 DEF SendUnreliable, TypeOK, SenderTypeOK

\* Every step of the stream keeps TypeOK.
LEMMA StreamTypesStep == TypeOK /\ [Next]_vars => TypeOK'
<1> SUFFICES ASSUME TypeOK, [Next]_vars PROVE TypeOK'
  OBVIOUS
<1>1. CASE UNCHANGED vars
  BY <1>1 DEF vars, senderVars, receiverVars, receiverBase, TypeOK, SenderTypeOK,
              ReceiverTypeOK
<1>2. CASE /\ \/ SendPacket
              \/ SendUnreliable
              \/ LosePacket
              \/ \E due \in SUBSET SlotIndex : RepeatMessage(due)
              \/ \E a \in acks : RecvDispatchACK(a)
           /\ UNCHANGED <<reliable, receiverVars>>
  <2>1. SenderTypeOK'
    BY <1>2, SenderStepType, SendUnreliableTypes DEF TypeOK
  <2> QED
    BY <1>2, <2>1 DEF TypeOK, ReceiverTypeOK, receiverVars, receiverBase
<1> QED
  BY <1>1, <1>2, RecvDispatchTypes DEF Next, Send

\* Sequence numbers stay in Uint32, the mask in its bits, and only packets
\* that were sent are handed to PacketParse.
THEOREM StreamTypeCorrect == Spec => []TypeOK
BY StreamTypesInit, StreamTypesStep, PTL DEF Spec

-----------------------------------------------------------------------------
(* The streams over packets instead of sequence numbers                    *)

\* Packets 1 to d have been handled and packet d + 1 has not; a packet handled
\* early is less than a window from d.  The mask has the bits of those, and
\* lastRepeatSeq is the number of the highest packet handled.
StreamAt(d) ==
  /\ recvRepeatSeq = Wire(d)
  /\ 1 .. d \subseteq Handled
  /\ d + 1 \notin Handled
  /\ \A n \in Handled : n < d + Window /\ n <= sent
  /\ cacheRepeatCount = {n - d - 1 : n \in {k \in Handled : k > d}}
  /\ \E h \in Handled \cup {0} : /\ lastRepeatSeq = Wire(h)
                                 /\ \A n \in Handled : n <= h

ReliableInvariant ==
  /\ SenderInvariant
  /\ AcceptedIsKeptOrIn(Handled)
  /\ AckedIsIn(Handled)
  /\ \E d \in 0 .. sent : StreamAt(d) /\ Lead(d)

\* The unreliable stream keeps nothing and acknowledges nothing.  Its datagrams
\* are young, and none newer than the last one handled has been handled.
UnreliableInvariant ==
  /\ sendRepeatSeq = Wire(sent)
  /\ \A i \in SlotIndex : pendingPackets[i].buffer = nullptr
  /\ acks = {}
  /\ \A p \in data : /\ p.sequenceNo = Wire(p.payload)
                     /\ p.payload <= sent
                     /\ p.payload = sent \/ sent < p.payload + Lifetime
  /\ \E d \in 0 .. sent : recvRepeatSeq = Wire(d) /\ \A n \in Handled : n <= d

\* The inductive invariant of the two streams.
StreamInvariant ==
  /\ TypeOK
  /\ \A n \in Payload : handled[n] \in {0, 1}
  /\ reliable => ReliableInvariant
  /\ ~reliable => UnreliableInvariant
\* The first state.
LEMMA StreamInvariantInit == Init => StreamInvariant
<1> SUFFICES ASSUME Init PROVE StreamInvariant
  OBVIOUS
<1>1. TypeOK /\ SenderInvariant
  BY StreamTypesInit, SenderInvariantInit DEF Init
<1>2. Handled = {} /\ sent = 0 /\ acks = {} /\ data = {} /\ overflowed = {}
  BY DEF Handled, Init, SenderInit
<1>3. Wire(0) = StartSeq
  BY WireZero
<1>4. \A n \in Payload : handled[n] \in {0, 1}
  BY DEF Init
<1>5. StreamAt(0)
  <2>1. 1 .. 0 = {}
    OBVIOUS
  <2> QED
    BY <1>2, <1>3, <2>1 DEF StreamAt, Init, ReceiverInit
<1>6. Lead(0)
  BY <1>2, FS_EmptySet, SeqModAssumption DEF Lead
<1>7. ReliableInvariant
  BY <1>1, <1>2, <1>5, <1>6 DEF ReliableInvariant, AcceptedIsKeptOrIn, AckedIsIn
<1>8. UnreliableInvariant
  BY <1>2, <1>3 DEF UnreliableInvariant, Init, SenderInit, EmptyPending, ReceiverInit
<1> QED
  BY <1>1, <1>4, <1>7, <1>8 DEF StreamInvariant

\* A step of the reliable sender.
LEMMA ReliableSenderStep ==
  ASSUME TypeOK, ReliableInvariant, SenderStep, UNCHANGED receiverVars
  PROVE  ReliableInvariant'
<1>1. PICK d \in 0 .. sent : StreamAt(d) /\ Lead(d)
  BY DEF ReliableInvariant
<1>2. PICK R : R = Handled
  OBVIOUS
<1>3. SenderTypeOK /\ sent \in Nat /\ d \in Nat
  BY SenderNumbers DEF TypeOK
<1>4. /\ \A n \in R : n < d + Window
      /\ AcceptedIsKeptOrIn(R) /\ AckedIsIn(R)
  BY <1>1, <1>2 DEF ReliableInvariant, StreamAt
<1>5. /\ SenderInvariant' /\ AcceptedIsKeptOrIn(R)' /\ AckedIsIn(R)' /\ Lead(d)'
      /\ sent <= sent'
  BY <1>1, <1>3, <1>4, SenderStepInvariant DEF ReliableInvariant
<1>6. SenderTypeOK'
  BY <1>3, SenderStepType DEF SenderStep
<1>7. Handled' = R /\ R \subseteq Nat
  BY <1>2, SenderNumbers, <1>3 DEF Handled, receiverVars, Payload
<1>8. AcceptedIsKeptOrIn(Handled)' /\ AckedIsIn(Handled)'
  BY <1>5, <1>7 DEF AcceptedIsKeptOrIn, AckedIsIn
<1>9. sent' \in Nat
  BY <1>6, SenderNumbers DEF SenderTypeOK
<1>10. \A n \in R : n < d + Window /\ n <= sent'
  BY <1>1, <1>2, <1>3, <1>5, <1>7, <1>9 DEF StreamAt
<1>11. StreamAt(d)'
  BY <1>1, <1>2, <1>7, <1>10 DEF StreamAt, receiverVars, receiverBase
<1>12. d \in 0 .. sent'
  BY <1>3, <1>5, <1>9
<1> QED
  BY <1>5, <1>8, <1>11, <1>12 DEF ReliableInvariant

\* What handling packet n changes: n had not been handled.
HandlesNew(n) ==
  /\ n \in Payload
  /\ n <= sent
  /\ handled[n] = 0
  /\ handled' = [handled EXCEPT ![n] = 1]

\* After the reliable stream has received a packet: the sender has not moved, and
\* the packet that is acknowledged has been handled.
LEMMA ReliableAfterReceive ==
  ASSUME TypeOK, ReliableInvariant, NEW p \in data, UNCHANGED <<senderVars, data>>,
         SendAck(p), Handled \subseteq Handled', p.payload \in Handled',
         NEW d \in Nat, NEW e \in Nat, Lead(d), d <= e, e <= sent, StreamAt(e)'
  PROVE  ReliableInvariant'
<1>1. SenderInvariant' /\ Kept' = Kept
  BY AckInvariant DEF SendAck, ReliableInvariant
<1>2. UNCHANGED <<isConnect, sent, overflowed>> /\ acks' = acks \cup {p}
  BY DEF senderVars, SendAck
<1>3. AcceptedIsKeptOrIn(Handled)' /\ AckedIsIn(Handled)'
  BY <1>1, <1>2 DEF ReliableInvariant, AcceptedIsKeptOrIn, AckedIsIn
<1>4. SenderTypeOK /\ sent \in Nat
  BY SenderNumbers DEF TypeOK
<1>5. Lead(e)'
  BY <1>2, <1>4, OverflowedIsFinite, SenderNumbers DEF Lead
<1> QED
  BY <1>1, <1>2, <1>3, <1>4, <1>5 DEF ReliableInvariant

\* Handle on a packet that had not been handled.
LEMMA HandleNew ==
  ASSUME TypeOK, NEW p \in data, Handle(p), p.payload \in Payload, p.payload <= sent,
         p.payload \notin Handled
  PROVE  HandlesNew(p.payload) /\ Handled' = Handled \cup {p.payload}
<1>1. handled[p.payload] = 0 /\ handled \in [Payload -> Nat]
  BY DEF TypeOK, Handled
<1>2. handled' = [handled EXCEPT ![p.payload] = 1]
  BY <1>1 DEF Handle
<1> QED
  BY <1>1, <1>2 DEF HandlesNew, Handled

\* A duplicate is acknowledged and not handled.
LEMMA ReliableRecvDuplicate ==
  ASSUME TypeOK, ReliableInvariant, NEW p \in data, RecvDuplicate(p),
         UNCHANGED <<senderVars, data>>
  PROVE  ReliableInvariant' /\ handled' = handled
<1>1. PICK d \in 0 .. sent : StreamAt(d) /\ Lead(d)
  BY DEF ReliableInvariant
<1>2. SenderTypeOK /\ sent \in Nat /\ d \in Nat /\ d <= sent
  BY <1>1, SenderNumbers DEF TypeOK
<1>3. /\ p.payload \in Nat /\ p.payload \in Payload
      /\ p.sequenceNo = Wire(p.payload)
      /\ p.payload - d < SeqMod - Window /\ d - p.payload < SeqMod - Window
  BY <1>1, <1>2, FlightIsNear DEF ReliableInvariant
<1>4. p.payload <= d
  BY <1>1, <1>2, <1>3, ReceiverTests DEF RecvDuplicate, StreamAt
<1>5. p.payload \in Handled
  BY <1>1, <1>2, <1>3, <1>4 DEF StreamAt, Payload
<1>6. UNCHANGED receiverVars /\ SendAck(p)
  BY DEF RecvDuplicate
<1>7. Handled' = Handled /\ handled' = handled
  BY <1>6 DEF Handled, receiverVars
<1>8. StreamAt(d)'
  BY <1>1, <1>6, <1>7 DEF StreamAt, receiverVars, receiverBase, senderVars
<1> QED
  BY <1>1, <1>2, <1>5, <1>6, <1>7, <1>8, ReliableAfterReceive

\* A packet ahead of the next one is handled unless its bit is set.
LEMMA ReliableRecvAhead ==
  ASSUME TypeOK, ReliableInvariant, NEW p \in data, RecvAhead(p),
         UNCHANGED <<senderVars, data>>
  PROVE  ReliableInvariant' /\ (handled' = handled \/ HandlesNew(p.payload))
<1>1. PICK d \in 0 .. sent : StreamAt(d) /\ Lead(d)
  BY DEF ReliableInvariant
<1>2. SenderTypeOK /\ sent \in Nat /\ d \in Nat /\ d <= sent
  BY <1>1, SenderNumbers DEF TypeOK
<1>3. PICK n \in Nat : /\ n = p.payload /\ n \in Payload /\ n <= sent
                       /\ p.sequenceNo = Wire(n)
                       /\ n - d < SeqMod - Window /\ d - n < SeqMod - Window
  BY <1>1, <1>2, FlightIsNear DEF ReliableInvariant
<1>4. IsAhead(Wire(n)) /\ recvRepeatSeq = Wire(d)
  BY <1>1, <1>3 DEF RecvAhead, StreamAt
<1>5. n \in d + 2 .. d + Window - 1 /\ Bit(Wire(n)) = n - d - 1
  BY <1>2, <1>3, <1>4, ReceiverTests
<1>6. Window \in Nat /\ 1 <= Window
  BY SeqModAssumption
<1>7. Handled \subseteq Nat
  BY SenderNumbers, <1>2 DEF Handled, Payload
<1>8. PICK h \in Handled \cup {0} : lastRepeatSeq = Wire(h) /\ \A m \in Handled : m <= h
  BY <1>1 DEF StreamAt
<1>9. h \in Nat /\ d <= h /\ h < d + Window
  <2>1. d = 0 \/ d \in Handled
    BY <1>1, <1>2 DEF StreamAt
  <2> QED
    BY <1>1, <1>2, <1>6, <1>7, <1>8, <2>1 DEF StreamAt
<1>10. lastRepeatSeq' = Wire(IF n >= h THEN n ELSE h)
  <2>1. d <= n /\ n < d + Window
    BY <1>2, <1>5, <1>6
  <2>2. lastRepeatSeq' = HighestSeen(Wire(n))
    BY <1>3 DEF RecvAhead
  <2> QED
    BY <1>2, <1>8, <1>9, <2>1, <2>2, HighestSeenPacket
<1>11. recvRepeatSeq' = recvRepeatSeq /\ sent' = sent /\ SendAck(p)
  BY DEF RecvAhead, senderVars
<1>12. cacheRepeatCount = {m - d - 1 : m \in {k \in Handled : k > d}}
  BY <1>1 DEF StreamAt
<1>13. n - d - 1 \in cacheRepeatCount <=> n \in Handled
  BY <1>2, <1>5, <1>6, <1>7, <1>12
<1>14. CASE n \in Handled
  <2>1. UNCHANGED <<cacheRepeatCount, handled>>
    BY <1>3, <1>5, <1>13, <1>14 DEF RecvAhead
  <2>2. Handled' = Handled
    BY <2>1 DEF Handled
  <2>3. lastRepeatSeq' = Wire(h)
    BY <1>8, <1>9, <1>10, <1>14
  <2>4. StreamAt(d)'
    BY <1>1, <1>8, <1>11, <2>1, <2>2, <2>3 DEF StreamAt
  <2> QED
    BY <1>1, <1>2, <1>3, <1>11, <1>14, <2>1, <2>2, <2>4, ReliableAfterReceive
<1>15. CASE n \notin Handled
  <2>1. cacheRepeatCount' = cacheRepeatCount \cup {n - d - 1} /\ Handle(p)
    BY <1>3, <1>5, <1>13, <1>15 DEF RecvAhead
  <2>2. HandlesNew(n) /\ Handled' = Handled \cup {n}
    BY <1>3, <1>15, <2>1, HandleNew
  <2>3. cacheRepeatCount' = {m - d - 1 : m \in {k \in Handled' : k > d}}
    <3>1. {k \in Handled' : k > d} = {k \in Handled : k > d} \cup {n}
      BY <1>2, <1>5, <1>6, <2>2
    <3> QED
      BY <1>12, <2>1, <3>1
  <2>4. \E g \in Handled' \cup {0} : lastRepeatSeq' = Wire(g) /\ \A m \in Handled' : m <= g
    <3>1. PICK g \in Nat : g = IF n >= h THEN n ELSE h
      BY <1>9
    <3>2. g \in Handled' \cup {0} /\ \A m \in Handled' : m <= g
      BY <1>7, <1>8, <1>9, <2>2, <3>1
    <3> QED
      BY <1>10, <3>1, <3>2
  <2>5. /\ 1 .. d \subseteq Handled' /\ d + 1 \notin Handled'
        /\ \A m \in Handled' : m < d + Window /\ m <= sent
    BY <1>1, <1>2, <1>3, <1>5, <1>6, <2>2 DEF StreamAt
  <2>6. StreamAt(d)'
    BY <1>4, <1>11, <2>3, <2>4, <2>5 DEF StreamAt
  <2> QED
    BY <1>1, <1>2, <1>3, <1>11, <2>2, <2>6, ReliableAfterReceive
<1> QED
  BY <1>14, <1>15
\* The next packet: recvRepeatSeq moves to the last packet before the next gap.
LEMMA ReliableRecvNext ==
  ASSUME TypeOK, ReliableInvariant, NEW p \in data, RecvNext(p),
         UNCHANGED <<senderVars, data>>
  PROVE  ReliableInvariant' /\ HandlesNew(p.payload)
<1>1. PICK d \in 0 .. sent : StreamAt(d) /\ Lead(d)
  BY DEF ReliableInvariant
<1>2. SenderTypeOK /\ sent \in Nat /\ d \in Nat /\ d <= sent
  BY <1>1, SenderNumbers DEF TypeOK
<1>3. /\ p.payload = d + 1 /\ d + 1 \in Payload /\ d + 1 <= sent
      /\ p.sequenceNo = Wire(d + 1)
  <2>1. /\ p.payload \in Nat /\ p.payload \in Payload /\ p.payload <= sent
        /\ p.sequenceNo = Wire(p.payload)
        /\ p.payload - d < SeqMod - Window /\ d - p.payload < SeqMod - Window
    BY <1>1, <1>2, FlightIsNear DEF ReliableInvariant
  <2>2. IsNext(Wire(p.payload)) /\ recvRepeatSeq = Wire(d)
    BY <1>1, <2>1 DEF RecvNext, StreamAt
  <2>3. p.payload = d + 1
    BY <1>2, <2>1, <2>2, ReceiverTests
  <2> QED
    BY <2>1, <2>3
<1>4. PICK k \in 0 .. Window :
        /\ \A b \in 1 .. k : b \in cacheRepeatCount
        /\ k + 1 \notin cacheRepeatCount
        /\ cacheRepeatCount' = ShiftRight(cacheRepeatCount, k + 1)
        /\ recvRepeatSeq' = UAdd(p.sequenceNo, k)
  BY DEF RecvNext
<1>5. /\ Window \in Nat /\ 1 <= Window /\ 3 * Window <= SeqMod /\ SeqMod \in Nat
      /\ k \in Nat /\ k <= Window /\ k \in SeqNo
  BY SeqModAssumption, SenderAssumption DEF SeqNo
<1>6. PICK e \in Nat : e = d + 1 + k
  BY <1>2, <1>5
<1>7. recvRepeatSeq' = Wire(e)
  BY <1>2, <1>3, <1>4, <1>5, <1>6, WireAdd
<1>8. /\ 1 .. d \subseteq Handled /\ d + 1 \notin Handled
      /\ \A n \in Handled : n < d + Window /\ n <= sent
      /\ recvRepeatSeq = Wire(d)
  BY <1>1 DEF StreamAt
<1>9. Handled \subseteq Nat
  BY <1>2, SenderNumbers DEF Handled, Payload
<1>10. HandlesNew(d + 1) /\ Handled' = Handled \cup {d + 1}
  <2>1. Handle(p)
    BY DEF RecvNext
  <2> QED
    BY <1>3, <1>8, <2>1, HandleNew
<1>11. cacheRepeatCount = {n - d - 1 : n \in {j \in Handled : j > d}}
  BY <1>1 DEF StreamAt
<1>12. \A b \in Nat : b \in cacheRepeatCount <=> d + 1 + b \in Handled
  <2> TAKE b \in Nat
  <2>1. b \in cacheRepeatCount => d + 1 + b \in Handled
    BY <1>2, <1>9, <1>11
  <2>2. ASSUME d + 1 + b \in Handled PROVE b \in cacheRepeatCount
    <3>1. d + 1 + b > d /\ (d + 1 + b) - d - 1 = b
      BY <1>2
    <3> QED
      BY <1>11, <2>2, <3>1
  <2> QED
    BY <2>1, <2>2
<1>13. 1 .. e \subseteq Handled'
  <2> SUFFICES ASSUME NEW n \in 1 .. e PROVE n \in Handled'
    OBVIOUS
  <2>1. CASE n <= d
    BY <1>8, <1>10, <2>1
  <2>2. CASE n = d + 1
    BY <1>10, <2>2
  <2>3. CASE n > d + 1
    <3>1. n - (d + 1) \in 1 .. k /\ n - (d + 1) \in Nat /\ d + 1 + (n - (d + 1)) = n
      BY <1>2, <1>5, <1>6, <2>3
    <3>2. n - (d + 1) \in cacheRepeatCount
      BY <1>4, <3>1
    <3> QED
      BY <1>10, <1>12, <3>1, <3>2
  <2> QED
    BY <1>2, <2>1, <2>2, <2>3
<1>14. e + 1 \notin Handled'
  <2>1. k + 1 \in Nat /\ d + 1 + (k + 1) = e + 1 /\ e + 1 # d + 1
    BY <1>2, <1>5, <1>6
  <2> QED
    BY <1>4, <1>10, <1>12, <2>1
<1>15. e <= sent
  <2>1. e \in Handled'
    BY <1>2, <1>5, <1>6, <1>13
  <2> QED
    BY <1>3, <1>8, <1>10, <2>1
<1>16. \A n \in Handled' : n < e + Window /\ n <= sent
  BY <1>2, <1>3, <1>5, <1>6, <1>8, <1>9, <1>10
<1>17. cacheRepeatCount' = {n - e - 1 : n \in {j \in Handled' : j > e}}
  <2>1. {j \in Handled' : j > e} = {j \in Handled : j > e}
    BY <1>2, <1>5, <1>6, <1>10
  <2>2. \A n \in Handled : n > d =>
          (n - d - 1 >= k + 1 <=> n > e) /\ (n - d - 1) - (k + 1) = n - e - 1
    BY <1>2, <1>5, <1>6, <1>9
  <2>3. {c \in cacheRepeatCount : c >= k + 1} = {n - d - 1 : n \in {j \in Handled : j > e}}
    BY <1>2, <1>5, <1>6, <1>9, <1>11, <2>2
  <2>4. cacheRepeatCount' = {c - (k + 1) : c \in {n - d - 1 : n \in {j \in Handled : j > e}}}
    BY <1>4, <2>3 DEF ShiftRight
  <2>5. \A n \in {j \in Handled : j > e} : (n - d - 1) - (k + 1) = n - e - 1
    BY <1>2, <1>5, <1>6, <1>9, <2>2
  <2> QED
    BY <2>1, <2>4, <2>5
<1>18. PICK h \in Handled \cup {0} : lastRepeatSeq = Wire(h) /\ \A n \in Handled : n <= h
  BY <1>1 DEF StreamAt
<1>19. h \in Nat /\ d <= h /\ h < d + Window
  <2>1. d = 0 \/ d \in Handled
    BY <1>2, <1>8
  <2> QED
    BY <1>2, <1>5, <1>8, <1>9, <1>18, <2>1
<1>20. \E g \in Handled' \cup {0} : lastRepeatSeq' = Wire(g) /\ \A n \in Handled' : n <= g
  <2>1. CASE h = d
    <3>1. lastRepeatSeq' = Wire(e)
      BY <1>7, <1>8, <1>18, <2>1 DEF RecvNext
    <3>2. e \in Handled'
      BY <1>2, <1>5, <1>6, <1>13
    <3>3. \A n \in Handled' : n <= e
      BY <1>2, <1>5, <1>6, <1>9, <1>10, <1>18, <2>1
    <3> QED
      BY <3>1, <3>2, <3>3
  <2>2. CASE h # d
    <3>1. h - d < SeqMod /\ d - h < SeqMod
      BY <1>2, <1>5, <1>19
    <3>2. recvRepeatSeq # lastRepeatSeq
      BY <1>2, <1>8, <1>18, <1>19, <2>2, <3>1, WireEqual
    <3>3. lastRepeatSeq' = Wire(h)
      BY <1>18, <3>2 DEF RecvNext
    <3>4. h \in Handled' /\ \A n \in Handled' : n <= h
      BY <1>2, <1>9, <1>10, <1>18, <1>19, <2>2
    <3> QED
      BY <3>3, <3>4
  <2> QED
    BY <2>1, <2>2
<1>21. StreamAt(e)'
  BY <1>7, <1>13, <1>14, <1>16, <1>17, <1>20 DEF StreamAt, senderVars
<1>22. d <= e
  BY <1>2, <1>5, <1>6
<1>23. SendAck(p)
  BY DEF RecvNext
<1> QED
  BY <1>1, <1>2, <1>3, <1>10, <1>15, <1>21, <1>22, <1>23, ReliableAfterReceive

\* A send of the unreliable stream.
LEMMA UnreliableSend ==
  ASSUME TypeOK, UnreliableInvariant, SendUnreliable, UNCHANGED receiverVars
  PROVE  UnreliableInvariant'
<1>1. SenderTypeOK /\ SenderTypeOK' /\ sent \in Nat
  BY SendUnreliableTypes, SenderNumbers DEF TypeOK
<1>2. /\ sent' = sent + 1 /\ sendRepeatSeq' = UAdd(sendRepeatSeq, 1)
      /\ pendingPackets' = pendingPackets
      /\ data' = Alive(data, sent') \cup {[sequenceNo |-> sendRepeatSeq', payload |-> sent']}
      /\ acks' = Alive(acks, sent')
  BY DEF SendUnreliable, TakeSequenceNo, SendToReliable
<1>3. sendRepeatSeq' = Wire(sent')
  BY <1>1, <1>2, WireAdd, SmallDistances DEF UnreliableInvariant
<1>4. acks' = {}
  BY <1>2 DEF Alive, UnreliableInvariant
<1>5. ASSUME NEW p \in data'
      PROVE  /\ p.sequenceNo = Wire(p.payload)
             /\ p.payload <= sent'
             /\ p.payload = sent' \/ sent' < p.payload + Lifetime
  <2>1. CASE p \in Alive(data, sent')
    <3>1. p \in data /\ p.payload + Lifetime > sent' /\ p.payload <= sent
      BY <2>1 DEF Alive, UnreliableInvariant
    <3>2. p.payload \in Nat
      BY <1>1, <3>1, SenderNumbers DEF SenderTypeOK, Datagram, Payload
    <3> QED
      BY <1>1, <1>2, <3>1, <3>2, SenderNumbers DEF UnreliableInvariant
  <2>2. CASE p = [sequenceNo |-> sendRepeatSeq', payload |-> sent']
    BY <1>1, <1>2, <1>3, <2>2
  <2> QED
    BY <1>2, <1>5, <2>1, <2>2
<1>6. \E d \in 0 .. sent' : (recvRepeatSeq = Wire(d) /\ \A n \in Handled : n <= d)'
  <2>1. PICK d \in 0 .. sent : recvRepeatSeq = Wire(d) /\ \A n \in Handled : n <= d
    BY DEF UnreliableInvariant
  <2>2. Handled' = Handled /\ recvRepeatSeq' = recvRepeatSeq
    BY DEF Handled, receiverVars, receiverBase
  <2>3. d \in 0 .. sent'
    BY <1>1, <1>2
  <2> QED
    BY <2>1, <2>2, <2>3
<1> QED
  BY <1>2, <1>3, <1>4, <1>5, <1>6 DEF UnreliableInvariant

\* RecvUnreliable accepts only what is newer than the last packet it handled: a
\* datagram cannot be so old that its distance wraps into the accepted range.
LEMMA UnreliableRecv ==
  ASSUME TypeOK, UnreliableInvariant, NEW p \in data, RecvUnreliable(p),
         UNCHANGED <<senderVars, data>>
  PROVE  /\ UnreliableInvariant'
         /\ HandlesNew(p.payload)
         /\ \A m \in Handled : m < p.payload
<1>1. SenderTypeOK /\ sent \in Nat
  BY SenderNumbers DEF TypeOK
<1>2. PICK n \in Nat : n = p.payload /\ n \in Payload
  BY <1>1, SenderNumbers DEF SenderTypeOK, Datagram, Payload
<1>3. /\ p.sequenceNo = Wire(n) /\ n <= sent
      /\ n = sent \/ sent < n + Lifetime
  BY <1>2 DEF UnreliableInvariant
<1>4. PICK d \in 0 .. sent : recvRepeatSeq = Wire(d) /\ \A m \in Handled : m <= d
  BY DEF UnreliableInvariant
<1>5. /\ d \in Nat /\ d <= sent /\ SeqMod \in Nat /\ Lifetime \in Nat
      /\ Lifetime < SeqMod /\ AcceptRange \in Nat /\ AcceptRange + Lifetime <= SeqMod
  BY <1>1, SenderNumbers, AcceptAssumption
<1>6. USub(Wire(n), Wire(d)) # 0 /\ USub(Wire(n), Wire(d)) < AcceptRange
  BY <1>3, <1>4 DEF RecvUnreliable, Accepts
<1>7. d < n
  <2>1. ASSUME n < d PROVE FALSE
    <3>1. d - n < Lifetime /\ d - n < SeqMod
      BY <1>1, <1>3, <1>5, <2>1
    <3>2. USub(Wire(n), Wire(d)) = SeqMod - (d - n)
      BY <1>5, <2>1, <3>1, WireSubBack
    <3> QED
      BY <1>5, <1>6, <3>1, <3>2
  <2>2. n # d
    BY <1>5, <1>6, WireType, USubSelf
  <2> QED
    BY <1>5, <2>1, <2>2
<1>8. Handled \subseteq Nat
  BY <1>1, SenderNumbers DEF Handled, Payload
<1>9. \A m \in Handled : m < n
  BY <1>4, <1>5, <1>7, <1>8
<1>10. HandlesNew(n) /\ Handled' = Handled \cup {n}
  <2>1. Handle(p) /\ n \notin Handled
    BY <1>9 DEF RecvUnreliable
  <2> QED
    BY <1>2, <1>3, <2>1, HandleNew
<1>11. recvRepeatSeq' = Wire(n) /\ acks' = acks
  BY <1>3 DEF RecvUnreliable
<1>12. \E e \in 0 .. sent' : (recvRepeatSeq = Wire(e) /\ \A m \in Handled : m <= e)'
  <2>1. n \in 0 .. sent' /\ \A m \in Handled' : m <= n
    BY <1>1, <1>3, <1>8, <1>9, <1>10 DEF senderVars
  <2> QED
    BY <1>11, <2>1
<1>13. UnreliableInvariant'
  BY <1>11, <1>12 DEF UnreliableInvariant, senderVars
<1> QED
  BY <1>2, <1>9, <1>10, <1>13
\* What a step may do with a packet: send the next one, or hand over one that
\* was sent and not yet handled, which on the unreliable stream is newer than all
\* that were.
SendsOrHandles ==
  \/ handled' = handled /\ sent' \in {sent, sent + 1}
  \/ /\ sent' = sent
     /\ \E n \in Payload : HandlesNew(n) /\ (~reliable => \A m \in Handled : m < n)

\* A step of the reliable stream.
LEMMA ReliableStep ==
  ASSUME StreamInvariant, reliable, Next
  PROVE  ReliableInvariant' /\ SendsOrHandles
<1>1. TypeOK /\ ReliableInvariant
  BY DEF StreamInvariant
<1>2. CASE SenderStep /\ UNCHANGED receiverVars
  <2>1. ReliableInvariant' /\ handled' = handled
    BY <1>1, <1>2, ReliableSenderStep DEF receiverVars
  <2>2. sent' \in {sent, sent + 1}
    BY <1>1, <1>2, SendPacketInvariant
       DEF SenderStep, LosePacket, RepeatMessage, RecvDispatchACK, senderVars,
           ReliableInvariant, TypeOK
  <2> QED
    BY <2>1, <2>2 DEF SendsOrHandles
<1>3. ASSUME NEW p \in data, RecvDispatch(p) PROVE ReliableInvariant' /\ SendsOrHandles
  <2>1. UNCHANGED <<senderVars, data>> /\ sent' = sent
    BY <1>3 DEF RecvDispatch, senderVars
  <2>2. RecvDuplicate(p) \/ RecvAhead(p) \/ RecvNext(p)
    BY <1>3 DEF RecvDispatch
  <2>3. ReliableInvariant' /\ (handled' = handled \/ HandlesNew(p.payload))
    BY <1>1, <2>1, <2>2, ReliableRecvDuplicate, ReliableRecvAhead, ReliableRecvNext
  <2> QED
    BY <2>1, <2>3 DEF SendsOrHandles, HandlesNew
<1> QED
  BY <1>2, <1>3 DEF Next, Send, SenderStep

\* A step of the unreliable stream.
LEMMA UnreliableStep ==
  ASSUME StreamInvariant, ~reliable, Next
  PROVE  UnreliableInvariant' /\ SendsOrHandles
<1>1. TypeOK /\ UnreliableInvariant
  BY DEF StreamInvariant
<1>2. CASE SendUnreliable /\ UNCHANGED receiverVars
  <2>1. UnreliableInvariant'
    BY <1>1, <1>2, UnreliableSend
  <2> QED
    BY <1>2, <2>1 DEF SendsOrHandles, SendUnreliable, TakeSequenceNo, receiverVars
<1>3. CASE LosePacket /\ UNCHANGED receiverVars
  <2>1. data' \subseteq data /\ acks' = {} /\ UNCHANGED senderVars
    BY <1>1, <1>3 DEF LosePacket, UnreliableInvariant
  <2>2. Handled' = Handled /\ recvRepeatSeq' = recvRepeatSeq /\ handled' = handled
    BY <1>3 DEF Handled, receiverVars, receiverBase
  <2>3. UnreliableInvariant'
    BY <1>1, <2>1, <2>2 DEF UnreliableInvariant, senderVars
  <2> QED
    BY <2>1, <2>2, <2>3 DEF SendsOrHandles, senderVars
<1>4. ASSUME NEW due \in SUBSET SlotIndex, RepeatMessage(due) PROVE FALSE
  BY <1>1, <1>4 DEF RepeatMessage, UnreliableInvariant
<1>5. ASSUME NEW a \in acks, RecvDispatchACK(a) PROVE FALSE
  BY <1>1 DEF UnreliableInvariant
<1>6. ASSUME NEW p \in data, RecvDispatch(p) PROVE UnreliableInvariant' /\ SendsOrHandles
  <2>1. UNCHANGED <<senderVars, data>> /\ sent' = sent /\ RecvUnreliable(p)
    BY <1>6 DEF RecvDispatch, senderVars
  <2>2. /\ UnreliableInvariant' /\ HandlesNew(p.payload)
        /\ \A m \in Handled : m < p.payload
    BY <1>1, <2>1, UnreliableRecv
  <2> QED
    BY <2>1, <2>2 DEF SendsOrHandles, HandlesNew
<1> QED
  BY <1>2, <1>3, <1>4, <1>5, <1>6 DEF Next, Send

\* Every step of the streams keeps their invariant and does what it may.
LEMMA StreamInvariantStep ==
  StreamInvariant /\ [Next]_vars => StreamInvariant' /\ [SendsOrHandles /\ reliable' = reliable]_vars
<1> SUFFICES ASSUME StreamInvariant, [Next]_vars
             PROVE  StreamInvariant' /\ [SendsOrHandles /\ reliable' = reliable]_vars
  OBVIOUS
<1>1. TypeOK'
  BY StreamTypesStep DEF StreamInvariant
<1>2. CASE UNCHANGED vars
  <2>1. Handled' = Handled /\ Kept' = Kept
    BY <1>2 DEF Handled, Kept, vars, senderVars, receiverVars
  <2>2. UNCHANGED <<reliable, senderVars, data, acks, receiverBase, handled>>
    BY <1>2 DEF vars, receiverVars
  <2>3. SenderInvariant => SenderInvariant'
    BY <2>2 DEF SenderInvariant, SenderWindow, InFlight, senderVars
  <2>4. \A d : (StreamAt(d) => StreamAt(d)') /\ (Lead(d) => Lead(d)')
    BY <2>1, <2>2 DEF StreamAt, Lead, senderVars, receiverBase
  <2>5. ReliableInvariant => ReliableInvariant'
    BY <2>1, <2>2, <2>3, <2>4
       DEF ReliableInvariant, AcceptedIsKeptOrIn, AckedIsIn, senderVars
  <2>6. UnreliableInvariant => UnreliableInvariant'
    BY <2>1, <2>2 DEF UnreliableInvariant, senderVars, receiverBase
  <2> QED
    BY <1>1, <1>2, <2>2, <2>5, <2>6 DEF StreamInvariant
<1>3. CASE Next
  <2>1. reliable' = reliable
    BY <1>3 DEF Next
  <2>2. SendsOrHandles /\ (reliable => ReliableInvariant') /\ (~reliable => UnreliableInvariant')
    BY <1>3, ReliableStep, UnreliableStep
  <2>3. \A n \in Payload : handled'[n] \in {0, 1}
    BY <2>2 DEF SendsOrHandles, HandlesNew, StreamInvariant, TypeOK
  <2> QED
    BY <1>1, <2>1, <2>2, <2>3 DEF StreamInvariant
<1> QED
  BY <1>2, <1>3

\* The inductive invariant of the two streams holds.
LEMMA StreamInvariantHolds == Spec => []StreamInvariant
BY StreamInvariantInit, StreamInvariantStep, PTL DEF Spec

\* The mask and the two numbers of the reliable stream describe what was handled.
THEOREM MaskAgrees == Spec => []MaskAgreement
<1>1. ASSUME StreamInvariant, reliable PROVE MaskAgreement
  <2>1. PICK d \in 0 .. sent : StreamAt(d)
    BY <1>1 DEF StreamInvariant, ReliableInvariant
  <2>2. sent \in Nat /\ d \in Nat /\ d \in 0 .. MaxSend /\ MaxSend \in Nat
    BY <1>1, <2>1, SenderNumbers DEF StreamInvariant, TypeOK
  <2> DEFINE P(m) == m + 1 \notin Handled /\ 1 .. m \subseteq Handled
             low == CHOOSE m \in 0 .. MaxSend : P(m)
  <2>3. P(d)
    BY <2>1 DEF StreamAt
  <2>4. \A m \in 0 .. MaxSend : P(m) => m = d
    <3> SUFFICES ASSUME NEW m \in 0 .. MaxSend, P(m), m # d PROVE FALSE
      OBVIOUS
    <3>1. CASE m < d
      <4>1. m + 1 \in 1 .. d
        BY <2>2, <3>1
      <4> QED
        BY <2>3, <4>1
    <3>2. CASE d < m
      <4>1. d + 1 \in 1 .. m
        BY <2>2, <3>2
      <4> QED
        BY <2>3, <4>1
    <3> QED
      BY <2>2, <3>1, <3>2
  <2>5. low = d
    <3> HIDE DEF P
    <3> QED
      BY <2>2, <2>3, <2>4
  <2>6. /\ recvRepeatSeq = Wire(d)
        /\ cacheRepeatCount = {n - d - 1 : n \in {k \in Handled : k > d}}
        /\ \E h \in Handled \cup {0} : lastRepeatSeq = Wire(h) /\ \A n \in Handled : n <= h
    BY <2>1 DEF StreamAt
  <2> QED
    BY <2>5, <2>6 DEF MaskAgreement
<1>2. StreamInvariant => MaskAgreement
  BY <1>1 DEF MaskAgreement
<1> QED
  BY <1>2, StreamInvariantHolds, PTL

\* RecvDispatch hands each packet of either stream to PacketParse at most once,
\* and none that was not sent.
THEOREM StreamDeliversOnce == Spec => RefinesOnceDelivery
<1>1. Init => Once!Init
  BY DEF Init, SenderInit, Once!Init
<1>2. SendsOrHandles => [Once!Next]_<<sent, handled>>
  BY DEF SendsOrHandles, HandlesNew, Once!Next, Once!Send, Once!Deliver
<1>3. UNCHANGED vars => UNCHANGED <<sent, handled>>
  BY DEF vars, senderVars, receiverVars
<1>4. StreamInvariant /\ [Next]_vars => [Once!Next]_<<sent, handled>>
  BY <1>2, <1>3, StreamInvariantStep
<1> QED
  BY <1>1, <1>4, StreamInvariantHolds, PTL DEF Spec, RefinesOnceDelivery, Once!Spec

\* The unreliable stream never goes back to an older packet, across the wrap too.
THEOREM UnreliableOnlyNewer == Spec => OnlyNewer
<1>1. ASSUME StreamInvariant, SendsOrHandles,
             NEW n \in Payload, ~reliable, handled'[n] # handled[n],
             NEW m \in n .. MaxSend
      PROVE  handled[m] = 0
  <2>1. PICK k \in Payload : HandlesNew(k) /\ \A j \in Handled : j < k
    BY <1>1 DEF SendsOrHandles
  <2>2. k = n
    BY <1>1, <2>1 DEF HandlesNew, StreamInvariant, TypeOK
  <2>3. m \in Payload /\ ~(m < n)
    BY <1>1, SenderAssumption DEF Payload
  <2>4. m \notin Handled
    BY <2>1, <2>2, <2>3
  <2> QED
    BY <1>1, <2>3, <2>4 DEF Handled, StreamInvariant, TypeOK
<1>2. StreamInvariant /\ [Next]_vars =>
        [\A n \in Payload : (~reliable /\ handled'[n] # handled[n])
            => \A m \in n .. MaxSend : handled[m] = 0]_vars
  <2> SUFFICES ASSUME StreamInvariant, SendsOrHandles, NEW n \in Payload,
                      ~reliable, handled'[n] # handled[n], NEW m \in n .. MaxSend
               PROVE  handled[m] = 0
    BY StreamInvariantStep
  <2> QED
    BY <1>1
<1> QED
  BY <1>2, StreamInvariantHolds, PTL DEF Spec, OnlyNewer
=============================================================================
