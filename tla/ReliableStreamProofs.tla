------------------------ MODULE ReliableStreamProofs ------------------------
(***************************************************************************)
(* Facts about Uint32 sequence numbers and about the steps that the two    *)
(* reliable streams share, for every modulus and window that               *)
(* SeqModAssumption allows (2^32 and 64 in the code).                      *)
(*                                                                         *)
(* Numbers wrap, so the argument counts packets: Wire(n) is the number     *)
(* packet n carries, SenderInvariant says in packets what the sender's     *)
(* numbers and slots mean, and Lead bounds how far the sender is ahead of  *)
(* the receiver, which keeps the distances the code computes modulo        *)
(* SeqMod equal to the distances of packets.                               *)
(***************************************************************************)
EXTENDS ReliableReceiver, FiniteSetTheorems, TLAPS

-----------------------------------------------------------------------------
(* Sequence numbers                                                        *)

\* Uint32 subtraction and addition stay in Uint32, and an array index stays
\* in the array.
LEMMA USubType ==
  ASSUME NEW a \in SeqNo, NEW b \in SeqNo
  PROVE  USub(a, b) \in SeqNo
BY SeqModAssumption DEF USub, SeqNo

\* Uint32 addition yields a sequence number.
LEMMA UAddType ==
  ASSUME NEW a \in SeqNo, NEW n \in SeqNo
  PROVE  UAdd(a, n) \in SeqNo
BY SeqModAssumption DEF UAdd, SeqNo

\* A sequence number has a slot.
LEMMA SlotType ==
  ASSUME NEW seq \in SeqNo
  PROVE  Slot(seq) \in SlotIndex
BY SeqModAssumption DEF Slot, SeqNo, SlotIndex

\* The distances the code adds to a sequence number are below the modulus.
LEMMA SmallDistances ==
  /\ 1 \in SeqNo
  /\ \A n \in 0 .. Window : n \in SeqNo
  /\ SlotIndex \subseteq SeqNo
BY SeqModAssumption DEF SeqNo, SlotIndex

\* The distance to a number n further on is n, and the other way round.
LEMMA USubUAdd ==
  ASSUME NEW a \in SeqNo, NEW n \in SeqNo
  PROVE  USub(UAdd(a, n), a) = n
BY SeqModAssumption DEF USub, UAdd, SeqNo

\* The distance of a number from itself.
LEMMA USubSelf ==
  ASSUME NEW a \in SeqNo
  PROVE  USub(a, a) = 0
BY SeqModAssumption DEF USub, SeqNo

\* Uint32 subtraction undoes addition.
LEMMA UAddUSub ==
  ASSUME NEW a \in SeqNo, NEW b \in SeqNo
  PROVE  UAdd(b, USub(a, b)) = a
BY SeqModAssumption DEF USub, UAdd, SeqNo

\* Division with remainder.
LEMMA DivMod ==
  ASSUME NEW W \in Nat \ {0}, NEW a \in Nat
  PROVE  \E q \in Int, r \in 0 .. W - 1 : a % W = r /\ a = W * q + r
<1>1. W \in Int /\ W > 0
  OBVIOUS
<1>2. a \div W \in Int /\ a % W \in Int
  BY <1>1, Z3
<1>3. a = W * (a \div W) + (a % W)
  BY <1>1, Z3
<1>4. 0 <= a % W /\ a % W < W
  BY <1>1, Z3
<1>5. a % W \in 0 .. W - 1
  BY <1>1, <1>2, <1>4
<1> QED
  BY <1>2, <1>3, <1>5, Zenon

\* Adding a multiple of W leaves the remainder.
LEMMA AddMultiple ==
  ASSUME NEW W \in Nat \ {0}, NEW x \in Nat, NEW m \in Nat, m % W = 0
  PROVE  (x + m) % W = x % W
<1>1. PICK q \in Int, s \in 0 .. W - 1 : m % W = s /\ m = W * q + s
  BY DivMod, Zenon
<1>2. PICK p \in Int, r \in 0 .. W - 1 : x % W = r /\ x = W * p + r
  BY DivMod, Zenon
<1>3. s = 0
  BY <1>1, Zenon
<1>4. x + m = W * (p + q) + r
  BY <1>1, <1>2, <1>3, Z3
<1>5. \A a, d, e \in Int : 0 <= e /\ e < W /\ a = W * d + e => a % W = e
  BY Z3
<1>6. p + q \in Int /\ r \in Int /\ 0 <= r /\ r < W /\ x + m \in Int
  BY Z3
<1>7. (x + m) % W = r
  BY <1>4, <1>5, <1>6, Zenon
<1> QED
  BY <1>2, <1>7, Zenon

\* Two numbers less than W apart have different remainders.
LEMMA SameRemainder ==
  ASSUME NEW W \in Nat \ {0}, NEW a \in Nat, NEW b \in Nat,
         a % W = b % W, a - b < W, b - a < W
  PROVE  a = b
<1>1. PICK q \in Int, m \in 0 .. W - 1 : a % W = m /\ a = W * q + m
  BY DivMod, Zenon
<1>2. PICK r \in Int, n \in 0 .. W - 1 : b % W = n /\ b = W * r + n
  BY DivMod, Zenon
<1>3. m = n
  BY <1>1, <1>2, Zenon
<1>4. a - b = W * (q - r)
  BY <1>1, <1>2, <1>3, Z3
<1>5. W * (q - r) < W /\ W * (q - r) > -W
  BY <1>4, Z3
<1>6. \A z \in Int : W * z < W /\ W * z > -W => z = 0
  BY Z3
<1>7. q - r = 0
  BY <1>5, <1>6
<1> QED
  BY <1>4, <1>7, Z3

\* The slots of the Window numbers from r on are different, across the wrap
\* too, because Window divides SeqMod.
LEMMA SlotUnique ==
  ASSUME NEW r \in SeqNo, NEW a \in SeqNo, NEW b \in SeqNo,
         USub(a, r) < Window, USub(b, r) < Window, Slot(a) = Slot(b)
  PROVE  a = b
<1> USE SeqModAssumption
<1>1. \A x \in Nat : (x + SeqMod) % Window = x % Window
  BY AddMultiple
<1>2. CASE (a >= r) = (b >= r)
  <2>1. a - b < Window /\ b - a < Window
    BY <1>2 DEF USub, SeqNo
  <2> QED
    BY <2>1, SameRemainder DEF Slot, SeqNo
<1>3. CASE a >= r /\ ~(b >= r)
  <2>1. a - (b + SeqMod) < Window /\ (b + SeqMod) - a < Window
    BY <1>3 DEF USub, SeqNo
  <2>2. a \in Nat /\ b + SeqMod \in Nat /\ a % Window = (b + SeqMod) % Window
    BY <1>1 DEF Slot, SeqNo
  <2>3. a = b + SeqMod
    BY <2>1, <2>2, SameRemainder
  <2> QED
    BY <2>3 DEF SeqNo
<1>4. CASE ~(a >= r) /\ b >= r
  <2>1. b - (a + SeqMod) < Window /\ (a + SeqMod) - b < Window
    BY <1>4 DEF USub, SeqNo
  <2>2. b \in Nat /\ a + SeqMod \in Nat /\ b % Window = (a + SeqMod) % Window
    BY <1>1 DEF Slot, SeqNo
  <2>3. b = a + SeqMod
    BY <2>1, <2>2, SameRemainder
  <2> QED
    BY <2>3 DEF SeqNo
<1> QED
  BY <1>2, <1>3, <1>4

-----------------------------------------------------------------------------
(* The numbers packets carry.  Packet n, counted from the beginning without *)
(* a bound, carries Wire(n); what the code computes on the numbers agrees   *)
(* with the same on the packets as long as they are not too far apart.      *)

\* A packet carries a sequence number.
LEMMA WireType ==
  ASSUME NEW n \in Nat
  PROVE  Wire(n) \in SeqNo
<1> USE SeqModAssumption
<1>1. SeqMod \in Nat \ {0} /\ StartSeq + n \in Nat
  OBVIOUS
<1>2. PICK q \in Int, r \in 0 .. SeqMod - 1 : (StartSeq + n) % SeqMod = r
  BY <1>1, DivMod, Zenon
<1> QED
  BY <1>2 DEF Wire, SeqNo

\* The k-th packet after n carries the number k further on.
LEMMA WireAdd ==
  ASSUME NEW n \in Nat, NEW k \in SeqNo
  PROVE  UAdd(Wire(n), k) = Wire(n + k)
<1>1. SeqMod \in Nat \ {0} /\ StartSeq + n \in Nat /\ k \in Nat /\ k < SeqMod
  BY SeqModAssumption DEF SeqNo
<1>2. PICK q \in Int, r \in 0 .. SeqMod - 1 :
        (StartSeq + n) % SeqMod = r /\ StartSeq + n = SeqMod * q + r
  BY <1>1, DivMod, Zenon
<1>3. \A a, d, e \in Int : 0 <= e /\ e < SeqMod /\ a = SeqMod * d + e => a % SeqMod = e
  BY <1>1, Z3
<1>4. StartSeq \in Int /\ StartSeq + (n + k) = (StartSeq + n) + k /\ StartSeq + (n + k) \in Int
  BY SeqModAssumption, <1>1
<1>5. CASE r + k < SeqMod
  <2>1. StartSeq + (n + k) = SeqMod * q + (r + k)
    BY <1>1, <1>2, <1>4, Z3
  <2>2. r + k \in Int /\ 0 <= r + k
    BY <1>1, <1>2
  <2>3. (StartSeq + (n + k)) % SeqMod = r + k
    BY <1>3, <1>4, <1>5, <2>1, <2>2, Zenon
  <2> QED
    BY <1>2, <1>5, <2>3 DEF Wire, UAdd
<1>6. CASE ~(r + k < SeqMod)
  <2>1. StartSeq + (n + k) = SeqMod * (q + 1) + (r + k - SeqMod)
    BY <1>1, <1>2, <1>4, Z3
  <2>2. r + k - SeqMod \in Int /\ 0 <= r + k - SeqMod /\ r + k - SeqMod < SeqMod /\ q + 1 \in Int
    BY <1>1, <1>2, <1>6
  <2>3. (StartSeq + (n + k)) % SeqMod = r + k - SeqMod
    BY <1>3, <1>4, <2>1, <2>2, Zenon
  <2> QED
    BY <1>2, <1>6, <2>3 DEF Wire, UAdd
<1> QED
  BY <1>5, <1>6

\* The number before the first packet's.
LEMMA WireZero == Wire(0) = StartSeq
<1>1. StartSeq + 0 = StartSeq /\ SeqMod \in Nat \ {0} /\ StartSeq \in 0 .. SeqMod - 1
  BY SeqModAssumption
<1>2. \A x \in 0 .. SeqMod - 1 : x % SeqMod = x
  BY <1>1, Z3
<1> QED
  BY <1>1, <1>2 DEF Wire

\* The distance to a later packet's number.
LEMMA WireSub ==
  ASSUME NEW m \in Nat, NEW n \in Nat, n <= m, m - n < SeqMod
  PROVE  USub(Wire(m), Wire(n)) = m - n
<1>1. m - n \in SeqNo /\ n + (m - n) = m
  BY SeqModAssumption DEF SeqNo
<1>2. Wire(m) = UAdd(Wire(n), m - n)
  BY <1>1, WireAdd
<1> QED
  BY <1>1, <1>2, WireType, USubUAdd

\* The distance to an earlier packet's number goes round.
LEMMA WireSubBack ==
  ASSUME NEW m \in Nat, NEW n \in Nat, n < m, m - n < SeqMod
  PROVE  USub(Wire(n), Wire(m)) = SeqMod - (m - n)
<1>1. USub(Wire(m), Wire(n)) = m - n
  BY WireSub
<1>2. Wire(m) \in SeqNo /\ Wire(n) \in SeqNo
  BY WireType
<1> QED
  BY <1>1, <1>2, SeqModAssumption DEF USub, SeqNo

\* Packets that carry the same number are a multiple of SeqMod apart.
LEMMA WireEqual ==
  ASSUME NEW m \in Nat, NEW n \in Nat, m - n < SeqMod, n - m < SeqMod,
         Wire(m) = Wire(n)
  PROVE  m = n
<1>1. SeqMod \in Nat \ {0} /\ StartSeq + m \in Nat /\ StartSeq + n \in Nat
  BY SeqModAssumption
<1>2. /\ (StartSeq + m) - (StartSeq + n) < SeqMod
      /\ (StartSeq + n) - (StartSeq + m) < SeqMod
  BY SeqModAssumption
<1>3. (StartSeq + m) % SeqMod = (StartSeq + n) % SeqMod
  BY DEF Wire
<1>4. StartSeq + m = StartSeq + n
  BY <1>1, <1>2, <1>3, SameRemainder
<1> QED
  BY <1>4, SeqModAssumption

\* Two packets of one window have different slots.
LEMMA WireSlot ==
  ASSUME NEW m \in Nat, NEW n \in Nat, m - n < Window, n - m < Window,
         Slot(Wire(m)) = Slot(Wire(n))
  PROVE  m = n
<1>1. Wire(m) \in SeqNo /\ Wire(n) \in SeqNo /\ Window \in Nat /\ 0 < Window
      /\ m - n < SeqMod /\ n - m < SeqMod
  BY WireType, SeqModAssumption
<1>2. CASE n <= m
  <2>1. USub(Wire(m), Wire(n)) < Window /\ USub(Wire(n), Wire(n)) < Window
    BY <1>1, <1>2, WireSub, USubSelf
  <2> QED
    BY <1>1, <2>1, SlotUnique, WireEqual
<1>3. CASE m <= n
  <2>1. USub(Wire(n), Wire(m)) < Window /\ USub(Wire(m), Wire(m)) < Window
    BY <1>1, <1>3, WireSub, USubSelf
  <2> QED
    BY <1>1, <2>1, SlotUnique, WireEqual
<1> QED
  BY <1>2, <1>3

-----------------------------------------------------------------------------
(* The sender's steps and the type of its state                            *)

\* What a Uint32 field may hold before and after the common part of SendPacket.
LEMMA TakeSequenceNoType ==
  ASSUME SenderTypeOK, TakeSequenceNo
  PROVE  /\ sendRepeatSeq' \in SeqNo
         /\ sent' \in Payload
         /\ sent' \in 0 .. MaxSend
BY UAddType, SmallDistances, SenderAssumption
   DEF SenderTypeOK, TakeSequenceNo, Payload

\* Datagrams that expire leave datagrams.
LEMMA AliveType ==
  ASSUME NEW S \in SUBSET Datagram, NEW n
  PROVE  Alive(S, n) \subseteq Datagram
BY DEF Alive

\* A packet that finds room in the window.
LEMMA SendWithinWindowType ==
  ASSUME SenderTypeOK, SendWithinWindow, UNCHANGED sender
  PROVE  SenderTypeOK'
<1>1. sendRepeatSeq' \in SeqNo /\ sent' \in Payload /\ sent' \in 0 .. MaxSend
  BY TakeSequenceNoType DEF SendWithinWindow
<1>2. pendingPackets' \in [SlotIndex -> PendingPacket]
  BY <1>1, SlotType
     DEF SenderTypeOK, SendWithinWindow, AddPendingPacket, PendingPacket
<1>3. localSeqence' \in SeqNo /\ localWindowStart' \in SeqNo
  BY <1>1, UAddType, SmallDistances
     DEF SenderTypeOK, SendWithinWindow, AddPendingPacket
<1>4. data' \subseteq Datagram /\ acks' \subseteq Datagram
  BY <1>1, AliveType DEF SenderTypeOK, SendWithinWindow, SendToReliable, Datagram
<1> QED
  BY <1>1, <1>2, <1>3, <1>4 DEF SenderTypeOK, SendWithinWindow

\* The three ways SendPacket treats a packet that finds the window full.
LEMMA SendPacketType ==
  ASSUME SenderTypeOK, SendPacket
  PROVE  SenderTypeOK'
<1>0. UNCHANGED sender
  BY DEF SendPacket
<1>1. CASE SendWithinWindow
  BY <1>0, <1>1, SendWithinWindowType
<1>2. ASSUME SendOverflow,
             data' \subseteq Datagram, acks' \subseteq Datagram,
             UNCHANGED <<localWindowStart, localSeqence, pendingPackets, isConnect>>
      PROVE  SenderTypeOK'
  BY <1>0, <1>2, TakeSequenceNoType DEF SendOverflow, SenderTypeOK
<1>3. CASE SessionSendPacket
  BY <1>1, <1>2, <1>3, AliveType DEF SessionSendPacket, SenderTypeOK
<1>4. CASE InternalClientSendPacket /\ ~SendWithinWindow
  <2>1. sendRepeatSeq' \in SeqNo /\ sent' \in Payload
    BY <1>4, TakeSequenceNoType DEF InternalClientSendPacket, SendOverflow
  <2>2. data' \subseteq Datagram /\ acks' \subseteq Datagram
    BY <1>4, <2>1, AliveType
       DEF InternalClientSendPacket, SendToReliable, SenderTypeOK, Datagram
  <2> QED
    BY <1>2, <1>4, <2>2 DEF InternalClientSendPacket
<1>5. CASE ClientSendPacket /\ ~SendWithinWindow
  <2>1. 0 \in SeqNo /\ EmptyPending \in [SlotIndex -> PendingPacket]
    BY SmallDistances, SeqModAssumption DEF EmptyPending, PendingPacket, SeqNo
  <2>2. sent' \in Payload /\ sent' \in 0 .. MaxSend
    BY <1>5, SenderAssumption DEF ClientSendPacket, SenderTypeOK, Payload
  <2>3. data' \subseteq Datagram /\ acks' \subseteq Datagram
    BY <1>5, AliveType DEF ClientSendPacket, SenderTypeOK
  <2> QED
    BY <1>0, <1>5, <2>1, <2>2, <2>3 DEF ClientSendPacket, SenderTypeOK
<1> QED
  BY <1>1, <1>3, <1>4, <1>5 DEF SendPacket

\* The sender's first state, after Reset or further on.
LEMMA SenderInitType == SenderInit => SenderTypeOK
<1> SUFFICES ASSUME SenderInit PROVE SenderTypeOK
  OBVIOUS
<1>1. 0 \in SeqNo /\ StartSeq \in SeqNo
  BY SeqModAssumption DEF SeqNo
<1>2. localWindowStart \in SeqNo
  BY <1>1, UAddType, SmallDistances DEF SenderInit
<1>3. pendingPackets \in [SlotIndex -> PendingPacket]
  BY <1>1 DEF SenderInit, EmptyPending, PendingPacket
<1> QED
  BY <1>1, <1>2, <1>3, SenderAssumption DEF SenderInit, SenderTypeOK

\* RepeatMessage sends copies of kept packets.
LEMMA RepeatMessageType ==
  ASSUME SenderTypeOK, NEW due \in SUBSET SlotIndex, RepeatMessage(due)
  PROVE  SenderTypeOK'
<1>1. \A i \in due : KeptDatagram(i) \in Datagram
  BY DEF SenderTypeOK, RepeatMessage, KeptDatagram, PendingPacket, Datagram
<1>2. data' \subseteq Datagram
  BY <1>1 DEF SenderTypeOK, RepeatMessage
<1> QED
  BY <1>2 DEF SenderTypeOK, RepeatMessage, senderVars

\* AckProcess moves the window start no further than localSeqence.
LEMMA RecvDispatchACKType ==
  ASSUME SenderTypeOK, NEW a \in acks, RecvDispatchACK(a)
  PROVE  SenderTypeOK'
<1>1. a.sequenceNo \in SeqNo
  BY DEF SenderTypeOK, Datagram
<1>2. pendingPackets' \in [SlotIndex -> PendingPacket]
  BY <1>1, SlotType
     DEF SenderTypeOK, RecvDispatchACK, AckProcess, PendingPacket
<1>3. USub(localSeqence, localWindowStart) \in SeqNo
  BY USubType DEF SenderTypeOK
<1>4. PICK n \in 0 .. USub(localSeqence, localWindowStart) :
        localWindowStart' = UAdd(localWindowStart, n)
  BY DEF RecvDispatchACK, AckProcess
<1>5. n \in SeqNo
  BY <1>3, <1>4, SeqModAssumption DEF SeqNo
<1>6. localWindowStart' \in SeqNo
  BY <1>4, <1>5, UAddType DEF SenderTypeOK
<1> QED
  BY <1>2, <1>6 DEF SenderTypeOK, RecvDispatchACK

\* The steps of the sender and of the network keep the sender's type.
LEMMA SenderStepType ==
  ASSUME SenderTypeOK,
         \/ SendPacket
         \/ LosePacket
         \/ \E due \in SUBSET SlotIndex : RepeatMessage(due)
         \/ \E a \in acks : RecvDispatchACK(a)
  PROVE  SenderTypeOK'
<1>1. CASE LosePacket
  BY <1>1 DEF LosePacket, SenderTypeOK, senderVars
<1> QED
  BY <1>1, SendPacketType, RepeatMessageType, RecvDispatchACKType

-----------------------------------------------------------------------------
(* The sender's window over packets instead of sequence numbers            *)

\* The window starts at packet b and RepeatMessage stops before packet t.  A
\* kept packet is in its own slot, in the window and was sent; a packet sent
\* beyond the window has overflowed.  Unless one has, t is the next packet.
SenderWindow(b, t) ==
  /\ localWindowStart = Wire(b)
  /\ localSeqence = Wire(t)
  /\ b <= t
  /\ b + Window .. sent \subseteq overflowed
  /\ \A i \in SlotIndex :
       LET n == pendingPackets[i].buffer IN
       n # nullptr => /\ pendingPackets[i].sequenceNo = Wire(n)
                      /\ Slot(Wire(n)) = i
                      /\ n \in b .. b + Window - 1
                      /\ n <= sent
  /\ overflowed = {} => t = sent + 1 \/ (sent = 0 /\ localSeqence = 0)

\* A datagram or an ACK carries the number of its packet, and is not so old
\* that the number could be taken for another packet's.
InFlight(p) ==
  /\ p.sequenceNo = Wire(p.payload)
  /\ p.payload <= sent
  /\ sent - p.payload < SeqMod - Window

SenderInvariant ==
  /\ isConnect => /\ sendRepeatSeq = Wire(sent)
                  /\ \E b, t \in 0 .. sent + 1 : SenderWindow(b, t)
  /\ ~isConnect => \A i \in SlotIndex : pendingPackets[i].buffer = nullptr
  /\ overflowed \subseteq 1 .. sent
  /\ Cardinality(overflowed) <= MaxOverflow
  /\ \A p \in data \cup acks : InFlight(p)

\* R is what the receiver has: a packet the sender accepted is kept or received.
AcceptedIsKeptOrIn(R) ==
  isConnect => \A n \in 1 .. sent : n \in overflowed \/ n \in Kept \/ n \in R

\* Only received packets are acknowledged.
AckedIsIn(R) == \A a \in acks : a.payload \in R

\* How far the sender may be ahead of packet d, the last one handed over in
\* order: what overflowed, a window that is kept and one that waits behind d.
Lead(d) == sent - d <= Cardinality(overflowed) + 2 * Window - 1

\* The numbers the bounds speak of.
LEMMA SenderNumbers ==
  ASSUME SenderTypeOK
  PROVE  /\ sent \in Nat /\ sent <= MaxSend /\ MaxSend \in Nat /\ MaxOverflow \in Nat
         /\ Window \in Nat /\ 1 <= Window /\ SeqMod \in Nat
         /\ MaxOverflow + 3 * Window <= SeqMod
         /\ Lifetime \in Nat /\ Lifetime <= SeqMod - Window
BY SeqModAssumption, SenderAssumption DEF SenderTypeOK

\* Only finitely many packets have overflowed.
LEMMA OverflowedIsFinite ==
  ASSUME SenderTypeOK
  PROVE  IsFiniteSet(overflowed) /\ Cardinality(overflowed) \in Nat
<1>1. overflowed \in SUBSET (1 .. MaxSend) /\ MaxSend \in Int
  BY SenderNumbers DEF SenderTypeOK, Payload
<1>2. IsFiniteSet(1 .. MaxSend)
  BY <1>1, FS_Interval
<1>3. IsFiniteSet(overflowed)
  BY <1>1, <1>2, FS_Subset
<1> QED
  BY <1>3, FS_CardinalityType

\* The packets from the start of the window on: a window and what overflowed.
LEMMA WindowSpan ==
  ASSUME SenderTypeOK, SenderInvariant, NEW b \in Nat, NEW t, SenderWindow(b, t)
  PROVE  sent + 1 - b <= Window + MaxOverflow
<1>1. b + Window .. sent \in SUBSET overflowed
  BY DEF SenderWindow
<1>2. Cardinality(b + Window .. sent) <= Cardinality(overflowed)
  BY <1>1, OverflowedIsFinite, FS_Subset
<1>3. /\ b + Window \in Int /\ sent \in Int
      /\ Window \in Nat /\ MaxOverflow \in Nat
      /\ Cardinality(overflowed) <= MaxOverflow /\ Cardinality(overflowed) \in Nat
  BY SenderNumbers, OverflowedIsFinite DEF SenderInvariant
<1>4. Cardinality(b + Window .. sent) = IF b + Window > sent THEN 0 ELSE sent - (b + Window) + 1
  BY <1>3, FS_Interval
<1> QED
  BY <1>2, <1>3, <1>4

\* AddPendingPacket's test asks whether the new packet is within Window of the
\* oldest one, across the wrap too, and sendRepeatSeq is its number.
LEMMA WindowTest ==
  ASSUME SenderTypeOK, SenderInvariant, isConnect,
         NEW b \in Nat, NEW t, SenderWindow(b, t), b <= sent + 1
  PROVE  /\ UAdd(sendRepeatSeq, 1) = Wire(sent + 1)
         /\ WindowFull(UAdd(sendRepeatSeq, 1)) <=> sent + 1 - b >= Window
<1>1. UAdd(sendRepeatSeq, 1) = Wire(sent + 1)
  BY WireAdd, SmallDistances, SenderNumbers DEF SenderInvariant
<1>2. sent + 1 - b < SeqMod
  BY WindowSpan, SenderNumbers
<1>3. USub(Wire(sent + 1), Wire(b)) = sent + 1 - b
  BY <1>2, WireSub, SenderNumbers
<1> QED
  BY <1>1, <1>3 DEF WindowFull, SenderWindow

\* What is in flight after a send: what has not expired and, at most, the new
\* packet.
LEMMA FlightAfterSend ==
  ASSUME SenderTypeOK, SenderTypeOK', \A p \in data \cup acks : InFlight(p),
         sent' = sent + 1,
         \A p \in (data \cup acks)' :
           \/ p \in data \cup acks /\ p.payload + Lifetime > sent'
           \/ p.sequenceNo = Wire(sent') /\ p.payload = sent'
  PROVE  \A p \in (data \cup acks)' : InFlight(p)'
<1> TAKE p \in (data \cup acks)'
<1>1. sent \in Nat /\ sent' \in Nat
  BY SenderNumbers
<1>2. p \in Datagram
  BY DEF SenderTypeOK
<1>3. p.payload \in Nat
  BY <1>2, SenderNumbers DEF Datagram, Payload
<1>4. CASE p \in data \cup acks /\ p.payload + Lifetime > sent'
  BY <1>1, <1>3, <1>4, SenderNumbers DEF InFlight
<1>5. CASE p.sequenceNo = Wire(sent') /\ p.payload = sent'
  BY <1>1, <1>3, <1>5, SenderNumbers DEF InFlight, Wire
<1> QED
  BY <1>4, <1>5

\* A packet that finds room: its slot was free, because the slots of the
\* packets of one window differ.
LEMMA SendWithinWindowInvariant ==
  ASSUME SenderTypeOK, SenderInvariant, SendWithinWindow, UNCHANGED sender
  PROVE  SenderInvariant' /\ Kept' = Kept \cup {sent'}
<1>1. /\ isConnect /\ isConnect' /\ sent' = sent + 1 /\ overflowed' = overflowed
      /\ sendRepeatSeq' = UAdd(sendRepeatSeq, 1)
      /\ sent < MaxSend
  BY DEF SendWithinWindow, TakeSequenceNo
<1>2. SenderTypeOK'
  BY SendWithinWindowType
<1>3. PICK b \in 0 .. sent + 1, t \in 0 .. sent + 1 : SenderWindow(b, t)
  BY <1>1 DEF SenderInvariant
<1>4. sent \in Nat /\ sent' \in Nat /\ t \in Nat /\ b \in Nat /\ b <= t /\ t <= sent + 1
  BY <1>1, <1>3, SenderNumbers DEF SenderWindow
<1> DEFINE n == sent + 1
           seq == Wire(n)
<1>5. sendRepeatSeq' = seq /\ n \in Nat /\ seq \in SeqNo
  BY <1>1, <1>3, <1>4, WindowTest, WireType
<1>6. n - b < Window
  <2>1. ~(n - b >= Window)
    BY <1>1, <1>3, <1>4, WindowTest DEF SendWithinWindow, AddPendingPacket
  <2> QED
    BY <2>1, <1>4, SenderNumbers
<1>7. pendingPackets' = [pendingPackets EXCEPT ![Slot(seq)] =
                           [sequenceNo |-> seq, buffer |-> n]]
  BY <1>1, <1>5 DEF SendWithinWindow, AddPendingPacket
<1>8. localWindowStart' = localWindowStart
  BY DEF SendWithinWindow, AddPendingPacket
<1>9. localSeqence' = IF seq >= localSeqence THEN UAdd(seq, 1) ELSE localSeqence
  BY <1>1, <1>5 DEF SendWithinWindow, AddPendingPacket
<1>10. Slot(seq) \in SlotIndex /\ pendingPackets \in [SlotIndex -> PendingPacket]
  BY <1>5, SlotType DEF SenderTypeOK
<1>11. pendingPackets[Slot(seq)].buffer = nullptr
  <2> DEFINE m == pendingPackets[Slot(seq)].buffer
  <2> SUFFICES ASSUME m # nullptr PROVE FALSE
    OBVIOUS
  <2>1. Slot(Wire(m)) = Slot(seq) /\ m \in b .. b + Window - 1 /\ m <= sent
    BY <1>3, <1>10 DEF SenderWindow
  <2>2. m \in Nat /\ m - n < Window /\ n - m < Window /\ m # n
    <3> HIDE DEF m
    <3> QED
      BY <1>4, <1>6, <2>1, SenderNumbers
  <2> QED
    BY <1>5, <2>1, <2>2, WireSlot
<1>12. \A i \in SlotIndex : pendingPackets'[i] = IF i = Slot(seq)
          THEN [sequenceNo |-> seq, buffer |-> n] ELSE pendingPackets[i]
  BY <1>7, <1>10
<1>13. Kept' = Kept \cup {sent'}
  <2>1. n # nullptr
    BY <1>4 DEF nullptr
  <2> QED
    BY <1>1, <1>10, <1>11, <1>12, <2>1 DEF Kept
<1>14. PICK u \in 0 .. sent' + 1 : /\ u = IF seq >= localSeqence THEN n + 1 ELSE t
                                   /\ localSeqence' = Wire(u)
                                   /\ b <= u
  <2> DEFINE v == IF seq >= localSeqence THEN n + 1 ELSE t
  <2>1. UAdd(seq, 1) = Wire(n + 1)
    BY <1>5, WireAdd, SmallDistances
  <2>2. localSeqence = Wire(t)
    BY <1>3 DEF SenderWindow
  <2>3. v \in 0 .. sent' + 1 /\ b <= v
    BY <1>1, <1>4
  <2>4. localSeqence' = Wire(v)
    BY <1>9, <2>1, <2>2
  <2> QED
    BY <2>3, <2>4
<1>15. overflowed' = {} => u = sent' + 1
  <2> SUFFICES ASSUME overflowed = {} PROVE seq >= localSeqence
    BY <1>1, <1>14
  <2>1. localSeqence = Wire(t) /\ (t = n \/ localSeqence = 0)
    BY <1>3 DEF SenderWindow
  <2> QED
    BY <2>1, <1>5 DEF SeqNo
<1>16. \A i \in SlotIndex :
         LET m == pendingPackets'[i].buffer IN
         m # nullptr => /\ pendingPackets'[i].sequenceNo = Wire(m)
                        /\ Slot(Wire(m)) = i
                        /\ m \in b .. b + Window - 1
                        /\ m <= sent'
  <2> TAKE i \in SlotIndex
  <2>1. CASE i = Slot(seq)
    <3>1. pendingPackets'[i].buffer = n /\ pendingPackets'[i].sequenceNo = Wire(n)
      BY <1>12, <2>1
    <3>2. n \in b .. b + Window - 1 /\ n <= sent'
      BY <1>1, <1>4, <1>6, SenderNumbers
    <3> QED
      BY <2>1, <3>1, <3>2
  <2>2. CASE i # Slot(seq)
    <3> DEFINE m == pendingPackets[i].buffer
    <3>1. pendingPackets'[i] = pendingPackets[i]
      BY <1>12, <2>2
    <3>2. m # nullptr => /\ pendingPackets[i].sequenceNo = Wire(m)
                         /\ Slot(Wire(m)) = i
                         /\ m \in b .. b + Window - 1
                         /\ m <= sent
      BY <1>3 DEF SenderWindow
    <3>3. m \in b .. b + Window - 1 /\ m <= sent => m <= sent'
      <4> HIDE DEF m
      <4> QED
        BY <1>1, <1>4, SenderNumbers
    <3> QED
      BY <3>1, <3>2, <3>3
  <2> QED
    BY <2>1, <2>2
<1>17. b + Window .. sent' \subseteq overflowed'
  BY <1>1, <1>4, <1>6, SenderNumbers
<1>18. SenderWindow(b, u)'
  BY <1>3, <1>8, <1>14, <1>15, <1>16, <1>17 DEF SenderWindow
<1>19. \A p \in (data \cup acks)' : InFlight(p)'
  <2>1. \A p \in (data \cup acks)' :
           \/ p \in data \cup acks /\ p.payload + Lifetime > sent'
           \/ p.sequenceNo = Wire(sent') /\ p.payload = sent'
    BY <1>1, <1>5 DEF SendWithinWindow, SendToReliable, Alive
  <2> QED
    BY <1>1, <1>2, <2>1, FlightAfterSend DEF SenderInvariant
<1>20. overflowed' \subseteq 1 .. sent' /\ Cardinality(overflowed') <= MaxOverflow
  BY <1>1, <1>4 DEF SenderInvariant
<1>21. \E c, v \in 0 .. sent' + 1 : SenderWindow(c, v)'
  <2>1. b \in 0 .. sent' + 1
    BY <1>1, <1>4
  <2> QED
    BY <1>18, <2>1
<1> QED
  BY <1>1, <1>5, <1>13, <1>19, <1>20, <1>21 DEF SenderInvariant

\* One more packet has overflowed.
LEMMA OneMoreOverflowed ==
  ASSUME SenderTypeOK, SenderInvariant, MayOverflow,
         sent' = sent + 1, overflowed' = overflowed \cup {sent'}
  PROVE  /\ overflowed' \subseteq 1 .. sent'
         /\ Cardinality(overflowed') = Cardinality(overflowed) + 1
         /\ Cardinality(overflowed') <= MaxOverflow
<1>1. sent \in Nat /\ overflowed \subseteq 1 .. sent
  BY SenderNumbers DEF SenderInvariant
<1>2. sent' \notin overflowed
  BY <1>1
<1>3. IsFiniteSet(overflowed) /\ Cardinality(overflowed) \in Nat
  BY OverflowedIsFinite
<1>4. Cardinality(overflowed \cup {sent'}) = Cardinality(overflowed) + 1
  BY <1>2, <1>3, FS_AddElement
<1> QED
  BY <1>1, <1>3, <1>4, SenderNumbers DEF MayOverflow

\* A packet that finds the window full, in Session and InternalClient: it takes
\* a number but no slot.
LEMMA SendOverflowInvariant ==
  ASSUME SenderTypeOK, SenderTypeOK', SenderInvariant, SendOverflow,
         UNCHANGED <<localWindowStart, localSeqence, pendingPackets, isConnect>>,
         \/ data' = Alive(data, sent') /\ acks' = Alive(acks, sent')
         \/ SendToReliable(sendRepeatSeq', sent')
  PROVE  SenderInvariant' /\ Kept' = Kept
<1>1. /\ isConnect /\ isConnect' /\ sent' = sent + 1
      /\ overflowed' = overflowed \cup {sent'} /\ MayOverflow
      /\ sendRepeatSeq' = UAdd(sendRepeatSeq, 1)
  BY DEF SendOverflow, TakeSequenceNo
<1>2. PICK b \in 0 .. sent + 1, t \in 0 .. sent + 1 : SenderWindow(b, t)
  BY <1>1 DEF SenderInvariant
<1>3. sent \in Nat /\ sent' \in Nat /\ t \in Nat /\ b \in Nat /\ b <= t
  BY <1>1, <1>2, SenderNumbers DEF SenderWindow
<1>4. sendRepeatSeq' = Wire(sent')
  BY <1>1, <1>2, <1>3, WindowTest
<1>5. SenderWindow(b, t)'
  <2>1. \A i \in SlotIndex :
          LET m == pendingPackets[i].buffer IN
          m # nullptr => /\ pendingPackets[i].sequenceNo = Wire(m)
                         /\ Slot(Wire(m)) = i
                         /\ m \in b .. b + Window - 1
                         /\ m <= sent'
    <3> TAKE i \in SlotIndex
    <3> DEFINE m == pendingPackets[i].buffer
    <3>1. m # nullptr => /\ pendingPackets[i].sequenceNo = Wire(m)
                         /\ Slot(Wire(m)) = i
                         /\ m \in b .. b + Window - 1
                         /\ m <= sent
      BY <1>2 DEF SenderWindow
    <3>2. m \in b .. b + Window - 1 /\ m <= sent => m <= sent'
      <4> HIDE DEF m
      <4> QED
        BY <1>1, <1>3, SenderNumbers
    <3> QED
      BY <3>1, <3>2
  <2>2. b + Window .. sent' \subseteq overflowed'
    <3>1. b + Window .. sent \subseteq overflowed /\ b + Window \in Nat
      BY <1>2, <1>3, SenderNumbers DEF SenderWindow
    <3> QED
      BY <1>1, <1>3, <3>1
  <2>3. overflowed' # {}
    BY <1>1
  <2> QED
    BY <1>2, <1>3, <2>1, <2>2, <2>3 DEF SenderWindow
<1>6. \E c, v \in 0 .. sent' + 1 : SenderWindow(c, v)'
  <2>1. b \in 0 .. sent' + 1 /\ t \in 0 .. sent' + 1
    BY <1>1, <1>3
  <2> QED
    BY <1>5, <2>1
<1>7. \A p \in (data \cup acks)' : InFlight(p)'
  <2>1. \A p \in (data \cup acks)' :
           \/ p \in data \cup acks /\ p.payload + Lifetime > sent'
           \/ p.sequenceNo = Wire(sent') /\ p.payload = sent'
    BY <1>1, <1>4 DEF SendToReliable, Alive
  <2> QED
    BY <1>1, <2>1, FlightAfterSend DEF SenderInvariant
<1>8. overflowed' \subseteq 1 .. sent' /\ Cardinality(overflowed') <= MaxOverflow
  BY <1>1, OneMoreOverflowed
<1>9. Kept' = Kept
  BY DEF Kept
<1> QED
  BY <1>1, <1>4, <1>6, <1>7, <1>8, <1>9 DEF SenderInvariant

\* Client::SendPacket that finds the window full: nothing is kept any more.
LEMMA ClientOverflowInvariant ==
  ASSUME SenderTypeOK, SenderTypeOK', SenderInvariant, ClientSendPacket,
         ~SendWithinWindow
  PROVE  /\ SenderInvariant' /\ ~isConnect'
         /\ sent' = sent + 1 /\ overflowed' = overflowed \cup {sent'} /\ MayOverflow
<1>1. /\ sent' = sent + 1 /\ overflowed' = overflowed \cup {sent'} /\ MayOverflow
      /\ pendingPackets' = EmptyPending /\ isConnect' = FALSE
      /\ data' = Alive(data, sent') /\ acks' = Alive(acks, sent')
  BY DEF ClientSendPacket
<1>2. \A i \in SlotIndex : pendingPackets'[i].buffer = nullptr
  BY <1>1 DEF EmptyPending
<1>3. \A p \in (data \cup acks)' : InFlight(p)'
  <2>1. \A p \in (data \cup acks)' : p \in data \cup acks /\ p.payload + Lifetime > sent'
    BY <1>1 DEF Alive
  <2> QED
    BY <1>1, <2>1, FlightAfterSend DEF SenderInvariant
<1>4. overflowed' \subseteq 1 .. sent' /\ Cardinality(overflowed') <= MaxOverflow
  BY <1>1, OneMoreOverflowed
<1> QED
  BY <1>1, <1>2, <1>3, <1>4 DEF SenderInvariant

\* The three ways to send.  A packet is kept, or it overflows.
LEMMA SendPacketInvariant ==
  ASSUME SenderTypeOK, SenderInvariant, SendPacket
  PROVE  /\ SenderInvariant'
         /\ sent' = sent + 1
         /\ \/ /\ overflowed' = overflowed /\ isConnect'
               /\ Kept' = Kept \cup {sent'}
            \/ /\ overflowed' = overflowed \cup {sent'}
               /\ Cardinality(overflowed') = Cardinality(overflowed) + 1
               /\ isConnect' => isConnect /\ Kept' = Kept
<1>1. SenderTypeOK' /\ UNCHANGED sender
  BY SendPacketType DEF SendPacket
<1>2. CASE SendWithinWindow
  BY <1>1, <1>2, SendWithinWindowInvariant DEF SendWithinWindow, TakeSequenceNo
<1>3. CASE (SessionSendPacket \/ InternalClientSendPacket) /\ ~SendWithinWindow
  <2>1. /\ SendOverflow
        /\ UNCHANGED <<localWindowStart, localSeqence, pendingPackets, isConnect>>
        /\ \/ data' = Alive(data, sent') /\ acks' = Alive(acks, sent')
           \/ SendToReliable(sendRepeatSeq', sent')
    BY <1>3 DEF SessionSendPacket, InternalClientSendPacket
  <2>2. SenderInvariant' /\ Kept' = Kept
    BY <1>1, <2>1, SendOverflowInvariant
  <2>3. /\ MayOverflow /\ sent' = sent + 1 /\ overflowed' = overflowed \cup {sent'}
        /\ isConnect
    BY <2>1 DEF SendOverflow, TakeSequenceNo
  <2> QED
    BY <2>2, <2>3, OneMoreOverflowed
<1>4. CASE ClientSendPacket /\ ~SendWithinWindow
  BY <1>1, <1>4, ClientOverflowInvariant, OneMoreOverflowed
<1> QED
  BY <1>2, <1>3, <1>4 DEF SendPacket

\* A kept packet, by its slot.
LEMMA KeptSlot ==
  ASSUME SenderTypeOK, SenderInvariant, NEW i \in SlotIndex,
         pendingPackets[i].buffer # nullptr
  PROVE  LET n == pendingPackets[i].buffer IN
         /\ isConnect
         /\ n \in Nat /\ n <= sent /\ sent - n < SeqMod - Window
         /\ pendingPackets[i].sequenceNo = Wire(n)
         /\ Slot(Wire(n)) = i
<1> DEFINE n == pendingPackets[i].buffer
<1>1. isConnect
  BY DEF SenderInvariant, SenderTypeOK
<1>2. PICK b \in 0 .. sent + 1, t \in 0 .. sent + 1 : SenderWindow(b, t)
  BY <1>1 DEF SenderInvariant
<1>3. /\ n \in b .. b + Window - 1 /\ n <= sent
      /\ pendingPackets[i].sequenceNo = Wire(n) /\ Slot(Wire(n)) = i
  BY <1>2 DEF SenderWindow
<1>4. sent + 1 - b <= Window + MaxOverflow /\ b \in Nat
  BY <1>2, WindowSpan, SenderNumbers
<1>5. n \in Nat /\ sent - n < SeqMod - Window
  <2> HIDE DEF n
  <2> QED
    BY <1>2, <1>3, <1>4, SenderNumbers
<1> QED
  BY <1>1, <1>3, <1>5

\* RepeatMessage sends what is kept, with the number it was sent with first.
LEMMA RepeatMessageInvariant ==
  ASSUME SenderTypeOK, SenderInvariant, NEW due \in SUBSET SlotIndex, RepeatMessage(due)
  PROVE  SenderInvariant'
<1>1. UNCHANGED <<senderVars, acks>> /\ data' = data \cup {KeptDatagram(i) : i \in due}
  BY DEF RepeatMessage
<1>2. \A i \in due : InFlight(KeptDatagram(i))
  <2> TAKE i \in due
  <2>1. i \in SlotIndex /\ pendingPackets[i].buffer # nullptr
    BY DEF RepeatMessage
  <2> QED
    BY <2>1, KeptSlot DEF InFlight, KeptDatagram
<1>3. \A p \in (data \cup acks)' : InFlight(p)'
  BY <1>1, <1>2 DEF SenderInvariant, InFlight, senderVars
<1> QED
  BY <1>1, <1>3 DEF SenderInvariant, SenderWindow, senderVars

\* AckProcess releases the packet that the ACK is for, and passes only slots
\* whose packets are not kept.
LEMMA RecvDispatchACKInvariant ==
  ASSUME SenderTypeOK, SenderInvariant, NEW a \in acks, RecvDispatchACK(a)
  PROVE  SenderInvariant' /\ \A m \in Kept : m \in Kept' \/ m = a.payload
<1> DEFINE idx == Slot(a.sequenceNo)
           released == pendingPackets[idx].buffer
<1>1. /\ isConnect
      /\ UNCHANGED <<sender, sendRepeatSeq, localSeqence, isConnect, sent,
                     overflowed, data, acks>>
      /\ pendingPackets[idx].sequenceNo = a.sequenceNo
      /\ released # nullptr
      /\ pendingPackets' = [pendingPackets EXCEPT ![idx].buffer = nullptr]
  BY DEF RecvDispatchACK, AckProcess, AcksSlot
<1>2. a \in Datagram /\ a.sequenceNo \in SeqNo /\ a.payload \in Nat /\ idx \in SlotIndex
  BY SlotType DEF SenderTypeOK, Datagram, Payload
<1>3. InFlight(a)
  BY DEF SenderInvariant
<1>4. released = a.payload
  <2>1. /\ released \in Nat /\ released <= sent /\ sent - released < SeqMod - Window
        /\ a.sequenceNo = Wire(released)
    BY <1>1, <1>2, KeptSlot
  <2>2. /\ a.payload <= sent /\ sent - a.payload < SeqMod - Window
        /\ a.sequenceNo = Wire(a.payload)
    BY <1>3 DEF InFlight
  <2>3. released - a.payload < SeqMod /\ a.payload - released < SeqMod
    <3> HIDE DEF released
    <3> QED
      BY <1>2, <2>1, <2>2, SenderNumbers
  <2> HIDE DEF released
  <2> QED
    BY <1>2, <2>1, <2>2, <2>3, WireEqual
<1>5. PICK b \in 0 .. sent + 1, t \in 0 .. sent + 1 : SenderWindow(b, t)
  BY <1>1 DEF SenderInvariant
<1>6. sent \in Nat /\ t \in Nat /\ b \in Nat /\ b <= t /\ t <= sent + 1
  BY <1>5, SenderNumbers DEF SenderWindow
<1>7. USub(localSeqence, localWindowStart) = t - b /\ t - b < SeqMod
  <2>1. t - b < SeqMod
    BY <1>5, <1>6, WindowSpan, SenderNumbers
  <2> QED
    BY <1>5, <1>6, <2>1, WireSub DEF SenderWindow
<1>8. PICK n \in 0 .. t - b :
        /\ \A k \in 0 .. n - 1 :
             pendingPackets'[Slot(UAdd(localWindowStart, k))].buffer = nullptr
        /\ localWindowStart' = UAdd(localWindowStart, n)
  BY <1>7 DEF RecvDispatchACK, AckProcess
<1>9. n \in Nat /\ n \in SeqNo /\ b + n \in 0 .. sent + 1 /\ b + n <= t
  BY <1>6, <1>7, SenderNumbers DEF SeqNo
<1>10. \A k \in 0 .. n : UAdd(localWindowStart, k) = Wire(b + k)
  <2> TAKE k \in 0 .. n
  <2>1. k \in SeqNo
    BY <1>9, SenderNumbers DEF SeqNo
  <2> QED
    BY <1>5, <1>6, <2>1, WireAdd DEF SenderWindow
<1>11. \A i \in SlotIndex :
         /\ pendingPackets'[i].sequenceNo = pendingPackets[i].sequenceNo
         /\ pendingPackets'[i].buffer = IF i = idx THEN nullptr ELSE pendingPackets[i].buffer
  BY <1>1, <1>2 DEF SenderTypeOK, PendingPacket
<1>12. ASSUME NEW i \in SlotIndex, pendingPackets'[i].buffer # nullptr
       PROVE  LET m == pendingPackets'[i].buffer IN
              /\ pendingPackets'[i].sequenceNo = Wire(m)
              /\ Slot(Wire(m)) = i
              /\ m \in b + n .. b + n + Window - 1
              /\ m <= sent
  <2> DEFINE m == pendingPackets[i].buffer
  <2>1. pendingPackets'[i].buffer = m /\ m # nullptr
    BY <1>11, <1>12
  <2>2. /\ pendingPackets[i].sequenceNo = Wire(m)
        /\ Slot(Wire(m)) = i
        /\ m \in b .. b + Window - 1
        /\ m <= sent
    BY <1>5, <2>1 DEF SenderWindow
  <2>3. ~(m < b + n)
    <3> SUFFICES ASSUME m < b + n PROVE FALSE
      OBVIOUS
    <3>1. m - b \in 0 .. n - 1 /\ m - b \in 0 .. n /\ b + (m - b) = m
      <4> HIDE DEF m
      <4> QED
        BY <1>6, <1>9, <2>2, SenderNumbers
    <3>2. Slot(UAdd(localWindowStart, m - b)) = i
      <4> HIDE DEF m
      <4> QED
        BY <1>10, <2>2, <3>1
    <3> QED
      BY <1>8, <1>12, <3>1, <3>2
  <2>4. m \in b + n .. b + n + Window - 1
    <3> HIDE DEF m
    <3> QED
      BY <1>6, <1>9, <2>2, <2>3, SenderNumbers
  <2> QED
    BY <1>11, <2>1, <2>2, <2>4
<1>13. b + n + Window .. sent \subseteq overflowed
  BY <1>5, <1>6, <1>9, SenderNumbers DEF SenderWindow
<1>14. localWindowStart' = Wire(b + n)
  BY <1>8, <1>9, <1>10
<1>15. SenderWindow(b + n, t)'
  BY <1>1, <1>5, <1>9, <1>12, <1>13, <1>14 DEF SenderWindow
<1>16. \E c, v \in 0 .. sent' + 1 : SenderWindow(c, v)'
  BY <1>1, <1>5, <1>9, <1>15
<1>17. \A p \in (data \cup acks)' : InFlight(p)'
  BY <1>1 DEF SenderInvariant, InFlight
<1>18. SenderInvariant'
  BY <1>1, <1>16, <1>17 DEF SenderInvariant
<1>19. \A m \in Kept : m \in Kept' \/ m = a.payload
  BY <1>1, <1>4, <1>11 DEF Kept
<1> QED
  BY <1>18, <1>19

\* Losing a datagram or an ACK.
LEMMA LosePacketInvariant ==
  ASSUME SenderInvariant, LosePacket
  PROVE  SenderInvariant' /\ Kept' = Kept
<1>1. data' \subseteq data /\ acks' \subseteq acks /\ UNCHANGED senderVars
  BY DEF LosePacket
<1> QED
  BY <1>1 DEF SenderInvariant, SenderWindow, InFlight, senderVars, Kept

\* The sender's first state, after Reset or further on.
LEMMA SenderInvariantInit == SenderInit => SenderInvariant
<1> SUFFICES ASSUME SenderInit PROVE SenderInvariant
  OBVIOUS
<1>1. SenderTypeOK
  BY SenderInitType
<1>2. Wire(0) = StartSeq
  BY WireZero
<1>3. Wire(1) = UAdd(StartSeq, 1)
  BY <1>2, WireAdd, SmallDistances
<1>4. PICK b \in 0 .. sent + 1 : /\ localWindowStart = Wire(b)
                                 /\ b = 1 \/ localWindowStart = 0
  <2>1. sent = 0
    BY DEF SenderInit
  <2> QED
    BY <1>2, <1>3, <2>1 DEF SenderInit
<1>5. \A i \in SlotIndex : pendingPackets[i].buffer = nullptr
  BY DEF SenderInit, EmptyPending
<1>6. b + Window .. sent \subseteq overflowed
  BY <1>1, <1>4, SenderNumbers DEF SenderInit
<1>7. SenderWindow(b, b)
  BY <1>1, <1>4, <1>5, <1>6, SenderNumbers DEF SenderInit, SenderWindow
<1>8. overflowed \subseteq 1 .. sent /\ Cardinality(overflowed) <= MaxOverflow
  BY <1>1, FS_EmptySet, SenderNumbers DEF SenderInit
<1> QED
  BY <1>2, <1>4, <1>7, <1>8 DEF SenderInvariant, SenderInit

\* What the sender may be ahead of the receiver, counted: of the packets after
\* d each has overflowed, is kept in the window or was received early.
LEMMA LeadIsBounded ==
  ASSUME SenderTypeOK, SenderInvariant, isConnect, NEW R, NEW d \in Nat,
         AcceptedIsKeptOrIn(R), \A n \in R : n < d + Window
  PROVE  Lead(d)
<1>1. PICK b \in 0 .. sent + 1, t \in 0 .. sent + 1 : SenderWindow(b, t)
  BY DEF SenderInvariant
<1>2. /\ sent \in Nat /\ b \in Nat /\ Window \in Nat /\ 1 <= Window
      /\ sent \in Int /\ b \in Int /\ d + 1 \in Int /\ b + Window - 1 \in Int
      /\ d + Window - 1 \in Int
  BY <1>1, SenderNumbers
<1> DEFINE A == b .. b + Window - 1
           B == d + 1 .. d + Window - 1
           C == d + 1 .. sent
<1>3. \A n \in Kept : n \in A
  BY <1>1 DEF Kept, SenderWindow
<1>4. C \subseteq (overflowed \cup A) \cup B
  <2> SUFFICES ASSUME NEW n \in C PROVE n \in (overflowed \cup A) \cup B
    OBVIOUS
  <2>1. n \in 1 .. sent /\ n \in Nat /\ d + 1 <= n
    BY <1>2
  <2>2. n \in overflowed \/ n \in Kept \/ n \in R
    BY <2>1 DEF AcceptedIsKeptOrIn
  <2>3. n \in R => n \in B
    BY <1>2, <2>1
  <2> QED
    BY <1>3, <2>2, <2>3
<1>5. /\ IsFiniteSet(A) /\ Cardinality(A) = Window
      /\ IsFiniteSet(B) /\ Cardinality(B) = Window - 1
  <2>1. /\ IsFiniteSet(A)
        /\ Cardinality(A) = IF b > b + Window - 1 THEN 0 ELSE (b + Window - 1) - b + 1
    BY <1>2, FS_Interval
  <2>2. /\ IsFiniteSet(B)
        /\ Cardinality(B) = IF d + 1 > d + Window - 1 THEN 0
                            ELSE (d + Window - 1) - (d + 1) + 1
    BY <1>2, FS_Interval
  <2> HIDE DEF A, B
  <2> QED
    BY <1>2, <2>1, <2>2
<1>6. Cardinality(C) = IF d + 1 > sent THEN 0 ELSE sent - (d + 1) + 1
  BY <1>2, FS_Interval
<1>7. IsFiniteSet(overflowed) /\ Cardinality(overflowed) \in Nat
  BY OverflowedIsFinite
<1> HIDE DEF A, B, C
<1>8. /\ IsFiniteSet(overflowed \cup A)
      /\ Cardinality(overflowed \cup A) <= Cardinality(overflowed) + Window
  <2>1. IsFiniteSet(overflowed \cap A)
    BY <1>7, FS_Subset
  <2>2. Cardinality(overflowed \cap A) \in Nat
    BY <2>1, FS_CardinalityType
  <2>3. /\ IsFiniteSet(overflowed \cup A)
        /\ Cardinality(overflowed \cup A)
             = Cardinality(overflowed) + Cardinality(A) - Cardinality(overflowed \cap A)
    BY <1>5, <1>7, FS_Union
  <2> QED
    BY <1>2, <1>5, <1>7, <2>2, <2>3
<1>9. /\ IsFiniteSet((overflowed \cup A) \cup B)
      /\ Cardinality((overflowed \cup A) \cup B) <= Cardinality(overflowed) + 2 * Window - 1
  <2>1. IsFiniteSet((overflowed \cup A) \cap B)
    BY <1>8, FS_Subset
  <2>2. /\ Cardinality((overflowed \cup A) \cap B) \in Nat
        /\ Cardinality(overflowed \cup A) \in Nat
    BY <1>8, <2>1, FS_CardinalityType
  <2>3. /\ IsFiniteSet((overflowed \cup A) \cup B)
        /\ Cardinality((overflowed \cup A) \cup B)
             = Cardinality(overflowed \cup A) + Cardinality(B)
               - Cardinality((overflowed \cup A) \cap B)
    BY <1>5, <1>8, FS_Union
  <2> QED
    BY <1>2, <1>5, <1>7, <1>8, <2>2, <2>3
<1>10. /\ Cardinality(C) <= Cardinality((overflowed \cup A) \cup B)
       /\ Cardinality(C) \in Nat
       /\ Cardinality((overflowed \cup A) \cup B) \in Nat
  BY <1>4, <1>9, FS_Subset, FS_CardinalityType
<1> QED
  BY <1>2, <1>6, <1>7, <1>9, <1>10 DEF Lead

\* A step of the sender or of the network below it.
SenderStep ==
  \/ SendPacket
  \/ LosePacket
  \/ \E due \in SUBSET SlotIndex : RepeatMessage(due)
  \/ \E a \in acks : RecvDispatchACK(a)

\* While the receiver has R, with nothing further than a window ahead of d, the
\* sender's steps keep every accepted packet safe and the lead bounded.
LEMMA SenderStepInvariant ==
  ASSUME SenderTypeOK, SenderInvariant, SenderStep,
         NEW R, NEW d \in Nat, \A n \in R : n < d + Window,
         AcceptedIsKeptOrIn(R), AckedIsIn(R), Lead(d)
  PROVE  /\ SenderInvariant' /\ AcceptedIsKeptOrIn(R)' /\ AckedIsIn(R)' /\ Lead(d)'
         /\ sent <= sent'
<1>0. SenderTypeOK' /\ sent \in Nat
  BY SenderStepType, SenderNumbers DEF SenderStep
<1>1. CASE SendPacket
  <2>1. /\ SenderInvariant'
        /\ sent' = sent + 1
        /\ \/ overflowed' = overflowed /\ isConnect' /\ Kept' = Kept \cup {sent'}
           \/ /\ overflowed' = overflowed \cup {sent'}
              /\ Cardinality(overflowed') = Cardinality(overflowed) + 1
              /\ isConnect' => isConnect /\ Kept' = Kept
    BY <1>1, SendPacketInvariant
  <2>2. isConnect
    BY <1>1 DEF SendPacket, SessionSendPacket, ClientSendPacket,
                InternalClientSendPacket, SendWithinWindow, SendOverflow, TakeSequenceNo
  <2>3. AcceptedIsKeptOrIn(R)'
    BY <1>0, <2>1, <2>2 DEF AcceptedIsKeptOrIn
  <2>4. acks' \subseteq acks
    BY <1>1 DEF SendPacket, SessionSendPacket, ClientSendPacket,
                InternalClientSendPacket, SendWithinWindow, SendToReliable, Alive
  <2>5. AckedIsIn(R)'
    BY <2>4 DEF AckedIsIn
  <2>6. Lead(d)'
    <3>1. CASE isConnect'
      <4>1. ASSUME SenderTypeOK', SenderInvariant', isConnect', AcceptedIsKeptOrIn(R)'
            PROVE  Lead(d)'
        BY <4>1, LeadIsBounded, PTL
      <4> QED
        BY <1>0, <2>1, <2>3, <3>1, <4>1
    <3>2. CASE Cardinality(overflowed') = Cardinality(overflowed) + 1
      BY <1>0, <2>1, <3>2, OverflowedIsFinite, SenderNumbers DEF Lead
    <3> QED
      BY <2>1, <3>1, <3>2
  <2> QED
    BY <1>0, <2>1, <2>3, <2>5, <2>6
<1>2. CASE LosePacket
  <2>1. SenderInvariant' /\ Kept' = Kept
    BY <1>2, LosePacketInvariant
  <2> QED
    BY <1>0, <1>2, <2>1 DEF LosePacket, senderVars, AcceptedIsKeptOrIn, AckedIsIn, Lead
<1>3. ASSUME NEW due \in SUBSET SlotIndex, RepeatMessage(due)
      PROVE  SenderInvariant' /\ AcceptedIsKeptOrIn(R)' /\ AckedIsIn(R)' /\ Lead(d)'
             /\ sent <= sent'
  <2>1. SenderInvariant'
    BY <1>3, RepeatMessageInvariant
  <2> QED
    BY <1>0, <1>3, <2>1 DEF RepeatMessage, senderVars, AcceptedIsKeptOrIn, AckedIsIn, Lead, Kept
<1>4. ASSUME NEW a \in acks, RecvDispatchACK(a)
      PROVE  SenderInvariant' /\ AcceptedIsKeptOrIn(R)' /\ AckedIsIn(R)' /\ Lead(d)'
             /\ sent <= sent'
  <2>1. SenderInvariant' /\ \A m \in Kept : m \in Kept' \/ m = a.payload
    BY <1>4, RecvDispatchACKInvariant
  <2>2. a.payload \in R
    BY DEF AckedIsIn
  <2>3. UNCHANGED <<isConnect, sent, overflowed, acks>>
    BY <1>4 DEF RecvDispatchACK
  <2> QED
    BY <1>0, <2>1, <2>2, <2>3 DEF AcceptedIsKeptOrIn, AckedIsIn, Lead
<1> QED
  BY <1>1, <1>2, <1>3, <1>4 DEF SenderStep

\* The receiver's steps leave the sender alone and may add one ACK, for a packet
\* that was in flight.
LEMMA AckInvariant ==
  ASSUME SenderInvariant, NEW p \in data, UNCHANGED <<senderVars, data>>,
         acks' \subseteq acks \cup {p}
  PROVE  SenderInvariant' /\ Kept' = Kept
BY DEF SenderInvariant, SenderWindow, InFlight, senderVars, Kept

-----------------------------------------------------------------------------
(* The receiver's helpers                                                  *)

\* A packet that may be kept early has a bit of the mask.
LEMMA BitType ==
  ASSUME ReceiverTypeOK, NEW seq \in SeqNo, IsAhead(seq)
  PROVE  Bit(seq) \in SlotIndex
<1>1. seq # recvRepeatSeq
  BY SeqModAssumption DEF IsAhead, AlreadyReceived, USub, ReceiverTypeOK, SeqNo
<1>2. USub(seq, recvRepeatSeq) \in 1 .. Window - 1
  BY <1>1, SeqModAssumption DEF IsAhead, WithinWindow, USub, ReceiverTypeOK, SeqNo
<1> QED
  BY <1>2, SeqModAssumption DEF Bit, SlotIndex

\* Shifting a mask right keeps it within the window.
LEMMA ShiftRightType ==
  ASSUME NEW mask \in SUBSET SlotIndex, NEW n \in Nat
  PROVE  ShiftRight(mask, n) \subseteq SlotIndex
BY SeqModAssumption DEF ShiftRight, SlotIndex

\* Any packet in flight is close enough to packet d for the receiver's tests on
\* its number to be tests on the packet.
LEMMA FlightIsNear ==
  ASSUME SenderTypeOK, SenderInvariant, NEW p \in data,
         NEW d \in Nat, d <= sent, Lead(d)
  PROVE  /\ p.payload \in Nat /\ p.payload \in Payload /\ p.payload <= sent
         /\ p.sequenceNo = Wire(p.payload)
         /\ p.payload - d < SeqMod - Window
         /\ d - p.payload < SeqMod - Window
<1>1. InFlight(p) /\ Cardinality(overflowed) <= MaxOverflow
  BY DEF SenderInvariant
<1>2. p.payload \in Payload /\ p.payload \in Nat
  BY SenderNumbers DEF SenderTypeOK, Datagram, Payload
<1> QED
  BY <1>1, <1>2, SenderNumbers, OverflowedIsFinite DEF InFlight, Lead

\* The receiver's tests on a number, as tests on its packet: a duplicate, the
\* next packet, or one that is ahead of it.
LEMMA ReceiverTests ==
  ASSUME NEW d \in Nat, NEW n \in Nat, recvRepeatSeq = Wire(d),
         n - d < SeqMod - Window, d - n < SeqMod - Window
  PROVE  /\ AlreadyReceived(Wire(n)) <=> n <= d /\ d - n < Window
         /\ IsNext(Wire(n)) <=> n = d + 1
         /\ IsAhead(Wire(n)) <=> n \in d + 2 .. d + Window - 1
         /\ IsAhead(Wire(n)) => Bit(Wire(n)) = n - d - 1
<1>1. Window \in Nat /\ 1 <= Window /\ SeqMod \in Nat /\ 3 * Window <= SeqMod
  BY SeqModAssumption, SenderAssumption
<1>2. n - d < SeqMod /\ d - n < SeqMod
  BY <1>1
<1>3. n <= d => USub(Wire(d), Wire(n)) = d - n
  BY <1>2, WireSub
<1>4. d < n => USub(Wire(d), Wire(n)) = SeqMod - (n - d)
  BY <1>2, WireSubBack
<1>5. d <= n => USub(Wire(n), Wire(d)) = n - d
  BY <1>2, WireSub
<1>6. n < d => USub(Wire(n), Wire(d)) = SeqMod - (d - n)
  BY <1>2, WireSubBack
<1>7. AlreadyReceived(Wire(n)) <=> n <= d /\ d - n < Window
  BY <1>1, <1>3, <1>4 DEF AlreadyReceived
<1>8. WithinWindow(Wire(n)) <=> d <= n /\ n - d < Window
  BY <1>1, <1>5, <1>6 DEF WithinWindow
<1>9. IsNext(Wire(n)) <=> n = d + 1
  <2>1. UAdd(Wire(d), 1) = Wire(d + 1)
    BY WireAdd, SmallDistances
  <2>2. d + 1 \in Nat /\ (d + 1) - n < SeqMod /\ n - (d + 1) < SeqMod
    BY <1>1
  <2> QED
    BY <2>1, <2>2, WireEqual DEF IsNext
<1>10. IsAhead(Wire(n)) <=> n \in d + 2 .. d + Window - 1
  BY <1>1, <1>7, <1>8, <1>9 DEF IsAhead
<1>11. IsAhead(Wire(n)) => Bit(Wire(n)) = n - d - 1
  BY <1>1, <1>5, <1>10 DEF Bit
<1> QED
  BY <1>7, <1>9, <1>10, <1>11

\* The greater of the two packets becomes the highest seen.
LEMMA HighestSeenPacket ==
  ASSUME NEW d \in Nat, NEW n \in Nat, NEW h \in Nat, lastRepeatSeq = Wire(h),
         d <= n, n < d + Window, d <= h, h < d + Window
  PROVE  HighestSeen(Wire(n)) = Wire(IF n >= h THEN n ELSE h)
<1>1. Window \in Nat /\ 1 <= Window /\ SeqMod \in Nat /\ 3 * Window <= SeqMod
  BY SeqModAssumption, SenderAssumption
<1>2. n - h < SeqMod /\ h - n < SeqMod
  BY <1>1
<1>3. h <= n => USub(Wire(n), Wire(h)) = n - h
  BY <1>2, WireSub
<1>4. n < h => USub(Wire(n), Wire(h)) = SeqMod - (h - n)
  BY <1>2, WireSubBack
<1> QED
  BY <1>1, <1>3, <1>4 DEF HighestSeen
=============================================================================
