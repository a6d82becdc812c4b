--------------------------- MODULE ReliableSender ---------------------------
(***************************************************************************)
(* The sending half of one reliable stream (an ordered channel or the      *)
(* unordered stream rpsNo_) and the UDP network below it.                  *)
(*                                                                         *)
(* SendPacket numbers a packet, keeps it in pendingPackets until its ACK   *)
(* comes back and hands it to the socket; RepeatMessage sends kept packets *)
(* again; AckProcess releases them and moves the window.  The three        *)
(* programs that send (Session, Client, InternalClient) share that state   *)
(* but treat a full window differently; sender says which one this is.     *)
(*                                                                         *)
(* The n-th packet given to SendPacket carries the payload n, so that the  *)
(* number identifies it whatever its sequence number has wrapped to.       *)
(* Datagrams and ACKs in flight are sets: a member may be received any     *)
(* number of times and in any order, and lost.                             *)
(***************************************************************************)
EXTENDS SequenceNumbers, FiniteSets

CONSTANTS
  Senders,       \* which of the three programs may be the sender
  MaxSend,       \* bound: packets the application sends
  MaxOverflow,   \* bound: those of them sent into a full window
  Lifetime       \* a datagram is gone once Lifetime newer ones were sent

\* Distances are meant modulo SeqMod, and the sender may be ahead of the receiver
\* by what has overflowed and two windows.
ASSUME SenderAssumption ==
  /\ Senders \subseteq {"Session", "Client", "InternalClient"}
  /\ MaxSend \in Nat
  /\ MaxOverflow \in Nat
  /\ MaxOverflow + 3 * Window <= SeqMod
  /\ Lifetime \in Nat
  /\ Lifetime <= SeqMod - Window

VARIABLES
  sender,            \* "Session", "Client" or "InternalClient", for good
  sendRepeatSeq,     \* last sequence number given out
  localWindowStart,  \* oldest sequence number that may still be pending
  localSeqence,      \* one past the newest pending sequence number
  pendingPackets,    \* the ring of kept packets
  isConnect,         \* the sender's isConnect_
  sent,              \* number of packets the application has passed in
  overflowed,        \* those of them that found the window full
  data,              \* datagrams in flight
  acks               \* ACKs in flight

senderVars == <<sender, sendRepeatSeq, localWindowStart, localSeqence,
                pendingPackets, isConnect, sent, overflowed>>

nullptr == 0
Payload == 1 .. MaxSend
Datagram == [sequenceNo : SeqNo, payload : Payload]
PendingPacket == [sequenceNo : SeqNo, buffer : {nullptr} \cup Payload]

\* PacketStateBase::Reset and ReliablePacketState::Reset.
EmptyPending == [i \in SlotIndex |-> [sequenceNo |-> 0, buffer |-> nullptr]]

\* After Reset, or once StartSeq packets were acknowledged.  (What the empty
\* slots remember of earlier sequence numbers is never looked at.)
SenderInit ==
  /\ sender \in Senders
  /\ sendRepeatSeq = StartSeq
  /\ localWindowStart = IF StartSeq = 0 THEN 0 ELSE UAdd(StartSeq, 1)
  /\ localSeqence = localWindowStart
  /\ pendingPackets = EmptyPending
  /\ isConnect = TRUE
  /\ sent = 0
  /\ overflowed = {}
  /\ data = {}
  /\ acks = {}

-----------------------------------------------------------------------------
(* The network                                                             *)

\* What is still in flight once `sent` has become n.
Alive(flying, n) == {p \in flying : p.payload + Lifetime > n}

LosePacket ==
  /\ \/ \E p \in data : data' = data \ {p} /\ UNCHANGED acks
     \/ \E a \in acks : acks' = acks \ {a} /\ UNCHANGED data
  /\ UNCHANGED senderVars

-----------------------------------------------------------------------------
(* Sending                                                                 *)

WindowFull(seq) == USub(seq, localWindowStart) >= Window

AddPendingPacket_NoAdvance(seq, msg) ==
  /\ ~WindowFull(seq)
  /\ pendingPackets' = [pendingPackets EXCEPT
                          ![Slot(seq)] = [sequenceNo |-> seq, buffer |-> msg]]
  /\ UNCHANGED <<localSeqence, localWindowStart>>
\* ReliablePacketState::AddPendingPacket when it returns true.
AddPendingPacket(seq, msg) ==
  /\ ~WindowFull(seq)
  /\ pendingPackets' = [pendingPackets EXCEPT
                          ![Slot(seq)] = [sequenceNo |-> seq, buffer |-> msg]]
  /\ localSeqence' = IF seq >= localSeqence THEN UAdd(seq, 1) ELSE localSeqence
  /\ UNCHANGED localWindowStart

\* RUDPSocket::SendToReliable: the datagram is in flight; older ones expire.
SendToReliable(seq, msg) ==
  /\ data' = Alive(data, msg) \cup {[sequenceNo |-> seq, payload |-> msg]}
  /\ acks' = Alive(acks, msg)

\* The part the three SendPackets share: the packet takes the next number
\* before anybody asks whether the window has room.
TakeSequenceNo ==
  /\ sent < MaxSend
  /\ isConnect
  /\ sent' = sent + 1
  /\ sendRepeatSeq' = UAdd(sendRepeatSeq, 1)

SendWithinWindow ==
  /\ TakeSequenceNo
  /\ AddPendingPacket(sendRepeatSeq', sent')
  /\ SendToReliable(sendRepeatSeq', sent')
  /\ UNCHANGED <<isConnect, overflowed>>

MayOverflow == Cardinality(overflowed) < MaxOverflow

SendOverflow ==
  /\ MayOverflow
  /\ TakeSequenceNo
  /\ WindowFull(sendRepeatSeq')
  /\ overflowed' = overflowed \cup {sent'}

\* Session::SendPacket drops a packet that finds the window full.
SessionSendPacket ==
  /\ sender = "Session"
  /\ \/ SendWithinWindow
     \/ /\ SendOverflow
        /\ data' = Alive(data, sent') /\ acks' = Alive(acks, sent')
        /\ UNCHANGED <<localWindowStart, localSeqence, pendingPackets, isConnect>>

\* Client::SendPacket ends the connection instead: Disconnect() resets the
\* stream.  The programs built on Client send only while IsConnect().
ClientSendPacket ==
  /\ sender = "Client"
  /\ \/ SendWithinWindow
     \/ /\ MayOverflow
        /\ sent < MaxSend
        /\ isConnect
        /\ WindowFull(UAdd(sendRepeatSeq, 1))
        /\ sent' = sent + 1
        /\ overflowed' = overflowed \cup {sent'}
        /\ sendRepeatSeq' = 0 /\ localWindowStart' = 0 /\ localSeqence' = 0
        /\ pendingPackets' = EmptyPending
        /\ isConnect' = FALSE
        /\ data' = Alive(data, sent') /\ acks' = Alive(acks, sent')

\* InternalClient::SendPacket sends the packet without keeping it.
InternalClientSendPacket ==
  /\ sender = "InternalClient"
  /\ \/ SendWithinWindow
     \/ /\ SendOverflow
        /\ SendToReliable(sendRepeatSeq', sent')
        /\ UNCHANGED <<localWindowStart, localSeqence, pendingPackets, isConnect>>

SendPacket ==
  /\ SessionSendPacket \/ ClientSendPacket \/ InternalClientSendPacket
  /\ UNCHANGED sender

-----------------------------------------------------------------------------
(* Retransmission and acknowledgement                                      *)

\* The sequence numbers RepeatMessage visits: from localWindowStart up to,
\* not including, localSeqence.
InRepeatRange_StopsShort(seq) ==
  USub(seq, localWindowStart) + 1 < USub(localSeqence, localWindowStart)
InRepeatRange(seq) ==
  USub(seq, localWindowStart) < USub(localSeqence, localWindowStart)

\* What SendToRepeat sends of slot i.
KeptDatagram(i) == [sequenceNo |-> pendingPackets[i].sequenceNo,
                    payload |-> pendingPackets[i].buffer]

\* Slot i has the oldest of the kept packets.
IsOldest(i) ==
  LET Age(j) == USub(pendingPackets[j].sequenceNo, localWindowStart)
      IsPending(j) == pendingPackets[j].buffer # nullptr
  IN  IsPending(i) /\ \A j \in SlotIndex : IsPending(j) => Age(i) <= Age(j)

\* RepeatMessage sends again the kept packets whose resend delay has passed
\* and whose last send the kernel has finished.  Which ones those are is up
\* to the clock and the kernel: any of them, `due`.
RepeatMessage(due) ==
  /\ due # {}
  /\ \A i \in due : /\ pendingPackets[i].buffer # nullptr
                    /\ InRepeatRange(pendingPackets[i].sequenceNo)
  /\ data' = data \cup {KeptDatagram(i) : i \in due}
  /\ UNCHANGED <<senderVars, acks>>

AcksSlot_AnySequenceNo(ackSeq) == pendingPackets[Slot(ackSeq)].buffer # nullptr
\* The ACK names the packet in its slot, which is still kept.
AcksSlot(ackSeq) ==
  /\ pendingPackets[Slot(ackSeq)].sequenceNo = ackSeq
  /\ pendingPackets[Slot(ackSeq)].buffer # nullptr

\* ReliablePacketState::AckProcess.  An ACK that matches no kept packet
\* changes nothing.  Otherwise the packet is released and the window start
\* passes the n released slots that follow it.
AckProcess(ackSeq) ==
  LET idx == Slot(ackSeq)
      distance == USub(localSeqence, localWindowStart)
      Released(k) == pendingPackets'[Slot(UAdd(localWindowStart, k))].buffer = nullptr
  IN  /\ AcksSlot(ackSeq)
      /\ pendingPackets' = [pendingPackets EXCEPT ![idx].buffer = nullptr]
      /\ \E n \in 0 .. distance :
            /\ \A k \in 0 .. n - 1 : Released(k)
            /\ n = distance \/ ~Released(n)
            /\ localWindowStart' = UAdd(localWindowStart, n)

\* RecvDispatchACK of the three programs: a sender that has disconnected
\* ignores the ACK.
RecvDispatchACK(a) ==
  /\ isConnect
  /\ AckProcess(a.sequenceNo)
  /\ UNCHANGED <<sender, sendRepeatSeq, localSeqence, isConnect, sent,
                 overflowed, data, acks>>

\* Types of the sender and of what is in flight.
SenderTypeOK ==
  /\ sender \in Senders
  /\ sendRepeatSeq \in SeqNo
  /\ localWindowStart \in SeqNo
  /\ localSeqence \in SeqNo
  /\ pendingPackets \in [SlotIndex -> PendingPacket]
  /\ isConnect \in BOOLEAN
  /\ sent \in 0 .. MaxSend
  /\ overflowed \subseteq Payload
  /\ data \subseteq Datagram
  /\ acks \subseteq Datagram
=============================================================================
