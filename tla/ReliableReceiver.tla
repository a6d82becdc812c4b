-------------------------- MODULE ReliableReceiver --------------------------
(***************************************************************************)
(* What the two reliable branches of RecvDispatch share: the receiving     *)
(* fields of PacketStateBase, the tests on a sequence number, and the ACK  *)
(* that follows when RecvDispatch returns true.  The branches are the same *)
(* code, word for word, in Session, Client and InternalClient.             *)
(***************************************************************************)
EXTENDS ReliableSender

VARIABLES
  recvRepeatSeq,     \* every number up to this one has been handed over
  lastRepeatSeq,     \* highest sequence number seen
  cacheRepeatCount   \* bit mask, as the set of the positions of its 1 bits

receiverBase == <<recvRepeatSeq, lastRepeatSeq, cacheRepeatCount>>

ReceiverInit ==
  /\ recvRepeatSeq = StartSeq
  /\ lastRepeatSeq = StartSeq
  /\ cacheRepeatCount = {}

ShiftRight_Once(mask, n) == {b - 1 : b \in {c \in mask : c >= 1}}
\* mask >>= n
ShiftRight(mask, n) == {b - n : b \in {c \in mask : c >= n}}

AlreadyReceived_OneLess(seq) == USub(recvRepeatSeq, seq) < Window - 1
\* Received before, at most Window back: acknowledged again, not handled.
AlreadyReceived(seq) == USub(recvRepeatSeq, seq) < Window

IsNext_OrLater(seq) == USub(seq, recvRepeatSeq) \in {1, 2}
IsNext(seq) == seq = UAdd(recvRepeatSeq, 1)

\* How far ahead of recvRepeatSeq a packet may be.  Beyond it RecvDispatch
\* returns false: nothing changes and no ACK is sent.
WithinWindow_Twice(seq) == USub(seq, recvRepeatSeq) < 2 * Window
WithinWindow(seq) == USub(seq, recvRepeatSeq) < Window

\* The bit of a packet ahead of the next one: 1 << (del - 1).
Bit(seq) == USub(seq, recvRepeatSeq) - 1

HighestSeen_Latest(seq) == seq
\* lastRepeatSeq after a packet ahead of the next one.
HighestSeen(seq) ==
  IF USub(seq, lastRepeatSeq) < Window THEN seq ELSE lastRepeatSeq

\* SendAck, called when RecvDispatch returns true.
SendAck(p) == acks' = acks \cup {p}

\* A packet is ahead of the next one and may be taken.
IsAhead(seq) == ~AlreadyReceived(seq) /\ ~IsNext(seq) /\ WithinWindow(seq)

\* Types: the mask has Window bits.
ReceiverTypeOK ==
  /\ recvRepeatSeq \in SeqNo
  /\ lastRepeatSeq \in SeqNo
  /\ cacheRepeatCount \subseteq SlotIndex

-----------------------------------------------------------------------------
(* Shared parts of the properties                                          *)

\* The packets the sender keeps for retransmission.
Kept == {pendingPackets[i].buffer : i \in SlotIndex} \ {nullptr}

\* While no packet has overflowed, the sender's window and the receiver's
\* tests fit: a kept packet is one the receiver acknowledges again, accepts
\* now, or (only the newest of a full window) accepts once the next packet
\* has arrived.  Otherwise its retransmissions would be refused for ever.
KeptPacketIsAcceptable ==
  overflowed = {} =>
    \A i \in SlotIndex :
      LET seq == pendingPackets[i].sequenceNo IN
      pendingPackets[i].buffer # nullptr =>
        AlreadyReceived(seq) \/ USub(seq, recvRepeatSeq) \in 1 .. Window
=============================================================================
