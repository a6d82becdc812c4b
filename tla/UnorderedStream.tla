-------------------------- MODULE UnorderedStream --------------------------
(***************************************************************************)
(* The streams without a channel.  rpsNo_ is reliable: the sender of       *)
(* ReliableSender and the branch of RecvDispatch for REPEAT without        *)
(* CHANNEL.  A packet is handed to the application when it arrives; a bit  *)
(* mask over the Window numbers after recvRepeatSeq remembers which ones   *)
(* already were.  rNopsNo_ is unreliable: a packet is numbered and sent    *)
(* once, and handled when its number is at most NO_REPEAT_ACCEPT_RANGE - 1 *)
(* ahead of the last one handled; it is for state that only matters while  *)
(* it is the newest.  reliable says which of the two this is.              *)
(***************************************************************************)
EXTENDS ReliableReceiver

CONSTANT AcceptRange   \* NO_REPEAT_ACCEPT_RANGE

\* A datagram still in flight is never so old that its distance wraps into
\* the accepted range.
ASSUME AcceptAssumption ==
  /\ AcceptRange \in Nat \ {0}
  /\ AcceptRange + Lifetime <= SeqMod

VARIABLES
  reliable,          \* whether this is rpsNo_ or rNopsNo_, for good
  handled            \* how often each packet was handed over

receiverVars == <<receiverBase, handled>>
vars == <<reliable, senderVars, data, acks, receiverVars>>

Init ==
  /\ reliable \in BOOLEAN
  /\ SenderInit
  /\ ReceiverInit
  /\ handled = [n \in Payload |-> 0]

-----------------------------------------------------------------------------
(* RecvDispatch, branch without a channel                                  *)

\* PacketParse, or RecvChunckPacket for a chunk.
Handle(p) == handled' = [handled EXCEPT ![p.payload] = @ + 1]

RecvDuplicate(p) ==
  /\ AlreadyReceived(p.sequenceNo)
  /\ SendAck(p)
  /\ UNCHANGED receiverVars

RecvAhead_Unchecked(p) ==
  /\ IsAhead(p.sequenceNo)
  /\ lastRepeatSeq' = HighestSeen(p.sequenceNo)
  /\ cacheRepeatCount' = cacheRepeatCount \cup {Bit(p.sequenceNo)}
  /\ Handle(p)
  /\ SendAck(p)
  /\ UNCHANGED recvRepeatSeq
\* A packet ahead of the next one is handled unless its bit is set.
RecvAhead(p) ==
  LET seq == p.sequenceNo IN
  /\ IsAhead(seq)
  /\ lastRepeatSeq' = HighestSeen(seq)
  /\ \/ Bit(seq) \in cacheRepeatCount /\ UNCHANGED <<cacheRepeatCount, handled>>
     \/ /\ Bit(seq) \notin cacheRepeatCount
        /\ cacheRepeatCount' = cacheRepeatCount \cup {Bit(seq)}
        /\ Handle(p)
  /\ SendAck(p)
  /\ UNCHANGED recvRepeatSeq

\* The next number: handled, and recvRepeatSeq passes the n numbers after it
\* that had already been handled.
RecvNext(p) ==
  /\ ~AlreadyReceived(p.sequenceNo)
  /\ IsNext(p.sequenceNo)
  /\ Handle(p)
  /\ \E n \in 0 .. Window :
       /\ \A b \in 1 .. n : b \in cacheRepeatCount
       /\ n + 1 \notin cacheRepeatCount
       /\ cacheRepeatCount' = ShiftRight(cacheRepeatCount, n + 1)
       /\ recvRepeatSeq' = UAdd(p.sequenceNo, n)
  /\ lastRepeatSeq' = IF recvRepeatSeq = lastRepeatSeq THEN recvRepeatSeq'
                                                       ELSE lastRepeatSeq
  /\ SendAck(p)

Accepts_SameAgain(seq) == USub(seq, recvRepeatSeq) < AcceptRange
Accepts(seq) == USub(seq, recvRepeatSeq) # 0 /\ USub(seq, recvRepeatSeq) < AcceptRange

\* The branch without REPEAT.
RecvUnreliable(p) ==
  /\ Accepts(p.sequenceNo)
  /\ Handle(p)
  /\ recvRepeatSeq' = p.sequenceNo
  /\ UNCHANGED <<lastRepeatSeq, cacheRepeatCount, acks>>

RecvDispatch(p) ==
  /\ \/ reliable /\ (RecvDuplicate(p) \/ RecvAhead(p) \/ RecvNext(p))
     \/ ~reliable /\ RecvUnreliable(p)
  /\ UNCHANGED <<senderVars, data>>

-----------------------------------------------------------------------------
(* SendPacket without reliable_                                            *)

SendUnreliable ==
  /\ TakeSequenceNo
  /\ SendToReliable(sendRepeatSeq', sent')
  /\ UNCHANGED <<sender, localWindowStart, localSeqence, pendingPackets, isConnect,
                 overflowed>>

Send ==
  /\ \/ reliable /\ SendPacket
     \/ ~reliable /\ SendUnreliable
  /\ UNCHANGED receiverVars

Next ==
  /\ \/ Send
     \/ LosePacket /\ UNCHANGED receiverVars
     \/ \E due \in SUBSET SlotIndex : RepeatMessage(due) /\ UNCHANGED receiverVars
     \/ \E a \in acks : RecvDispatchACK(a) /\ UNCHANGED receiverVars
     \/ \E p \in data : RecvDispatch(p)
  /\ UNCHANGED reliable

Spec == Init /\ [][Next]_vars

-----------------------------------------------------------------------------
(* Properties                                                              *)

\* Types.  With SenderTypeOK and ReceiverTypeOK: RecvDispatch sets no bit
\* beyond the mask's width.
TypeOK ==
  /\ reliable \in BOOLEAN
  /\ SenderTypeOK
  /\ ReceiverTypeOK
  /\ handled \in [Payload -> Nat]

Handled == {n \in Payload : handled[n] > 0}

\* Either stream implements OnceDelivery: however datagrams are repeated and
\* reordered, RecvDispatch calls PacketParse at most once per packet.
Once == INSTANCE OnceDelivery WITH sent <- sent, handled <- handled, Payload <- Payload
RefinesOnceDelivery == Once!Spec

\* The mask and recvRepeatSeq of the reliable stream describe exactly what was
\* handled: the bit of a number is set just when that packet was handled,
\* recvRepeatSeq is followed by a gap, and lastRepeatSeq is the highest number
\* handled.
MaskAgreement ==
  LET low == CHOOSE m \in 0 .. MaxSend : m + 1 \notin Handled /\ 1 .. m \subseteq Handled
  IN  reliable =>
        /\ recvRepeatSeq = Wire(low)
        /\ cacheRepeatCount = {n - low - 1 : n \in {k \in Handled : k > low}}
        /\ \E top \in Handled \cup {0} :
             /\ \A n \in Handled : n <= top
             /\ lastRepeatSeq = Wire(top)

\* The application never goes back to an older state: whatever the network
\* repeats or delays, and across the wrap of the numbers, RecvDispatch handles
\* an unreliable packet only if it has handled none that is newer.
OnlyNewer ==
  [][\A n \in Payload :
       (~reliable /\ handled'[n] # handled[n]) => \A m \in n .. MaxSend : handled[m] = 0]_vars
=============================================================================
