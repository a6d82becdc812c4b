----------------------------- MODULE ChunkStream -----------------------------
(***************************************************************************)
(* Messages larger than a packet: SendPacketChunk cuts one into chunks and *)
(* sends each through SendPacket on the unordered stream; RecvChunckPacket *)
(* collects them in chunckPackets_ and parses the message once all are     *)
(* there.                                                                  *)
(*                                                                         *)
(* The receiver finds the message of a chunk by its first sequence number: *)
(* the chunk's own number less its index, which it reads off the lowest    *)
(* bit of the chunk's 16-bit flag.  Flags are sets of bits.  Sequence      *)
(* numbers do not wrap here (the code subtracts modulo 2^32).              *)
(*                                                                         *)
(* The subtraction is right for a message whose chunks have consecutive    *)
(* numbers and no more of them than the flag has bits, and the code sees   *)
(* to neither: threads that send at the same time interleave their         *)
(* numbers, and a chunk past the flag's width comes with an empty flag.    *)
(* The properties say what becomes of all other messages (Alone): they are *)
(* not drawn into it.                                                      *)
(*                                                                         *)
(* Below is the stream OnceDelivery promises: each packet is handled at    *)
(* most once, in any order; SendPacket drops a packet when the window is   *)
(* full.                                                                   *)
(***************************************************************************)
EXTENDS Integers, Sequences, FiniteSets

CONSTANTS
  Threads,      \* threads that send on this stream
  Messages,
  Chunks,       \* Chunks[m]: packets message m needs
  FlagBits,     \* DEFAULT_CHUNCK_MAX_SIZE, the width of the flag
  MayOverflow   \* can SendPacket find the window full?

ASSUME ChunkAssumption ==
  /\ Chunks \in [Messages -> Nat \ {0}]
  /\ FlagBits \in Nat \ {0}
  /\ MayOverflow \in BOOLEAN

VARIABLES
  sendRepeatSeq,  \* rpsNo_.sendRepeatSeq_ of the sender
  sending,        \* sending[t]: the message t is sending and the next chunk
  unsent,         \* messages nobody has sent yet
  dropped,        \* messages of which SendPacket dropped a packet
  data,           \* packets on their way
  chunckPackets,  \* chunckPackets_ of the receiver: first number -> ChunkPacket
  parsed,         \* what PacketParse was called with, in order
  first, last     \* history: the lowest and the highest number that a packet
                  \* of message m was given; 1 and 0 before the first

vars == <<sendRepeatSeq, sending, unsent, dropped, data, chunckPackets, parsed,
          first, last>>

Idle == [msg |-> {}, next |-> 0]
Bits == 0 .. FlagBits - 1
EndBit == FlagBits - 1          \* DEFAULT_CHUNK_END_MASK

Init ==
  /\ sendRepeatSeq = 0
  /\ sending = [t \in Threads |-> Idle]
  /\ unsent = Messages
  /\ dropped = {}
  /\ data = {}
  /\ chunckPackets = << >>
  /\ parsed = << >>
  /\ first = [m \in Messages |-> 1]
  /\ last = [m \in Messages |-> 0]

-----------------------------------------------------------------------------
(* Sending                                                                 *)

\* The flag of chunk i of count: bit i, and for the last chunk every bit from
\* i up.  What does not fit the width is cut off.
ChunkFlag(i, count) == IF i = count - 1 THEN {b \in Bits : b >= i} ELSE {i} \cap Bits

\* A thread sends the one packet of a small message, or takes one turn of
\* SendPacketChunk's loop over a larger one.  SendPacket holds sendLock_ for
\* this packet alone, gives it the next number, and drops it if the window is
\* full.
SendPacket(t) ==
  \E m \in IF sending[t] = Idle THEN unsent ELSE sending[t].msg :
    LET i == sending[t].next IN
    /\ unsent' = unsent \ {m}
    /\ sending' = [sending EXCEPT ![t] =
                     IF i + 1 = Chunks[m] THEN Idle ELSE [msg |-> {m}, next |-> i + 1]]
    /\ sendRepeatSeq' = sendRepeatSeq + 1
    /\ first' = IF i = 0 THEN [first EXCEPT ![m] = sendRepeatSeq'] ELSE first
    /\ last' = [last EXCEPT ![m] = sendRepeatSeq']
    /\ \/ /\ data' = data \cup
                {[sequenceNo |-> sendRepeatSeq', msg |-> m, chunk |-> i,
                  isChunck |-> Chunks[m] > 1, flag |-> ChunkFlag(i, Chunks[m])]}
          /\ UNCHANGED dropped
       \/ /\ MayOverflow
          /\ dropped' = dropped \cup {m}
          /\ UNCHANGED data
    /\ UNCHANGED <<chunckPackets, parsed>>

-----------------------------------------------------------------------------
(* Receiving                                                               *)

\* The lowest bit of a flag, 0 for a flag that lost its bits.
Lowest(flag) == IF flag = {} THEN 0 ELSE CHOOSE b \in flag : \A c \in flag : b <= c

StartSequnceNum_OwnNumber(seq, flag) == seq
StartSequnceNum(seq, flag) == seq - Lowest(flag)

nullptr == << >>
NewChunkPacket ==
  [flag |-> {}, count |-> 0, isEnd |-> FALSE, buffers |-> [b \in Bits |-> nullptr]]

\* ChunkPacketInj::Update: find the message's record or make one.
Update(start) ==
  IF start \in DOMAIN chunckPackets THEN chunckPackets[start] ELSE NewChunkPacket

SetAt(f, i, v) == [j \in DOMAIN f \cup {i} |-> IF j = i THEN v ELSE f[j]]
Without(f, i) == [j \in DOMAIN f \ {i} |-> f[j]]

\* The chunks put in the order in which they come.
SetBuffer_ByArrival(cp, p) ==
  IF cp.flag \cap p.flag # {} THEN cp
  ELSE [flag |-> cp.flag \cup p.flag,
        count |-> cp.count + 1,
        isEnd |-> cp.isEnd \/ EndBit \in p.flag,
        buffers |-> [cp.buffers EXCEPT ![cp.count] = <<p.msg, p.chunk>>]]

\* ChunkPacket::SetBuffer.  A chunk whose bits are taken changes nothing (its
\* buffer is not returned either).
SetBuffer(cp, p) ==
  IF cp.flag \cap p.flag # {} THEN cp
  ELSE [flag |-> cp.flag \cup p.flag,
        count |-> cp.count + 1,
        isEnd |-> cp.isEnd \/ EndBit \in p.flag,
        buffers |-> IF p.flag = {} THEN cp.buffers
                    ELSE [cp.buffers EXCEPT ![Lowest(p.flag)] = <<p.msg, p.chunk>>]]

IsPull(cp) == cp.isEnd /\ cp.flag = Bits

\* The message PacketParse is called with: the first count buffers.  A record
\* of mixed chunks may count more than it holds; the code then follows a null
\* pointer, or one from past the array.
Assembled(cp) ==
  [i \in 1 .. cp.count |-> IF i - 1 \in Bits THEN cp.buffers[i - 1] ELSE nullptr]

\* RecvChunckPacket.
RecvChunckPacket(p) ==
  LET start == StartSequnceNum(p.sequenceNo, p.flag)
      cp == SetBuffer(Update(start), p)
  IN  IF IsPull(cp)
      THEN /\ parsed' = Append(parsed, Assembled(cp))
           /\ chunckPackets' = Without(chunckPackets, start)
      ELSE /\ chunckPackets' = SetAt(chunckPackets, start, cp)
           /\ UNCHANGED parsed

\* The unordered branch of RecvDispatch, for a packet it has not handled.
RecvDispatch(p) ==
  /\ data' = data \ {p}
  /\ \/ p.isChunck /\ RecvChunckPacket(p)
     \/ /\ ~p.isChunck
        /\ parsed' = Append(parsed, <<<<p.msg, p.chunk>>>>)
        /\ UNCHANGED chunckPackets
  /\ UNCHANGED <<sendRepeatSeq, sending, unsent, dropped, first, last>>

Next ==
  \/ \E t \in Threads : SendPacket(t)
  \/ \E p \in data : RecvDispatch(p)

Spec == Init /\ [][Next]_vars

-----------------------------------------------------------------------------
(* Properties                                                              *)

Whole(m) == [i \in 1 .. Chunks[m] |-> <<m, i - 1>>]

IsSent(m) == m \notin unsent /\ \A t \in Threads : m \notin sending[t].msg

\* Neither message was given a number while the other was being sent.
Apart(m, n) == last[m] < first[n] \/ last[n] < first[m]

\* The messages the receiver can put together: a plain packet; or chunks that
\* fit the flag, sent while nobody else sent on the stream.
Alone(m) ==
  \/ Chunks[m] = 1
  \/ Chunks[m] <= FlagBits /\ \A n \in Messages \ {m} : Apart(m, n)

\* parsed[k] holds a chunk of m.
HandedTo(k, m) == \E i \in DOMAIN parsed[k] : parsed[k][i] # nullptr /\ parsed[k][i][1] = m

\* A message that was sent alone is handed to the application whole and in
\* order, with no chunk of another, and once: whatever other threads send
\* before and after it, interleaved with one another or too long, in whatever
\* order the packets come and whichever of them SendPacket dropped.
ParsedIsWhole ==
  \A m \in Messages : Alone(m) =>
    /\ \A k \in 1 .. Len(parsed) : HandedTo(k, m) => parsed[k] = Whole(m)
    /\ \A k, l \in 1 .. Len(parsed) : parsed[k] = Whole(m) /\ parsed[l] = Whole(m) => k = l

\* Once every packet has arrived, every message that was sent alone and lost no
\* packet to a full window has been parsed; and a record that is left over in
\* chunckPackets_ lies among the numbers of a message that lost a packet, is
\* still being sent, or was not alone.
NothingLeftOver ==
  data = {} =>
    /\ \A m \in Messages : IsSent(m) /\ Alone(m) /\ m \notin dropped =>
         \E k \in 1 .. Len(parsed) : parsed[k] = Whole(m)
    /\ \A s \in DOMAIN chunckPackets : \E m \in Messages :
         /\ s \in first[m] .. last[m]
         /\ Chunks[m] > 1
         /\ ~IsSent(m) \/ m \in dropped \/ ~Alone(m)
=============================================================================
