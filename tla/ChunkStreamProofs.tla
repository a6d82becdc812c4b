------------------------- MODULE ChunkStreamProofs -------------------------
(***************************************************************************)
(* What becomes of chunked messages, for any number of threads that send   *)
(* on the stream at the same time, any number and length of messages and   *)
(* any width of the flag.                                                  *)
(*                                                                         *)
(* All numbers of a message, those of its packets and those its chunks'    *)
(* flags lead the receiver to, lie between its first and its last.  The    *)
(* numbers of a message sent alone are shared with no other, so the        *)
(* records that others leave there, mixed or cut short, are never its      *)
(* own; and they follow one another, so the receiver's subtraction finds   *)
(* the first.  Its record then is the one that the set of its chunks that  *)
(* have come determines, because the last chunk's flag fills it up.        *)
(***************************************************************************)
EXTENDS ChunkStream, FiniteSetTheorems, SequenceTheorems, TLAPS

-----------------------------------------------------------------------------
(* The invariant                                                           *)

\* The chunks of a message, and those SendPacket was called for.
All(m) == 0 .. Chunks[m] - 1
Sent(m, i) == m \notin unsent /\ \A t \in Threads : m \in sending[t].msg => i < sending[t].next

\* Chunk i of message m with number s.
Packet(m, i, s) ==
  [sequenceNo |-> s, msg |-> m, chunk |-> i,
   isChunck |-> Chunks[m] > 1, flag |-> ChunkFlag(i, Chunks[m])]

\* What chunckPackets_ has of a message sent alone when the chunks `have` have
\* come.
Record(m, have) ==
  [flag |-> {b \in Bits : \E i \in have : b \in ChunkFlag(i, Chunks[m])},
   count |-> Cardinality(have),
   isEnd |-> Chunks[m] - 1 \in have,
   buffers |-> [b \in Bits |-> IF b \in have THEN <<m, b>> ELSE nullptr]]

\* The messages the receiver collects in a record of their own, and whether
\* number s is one a chunk of m has, or may have.
Chunked(m) == Chunks[m] > 1
Spans(m, s) == first[m] <= s /\ s <= last[m]

SenderTypes ==
  /\ sendRepeatSeq \in Nat
  /\ DOMAIN sending = Threads
  /\ unsent \subseteq Messages
  /\ \A t \in Threads : sending[t] # Idle =>
       \E m \in Messages \ unsent : \E i \in All(m) \ {0} : sending[t] = [msg |-> {m}, next |-> i]
  /\ \A t, u \in Threads : \A m \in sending[t].msg : m \in sending[u].msg => t = u
  /\ first \in [Messages -> Nat] /\ last \in [Messages -> Nat]

\* A message's numbers lie between first and last, and follow one another if
\* it is sent alone; the newest number is the last of some message.
NumbersFollow ==
  /\ \A m \in unsent : first[m] = 1 /\ last[m] = 0
  /\ \A m \in Messages \ unsent : 1 <= first[m] /\ first[m] <= last[m] /\ last[m] <= sendRepeatSeq
  /\ \A t \in Threads : \A m \in sending[t].msg :
       /\ first[m] + sending[t].next - 1 <= last[m]
       /\ Alone(m) => first[m] + sending[t].next - 1 = last[m]
  /\ sendRepeatSeq > 0 => \E m \in Messages \ unsent : last[m] = sendRepeatSeq

\* have[m] are the chunks that have come.
PacketsAreWanted(have) ==
  \A p \in data : \E m \in Messages : \E i \in All(m) : \E s \in Nat :
    /\ p = Packet(m, i, s) /\ Sent(m, i)
    /\ first[m] + i <= s /\ s <= last[m]
    /\ Alone(m) => s = first[m] + i /\ i \notin have[m]
HaveIsSent(have) == \A m \in Messages : \A i \in have[m] : i \in All(m) /\ Sent(m, i)
NoneIsLost(have) ==
  \A m \in Messages \ dropped : \A i \in All(m) :
    Sent(m, i) => i \in have[m] \/ \E p \in data : p.msg = m /\ p.chunk = i

\* A message sent alone has a record at its first number, and only while some
\* of its chunks have come and some have not.  Any other record lies among the
\* numbers of a message that is not alone, and holds chunks of such messages.
Collecting(m, have) == Chunked(m) /\ have[m] # {} /\ have[m] # All(m)
OwnRecords(have) ==
  \A m \in Messages : Alone(m) /\ Collecting(m, have) =>
    first[m] \in DOMAIN chunckPackets /\ chunckPackets[first[m]] = Record(m, have[m])
RecordsInSpan(have) ==
  \A s \in DOMAIN chunckPackets : s \in Int /\ \E m \in Messages :
    /\ Chunked(m) /\ Spans(m, s)
    /\ Alone(m) => s = first[m] /\ Collecting(m, have)
IsChunkAt(chunk, s) == chunk[1] \in Messages /\ Chunked(chunk[1]) /\ Spans(chunk[1], s)
HoldsChunksAt(cp, s) ==
  /\ DOMAIN cp.buffers = Bits
  /\ \A b \in Bits : cp.buffers[b] # nullptr => IsChunkAt(cp.buffers[b], s)
ChunksInSpan == \A s \in DOMAIN chunckPackets : HoldsChunksAt(chunckPackets[s], s)
RecordsAgree(have) == OwnRecords(have) /\ RecordsInSpan(have) /\ ChunksInSpan

\* Once all have come, a message sent alone has been parsed, and only then.
ParsedTypes == \E S : parsed \in Seq(S)
ParsedAgree(have) ==
  /\ ParsedTypes
  /\ ParsedIsWhole
  /\ \A m \in Messages : Alone(m) =>
       (have[m] = All(m) <=> \E k \in 1 .. Len(parsed) : parsed[k] = Whole(m))

ChunkState(have) ==
  /\ SenderTypes /\ NumbersFollow
  /\ PacketsAreWanted(have) /\ HaveIsSent(have) /\ NoneIsLost(have)
  /\ RecordsAgree(have) /\ ParsedAgree(have)

ChunkInv == \E have \in [Messages -> SUBSET Int] : ChunkState(have)

-----------------------------------------------------------------------------
(* Flags and records                                                       *)

\* The lowest bit of a chunk's flag is its index.
LEMMA LowestIsIndex ==
  ASSUME NEW m \in Messages, Chunks[m] <= FlagBits, NEW i \in All(m)
  PROVE  /\ i \in ChunkFlag(i, Chunks[m]) /\ ChunkFlag(i, Chunks[m]) \subseteq Bits
         /\ Lowest(ChunkFlag(i, Chunks[m])) = i
         /\ EndBit \in ChunkFlag(i, Chunks[m]) <=> i = Chunks[m] - 1
<1> DEFINE flag == ChunkFlag(i, Chunks[m])
<1>1. Chunks[m] \in Nat /\ Chunks[m] > 0 /\ FlagBits \in Nat /\ Chunks[m] <= FlagBits
  BY ChunkAssumption
<1>2. i \in Nat /\ i < Chunks[m]
  BY <1>1 DEF All
<1>3. i \in flag /\ flag \subseteq Bits /\ \A b \in flag : i <= b
  BY <1>1, <1>2 DEF ChunkFlag, Bits
<1>4. EndBit \in flag <=> i = Chunks[m] - 1
  BY <1>1, <1>2 DEF ChunkFlag, Bits, EndBit
<1>5. Lowest(flag) = i
  <2> HIDE DEF flag
  <2>1. flag # {} /\ \A b \in flag : b \in Int
    BY <1>1, <1>3 DEF Bits
  <2>2. \A b \in flag : (\A c \in flag : b <= c) => b = i
    BY <1>2, <1>3, <2>1
  <2> QED
    BY <1>3, <2>1, <2>2 DEF Lowest
<1> QED
  BY <1>3, <1>4, <1>5

\* Flags of different chunks of a message have no bit in common.
LEMMA FlagsAreDisjoint ==
  ASSUME NEW m \in Messages, Chunks[m] <= FlagBits, NEW i \in All(m), NEW j \in All(m), i # j
  PROVE  ChunkFlag(i, Chunks[m]) \cap ChunkFlag(j, Chunks[m]) = {}
<1>1. Chunks[m] \in Nat /\ FlagBits \in Nat /\ i \in Nat /\ j \in Nat
      /\ i < Chunks[m] /\ j < Chunks[m]
  BY ChunkAssumption DEF All
<1> QED
  BY <1>1 DEF ChunkFlag, Bits

\* Sets of chunks are finite.
LEMMA ChunksAreFinite ==
  ASSUME NEW m \in Messages, NEW have \in SUBSET All(m)
  PROVE  IsFiniteSet(have) /\ IsFiniteSet(All(m)) /\ Cardinality(All(m)) = Chunks[m]
<1>1. Chunks[m] \in Nat /\ Chunks[m] > 0
  BY ChunkAssumption
<1>2. IsFiniteSet(All(m)) /\ Cardinality(All(m)) = Chunks[m]
  <2>1. PICK n \in Int : n = Chunks[m] - 1
    BY <1>1
  <2>2. /\ IsFiniteSet(0 .. n)
        /\ Cardinality(0 .. n) = IF 0 > n THEN 0 ELSE n - 0 + 1
    <3>1. 0 \in Int /\ n \in Int
      BY <2>1
    <3> QED
      BY <3>1, FS_Interval, Zenon
  <2> QED
    BY <1>1, <2>1, <2>2 DEF All
<1> QED
  BY <1>2, FS_Subset

\* A record of no chunk is a new one.
LEMMA EmptyRecord ==
  ASSUME NEW m \in Messages PROVE Record(m, {}) = NewChunkPacket
<1>1. Cardinality({}) = 0
  BY FS_EmptySet
<1>2. {b \in Bits : \E i \in {} : b \in ChunkFlag(i, Chunks[m])} = {}
  OBVIOUS
<1>3. (Chunks[m] - 1 \in {}) = FALSE
  OBVIOUS
<1>4. [b \in Bits |-> IF b \in {} THEN <<m, b>> ELSE nullptr] = [b \in Bits |-> nullptr]
  OBVIOUS
<1> QED
  BY <1>1, <1>2, <1>3, <1>4, Zenon DEF Record, NewChunkPacket

\* SetBuffer adds a chunk that has not come before.
LEMMA RecordGrows ==
  ASSUME NEW m \in Messages, Chunks[m] <= FlagBits, NEW have \in SUBSET All(m), NEW i \in All(m) \ have,
         NEW s
  PROVE  SetBuffer(Record(m, have), Packet(m, i, s)) = Record(m, have \cup {i})
<1> DEFINE p == Packet(m, i, s)
           cp == Record(m, have)
           flag == ChunkFlag(i, Chunks[m])
<1>1. /\ i \in flag /\ flag \subseteq Bits /\ Lowest(flag) = i
      /\ EndBit \in flag <=> i = Chunks[m] - 1
  BY LowestIsIndex
<1>2. p.flag = flag /\ p.msg = m /\ p.chunk = i
  BY DEF Packet
<1>3. cp.flag \cap flag = {}
  BY FlagsAreDisjoint DEF Record
<1>4. /\ cp.flag \cup flag
           = {b \in Bits : \E j \in have \cup {i} : b \in ChunkFlag(j, Chunks[m])}
      /\ (cp.isEnd \/ EndBit \in flag) = (Chunks[m] - 1 \in have \cup {i})
  <2>1. cp.flag = {b \in Bits : \E j \in have : b \in ChunkFlag(j, Chunks[m])}
    BY DEF Record
  <2>2. cp.isEnd = (Chunks[m] - 1 \in have)
    BY DEF Record
  <2>3. cp.flag \cup flag
          = {b \in Bits : \E j \in have \cup {i} : b \in ChunkFlag(j, Chunks[m])}
    <3> HIDE DEF cp
    <3> QED
      BY <1>1, <2>1
  <2>4. (cp.isEnd \/ EndBit \in flag) = (Chunks[m] - 1 \in have \cup {i})
    <3> HIDE DEF cp, flag
    <3>1. (Chunks[m] - 1 \in have \/ EndBit \in flag) <=> Chunks[m] - 1 \in have \cup {i}
      BY <1>1
    <3>2. (cp.isEnd \/ EndBit \in flag) = (Chunks[m] - 1 \in have \/ EndBit \in flag)
      BY <2>2
    <3> QED
      BY <3>1, <3>2
  <2> QED
    BY <2>3, <2>4
<1>5. cp.count + 1 = Cardinality(have \cup {i})
  <2>1. Cardinality(have \cup {i}) = Cardinality(have) + 1
    BY ChunksAreFinite, FS_AddElement
  <2> QED
    BY <2>1 DEF Record
<1>6. [cp.buffers EXCEPT ![i] = <<m, i>>]
        = [b \in Bits |-> IF b \in have \cup {i} THEN <<m, b>> ELSE nullptr]
  BY <1>1 DEF Record
<1>7. SetBuffer(cp, p) = [flag |-> cp.flag \cup flag, count |-> cp.count + 1,
                          isEnd |-> cp.isEnd \/ EndBit \in flag,
                          buffers |-> [cp.buffers EXCEPT ![i] = <<m, i>>]]
  <2> HIDE DEF cp, p, flag
  <2> QED
    BY <1>1, <1>2, <1>3 DEF SetBuffer
<1> QED
  BY <1>4, <1>5, <1>6, <1>7 DEF Record

\* IsPull says whether all chunks have come.
LEMMA PullWhenWhole ==
  ASSUME NEW m \in Messages, Chunks[m] <= FlagBits, NEW have \in SUBSET All(m)
  PROVE  IsPull(Record(m, have)) <=> have = All(m)
<1>1. Chunks[m] \in Nat /\ Chunks[m] > 0 /\ FlagBits \in Nat /\ Chunks[m] <= FlagBits
  BY ChunkAssumption
<1>2. ASSUME have = All(m) PROVE IsPull(Record(m, have))
  <2>1. Chunks[m] - 1 \in have
    BY <1>1, <1>2 DEF All
  <2>2. ASSUME NEW b \in Bits PROVE \E i \in have : b \in ChunkFlag(i, Chunks[m])
    <3>1. b \in Nat /\ b < FlagBits
      BY <1>1 DEF Bits
    <3>2. CASE b < Chunks[m] - 1
      <4>1. b \in have /\ b \in ChunkFlag(b, Chunks[m])
        BY <1>1, <1>2, <3>1, <3>2 DEF ChunkFlag, All
      <4> QED
        BY <4>1
    <3>3. CASE ~(b < Chunks[m] - 1)
      <4>1. b \in ChunkFlag(Chunks[m] - 1, Chunks[m])
        BY <1>1, <3>1, <3>3 DEF ChunkFlag
      <4> QED
        BY <2>1, <4>1
    <3> QED
      BY <3>2, <3>3
  <2> QED
    BY <2>1, <2>2 DEF IsPull, Record
<1>3. ASSUME IsPull(Record(m, have)) PROVE have = All(m)
  <2>1. Chunks[m] - 1 \in have
    BY <1>3 DEF IsPull, Record
  <2>2. \A b \in Bits : \E i \in have : b \in ChunkFlag(i, Chunks[m])
    BY <1>3 DEF IsPull, Record
  <2>3. ASSUME NEW b \in All(m) PROVE b \in have
    <3>1. b \in Nat /\ b < Chunks[m] /\ b \in Bits
      BY <1>1 DEF All, Bits
    <3>2. PICK i \in have : b \in ChunkFlag(i, Chunks[m])
      BY <2>2, <3>1
    <3>3. i \in Nat /\ (i = b \/ (i = Chunks[m] - 1 /\ b >= i))
      BY <1>1, <3>2 DEF ChunkFlag, All
    <3> QED
      BY <1>1, <2>1, <3>1, <3>3
  <2> QED
    BY <2>3
<1> QED
  BY <1>2, <1>3

\* What is parsed then is the message.
LEMMA ParsesWhole ==
  ASSUME NEW m \in Messages, Chunks[m] <= FlagBits, NEW cp, cp = Record(m, All(m))
  PROVE  Assembled(cp) = Whole(m)
<1>1. Chunks[m] \in Nat /\ FlagBits \in Nat /\ Chunks[m] <= FlagBits
  BY ChunkAssumption
<1>2. cp.count = Chunks[m]
  BY ChunksAreFinite DEF Record
<1>3. ASSUME NEW i \in 1 .. Chunks[m] PROVE cp.buffers[i - 1] = <<m, i - 1>>
  <2>1. i - 1 \in Bits /\ i - 1 \in All(m)
    BY <1>1 DEF Bits, All
  <2> QED
    BY <2>1 DEF Record
<1>4. \A i \in 1 .. Chunks[m] : i - 1 \in Bits
  BY <1>1 DEF Bits
<1> QED
  BY <1>2, <1>3, <1>4 DEF Whole, Assembled

-----------------------------------------------------------------------------
(* Numbers                                                                 *)

\* No other message has a number among those of a chunked message sent alone.
LEMMA NoSharedNumber ==
  ASSUME SenderTypes, NEW m \in Messages, NEW n \in Messages, Alone(m), Chunked(m),
         NEW s \in Int, Spans(m, s), Spans(n, s)
  PROVE  m = n
<1> SUFFICES ASSUME m # n PROVE FALSE
  OBVIOUS
<1>1. Apart(m, n)
  BY ChunkAssumption DEF Alone, Chunked
<1>2. first[m] \in Nat /\ first[n] \in Nat /\ last[m] \in Nat /\ last[n] \in Nat
  BY DEF SenderTypes
<1> QED
  BY <1>1, <1>2 DEF Apart, Spans

\* The lowest bit of chunk i's flag is i, or 0 if the flag is empty.
LEMMA LowestAtMost ==
  ASSUME NEW m \in Messages, NEW i \in All(m)
  PROVE  /\ i \in Nat
         /\ Lowest(ChunkFlag(i, Chunks[m])) \in 0 .. i
         /\ ChunkFlag(i, Chunks[m]) # {} => Lowest(ChunkFlag(i, Chunks[m])) \in Bits
<1> DEFINE flag == ChunkFlag(i, Chunks[m])
<1>1. Chunks[m] \in Nat /\ FlagBits \in Nat /\ i \in Nat
  BY ChunkAssumption DEF All
<1>2. flag \subseteq Bits /\ flag \subseteq Nat /\ (flag # {} => i \in flag) /\ \A b \in flag : i <= b
  BY <1>1 DEF ChunkFlag, Bits
<1>3. flag = {} => Lowest(flag) = 0
  BY DEF Lowest
<1>4. flag # {} => Lowest(flag) = i
  <2> HIDE DEF flag
  <2> SUFFICES ASSUME flag # {} PROVE Lowest(flag) = i
    OBVIOUS
  <2>1. \A b \in flag : (\A c \in flag : b <= c) => b = i
    BY <1>1, <1>2
  <2> QED
    BY <1>2, <2>1 DEF Lowest
<1> QED
  BY <1>1, <1>2, <1>3, <1>4

\* The number a chunk's flag leads to is one of its message.
LEMMA StartIsSpanned ==
  ASSUME SenderTypes, NEW m \in Messages, NEW i \in All(m), NEW s \in Nat,
         first[m] + i <= s, s <= last[m]
  PROVE  /\ StartSequnceNum(s, ChunkFlag(i, Chunks[m])) \in Int
         /\ Spans(m, StartSequnceNum(s, ChunkFlag(i, Chunks[m])))
<1>1. PICK l \in Int : l = Lowest(ChunkFlag(i, Chunks[m])) /\ 0 <= l /\ l <= i /\ i \in Nat
  BY LowestAtMost
<1>2. first[m] \in Nat /\ last[m] \in Nat
  BY DEF SenderTypes
<1> QED
  BY <1>1, <1>2 DEF StartSequnceNum, Spans

-----------------------------------------------------------------------------
(* What has been parsed                                                    *)

\* Append adds one entry to `parsed` and keeps the others.
LEMMA ParsedGrows ==
  ASSUME ParsedTypes, NEW x, parsed' = Append(parsed, x)
  PROVE  /\ ParsedTypes'
         /\ Len(parsed) \in Nat
         /\ Len(parsed') = Len(parsed) + 1
         /\ \A k \in 1 .. Len(parsed) : parsed'[k] = parsed[k]
         /\ parsed'[Len(parsed) + 1] = x
<1>1. PICK S : parsed \in Seq(S)
  BY DEF ParsedTypes
<1>2. PICK T : T = S \cup {x}
  OBVIOUS
<1>3. parsed \in Seq(T) /\ x \in T
  BY <1>1, <1>2, SeqMonotonic
<1>4. /\ parsed' \in Seq(T) /\ Len(parsed') = Len(parsed) + 1 /\ Len(parsed) \in Nat
      /\ \A k \in 1 .. Len(parsed) : parsed'[k] = parsed[k]
      /\ parsed'[Len(parsed) + 1] = x
  BY <1>3, AppendProperties, LenProperties
<1> QED
  BY <1>4 DEF ParsedTypes

-----------------------------------------------------------------------------
(* Sending                                                                 *)

\* At the start nothing has been sent.
LEMMA ChunkStart == Init => ChunkInv
<1> SUFFICES ASSUME Init PROVE ChunkInv
  OBVIOUS
<1> DEFINE have == [m \in Messages |-> {}]
<1>1. have \in [Messages -> SUBSET Int]
  OBVIOUS
<1>2. SenderTypes
  BY DEF Init, SenderTypes, Idle
<1>3. NumbersFollow
  BY DEF Init, NumbersFollow, Idle
<1>4. PacketsAreWanted(have) /\ HaveIsSent(have) /\ NoneIsLost(have)
  BY DEF Init, PacketsAreWanted, HaveIsSent, NoneIsLost, Sent
<1>5. RecordsAgree(have)
  BY DEF Init, RecordsAgree, OwnRecords, RecordsInSpan, ChunksInSpan, Collecting
<1>6. ParsedAgree(have)
  <2>1. parsed = << >> /\ Len(parsed) = 0 /\ parsed \in Seq({})
    BY DEF Init
  <2>2. \A m \in Messages : 0 \in All(m)
    BY ChunkAssumption DEF All
  <2> QED
    BY <2>1, <2>2 DEF ParsedAgree, ParsedTypes, ParsedIsWhole
<1>7. ChunkState(have)
  BY <1>2, <1>3, <1>4, <1>5, <1>6 DEF ChunkState
<1> QED
  BY <1>1, <1>7 DEF ChunkInv

\* What one call of SendPacket does to the sender, the history and the set of
\* packets: chunk i of message m takes the next number s.
SendsChunk(t, m, i, s) ==
  /\ m \in Messages /\ i \in All(m) /\ s \in Nat /\ s = sendRepeatSeq + 1
  /\ \/ m \in unsent /\ i = 0 /\ sending[t].msg = {}
     \/ m \notin unsent /\ i > 0 /\ sending[t].msg = {m} /\ sending[t].next = i
  /\ unsent' = unsent \ {m}
  /\ sendRepeatSeq' = s
  /\ DOMAIN sending' = Threads
  /\ sending'[t] = IF i + 1 = Chunks[m] THEN Idle ELSE [msg |-> {m}, next |-> i + 1]
  /\ \A u \in Threads \ {t} : sending'[u] = sending[u] /\ m \notin sending[u].msg
  /\ first' \in [Messages -> Nat] /\ last' \in [Messages -> Nat]
  /\ first'[m] = (IF i = 0 THEN s ELSE first[m]) /\ last'[m] = s
  /\ \A n \in Messages \ {m} : first'[n] = first[n] /\ last'[n] = last[n]
  /\ \/ data' = data \cup {Packet(m, i, s)} /\ dropped' = dropped
     \/ data' = data /\ dropped' = dropped \cup {m}
  /\ UNCHANGED <<chunckPackets, parsed>>

LEMMA SendPacketSends ==
  ASSUME SenderTypes, NEW t \in Threads, SendPacket(t)
  PROVE  \E m \in Messages : \E i \in All(m) : \E s \in Nat : SendsChunk(t, m, i, s)
<1>1. PICK m : /\ m \in IF sending[t] = Idle THEN unsent ELSE sending[t].msg
               /\ SendPacket(t)!(m)
  BY Zenon DEF SendPacket
<1> DEFINE i == sending[t].next
<1>2. PICK s : s = sendRepeatSeq + 1
  OBVIOUS
<1>3. s \in Nat /\ DOMAIN sending = Threads /\ unsent \subseteq Messages
  BY <1>2 DEF SenderTypes
<1>4. /\ m \in Messages /\ i \in All(m)
      /\ \/ m \in unsent /\ i = 0 /\ sending[t].msg = {}
         \/ m \notin unsent /\ i > 0 /\ sending[t].msg = {m}
  <2>1. CASE sending[t] = Idle
    <3>1. m \in unsent /\ i = 0 /\ sending[t].msg = {}
      BY <1>1, <2>1 DEF Idle
    <3>2. 0 \in All(m)
      BY <1>3, <3>1, ChunkAssumption DEF All
    <3> QED
      BY <1>3, <3>1, <3>2
  <2>2. CASE sending[t] # Idle
    <3>0. PICK n \in Messages \ unsent : \E j \in All(n) \ {0} : sending[t] = [msg |-> {n}, next |-> j]
      BY <2>2 DEF SenderTypes
    <3>1. PICK j \in All(n) \ {0} : sending[t] = [msg |-> {n}, next |-> j]
      BY <3>0
    <3>2. m = n /\ i = j
      BY <1>1, <2>2, <3>1
    <3>3. j > 0
      BY ChunkAssumption DEF All
    <3> QED
      BY <3>1, <3>2, <3>3
  <2> QED
    BY <2>1, <2>2
<1>5. \A u \in Threads \ {t} : m \notin sending[u].msg
  <2> SUFFICES ASSUME NEW u \in Threads \ {t}, m \in sending[u].msg PROVE FALSE
    OBVIOUS
  <2>1. sending[u] # Idle
    BY DEF Idle
  <2>2. PICK n \in Messages \ unsent : \E j \in All(n) \ {0} : sending[u] = [msg |-> {n}, next |-> j]
    BY <2>1 DEF SenderTypes
  <2>3. m = n
    BY <2>2
  <2> QED
    BY <1>4, <2>3 DEF SenderTypes
<1>6. /\ unsent' = unsent \ {m} /\ sendRepeatSeq' = s /\ UNCHANGED <<chunckPackets, parsed>>
      /\ sending' = [sending EXCEPT ![t] =
                       IF i + 1 = Chunks[m] THEN Idle ELSE [msg |-> {m}, next |-> i + 1]]
  BY <1>1, <1>2
<1>7. /\ first' = IF i = 0 THEN [first EXCEPT ![m] = s] ELSE first
      /\ last' = [last EXCEPT ![m] = s]
  BY <1>1, <1>2
<1>8. \/ data' = data \cup {Packet(m, i, s)} /\ dropped' = dropped
      \/ data' = data /\ dropped' = dropped \cup {m}
  BY <1>1, <1>2 DEF Packet
<1>9. /\ first' \in [Messages -> Nat] /\ last' \in [Messages -> Nat]
      /\ first'[m] = (IF i = 0 THEN s ELSE first[m]) /\ last'[m] = s
      /\ \A n \in Messages \ {m} : first'[n] = first[n] /\ last'[n] = last[n]
  BY <1>3, <1>4, <1>7 DEF SenderTypes
<1>10. /\ DOMAIN sending' = Threads
       /\ sending'[t] = IF i + 1 = Chunks[m] THEN Idle ELSE [msg |-> {m}, next |-> i + 1]
       /\ \A u \in Threads \ {t} : sending'[u] = sending[u]
  BY <1>3, <1>6
<1> HIDE DEF i
<1>11. SendsChunk(t, m, i, s)
  BY <1>2, <1>3, <1>4, <1>5, <1>6, <1>8, <1>9, <1>10 DEF SendsChunk, i
<1> QED
  BY <1>3, <1>4, <1>11

\* A message that is alone after a packet was sent was alone before.
LEMMA AloneBefore ==
  ASSUME SenderTypes, NumbersFollow, NEW t \in Threads, NEW k \in Messages, NEW i, NEW s,
         SendsChunk(t, k, i, s), NEW m \in Messages, Alone(m)'
  PROVE  Alone(m)
<1> SUFFICES ASSUME NEW n \in Messages \ {m}, Apart(m, n)' PROVE Apart(m, n)
  BY DEF Alone
<1>1. /\ first \in [Messages -> Nat] /\ last \in [Messages -> Nat] /\ sendRepeatSeq \in Nat
      /\ \A x \in Messages : /\ x \in unsent => first[x] = 1 /\ last[x] = 0
                             /\ x \notin unsent => 1 <= first[x] /\ first[x] <= last[x]
                             /\ last[x] <= sendRepeatSeq
  BY DEF SenderTypes, NumbersFollow
<1>2. s = sendRepeatSeq + 1 /\ s \in Nat
  BY DEF SendsChunk
<1>3. \A x \in Messages : /\ x \in unsent \/ first'[x] = first[x]
                          /\ last[x] <= last'[x]
  BY <1>1, <1>2 DEF SendsChunk, All
<1>4. \A x \in Messages : first[x] >= 1
  BY <1>1
<1>5. last[m] <= last'[m] /\ last[n] <= last'[n] /\ {first[m], last[m], first[n], last[n]} \subseteq Nat
      /\ {first'[m], last'[m], first'[n], last'[n]} \subseteq Nat
  BY <1>1, <1>3 DEF SendsChunk
<1>6. CASE m \in unsent \/ n \in unsent
  BY <1>1, <1>4, <1>5, <1>6 DEF Apart
<1>7. CASE m \notin unsent /\ n \notin unsent
  BY <1>3, <1>5, <1>7 DEF Apart
<1> QED
  BY <1>6, <1>7

\* Exactly the chunk that was sent is now among those that were.
LEMMA SentGrows ==
  ASSUME SenderTypes, NEW t \in Threads, NEW m \in Messages, NEW i, NEW s,
         SendsChunk(t, m, i, s)
  PROVE  /\ ~Sent(m, i)
         /\ \A n \in Messages : \A j \in All(n) :
              Sent(n, j)' <=> Sent(n, j) \/ (n = m /\ j = i)
<1>0. Chunks[m] \in Nat /\ i \in Nat /\ i < Chunks[m]
  BY ChunkAssumption DEF SendsChunk, All
<1>1. ASSUME NEW n \in Messages \ {m}, NEW j \in All(n) PROVE Sent(n, j)' <=> Sent(n, j)
  <2>1. n \notin sending[t].msg /\ n \notin sending'[t].msg
    BY DEF SendsChunk, Idle
  <2>2. n \in unsent' <=> n \in unsent
    BY DEF SendsChunk
  <2>3. \A u \in Threads \ {t} : sending'[u] = sending[u]
    BY DEF SendsChunk
  <2> QED
    BY <2>1, <2>2, <2>3 DEF Sent
<1>2. ASSUME NEW j \in All(m) PROVE Sent(m, j) <=> j < i
  <2>1. j \in Nat
    BY ChunkAssumption DEF All
  <2>2. CASE m \in unsent
    BY <2>1, <2>2 DEF SendsChunk, Sent
  <2>3. CASE m \notin unsent
    <3>1. sending[t].msg = {m} /\ sending[t].next = i
      BY <2>3 DEF SendsChunk
    <3>2. \A u \in Threads \ {t} : m \notin sending[u].msg
      BY DEF SendsChunk
    <3> QED
      BY <2>3, <3>1, <3>2 DEF Sent
  <2> QED
    BY <2>2, <2>3
<1>3. ASSUME NEW j \in All(m) PROVE Sent(m, j)' <=> j <= i
  <2>1. j \in Nat /\ j < Chunks[m]
    BY ChunkAssumption DEF All
  <2>2. m \notin unsent' /\ \A u \in Threads \ {t} : m \notin sending'[u].msg
    BY DEF SendsChunk
  <2>3. CASE i + 1 = Chunks[m]
    <3>1. m \notin sending'[t].msg
      BY <2>3 DEF SendsChunk, Idle
    <3>2. j <= i
      BY <1>0, <2>1, <2>3
    <3> QED
      BY <2>2, <3>1, <3>2 DEF Sent
  <2>4. CASE i + 1 # Chunks[m]
    <3>1. sending'[t].msg = {m} /\ sending'[t].next = i + 1
      BY <2>4 DEF SendsChunk
    <3>2. j < i + 1 <=> j <= i
      BY <1>0, <2>1
    <3> QED
      BY <2>2, <3>1, <3>2 DEF Sent
  <2> QED
    BY <2>3, <2>4
<1>4. i \in All(m)
  BY DEF SendsChunk
<1>5. ASSUME NEW j \in All(m) PROVE Sent(m, j)' <=> Sent(m, j) \/ j = i
  <2>1. j \in Nat
    BY ChunkAssumption DEF All
  <2> QED
    BY <1>0, <1>2, <1>3, <2>1
<1> QED
  BY <1>0, <1>1, <1>2, <1>4, <1>5

\* The newest number was given to this message, if it is alone.
LEMMA NumbersStep ==
  ASSUME SenderTypes, NumbersFollow, NEW t \in Threads, NEW m \in Messages, NEW i, NEW s,
         SendsChunk(t, m, i, s)
  PROVE  SenderTypes' /\ NumbersFollow' /\ first'[m] + i <= s /\ (Alone(m)' => s = first'[m] + i)
<1>0. /\ Chunks[m] \in Nat /\ i \in Nat /\ i < Chunks[m] /\ i \in All(m)
      /\ s = sendRepeatSeq + 1 /\ sendRepeatSeq \in Nat /\ s \in Nat
  BY ChunkAssumption DEF SendsChunk, All, SenderTypes
<1>1. /\ first \in [Messages -> Nat] /\ last \in [Messages -> Nat]
      /\ first' \in [Messages -> Nat] /\ last' \in [Messages -> Nat]
      /\ \A x \in Messages : /\ x \in unsent => first[x] = 1 /\ last[x] = 0
                             /\ x \notin unsent => 1 <= first[x] /\ first[x] <= last[x]
                             /\ last[x] <= sendRepeatSeq
  BY DEF SenderTypes, NumbersFollow, SendsChunk
<1>2. i > 0 => /\ m \notin unsent /\ sending[t].msg = {m} /\ sending[t].next = i
               /\ first[m] + i - 1 <= last[m] /\ (Alone(m) => first[m] + i - 1 = last[m])
  BY <1>0 DEF SendsChunk, NumbersFollow
<1>3. first'[m] + i <= s /\ 1 <= first'[m] /\ last'[m] = s
  BY <1>0, <1>1, <1>2 DEF SendsChunk
<1>4. ASSUME Alone(m)' PROVE s = first'[m] + i
  <2>1. CASE i = 0
    BY <1>0, <2>1 DEF SendsChunk
  <2>2. CASE i > 0
    <3>1. last[m] >= 1 /\ sendRepeatSeq > 0
      BY <1>0, <1>1, <1>2, <2>2
    <3>2. PICK n \in Messages \ unsent : last[n] = sendRepeatSeq
      BY <3>1 DEF NumbersFollow
    <3>3. n = m
      <4> SUFFICES ASSUME n # m PROVE FALSE
        OBVIOUS
      <4>1. Apart(m, n)'
        BY <1>0, <1>4, <2>2, ChunkAssumption DEF Alone
      <4>2. first'[n] = first[n] /\ last'[n] = last[n] /\ first'[m] = first[m]
        BY <1>0, <2>2 DEF SendsChunk
      <4> QED
        BY <1>0, <1>1, <1>2, <1>3, <2>2, <3>2, <4>1, <4>2 DEF Apart
    <3>4. Alone(m)
      BY <1>4, AloneBefore
    <3>5. first'[m] = first[m]
      BY <1>0, <2>2 DEF SendsChunk
    <3> QED
      BY <1>0, <1>1, <1>2, <2>2, <3>2, <3>3, <3>4, <3>5
  <2> QED
    BY <1>0, <2>1, <2>2
<1>5. SenderTypes'
  <2>1. ASSUME NEW u \in Threads, sending'[u] # Idle
        PROVE  \E n \in Messages \ unsent' : \E j \in All(n) \ {0} :
                 sending'[u] = [msg |-> {n}, next |-> j]
    <3>1. CASE u = t
      <4>1. i + 1 # Chunks[m] /\ sending'[u] = [msg |-> {m}, next |-> i + 1]
        BY <2>1, <3>1 DEF SendsChunk
      <4>2. i + 1 \in All(m) \ {0} /\ m \notin unsent'
        BY <1>0, <4>1 DEF All, SendsChunk
      <4> QED
        BY <4>1, <4>2
    <3>2. CASE u # t
      <4>1. sending'[u] = sending[u] /\ unsent' = unsent \ {m}
        BY <3>2 DEF SendsChunk
      <4> QED
        BY <2>1, <4>1 DEF SenderTypes
    <3> QED
      BY <3>1, <3>2
  <2>2. ASSUME NEW u \in Threads, NEW v \in Threads, NEW n \in sending'[u].msg,
               n \in sending'[v].msg
        PROVE  u = v
    <3>1. \A w \in Threads \ {t} : sending'[w] = sending[w] /\ m \notin sending[w].msg
      BY DEF SendsChunk
    <3>2. sending'[t].msg \subseteq {m}
      BY DEF SendsChunk, Idle
    <3> QED
      BY <2>2, <3>1, <3>2 DEF SenderTypes
  <2>3. sendRepeatSeq' \in Nat /\ DOMAIN sending' = Threads /\ unsent' \subseteq Messages
    BY DEF SendsChunk, SenderTypes
  <2> QED
    BY <1>1, <2>1, <2>2, <2>3 DEF SenderTypes, All
<1>6. NumbersFollow'
  <2>1. \A x \in unsent' : first'[x] = 1 /\ last'[x] = 0
    BY <1>1 DEF SendsChunk, SenderTypes
  <2>2. \A x \in Messages \ unsent' :
          1 <= first'[x] /\ first'[x] <= last'[x] /\ last'[x] <= sendRepeatSeq'
    BY <1>0, <1>1, <1>3 DEF SendsChunk
  <2>3. ASSUME NEW u \in Threads, NEW x \in sending'[u].msg
        PROVE  /\ first'[x] + sending'[u].next - 1 <= last'[x]
               /\ Alone(x)' => first'[x] + sending'[u].next - 1 = last'[x]
    <3>1. CASE u = t
      <4>1. i + 1 # Chunks[m] /\ sending'[u] = [msg |-> {m}, next |-> i + 1]
        BY <2>3, <3>1 DEF SendsChunk, Idle
      <4>2. x = m /\ sending'[u].next = i + 1
        BY <2>3, <4>1
      <4> QED
        BY <1>0, <1>1, <1>3, <1>4, <4>2
    <3>2. CASE u # t
      <4>1. sending'[u] = sending[u] /\ x # m /\ x \in Messages
        <5>1. sending'[u] = sending[u] /\ x # m
          BY <2>3, <3>2 DEF SendsChunk
        <5>2. sending[u] # Idle
          BY <2>3, <5>1 DEF Idle
        <5> QED
          BY <2>3, <5>1, <5>2 DEF SenderTypes
      <4>2. first'[x] = first[x] /\ last'[x] = last[x]
        BY <4>1 DEF SendsChunk
      <4>3. Alone(x)' => Alone(x)
        BY <4>1, AloneBefore
      <4> QED
        BY <2>3, <4>1, <4>2, <4>3 DEF NumbersFollow
    <3> QED
      BY <3>1, <3>2
  <2>4. m \in Messages \ unsent' /\ last'[m] = sendRepeatSeq'
    BY <1>3 DEF SendsChunk
  <2> QED
    BY <2>1, <2>2, <2>3, <2>4 DEF NumbersFollow
<1> QED
  BY <1>3, <1>4, <1>5, <1>6

\* The sender's part of the invariant after a packet was sent.
LEMMA PacketsStep ==
  ASSUME SenderTypes, NumbersFollow, NEW have \in [Messages -> SUBSET Int],
         PacketsAreWanted(have), HaveIsSent(have), NoneIsLost(have),
         NEW t \in Threads, NEW m \in Messages, NEW i, NEW s, SendsChunk(t, m, i, s)
  PROVE  PacketsAreWanted(have)' /\ HaveIsSent(have)' /\ NoneIsLost(have)'
<1>1. \A n \in Messages : \A j \in All(n) : Sent(n, j)' <=> Sent(n, j) \/ (n = m /\ j = i)
  BY SentGrows
<1>2. i \notin have[m]
  BY SentGrows DEF HaveIsSent
<1>3. PacketsAreWanted(have)'
  <2> SUFFICES ASSUME NEW p \in data'
               PROVE  \E n \in Messages : \E j \in All(n) : \E r \in Nat :
                        /\ p = Packet(n, j, r) /\ Sent(n, j)'
                        /\ first'[n] + j <= r /\ r <= last'[n]
                        /\ Alone(n)' => r = first'[n] + j /\ j \notin have[n]
    BY DEF PacketsAreWanted, All, Packet, ChunkFlag
  <2>1. CASE p \in data
    <3>1. PICK n \in Messages : \E j \in All(n) : \E r \in Nat :
            /\ p = Packet(n, j, r) /\ Sent(n, j)
            /\ first[n] + j <= r /\ r <= last[n]
            /\ Alone(n) => r = first[n] + j /\ j \notin have[n]
      BY <2>1 DEF PacketsAreWanted
    <3>2. PICK j \in All(n) : \E r \in Nat :
            /\ p = Packet(n, j, r) /\ Sent(n, j)
            /\ first[n] + j <= r /\ r <= last[n]
            /\ Alone(n) => r = first[n] + j /\ j \notin have[n]
      BY <3>1
    <3>3. PICK r \in Nat :
            /\ p = Packet(n, j, r) /\ Sent(n, j)
            /\ first[n] + j <= r /\ r <= last[n]
            /\ Alone(n) => r = first[n] + j /\ j \notin have[n]
      BY <3>2
    <3>4. first'[n] = first[n] /\ r <= last'[n]
      <4>1. n \notin unsent
        BY <3>3 DEF Sent
      <4>2. last[n] <= sendRepeatSeq /\ last[n] \in Nat /\ sendRepeatSeq \in Nat
        BY <4>1 DEF NumbersFollow, SenderTypes
      <4>3. (n = m => i # 0) /\ s = sendRepeatSeq + 1
        BY <4>1 DEF SendsChunk
      <4>4. /\ first'[n] = first[n]
            /\ last'[n] = last[n] \/ last'[n] = s
        BY <4>3 DEF SendsChunk
      <4> QED
        BY <3>3, <4>2, <4>3, <4>4
    <3>5. Alone(n)' => Alone(n)
      BY AloneBefore
    <3>6. Sent(n, j)'
      BY <1>1, <3>3
    <3> QED
      BY <3>3, <3>4, <3>5, <3>6
  <2>2. CASE p = Packet(m, i, s)
    <3>1. i \in All(m) /\ s \in Nat /\ last'[m] = s
      BY DEF SendsChunk
    <3>2. s <= last'[m]
      BY <3>1
    <3>3. first'[m] + i <= s /\ (Alone(m)' => s = first'[m] + i)
      BY NumbersStep
    <3>4. Sent(m, i)'
      BY <1>1, <3>1
    <3> QED
      BY <1>2, <2>2, <3>1, <3>2, <3>3, <3>4
  <2>3. p \in data \/ p = Packet(m, i, s)
    BY DEF SendsChunk
  <2> QED
    BY <2>1, <2>2, <2>3
<1>4. HaveIsSent(have)'
  BY <1>1 DEF HaveIsSent, All
<1>5. NoneIsLost(have)'
  <2> SUFFICES ASSUME NEW n \in Messages \ dropped', NEW j \in All(n), Sent(n, j)'
               PROVE  j \in have[n] \/ \E p \in data' : p.msg = n /\ p.chunk = j
    BY DEF NoneIsLost, All
  <2>1. data \subseteq data' /\ n \in Messages \ dropped
    BY DEF SendsChunk
  <2>2. CASE Sent(n, j)
    BY <2>1, <2>2 DEF NoneIsLost
  <2>3. CASE n = m /\ j = i
    <3>1. Packet(m, i, s) \in data'
      BY <2>3 DEF SendsChunk
    <3>2. Packet(m, i, s).msg = n /\ Packet(m, i, s).chunk = j
      BY <2>3 DEF Packet
    <3> QED
      BY <3>1, <3>2
  <2> QED
    BY <1>1, <2>2, <2>3
<1> QED
  BY <1>3, <1>4, <1>5

\* The receiver's part: a message that was begun keeps its first number, and
\* its last one does not fall.
LEMMA RecordsStayInSpan ==
  ASSUME SenderTypes, NumbersFollow, NEW have \in [Messages -> SUBSET Int], HaveIsSent(have),
         RecordsAgree(have), ParsedAgree(have),
         NEW t \in Threads, NEW m \in Messages, NEW i, NEW s, SendsChunk(t, m, i, s)
  PROVE  RecordsAgree(have)' /\ ParsedAgree(have)'
<1>1. ASSUME NEW n \in Messages \ unsent PROVE first'[n] = first[n] /\ last[n] <= last'[n]
  <2>1. last[n] <= sendRepeatSeq /\ last[n] \in Nat /\ sendRepeatSeq \in Nat
    BY DEF NumbersFollow, SenderTypes
  <2>2. (n = m => i # 0) /\ s = sendRepeatSeq + 1
    BY DEF SendsChunk
  <2>3. /\ first'[n] = first[n]
        /\ last'[n] = last[n] \/ last'[n] = s
    BY <2>2 DEF SendsChunk
  <2> QED
    BY <2>1, <2>2, <2>3
<1>2. ASSUME NEW n \in Messages, NEW r \in Int, Spans(n, r)
      PROVE  n \notin unsent /\ Spans(n, r)'
  <2>1. n \notin unsent
    BY <1>2 DEF NumbersFollow, Spans
  <2>2. first'[n] = first[n] /\ last[n] <= last'[n] /\ last[n] \in Nat /\ last'[n] \in Nat
    BY <1>1, <2>1 DEF SenderTypes, SendsChunk
  <2> QED
    BY <1>2, <2>1, <2>2 DEF Spans
<1>3. \A n \in Messages : Alone(n)' => Alone(n)
  BY AloneBefore
<1>4. \A n \in Messages : have[n] # {} => n \notin unsent
  BY DEF HaveIsSent, Sent
<1>5. chunckPackets' = chunckPackets /\ parsed' = parsed
  BY DEF SendsChunk
<1>6. OwnRecords(have)'
  <2> SUFFICES ASSUME NEW n \in Messages, Alone(n)', Collecting(n, have)
               PROVE  /\ first'[n] \in DOMAIN chunckPackets
                      /\ chunckPackets[first'[n]] = Record(n, have[n])
    BY <1>5 DEF OwnRecords, Collecting, Chunked, All, Record, ChunkFlag
  <2>1. Alone(n) /\ first'[n] = first[n]
    BY <1>1, <1>3, <1>4 DEF Collecting
  <2> QED
    BY <2>1 DEF RecordsAgree, OwnRecords
<1>7. RecordsInSpan(have)'
  <2> SUFFICES ASSUME NEW r \in DOMAIN chunckPackets
               PROVE  r \in Int /\ \E n \in Messages :
                        /\ Chunked(n) /\ Spans(n, r)'
                        /\ Alone(n)' => r = first'[n] /\ Collecting(n, have)
    BY <1>5 DEF RecordsInSpan, Collecting, Chunked, All
  <2>1. r \in Int
    BY DEF RecordsAgree, RecordsInSpan
  <2>2. PICK n \in Messages : /\ Chunked(n) /\ Spans(n, r)
                              /\ Alone(n) => r = first[n] /\ Collecting(n, have)
    BY DEF RecordsAgree, RecordsInSpan
  <2>3. Spans(n, r)' /\ first'[n] = first[n]
    BY <1>1, <1>2, <2>1, <2>2
  <2> QED
    BY <1>3, <2>1, <2>2, <2>3
<1>8. ChunksInSpan'
  <2> SUFFICES ASSUME NEW r \in DOMAIN chunckPackets
               PROVE  HoldsChunksAt(chunckPackets[r], r)'
    BY <1>5 DEF ChunksInSpan
  <2>1. r \in Int /\ HoldsChunksAt(chunckPackets[r], r)
    BY DEF RecordsAgree, RecordsInSpan, ChunksInSpan
  <2>2. \A chunk : IsChunkAt(chunk, r) => IsChunkAt(chunk, r)'
    BY <1>2, <2>1 DEF IsChunkAt, Chunked
  <2> QED
    BY <1>5, <2>1, <2>2 DEF HoldsChunksAt, Bits
<1>9. ParsedAgree(have)'
  <2>1. ParsedTypes'
    BY <1>5 DEF ParsedAgree, ParsedTypes
  <2>2. ParsedIsWhole'
    BY <1>3, <1>5 DEF ParsedAgree, ParsedIsWhole, HandedTo, Whole
  <2> QED
    BY <1>3, <1>5, <2>1, <2>2 DEF ParsedAgree, Whole, All
<1> QED
  BY <1>6, <1>7, <1>8, <1>9 DEF RecordsAgree

\* SendPacket keeps the invariant.
LEMMA SendPacketStep ==
  ASSUME ChunkInv, NEW t \in Threads, SendPacket(t)
  PROVE  ChunkInv'
<1>1. PICK have \in [Messages -> SUBSET Int] : ChunkState(have)
  BY DEF ChunkInv
<1>2. SenderTypes /\ NumbersFollow
  BY <1>1 DEF ChunkState
<1>3. PICK m \in Messages : \E i \in All(m) : \E s \in Nat : SendsChunk(t, m, i, s)
  BY <1>2, SendPacketSends
<1>4. PICK i \in All(m) : \E s \in Nat : SendsChunk(t, m, i, s)
  BY <1>3
<1>5. PICK s \in Nat : SendsChunk(t, m, i, s)
  BY <1>4
<1>6. SenderTypes' /\ NumbersFollow'
  BY <1>2, <1>5, NumbersStep
<1>7. PacketsAreWanted(have)' /\ HaveIsSent(have)' /\ NoneIsLost(have)'
  BY <1>1, <1>2, <1>5, PacketsStep DEF ChunkState
<1>8. RecordsAgree(have)' /\ ParsedAgree(have)'
  BY <1>1, <1>2, <1>5, RecordsStayInSpan DEF ChunkState
<1>9. ChunkState(have)'
  BY <1>6, <1>7, <1>8 DEF ChunkState
<1> QED
  BY <1>9 DEF ChunkInv

-----------------------------------------------------------------------------
(* Parsing                                                                 *)

\* What is parsed holds a chunk of m.
Holds(x, m) == \E i \in DOMAIN x : x[i] # nullptr /\ x[i][1] = m

\* A message holds its own chunks and no other's.
LEMMA WholeHoldsOwn ==
  ASSUME NEW m \in Messages, NEW n
  PROVE  Holds(Whole(m), n) <=> n = m
<1>1. 1 \in 1 .. Chunks[m] /\ 0 \in All(m)
  BY ChunkAssumption DEF All
<1>2. \A c : <<m, c>> # nullptr /\ <<m, c>>[1] = m
  <2>1. ASSUME NEW c PROVE <<m, c>> # nullptr
    <3>1. Len(<<m, c>>) = 2 /\ Len(nullptr) = 0
      BY DEF nullptr
    <3> QED
      BY <3>1
  <2> QED
    BY <2>1
<1>3. DOMAIN Whole(m) = 1 .. Chunks[m] /\ \A i \in 1 .. Chunks[m] : Whole(m)[i] = <<m, i - 1>>
  BY DEF Whole
<1> QED
  BY <1>1, <1>2, <1>3 DEF Holds

\* What is parsed concerns at most one message that was sent alone, which then
\* is whole and was not parsed before.
LEMMA ParseStep ==
  ASSUME NEW have \in [Messages -> SUBSET Int], ParsedAgree(have), NEW m \in Messages,
         NEW x, parsed' = Append(parsed, x), UNCHANGED <<first, last>>,
         \A n \in Messages \ {m} : Alone(n) => ~Holds(x, n),
         NEW h, \A n \in Messages \ {m} : h[n] = have[n],
         Alone(m) => x = Whole(m) /\ have[m] # All(m) /\ h[m] = All(m)
  PROVE  ParsedAgree(h)'
<1>1. /\ ParsedTypes' /\ Len(parsed) \in Nat /\ Len(parsed') = Len(parsed) + 1
      /\ \A k \in 1 .. Len(parsed) : parsed'[k] = parsed[k]
      /\ parsed'[Len(parsed) + 1] = x
  BY ParsedGrows DEF ParsedAgree
<1>2. \A k : k \in 1 .. Len(parsed') <=> k \in 1 .. Len(parsed) \/ k = Len(parsed) + 1
  BY <1>1
<1>3. \A n \in Messages : Alone(n)' <=> Alone(n)
  BY DEF Alone, Apart
<1>4. ASSUME NEW n \in Messages \ {m}, Alone(n) PROVE x # Whole(n)
  BY <1>4, WholeHoldsOwn
<1>5. ASSUME NEW n \in Messages, Alone(n), NEW k \in 1 .. Len(parsed'),
             Holds(parsed'[k], n)
      PROVE  parsed'[k] = Whole(n)
  <2>1. CASE k \in 1 .. Len(parsed)
    BY <1>1, <1>5, <2>1 DEF ParsedAgree, ParsedIsWhole, HandedTo, Holds
  <2>2. CASE k = Len(parsed) + 1
    BY <1>1, <1>5, <2>2
  <2> QED
    BY <1>2, <2>1, <2>2
<1>6. ASSUME Alone(m), NEW k \in 1 .. Len(parsed) PROVE parsed[k] # Whole(m)
  BY <1>6 DEF ParsedAgree
<1>7. ASSUME NEW n \in Messages, Alone(n), NEW k \in 1 .. Len(parsed'), NEW l \in 1 .. Len(parsed'),
             parsed'[k] = Whole(n), parsed'[l] = Whole(n)
      PROVE  k = l
  <2>1. CASE n = m
    <3>1. k = Len(parsed) + 1 /\ l = Len(parsed) + 1
      BY <1>1, <1>2, <1>6, <1>7, <2>1
    <3> QED
      BY <3>1
  <2>2. CASE n # m
    <3>1. k \in 1 .. Len(parsed) /\ l \in 1 .. Len(parsed)
      BY <1>1, <1>2, <1>4, <1>7, <2>2
    <3> QED
      BY <1>1, <1>7, <3>1 DEF ParsedAgree, ParsedIsWhole
  <2> QED
    BY <2>1, <2>2
<1>8. ASSUME NEW n \in Messages, Alone(n)
      PROVE  h[n] = All(n) <=> \E k \in 1 .. Len(parsed') : parsed'[k] = Whole(n)
  <2>1. CASE n = m
    <3>1. Len(parsed) + 1 \in 1 .. Len(parsed')
      BY <1>2
    <3> QED
      BY <1>1, <1>8, <2>1, <3>1
  <2>2. CASE n # m
    <3>1. h[n] = have[n] /\ x # Whole(n)
      BY <1>4, <1>8, <2>2
    <3>2. (\E k \in 1 .. Len(parsed') : parsed'[k] = Whole(n))
            <=> \E k \in 1 .. Len(parsed) : parsed[k] = Whole(n)
      BY <1>1, <1>2, <3>1
    <3> QED
      BY <1>8, <3>1, <3>2 DEF ParsedAgree
  <2> QED
    BY <2>1, <2>2
<1>9. ParsedIsWhole'
  <2>1. ASSUME NEW n \in Messages, Alone(n)', NEW k \in 1 .. Len(parsed'), HandedTo(k, n)'
        PROVE  parsed'[k] = Whole(n)
    BY <1>3, <1>5, <2>1 DEF HandedTo, Holds, nullptr
  <2> QED
    BY <1>3, <1>7, <2>1 DEF ParsedIsWhole, Whole
<1> QED
  BY <1>1, <1>3, <1>8, <1>9 DEF ParsedAgree, Whole, All

\* Nothing is parsed, and no message sent alone is complete now.
LEMMA NothingParsed ==
  ASSUME NEW have, ParsedAgree(have), parsed' = parsed, UNCHANGED <<first, last>>,
         NEW h, \A n \in Messages : Alone(n) => (h[n] = All(n) <=> have[n] = All(n))
  PROVE  ParsedAgree(h)'
<1>1. \A n \in Messages : Alone(n)' <=> Alone(n)
  BY DEF Alone, Apart
<1>2. ParsedTypes' /\ ParsedIsWhole'
  BY <1>1 DEF ParsedAgree, ParsedTypes, ParsedIsWhole, HandedTo, Whole
<1> QED
  BY <1>1, <1>2 DEF ParsedAgree, Whole, All

-----------------------------------------------------------------------------
(* Receiving                                                               *)

\* RecvChunckPacket changes one record, at a number of the chunk's message: no
\* other message sent alone has its record there.
LEMMA RecordsStep ==
  ASSUME SenderTypes, NumbersFollow, NEW have \in [Messages -> SUBSET Int], HaveIsSent(have),
         RecordsAgree(have), UNCHANGED <<first, last>>,
         NEW m \in Messages, Chunked(m), NEW start \in Int, Spans(m, start),
         Alone(m) => start = first[m],
         NEW h, \A n \in Messages \ {m} : h[n] = have[n],
         NEW cp,
         \/ /\ chunckPackets' = Without(chunckPackets, start)
            /\ Alone(m) => ~Collecting(m, h)
         \/ /\ chunckPackets' = SetAt(chunckPackets, start, cp)
            /\ HoldsChunksAt(cp, start)
            /\ Alone(m) => Collecting(m, h) /\ cp = Record(m, h[m])
  PROVE  RecordsAgree(h)'
<1>1. \A n \in Messages : Alone(n)' <=> Alone(n)
  BY DEF Alone, Apart
<1>2. \A s \in DOMAIN chunckPackets \ {start} :
        s \in DOMAIN chunckPackets' /\ chunckPackets'[s] = chunckPackets[s]
  BY DEF Without, SetAt
<1>3. ASSUME NEW s \in DOMAIN chunckPackets', s # start
      PROVE  s \in DOMAIN chunckPackets /\ chunckPackets'[s] = chunckPackets[s]
  BY <1>3 DEF Without, SetAt
<1>4. ASSUME start \in DOMAIN chunckPackets'
      PROVE  /\ chunckPackets'[start] = cp /\ HoldsChunksAt(cp, start)
             /\ Alone(m) => Collecting(m, h)
  BY <1>4 DEF Without, SetAt
<1>5. OwnRecords(h)'
  <2> SUFFICES ASSUME NEW n \in Messages, Alone(n), Collecting(n, h)
               PROVE  /\ first[n] \in DOMAIN chunckPackets'
                      /\ chunckPackets'[first[n]] = Record(n, h[n])
    BY <1>1 DEF OwnRecords, Collecting, Chunked, All, Record, ChunkFlag
  <2>1. CASE n = m
    <3>1. chunckPackets' = SetAt(chunckPackets, first[m], cp) /\ cp = Record(m, h[m])
      BY <2>1
    <3> QED
      BY <2>1, <3>1 DEF SetAt
  <2>2. CASE n # m
    <3>1. h[n] = have[n] /\ Collecting(n, have)
      BY <2>2 DEF Collecting
    <3>2. /\ first[n] \in DOMAIN chunckPackets
          /\ chunckPackets[first[n]] = Record(n, have[n])
      BY <3>1 DEF RecordsAgree, OwnRecords
    <3>3. first[n] \in Int /\ Spans(n, first[n])
      <4>1. n \notin unsent
        BY <3>1 DEF Collecting, HaveIsSent, Sent
      <4>2. first[n] \in Nat /\ last[n] \in Nat /\ first[n] <= last[n]
        BY <4>1 DEF NumbersFollow, SenderTypes
      <4> QED
        BY <4>2 DEF Spans
    <3>4. first[n] # start
      BY <2>2, <3>1, <3>3, NoSharedNumber DEF Collecting
    <3> QED
      BY <1>2, <3>1, <3>2, <3>4
  <2> QED
    BY <2>1, <2>2
<1>6. RecordsInSpan(h)'
  <2> SUFFICES ASSUME NEW s \in DOMAIN chunckPackets'
               PROVE  s \in Int /\ \E n \in Messages :
                        /\ Chunked(n) /\ Spans(n, s)
                        /\ Alone(n) => s = first[n] /\ Collecting(n, h)
    BY <1>1 DEF RecordsInSpan, Collecting, Chunked, All, Spans
  <2>1. CASE s = start
    BY <1>4, <2>1
  <2>2. CASE s # start
    <3>1. s \in DOMAIN chunckPackets
      BY <1>3, <2>2
    <3>2. s \in Int
      BY <3>1 DEF RecordsAgree, RecordsInSpan
    <3>3. PICK n \in Messages : /\ Chunked(n) /\ Spans(n, s)
                                /\ Alone(n) => s = first[n] /\ Collecting(n, have)
      BY <3>1 DEF RecordsAgree, RecordsInSpan
    <3>4. ASSUME Alone(n) PROVE n # m /\ Collecting(n, h)
      <4>1. n # m
        BY <2>2, <3>3, <3>4
      <4>2. h[n] = have[n]
        BY <4>1
      <4> QED
        BY <3>3, <3>4, <4>1, <4>2 DEF Collecting
    <3> QED
      BY <3>2, <3>3, <3>4
  <2> QED
    BY <2>1, <2>2
<1>7. ChunksInSpan'
  <2> SUFFICES ASSUME NEW s \in DOMAIN chunckPackets'
               PROVE  HoldsChunksAt(chunckPackets'[s], s)
    BY DEF ChunksInSpan, HoldsChunksAt, IsChunkAt, Chunked, Spans, Bits, nullptr
  <2>1. CASE s = start
    BY <1>4, <2>1
  <2>2. CASE s # start
    BY <1>3, <2>2 DEF RecordsAgree, ChunksInSpan
  <2> QED
    BY <2>1, <2>2
<1> QED
  BY <1>5, <1>6, <1>7 DEF RecordsAgree

\* The record of a message sent alone, found by the number its chunk leads to.
LEMMA UpdateFindsRecord ==
  ASSUME SenderTypes, NumbersFollow, NEW have \in [Messages -> SUBSET Int], HaveIsSent(have),
         RecordsAgree(have), NEW m \in Messages, Alone(m), Chunked(m), Chunks[m] <= FlagBits,
         m \notin unsent, NEW i \in All(m) \ have[m]
  PROVE  /\ StartSequnceNum(first[m] + i, ChunkFlag(i, Chunks[m])) = first[m]
         /\ Update(first[m]) = Record(m, have[m])
<1>1. i \in Int /\ first[m] \in Nat /\ last[m] \in Nat /\ Spans(m, first[m])
  BY ChunkAssumption DEF All, SenderTypes, NumbersFollow, Spans
<1>2. StartSequnceNum(first[m] + i, ChunkFlag(i, Chunks[m])) = first[m]
  <2>1. Lowest(ChunkFlag(i, Chunks[m])) = i
    BY LowestIsIndex
  <2> QED
    BY <1>1, <2>1 DEF StartSequnceNum
<1>3. CASE first[m] \in DOMAIN chunckPackets
  <2>1. PICK n \in Messages : /\ Spans(n, first[m])
                              /\ Alone(n) => Collecting(n, have)
    BY <1>3 DEF RecordsAgree, RecordsInSpan
  <2>2. n = m
    BY <1>1, <2>1, NoSharedNumber
  <2>3. Collecting(m, have)
    BY <2>1, <2>2
  <2> QED
    BY <1>2, <1>3, <2>3 DEF Update, RecordsAgree, OwnRecords
<1>4. CASE first[m] \notin DOMAIN chunckPackets
  <2>1. ~Collecting(m, have)
    BY <1>4 DEF RecordsAgree, OwnRecords
  <2>2. have[m] = {}
    BY <2>1 DEF Collecting
  <2> QED
    BY <1>2, <1>4, <2>2, EmptyRecord DEF Update
<1> QED
  BY <1>3, <1>4

\* A record's chunks are chunks of messages that have its number, also after one
\* more chunk is put in it.
LEMMA SetBufferHoldsChunks ==
  ASSUME ChunksInSpan, NEW m \in Messages, Chunked(m), NEW i \in All(m), NEW s, NEW start,
         Spans(m, start)
  PROVE  HoldsChunksAt(SetBuffer(Update(start), Packet(m, i, s)), start)
<1> DEFINE cp == Update(start)
           flag == ChunkFlag(i, Chunks[m])
           p == Packet(m, i, s)
<1>1. HoldsChunksAt(cp, start)
  BY DEF Update, NewChunkPacket, ChunksInSpan, HoldsChunksAt
<1>2. p.flag = flag /\ p.msg = m /\ p.chunk = i
  BY DEF Packet
<1>3. flag # {} => Lowest(flag) \in Bits
  BY LowestAtMost
<1>4. IsChunkAt(<<m, i>>, start)
  BY DEF IsChunkAt
<1> HIDE DEF cp, flag, p
<1>5. \/ SetBuffer(cp, p).buffers = cp.buffers
      \/ flag # {} /\ SetBuffer(cp, p).buffers = [cp.buffers EXCEPT ![Lowest(flag)] = <<m, i>>]
  BY <1>2 DEF SetBuffer
<1>6. PICK new : new = SetBuffer(cp, p)
  OBVIOUS
<1>7. /\ DOMAIN new.buffers = Bits
      /\ \A b \in Bits : new.buffers[b] = cp.buffers[b] \/ new.buffers[b] = <<m, i>>
  <2>1. DOMAIN cp.buffers = Bits
    BY <1>1 DEF HoldsChunksAt
  <2>2. CASE new.buffers = cp.buffers
    BY <2>1, <2>2
  <2>3. CASE flag # {} /\ new.buffers = [cp.buffers EXCEPT ![Lowest(flag)] = <<m, i>>]
    BY <1>3, <2>1, <2>3
  <2> QED
    BY <1>5, <1>6, <2>2, <2>3
<1>8. HoldsChunksAt(new, start)
  BY <1>1, <1>4, <1>7 DEF HoldsChunksAt
<1> QED
  BY <1>6, <1>8 DEF cp, p

\* A chunk of a message sent alone: the message is parsed with its last chunk,
\* and until then its record grows.
LEMMA RecvAlone ==
  ASSUME SenderTypes, NumbersFollow, NEW have \in [Messages -> SUBSET Int], HaveIsSent(have),
         RecordsAgree(have), ParsedAgree(have), UNCHANGED <<first, last>>,
         NEW m \in Messages, Alone(m), Chunked(m), Chunks[m] <= FlagBits, m \notin unsent,
         NEW i \in All(m) \ have[m], RecvChunckPacket(Packet(m, i, first[m] + i)),
         NEW h, h[m] = have[m] \cup {i}, \A n \in Messages \ {m} : h[n] = have[n]
  PROVE  RecordsAgree(h)' /\ ParsedAgree(h)'
<1> DEFINE cp == Record(m, h[m])
<1>1. have[m] \in SUBSET All(m) /\ h[m] \in SUBSET All(m) /\ h[m] # {} /\ have[m] # All(m)
  BY DEF HaveIsSent
<1>2. IF IsPull(cp)
      THEN /\ parsed' = Append(parsed, Assembled(cp))
           /\ chunckPackets' = Without(chunckPackets, first[m])
      ELSE /\ chunckPackets' = SetAt(chunckPackets, first[m], cp)
           /\ parsed' = parsed
  <2> DEFINE p == Packet(m, i, first[m] + i)
  <2>1. StartSequnceNum(p.sequenceNo, p.flag) = first[m]
    BY UpdateFindsRecord DEF Packet
  <2>2. SetBuffer(Update(first[m]), p) = cp
    BY <1>1, UpdateFindsRecord, RecordGrows
  <2> HIDE DEF cp, p
  <2> QED
    BY <2>1, <2>2 DEF RecvChunckPacket, p
<1>3. first[m] \in Int /\ Spans(m, first[m])
  BY DEF SenderTypes, NumbersFollow, Spans
<1>4. IsPull(cp) <=> h[m] = All(m)
  BY <1>1, PullWhenWhole
<1>5. CASE h[m] = All(m)
  <2>1. parsed' = Append(parsed, Whole(m)) /\ chunckPackets' = Without(chunckPackets, first[m])
    BY <1>2, <1>4, <1>5, ParsesWhole
  <2>2. ParsedAgree(h)'
    <3>1. \A n \in Messages \ {m} : ~Holds(Whole(m), n)
      BY WholeHoldsOwn
    <3> QED
      BY <1>1, <1>5, <2>1, <3>1, ParseStep
  <2>3. ~Collecting(m, h)
    BY <1>5 DEF Collecting
  <2>4. RecordsAgree(h)'
    BY <1>3, <2>1, <2>3, RecordsStep
  <2> QED
    BY <2>2, <2>4
<1>6. CASE h[m] # All(m)
  <2>1. parsed' = parsed /\ chunckPackets' = SetAt(chunckPackets, first[m], cp)
    BY <1>2, <1>4, <1>6
  <2>2. ParsedAgree(h)'
    <3>1. \A n \in Messages : h[n] = All(n) <=> have[n] = All(n)
      BY <1>1, <1>6
    <3> QED
      BY <2>1, <3>1, NothingParsed
  <2>3. Collecting(m, h)
    BY <1>1, <1>6 DEF Collecting
  <2>4. HoldsChunksAt(cp, first[m])
    <3>1. \A b : IsChunkAt(<<m, b>>, first[m])
      BY <1>3 DEF IsChunkAt
    <3> QED
      BY <3>1 DEF HoldsChunksAt, Record
  <2>5. RecordsAgree(h)'
    BY <1>3, <2>1, <2>3, <2>4, RecordsStep
  <2> QED
    BY <2>2, <2>5
<1> QED
  BY <1>5, <1>6

\* A chunk of any other message: whatever record it comes into, and whatever is
\* parsed from that record, holds no chunk of a message sent alone.
LEMMA RecvMixed ==
  ASSUME SenderTypes, NumbersFollow, NEW have \in [Messages -> SUBSET Int], HaveIsSent(have),
         RecordsAgree(have), ParsedAgree(have), UNCHANGED <<first, last>>,
         NEW m \in Messages, ~Alone(m), Chunked(m), NEW i \in All(m), NEW s \in Nat,
         first[m] + i <= s, s <= last[m], RecvChunckPacket(Packet(m, i, s)),
         NEW h, \A n \in Messages \ {m} : h[n] = have[n]
  PROVE  RecordsAgree(h)' /\ ParsedAgree(h)'
<1>1. PICK start : start = StartSequnceNum(s, ChunkFlag(i, Chunks[m]))
  OBVIOUS
<1>2. start \in Int /\ Spans(m, start)
  BY <1>1, StartIsSpanned
<1>3. PICK cp : cp = SetBuffer(Update(start), Packet(m, i, s))
  OBVIOUS
<1>4. HoldsChunksAt(cp, start)
  BY <1>2, <1>3, SetBufferHoldsChunks DEF RecordsAgree
<1>5. \/ /\ parsed' = Append(parsed, Assembled(cp))
         /\ chunckPackets' = Without(chunckPackets, start)
      \/ /\ chunckPackets' = SetAt(chunckPackets, start, cp)
         /\ parsed' = parsed
  BY <1>1, <1>3 DEF RecvChunckPacket, Packet
<1>6. RecordsAgree(h)'
  BY <1>2, <1>4, <1>5, RecordsStep
<1>7. ASSUME NEW n \in Messages \ {m}, Alone(n) PROVE ~Holds(Assembled(cp), n)
  <2> SUFFICES ASSUME NEW k \in 1 .. cp.count, k - 1 \in Bits,
                      cp.buffers[k - 1] # nullptr, cp.buffers[k - 1][1] = n
               PROVE  FALSE
    BY DEF Holds, Assembled
  <2>1. Chunked(n) /\ Spans(n, start)
    BY <1>4 DEF HoldsChunksAt, IsChunkAt
  <2> QED
    BY <1>2, <1>7, <2>1, NoSharedNumber
<1>8. ParsedAgree(h)'
  BY <1>5, <1>7, ParseStep, NothingParsed
<1> QED
  BY <1>6, <1>8

\* A plain packet is a whole message.
LEMMA RecvPlain ==
  ASSUME NEW have \in [Messages -> SUBSET Int], ParsedAgree(have), UNCHANGED <<first, last>>,
         NEW m \in Messages, ~Chunked(m), NEW i \in All(m) \ have[m], have[m] \subseteq All(m),
         parsed' = Append(parsed, <<<<m, i>>>>),
         NEW h, h[m] = have[m] \cup {i}, \A n \in Messages \ {m} : h[n] = have[n]
  PROVE  ParsedAgree(h)'
<1>1. Chunks[m] = 1 /\ All(m) = {0}
  <2>1. Chunks[m] \in Nat /\ Chunks[m] > 0 /\ ~(Chunks[m] > 1)
    BY ChunkAssumption DEF Chunked
  <2> QED
    BY <2>1 DEF All
<1>2. i = 0 /\ h[m] = All(m) /\ have[m] # All(m)
  BY <1>1
<1>3. Whole(m) = <<<<m, i>>>>
  <2>1. Whole(m) = [k \in 1 .. 1 |-> <<m, 0>>]
    BY <1>1 DEF Whole
  <2>2. Whole(m) = <<<<m, 0>>>>
    BY <2>1
  <2> QED
    BY <1>2, <2>2
<1>4. \A n \in Messages \ {m} : ~Holds(Whole(m), n)
  BY WholeHoldsOwn
<1> QED
  BY <1>2, <1>3, <1>4, ParseStep

\* The sender's packets are fewer by one, which has come.
LEMMA PacketTaken ==
  ASSUME NEW have \in [Messages -> SUBSET Int],
         PacketsAreWanted(have), HaveIsSent(have), NoneIsLost(have),
         UNCHANGED <<sending, unsent, dropped, first, last>>,
         NEW m \in Messages, NEW i \in All(m), NEW s \in Nat, Sent(m, i),
         Alone(m) => s = first[m] + i /\ i \notin have[m],
         data' = data \ {Packet(m, i, s)},
         NEW h, h[m] = have[m] \cup {i}, \A n \in Messages \ {m} : h[n] = have[n]
  PROVE  PacketsAreWanted(h)' /\ HaveIsSent(h)' /\ NoneIsLost(h)'
<1>1. \A n, j : Sent(n, j)' <=> Sent(n, j)
  BY DEF Sent
<1>2. \A n \in Messages : Alone(n)' <=> Alone(n)
  BY DEF Alone, Apart
<1>3. PacketsAreWanted(h)'
  <2> SUFFICES ASSUME NEW p \in data'
               PROVE  \E n \in Messages : \E j \in All(n) : \E r \in Nat :
                        /\ p = Packet(n, j, r) /\ Sent(n, j)
                        /\ first[n] + j <= r /\ r <= last[n]
                        /\ Alone(n) => r = first[n] + j /\ j \notin h[n]
    BY <1>1, <1>2 DEF PacketsAreWanted, All, Packet, ChunkFlag
  <2>1. p \in data /\ p # Packet(m, i, s)
    OBVIOUS
  <2>2. PICK n \in Messages : \E j \in All(n) : \E r \in Nat :
          /\ p = Packet(n, j, r) /\ Sent(n, j)
          /\ first[n] + j <= r /\ r <= last[n]
          /\ Alone(n) => r = first[n] + j /\ j \notin have[n]
    BY <2>1 DEF PacketsAreWanted
  <2>3. PICK j \in All(n) : \E r \in Nat :
          /\ p = Packet(n, j, r) /\ Sent(n, j)
          /\ first[n] + j <= r /\ r <= last[n]
          /\ Alone(n) => r = first[n] + j /\ j \notin have[n]
    BY <2>2
  <2>4. PICK r \in Nat :
          /\ p = Packet(n, j, r) /\ Sent(n, j)
          /\ first[n] + j <= r /\ r <= last[n]
          /\ Alone(n) => r = first[n] + j /\ j \notin have[n]
    BY <2>3
  <2>5. ASSUME Alone(n) PROVE j \notin h[n]
    BY <2>1, <2>4, <2>5
  <2> QED
    BY <2>4, <2>5
<1>4. HaveIsSent(h)'
  <2>1. ASSUME NEW n \in Messages, NEW j \in h[n] PROVE j \in All(n) /\ Sent(n, j)
    BY <2>1 DEF HaveIsSent
  <2> QED
    BY <1>1, <2>1 DEF HaveIsSent, All
<1>5. NoneIsLost(h)'
  <2> SUFFICES ASSUME NEW n \in Messages \ dropped, NEW j \in All(n), Sent(n, j), j \notin h[n]
               PROVE  \E p \in data' : p.msg = n /\ p.chunk = j
    BY <1>1 DEF NoneIsLost, All
  <2>1. PICK p \in data : p.msg = n /\ p.chunk = j
    BY DEF NoneIsLost
  <2>2. p # Packet(m, i, s)
    BY <2>1 DEF Packet
  <2> QED
    BY <2>1, <2>2
<1> QED
  BY <1>3, <1>4, <1>5

\* The records stay as they are when no chunk of a chunked message comes.
LEMMA RecordsUnchanged ==
  ASSUME NEW have, RecordsAgree(have), UNCHANGED <<first, last, chunckPackets>>,
         NEW h, \A n \in Messages : Chunked(n) => h[n] = have[n]
  PROVE  RecordsAgree(h)'
<1>1. \A n \in Messages : Alone(n)' <=> Alone(n)
  BY DEF Alone, Apart
<1>2. \A n \in Messages : Collecting(n, h)' <=> Collecting(n, have)
  BY DEF Collecting, Chunked, All
<1>3. OwnRecords(h)'
  <2> SUFFICES ASSUME NEW n \in Messages, Alone(n), Collecting(n, have)
               PROVE  /\ first[n] \in DOMAIN chunckPackets
                      /\ chunckPackets[first[n]] = Record(n, h[n])
    BY <1>1, <1>2 DEF OwnRecords, Record, ChunkFlag
  <2>1. h[n] = have[n]
    BY DEF Collecting
  <2> QED
    BY <2>1 DEF RecordsAgree, OwnRecords
<1>4. RecordsInSpan(h)'
  BY <1>1, <1>2 DEF RecordsAgree, RecordsInSpan, Chunked, Spans
<1>5. ChunksInSpan'
  BY DEF RecordsAgree, ChunksInSpan, HoldsChunksAt, IsChunkAt, Chunked, Spans, Bits, nullptr
<1> QED
  BY <1>3, <1>4, <1>5 DEF RecordsAgree

\* A packet is handled: one chunk more has come.
LEMMA RecvDispatchStep ==
  ASSUME ChunkInv, NEW p \in data, RecvDispatch(p)
  PROVE  ChunkInv'
<1>1. PICK have \in [Messages -> SUBSET Int] : ChunkState(have)
  BY DEF ChunkInv
<1> USE <1>1 DEF ChunkState
<1>2. PICK m \in Messages : \E i \in All(m) : \E s \in Nat :
        /\ p = Packet(m, i, s) /\ Sent(m, i)
        /\ first[m] + i <= s /\ s <= last[m]
        /\ Alone(m) => s = first[m] + i /\ i \notin have[m]
  BY DEF PacketsAreWanted
<1>3. PICK i \in All(m) : \E s \in Nat :
        /\ p = Packet(m, i, s) /\ Sent(m, i)
        /\ first[m] + i <= s /\ s <= last[m]
        /\ Alone(m) => s = first[m] + i /\ i \notin have[m]
  BY <1>2
<1>4. PICK s \in Nat :
        /\ p = Packet(m, i, s) /\ Sent(m, i)
        /\ first[m] + i <= s /\ s <= last[m]
        /\ Alone(m) => s = first[m] + i /\ i \notin have[m]
  BY <1>3
<1>5. /\ m \notin unsent /\ have[m] \subseteq All(m)
      /\ data' = data \ {p}
      /\ UNCHANGED <<sendRepeatSeq, sending, unsent, dropped, first, last>>
  BY <1>4 DEF HaveIsSent, Sent, RecvDispatch
<1>6. PICK h \in [Messages -> SUBSET Int] : h = [have EXCEPT ![m] = have[m] \cup {i}]
  <2>1. i \in Int
    BY ChunkAssumption DEF All
  <2> QED
    BY <2>1
<1>7. h[m] = have[m] \cup {i} /\ \A n \in Messages \ {m} : h[n] = have[n]
  BY <1>6
<1>8. SenderTypes' /\ NumbersFollow'
  <2>1. \A n : Alone(n)' <=> Alone(n)
    BY <1>5 DEF Alone, Apart
  <2> QED
    BY <1>5, <2>1 DEF SenderTypes, NumbersFollow, All
<1>9. PacketsAreWanted(h)' /\ HaveIsSent(h)' /\ NoneIsLost(h)'
  BY <1>4, <1>5, <1>7, PacketTaken
<1>10. p.isChunck <=> Chunked(m)
  BY <1>4 DEF Packet, Chunked
<1>11. RecordsAgree(h)' /\ ParsedAgree(h)'
  <2>1. CASE p.isChunck /\ Alone(m)
    <3>1. Chunks[m] <= FlagBits
      BY <1>10, <2>1, ChunkAssumption DEF Alone, Chunked
    <3>2. RecvChunckPacket(Packet(m, i, first[m] + i))
      BY <1>4, <2>1 DEF RecvDispatch
    <3> QED
      BY <1>4, <1>5, <1>7, <1>10, <2>1, <3>1, <3>2, RecvAlone
  <2>2. CASE p.isChunck /\ ~Alone(m)
    <3>1. RecvChunckPacket(Packet(m, i, s))
      BY <1>4, <2>2 DEF RecvDispatch
    <3> QED
      BY <1>4, <1>5, <1>7, <1>10, <2>2, <3>1, RecvMixed
  <2>3. CASE ~p.isChunck
    <3>1. parsed' = Append(parsed, <<<<m, i>>>>) /\ chunckPackets' = chunckPackets
      BY <1>4, <2>3 DEF RecvDispatch, Packet
    <3>2. i \notin have[m]
      <4>1. Alone(m)
        BY <1>10, <2>3, ChunkAssumption DEF Alone, Chunked
      <4> QED
        BY <1>4, <4>1
    <3>3. ParsedAgree(h)'
      BY <1>5, <1>7, <1>10, <2>3, <3>1, <3>2, RecvPlain
    <3>4. \A n \in Messages : Chunked(n) => h[n] = have[n]
      BY <1>7, <1>10, <2>3
    <3>5. RecordsAgree(h)'
      BY <1>5, <3>1, <3>4, RecordsUnchanged
    <3> QED
      BY <3>3, <3>5
  <2> QED
    BY <2>1, <2>2, <2>3
<1>12. ChunkState(h)'
  BY <1>8, <1>9, <1>11
<1> QED
  BY <1>12 DEF ChunkInv

\* Every step keeps the invariant.
LEMMA ChunkStep == ChunkInv /\ [Next]_vars => ChunkInv'
<1> SUFFICES ASSUME ChunkInv, [Next]_vars PROVE ChunkInv'
  OBVIOUS
<1>1. CASE UNCHANGED vars
  <2>1. PICK have \in [Messages -> SUBSET Int] : ChunkState(have)
    BY DEF ChunkInv
  <2>2. UNCHANGED <<sendRepeatSeq, sending, unsent, dropped, data, chunckPackets, parsed,
                    first, last>>
    BY <1>1 DEF vars
  <2>3. \A n : Alone(n)' <=> Alone(n)
    BY <2>2 DEF Alone, Apart
  <2>4. SenderTypes' /\ NumbersFollow'
    BY <2>1, <2>2, <2>3 DEF ChunkState, SenderTypes, NumbersFollow, All
  <2>5. PacketsAreWanted(have)' /\ HaveIsSent(have)' /\ NoneIsLost(have)'
    BY <2>1, <2>2, <2>3 DEF ChunkState, PacketsAreWanted, HaveIsSent, NoneIsLost, Sent, All,
                            Packet, ChunkFlag
  <2>6. RecordsAgree(have)'
    BY <2>1, <2>2, RecordsUnchanged DEF ChunkState
  <2>7. ParsedAgree(have)'
    BY <2>1, <2>2, NothingParsed DEF ChunkState
  <2>8. ChunkState(have)'
    BY <2>4, <2>5, <2>6, <2>7 DEF ChunkState
  <2> QED
    BY <2>8 DEF ChunkInv
<1>2. CASE Next
  BY <1>2, SendPacketStep, RecvDispatchStep DEF Next
<1> QED
  BY <1>1, <1>2

\* A record of a message sent alone waits for a chunk that was not sent, was
\* dropped, or is on its way.
LEMMA InvLeavesNothing == ChunkInv => NothingLeftOver
<1> SUFFICES ASSUME ChunkInv, data = {} PROVE NothingLeftOver
  BY DEF NothingLeftOver
<1>1. PICK have \in [Messages -> SUBSET Int] : ChunkState(have)
  BY DEF ChunkInv
<1>2. ASSUME NEW m \in Messages, IsSent(m), m \notin dropped
      PROVE  have[m] = All(m)
  <2>1. \A i \in All(m) : Sent(m, i)
    BY <1>2 DEF Sent, IsSent
  <2>2. \A i \in All(m) : i \in have[m]
    BY <1>1, <1>2, <2>1 DEF ChunkState, NoneIsLost
  <2>3. \A i \in have[m] : i \in All(m)
    BY <1>1 DEF ChunkState, HaveIsSent
  <2> QED
    BY <2>2, <2>3
<1>3. ASSUME NEW m \in Messages, IsSent(m), Alone(m), m \notin dropped
      PROVE  \E k \in 1 .. Len(parsed) : parsed[k] = Whole(m)
  BY <1>1, <1>2, <1>3 DEF ChunkState, ParsedAgree
<1>4. ASSUME NEW s \in DOMAIN chunckPackets
      PROVE  \E m \in Messages : /\ s \in first[m] .. last[m]
                                 /\ Chunks[m] > 1
                                 /\ ~IsSent(m) \/ m \in dropped \/ ~Alone(m)
  <2>1. PICK m \in Messages : /\ Chunked(m) /\ Spans(m, s)
                              /\ Alone(m) => Collecting(m, have)
    BY <1>1 DEF ChunkState, RecordsAgree, RecordsInSpan
  <2>2. s \in first[m] .. last[m]
    BY <1>1, <2>1 DEF ChunkState, RecordsAgree, RecordsInSpan, Spans, SenderTypes
  <2>3. ~IsSent(m) \/ m \in dropped \/ ~Alone(m)
    BY <1>2, <2>1 DEF Collecting
  <2> QED
    BY <2>1, <2>2, <2>3 DEF Chunked
<1> QED
  BY <1>3, <1>4 DEF NothingLeftOver

-----------------------------------------------------------------------------
(* The theorems                                                            *)

\* What the sender and the receiver have of every message, in every state.
THEOREM ChunksSafe == Spec => []ChunkInv
BY ChunkStart, ChunkStep, PTL DEF Spec

\* However many threads call SendPacketChunk on one session, whatever the length
\* of their messages, in whatever order their packets come and whichever
\* SendPacket dropped: RecvChunckPacket hands a message that was sent alone to
\* the handler whole and once, and mixes no chunk of it with another message's.
THEOREM ChunksParsedWhole == Spec => []ParsedIsWhole
<1>1. ChunkInv => ParsedIsWhole
  BY DEF ChunkInv, ChunkState, ParsedAgree
<1> QED
  BY <1>1, ChunksSafe, PTL

\* When every packet has been handled, every message sent alone that lost no
\* packet to a full window has been parsed, and chunckPackets_ has no record of
\* it: what RecvChunckPacket still keeps there are pieces of messages that lost a
\* packet, are still being sent, or were not sent alone.
THEOREM ChunksLeaveNothing == Spec => []NothingLeftOver
<1>1. ChunkInv => NothingLeftOver
  BY InvLeavesNothing
<1> QED
  BY <1>1, ChunksSafe, PTL
=============================================================================
