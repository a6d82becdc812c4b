# A TLA+ model of DUBUFramework

DUBUFramework is a C++ UDP server framework for Windows (IOCP): a reliability
layer with ordered channels, an unordered reliable stream and an unreliable
stream; sessions identified by an id and not by their address, so that a client
may change its address; session workers; and three programs on top of it (an
echo server, an echo client, a gateway). This directory models its core logic,
checks it with TLC and proves the central parts with TLAPS. Paths below are
relative to the repository; `FW/` stands for `src/DUBUFrameWork/`.

## 1. The system

| Component | State | Operations | Talks to |
|---|---|---|---|
| Sequence numbers and window (`FW/PacketStateBase.*`, `FW/ReliablePacketState.*`) | window base, highest number kept, next number, pending slots, ACK bits, receiver's next number, highest number, mask | `AddPendingPacket`, `AckProcess`, `Reset`, `ReturnBuffers` | owned by Session, Client, InternalClient |
| Ordered channel (channel branch of `RecvDispatch`) | the above, plus `cachePackets_` | `SendPacket`, `RepeatMessage`, `RecvDispatch`, `SendAck` | network, handlers |
| Unordered reliable stream (`rpsNo_`) | as above, with a bit mask in place of the cache | the same | network, handlers |
| Unreliable stream (`rNopsNo_`) | one number at each end | `SendPacket`, `RecvDispatch` | network, handlers |
| Chunked messages (`FW/ChunkPacket.*`, `SendPacketChunk`, `RecvChunckPacket`) | `chunckPackets_` | cut, collect, parse | unordered stream |
| Packet buffers (`FW/BufferManager.*`, `FW/RUDPSocket.*`) | pool lists, the `type_` word of each buffer | `SendTo*`, `SendToComplete`, `ReturnBuffer` | kernel, pending slots |
| Reader-writer lock (`FW/RWLock.*`) | one atomic word | lock and unlock for readers and writers | everything |
| Ring (`FW/RingBuffer.h`) | head, tail, a `seq` for each node | `Push`, `Pop` | tests |
| Server, SessionManager (`FW/Server.*`) | `sessionMap_`, `peerMap_`, session pool | create, find, remove, ping, connect and disconnect messages | workers |
| SessionWorker (`FW/SessionWorker.*`) | a bounded queue each | `ProcessPacket`, `CheckSessions` | server's maps under `sessionLock_` |
| Client, InternalClient | `isConnect_`, `clientId_`, timestamps, streams | `Connect`, `Disconnect`, `Dispatch`, `CheckPending`, `SendPacket` | server over UDP |
| Gateway (`src/GateWay/`) | `internalClientList_`, one echo session each | `SendToEcho`, `SendToClient`, `InnerDispatch` | clients' sessions, echo server |
| Echo server (`src/DUBUEchoServer/`) | `connectionList_`: client id to Session* | `AddConnection`, `Broadcast`, `DestroySession`, handlers | gateway |
| Echo client (`src/DUBUEchoClient/`) | a Client | register, chat, bot message | gateway |
| Process (`FW/ThreadManager.cpp`, `FW/RUDPSocket.cpp`, the `main`s) | threads, `isRunning_`, `isStart_`, sockets, `useList_` | start, `Stop`, `Join`, `EndServer`, `EndClient` | everything |
| Pools, packet header and CRC, socket set-up, configuration, log, crash dump | – | – | – |

Threads: I/O threads take completions from the port (`SendToComplete`,
`OnRecvFrom`); each session worker runs its queue and its timers; application
threads send; a client has one thread that dispatches and, in the echo client,
another that connects and disconnects. `sendLock_` (a Session's) or `lock_`
(a client's) covers the pending slots, `sessionLock_` the server's two maps.

What is hard about it:

* every datagram may be lost, repeated, or overtaken, and the sequence numbers
  wrap;
* the window, the mask and the cache are finite, and senders may overrun them;
* the completion of a send, the ACK and a reset run on different threads and
  share one buffer through two bits;
* workers decide under a read lock and act under a write lock taken later;
* either side may vanish, and only timeouts tell;
* the gateway's workers and logic thread take `sessionLock_` and `lock_` in
  opposite orders;
* a chat passes four streams in three processes, and the echo server holds
  pointers to sessions that end at any time;
* at shutdown the threads end one after the other while packets still arrive;
* the lock and the ring are lock-free code.

What makes each part correct is listed with its module in section 3; the places
where the code is exposed are listed, line by line, under `hazards` in
`PROJECT.json`.

## 2. Conventions

Definitions keep the names of the code; a field's trailing underscore is
dropped (`lastRepeatSeq_` is `lastRepeatSeq`). An action is one handler, or, where several
threads run, the part of it between two points where others can step in: an
atomic operation, or one hold of a lock. A definition `X_Something(…)` in front
of `X(…)` is a form of `X` with a plausible mistake. No specification uses these forms; they
are put in place of `X` to see that a property notices (`mutants` in
`PROJECT.json` says which property notices which mistake).

Data is abstract: the n-th packet a program sends carries the payload n, an
address or a session object is a model value, a chunk is (message, index), a
flag is a set of bits.

## 3. Modules

### Reliable streams: `SequenceNumbers`, `ReliableSender`, `ReliableReceiver`, `OrderedChannel`, `UnorderedStream`

`SequenceNumbers` is Uint32 arithmetic with modulus `SeqMod` (2^32 in the code)
and `Window` (`DEFAULT_WINDOW_COUNT`, 64). `ReliableSender` has the sending
fields, the pending slots and the network: the set of data packets and the set
of ACKs under way. A packet stays in the set after it is received, so that it
can arrive again and in any order, and may never arrive. `Lifetime` bounds how
long: a datagram is gone once `Lifetime` newer packets were sent
(`Lifetime <= SeqMod - Window`; with 2^32 numbers this says that no datagram
survives four billion later ones). `StartSeq` is the last number used before
the model begins: 0 after `Reset`, or any other once so many packets were
delivered and acknowledged, so that a short run can begin just before the wrap.
The variable `sender`, chosen once, says what happens when `AddPendingPacket`
refuses: a `Session` drops the packet, a `Client` disconnects and resets its
streams, an `InternalClient` sends the packet without keeping it. The first and
the last have used up a number by then. `MaxOverflow` bounds how many packets
may be refused. `SenderAssumption` asks for `MaxOverflow + 3 * Window <= SeqMod`:
the sender may be ahead of the receiver by the packets that overflowed and by
less than two windows, and a distance is only what it seems if it stays below
`SeqMod`. With the code's 64 and 2^32 this leaves room for four billion
overflowing packets.

`ReliableReceiver` holds the tests of `RecvDispatch` on a number and the ACK
that follows. `OrderedChannel` is the channel branch with its cache and the
loop that empties it; `UnorderedStream` is the other branch, with the mask.
Session, Client and InternalClient contain the same receiving code.

Promises, stated on their own in `FifoDelivery` (each packet once, in the order
sent, up to the first one that never comes) and `OnceDelivery` (each at most
once, any order). The detailed specifications implement them
(`RefinesFifoDelivery`, `RefinesOnceDelivery`). Further properties:
`AcceptedPacketIsSafe` (a slot is released only after the receiver has the
packet), `KeptPacketIsRepeated` (`RepeatMessage` visits every kept packet, as
long as none has overflowed the window),
`KeptPacketIsAcceptable` (the receiver never refuses a kept packet for good, so that its
ACK can be repeated), `CacheAgreement`, `MaskAgreement` (the receiver's records of what
it has agree with one another and with what was delivered),
`CacheOnlyDrainsToDelivery` (a cached packet leaves the cache only to the
handlers), `ReliablePacketArrives` and `WindowDrains` (liveness).

`UnorderedStream` has the unreliable packets as well (`reliable`, chosen once,
says which of `rpsNo_` and `rNopsNo_` a behaviour is about; the two share
nothing but the code around them). They are numbered, sent once, and accepted
within `AcceptRange` of the last one handled. `OnlyNewer`: what is handled is
newer than everything handled before, also across the wrap.

### `ChunkStream`

Threads number the chunks of their messages one at a time on the unordered
stream. The receiver finds a message by its first number, which it computes
from the lowest bit of the chunk's flag. That is the first number only if the
chunks have consecutive numbers and are no more than the flag has bits, and the
code sees to neither: `sendLock_` is held for one packet at a time, and nothing
limits a message's size. The model has any number of threads and messages of any
length, and the properties say what this does to the *other* messages. A message is
`Alone` if it is a plain packet, or if its chunks fit the flag and no other
message was given a number between its first and its last (the history variables
`first` and `last`). `ParsedIsWhole`: whatever is parsed and has a chunk of such
a message is this message, all of it, in order, and it is parsed once.
`NothingLeftOver`: once all packets have arrived, such a message has been parsed if
no packet of it was dropped, and what is left in `chunckPackets_` belongs to others,
or to messages that are not finished.

### `PacketBuffer`

A reliable packet's buffer is used by the kernel (until the send completes) and
by the pending slot (until the ACK). SENDING and RELIABLE in `type_` say who
still uses it, and the one who clears the last bit returns it. Each atomic
operation is a step, and so is each hold of the lock; `SendToRepeat`'s load
and store are separate. Every `Reset` of the model holds the lock;
`ResetBegin_Unlocked` is a call that does not, as those of the echo client's main
thread and of `~Client`. A refused packet is returned (Session, Client) or sent
although no slot keeps it (InternalClient). `RepeatPongMessage` takes its buffer
before it compares the ping's number, and forgets it if the ping is old
(`DropOldPing`). The history variable `abandoned` names the buffers of these two
losses, which nobody will return. The send itself (`WSASendTo`) is assumed to be
accepted; the code asserts that it is (`FW/RUDPSocket.cpp:241`). Receives take
their buffers from the same pool; they are counted in `ServerProcess`, not here.
`ReturnedOnce`, `FreeBufferIsUnused`, `OneSendAtATime`, `NoLostBuffer`,
`ReleasedBufferComesBack` (liveness).

### `RWLock` and `RingBuffer`

One step per atomic operation (`ThreadSteps` has the program counters that these
two and `PacketBuffer` use). The lock: `MutualExclusion`, `CountAgreement`,
`SomebodyGetsIn`; the assertion in `ReadUnLock` is a theorem. The weak
compare-exchange may fail spuriously. The ring: `PopReturnsItsTicket`,
`DataRaceFree` (no two threads touch one `data_` at once, one of them writing),
`EveryCallReturns`. Memory is sequentially consistent in both
models; what the acquire and release orders add is not examined.

### `SessionTable`

`sessionMap_`, `peerMap_`, the pooled sessions and the workers with their
queues. Every hold of `sessionLock_` is one action: `ProcessSession`,
`ProcessLookup`, `ProcessMigrate`, `ProcessDispatch`, `CheckSessions` and
`CheckSessionsRemove`. Time is abstract: a session's `late` says that
`g_defaultDisconnectTimeoutMs` has passed since it was heard of, and may become
true at any time. `TableAgreement` (the two maps agree), `OnlyLateSessionsEnd`,
`NotedIsStillLate` (what `CheckSessions` noted under the read lock is still to
be removed when the write lock is taken), `LateSessionEnds` (liveness, for
sessions the application has not disconnected). The history variable `clashed`
records that a session was moved to an address another one had taken after
`ProcessPacket` looked; from then on the first two properties promise nothing.

### `Connection`

One client and its session over time: the request for a session and its
repetition, pings, pongs, both timeouts, disconnecting, and a crash of the client
or a restart of the server. `StaysConnected`, `GoneClientIsForgotten`,
`LostSessionIsNoticed`, `EndedConnectionIsForgotten`. The constants `AppSends`
and `KeepsDispatching` describe the program around the client: what it sends,
and whether it goes on calling `Dispatch` after a disconnect. DISCONNECT has all flag
bits set, so a worker treats it as a reliable packet of a channel that does not
exist; that is how the model has it too.

### `Relay`

Clients, gateway and echo server composed. Each hop is a link with what
`FifoDelivery` and `OnceDelivery` promise: a queue for each channel and a set
for packets without one. A client's messages go to the internal client
`sessionId % echoCount_` and on to its echo session; the echo server broadcasts
chats, one client of `connectionList_` a step, and returns bot messages on the
session they came on; the gateway's logic thread passes them to the client
whose id is in the sub header. Options are read off the header at every hop
(`HeaderToOptions`). Clients leave, echo sessions time out, their objects are
used again, the list is full at `maxclientcount`, and the gateway restarts
while the echo server still has its old sessions. What a session that was
disconnected because the list was full sends is not retransmitted and may be
lost, and the channel behind it stops (`LosePacket`).

`ConnectionListIsCurrent` (no entry leads to a session that was removed, or to
one of another internal client), `AuthorOrder` (everybody sees an author's
chats in his order), `BotGoesHome` (a bot message reaches its author only),
`BotComesBack` and `ChatReachesRegistered` (liveness, while the way is open).

Abstractions: a client's session id is its name, and a client that reconnects is a new
one. A break of one side of a link is the subject of `Connection`; here both
ends go together. A SESSION answer that comes after `ConnectTimes` gave up is
not modelled. A chat on channel 2 may overtake the Register on channel 0, as in
the code. A restart of the echo server is the end of all its sessions.

### `ServerProcess`

One process, gateway or echo server, from the start of its threads to the end
of `main`. Receive threads, session workers and logic threads run their loops,
each check of `isRunning_` or `isStart_` a step of its own; `main` stops them,
joins them and destroys the server. A handler is the sequence of locks it takes inside
one another (`PacketJobs`, `CheckJobs`, `AnswerJobs`); locks that are taken
last and under which nothing is called (`lk_` of a queue, the pool's lock) are left out, as
they cannot be part of a circle. Buffers are counted by where they are.

`NoDeadlock` (no circle of threads that wait for one another),
`EveryBufferComesBack` (`useList_` has exactly the buffers somebody holds, and
is empty at the end), `StopEnds` (liveness).

## 4. Runs and their bounds

| Run | Bounds | States | Shows |
|---|---|---|---|
| Ordered | SeqMod 12, Window 3, StartSeq 7, 6 packets (two past the wrap), Lifetime 5, up to 2 overflowing, each of the three senders | 1.2 M | FIFO, no accepted packet lost, sender's and receiver's records agree |
| OrderedLive | SeqMod 9, Window 3, StartSeq 5, 6 packets (three past the wrap), Lifetime 3, no overflow | 12 k | every packet arrives and its slot is released |
| Unordered | SeqMod 16, Window 4, StartSeq 13, 7 packets, Lifetime 5, AcceptRange 4, up to 2 overflowing, each sender, reliable or not | 1.06 M | at most once, mask agrees, unreliable packets never go back |
| Chunk | 2 threads; a plain packet, two messages of 2 chunks and one of 3, 2 flag bits, window may overflow; symmetry of the threads and of the two equal messages | 3.1 M | a message sent alone is parsed whole and once, nothing of it is left over |
| Buffer | 2 buffers, 3 threads | 62 k | a buffer is returned at most once, never while in use, and comes back unless it was abandoned |
| RWLock | 3 threads | 5 k | exclusion, word agrees, no hang |
| RingBuffer | 3 threads, 2 nodes, 3 pushes, 2 pops | 155 k | each pop gets its value, no race, each of these five calls returns |
| Table | 2 workers, 2 session objects, 3 ids, one client that moves between two addresses and may ask again, queue of 1, application disconnects | 310 k | maps agree, only late sessions end, and they do |
| Relay | 2 of 3 clients connect, 2 internal clients, 2 session objects, 2 messages in three combinations of kinds and authors, list of 1 or 2, one restart of the gateway | 219 k | broadcasts use live sessions, order is kept, messages reach whom they are for |
| Process | 1 receive, 2 worker, 1 logic thread, 1 registered receive, queue of 1, 1 kept packet, both programs | 231 k | no deadlock, Stop ends the process, every buffer comes back |
| Connection | PingTimeout 1, SessionTimeout 6, delay 1, 1 loss, crash, restart, disconnect, reliable sends | 561 k | a connection survives a loss; each side finds out that the other is gone |

A window of 3 has a first, a middle and a last slot; a sixth packet comes back
to a used slot and, with Lifetime 5, meets late datagrams and ACKs of the
packet that had the slot before. With SeqMod 12 and StartSeq 7 the numbers sent are 8,
9, 10, 11, 0 and 1, so that the last number before the wrap can be the one that
overflows. Two overflowing packets let an InternalClient reach a slot of the
receiver's cache that is in use. Two nodes and three pushes make the ring turn
with three threads competing for one node. Three ids let a session be removed
and its object be used again while an old datagram is still queued. One
`CheckSessions` removes at most 64 sessions (`removeList`) and leaves the others to the next;
the run's two session objects never reach that.
SessionTimeout 6 leaves room for a lost ping and the delays; the code's ratio
(30 s to 3 s) is larger.

Two bits are the least flag that two chunks fill, and three chunks the least that
do not fit it; with four messages two can interleave, mix their records or be
cut short while another is sent alone before, between or after them. That the
last chunk's flag fills more than one bit needs a wider flag (`RecordGrows` and
`PullWhenWhole` are proved for any).

Of three clients two share an internal client, so that the two that connect
have one each or one together; two sessions let an object be used again for the
other internal client; two chats are enough to change places. One lock of each kind with two workers and a logic thread gives every
pair of jobs and one thread more that waits; the proof covers any number.

The streams, the ring, the chunk and the relay runs stop when the bounded number of
sends is used up, and a process ends; their configurations do not check deadlock. The others do, and have
none. Deadlock of threads is the property `NoDeadlock`, not TLC's check.

### Where code and documents disagree

One run shows a property violated that the repository's own words state
(`findings` in `PROJECT.json` quotes them):

* **OrderedOverflow** (SeqMod 12, Window 3, 4 packets, one overflowing, fair) – a
  reliable packet that overflows the window has already taken its number. The
  receiver waits for that number and delivers nothing further on the channel
  (`FW/Session.cpp:559`).

The models show more such places. The properties of the passing runs are stated
so as to exclude exactly these; each is found again by the change named:

* InternalClient sends a refused reliable packet unkept: it is not repeated and
  its buffer is never returned (`FW/InternalClient.cpp:632`; drop `abandoned`
  from `NoLostBuffer`, run Buffer).
* A late or overtaken ping costs a buffer: `RepeatPongMessage` takes one before
  it looks at the number, and returns without sending or pushing it
  (`FW/Client.cpp:592`, `FW/InternalClient.cpp:688`; drop `abandoned` from
  `NoLostBuffer`, run Buffer). In the gateway such a buffer stays in `useList_` until
  `EndServer`; `ServerProcess` has no pings.
* An overflow of the last number before the wrap leaves the next kept packet
  outside the range that `RepeatMessage` visits, because `localSeqence_` is
  compared with a plain `>=` (`FW/ReliablePacketState.cpp:39`; drop
  `overflowed = {}` from `KeptPacketIsRepeated`, run Ordered).
* Two threads that send chunked messages on one session interleave the numbers
  of their chunks, and the receiver hands a mixture of two messages to a
  handler (`FW/Session.cpp:691`; drop `Alone(m)` from `ParsedIsWhole`, run Chunk).
  `FW/ChunkPacket.cpp:80` says that the number of chunk 0
  comes out ("시작 0번째의 시퀀스 넘버가 나온다."), and `FW/Session.cpp:493` that
  several threads may send.
* A message of more chunks than flag bits is parsed without its end, and the
  rest stays in `chunckPackets_` (`FW/Session.cpp:686`; drop `Alone(m)`, run Chunk).
* Disconnect without the lock and an ACK return one buffer twice
  (`src/DUBUEchoClient/main.cpp:305`; `ResetBegin_Unlocked`). `~Client` resets
  without the lock too (`FW/Client.cpp:18`).
* A migration races a new session for the address, and later a live session
  is ended (`FW/SessionWorker.cpp:107`; drop `clashed` from
  `OnlyLateSessionsEnd`, run Table).
* A session that a handler disconnected is skipped by every later check and
  never removed (`FW/SessionWorker.cpp:229`, `src/DUBUEchoServer/EchoServer.cpp:22`;
  drop `isConnect` from `IsLate`).
* A client that only sends unreliable packets is never pinged, hears nothing
  and times itself out (`FW/SessionWorker.cpp:250`, `FW/Client.cpp:634`;
  `AppSends = "unreliable"`, run Connection: `StaysConnected`).
* A gateway client that has disconnected goes on dispatching and so keeps its
  session alive for ever (`FW/SessionWorker.cpp:164`,
  `src/GateWay/GatewayServer.cpp:134`; in addition `KeepsDispatching = TRUE`:
  `EndedConnectionIsForgotten`).

* `EndServer` posts a completion for every buffer in `useList_` and then cancels
  the receives that are pending: their buffers come out of the completion queue twice and are
  pushed into `list_` twice (`FW/RUDPSocket.cpp:59`; `EndServer` of
  `ServerProcess` counts `useList_`, where the second push has no effect).
* A full `connectionList_` disconnects the session of every client that the
  same internal client serves, and that session is never removed
  (`src/DUBUEchoServer/EchoServer.cpp:22`; drop `session[…] = "open"` from
  `Reachable`, run Relay).
* A chat that fits a packet only without the sub header is broadcast without
  its order (`src/DUBUEchoServer/EchoServer.cpp:68`, which says so: "너무 길면 순서는
  버린다."); `AuthorOrder` is about the others.

### Fairness

* Ordered channel: the timer comes round, so that `RepeatMessage` sends the
  oldest kept packet again (weak fairness); its datagram, and its ACK, sent again
  and again, arrive in the end (strong fairness), which is what retransmission
  is for. Nothing is assumed of the other packets. The timer of a client runs only when its completion queue is empty;
  that it does become empty is assumed.
* Lock: a thread's own loads and unlocks go on (weak); a swap that could succeed again and
  again does succeed (strong), since a weak compare-exchange may fail now and then but
  not for ever. Nothing is assumed about who gets in.
* Ring: each thread goes on (weak). No fairness on starting a call. `EveryCallReturns`
  is about a bounded number of calls: a loop repeats only because another call got on.
* Buffers: threads go on (weak); the kernel completes each send (strong, because the
  step waits for a thread).
* Table: a worker with work does it (weak); its loop comes to `CheckSessions`
  again and again between jobs (strong).
* Connection: time passes, both loops run, and a datagram that is not lost arrives
  within `Delay`.

* Relay: every thread goes on, and a session whose gateway is gone times out
  (weak, for all steps together: scripts are finite and each step uses
  something up).
* Process: every thread goes on (weak). A logic thread leaves `InnerDispatch`
  only when it finds the completion queue empty; that it does in the end
  (strong) says that the echo servers do not send without a pause.
  Nothing else guarantees that `Stop` ends the gateway.

### Assumptions about the environment

* A session id is not used again within a run (`GenerateId` draws 32 bits at
  random and draws again only while the id is in use).
* `awaysConnect_` and `readyDisconnect_` are never set by the code; the branches that
  read them are not taken.
* A client repeats SESSION at most `DEFAULT_REQUEST_CONNECT_NO` times.
* In `Connection`, one unit of time is one in which both loops come round; ping numbers stop
  growing at `MaxPing`. A new session is a newly constructed `Session`, as `ObjectPool` makes it.

## 5. Proofs

Each proof holds for every value of the constants that the named assumptions
allow.

* **`LockFreeProofs`** – the lock, the ring and the buffers.
  The lock (`LockAssumption`: finitely many threads, fewer than READ can
  count): `MutualExclusion` is not inductive, since a reader about to swap might have
  loaded anything. `LockInvariant` adds that the word counts the readers
  (`CountAgreement`) and that a reader about to swap saw no write bits
  (`LoadedNoWriter`); so a swap that succeeds finds the word as it was loaded,
  without a writer. The count of readers uses the cardinality facts of
  `FiniteSetTheorems`. Theorems `LockSafe`, `LockExcludes`, `LockCounts`,
  `ReadUnLockAsserts`.
  The ring (`RingBufferAssumption`: finitely many threads, at least two nodes; the
  code has 64. With a single node the `seq` that says filled would be the one
  that lets the next push in): `RingInv` says that a thread which saw its ticket's
  turn come still has it if its swap succeeds, that from the swap to the store of
  `seq` the node is that thread's alone (`PushesInTurn`, `PopsInTurn`,
  `OneTicketEach`), and that a node whose `seq` says filled holds the value of
  that ticket (`FilledNodesAreTickets`). Tickets less than a lap apart have
  different nodes, so no store touches the `seq` another thread relies on. Theorems `RingSafe`,
  `PopsMatchPushes`, `DataIsRaceFree`.
  The buffers (any sets of buffers and threads): `BufferInvariant` says who has a
  share of each buffer and that the bits tell it: `LockHeld` (a thread in a
  locked section holds the lock, and only one), `HandsFull` (a thread that needs a buffer has one), `SlotIsStable` (a slot read
  under the lock does not change before it is used), `OneShareEach`,
  `ReturnerIsAlone` (the thread that decided to return a buffer is its last
  user) and `BitsTellShares`. From it `BufferReturnedOnce`,
  `BufferNotFreedInUse` and `BufferInOneSend`. `BufferNotLost` adds
  `RELIABLEIsKept`: a buffer the kernel still has and whose RELIABLE bit is set is
  a slot's, or abandoned. The two places that abandon a buffer (an old ping,
  InternalClient's packet without a slot) are the exceptions it names.
* **`ReliableStreamProofs`** (`SeqModAssumption`, `SenderAssumption`) –
  arithmetic modulo `SeqMod`, slots modulo `Window`, and the sender's steps,
  for both streams. Numbers wrap, so the invariants speak of packets:
  `Wire(n)` is the number packet n carries. `SenderInvariant` says that the
  window starts at some packet b, that every kept packet lies in
  `b .. b + Window - 1`, in its own slot and under its own number, that
  whatever was sent beyond the window has overflowed, and that a datagram or ACK
  under way is less than `SeqMod - Window` packets old, so that its number is
  not taken for another's (`InFlight`). `Lead` bounds how far the sender is ahead of the
  receiver, which turns each distance modulo `SeqMod` that the code compares
  into a distance of packets.
* **`OrderedChannelProofs`** – `ChannelTypeCorrect`: the types, and that a
  slot marked as kept is never empty. `CacheDrains`: the action property
  `CacheOnlyDrainsToDelivery`. Its invariant adds `CacheWithinReach`: a cached
  packet lies ahead of the next expected number, at its own slot, and within the
  distance to the highest number. Two numbers within one window never share a slot, so a
  new early packet finds either a free slot or itself.
  The other theorems rest on `ChannelInvariant`: `SenderInvariant`; the receiver
  has handed over packets 1 to d in order, and its cache, bits and highest number
  describe the same packets between d + 2 and d + `Window` - 1 (`ReceiverAt`);
  what the sender accepted is kept or received; only what was received is
  acknowledged. `AcceptedSafe` (no ACK releases a slot whose packet has not arrived),
  `KeptIsRepeated`, `KeptIsAcceptable`, `CacheAgrees`, and `ChannelIsFifo`:
  the channel implements `FifoDelivery`, where a send is the abstract send, the
  loop that empties the cache is one abstract step that delivers a stretch, and every
  other step is a stutter.
* **`UnorderedStreamProofs`** (and `AcceptAssumption`) – `StreamTypeCorrect`, for reliable and
  unreliable packets. `StreamInvariant` is the same argument with a mask in
  place of the cache (`StreamAt`), and for unreliable packets that nothing newer
  than the last one handled has been handled. `MaskAgrees`,
  `StreamDeliversOnce` (the stream implements `OnceDelivery`) and
  `UnreliableOnlyNewer` (the action property `OnlyNewer`).
* **`ChunkStreamProofs`** (`ChunkAssumption`; any number of sending threads, any
  number and length of messages, any width of the flag). `ChunkInv` says that there is a
  function the receiver does not have, the chunks of every message that have come,
  such that: every packet on its way has a number between the first and the last
  of its message, and is a chunk that has not come if the message is alone
  (`PacketsAreWanted`); every chunk sent is on its way, has come or was dropped
  (`NoneIsLost`); a message that is alone so far has consecutive numbers
  (`NumbersFollow`). Whatever its flag, the number a chunk leads the receiver to
  lies between the first and the last of its message (`StartIsSpanned`), and a message sent alone
  shares these with nobody (`NoSharedNumber`). So the records of interleaved or too
  long messages, whatever they hold, are elsewhere (`RecordsInSpan`,
  `ChunksInSpan`), while a message sent alone has, at its first number, the record
  that its chunks so far determine (`OwnRecords`). `ParsedAgree`: it is parsed, once, when
  all of them have come. A message may cease to be alone, when another that was begun before it
  goes on, but none becomes so (`AloneBefore`). The lemmas on the
  flag (`LowestIsIndex`, `RecordGrows`, `PullWhenWhole`) carry it. Theorems
  `ChunksSafe`, `ChunksParsedWhole`, `ChunksLeaveNothing`, which need no
  hypothesis on the senders or on the sizes.

* **`RelayProofs`** (`RelayAssumption`, and `LostAssumption`: the place a lost
  packet leaves is not a message; any number of clients, internal clients
  and sessions). Four invariants, each of which uses those before it.
  `ConnectionListIsCurrent` is not inductive: the entry a
  Register makes depends on the link it came out of. `RelayInv` adds that the
  session of an internal client is in use and its own (`InnerIsCurrent`), that
  a message is only ever in the link of an echo session whose internal client
  serves its author, and that a free session's link is empty (`LinksAreRouted`),
  so that a pooled object is not registered for its predecessor's messages.
  `WayBackInv`: on the way back a bot message is marked for its author, or is
  already in his own link. `HomeInv`: what concerns a client is in one echo session, that of
  its internal client as long as the client lives. `OrderInv` takes an author and
  a reader: the numbers of the author's chats rise in every link, and of two of
  the six stages between them (read, gateway to reader, copies, broadcast under way,
  links to the server, author to gateway) the one further on has the older chats.
  That every stage is a single queue follows from `HomeInv`; that a chat leaves a
  broadcast before the next one enters, from the handler's loop.
  Theorems `RelaySafe`, `BroadcastSessionsAreCurrent`, `WayBackSafe`,
  `BotMessagesGoHome`, `ChatsKeepTheirOrder`.
* **`SessionTableProofs`** (`TableAssumption`; any number of workers, sessions,
  clients and addresses). `TableAgreement` and
  `NotedIsStillLate` are not inductive: what a worker found under one hold of
  `sessionLock_` could be undone by another before its next. `TableInv` adds that a
  queue has only datagrams whose id leads to that worker (`QueuesAreRouted`),
  that a worker notes only sessions it looks after (`NotedIsOwned`), and that an
  object is in `sessionMap_` once, under its own id (`IdsAgree`). So nobody else
  refreshes, moves or removes what a worker noted or is about to move; only the new address
  is open to all, which `clashed` records. Theorems `TableSafe`, `MapsAgree`,
  `NotedStaysLate` and `OnlyTheLateEnd` (the action property).
* **`ServerProcessProofs`** (`ProcessAssumption`; any number of threads, any capacity of the
  queues). There
  is no order of the locks that all jobs keep: a worker takes `lock_` under
  `sessionLock_`, a logic thread the reverse. `LockOrder` says what a job may still
  want while it holds a lock: nothing under `sendLock_`, only `sendLock_` under
  `connectionLock_`, only `connectionLock_` under a write of `sessionLock_`, and
  under `lock_` only a read of `sessionLock_`, or `sendLock_`. In a circle of
  waiting threads, then, nobody wants `sendLock_`, hence nobody
  `connectionLock_`, hence nobody to read `sessionLock_` (only a writer blocks
  a reader), hence nobody `lock_`, hence nobody to write `sessionLock_`.
  Theorems `LocksInOrder`, `ProcessDoesNotDeadlock`.
  `EveryBufferComesBack` needs `CountInv`: besides the count and its types, that a
  thread has a buffer in hand only in a job, and that the threads `main` has
  joined have ended, so that nobody takes a buffer once `main` is at its end.
  `Places` counts two sets, the taken places of the queues and the threads with a full
  hand; each step adds or removes one element of them. `LockOrder` is used
  too: who waits for a lock is in a job. When `EndServer` begins, `useList_` is
  the server socket's buffers and whatever is left in queues, so that what it
  posts covers what it cancels. Theorems `CountSafe`, `BuffersComeBack`.

Only model-checked: liveness (out of the prover's reach, as is ENABLED), and
`StaysConnected` of `Connection`, which depends on how the two timeouts, the delay
and the losses compare and is not proved yet.
Liveness of the reliable streams is checked for the ordered channel only.

The inductive invariants were checked by TLC on the runs' instances before they
were proved.

## 6. Not modelled

* The pools, the header's bytes and CRC (a corrupt datagram is a lost one),
  Winsock and IOCP calls, configuration, log, crash dump, demo programs, tests,
  generated code.
* `CachePacketManager`, `GatewayServer::Broadcast` and `SendEchoMessage`, which
  nobody calls; the statistics of `TEST_MODE`.
* The console, the bots and the two threads of the echo client's `main`.
* A client that reconnects with its streams reset to a session whose streams
  are not.

## 7. Plan

Done: the streams, buffers, lock, ring, chunks, table, connection, relay and
process above. Next, in order:

1. Proofs: `StaysConnected`, with the condition on the timeouts it needs.
2. `Reconnect`: `Connection` composed with a stream, one end reset and the other not, and
   late datagrams of the former connection.

## 8. How to run

`tlc -config <Run>.cfg <module>` with the module named in `PROJECT.json` (the
component's own, `MCChunkStream`, `MCSessionTable` or
`MCRelay`), and
`tlapm <Module>.tla` for the eight modules whose name ends in `Proofs`.
