--------------------------- MODULE ServerProcess ---------------------------
(***************************************************************************)
(* The threads of a gateway or echo server process: receive threads, one   *)
(* thread per session worker, the gateway's logic threads and main; the    *)
(* locks they take inside one another, the packet buffers they hand        *)
(* around, and the shutdown from Stop() to EndServer().                    *)
(*                                                                         *)
(* A hold of locks is a job: the locks are taken one after the other and   *)
(* given back together at its end, as giving back never blocks.  lock_ is  *)
(* that of one internal client and sendLock_ that of one session, the case *)
(* with most contention.  Buffers are counted by the place they are in:    *)
(* received ones, and those in the slots of the server's sessions (sends   *)
(* in progress are the subject of PacketBuffer).  PopPacketBuffer makes a  *)
(* new one when list_ is empty, so list_ is not counted.                   *)
(***************************************************************************)
EXTENDS Integers, Sequences, FiniteSets

CONSTANTS
  Receivers,      \* rThreads_
  Workers,        \* sThreads_, each with a SessionWorker
  Logics,         \* lThreads_
  Receives,       \* firstClientCount_, receives registered at the start
  QueueCapacity,  \* capacity of queue_
  MaxKept         \* bound: reliable packets the sessions keep

ASSUME ProcessAssumption ==
  /\ IsFiniteSet(Receivers \cup Workers \cup Logics)
  /\ Receivers \cap Workers = {} /\ Receivers \cap Logics = {} /\ Workers \cap Logics = {}
  /\ Receives \in Nat \ {0}
  /\ QueueCapacity \in Nat
  /\ MaxKept \in Nat

VARIABLES
  program,    \* "gateway" or "echo"
  isRunning,  \* Server::isRunning_
  isStart,    \* SessionWorker::isStart_, by worker
  main,       \* where main is
  at,         \* where every other thread is
  job,        \* the locks a thread takes, in this order, for what it does
  got,        \* how many of them it has
  hand,       \* whether it has a received buffer in hand
  socket,     \* number of buffers with each socket: with the kernel, or in
              \* the completion queue
  queue,      \* buffers in queue_ of each worker
  kept,       \* buffers in slots of sessions
  useList     \* number of buffers in useList_

lockVars == <<job, got>>
bufferVars == <<hand, socket, queue, kept, useList>>
controlVars == <<program, isRunning, isStart, main>>
vars == <<controlVars, at, lockVars, bufferVars>>

Thread == Receivers \cup Workers \cup Logics

-----------------------------------------------------------------------------
(* Locks                                                                   *)

Read(l) == [lock |-> l, mode |-> "read"]
Write(l) == [lock |-> l, mode |-> "write"]

\* ProcessPacket: SESSION and migration, lookup, ACK or bot message, and the
\* handlers that pass a packet on to an internal client, register or broadcast.
PacketJobs ==
  { <<Write("sessionLock_")>>,
    <<Read("sessionLock_")>>,
    <<Read("sessionLock_"), Write("sendLock_")>> }
  \cup IF program = "gateway"
       THEN { <<Read("sessionLock_"), Write("lock_")>> }
       ELSE { <<Read("sessionLock_"), Write("connectionLock_")>>,
              <<Read("sessionLock_"), Read("connectionLock_"), Write("sendLock_")>> }

\* CheckSessions: retransmission, and removal with DestroySession.
CheckJobs ==
  { <<Read("sessionLock_"), Write("sendLock_")>>,
    IF program = "gateway" THEN <<Write("sessionLock_")>>
                           ELSE <<Write("sessionLock_"), Write("connectionLock_")>> }

\* InternalClient::OnRecvFrom: a ping or ACK, or a message for SendToClient.
AnswerJobs ==
  { <<Write("lock_")>>,
    <<Write("lock_"), Read("sessionLock_"), Write("sendLock_")>> }

InJob(t) == at[t] = "job"
Held(t) == {job[t][i] : i \in 1 .. got[t]}
Holds(t, l) == \E h \in Held(t) : h.lock = l
Waits(t) == got[t] < Len(job[t])
Wanted(t) == job[t][got[t] + 1]

Blocks_WriterFirst(u, h) ==
  \/ Write(h.lock) \in Held(u)
  \/ h.mode = "write" /\ Holds(u, h.lock)
  \/ h.mode = "read" /\ Waits(u) /\ Wanted(u) = Write(h.lock)
\* A reader waits for a writer, a writer for everybody; who only waits holds up
\* nobody.
Blocks(u, h) ==
  \/ Write(h.lock) \in Held(u)
  \/ h.mode = "write" /\ Holds(u, h.lock)

Begin(t, locks) ==
  /\ at' = [at EXCEPT ![t] = "job"]
  /\ job' = [job EXCEPT ![t] = locks]
  /\ UNCHANGED got

Acquire(t) ==
  /\ Waits(t)
  /\ \A u \in Thread : ~Blocks(u, Wanted(t))
  /\ got' = [got EXCEPT ![t] = @ + 1]
  /\ UNCHANGED <<controlVars, at, job, bufferVars>>

\* t is in a job and has all its locks.
Working(t) == InJob(t) /\ ~Waits(t)

\* Back to the loop that began the job.
Release(t, next) ==
  /\ at' = [at EXCEPT ![t] = next]
  /\ job' = [job EXCEPT ![t] = << >>]
  /\ got' = [got EXCEPT ![t] = 0]

GoTo(t, next) == at' = [at EXCEPT ![t] = next] /\ UNCHANGED lockVars

-----------------------------------------------------------------------------
(* Buffers                                                                 *)

\* StartServer registers Receives receives, StartClient one.
StartServer == Receives
StartClient == IF program = "gateway" THEN 1 ELSE 0

\* After Initialize and ThreadManager::Start.  The echo server has no client
\* socket, and its logic threads have nothing to do.
Init ==
  /\ program \in {"gateway", "echo"}
  /\ isRunning = TRUE
  /\ isStart = [w \in Workers |-> TRUE]
  /\ main = "running"
  /\ at = [t \in Thread |-> IF t \in Logics /\ program = "echo" THEN "ended" ELSE "loop"]
  /\ job = [t \in Thread |-> << >>]
  /\ got = [t \in Thread |-> 0]
  /\ hand = [t \in Thread |-> FALSE]
  /\ socket = [server |-> StartServer, client |-> StartClient]
  /\ queue = [w \in Workers |-> 0]
  /\ kept = 0
  /\ useList = StartServer + StartClient

\* Under sendLock_ of a session: SendPacket keeps a packet, AckProcess releases
\* one.
UseSlots(t) ==
  /\ Working(t)
  /\ Holds(t, "sendLock_")
  /\ \/ kept < MaxKept /\ kept' = kept + 1 /\ useList' = useList + 1
     \/ kept > 0 /\ kept' = kept - 1 /\ useList' = useList - 1
  /\ UNCHANGED <<controlVars, at, lockVars, hand, socket, queue>>

-----------------------------------------------------------------------------
(* Receive threads: while (IsRunning()) Dispatch()                         *)

ReceiverCheck(r) ==
  /\ at[r] = "loop"
  /\ GoTo(r, IF isRunning THEN "dispatch" ELSE "ended")
  /\ UNCHANGED <<controlVars, bufferVars>>

\* RecvFromComplete and Server::OnRecvFrom: a good datagram goes to a worker's
\* queue, which drops it when it is full; a bad one is returned at once.  Then
\* RecvFrom registers the next receive, with a new buffer.
RecvFromComplete(r) ==
  /\ at[r] = "dispatch"
  /\ \/ \E w \in Workers : /\ queue[w] < QueueCapacity
                           /\ queue' = [queue EXCEPT ![w] = @ + 1]
                           /\ useList' = useList + 1
     \/ UNCHANGED <<queue, useList>>
  /\ GoTo(r, "loop")
  /\ UNCHANGED <<controlVars, hand, socket, kept>>

\* GetQueuedCompletionStatus times out.
DispatchNothing(r) ==
  /\ at[r] = "dispatch"
  /\ GoTo(r, "loop")
  /\ UNCHANGED <<controlVars, bufferVars>>

Receiver(r) ==
  ReceiverCheck(r) \/ RecvFromComplete(r) \/ DispatchNothing(r)

-----------------------------------------------------------------------------
(* Session workers: while (IsStart()) Process(), then ReturnBuffers()      *)

WorkerCheck(w) ==
  /\ at[w] = "loop"
  /\ GoTo(w, IF isStart[w] THEN "process" ELSE "return")
  /\ UNCHANGED <<controlVars, bufferVars>>

ProcessPacket(w) ==
  /\ at[w] = "process"
  /\ queue[w] > 0
  /\ queue' = [queue EXCEPT ![w] = @ - 1]
  /\ hand' = [hand EXCEPT ![w] = TRUE]
  /\ \E locks \in PacketJobs : Begin(w, locks)
  /\ UNCHANGED <<controlVars, socket, kept, useList>>

\* The rest of Process: the check, when it is due.
CheckSessions(w) ==
  /\ at[w] = "process"
  /\ \/ GoTo(w, "loop")
     \/ \E locks \in CheckJobs : Begin(w, locks)
  /\ UNCHANGED <<controlVars, bufferVars>>

WorkerFinish(w) ==
  /\ Working(w)
  /\ Release(w, IF hand[w] THEN "process" ELSE "loop")
  /\ hand' = [hand EXCEPT ![w] = FALSE]
  /\ useList' = IF hand[w] THEN useList - 1 ELSE useList
  /\ UNCHANGED <<controlVars, socket, queue, kept>>

ReturnBuffers(w) ==
  /\ at[w] = "return"
  /\ \/ /\ queue[w] > 0
        /\ queue' = [queue EXCEPT ![w] = @ - 1]
        /\ useList' = useList - 1
        /\ UNCHANGED <<at, lockVars>>
     \/ queue[w] = 0 /\ GoTo(w, "ended") /\ UNCHANGED <<queue, useList>>
  /\ UNCHANGED <<controlVars, hand, socket, kept>>

Worker(w) ==
  \/ WorkerCheck(w) \/ ProcessPacket(w) \/ CheckSessions(w) \/ Acquire(w)
  \/ WorkerFinish(w) \/ ReturnBuffers(w)

-----------------------------------------------------------------------------
(* The gateway's logic threads: while (IsRunning()) InnerDispatch()        *)

LogicCheck(l) ==
  /\ at[l] = "loop"
  /\ GoTo(l, IF isRunning THEN "dispatch" ELSE "ended")
  /\ UNCHANGED <<controlVars, bufferVars>>

\* RecvFromComplete and InternalClient::OnRecvFrom, which works on the buffer
\* itself.  A bad datagram is returned at once.
OnRecvFrom(l) ==
  /\ at[l] = "dispatch"
  /\ socket.client > 0
  /\ \/ /\ hand' = [hand EXCEPT ![l] = TRUE]
        /\ socket' = [socket EXCEPT !.client = @ - 1]
        /\ \E locks \in AnswerJobs : Begin(l, locks)
     \/ UNCHANGED <<at, lockVars, hand, socket>>
  /\ UNCHANGED <<controlVars, queue, kept, useList>>

\* while (Dispatch(1)) ends only when it finds the completion queue empty.
CheckPending(l) ==
  /\ at[l] = "dispatch"
  /\ Begin(l, <<Write("lock_")>>)
  /\ UNCHANGED <<controlVars, bufferVars>>

\* The buffer is returned, and RecvFrom registers the next receive with another.
LogicFinish(l) ==
  /\ Working(l)
  /\ Release(l, IF hand[l] THEN "dispatch" ELSE "loop")
  /\ hand' = [hand EXCEPT ![l] = FALSE]
  /\ socket' = IF hand[l] THEN [socket EXCEPT !.client = @ + 1] ELSE socket
  /\ UNCHANGED <<controlVars, queue, kept, useList>>

Logic(l) ==
  LogicCheck(l) \/ OnRecvFrom(l) \/ CheckPending(l) \/ Acquire(l) \/ LogicFinish(l)

-----------------------------------------------------------------------------
(* main                                                                    *)

\* Server::Stop after ctrl-C: first isRunning_, then the workers.
Stop ==
  /\ main = "running"
  /\ isRunning' = FALSE
  /\ main' = "stopWorkers"
  /\ UNCHANGED <<program, isStart, at, lockVars, bufferVars>>

StopWorkers_ButOne ==
  /\ main = "stopWorkers"
  /\ isStart' = [w \in Workers |-> w = CHOOSE v \in Workers : TRUE]
  /\ main' = "joinReceivers"
  /\ UNCHANGED <<program, isRunning, at, lockVars, bufferVars>>
StopWorkers ==
  /\ main = "stopWorkers"
  /\ isStart' = [w \in Workers |-> FALSE]
  /\ main' = "joinReceivers"
  /\ UNCHANGED <<program, isRunning, at, lockVars, bufferVars>>

Ended(threads) == \A t \in threads : at[t] = "ended"

\* ThreadManager::Join.
Join ==
  /\ \/ main = "joinReceivers" /\ Ended(Receivers) /\ main' = "joinWorkers"
     \/ main = "joinWorkers" /\ Ended(Workers) /\ main' = "joinLogics"
     \/ main = "joinLogics" /\ Ended(Logics) /\ main' = "endClients"
  /\ UNCHANGED <<program, isRunning, isStart, at, lockVars, bufferVars>>

\* ~GatewayServer: Disconnect, Reset and EndClient, which cancels all I/O and
\* drains the completion queue.  ~EchoServer does nothing.
EndClients ==
  /\ main = "endClients"
  /\ useList' = useList - socket.client
  /\ socket' = [socket EXCEPT !.client = 0]
  /\ main' = "destroySessions"
  /\ UNCHANGED <<program, isRunning, isStart, at, lockVars, hand, queue, kept>>

\* ~Server: DestroySession returns the packets a session keeps.
DestroySessions ==
  /\ main = "destroySessions"
  /\ useList' = useList - kept
  /\ kept' = 0
  /\ main' = "endServer"
  /\ UNCHANGED <<program, isRunning, isStart, at, lockVars, hand, socket, queue>>

Posted_None == 0
\* EndServer posts a completion for every buffer in useList_.
Posted == useList

\* It then cancels all I/O and pushes back whatever comes out of the completion
\* queue; a buffer both posted and cancelled comes out, and is pushed, twice.
EndServer ==
  /\ main = "endServer"
  /\ useList' = useList - (IF Posted > socket.server THEN Posted ELSE socket.server)
  /\ socket' = [socket EXCEPT !.server = 0]
  /\ main' = "ended"
  /\ UNCHANGED <<program, isRunning, isStart, at, lockVars, hand, queue, kept>>

Main == Stop \/ StopWorkers \/ Join \/ EndClients \/ DestroySessions \/ EndServer

Next ==
  \/ Main
  \/ \E r \in Receivers : Receiver(r)
  \/ \E w \in Workers : Worker(w)
  \/ \E l \in Logics : Logic(l)
  \/ \E t \in Thread : UseSlots(t)

Spec == Init /\ [][Next]_vars

\* Every thread goes on.  A logic thread leaves InnerDispatch only when it finds
\* the completion queue empty: the echo servers do not send so much that there
\* is always something in it.
FairSpec ==
  /\ Spec
  /\ WF_vars(StopWorkers \/ Join \/ EndClients \/ DestroySessions \/ EndServer)
  /\ \A r \in Receivers : WF_vars(Receiver(r))
  /\ \A w \in Workers : WF_vars(Worker(w))
  /\ \A l \in Logics : WF_vars(Logic(l)) /\ SF_vars(CheckPending(l))

-----------------------------------------------------------------------------
(* Properties                                                              *)

\* No deadlock: there are no threads each of which waits for another of them.
\* Workers take lock_ under sessionLock_ and logic threads sessionLock_ under
\* lock_; only the preference of DUBU::Lock for readers keeps the two from
\* waiting for one another.
NoDeadlock ==
  ~\E circle \in SUBSET Thread :
     /\ circle # {}
     /\ \A t \in circle : Waits(t) /\ \E u \in circle : Blocks(u, Wanted(t))

\* The places in the workers' queues that are taken.
Queued == {p \in Workers \X (1 .. QueueCapacity) : p[2] <= queue[p[1]]}
InHand == {t \in Thread : hand[t]}

Places == socket.server + socket.client + kept + Cardinality(Queued) + Cardinality(InHand)

\* Shutdown returns every buffer, also one a receive thread has pushed to a
\* worker that had already emptied its queue: nothing is in use at the end.
\* Before, useList_ has exactly the buffers that are with a socket, in a queue
\* or in a thread's hand.
EveryBufferComesBack ==
  IF main = "ended" THEN useList = 0 ELSE useList = Places

\* Stop ends the process: nobody waits for a lock or a packet for ever.
StopEnds == ~isRunning ~> main = "ended"
=============================================================================
