------------------------ MODULE ServerProcessProofs ------------------------
(***************************************************************************)
(* The threads of a server process do not deadlock, for any number of      *)
(* receive, worker and logic threads.                                      *)
(*                                                                         *)
(* There is no order of the locks that every job keeps: lock_ comes after  *)
(* sessionLock_ in a worker and before it in a logic thread.  LockOrder    *)
(* says what a job may still want while it holds a lock.  From it, nobody  *)
(* in a circle can be waiting for sendLock_, then nobody for               *)
(* connectionLock_, then nobody for a read of sessionLock_, then nobody    *)
(* for lock_, and last nobody for a write of sessionLock_.                 *)
(*                                                                         *)
(* And no buffer stays in use: CountInv follows the count of useList_      *)
(* through every step, up to the end of main.                              *)
(***************************************************************************)
EXTENDS ServerProcess, FiniteSetTheorems, TLAPS

Hold == [lock : {"sessionLock_", "connectionLock_", "lock_", "sendLock_"},
         mode : {"read", "write"}]

\* What a job may want (`later`) while it holds `h`.
MayFollow(h, later) ==
  /\ h.lock # "sendLock_"
  /\ h.lock = "connectionLock_" => later.lock = "sendLock_"
  /\ h = Write("sessionLock_") => later.lock = "connectionLock_"
  /\ h.lock = "lock_" => later = Read("sessionLock_") \/ later.lock = "sendLock_"
  /\ h.lock = "sessionLock_" => later.lock # "sessionLock_"

IsJob(locks) ==
  /\ locks \in Seq(Hold)
  /\ \A i, k \in 1 .. Len(locks) : i < k => MayFollow(locks[i], locks[k])

LockOrder ==
  /\ DOMAIN at = Thread
  /\ job \in [Thread -> Seq(Hold)]
  /\ got \in [Thread -> Nat]
  /\ \A t \in Thread :
       /\ IsJob(job[t])
       /\ got[t] <= Len(job[t])
       /\ at[t] # "job" => job[t] = << >>

-----------------------------------------------------------------------------

\* The locks in both modes are holds.
LEMMA HoldTypes ==
  /\ Read("sessionLock_") \in Hold /\ Write("sessionLock_") \in Hold
  /\ Read("connectionLock_") \in Hold /\ Write("connectionLock_") \in Hold
  /\ Write("lock_") \in Hold /\ Write("sendLock_") \in Hold
BY DEF Hold, Read, Write

\* A job that takes no lock.
LEMMA NoLock == IsJob(<< >>)
BY DEF IsJob

\* A job of one lock.
LEMMA OneLock == ASSUME NEW a \in Hold PROVE IsJob(<<a>>)
BY DEF IsJob

\* A job of two locks.
LEMMA TwoLocks ==
  ASSUME NEW a \in Hold, NEW b \in Hold, MayFollow(a, b)
  PROVE  IsJob(<<a, b>>)
<1> DEFINE s == <<a, b>>
<1>1. s \in Seq(Hold) /\ Len(s) = 2 /\ s[1] = a /\ s[2] = b
  OBVIOUS
<1> HIDE DEF s
<1>2. \A i, k \in 1 .. Len(s) : i < k => i = 1 /\ k = 2
  BY <1>1
<1>3. IsJob(s)
  BY <1>1, <1>2 DEF IsJob
<1> QED
  BY <1>3 DEF s

\* A job of three locks.
LEMMA ThreeLocks ==
  ASSUME NEW a \in Hold, NEW b \in Hold, NEW c \in Hold,
         MayFollow(a, b), MayFollow(a, c), MayFollow(b, c)
  PROVE  IsJob(<<a, b, c>>)
<1> DEFINE s == <<a, b, c>>
<1>1. s \in Seq(Hold) /\ Len(s) = 3 /\ s[1] = a /\ s[2] = b /\ s[3] = c
  OBVIOUS
<1> HIDE DEF s
<1>2. \A i, k \in 1 .. 3 :
        i < k => (i = 1 /\ k = 2) \/ (i = 1 /\ k = 3) \/ (i = 2 /\ k = 3)
  OBVIOUS
<1>3. IsJob(s)
  BY <1>1, <1>2 DEF IsJob
<1> QED
  BY <1>3 DEF s

\* What ProcessPacket, CheckSessions and OnRecvFrom take is in order.
LEMMA JobsAreInOrder ==
  \A locks \in PacketJobs \cup CheckJobs \cup AnswerJobs : IsJob(locks)
<1>1. IsJob(<<Write("sessionLock_")>>) /\ IsJob(<<Read("sessionLock_")>>)
      /\ IsJob(<<Write("lock_")>>)
  BY HoldTypes, OneLock
<1>2. /\ MayFollow(Read("sessionLock_"), Write("sendLock_"))
      /\ MayFollow(Read("sessionLock_"), Write("lock_"))
      /\ MayFollow(Read("sessionLock_"), Write("connectionLock_"))
      /\ MayFollow(Read("sessionLock_"), Read("connectionLock_"))
      /\ MayFollow(Read("connectionLock_"), Write("sendLock_"))
      /\ MayFollow(Write("sessionLock_"), Write("connectionLock_"))
      /\ MayFollow(Write("lock_"), Read("sessionLock_"))
      /\ MayFollow(Write("lock_"), Write("sendLock_"))
  BY DEF MayFollow, Read, Write
<1>3. /\ IsJob(<<Read("sessionLock_"), Write("sendLock_")>>)
      /\ IsJob(<<Read("sessionLock_"), Write("lock_")>>)
      /\ IsJob(<<Read("sessionLock_"), Write("connectionLock_")>>)
      /\ IsJob(<<Write("sessionLock_"), Write("connectionLock_")>>)
  BY <1>2, HoldTypes, TwoLocks
<1>4. /\ IsJob(<<Read("sessionLock_"), Read("connectionLock_"), Write("sendLock_")>>)
      /\ IsJob(<<Write("lock_"), Read("sessionLock_"), Write("sendLock_")>>)
  BY <1>2, HoldTypes, ThreeLocks
<1> QED
  BY <1>1, <1>3, <1>4, Zenon DEF PacketJobs, CheckJobs, AnswerJobs

-----------------------------------------------------------------------------

\* At the start no thread is in a job.
LEMMA LockOrderInit == Init => LockOrder
<1> SUFFICES ASSUME Init PROVE LockOrder
  OBVIOUS
<1>3. DOMAIN at = Thread
  BY DEF Init
<1>4. job \in [Thread -> Seq(Hold)] /\ got \in [Thread -> Nat]
  BY DEF Init
<1>2. \A t \in Thread : job[t] = << >> /\ got[t] = 0
  BY DEF Init
<1> QED
  BY <1>2, <1>3, <1>4, NoLock DEF LockOrder

\* A thread moves in its loop, outside a job.
LEMMA GoToOrder ==
  ASSUME LockOrder, NEW t \in Thread, NEW next, GoTo(t, next), at[t] # "job"
  PROVE  LockOrder'
BY DEF LockOrder, GoTo, lockVars

\* It begins a job.
LEMMA BeginOrder ==
  ASSUME LockOrder, NEW t \in Thread, NEW locks, IsJob(locks), Begin(t, locks), at[t] # "job"
  PROVE  LockOrder'
<1>1. locks \in Seq(Hold) /\ Len(locks) \in Nat
  BY DEF IsJob
<1>2. got[t] = 0
  BY DEF LockOrder
<1>3. /\ DOMAIN at' = Thread /\ job' \in [Thread -> Seq(Hold)]
      /\ got' = got /\ got \in [Thread -> Nat]
  BY <1>1 DEF LockOrder, Begin
<1>4. ASSUME NEW u \in Thread
      PROVE  /\ IsJob(job'[u]) /\ got'[u] <= Len(job'[u])
             /\ at'[u] # "job" => job'[u] = << >>
  BY <1>1, <1>2, <1>3 DEF LockOrder, Begin
<1> QED
  BY <1>3, <1>4 DEF LockOrder

\* A thread takes the next lock of its job.
LEMMA AcquireOrder ==
  ASSUME LockOrder, NEW t \in Thread, Acquire(t)
  PROVE  LockOrder'
<1>1. Len(job[t]) \in Nat
  BY DEF LockOrder
<1> QED
  BY <1>1 DEF LockOrder, Acquire, Waits

\* A thread gives its locks back.
LEMMA ReleaseOrder ==
  ASSUME LockOrder, NEW t \in Thread, NEW next, Release(t, next)
  PROVE  LockOrder'
BY NoLock DEF LockOrder, Release

\* Every step of a worker keeps LockOrder.
LEMMA WorkerOrder ==
  ASSUME LockOrder, NEW w \in Workers, Worker(w)
  PROVE  LockOrder'
<1> w \in Thread
  BY DEF Thread
<1>1. CASE WorkerCheck(w)
  BY <1>1, GoToOrder DEF WorkerCheck
<1>2. CASE ProcessPacket(w)
  BY <1>2, BeginOrder, JobsAreInOrder DEF ProcessPacket
<1>3. CASE CheckSessions(w)
  BY <1>3, GoToOrder, BeginOrder, JobsAreInOrder DEF CheckSessions
<1>4. CASE Acquire(w)
  BY <1>4, AcquireOrder
<1>5. CASE WorkerFinish(w)
  BY <1>5, ReleaseOrder DEF WorkerFinish
<1>6. CASE ReturnBuffers(w)
  <2>1. CASE UNCHANGED <<at, lockVars>>
    BY <2>1 DEF LockOrder, lockVars
  <2>2. CASE GoTo(w, "ended")
    BY <1>6, <2>2, GoToOrder DEF ReturnBuffers
  <2> QED
    BY <1>6, <2>1, <2>2 DEF ReturnBuffers
<1> QED
  BY <1>1, <1>2, <1>3, <1>4, <1>5, <1>6 DEF Worker

\* And every step of a logic thread.
LEMMA LogicOrder ==
  ASSUME LockOrder, NEW l \in Logics, Logic(l)
  PROVE  LockOrder'
<1> l \in Thread
  BY DEF Thread
<1>1. CASE LogicCheck(l)
  BY <1>1, GoToOrder DEF LogicCheck
<1>2. CASE OnRecvFrom(l)
  <2>1. CASE UNCHANGED <<at, lockVars>>
    BY <2>1 DEF LockOrder, lockVars
  <2>2. CASE \E locks \in AnswerJobs : Begin(l, locks)
    BY <1>2, <2>2, BeginOrder, JobsAreInOrder DEF OnRecvFrom
  <2> QED
    BY <1>2, <2>1, <2>2 DEF OnRecvFrom
<1>3. CASE CheckPending(l)
  BY <1>3, BeginOrder, JobsAreInOrder DEF CheckPending, AnswerJobs
<1>4. CASE Acquire(l)
  BY <1>4, AcquireOrder
<1>5. CASE LogicFinish(l)
  BY <1>5, ReleaseOrder DEF LogicFinish
<1> QED
  BY <1>1, <1>2, <1>3, <1>4, <1>5 DEF Logic

\* Every step of the process keeps LockOrder: main takes no locks.
LEMMA LockOrderStep == LockOrder /\ [Next]_vars => LockOrder'
<1> SUFFICES ASSUME LockOrder, [Next]_vars PROVE LockOrder'
  OBVIOUS
<1>1. CASE UNCHANGED <<at, lockVars>>
  BY <1>1 DEF LockOrder, lockVars
<1>2. CASE UNCHANGED vars
  BY <1>1, <1>2 DEF vars
<1>3. CASE Main
  <2>1. UNCHANGED <<at, lockVars>>
    BY <1>3 DEF Main, Stop, StopWorkers, Join, EndClients, DestroySessions, EndServer
  <2> QED
    BY <1>1, <2>1
<1>4. ASSUME NEW r \in Receivers, Receiver(r) PROVE LockOrder'
  <2> r \in Thread
    BY DEF Thread
  <2> QED
    BY <1>4, GoToOrder DEF Receiver, ReceiverCheck, RecvFromComplete, DispatchNothing
<1>5. ASSUME NEW t \in Thread, UseSlots(t) PROVE LockOrder'
  BY <1>1, <1>5 DEF UseSlots
<1> QED
  BY <1>2, <1>3, <1>4, <1>5, WorkerOrder, LogicOrder DEF Next

-----------------------------------------------------------------------------

\* What a waiting thread wants may follow whatever it holds.
LEMMA WantedMayFollow ==
  ASSUME LockOrder, NEW t \in Thread, Waits(t)
  PROVE  /\ Wanted(t) \in Hold
         /\ \A h \in Held(t) : MayFollow(h, Wanted(t))
<1>1. /\ Len(job[t]) \in Nat /\ got[t] \in Nat /\ got[t] < Len(job[t])
      /\ job[t] \in Seq(Hold)
  BY DEF LockOrder, Waits
<1>2. got[t] + 1 \in 1 .. Len(job[t])
  BY <1>1
<1>3. Wanted(t) \in Hold
  BY <1>1, <1>2 DEF Wanted
<1>4. ASSUME NEW i \in 1 .. got[t] PROVE MayFollow(job[t][i], Wanted(t))
  <2>1. i \in 1 .. Len(job[t]) /\ i < got[t] + 1
    BY <1>1
  <2> QED
    BY <1>2, <2>1 DEF LockOrder, IsJob, Wanted
<1> QED
  BY <1>3, <1>4 DEF Held

\* LockOrder leaves no circle.
LEMMA OrderLeavesNoCircle == LockOrder => NoDeadlock
<1> SUFFICES ASSUME LockOrder,
                    NEW circle \in SUBSET Thread, circle # {},
                    \A t \in circle : Waits(t) /\ \E u \in circle : Blocks(u, Wanted(t))
             PROVE  FALSE
  BY DEF NoDeadlock
<1>1. \A t \in circle : Wanted(t) \in Hold /\ \A h \in Held(t) : MayFollow(h, Wanted(t))
  BY WantedMayFollow
<1>2. ASSUME NEW t \in circle
      PROVE  \E u \in circle : \E h \in Held(u) :
               h.lock = Wanted(t).lock /\ (Wanted(t).mode = "read" => h = Write(h.lock))
  <2>1. PICK u \in circle : Blocks(u, Wanted(t))
    OBVIOUS
  <2>2. CASE Write(Wanted(t).lock) \in Held(u)
    <3>1. Write(Wanted(t).lock).lock = Wanted(t).lock
      BY DEF Write
    <3> QED
      BY <2>2, <3>1
  <2>3. CASE Wanted(t).mode = "write" /\ Holds(u, Wanted(t).lock)
    BY <2>3 DEF Holds
  <2> QED
    BY <2>1, <2>2, <2>3 DEF Blocks
<1>3. \A t \in circle : Wanted(t).lock # "sendLock_"
  BY <1>1, <1>2 DEF MayFollow
<1>4. \A t \in circle : Wanted(t).lock # "connectionLock_"
  BY <1>1, <1>2, <1>3 DEF MayFollow
<1>5. \A t \in circle : Wanted(t) # Read("sessionLock_")
  <2> SUFFICES ASSUME NEW t \in circle, Wanted(t) = Read("sessionLock_") PROVE FALSE
    OBVIOUS
  <2>1. Wanted(t).lock = "sessionLock_" /\ Wanted(t).mode = "read"
    BY DEF Read
  <2>2. PICK u \in circle : \E h \in Held(u) : h = Write("sessionLock_")
    BY <1>2, <2>1
  <2> QED
    BY <1>1, <1>4, <2>2 DEF MayFollow
<1>6. \A t \in circle : Wanted(t).lock # "lock_"
  BY <1>1, <1>2, <1>3, <1>5 DEF MayFollow
<1>7. \A t \in circle : Wanted(t).lock # "sessionLock_"
  <2> SUFFICES ASSUME NEW t \in circle, Wanted(t).lock = "sessionLock_" PROVE FALSE
    OBVIOUS
  <2>1. PICK u \in circle : \E h \in Held(u) : h.lock = "sessionLock_"
    BY <1>2
  <2>2. Wanted(u).lock # "sessionLock_"
    BY <1>1, <2>1 DEF MayFollow
  <2>3. Wanted(u).lock \in {"sessionLock_", "connectionLock_", "lock_", "sendLock_"}
    BY <1>1 DEF Hold
  <2> QED
    BY <1>3, <1>4, <1>6, <2>2, <2>3
<1> QED
  BY <1>1, <1>3, <1>4, <1>6, <1>7 DEF Hold

\* What every job holds and wants, in every state of the process.
THEOREM LocksInOrder == Spec => []LockOrder
BY LockOrderInit, LockOrderStep, PTL DEF Spec

\* Threads of a server process never wait for one another in a circle, however
\* many there are: the packet handlers, the session check, the internal
\* clients' answers and their timers.
THEOREM ProcessDoesNotDeadlock == Spec => []NoDeadlock
<1>1. LockOrder => NoDeadlock
  BY OrderLeavesNoCircle
<1> QED
  BY <1>1, LocksInOrder, PTL
-----------------------------------------------------------------------------
(* Buffers                                                                 *)

ProcessTypes ==
  /\ DOMAIN at = Thread
  /\ main \in {"running", "stopWorkers", "joinReceivers", "joinWorkers", "joinLogics",
               "endClients", "destroySessions", "endServer", "ended"}
  /\ hand \in [Thread -> BOOLEAN]
  /\ socket \in [server : Nat, client : Nat]
  /\ queue \in [Workers -> 0 .. QueueCapacity]
  /\ kept \in Nat
  /\ useList \in Int

\* A thread has a buffer in hand only while it works on it.
HandsAreInJobs == \A t \in Thread : hand[t] => at[t] = "job"

\* main has passed Join only for threads that have ended.
JoinedHaveEnded ==
  LET logicsJoined == {"endClients", "destroySessions", "endServer", "ended"}
      workersJoined == {"joinLogics"} \cup logicsJoined
      receiversJoined == {"joinWorkers"} \cup workersJoined
  IN  /\ main \in receiversJoined => Ended(Receivers)
      /\ main \in workersJoined => Ended(Workers)
      /\ main \in logicsJoined => Ended(Logics)

CountInv == ProcessTypes /\ HandsAreInJobs /\ JoinedHaveEnded /\ EveryBufferComesBack

\* Queued and InHand, of any queues `q` and any hands `h`.
Taken(q) == {p \in Workers \X (1 .. QueueCapacity) : p[2] <= q[p[1]]}
Handed(h) == {t \in Thread : h[t]}

\* They are finite sets.
LEMMA CountsAreNumbers ==
  ASSUME NEW q, NEW h
  PROVE  /\ IsFiniteSet(Taken(q)) /\ Cardinality(Taken(q)) \in Nat
         /\ IsFiniteSet(Handed(h)) /\ Cardinality(Handed(h)) \in Nat
<1>1. IsFiniteSet(Thread)
  BY ProcessAssumption DEF Thread
<1>2. IsFiniteSet(Workers) /\ IsFiniteSet(1 .. QueueCapacity)
  <2>1. Workers \subseteq Thread
    BY DEF Thread
  <2> QED
    BY <1>1, <2>1, FS_Subset, FS_Interval, ProcessAssumption
<1>3. IsFiniteSet(Workers \X (1 .. QueueCapacity))
  BY <1>2, FS_Product
<1>4. Taken(q) \subseteq Workers \X (1 .. QueueCapacity) /\ Handed(h) \subseteq Thread
  BY DEF Taken, Handed
<1>5. IsFiniteSet(Taken(q)) /\ IsFiniteSet(Handed(h))
  BY <1>1, <1>3, <1>4, FS_Subset
<1> QED
  BY <1>5, FS_CardinalityType

\* A packet more in one queue is one place more that is taken.
LEMMA TakenOneMore ==
  ASSUME NEW q \in [Workers -> 0 .. QueueCapacity], NEW w \in Workers, q[w] < QueueCapacity,
         NEW r, r = [q EXCEPT ![w] = q[w] + 1]
  PROVE  r \in [Workers -> 0 .. QueueCapacity]
         /\ Cardinality(Taken(r)) = Cardinality(Taken(q)) + 1
<1> DEFINE p == <<w, q[w] + 1>>
<1> QueueCapacity \in Nat
  BY ProcessAssumption
<1>1. r \in [Workers -> 0 .. QueueCapacity]
  OBVIOUS
<1>2. p \in Workers \X (1 .. QueueCapacity) /\ p[1] = w /\ p[2] = q[w] + 1
  OBVIOUS
<1>3. p \notin Taken(q)
  BY <1>2 DEF Taken
<1>4. ASSUME NEW a \in Workers, NEW i \in 1 .. QueueCapacity
      PROVE  <<a, i>> \in Taken(r) <=> <<a, i>> \in Taken(q) \/ (a = w /\ i = q[w] + 1)
  <2>1. <<a, i>> \in Taken(r) <=> i <= r[a]
    BY DEF Taken
  <2>2. <<a, i>> \in Taken(q) <=> i <= q[a]
    BY DEF Taken
  <2> QED
    BY <2>1, <2>2
<1>5. Taken(r) = Taken(q) \cup {p}
  <2>1. ASSUME NEW x \in Workers \X (1 .. QueueCapacity)
        PROVE  x \in Taken(r) <=> x \in Taken(q) \cup {p}
    <3>1. PICK a \in Workers, i \in 1 .. QueueCapacity : x = <<a, i>>
      OBVIOUS
    <3>2. x = p <=> a = w /\ i = q[w] + 1
      BY <3>1
    <3> QED
      BY <1>4, <3>1, <3>2
  <2>2. Taken(r) \subseteq Workers \X (1 .. QueueCapacity)
        /\ Taken(q) \cup {p} \subseteq Workers \X (1 .. QueueCapacity)
    BY <1>2 DEF Taken
  <2> QED
    BY <2>1, <2>2
<1>6. IsFiniteSet(Taken(q))
  BY CountsAreNumbers
<1>7. Cardinality(Taken(q) \cup {p}) = Cardinality(Taken(q)) + 1
  BY <1>3, <1>6, FS_AddElement
<1> QED
  BY <1>1, <1>5, <1>7

\* And one less is one place less.
LEMMA TakenOneLess ==
  ASSUME NEW q \in [Workers -> 0 .. QueueCapacity], NEW w \in Workers, q[w] > 0,
         NEW r, r = [q EXCEPT ![w] = q[w] - 1]
  PROVE  r \in [Workers -> 0 .. QueueCapacity]
         /\ Cardinality(Taken(r)) = Cardinality(Taken(q)) - 1
<1> QueueCapacity \in Nat
  BY ProcessAssumption
<1>1. r \in [Workers -> 0 .. QueueCapacity] /\ r[w] < QueueCapacity
  OBVIOUS
<1>2. q = [r EXCEPT ![w] = r[w] + 1]
  <2> DEFINE s == [r EXCEPT ![w] = r[w] + 1]
  <2>1. DOMAIN q = Workers /\ DOMAIN s = Workers
    OBVIOUS
  <2>2. \A v \in Workers : q[v] = s[v]
    OBVIOUS
  <2>3. q = [v \in Workers |-> q[v]] /\ s = [v \in Workers |-> s[v]]
    BY <2>1
  <2> HIDE DEF s
  <2>4. q = s
    BY <2>2, <2>3
  <2> QED
    BY <2>4 DEF s
<1>3. Cardinality(Taken(q)) = Cardinality(Taken(r)) + 1
  BY <1>1, <1>2, TakenOneMore
<1> QED
  BY <1>1, <1>3, CountsAreNumbers

\* A thread takes a buffer in its hand.
LEMMA HandedOneMore ==
  ASSUME NEW h \in [Thread -> BOOLEAN], NEW t \in Thread, ~h[t],
         NEW g, g = [h EXCEPT ![t] = TRUE]
  PROVE  g \in [Thread -> BOOLEAN] /\ Cardinality(Handed(g)) = Cardinality(Handed(h)) + 1
<1>1. g \in [Thread -> BOOLEAN]
  OBVIOUS
<1>2. Handed(g) = Handed(h) \cup {t} /\ t \notin Handed(h)
  BY DEF Handed
<1>3. Cardinality(Handed(h) \cup {t}) = Cardinality(Handed(h)) + 1
  BY <1>2, FS_AddElement, CountsAreNumbers
<1> QED
  BY <1>1, <1>2, <1>3

\* It gives it away.
LEMMA HandedOneLess ==
  ASSUME NEW h \in [Thread -> BOOLEAN], NEW t \in Thread, h[t],
         NEW g, g = [h EXCEPT ![t] = FALSE]
  PROVE  g \in [Thread -> BOOLEAN] /\ Cardinality(Handed(g)) = Cardinality(Handed(h)) - 1
<1>1. g \in [Thread -> BOOLEAN] /\ ~g[t]
  OBVIOUS
<1>2. h = [g EXCEPT ![t] = TRUE]
  OBVIOUS
<1>3. Cardinality(Handed(h)) = Cardinality(Handed(g)) + 1
  BY <1>1, <1>2, HandedOneMore
<1> QED
  BY <1>1, <1>3, CountsAreNumbers

\* Places, as a sum of these counts.
LEMMA PlacesAre ==
  /\ Places = socket.server + socket.client + kept + Cardinality(Taken(queue))
              + Cardinality(Handed(hand))
  /\ Places' = socket'.server + socket'.client + kept' + Cardinality(Taken(queue'))
               + Cardinality(Handed(hand'))
<1>1. Queued = Taken(queue) /\ InHand = Handed(hand)
  BY DEF Queued, Taken, InHand, Handed
<1>2. Queued' = Taken(queue') /\ InHand' = Handed(hand')
  BY DEF Queued, Taken, InHand, Handed
<1> QED
  BY <1>1, <1>2 DEF Places

\* They are numbers.
LEMMA CountTypes ==
  ASSUME ProcessTypes, ProcessTypes'
  PROVE  /\ useList \in Int /\ useList' \in Int /\ kept \in Nat /\ kept' \in Nat
         /\ socket.server \in Nat /\ socket'.server \in Nat
         /\ socket.client \in Nat /\ socket'.client \in Nat
         /\ Cardinality(Taken(queue)) \in Nat /\ Cardinality(Taken(queue')) \in Nat
         /\ Cardinality(Handed(hand)) \in Nat /\ Cardinality(Handed(hand')) \in Nat
         /\ Places \in Nat /\ Places' \in Nat
<1>1. /\ useList \in Int /\ useList' \in Int /\ kept \in Nat /\ kept' \in Nat
      /\ socket.server \in Nat /\ socket'.server \in Nat
      /\ socket.client \in Nat /\ socket'.client \in Nat
  BY DEF ProcessTypes
<1>2. /\ Cardinality(Taken(queue)) \in Nat /\ Cardinality(Taken(queue')) \in Nat
      /\ Cardinality(Handed(hand)) \in Nat /\ Cardinality(Handed(hand')) \in Nat
  BY CountsAreNumbers
<1>3. Places \in Nat /\ Places' \in Nat
  BY <1>1, <1>2, PlacesAre
<1> QED
  BY <1>1, <1>2, <1>3

\* Every buffer a step of thread `t` takes or returns is one of a place: the
\* count goes on being right, and main has not joined `t`.
LEMMA ThreadCounts ==
  ASSUME CountInv, ProcessTypes', NEW t \in Thread, at[t] # "ended", main' = main,
         \A u \in Thread \ {t} : at'[u] = at[u] /\ hand'[u] = hand[u],
         hand'[t] => at'[t] = "job",
         useList' - useList = Places' - Places
  PROVE  CountInv'
<1>1. HandsAreInJobs'
  BY DEF CountInv, HandsAreInJobs
<1>2. JoinedHaveEnded'
  BY DEF CountInv, JoinedHaveEnded, Ended, Thread
<1>3. main # "ended"
  BY DEF CountInv, JoinedHaveEnded, Ended, Thread
<1>4. useList = Places
  BY <1>3 DEF CountInv, EveryBufferComesBack
<1>5. useList' = Places'
  BY <1>4, CountTypes DEF CountInv
<1> QED
  BY <1>1, <1>2, <1>3, <1>5 DEF CountInv, EveryBufferComesBack

\* A thread that leaves the buffers alone leaves the count right.
LEMMA QuietStep ==
  ASSUME CountInv, NEW t \in Thread, at[t] # "ended", UNCHANGED <<main, bufferVars>>,
         NEW next, at' = [at EXCEPT ![t] = next] \/ (at' = at /\ at[t] = next),
         hand[t] => next = "job"
  PROVE  CountInv'
<1>1. UNCHANGED <<hand, socket, queue, kept, useList>>
  BY DEF bufferVars
<1>2. ProcessTypes'
  BY <1>1 DEF CountInv, ProcessTypes
<1>3. /\ \A u \in Thread \ {t} : at'[u] = at[u] /\ hand'[u] = hand[u]
      /\ hand'[t] => at'[t] = "job"
  BY <1>1 DEF CountInv, ProcessTypes
<1>4. Places' = Places
  BY <1>1, PlacesAre
<1>5. useList' - useList = Places' - Places
  BY <1>1, <1>2, <1>4, CountTypes DEF CountInv
<1> QED
  BY <1>2, <1>3, <1>5, ThreadCounts

\* A thread outside a job has nothing in hand.
LEMMA EmptyHand ==
  ASSUME CountInv, NEW t \in Thread, at[t] # "job"
  PROVE  hand[t] = FALSE
BY DEF CountInv, HandsAreInJobs, ProcessTypes

\* A thread takes a lock: it is in a job.
LEMMA AcquireCounts ==
  ASSUME CountInv, LockOrder, NEW t \in Thread, Acquire(t)
  PROVE  CountInv'
<1>1. at[t] = "job"
  BY DEF Acquire, Waits, LockOrder
<1> QED
  BY <1>1, QuietStep DEF Acquire, controlVars

\* A receive thread pushes a packet to a worker, and registers a new receive.
LEMMA ReceiverCounts ==
  ASSUME CountInv, NEW r \in Receivers, Receiver(r)
  PROVE  CountInv'
<1> r \in Thread
  BY DEF Thread
<1>1. CASE ReceiverCheck(r)
  BY <1>1, EmptyHand, QuietStep DEF ReceiverCheck, GoTo, controlVars
<1>2. CASE DispatchNothing(r)
  BY <1>2, EmptyHand, QuietStep DEF DispatchNothing, GoTo, controlVars
<1>3. CASE RecvFromComplete(r)
  <2>0. /\ at[r] = "dispatch" /\ at' = [at EXCEPT ![r] = "loop"] /\ hand[r] = FALSE
        /\ UNCHANGED <<main, hand, socket, kept>>
    BY <1>3, EmptyHand DEF RecvFromComplete, GoTo, controlVars
  <2>1. CASE UNCHANGED <<queue, useList>>
    BY <2>0, <2>1, QuietStep DEF bufferVars
  <2>2. ASSUME NEW w \in Workers, queue[w] < QueueCapacity,
               queue' = [queue EXCEPT ![w] = queue[w] + 1], useList' = useList + 1
        PROVE  CountInv'
    <3>1. /\ queue' \in [Workers -> 0 .. QueueCapacity]
          /\ Cardinality(Taken(queue')) = Cardinality(Taken(queue)) + 1
      BY <2>2, TakenOneMore DEF CountInv, ProcessTypes
    <3>2. ProcessTypes'
      BY <2>0, <2>2, <3>1 DEF CountInv, ProcessTypes
    <3>3. useList' - useList = Places' - Places
      BY <2>0, <2>2, <3>1, <3>2, PlacesAre, CountTypes DEF CountInv
    <3>4. \A u \in Thread \ {r} : at'[u] = at[u] /\ hand'[u] = hand[u]
      BY <2>0 DEF CountInv, ProcessTypes
    <3> QED
      BY <2>0, <3>2, <3>3, <3>4, ThreadCounts
  <2> QED
    BY <1>3, <2>1, <2>2 DEF RecvFromComplete
<1> QED
  BY <1>1, <1>2, <1>3 DEF Receiver

\* A worker takes packets from its queue, and returns their buffers.
LEMMA WorkerCounts ==
  ASSUME CountInv, LockOrder, NEW w \in Workers, Worker(w)
  PROVE  CountInv'
<1> w \in Thread
  BY DEF Thread
<1>1. CASE WorkerCheck(w)
  BY <1>1, EmptyHand, QuietStep DEF WorkerCheck, GoTo, controlVars
<1>2. CASE ProcessPacket(w)
  <2>0. /\ at[w] = "process" /\ at' = [at EXCEPT ![w] = "job"] /\ hand[w] = FALSE
        /\ queue[w] > 0 /\ queue' = [queue EXCEPT ![w] = queue[w] - 1]
        /\ hand' = [hand EXCEPT ![w] = TRUE]
        /\ UNCHANGED <<main, socket, kept, useList>>
    BY <1>2, EmptyHand DEF ProcessPacket, Begin, controlVars
  <2>1. /\ queue' \in [Workers -> 0 .. QueueCapacity]
        /\ Cardinality(Taken(queue')) = Cardinality(Taken(queue)) - 1
    BY <2>0, TakenOneLess DEF CountInv, ProcessTypes
  <2>2. /\ hand' \in [Thread -> BOOLEAN]
        /\ Cardinality(Handed(hand')) = Cardinality(Handed(hand)) + 1
    BY <2>0, HandedOneMore DEF CountInv, ProcessTypes
  <2>3. ProcessTypes'
    BY <2>0, <2>1, <2>2 DEF CountInv, ProcessTypes
  <2>4. useList' - useList = Places' - Places
    BY <2>0, <2>1, <2>2, <2>3, PlacesAre, CountTypes DEF CountInv
  <2>5. /\ \A u \in Thread \ {w} : at'[u] = at[u] /\ hand'[u] = hand[u]
        /\ at'[w] = "job"
    BY <2>0 DEF CountInv, ProcessTypes
  <2> QED
    BY <2>0, <2>3, <2>4, <2>5, ThreadCounts
<1>3. CASE CheckSessions(w)
  <2>1. at' = [at EXCEPT ![w] = "loop"] \/ at' = [at EXCEPT ![w] = "job"]
    BY <1>3 DEF CheckSessions, GoTo, Begin
  <2> QED
    BY <1>3, <2>1, EmptyHand, QuietStep DEF CheckSessions, controlVars
<1>4. CASE Acquire(w)
  BY <1>4, AcquireCounts
<1>5. CASE WorkerFinish(w)
  <2>0. /\ at[w] = "job"
        /\ at' = [at EXCEPT ![w] = IF hand[w] THEN "process" ELSE "loop"]
        /\ hand' = [hand EXCEPT ![w] = FALSE]
        /\ useList' = IF hand[w] THEN useList - 1 ELSE useList
        /\ UNCHANGED <<main, socket, queue, kept>>
    BY <1>5 DEF WorkerFinish, Working, InJob, Release, controlVars
  <2>1. CASE hand[w]
    <3>1. /\ hand' \in [Thread -> BOOLEAN]
          /\ Cardinality(Handed(hand')) = Cardinality(Handed(hand)) - 1
      BY <2>0, <2>1, HandedOneLess DEF CountInv, ProcessTypes
    <3>2. ProcessTypes'
      BY <2>0, <2>1, <3>1 DEF CountInv, ProcessTypes
    <3>3. useList' - useList = Places' - Places
      BY <2>0, <2>1, <3>1, <3>2, PlacesAre, CountTypes DEF CountInv
    <3>4. /\ \A u \in Thread \ {w} : at'[u] = at[u] /\ hand'[u] = hand[u]
          /\ hand'[w] = FALSE
      BY <2>0 DEF CountInv, ProcessTypes
    <3> QED
      BY <2>0, <3>2, <3>3, <3>4, ThreadCounts
  <2>2. CASE ~hand[w]
    <3>1. hand' = hand
      BY <2>0, <2>2 DEF CountInv, ProcessTypes
    <3> QED
      BY <2>0, <2>2, <3>1, QuietStep DEF bufferVars
  <2> QED
    BY <2>1, <2>2
<1>6. CASE ReturnBuffers(w)
  <2>0. at[w] = "return" /\ hand[w] = FALSE /\ UNCHANGED <<main, hand, socket, kept>>
    BY <1>6, EmptyHand DEF ReturnBuffers, controlVars
  <2>1. CASE GoTo(w, "ended") /\ UNCHANGED <<queue, useList>>
    BY <2>0, <2>1, QuietStep DEF GoTo, bufferVars
  <2>2. CASE /\ queue[w] > 0 /\ queue' = [queue EXCEPT ![w] = queue[w] - 1]
             /\ useList' = useList - 1 /\ UNCHANGED at
    <3>1. /\ queue' \in [Workers -> 0 .. QueueCapacity]
          /\ Cardinality(Taken(queue')) = Cardinality(Taken(queue)) - 1
      BY <2>2, TakenOneLess DEF CountInv, ProcessTypes
    <3>2. ProcessTypes'
      BY <2>0, <2>2, <3>1 DEF CountInv, ProcessTypes
    <3>3. useList' - useList = Places' - Places
      BY <2>0, <2>2, <3>1, <3>2, PlacesAre, CountTypes DEF CountInv
    <3> QED
      BY <2>0, <2>2, <3>2, <3>3, ThreadCounts
  <2> QED
    BY <1>6, <2>1, <2>2 DEF ReturnBuffers
<1> QED
  BY <1>1, <1>2, <1>3, <1>4, <1>5, <1>6 DEF Worker

\* A logic thread takes a buffer from the client socket, and gives it another
\* one for it.
LEMMA LogicCounts ==
  ASSUME CountInv, LockOrder, NEW l \in Logics, Logic(l)
  PROVE  CountInv'
<1> l \in Thread
  BY DEF Thread
<1>1. CASE LogicCheck(l)
  BY <1>1, EmptyHand, QuietStep DEF LogicCheck, GoTo, controlVars
<1>2. CASE OnRecvFrom(l)
  <2>0. /\ at[l] = "dispatch" /\ hand[l] = FALSE /\ socket.client > 0
        /\ UNCHANGED <<main, queue, kept, useList>>
    BY <1>2, EmptyHand DEF OnRecvFrom, controlVars
  <2>1. CASE UNCHANGED <<at, hand, socket>>
    BY <2>0, <2>1, QuietStep DEF bufferVars
  <2>2. CASE /\ hand' = [hand EXCEPT ![l] = TRUE]
             /\ socket' = [socket EXCEPT !.client = socket.client - 1]
             /\ at' = [at EXCEPT ![l] = "job"]
    <3>1. /\ hand' \in [Thread -> BOOLEAN]
          /\ Cardinality(Handed(hand')) = Cardinality(Handed(hand)) + 1
      BY <2>0, <2>2, HandedOneMore DEF CountInv, ProcessTypes
    <3>2. /\ socket' \in [server : Nat, client : Nat]
          /\ socket'.server = socket.server /\ socket'.client = socket.client - 1
      BY <2>0, <2>2 DEF CountInv, ProcessTypes
    <3>3. ProcessTypes'
      BY <2>0, <2>2, <3>1, <3>2 DEF CountInv, ProcessTypes
    <3>4. useList' - useList = Places' - Places
      BY <2>0, <3>1, <3>2, <3>3, PlacesAre, CountTypes DEF CountInv
    <3>5. /\ \A u \in Thread \ {l} : at'[u] = at[u] /\ hand'[u] = hand[u]
          /\ at'[l] = "job"
      BY <2>2 DEF CountInv, ProcessTypes
    <3> QED
      BY <2>0, <3>3, <3>4, <3>5, ThreadCounts
  <2> QED
    BY <1>2, <2>1, <2>2 DEF OnRecvFrom, Begin
<1>3. CASE CheckPending(l)
  BY <1>3, EmptyHand, QuietStep DEF CheckPending, Begin, controlVars
<1>4. CASE Acquire(l)
  BY <1>4, AcquireCounts
<1>5. CASE LogicFinish(l)
  <2>0. /\ at[l] = "job"
        /\ at' = [at EXCEPT ![l] = IF hand[l] THEN "dispatch" ELSE "loop"]
        /\ hand' = [hand EXCEPT ![l] = FALSE]
        /\ socket' = IF hand[l] THEN [socket EXCEPT !.client = socket.client + 1] ELSE socket
        /\ UNCHANGED <<main, queue, kept, useList>>
    BY <1>5 DEF LogicFinish, Working, InJob, Release, controlVars
  <2>1. CASE hand[l]
    <3>1. /\ hand' \in [Thread -> BOOLEAN]
          /\ Cardinality(Handed(hand')) = Cardinality(Handed(hand)) - 1
      BY <2>0, <2>1, HandedOneLess DEF CountInv, ProcessTypes
    <3>2. /\ socket' \in [server : Nat, client : Nat]
          /\ socket'.server = socket.server /\ socket'.client = socket.client + 1
      BY <2>0, <2>1 DEF CountInv, ProcessTypes
    <3>3. ProcessTypes'
      BY <2>0, <2>1, <3>1, <3>2 DEF CountInv, ProcessTypes
    <3>4. useList' - useList = Places' - Places
      BY <2>0, <3>1, <3>2, <3>3, PlacesAre, CountTypes DEF CountInv
    <3>5. /\ \A u \in Thread \ {l} : at'[u] = at[u] /\ hand'[u] = hand[u]
          /\ hand'[l] = FALSE
      BY <2>0 DEF CountInv, ProcessTypes
    <3> QED
      BY <2>0, <3>3, <3>4, <3>5, ThreadCounts
  <2>2. CASE ~hand[l]
    <3>1. hand' = hand
      BY <2>0, <2>2 DEF CountInv, ProcessTypes
    <3> QED
      BY <2>0, <2>2, <3>1, QuietStep DEF bufferVars
  <2> QED
    BY <2>1, <2>2
<1> QED
  BY <1>1, <1>2, <1>3, <1>4, <1>5 DEF Logic

\* A packet is kept, or an ACK releases one.
LEMMA UseSlotsCounts ==
  ASSUME CountInv, NEW t \in Thread, UseSlots(t)
  PROVE  CountInv'
<1>0. at[t] = "job" /\ UNCHANGED <<main, at, hand, socket, queue>>
  BY DEF UseSlots, Working, InJob, controlVars
<1>1. /\ kept' \in Nat
      /\ \/ kept' = kept + 1 /\ useList' = useList + 1
         \/ kept' = kept - 1 /\ useList' = useList - 1
  BY DEF UseSlots, CountInv, ProcessTypes
<1>2. ProcessTypes'
  BY <1>0, <1>1 DEF CountInv, ProcessTypes
<1>3. useList' - useList = Places' - Places
  BY <1>0, <1>1, <1>2, PlacesAre, CountTypes DEF CountInv
<1> QED
  BY <1>0, <1>2, <1>3, ThreadCounts

\* main waits for the threads, and returns what is left with the sockets and in
\* the slots: when it does, no thread has a buffer and EndServer finds in
\* useList_ the buffers of the server's socket and those left in a queue.
LEMMA MainCounts ==
  ASSUME CountInv, Main
  PROVE  CountInv'
<1> USE DEF CountInv
<1>0. UNCHANGED <<at, hand, queue>> /\ main # "ended"
  BY DEF Main, Stop, StopWorkers, Join, EndClients, DestroySessions, EndServer, bufferVars
<1>1. HandsAreInJobs'
  BY <1>0 DEF HandsAreInJobs
<1>2. useList = Places
  BY <1>0 DEF EveryBufferComesBack
<1>3. CASE Stop \/ StopWorkers \/ Join
  <2>1. UNCHANGED <<socket, kept, useList>> /\ main' # "ended"
    BY <1>3 DEF Stop, StopWorkers, Join, bufferVars
  <2>2. main' \in {"stopWorkers", "joinReceivers", "joinWorkers", "joinLogics", "endClients"}
    BY <1>3 DEF Stop, StopWorkers, Join
  <2>3. ProcessTypes'
    BY <1>0, <2>1, <2>2 DEF ProcessTypes
  <2>4. JoinedHaveEnded'
    BY <1>0, <1>3 DEF Stop, StopWorkers, Join, JoinedHaveEnded, Ended
  <2>5. Places' = Places
    BY <1>0, <2>1, PlacesAre
  <2> QED
    BY <1>1, <1>2, <2>1, <2>3, <2>4, <2>5 DEF EveryBufferComesBack
<1>4. CASE EndClients
  <2>1. /\ main' = "destroySessions" /\ useList' = useList - socket.client /\ kept' = kept
        /\ socket' \in [server : Nat, client : Nat]
        /\ socket'.server = socket.server /\ socket'.client = 0
    BY <1>4 DEF EndClients, ProcessTypes
  <2>2. ProcessTypes'
    BY <1>0, <2>1 DEF ProcessTypes
  <2>3. JoinedHaveEnded'
    BY <1>0, <1>4 DEF EndClients, JoinedHaveEnded, Ended
  <2>4. useList' = Places'
    BY <1>0, <1>2, <2>1, <2>2, PlacesAre, CountTypes
  <2> QED
    BY <1>1, <2>1, <2>2, <2>3, <2>4 DEF EveryBufferComesBack
<1>5. CASE DestroySessions
  <2>1. /\ main' = "endServer" /\ useList' = useList - kept /\ kept' = 0 /\ socket' = socket
    BY <1>5 DEF DestroySessions
  <2>2. ProcessTypes'
    BY <1>0, <2>1 DEF ProcessTypes
  <2>3. JoinedHaveEnded'
    BY <1>0, <1>5 DEF DestroySessions, JoinedHaveEnded, Ended
  <2>4. useList' = Places'
    BY <1>0, <1>2, <2>1, <2>2, PlacesAre, CountTypes
  <2> QED
    BY <1>1, <2>1, <2>2, <2>3, <2>4 DEF EveryBufferComesBack
<1>6. CASE EndServer
  <2>1. /\ main' = "ended" /\ kept' = kept
        /\ useList' = useList - (IF useList > socket.server THEN useList ELSE socket.server)
        /\ socket' \in [server : Nat, client : Nat]
    BY <1>6 DEF EndServer, Posted, ProcessTypes
  <2>2. /\ Cardinality(Taken(queue)) \in Nat /\ Cardinality(Handed(hand)) \in Nat
        /\ kept \in Nat /\ socket.server \in Nat /\ socket.client \in Nat
    BY CountsAreNumbers DEF ProcessTypes
  <2>3. useList >= socket.server /\ useList \in Nat
    BY <1>2, <2>2, PlacesAre
  <2>4. useList' = 0
    BY <2>1, <2>2, <2>3
  <2>5. ProcessTypes'
    BY <1>0, <2>1, <2>4 DEF ProcessTypes
  <2>6. JoinedHaveEnded'
    BY <1>0, <1>6 DEF EndServer, JoinedHaveEnded, Ended
  <2> QED
    BY <1>1, <2>1, <2>4, <2>5, <2>6 DEF EveryBufferComesBack
<1> QED
  BY <1>3, <1>4, <1>5, <1>6 DEF Main

\* At the start the sockets have all the buffers.
LEMMA CountInit == Init => CountInv
<1> SUFFICES ASSUME Init PROVE CountInv
  OBVIOUS
<1>1. StartServer \in Nat /\ StartClient \in Nat
  BY ProcessAssumption DEF StartServer, StartClient
<1>2. ProcessTypes
  <2>1. queue \in [Workers -> 0 .. QueueCapacity]
    BY ProcessAssumption DEF Init
  <2> QED
    BY <1>1, <2>1 DEF Init, ProcessTypes
<1>3. HandsAreInJobs /\ JoinedHaveEnded /\ main # "ended"
  BY DEF Init, HandsAreInJobs, JoinedHaveEnded
<1>4. Taken(queue) = {} /\ Handed(hand) = {}
  <2>1. \A w \in Workers, i \in 1 .. QueueCapacity : ~(i <= queue[w])
    BY ProcessAssumption DEF Init
  <2>2. \A p \in Workers \X (1 .. QueueCapacity) : ~(p[2] <= queue[p[1]])
    BY <2>1
  <2>3. \A t \in Thread : ~hand[t]
    BY DEF Init
  <2> QED
    BY <2>2, <2>3 DEF Taken, Handed
<1>5. Cardinality(Taken(queue)) = 0 /\ Cardinality(Handed(hand)) = 0
  BY <1>4, FS_EmptySet
<1>6. Places = StartServer + StartClient
  <2>1. socket.server = StartServer /\ socket.client = StartClient /\ kept = 0
    BY DEF Init
  <2> QED
    BY <1>1, <1>5, <2>1, PlacesAre
<1>7. useList = Places
  BY <1>6 DEF Init
<1> QED
  BY <1>2, <1>3, <1>7 DEF CountInv, EveryBufferComesBack

\* Every step of the process keeps the count.
LEMMA CountStep == LockOrder /\ CountInv /\ [Next]_vars => CountInv'
<1> SUFFICES ASSUME LockOrder, CountInv, [Next]_vars PROVE CountInv'
  OBVIOUS
<1>1. CASE UNCHANGED vars
  <2>1. UNCHANGED <<main, at, hand, socket, queue, kept, useList>>
    BY <1>1 DEF vars, controlVars, bufferVars
  <2>2. Places' = Places
    BY <2>1, PlacesAre
  <2> QED
    BY <2>1, <2>2 DEF CountInv, ProcessTypes, HandsAreInJobs, JoinedHaveEnded, Ended,
                      EveryBufferComesBack
<1> QED
  BY <1>1, MainCounts, ReceiverCounts, WorkerCounts, LogicCounts, UseSlotsCounts DEF Next

\* The count, with what it rests on, in every state of the process.
THEOREM CountSafe == Spec => []CountInv
BY CountInit, CountStep, LocksInOrder, PTL DEF Spec

\* A stopped server process has no buffer in use, however many threads, queues
\* and receives it has and whatever they were doing when Stop came: useList_ is
\* at any time the buffers of the sockets, the queues, the slots and the hands,
\* main returns what the threads leave behind, and EndServer what a receive
\* thread pushed to a worker that had already ended.
THEOREM BuffersComeBack == Spec => []EveryBufferComesBack
<1>1. CountInv => EveryBufferComesBack
  BY DEF CountInv
<1> QED
  BY <1>1, CountSafe, PTL
=============================================================================
