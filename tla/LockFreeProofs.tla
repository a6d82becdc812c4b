--------------------------- MODULE LockFreeProofs ---------------------------
(***************************************************************************)
(* The framework's lock-free code.                                         *)
(*                                                                         *)
(* DUBU::Lock excludes, for any number of threads the READ bits can count. *)
(*                                                                         *)
(* DS::RingBuffer hands each value to one pop, in the order of the pushes, *)
(* and no two threads are at one data_, for any number of threads and any  *)
(* ring of at least two nodes.  The argument is about tickets: the seq of  *)
(* a node says which ticket's turn it is, a swap of tail or head gives a   *)
(* ticket to one thread, and only that thread changes the seq until its    *)
(* turn is over.                                                           *)
(*                                                                         *)
(* The two bits of a buffer's type_ are enough, for any number of buffers  *)
(* and threads and for all three programs, as long as every caller of      *)
(* Reset holds the lock: no buffer is returned twice, used after its       *)
(* return, or given to the kernel while the kernel has it, and none is     *)
(* lost, except those that InternalClient sends when the window is full.   *)
(***************************************************************************)
EXTENDS RWLock, RingBuffer, PacketBuffer, FiniteSetTheorems, TLAPS

-----------------------------------------------------------------------------
(* The lock                                                                *)

\* A reader about to swap saw a word without write bits, so a swap that
\* succeeds cannot follow a writer in.
LoadedNoWriter == \A t \in Threads : pc[t] = "readSwap" => expected[t] < ReadLimit

LockInvariant == TypeOK /\ MutualExclusion /\ CountAgreement /\ LoadedNoWriter

\* The readers are a finite set with fewer members than the READ bits count,
\* and the word is positive while there is one.
LEMMA ReadersFit ==
  ASSUME LockInvariant
  PROVE  /\ IsFiniteSet(Readers)
         /\ Cardinality(Readers) \in Nat
         /\ Cardinality(Readers) < ReadLimit
         /\ Cardinality(Readers) = 0 <=> Readers = {}
<1>1. Readers \in SUBSET Threads
  BY DEF Readers
<1>2. IsFiniteSet(Readers) /\ Cardinality(Readers) <= Cardinality(Threads)
  BY <1>1, FS_Subset, LockAssumption
<1>3. Cardinality(Readers) \in Nat /\ Cardinality(Threads) \in Nat
  BY <1>2, FS_CardinalityType, LockAssumption
<1> QED
  BY <1>2, <1>3, FS_EmptySet, LockAssumption

\* Nothing changes for the word when the set of holders does not.
LEMMA SameHolders ==
  ASSUME LockInvariant, count' = count, Readers' = Readers, Writers' = Writers
  PROVE  MutualExclusion' /\ CountAgreement'
BY DEF LockInvariant, MutualExclusion, CountAgreement

\* ReadLock: a reader that gets in leaves the word one higher.
LEMMA ReaderEnters ==
  ASSUME LockInvariant, NEW t \in Threads, ReadLockSwap(t)
  PROVE  LockInvariant'
<1> USE LockAssumption
<1>1. expected[t] < ReadLimit /\ count = expected[t] /\ count' = count + 1
  BY DEF LockInvariant, LoadedNoWriter, ReadLockSwap, SwapIn, Goto
<1>2. TypeOK'
  BY <1>1 DEF LockInvariant, TypeOK, ReadLockSwap, Goto
<1>3. Writers = {}
  BY <1>1 DEF LockInvariant, TypeOK, CountAgreement
<1>4. Writers' = {}
  BY <1>3 DEF LockInvariant, TypeOK, ReadLockSwap, Goto, Writers
<1>5. Readers' = Readers \cup {t} /\ t \notin Readers
  BY DEF LockInvariant, TypeOK, ReadLockSwap, Goto, Readers
<1>6. Cardinality(Readers') = Cardinality(Readers) + 1
  BY <1>5, ReadersFit, FS_AddElement
<1>7. Cardinality(Readers') <= Cardinality(Threads)
  <2>1. Readers' \in SUBSET Threads
    BY DEF Readers
  <2> QED
    BY <2>1, FS_Subset
<1>8. count' = Cardinality(Readers') /\ count' < ReadLimit
  <2>1. count = Cardinality(Readers)
    BY <1>3 DEF LockInvariant, CountAgreement
  <2>2. Cardinality(Threads) \in Nat
    BY FS_CardinalityType
  <2> QED
    BY <1>1, <1>6, <1>7, <2>1, <2>2, ReadersFit
<1>9. MutualExclusion' /\ CountAgreement'
  BY <1>4, <1>8 DEF MutualExclusion, CountAgreement
<1>10. LoadedNoWriter'
  BY DEF LockInvariant, TypeOK, LoadedNoWriter, ReadLockSwap, Goto
<1> QED
  BY <1>2, <1>9, <1>10 DEF LockInvariant

\* ReadUnLock: a reader that leaves finds the word above zero.
LEMMA ReaderLeaves ==
  ASSUME LockInvariant, NEW t \in Threads, ReadUnLock(t)
  PROVE  LockInvariant'
<1> USE LockAssumption
<1>1. t \in Readers /\ pc' = [pc EXCEPT ![t] = "idle"] /\ count' = count - 1
  BY DEF ReadUnLock, Goto, Readers
<1>2. Writers = {}
  BY <1>1 DEF LockInvariant, MutualExclusion
<1>3. count = Cardinality(Readers) /\ count < ReadLimit /\ count > 0
  BY <1>1, <1>2, ReadersFit DEF LockInvariant, CountAgreement
<1>4. TypeOK'
  BY <1>1, <1>3 DEF LockInvariant, TypeOK, ReadUnLock
<1>5. Writers' = {}
  BY <1>1, <1>2 DEF LockInvariant, TypeOK, Writers
<1>6. Readers' = Readers \ {t}
  BY <1>1 DEF LockInvariant, TypeOK, Readers
<1>7. Cardinality(Readers') = Cardinality(Readers) - 1
  BY <1>1, <1>6, ReadersFit, FS_RemoveElement
<1>8. count' = Cardinality(Readers') /\ count' < ReadLimit
  BY <1>1, <1>3, <1>7, ReadersFit
<1>9. MutualExclusion' /\ CountAgreement'
  BY <1>5, <1>8 DEF MutualExclusion, CountAgreement
<1>10. LoadedNoWriter'
  BY <1>1 DEF LockInvariant, TypeOK, LoadedNoWriter, ReadUnLock
<1> QED
  BY <1>4, <1>9, <1>10 DEF LockInvariant

\* WriteLock: a writer gets in only when nobody is.
LEMMA WriterEnters ==
  ASSUME LockInvariant, NEW t \in Threads, WriteLockSwap(t)
  PROVE  LockInvariant'
<1> USE LockAssumption
<1>1. pc[t] = "writeSwap" /\ pc' = [pc EXCEPT ![t] = "writing"]
      /\ count = 0 /\ count' = WRITE /\ expected' = expected
  BY DEF WriteLockSwap, Goto, MayWrite, EMPTY
<1>2. Writers = {} /\ Readers = {}
  BY <1>1, ReadersFit, 0 < ReadLimit DEF LockInvariant, TypeOK, CountAgreement
<1>3. Writers' = {t} /\ Readers' = {}
  BY <1>1, <1>2 DEF LockInvariant, TypeOK, Writers, Readers
<1>4. MutualExclusion' /\ CountAgreement'
  BY <1>1, <1>3 DEF MutualExclusion, CountAgreement
<1>5. TypeOK' /\ LoadedNoWriter'
  BY <1>1 DEF LockInvariant, TypeOK, LoadedNoWriter
<1> QED
  BY <1>4, <1>5 DEF LockInvariant

\* WriteUnLock: the writer was alone, so EMPTY is the truth when it leaves.
LEMMA WriterLeaves ==
  ASSUME LockInvariant, NEW t \in Threads, WriteUnLock(t)
  PROVE  LockInvariant'
<1> USE LockAssumption
<1>1. t \in Writers /\ pc' = [pc EXCEPT ![t] = "idle"] /\ count' = 0
      /\ expected' = expected
  BY DEF WriteUnLock, Goto, EMPTY, Writers
<1>2. Writers = {t} /\ Readers = {}
  BY <1>1 DEF LockInvariant, MutualExclusion
<1>3. Writers' = {} /\ Readers' = {}
  BY <1>1, <1>2 DEF LockInvariant, TypeOK, Writers, Readers
<1>4. Cardinality(Readers') = 0
  BY <1>3, FS_EmptySet
<1>5. ReadLimit > 0
  BY FS_CardinalityType
<1>6. MutualExclusion' /\ CountAgreement'
  BY <1>1, <1>3, <1>4, <1>5 DEF MutualExclusion, CountAgreement
<1>7. TypeOK' /\ LoadedNoWriter'
  BY <1>1 DEF LockInvariant, TypeOK, LoadedNoWriter
<1> QED
  BY <1>6, <1>7 DEF LockInvariant

\* Steps of a thread that is outside and stays outside.
LEMMA WaiterMoves ==
  ASSUME LockInvariant, NEW t \in Threads,
         ReadLock(t) \/ ReadLockLoad(t) \/ ReadLockRetry(t) \/ WriteLock(t)
           \/ WriteLockRetry(t)
  PROVE  LockInvariant'
<1> USE LockAssumption
<1>1. count' = count
  BY DEF ReadLock, ReadLockLoad, ReadLockRetry, WriteLock, WriteLockRetry
<1>2. Readers' = Readers /\ Writers' = Writers
  BY DEF LockInvariant, TypeOK, ReadLock, ReadLockLoad, ReadLockRetry, WriteLock,
         WriteLockRetry, Goto, Readers, Writers
<1>3. TypeOK'
  BY DEF LockInvariant, TypeOK, ReadLock, ReadLockLoad, ReadLockRetry, WriteLock,
         WriteLockRetry, Goto
<1>4. LoadedNoWriter'
  BY DEF LockInvariant, TypeOK, LoadedNoWriter, ReadLock, ReadLockLoad,
         ReadLockRetry, WriteLock, WriteLockRetry, Goto, HasWriteBits
<1> QED
  BY <1>1, <1>2, <1>3, <1>4, SameHolders DEF LockInvariant

\* Init holds the invariant, and every step keeps it.
LEMMA LockInit == Init => LockInvariant
<1> SUFFICES ASSUME Init PROVE LockInvariant
  OBVIOUS
<1>1. Readers = {} /\ Writers = {}
  BY DEF Init, Readers, Writers
<1>2. Cardinality(Readers) = 0 /\ ReadLimit > 0
  BY <1>1, FS_EmptySet, FS_CardinalityType, LockAssumption
<1> QED
  BY <1>1, <1>2 DEF Init, LockInvariant, TypeOK, MutualExclusion, CountAgreement,
                    LoadedNoWriter, EMPTY

\* Every step of ReadLock, WriteLock and their unlocks keeps LockInvariant.
LEMMA LockStep == LockInvariant /\ [Next]_vars => LockInvariant'
<1> SUFFICES ASSUME LockInvariant, [Next]_vars PROVE LockInvariant'
  OBVIOUS
<1>1. CASE UNCHANGED vars
  BY <1>1 DEF vars, LockInvariant, TypeOK, MutualExclusion, CountAgreement,
              LoadedNoWriter, Readers, Writers
<1>2. ASSUME NEW t \in Threads,
             \/ ReadLock(t) \/ ReadLockLoad(t) \/ ReadLockSwap(t)
             \/ ReadLockRetry(t) \/ ReadUnLock(t) \/ WriteLock(t)
             \/ WriteLockSwap(t) \/ WriteLockRetry(t) \/ WriteUnLock(t)
      PROVE  LockInvariant'
  BY <1>2, ReaderEnters, ReaderLeaves, WriterEnters, WriterLeaves, WaiterMoves
<1> QED
  BY <1>1, <1>2 DEF Next

\* Every behaviour of the lock keeps the invariant.
THEOREM LockSafe == Spec => []LockInvariant
BY LockInit, LockStep, PTL DEF Spec

\* A writer that WriteLock let in is alone until its WriteUnLock, for every
\* number of threads.
THEOREM LockExcludes == Spec => []MutualExclusion
<1>1. LockInvariant => MutualExclusion
  BY DEF LockInvariant
<1> QED
  BY <1>1, LockSafe, PTL

\* The word count_ always tells who is in, and the reader count never spills
\* into the write bits.
THEOREM LockCounts == Spec => []CountAgreement
<1>1. LockInvariant => CountAgreement
  BY DEF LockInvariant
<1> QED
  BY <1>1, LockSafe, PTL

\* The assert in ReadUnLock never fails.
THEOREM ReadUnLockAsserts == Spec => []ReadUnLockAssertion
<1>1. ASSUME LockInvariant PROVE ReadUnLockAssertion
  <2> SUFFICES ASSUME Readers # {} PROVE count % ReadLimit > 0
    BY DEF ReadUnLockAssertion
  <2>1. Writers = {}
    BY <1>1 DEF LockInvariant, MutualExclusion
  <2>2. count \in Nat /\ count > 0 /\ count < ReadLimit
    BY <1>1, <2>1, ReadersFit DEF LockInvariant, CountAgreement
  <2> QED
    BY <2>2, LockAssumption
<1> QED
  BY <1>1, LockSafe, PTL

-----------------------------------------------------------------------------
(* The ring: what it means to have a ticket                                *)

Nodes == 0 .. Size - 1

\* Threads that look for a ticket to push with, and those between the swap that
\* gave them a ticket and the store that ends their turn at its node.
Claiming == {t \in Threads : pc[t] \in {"pushLook", "pushReload", "pushSwap"}}
Filling == {t \in Threads : pc[t] \in {"pushData", "pushStore"}}
Emptying == {t \in Threads : pc[t] \in {"popData", "popStore"}}

RingTypes ==
  /\ head \in Nat /\ tail \in Nat /\ pushes \in Nat
  /\ seq \in [Nodes -> Nat]
  /\ data \in [Nodes -> Nat]
  /\ pc \in [Threads -> {"idle", "pushLook", "pushReload", "pushSwap", "pushData", "pushStore",
                         "popLook", "popReload", "popSwap", "popData", "popStore"}]
  /\ pos \in [Threads -> Nat]
  /\ read \in [Threads -> Nat]
  /\ item \in [Threads -> Nat]
  /\ ticketOf \in [Ticket -> Nat]

\* What is popped was pushed, and there is a ticket for every push.
TicketsFit ==
  /\ head <= tail
  /\ tail + Cardinality(Claiming) <= pushes
  /\ pushes <= MaxPush

\* A seq one above a ticket of the node: that ticket was taken and its value is
\* in data_.
FilledNodesAreTickets ==
  \A i \in Nodes : LET n == seq[i] - 1 IN
    seq[i] > 0 /\ Node(n) = i => /\ n < tail
                                 /\ data[i] = ticketOf[n]
                                 /\ data[i] # None

\* A thread that has seen its turn come has it for as long as nobody has taken
\* the ticket; one that took a ticket has its node to itself, empty.
PushesInTurn ==
  \A t \in Threads :
    /\ t \in Claiming => pos[t] <= tail /\ item[t] # None
    /\ pc[t] = "pushSwap" => /\ read[t] = pos[t]
                             /\ pos[t] = tail => seq[Node(tail)] = tail
    /\ t \in Filling => /\ head <= pos[t] /\ pos[t] < tail
                        /\ read[t] = pos[t]
                        /\ seq[Node(pos[t])] = pos[t]
                        /\ item[t] = ticketOf[pos[t]]
                        /\ item[t] # None
    /\ pc[t] = "pushStore" => data[Node(pos[t])] = item[t]

\* The same for pops, whose nodes are filled.
PopsInTurn ==
  \A t \in Threads :
    /\ pc[t] \in {"popLook", "popSwap"} => pos[t] <= head
    /\ pc[t] = "popSwap" /\ pos[t] = head => seq[Node(head)] = head + 1
    /\ t \in Emptying => pos[t] < head /\ seq[Node(pos[t])] = pos[t] + 1
    /\ pc[t] = "popStore" => item[t] = ticketOf[pos[t]] /\ item[t] # None

OneTicketEach ==
  \A t, u \in Threads :
    t # u /\ ({t, u} \subseteq Filling \/ {t, u} \subseteq Emptying) => pos[t] # pos[u]

RingInv ==
  /\ RingTypes
  /\ TicketsFit
  /\ FilledNodesAreTickets
  /\ PushesInTurn
  /\ PopsInTurn
  /\ OneTicketEach

-----------------------------------------------------------------------------
(* Nodes                                                                   *)

\* Division with remainder.
LEMMA TurnAndPlace ==
  ASSUME NEW n \in Nat
  PROVE  \E q \in Nat : n = Size * q + Node(n) /\ Node(n) \in Nodes
<1>1. Size \in Int /\ Size > 0
  BY RingBufferAssumption
<1>2. n = Size * (n \div Size) + (n % Size)
  BY <1>1, Z3
<1>3. n % Size \in Int /\ 0 <= n % Size /\ n % Size < Size
  BY <1>1, Z3
<1>4. n \div Size \in Nat
  BY <1>1, Z3
<1>5. n % Size \in Nodes
  BY <1>1, <1>3 DEF Nodes
<1> QED
  BY <1>2, <1>4, <1>5, Zenon DEF Node

\* The place of a ticket.
LEMMA NodeType == \A n \in Nat : Node(n) \in Nodes /\ Node(n) <= n
<1> SUFFICES ASSUME NEW n \in Nat PROVE Node(n) \in Nodes /\ Node(n) <= n
  OBVIOUS
<1>1. PICK q \in Nat : n = Size * q + Node(n) /\ Node(n) \in Nodes
  BY TurnAndPlace
<1>2. \A r \in Int : n = Size * q + r => r <= n
  BY RingBufferAssumption, Z3
<1> QED
  BY <1>1, <1>2 DEF Nodes

\* Tickets less than a lap apart have different nodes.
LEMMA NodesApart ==
  ASSUME NEW n \in Nat, NEW k \in 1 .. Size - 1
  PROVE  Node(n + k) # Node(n)
<1> SUFFICES ASSUME Node(n + k) = Node(n) PROVE FALSE
  OBVIOUS
<1>1. PICK q \in Nat : n = Size * q + Node(n) /\ Node(n) \in Nodes
  BY TurnAndPlace
<1>2. PICK r \in Nat : n + k = Size * r + Node(n + k)
  BY TurnAndPlace, n + k \in Nat
<1>3. Node(n) \in Int /\ Size \in Int /\ Size >= 2 /\ k \in Int /\ 0 < k /\ k < Size
  BY <1>1, RingBufferAssumption DEF Nodes
<1>4. k = Size * (r - q)
  BY <1>1, <1>2, <1>3, Z3
<1>5. \A z \in Int : Size * z > 0 => Size * z >= Size
  BY <1>3, Z3
<1>6. r - q \in Int
  OBVIOUS
<1> QED
  BY <1>3, <1>4, <1>5, <1>6

\* The two cases that matter: the seq of a filled node is not that of an empty
\* one, and what PopStore stores is that of an empty one.
LEMMA SeqsApart ==
  ASSUME NEW n \in Nat
  PROVE  Node(n + 1) # Node(n) /\ Node(n + Size - 1) # Node(n)
<1>1. 1 \in 1 .. Size - 1 /\ Size - 1 \in 1 .. Size - 1 /\ n + (Size - 1) = n + Size - 1
  BY RingBufferAssumption
<1>2. Node(n + 1) # Node(n) /\ Node(n + (Size - 1)) # Node(n)
  BY <1>1, NodesApart
<1> QED
  BY <1>1, <1>2

-----------------------------------------------------------------------------
(* Whose a node is                                                         *)

\* Two threads between their swap and their store are at different nodes.
LEMMA OwnNode ==
  ASSUME RingInv, NEW t \in Filling \cup Emptying, NEW u \in Filling \cup Emptying, t # u
  PROVE  Node(pos[t]) # Node(pos[u])
<1> SUFFICES ASSUME Node(pos[t]) = Node(pos[u]) PROVE FALSE
  OBVIOUS
<1>1. t \in Threads /\ u \in Threads /\ pos[t] \in Nat /\ pos[u] \in Nat
  BY DEF RingInv, RingTypes, Filling, Emptying
<1>2. \A x \in {t, u} : /\ x \in Filling => seq[Node(pos[x])] = pos[x]
                        /\ x \in Emptying => seq[Node(pos[x])] = pos[x] + 1
  BY <1>1 DEF RingInv, PushesInTurn, PopsInTurn
<1>3. CASE {t, u} \subseteq Filling \/ {t, u} \subseteq Emptying
  BY <1>1, <1>2, <1>3 DEF RingInv, OneTicketEach
<1>4. CASE t \in Filling /\ u \in Emptying
  BY <1>1, <1>2, <1>4, SeqsApart
<1>5. CASE u \in Filling /\ t \in Emptying
  BY <1>1, <1>2, <1>5, SeqsApart
<1> QED
  BY <1>3, <1>4, <1>5

\* Nobody is at the node that a thread is about to take with tail or head.
LEMMA NextNode ==
  ASSUME RingInv, NEW u \in Threads, NEW t \in Filling \cup Emptying
  PROVE  /\ pc[u] = "pushSwap" /\ pos[u] = tail => Node(pos[t]) # Node(tail)
         /\ pc[u] = "popSwap" /\ pos[u] = head => Node(pos[t]) # Node(head)
<1>1. t \in Threads /\ pos[t] \in Nat /\ head \in Nat /\ tail \in Nat
  BY DEF RingInv, RingTypes, Filling, Emptying
<1>2. /\ t \in Filling => seq[Node(pos[t])] = pos[t] /\ pos[t] < tail
      /\ t \in Emptying => seq[Node(pos[t])] = pos[t] + 1 /\ pos[t] < head
  BY <1>1 DEF RingInv, PushesInTurn, PopsInTurn
<1>3. /\ pc[u] = "pushSwap" /\ pos[u] = tail => seq[Node(tail)] = tail
      /\ pc[u] = "popSwap" /\ pos[u] = head => seq[Node(head)] = head + 1
  BY DEF RingInv, PushesInTurn, PopsInTurn
<1>4. \A n \in Nat : Node(n + 1) # Node(n)
  BY SeqsApart
<1> QED
  BY <1>1, <1>2, <1>3, <1>4

-----------------------------------------------------------------------------
(* Steps                                                                   *)

\* The claiming threads are finitely many.
LEMMA ClaimingIsFinite == IsFiniteSet(Claiming) /\ Cardinality(Claiming) \in Nat
<1>1. Claiming \subseteq Threads
  BY DEF Claiming
<1>2. IsFiniteSet(Claiming)
  BY <1>1, FS_Subset, RingBufferAssumption
<1> QED
  BY <1>2, FS_CardinalityType

\* A step of one thread that claims no ticket and stores nothing.
LEMMA QuietStep ==
  ASSUME RingInv, NEW t \in Threads, NEW to,
         pc' = [pc EXCEPT ![t] = to], t \notin Filling \cup Emptying,
         to \in {"idle", "pushLook", "pushReload", "pushSwap", "popLook", "popReload", "popSwap"},
         UNCHANGED <<head, tail, seq, data, ticketOf>>,
         TicketsFit', RingTypes',
         \A u \in Threads : u # t => pos'[u] = pos[u] /\ read'[u] = read[u] /\ item'[u] = item[u],
         t \in Claiming' => pos'[t] <= tail /\ item'[t] # None,
         to = "pushSwap" => /\ read'[t] = pos'[t]
                            /\ pos'[t] = tail => seq[Node(tail)] = tail,
         to \in {"popLook", "popSwap"} => pos'[t] <= head,
         to = "popSwap" /\ pos'[t] = head => seq[Node(head)] = head + 1
  PROVE  RingInv'
<1>1. pc \in [Threads -> {"idle", "pushLook", "pushReload", "pushSwap", "pushData", "pushStore",
                          "popLook", "popReload", "popSwap", "popData", "popStore"}]
  BY DEF RingInv, RingTypes
<1>2. pc'[t] = to /\ \A u \in Threads : u # t => pc'[u] = pc[u]
  BY <1>1
<1>3. Filling' = Filling /\ Emptying' = Emptying
  BY <1>2 DEF Filling, Emptying
<1>4. t \notin Filling' /\ t \notin Emptying'
  BY <1>3
<1>5. FilledNodesAreTickets'
  BY DEF RingInv, FilledNodesAreTickets
<1>6. PushesInTurn'
  <2> SUFFICES ASSUME NEW u \in Threads PROVE PushesInTurn!(u)'
    BY DEF PushesInTurn
  <2>1. CASE u = t
    BY <1>2, <1>4, <2>1
  <2>2. CASE u # t
    <3>1. u \in Claiming' <=> u \in Claiming
      BY <1>2, <2>2 DEF Claiming
    <3> QED
      BY <1>2, <1>3, <2>2, <3>1 DEF RingInv, PushesInTurn
  <2> QED
    BY <2>1, <2>2
<1>7. PopsInTurn'
  <2> SUFFICES ASSUME NEW u \in Threads PROVE PopsInTurn!(u)'
    BY DEF PopsInTurn
  <2>1. CASE u = t
    BY <1>2, <1>4, <2>1
  <2>2. CASE u # t
    BY <1>2, <1>3, <2>2 DEF RingInv, PopsInTurn
  <2> QED
    BY <2>1, <2>2
<1>8. OneTicketEach'
  BY <1>3 DEF RingInv, OneTicketEach
<1> QED
  BY <1>5, <1>6, <1>7, <1>8 DEF RingInv

\* The first state.
LEMMA RingInitInv == RingInit => RingInv
<1> SUFFICES ASSUME RingInit PROVE RingInv
  OBVIOUS
<1>1. Size \in Nat /\ Size >= 2 /\ MaxPush \in Nat
  BY RingBufferAssumption
<1>2. RingTypes
  BY <1>1 DEF RingInit, RingTypes, Nodes, Ticket, None
<1>3. Claiming = {} /\ Filling = {} /\ Emptying = {}
  BY DEF RingInit, Claiming, Filling, Emptying
<1>4. TicketsFit
  BY <1>1, <1>3, FS_EmptySet DEF RingInit, TicketsFit
<1>5. FilledNodesAreTickets
  <2> SUFFICES ASSUME NEW i \in Nodes, seq[i] > 0, Node(seq[i] - 1) = i PROVE FALSE
    BY DEF FilledNodesAreTickets
  <2>1. seq[i] = i /\ i \in Nat /\ i > 0
    BY DEF RingInit, Nodes
  <2>2. i - 1 \in Nat /\ Node(i - 1) = i
    BY <2>1
  <2>3. Node(i - 1) <= i - 1
    BY <2>2, NodeType
  <2> QED
    BY <2>1, <2>2, <2>3
<1>6. PushesInTurn /\ PopsInTurn /\ OneTicketEach
  BY <1>3 DEF RingInit, PushesInTurn, PopsInTurn, OneTicketEach
<1> QED
  BY <1>2, <1>4, <1>5, <1>6 DEF RingInv

\* A call of Push begins: one more thread claims, and one more push is counted.
LEMMA PushInv ==
  ASSUME RingInv, NEW t \in Threads, Push(t)
  PROVE  RingInv'
<1>1. RingTypes
  BY DEF RingInv
<1>2. RingTypes'
  BY <1>1 DEF Push, Goto, RingTypes
<1>3. Claiming' = Claiming \cup {t} /\ t \notin Claiming
  BY <1>1 DEF Push, Goto, RingTypes, Claiming
<1>4. Cardinality(Claiming') = Cardinality(Claiming) + 1
  BY <1>3, ClaimingIsFinite, FS_AddElement
<1>5. TicketsFit'
  BY <1>1, <1>4, ClaimingIsFinite, RingBufferAssumption DEF Push, RingInv, TicketsFit, RingTypes
<1>6. pos'[t] = tail /\ item'[t] # None /\ tail \in Nat
  BY <1>1 DEF Push, RingTypes, None
<1>7. t \notin Filling \cup Emptying
  BY DEF Push, Goto, Filling, Emptying
<1>8. \A u \in Threads : u # t => pos'[u] = pos[u] /\ read'[u] = read[u] /\ item'[u] = item[u]
  BY <1>1 DEF Push, RingTypes
<1>9. PICK to : /\ pc' = [pc EXCEPT ![t] = to]
                /\ to = "pushLook"
                /\ UNCHANGED <<head, tail, seq, data, ticketOf>>
  BY DEF Push, Goto
<1>10. /\ pos'[t] <= tail
       /\ to \in {"idle", "pushLook"} /\ to \notin {"pushSwap", "popLook", "popSwap"}
  BY <1>6, <1>9
<1> QED
  BY <1>2, <1>5, <1>6, <1>7, <1>8, <1>9, <1>10, QuietStep

\* Steps of a call that changes neither the shared words nor the claims.
LEMMA ClaimsStay ==
  ASSUME RingInv, UNCHANGED <<head, tail, pushes>>, Claiming' \subseteq Claiming
  PROVE  TicketsFit'
<1>1. Cardinality(Claiming') <= Cardinality(Claiming)
  BY ClaimingIsFinite, FS_Subset
<1>2. Cardinality(Claiming') \in Nat
  BY ClaimingIsFinite, FS_Subset, FS_CardinalityType
<1> QED
  BY <1>1, <1>2, ClaimingIsFinite DEF RingInv, RingTypes, TicketsFit

\* Push looks at the node's seq, and loads tail again.
LEMMA PushLooksInv ==
  ASSUME RingInv, NEW t \in Threads,
         PushLook(t) \/ PushReload(t) \/ (PushSwap(t) /\ ~TakesTail(t))
  PROVE  RingInv'
<1>1. RingTypes
  BY DEF RingInv
<1>2. pos[t] \in Nat /\ Node(pos[t]) \in Nodes /\ t \in Claiming /\ t \notin Filling \cup Emptying
  BY <1>1, NodeType DEF RingTypes, PushLook, PushReload, PushSwap, Goto, Claiming, Filling, Emptying
<1>3. PICK to : /\ pc' = [pc EXCEPT ![t] = to]
                /\ to \in {"idle", "pushLook", "pushReload", "pushSwap"}
                /\ to = "pushSwap" => PushLook(t) /\ read'[t] = pos[t]
  BY DEF PushLook, PushReload, PushSwap, Goto, TakesTail
<1>4. /\ UNCHANGED <<head, tail, seq, data, ticketOf, pushes, item>>
      /\ \A u \in Threads : u # t => pos'[u] = pos[u] /\ read'[u] = read[u]
      /\ pos'[t] \in {pos[t], tail}
  BY <1>1 DEF PushLook, PushReload, PushSwap, TakesTail, RingTypes
<1>5. RingTypes'
  BY <1>1, <1>2, <1>3 DEF PushLook, PushReload, PushSwap, TakesTail, RingTypes
<1>6. TicketsFit'
  <2>1. Claiming' \subseteq Claiming
    BY <1>1, <1>2, <1>3 DEF Claiming, RingTypes
  <2> QED
    BY <1>4, <2>1, ClaimsStay
<1>7. pos'[t] <= tail /\ item'[t] # None
  BY <1>1, <1>2, <1>4 DEF RingInv, PushesInTurn, RingTypes
<1>8. to = "pushSwap" => /\ read'[t] = pos'[t]
                         /\ pos'[t] = tail => seq[Node(tail)] = tail
  BY <1>1, <1>3, <1>4 DEF PushLook, RingTypes
<1> QED
  BY <1>2, <1>3, <1>4, <1>5, <1>6, <1>7, <1>8, QuietStep

\* Pop begins, looks at the node's seq, and loads head again.
LEMMA PopLooksInv ==
  ASSUME RingInv, NEW t \in Threads,
         Pop(t) \/ PopLook(t) \/ PopReload(t) \/ (PopSwap(t) /\ head # pos[t])
  PROVE  RingInv'
<1>1. RingTypes
  BY DEF RingInv
<1>2. pos[t] \in Nat /\ Node(pos[t]) \in Nodes /\ t \notin Claiming /\ t \notin Filling \cup Emptying
  BY <1>1, NodeType DEF RingTypes, Pop, PopLook, PopReload, PopSwap, Goto, Claiming, Filling, Emptying
<1>3. PICK to : /\ pc' = [pc EXCEPT ![t] = to]
                /\ to \in {"idle", "popLook", "popReload", "popSwap"}
                /\ to = "popSwap" => PopLook(t) /\ read'[t] = pos[t] + 1
  BY DEF Pop, PopLook, PopReload, PopSwap, Goto, Filled
<1>4. /\ UNCHANGED <<head, tail, seq, data, ticketOf, pushes, item>>
      /\ \A u \in Threads : u # t => pos'[u] = pos[u] /\ read'[u] = read[u]
      /\ PopLook(t) => pos'[t] = pos[t]
      /\ ~PopLook(t) => pos'[t] = head
  BY <1>1 DEF Pop, PopLook, PopReload, PopSwap, RingTypes
<1>5. RingTypes'
  BY <1>1, <1>2, <1>3 DEF Pop, PopLook, PopReload, PopSwap, RingTypes
<1>6. Claiming' \subseteq Claiming /\ t \notin Claiming'
  BY <1>1, <1>2, <1>3 DEF Claiming, RingTypes
<1>7. TicketsFit'
  BY <1>4, <1>6, ClaimsStay
<1>8. pos'[t] <= head
  <2>1. PopLook(t) => pos[t] <= head
    BY DEF RingInv, PopsInTurn, PopLook, Goto
  <2> QED
    BY <1>1, <1>4, <2>1 DEF RingTypes
<1>9. to = "popSwap" /\ pos'[t] = head => seq[Node(head)] = head + 1
  BY <1>1, <1>3, <1>4 DEF PopLook, RingTypes
<1> QED
  BY <1>2, <1>3, <1>4, <1>5, <1>6, <1>7, <1>8, <1>9, QuietStep

\* Push takes ticket tail: its node's turn has come and nobody else has it.
LEMMA PushTakesInv ==
  ASSUME RingInv, NEW t \in Threads, PushSwap(t), TakesTail(t)
  PROVE  RingInv'
<1>1. /\ RingTypes /\ TicketsFit /\ FilledNodesAreTickets
      /\ PushesInTurn /\ PopsInTurn /\ OneTicketEach
  BY DEF RingInv
<1>2. /\ pc[t] = "pushSwap" /\ pc' = [pc EXCEPT ![t] = "pushData"]
      /\ pos[t] = tail /\ tail' = tail + 1
      /\ ticketOf' = [ticketOf EXCEPT ![tail] = item[t]]
      /\ UNCHANGED <<head, seq, data, read, item, pushes, pos>>
  BY DEF PushSwap, TakesTail, Goto
<1>3. /\ tail \in Nat /\ head \in Nat /\ pushes \in Nat /\ MaxPush \in Nat /\ head <= tail
      /\ pos \in [Threads -> Nat] /\ Node(tail) \in Nodes
  BY <1>1, NodeType, RingBufferAssumption DEF RingTypes, TicketsFit
<1>4. t \in Claiming /\ read[t] = tail /\ seq[Node(tail)] = tail /\ item[t] # None
  BY <1>1, <1>2 DEF PushesInTurn, Claiming
<1>5. Claiming' = Claiming \ {t} /\ Filling' = Filling \cup {t} /\ Emptying' = Emptying
  BY <1>1, <1>2 DEF RingTypes, Claiming, Filling, Emptying
<1>6. Cardinality(Claiming') = Cardinality(Claiming) - 1 /\ Cardinality(Claiming) >= 1
  <2>1. Cardinality(Claiming') = Cardinality(Claiming) - 1
    BY <1>4, <1>5, ClaimingIsFinite, FS_RemoveElement
  <2>2. Cardinality(Claiming) # 0
    BY <1>4, ClaimingIsFinite, FS_EmptySet
  <2> QED
    BY <2>1, <2>2, ClaimingIsFinite
<1>7. TicketsFit' /\ tail < MaxPush
  BY <1>1, <1>2, <1>3, <1>6, ClaimingIsFinite DEF TicketsFit
<1>8. tail \in Ticket
  BY <1>3, <1>7 DEF Ticket
<1>9. RingTypes'
  BY <1>1, <1>2, <1>3, <1>8 DEF RingTypes
<1>10. ticketOf'[tail] = item[t] /\ \A n : n # tail => ticketOf'[n] = ticketOf[n]
  BY <1>1, <1>2, <1>8 DEF RingTypes
<1>11. FilledNodesAreTickets'
  <2> SUFFICES ASSUME NEW i \in Nodes, seq[i] > 0, Node(seq[i] - 1) = i
               PROVE  /\ seq[i] - 1 < tail + 1
                      /\ data[i] = ticketOf'[seq[i] - 1]
                      /\ data[i] # None
    BY <1>2 DEF FilledNodesAreTickets
  <2>1. seq[i] - 1 < tail /\ data[i] = ticketOf[seq[i] - 1] /\ data[i] # None
    BY <1>1 DEF FilledNodesAreTickets
  <2>2. seq[i] \in Nat
    BY <1>1 DEF RingTypes
  <2> QED
    BY <1>3, <1>10, <2>1, <2>2
<1>12. PushesInTurn'
  <2> SUFFICES ASSUME NEW u \in Threads PROVE PushesInTurn!(u)'
    BY DEF PushesInTurn
  <2>1. CASE u = t
    BY <1>1, <1>2, <1>3, <1>4, <1>5, <1>10, <2>1 DEF RingTypes
  <2>2. CASE u # t
    <3>1. pc'[u] = pc[u] /\ pos[u] \in Nat
      BY <1>1, <1>2, <2>2 DEF RingTypes
    <3>2. u \in Claiming' => u \in Claiming
      BY <1>5
    <3>3. u \in Filling' => u \in Filling
      BY <1>5, <2>2
    <3>4. pc[u] = "pushSwap" => u \in Claiming
      BY DEF Claiming
    <3> QED
      BY <1>1, <1>2, <1>3, <1>10, <3>1, <3>2, <3>3, <3>4 DEF PushesInTurn
  <2> QED
    BY <2>1, <2>2
<1>13. PopsInTurn'
  <2> SUFFICES ASSUME NEW u \in Threads PROVE PopsInTurn!(u)'
    BY DEF PopsInTurn
  <2>1. u # t => pc'[u] = pc[u]
    BY <1>1, <1>2 DEF RingTypes
  <2>2. pc'[t] = "pushData"
    BY <1>1, <1>2 DEF RingTypes
  <2>3. pc[u] = "popStore" => u \in Emptying
    BY DEF Emptying
  <2>4. pos[u] \in Nat
    BY <1>3
  <2>5. t \notin Emptying
    BY <1>2 DEF Emptying
  <2> QED
    BY <1>1, <1>2, <1>3, <1>5, <1>10, <2>1, <2>2, <2>3, <2>4, <2>5 DEF PopsInTurn
<1>14. OneTicketEach'
  <2>1. \A u \in Filling : u \in Threads /\ pos[u] < tail /\ pos[u] \in Nat
    BY <1>1, <1>3 DEF PushesInTurn, Filling
  <2>2. t \notin Emptying
    BY <1>2 DEF Emptying
  <2> QED
    BY <1>1, <1>2, <1>3, <1>5, <2>1, <2>2 DEF OneTicketEach
<1> QED
  BY <1>7, <1>9, <1>11, <1>12, <1>13, <1>14 DEF RingInv

\* Pop takes ticket head, which is filled, hence behind tail.
LEMMA PopTakesInv ==
  ASSUME RingInv, NEW t \in Threads, PopSwap(t), head = pos[t]
  PROVE  RingInv'
<1>1. /\ RingTypes /\ TicketsFit /\ FilledNodesAreTickets
      /\ PushesInTurn /\ PopsInTurn /\ OneTicketEach
  BY DEF RingInv
<1>2. /\ pc[t] = "popSwap" /\ pc' = [pc EXCEPT ![t] = "popData"]
      /\ pos[t] = head /\ head' = head + 1
      /\ UNCHANGED <<tail, seq, data, read, item, pushes, pos, ticketOf>>
  BY DEF PopSwap, Goto
<1>3. tail \in Nat /\ head \in Nat /\ pos \in [Threads -> Nat] /\ Node(head) \in Nodes
  BY <1>1, NodeType DEF RingTypes
<1>4. seq[Node(head)] = head + 1
  BY <1>1, <1>2 DEF PopsInTurn
<1>5. head < tail
  <2>1. seq[Node(head)] > 0 /\ seq[Node(head)] - 1 = head
    BY <1>3, <1>4
  <2> QED
    BY <1>1, <1>3, <2>1 DEF FilledNodesAreTickets
<1>6. Claiming' = Claiming /\ Filling' = Filling /\ Emptying' = Emptying \cup {t}
  BY <1>1, <1>2 DEF RingTypes, Claiming, Filling, Emptying
<1>7. TicketsFit' /\ RingTypes'
  BY <1>1, <1>2, <1>3, <1>5, <1>6 DEF TicketsFit, RingTypes
<1>8. FilledNodesAreTickets'
  BY <1>1, <1>2 DEF FilledNodesAreTickets
<1>9. pc'[t] = "popData" /\ \A u \in Threads : u # t => pc'[u] = pc[u]
  BY <1>1, <1>2 DEF RingTypes
<1>10. PushesInTurn'
  <2> SUFFICES ASSUME NEW u \in Threads PROVE PushesInTurn!(u)'
    BY DEF PushesInTurn
  <2>1. pos[u] \in Nat
    BY <1>3
  <2>2. u \in Filling => head + 1 <= pos[u]
    BY <1>1, <1>3, <1>4, <2>1 DEF PushesInTurn
  <2>3. /\ pc'[u] = "pushSwap" => pc[u] = "pushSwap"
        /\ pc'[u] = "pushStore" => pc[u] = "pushStore"
    BY <1>9
  <2> QED
    BY <1>1, <1>2, <1>6, <2>2, <2>3 DEF PushesInTurn
<1>11. PopsInTurn'
  <2> SUFFICES ASSUME NEW u \in Threads PROVE PopsInTurn!(u)'
    BY DEF PopsInTurn
  <2>1. CASE u = t
    BY <1>2, <1>3, <1>4, <1>9, <2>1
  <2>2. CASE u # t
    <3>1. pos[u] \in Nat /\ pc'[u] = pc[u] /\ (u \in Emptying' <=> u \in Emptying)
      BY <1>3, <1>6, <1>9, <2>2
    <3> QED
      BY <1>1, <1>2, <1>3, <3>1 DEF PopsInTurn
  <2> QED
    BY <2>1, <2>2
<1>12. OneTicketEach'
  <2>1. \A u \in Emptying : u \in Threads /\ pos[u] < head /\ pos[u] \in Nat
    BY <1>1, <1>3 DEF PopsInTurn, Emptying
  <2>2. t \notin Filling
    BY <1>2 DEF Filling
  <2> QED
    BY <1>1, <1>2, <1>3, <1>6, <2>1, <2>2 DEF OneTicketEach
<1> QED
  BY <1>7, <1>8, <1>10, <1>11, <1>12 DEF RingInv

\* Push writes data_: the node is nobody else's and not filled.
LEMMA PushDataInv ==
  ASSUME RingInv, NEW t \in Threads, PushData(t)
  PROVE  RingInv'
<1>1. /\ RingTypes /\ TicketsFit /\ FilledNodesAreTickets
      /\ PushesInTurn /\ PopsInTurn /\ OneTicketEach
  BY DEF RingInv
<1>2. /\ pc[t] = "pushData" /\ pc' = [pc EXCEPT ![t] = "pushStore"]
      /\ data' = [data EXCEPT ![Node(pos[t])] = item[t]]
      /\ UNCHANGED <<head, tail, seq, pos, read, item, pushes, ticketOf>>
  BY DEF PushData, Goto
<1>3. pos[t] \in Nat /\ Node(pos[t]) \in Nodes /\ item[t] \in Nat
  BY <1>1, NodeType DEF RingTypes
<1>4. t \in Filling /\ seq[Node(pos[t])] = pos[t]
  BY <1>1, <1>2 DEF PushesInTurn, Filling
<1>5. Claiming' = Claiming /\ Filling' = Filling /\ Emptying' = Emptying
  BY <1>1, <1>2 DEF RingTypes, Claiming, Filling, Emptying
<1>6. TicketsFit' /\ RingTypes' /\ OneTicketEach'
  BY <1>1, <1>2, <1>3, <1>5 DEF TicketsFit, RingTypes, OneTicketEach
<1>7. pc'[t] = "pushStore" /\ \A u \in Threads : u # t => pc'[u] = pc[u]
  BY <1>1, <1>2 DEF RingTypes
<1>8. /\ data'[Node(pos[t])] = item[t]
      /\ \A i : i # Node(pos[t]) => data'[i] = data[i]
  BY <1>1, <1>2, <1>3 DEF RingTypes
<1>9. FilledNodesAreTickets'
  <2> SUFFICES ASSUME NEW i \in Nodes, seq[i] > 0, Node(seq[i] - 1) = i
               PROVE  /\ seq[i] - 1 < tail
                      /\ data'[i] = ticketOf[seq[i] - 1]
                      /\ data'[i] # None
    BY <1>2 DEF FilledNodesAreTickets
  <2>1. seq[i] \in Nat /\ seq[i] - 1 \in Nat /\ (seq[i] - 1) + 1 = seq[i]
    BY <1>1 DEF RingTypes
  <2>2. Node(seq[i]) # i
    BY <2>1, SeqsApart
  <2>3. i # Node(pos[t])
    BY <1>4, <2>2
  <2> QED
    BY <1>1, <1>8, <2>3 DEF FilledNodesAreTickets
<1>10. PushesInTurn'
  <2> SUFFICES ASSUME NEW u \in Threads PROVE PushesInTurn!(u)'
    BY DEF PushesInTurn
  <2>1. CASE u = t
    BY <1>1, <1>2, <1>4, <1>5, <1>7, <1>8, <2>1 DEF PushesInTurn
  <2>2. CASE u # t
    <3>1. pc[u] = "pushStore" => u \in Filling
      BY DEF Filling
    <3>2. pc[u] = "pushStore" => Node(pos[u]) # Node(pos[t])
      BY <1>4, <2>2, <3>1, OwnNode
    <3> QED
      BY <1>1, <1>2, <1>5, <1>7, <1>8, <2>2, <3>2 DEF PushesInTurn
  <2> QED
    BY <2>1, <2>2
<1>11. PopsInTurn'
  BY <1>1, <1>2, <1>5, <1>7 DEF PopsInTurn
<1> QED
  BY <1>6, <1>9, <1>10, <1>11 DEF RingInv

\* Pop reads data_: it is what the push of its ticket has written.
LEMMA PopDataInv ==
  ASSUME RingInv, NEW t \in Threads, PopData(t)
  PROVE  RingInv'
<1>1. /\ RingTypes /\ TicketsFit /\ FilledNodesAreTickets
      /\ PushesInTurn /\ PopsInTurn /\ OneTicketEach
  BY DEF RingInv
<1>2. /\ pc[t] = "popData" /\ pc' = [pc EXCEPT ![t] = "popStore"]
      /\ item' = [item EXCEPT ![t] = data[Node(pos[t])]]
      /\ UNCHANGED <<head, tail, seq, data, pos, read, pushes, ticketOf>>
  BY DEF PopData, Goto
<1>3. pos[t] \in Nat /\ Node(pos[t]) \in Nodes /\ data[Node(pos[t])] \in Nat
  BY <1>1, NodeType DEF RingTypes
<1>4. t \in Emptying /\ seq[Node(pos[t])] = pos[t] + 1
  BY <1>1, <1>2 DEF PopsInTurn, Emptying
<1>5. data[Node(pos[t])] = ticketOf[pos[t]] /\ data[Node(pos[t])] # None
  <2>1. seq[Node(pos[t])] > 0 /\ seq[Node(pos[t])] - 1 = pos[t]
    BY <1>3, <1>4
  <2> QED
    BY <1>1, <1>3, <2>1 DEF FilledNodesAreTickets
<1>6. Claiming' = Claiming /\ Filling' = Filling /\ Emptying' = Emptying
  BY <1>1, <1>2 DEF RingTypes, Claiming, Filling, Emptying
<1>7. TicketsFit' /\ RingTypes' /\ OneTicketEach' /\ FilledNodesAreTickets'
  BY <1>1, <1>2, <1>3, <1>6 DEF TicketsFit, RingTypes, OneTicketEach, FilledNodesAreTickets
<1>8. /\ pc'[t] = "popStore" /\ item'[t] = data[Node(pos[t])]
      /\ \A u \in Threads : u # t => pc'[u] = pc[u] /\ item'[u] = item[u]
  BY <1>1, <1>2 DEF RingTypes
<1>9. PushesInTurn'
  <2> SUFFICES ASSUME NEW u \in Threads PROVE PushesInTurn!(u)'
    BY DEF PushesInTurn
  <2>1. CASE u = t
    BY <1>2, <1>6, <1>8, <2>1 DEF Claiming, Filling
  <2>2. CASE u # t
    BY <1>1, <1>2, <1>6, <1>8, <2>2 DEF PushesInTurn
  <2> QED
    BY <2>1, <2>2
<1>10. PopsInTurn'
  <2> SUFFICES ASSUME NEW u \in Threads PROVE PopsInTurn!(u)'
    BY DEF PopsInTurn
  <2>1. CASE u = t
    BY <1>1, <1>2, <1>5, <1>6, <1>8, <2>1 DEF PopsInTurn
  <2>2. CASE u # t
    BY <1>1, <1>2, <1>6, <1>8, <2>2 DEF PopsInTurn
  <2> QED
    BY <2>1, <2>2
<1> QED
  BY <1>7, <1>9, <1>10 DEF RingInv

\* A store to the seq of its own node by a thread that then returns.
LEMMA StoreInv ==
  ASSUME RingInv, NEW t \in Filling \cup Emptying, NEW n \in Nat,
         pc' = [pc EXCEPT ![t] = "idle"], seq' = [seq EXCEPT ![Node(pos[t])] = n],
         UNCHANGED <<head, tail, data, pos, read, item, pushes, ticketOf>>,
         n > 0 /\ Node(n - 1) = Node(pos[t]) => /\ n - 1 < tail
                                                /\ data[Node(pos[t])] = ticketOf[n - 1]
                                                /\ data[Node(pos[t])] # None
  PROVE  RingInv'
<1> DEFINE i == Node(pos[t])
<1>1. /\ RingTypes /\ TicketsFit /\ FilledNodesAreTickets
      /\ PushesInTurn /\ PopsInTurn /\ OneTicketEach
  BY DEF RingInv
<1>2. t \in Threads /\ pos[t] \in Nat /\ i \in Nodes
  BY <1>1, NodeType DEF Filling, Emptying, RingTypes
<1>3. /\ pc'[t] = "idle"
      /\ \A u \in Threads : u # t => pc'[u] = pc[u]
  BY <1>1, <1>2 DEF RingTypes
<1>4. Claiming' = Claiming /\ Filling' = Filling \ {t} /\ Emptying' = Emptying \ {t}
  BY <1>2, <1>3 DEF Claiming, Filling, Emptying
<1>5. seq'[i] = n /\ \A j : j # i => seq'[j] = seq[j]
  BY <1>1, <1>2 DEF RingTypes
<1>6. RingTypes' /\ TicketsFit' /\ OneTicketEach'
  BY <1>1, <1>2, <1>4 DEF RingTypes, TicketsFit, OneTicketEach
<1>7. FilledNodesAreTickets'
  <2> SUFFICES ASSUME NEW j \in Nodes PROVE FilledNodesAreTickets!(j)'
    BY DEF FilledNodesAreTickets
  <2>1. CASE j = i
    BY <1>5, <2>1
  <2>2. CASE j # i
    BY <1>1, <1>5, <2>2 DEF FilledNodesAreTickets
  <2> QED
    BY <2>1, <2>2
<1>8. \A u \in Filling' \cup Emptying' : Node(pos[u]) # i
  BY <1>4, OwnNode
<1>9. \A u \in Threads : /\ pc[u] = "pushSwap" /\ pos[u] = tail => Node(tail) # i
                         /\ pc[u] = "popSwap" /\ pos[u] = head => Node(head) # i
  BY NextNode
<1> HIDE DEF i
<1>10. PushesInTurn'
  <2> SUFFICES ASSUME NEW u \in Threads PROVE PushesInTurn!(u)'
    BY DEF PushesInTurn
  <2>1. CASE u = t
    BY <1>3, <1>4, <2>1 DEF Claiming, Filling, Emptying
  <2>2. CASE u # t
    BY <1>1, <1>3, <1>4, <1>5, <1>8, <1>9, <2>2 DEF PushesInTurn
  <2> QED
    BY <2>1, <2>2
<1>11. PopsInTurn'
  <2> SUFFICES ASSUME NEW u \in Threads PROVE PopsInTurn!(u)'
    BY DEF PopsInTurn
  <2>1. CASE u = t
    BY <1>3, <1>4, <2>1
  <2>2. CASE u # t
    BY <1>1, <1>3, <1>4, <1>5, <1>8, <1>9, <2>2 DEF PopsInTurn
  <2> QED
    BY <2>1, <2>2
<1> QED
  BY <1>6, <1>7, <1>10, <1>11 DEF RingInv

\* Push stores the seq that says filled.
LEMMA PushStoreInv ==
  ASSUME RingInv, NEW t \in Threads, PushStore(t)
  PROVE  RingInv'
<1>1. pc[t] = "pushStore" /\ t \in Filling
  BY DEF PushStore, Goto, Filling
<1>2. pos[t] \in Nat /\ read[t] \in Nat
  BY DEF RingInv, RingTypes
<1>3. /\ read[t] = pos[t] /\ pos[t] < tail
      /\ data[Node(pos[t])] = ticketOf[pos[t]] /\ data[Node(pos[t])] # None
  BY <1>1 DEF RingInv, PushesInTurn
<1>4. PICK n \in Nat : n = read[t] + 1 /\ n - 1 = pos[t]
  BY <1>2, <1>3
<1>5. /\ pc' = [pc EXCEPT ![t] = "idle"]
      /\ seq' = [seq EXCEPT ![Node(pos[t])] = n]
      /\ UNCHANGED <<head, tail, data, pos, read, item, pushes, ticketOf>>
  BY <1>4 DEF PushStore, Goto
<1> QED
  BY <1>1, <1>3, <1>4, <1>5, StoreInv

\* Pop stores the seq that the push of the next lap waits for.
LEMMA PopStoreInv ==
  ASSUME RingInv, NEW t \in Threads, PopStore(t)
  PROVE  RingInv'
<1>1. t \in Emptying
  BY DEF PopStore, Goto, Emptying
<1>2. pos[t] \in Nat
  BY DEF RingInv, RingTypes
<1>3. PICK n \in Nat : n = pos[t] + Size /\ Node(n - 1) # Node(pos[t])
  BY <1>2, SeqsApart, RingBufferAssumption
<1>4. /\ pc' = [pc EXCEPT ![t] = "idle"]
      /\ seq' = [seq EXCEPT ![Node(pos[t])] = n]
      /\ UNCHANGED <<head, tail, data, pos, read, item, pushes, ticketOf>>
  BY <1>3 DEF PopStore, NextLap, Goto
<1> QED
  BY <1>1, <1>3, <1>4, StoreInv

\* Every step of every thread.
LEMMA RingStep == RingInv /\ [RingNext]_ringVars => RingInv'
<1> SUFFICES ASSUME RingInv, [RingNext]_ringVars PROVE RingInv'
  OBVIOUS
<1>1. CASE UNCHANGED ringVars
  BY <1>1 DEF ringVars, RingInv, RingTypes, TicketsFit, FilledNodesAreTickets, PushesInTurn,
              PopsInTurn, OneTicketEach, Claiming, Filling, Emptying
<1>2. ASSUME NEW t \in Threads, Push(t) \/ Pop(t) \/ Continue(t) PROVE RingInv'
  BY <1>2, PushInv, PushLooksInv, PopLooksInv, PushTakesInv, PopTakesInv, PushDataInv, PopDataInv,
     PushStoreInv, PopStoreInv DEF Continue
<1> QED
  BY <1>1, <1>2 DEF RingNext

-----------------------------------------------------------------------------
\* Whose turn it is at each node, in every state of the ring.
THEOREM RingSafe == RingSpec => []RingInv
BY RingInitInv, RingStep, PTL DEF RingSpec

\* A pop returns the value of the push that had its ticket.
THEOREM PopsMatchPushes == RingSpec => []PopReturnsItsTicket
<1>1. RingInv => PopReturnsItsTicket
  <2> SUFFICES ASSUME RingInv, NEW t \in Threads, pc[t] = "popStore"
               PROVE  pos[t] \in Ticket /\ item[t] # None /\ item[t] = ticketOf[pos[t]]
    BY DEF PopReturnsItsTicket
  <2>1. t \in Emptying /\ pos[t] \in Nat /\ head \in Nat /\ tail \in Nat /\ pushes \in Nat
    BY DEF Emptying, RingInv, RingTypes
  <2>2. pos[t] < head /\ head <= tail /\ tail + Cardinality(Claiming) <= pushes /\ pushes <= MaxPush
    BY <2>1 DEF RingInv, PopsInTurn, TicketsFit
  <2>3. pos[t] \in Ticket
    BY <2>1, <2>2, ClaimingIsFinite, RingBufferAssumption DEF Ticket
  <2> QED
    BY <2>3 DEF RingInv, PopsInTurn
<1> QED
  BY <1>1, RingSafe, PTL

\* data_ needs no protection of its own.
THEOREM DataIsRaceFree == RingSpec => []DataRaceFree
<1>1. RingInv => DataRaceFree
  <2> SUFFICES ASSUME RingInv, NEW t \in Threads, NEW u \in Threads, t # u, pc[t] = "pushData",
                      pc[u] \in {"pushData", "popData"}
               PROVE  Node(pos[t]) # Node(pos[u])
    BY DEF DataRaceFree
  <2>1. t \in Filling \cup Emptying /\ u \in Filling \cup Emptying
    BY DEF Filling, Emptying
  <2> QED
    BY <2>1, OwnNode
<1> QED
  BY <1>1, RingSafe, PTL

-----------------------------------------------------------------------------
(* Buffers: who has a share of one                                         *)

\* Where a thread holds sendLock_.
LockedAt == {"send", "release", "releasePush", "repeat", "repeatStore", "reset",
             "resetTake"}

LockHeld == \A t \in Threads : lock = t <=> pc[t] \in LockedAt

HandsFull == \A t \in Threads : buf[t] = NoBuffer <=> pc[t] \in {"idle", "reset"}

\* What ReturnBuffers and RepeatMessage read of a slot stays true under the lock.
SlotIsStable ==
  \A t \in Threads :
    /\ pc[t] \in {"resetTake", "repeat", "repeatStore"} => buf[t] \in pending
    /\ pc[t] \in {"repeat", "repeatStore"} => ~SENDING[buf[t]]
    /\ pc[t] = "repeatStore" => old[t]

\* The kernel's share of a buffer is one send or one completion, and the
\* slot's share is the slot or one thread that has emptied it.
OneShareEach ==
  \A b \in Buffers :
    /\ freeCount[b] <= 1
    /\ kernel[b] <= 1
    /\ \A t \in Threads : Holds(t, b, {"completed"}) =>
         /\ kernel[b] = 0
         /\ \A u \in Threads : Holds(u, b, {"completed"}) => u = t
    /\ \A t \in Threads : Holds(t, b, {"release"}) => b \notin pending

\* A thread that will return a buffer has it to itself.
ReturnerIsAlone ==
  \A b \in Buffers : \A t \in Threads :
    WillReturn(t, b) =>
      /\ ~KernelHas(b)
      /\ ~SlotHas(b)
      /\ \A u \in Threads : WillReturn(u, b) => u = t

\* The bits tell the shares of a buffer that is kept for retransmission.
BitsTellShares ==
  \A b \in Buffers : SlotHas(b) => RELIABLE[b] /\ (SENDING[b] <=> KernelHas(b))

BufferInvariant ==
  /\ BufferTypes
  /\ LockHeld
  /\ HandsFull
  /\ SlotIsStable
  /\ OneShareEach
  /\ FreeBufferIsUnused
  /\ ReturnerIsAlone
  /\ BitsTellShares

\* But for abandoned buffers RELIABLE also implies that the slot has the buffer.
RELIABLEIsKept ==
  \A b \in Buffers : KernelHas(b) /\ RELIABLE[b] => SlotHas(b) \/ b \in abandoned

-----------------------------------------------------------------------------
(* Each action keeps the invariant                                         *)

\* SendTo: the buffer comes from list_, so nobody else has it.
LEMMA SendToKeeps ==
  ASSUME BufferInvariant, NEW t \in Threads, SendTo(t)
  PROVE  BufferInvariant'
<1> USE BufferAssumption DEF BufferInvariant, SendTo, PopPacketBuffer,
        WSASendTo
<1>1. BufferTypes'
  BY DEF BufferTypes
<1>2. LockHeld' /\ HandsFull'
  BY DEF LockHeld, HandsFull
<1>3. SlotIsStable'
  BY DEF SlotIsStable
<1>4. OneShareEach'
  BY DEF BufferTypes, OneShareEach, FreeBufferIsUnused, KernelHas, Holds
<1>5. FreeBufferIsUnused'
  BY DEF BufferTypes, OneShareEach, FreeBufferIsUnused, KernelHas, SlotHas,
         WillReturn, Holds
<1>6. ReturnerIsAlone'
  BY DEF FreeBufferIsUnused, ReturnerIsAlone, KernelHas, SlotHas, WillReturn,
         Holds
<1>7. BitsTellShares'
  BY DEF FreeBufferIsUnused, BitsTellShares, KernelHas, SlotHas, Holds
<1> QED
  BY <1>1, <1>2, <1>3, <1>4, <1>5, <1>6, <1>7

\* An old ping takes a buffer from list_ and gives it to nobody.
LEMMA DropOldPingKeeps ==
  ASSUME BufferInvariant, NEW t \in Threads, DropOldPing(t)
  PROVE  BufferInvariant'
<1> USE BufferAssumption DEF BufferInvariant, DropOldPing, PopPacketBuffer
<1>1. BufferTypes'
  BY DEF BufferTypes
<1>2. LockHeld' /\ HandsFull'
  BY DEF LockHeld, HandsFull
<1>3. SlotIsStable'
  BY DEF SlotIsStable
<1>4. OneShareEach'
  BY DEF BufferTypes, OneShareEach, Holds
<1>5. FreeBufferIsUnused'
  BY DEF BufferTypes, OneShareEach, FreeBufferIsUnused, KernelHas, SlotHas,
         WillReturn, Holds
<1>6. ReturnerIsAlone'
  BY DEF ReturnerIsAlone, KernelHas, SlotHas, WillReturn, Holds
<1>7. BitsTellShares'
  BY DEF BitsTellShares, KernelHas, SlotHas, Holds
<1> QED
  BY <1>1, <1>2, <1>3, <1>4, <1>5, <1>6, <1>7

\* SendPacket takes a buffer nobody else has.
LEMMA SendPacketBeginKeeps ==
  ASSUME BufferInvariant, NEW t \in Threads, SendPacketBegin(t)
  PROVE  BufferInvariant'
<1> USE BufferAssumption DEF BufferInvariant, SendPacketBegin, Goto, WriteLockGuard,
        PopPacketBuffer
<1>1. BufferTypes'
  BY DEF BufferTypes, PC
<1>2. LockHeld' /\ HandsFull'
  BY DEF BufferTypes, LockHeld, HandsFull, LockedAt
<1>3. SlotIsStable'
  BY DEF SlotIsStable
<1>4. OneShareEach'
  BY DEF BufferTypes, OneShareEach, Holds
<1>5. FreeBufferIsUnused'
  BY DEF BufferTypes, OneShareEach, FreeBufferIsUnused, KernelHas, SlotHas,
         WillReturn, Holds
<1>6. ReturnerIsAlone'
  BY DEF BufferTypes, FreeBufferIsUnused, ReturnerIsAlone, KernelHas, SlotHas,
         WillReturn, Holds
<1>7. BitsTellShares'
  BY DEF BitsTellShares, KernelHas, SlotHas, Holds
<1> QED
  BY <1>1, <1>2, <1>3, <1>4, <1>5, <1>6, <1>7

\* SendPacket, window open: the one thread that had the buffer gives it to the
\* slot and to the kernel, and sets both bits.
LEMMA SendPacketKeptKeeps ==
  ASSUME BufferInvariant, NEW t \in Threads, SendPacketKept(t)
  PROVE  BufferInvariant'
<1> USE BufferAssumption DEF BufferInvariant, SendPacketKept, Goto,
        SendToReliable, WSASendTo, EndWriteLockGuard
<1>1. BufferTypes'
  BY DEF BufferTypes, PC, HandsFull
<1>2. LockHeld' /\ HandsFull'
  BY DEF BufferTypes, LockHeld, HandsFull, LockedAt
<1>3. SlotIsStable'
  BY DEF LockHeld, LockedAt, SlotIsStable
<1>4. OneShareEach'
  BY DEF BufferTypes, OneShareEach, ReturnerIsAlone, KernelHas, SlotHas, WillReturn,
         Holds
<1>5. FreeBufferIsUnused'
  BY DEF FreeBufferIsUnused, KernelHas, SlotHas, WillReturn, Holds
<1>6. ReturnerIsAlone'
  BY DEF BufferTypes, ReturnerIsAlone, KernelHas, SlotHas, WillReturn, Holds
<1>7. BitsTellShares'
  BY DEF BufferTypes, BitsTellShares, KernelHas, SlotHas, Holds
<1> QED
  BY <1>1, <1>2, <1>3, <1>4, <1>5, <1>6, <1>7

\* SendPacket, window full: the buffer goes back, or to the kernel alone.
LEMMA SendPacketOverflowKeeps ==
  ASSUME BufferInvariant, NEW t \in Threads, SendPacketOverflow(t)
  PROVE  BufferInvariant'
<1> USE BufferAssumption DEF BufferInvariant, SendPacketOverflow, Goto,
        SendToReliable, WSASendTo, EndWriteLockGuard, PushPacketBuffer
<1>1. BufferTypes'
  <2>1. CASE /\ SendToReliable(buf[t])
             /\ abandoned' = abandoned \cup {buf[t]}
             /\ UNCHANGED freeCount
    <3>1. freeCount \in [Buffers -> Nat] /\ freeCount' = freeCount
      BY <2>1 DEF BufferTypes
    <3>2. buf[t] \in Buffers
      BY DEF BufferTypes, HandsFull
    <3>3. kernel' = [kernel EXCEPT ![buf[t]] = @ + 1]
      BY <2>1
    <3>4. RELIABLE' = [RELIABLE EXCEPT ![buf[t]] = TRUE]
      BY <2>1, Zenon
    <3>5. SENDING' = [SENDING EXCEPT ![buf[t]] = TRUE]
      BY <2>1, Zenon
    <3>6. kernel' \in [Buffers -> Nat]
      BY <3>2, <3>3 DEF BufferTypes
    <3>7. RELIABLE' \in [Buffers -> BOOLEAN] /\ SENDING' \in [Buffers -> BOOLEAN]
      BY <3>2, <3>4, <3>5, Zenon DEF BufferTypes
    <3> QED
      BY <2>1, <3>1, <3>2, <3>6, <3>7 DEF BufferTypes, PC
  <2>2. CASE /\ PushPacketBuffer(buf[t])
             /\ UNCHANGED <<kernel, RELIABLE, SENDING, abandoned>>
    BY <2>2 DEF BufferTypes, PC, HandsFull
  <2> QED
    BY <2>1, <2>2
<1>2. LockHeld' /\ HandsFull'
  BY DEF BufferTypes, LockHeld, HandsFull, LockedAt
<1>3. SlotIsStable'
  BY DEF LockHeld, LockedAt, SlotIsStable
<1>4. OneShareEach'
  BY DEF BufferTypes, OneShareEach, FreeBufferIsUnused, ReturnerIsAlone, KernelHas,
         WillReturn, Holds
<1>5. FreeBufferIsUnused'
  BY DEF BufferTypes, FreeBufferIsUnused, ReturnerIsAlone, KernelHas, SlotHas,
         WillReturn, Holds
<1>6. ReturnerIsAlone'
  BY DEF BufferTypes, ReturnerIsAlone, KernelHas, SlotHas, WillReturn, Holds
<1>7. BitsTellShares'
  BY DEF BufferTypes, BitsTellShares, KernelHas, SlotHas, Holds
<1> QED
  BY <1>1, <1>2, <1>3, <1>4, <1>5, <1>6, <1>7

\* SendToComplete takes over the kernel's share.
LEMMA SendToCompleteKeeps ==
  ASSUME BufferInvariant, NEW t \in Threads, SendToComplete(t)
  PROVE  BufferInvariant'
<1> USE BufferAssumption DEF BufferInvariant, SendToComplete, Goto
<1>1. BufferTypes'
  BY DEF BufferTypes, PC
<1>2. LockHeld' /\ HandsFull'
  BY DEF BufferTypes, LockHeld, HandsFull, LockedAt
<1>3. SlotIsStable'
  BY DEF SlotIsStable
<1>4. OneShareEach'
  BY DEF BufferTypes, OneShareEach, Holds
<1>5. FreeBufferIsUnused'
  BY DEF BufferTypes, FreeBufferIsUnused, KernelHas, SlotHas, WillReturn, Holds
<1>6. ReturnerIsAlone'
  BY DEF BufferTypes, ReturnerIsAlone, KernelHas, SlotHas, WillReturn, Holds
<1>7. BitsTellShares'
  BY DEF BufferTypes, BitsTellShares, KernelHas, SlotHas, Holds
<1> QED
  BY <1>1, <1>2, <1>3, <1>4, <1>5, <1>6, <1>7

\* SendToComplete clears SENDING: RELIABLE says whether the slot has a share.
LEMMA SendToCompleteClearKeeps ==
  ASSUME BufferInvariant, NEW t \in Threads, SendToCompleteClear(t)
  PROVE  BufferInvariant'
<1> USE BufferAssumption DEF BufferInvariant, SendToCompleteClear,
        ClearSENDING, Goto
<1>1. BufferTypes'
  BY DEF BufferTypes, PC, HandsFull
<1>2. LockHeld' /\ HandsFull'
  BY DEF LockHeld, HandsFull, LockedAt
<1>3. SlotIsStable'
  BY DEF SlotIsStable
<1>4. OneShareEach'
  BY DEF OneShareEach, Holds
<1>5. FreeBufferIsUnused'
  BY DEF FreeBufferIsUnused, KernelHas, SlotHas, WillReturn, Holds
<1>6. ReturnerIsAlone'
  BY DEF BufferTypes, OneShareEach, ReturnerIsAlone, BitsTellShares, KernelHas,
         SlotHas, WillReturn, Holds
<1>7. BitsTellShares'
  BY DEF BufferTypes, OneShareEach, BitsTellShares, KernelHas, SlotHas, Holds
<1> QED
  BY <1>1, <1>2, <1>3, <1>4, <1>5, <1>6, <1>7

\* SendToComplete returns the buffer if it found RELIABLE clear.
LEMMA SendToCompletePushKeeps ==
  ASSUME BufferInvariant, NEW t \in Threads, SendToCompletePush(t)
  PROVE  BufferInvariant'
<1> USE BufferAssumption DEF BufferInvariant, SendToCompletePush, Goto,
        PushPacketBuffer
<1>1. BufferTypes'
  BY DEF BufferTypes, PC
<1>2. LockHeld' /\ HandsFull'
  BY DEF BufferTypes, LockHeld, HandsFull, LockedAt
<1>3. SlotIsStable'
  BY DEF SlotIsStable
<1>4. OneShareEach'
  BY DEF BufferTypes, OneShareEach, FreeBufferIsUnused, WillReturn, Holds
<1>5. FreeBufferIsUnused'
  BY DEF BufferTypes, FreeBufferIsUnused, ReturnerIsAlone, KernelHas, SlotHas,
         WillReturn, Holds
<1>6. ReturnerIsAlone'
  BY DEF ReturnerIsAlone, KernelHas, SlotHas, WillReturn, Holds
<1>7. BitsTellShares'
  BY DEF BitsTellShares, KernelHas, SlotHas, Holds
<1> QED
  BY <1>1, <1>2, <1>3, <1>4, <1>5, <1>6, <1>7

\* AckProcess takes over the slot's share.
LEMMA AckProcessKeeps ==
  ASSUME BufferInvariant, NEW t \in Threads, AckProcess(t)
  PROVE  BufferInvariant'
<1> USE BufferAssumption DEF BufferInvariant, AckProcess, Goto, WriteLockGuard
<1>1. BufferTypes'
  BY DEF BufferTypes, PC
<1>2. LockHeld' /\ HandsFull'
  BY DEF BufferTypes, LockHeld, HandsFull, LockedAt
<1>3. SlotIsStable'
  BY DEF LockHeld, LockedAt, SlotIsStable
<1>4. OneShareEach'
  BY DEF BufferTypes, OneShareEach, Holds
<1>5. FreeBufferIsUnused'
  BY DEF BufferTypes, FreeBufferIsUnused, KernelHas, SlotHas, WillReturn, Holds
<1>6. ReturnerIsAlone'
  BY DEF BufferTypes, ReturnerIsAlone, KernelHas, SlotHas, WillReturn, Holds
<1>7. BitsTellShares'
  BY DEF BufferTypes, BitsTellShares, KernelHas, SlotHas, Holds
<1> QED
  BY <1>1, <1>2, <1>3, <1>4, <1>5, <1>6, <1>7

\* AckProcess and ReturnBuffers clear RELIABLE: SENDING says whether the
\* kernel has a share.
LEMMA ReleaseClearKeeps ==
  ASSUME BufferInvariant, NEW t \in Threads, ReleaseClear(t)
  PROVE  BufferInvariant'
<1> USE BufferAssumption DEF BufferInvariant, ReleaseClear, ClearRELIABLE, Goto
<1>1. BufferTypes'
  BY DEF BufferTypes, PC, HandsFull
<1>2. LockHeld' /\ HandsFull'
  BY DEF LockHeld, HandsFull, LockedAt
<1>3. SlotIsStable'
  BY DEF SlotIsStable
<1>4. OneShareEach'
  BY DEF OneShareEach, Holds
<1>5. FreeBufferIsUnused'
  BY DEF FreeBufferIsUnused, KernelHas, SlotHas, WillReturn, Holds
<1>6. ReturnerIsAlone'
  BY DEF BufferTypes, LockHeld, LockedAt, OneShareEach, ReturnerIsAlone,
         BitsTellShares, KernelHas, SlotHas, WillReturn, Holds
<1>7. BitsTellShares'
  BY DEF BufferTypes, LockHeld, LockedAt, OneShareEach, BitsTellShares, KernelHas,
         SlotHas, Holds
<1> QED
  BY <1>1, <1>2, <1>3, <1>4, <1>5, <1>6, <1>7

\* AckProcess and ReturnBuffers return the buffer if they found SENDING clear.
LEMMA ReleasePushKeeps ==
  ASSUME BufferInvariant, NEW t \in Threads, ReleasePush(t)
  PROVE  BufferInvariant'
<1> USE BufferAssumption DEF BufferInvariant, ReleasePush, Goto,
        PushPacketBuffer, EndWriteLockGuard
<1>1. BufferTypes'
  BY DEF BufferTypes, PC
<1>2. LockHeld' /\ HandsFull'
  BY DEF BufferTypes, LockHeld, HandsFull, LockedAt
<1>3. SlotIsStable'
  BY DEF SlotIsStable
<1>4. OneShareEach'
  BY DEF BufferTypes, OneShareEach, FreeBufferIsUnused, WillReturn, Holds
<1>5. FreeBufferIsUnused'
  BY DEF BufferTypes, FreeBufferIsUnused, ReturnerIsAlone, KernelHas, SlotHas,
         WillReturn, Holds
<1>6. ReturnerIsAlone'
  BY DEF ReturnerIsAlone, KernelHas, SlotHas, WillReturn, Holds
<1>7. BitsTellShares'
  BY DEF BitsTellShares, KernelHas, SlotHas, Holds
<1> QED
  BY <1>1, <1>2, <1>3, <1>4, <1>5, <1>6, <1>7

\* Reset begins, under the lock.
LEMMA ResetBeginKeeps ==
  ASSUME BufferInvariant, NEW t \in Threads, ResetBegin(t)
  PROVE  BufferInvariant'
<1> USE BufferAssumption DEF BufferInvariant, ResetBegin, Goto, WriteLockGuard
<1>1. BufferTypes'
  BY DEF BufferTypes, PC
<1>2. LockHeld' /\ HandsFull'
  BY DEF BufferTypes, LockHeld, HandsFull, LockedAt
<1>3. SlotIsStable'
  BY DEF SlotIsStable
<1>4. OneShareEach'
  BY DEF OneShareEach, Holds
<1>5. FreeBufferIsUnused'
  BY DEF FreeBufferIsUnused, KernelHas, SlotHas, WillReturn, Holds
<1>6. ReturnerIsAlone'
  BY DEF ReturnerIsAlone, KernelHas, SlotHas, WillReturn, Holds
<1>7. BitsTellShares'
  BY DEF BitsTellShares, KernelHas, SlotHas, Holds
<1> QED
  BY <1>1, <1>2, <1>3, <1>4, <1>5, <1>6, <1>7

\* ReturnBuffers reads a slot.
LEMMA ReturnBuffersReadKeeps ==
  ASSUME BufferInvariant, NEW t \in Threads, ReturnBuffersRead(t)
  PROVE  BufferInvariant'
<1> USE BufferAssumption DEF BufferInvariant, ReturnBuffersRead, Goto
<1>1. BufferTypes'
  BY DEF BufferTypes, PC
<1>2. LockHeld' /\ HandsFull'
  BY DEF BufferTypes, LockHeld, HandsFull, LockedAt
<1>3. SlotIsStable'
  BY DEF BufferTypes, SlotIsStable
<1>4. OneShareEach'
  BY DEF OneShareEach, Holds
<1>5. FreeBufferIsUnused'
  BY DEF FreeBufferIsUnused, KernelHas, SlotHas, WillReturn, Holds
<1>6. ReturnerIsAlone'
  BY DEF ReturnerIsAlone, KernelHas, SlotHas, WillReturn, Holds
<1>7. BitsTellShares'
  BY DEF BitsTellShares, KernelHas, SlotHas, Holds
<1> QED
  BY <1>1, <1>2, <1>3, <1>4, <1>5, <1>6, <1>7

\* ReturnBuffers empties the slot it read.
LEMMA ReturnBuffersTakeKeeps ==
  ASSUME BufferInvariant, NEW t \in Threads, ReturnBuffersTake(t)
  PROVE  BufferInvariant'
<1> USE BufferAssumption DEF BufferInvariant, ReturnBuffersTake, Goto
<1>1. BufferTypes'
  BY DEF BufferTypes, PC
<1>2. LockHeld' /\ HandsFull'
  BY DEF LockHeld, HandsFull, LockedAt
<1>3. SlotIsStable'
  BY DEF BufferTypes, LockHeld, LockedAt, SlotIsStable
<1>4. OneShareEach'
  BY DEF OneShareEach, Holds
<1>5. FreeBufferIsUnused'
  BY DEF FreeBufferIsUnused, SlotIsStable, KernelHas, SlotHas, WillReturn,
         Holds
<1>6. ReturnerIsAlone'
  BY DEF ReturnerIsAlone, SlotIsStable, KernelHas, SlotHas, WillReturn, Holds
<1>7. BitsTellShares'
  BY DEF SlotIsStable, BitsTellShares, KernelHas, SlotHas, Holds
<1> QED
  BY <1>1, <1>2, <1>3, <1>4, <1>5, <1>6, <1>7

\* Reset ends.
LEMMA ResetEndKeeps ==
  ASSUME BufferInvariant, NEW t \in Threads, ResetEnd(t)
  PROVE  BufferInvariant'
<1> USE BufferAssumption DEF BufferInvariant, ResetEnd, Goto, EndWriteLockGuard
<1>1. BufferTypes'
  BY DEF BufferTypes, PC
<1>2. LockHeld' /\ HandsFull'
  BY DEF BufferTypes, LockHeld, HandsFull, LockedAt
<1>3. SlotIsStable'
  BY DEF SlotIsStable
<1>4. OneShareEach'
  BY DEF OneShareEach, Holds
<1>5. FreeBufferIsUnused'
  BY DEF FreeBufferIsUnused, KernelHas, SlotHas, WillReturn, Holds
<1>6. ReturnerIsAlone'
  BY DEF ReturnerIsAlone, KernelHas, SlotHas, WillReturn, Holds
<1>7. BitsTellShares'
  BY DEF BitsTellShares, KernelHas, SlotHas, Holds
<1> QED
  BY <1>1, <1>2, <1>3, <1>4, <1>5, <1>6, <1>7

\* RepeatMessage finds a kept buffer with SENDING clear.
LEMMA RepeatMessageKeeps ==
  ASSUME BufferInvariant, NEW t \in Threads, RepeatMessage(t)
  PROVE  BufferInvariant'
<1> USE BufferAssumption DEF BufferInvariant, RepeatMessage, Goto, WriteLockGuard,
        MayRepeat
<1>1. BufferTypes'
  BY DEF BufferTypes, PC
<1>2. LockHeld' /\ HandsFull'
  BY DEF BufferTypes, LockHeld, HandsFull, LockedAt
<1>3. SlotIsStable'
  BY DEF BufferTypes, SlotIsStable
<1>4. OneShareEach'
  BY DEF OneShareEach, Holds
<1>5. FreeBufferIsUnused'
  BY DEF FreeBufferIsUnused, KernelHas, SlotHas, WillReturn, Holds
<1>6. ReturnerIsAlone'
  BY DEF ReturnerIsAlone, KernelHas, SlotHas, WillReturn, Holds
<1>7. BitsTellShares'
  BY DEF BitsTellShares, KernelHas, SlotHas, Holds
<1> QED
  BY <1>1, <1>2, <1>3, <1>4, <1>5, <1>6, <1>7

\* SendToRepeat loads type_.
LEMMA SendToRepeatLoadKeeps ==
  ASSUME BufferInvariant, NEW t \in Threads, SendToRepeatLoad(t)
  PROVE  BufferInvariant'
<1> USE BufferAssumption DEF BufferInvariant, SendToRepeatLoad, Goto
<1>1. BufferTypes'
  BY DEF BufferTypes, PC, HandsFull
<1>2. LockHeld' /\ HandsFull'
  BY DEF LockHeld, HandsFull, LockedAt
<1>3. SlotIsStable'
  BY DEF BufferTypes, SlotIsStable, BitsTellShares, SlotHas
<1>4. OneShareEach'
  BY DEF OneShareEach, Holds
<1>5. FreeBufferIsUnused'
  BY DEF FreeBufferIsUnused, KernelHas, SlotHas, WillReturn, Holds
<1>6. ReturnerIsAlone'
  BY DEF ReturnerIsAlone, KernelHas, SlotHas, WillReturn, Holds
<1>7. BitsTellShares'
  BY DEF BitsTellShares, KernelHas, SlotHas, Holds
<1> QED
  BY <1>1, <1>2, <1>3, <1>4, <1>5, <1>6, <1>7

\* SendToRepeat stores type_ with SENDING added: under the lock RELIABLE has
\* not been cleared since the load.
LEMMA SendToRepeatStoreKeeps ==
  ASSUME BufferInvariant, NEW t \in Threads, SendToRepeatStore(t)
  PROVE  BufferInvariant'
<1> USE BufferAssumption DEF BufferInvariant, SendToRepeatStore, Goto,
        WSASendTo, EndWriteLockGuard
<1>1. BufferTypes'
  BY DEF BufferTypes, PC, HandsFull
<1>2. LockHeld' /\ HandsFull'
  BY DEF BufferTypes, LockHeld, HandsFull, LockedAt
<1>3. SlotIsStable'
  BY DEF BufferTypes, LockHeld, LockedAt, SlotIsStable
<1>4. OneShareEach'
  BY DEF BufferTypes, OneShareEach, SlotIsStable, BitsTellShares, KernelHas,
         SlotHas, Holds
<1>5. FreeBufferIsUnused'
  BY DEF FreeBufferIsUnused, SlotIsStable, KernelHas, SlotHas, WillReturn,
         Holds
<1>6. ReturnerIsAlone'
  BY DEF ReturnerIsAlone, SlotIsStable, KernelHas, SlotHas, WillReturn, Holds
<1>7. BitsTellShares'
  BY DEF BufferTypes, SlotIsStable, BitsTellShares, KernelHas, SlotHas, Holds
<1> QED
  BY <1>1, <1>2, <1>3, <1>4, <1>5, <1>6, <1>7

\* The invariant holds initially.
LEMMA BufferStart == BufferInit => BufferInvariant
BY BufferAssumption DEF BufferInit, BufferInvariant, BufferTypes, PC, LockHeld, HandsFull,
  LockedAt, OneShareEach, FreeBufferIsUnused, ReturnerIsAlone, SlotIsStable,
  BitsTellShares, KernelHas, SlotHas, WillReturn, Holds

\* Every step keeps the invariant.
LEMMA BufferStep == BufferInvariant /\ [BufferNext]_packetVars => BufferInvariant'
<1> SUFFICES ASSUME BufferInvariant, [BufferNext]_packetVars PROVE BufferInvariant'
  OBVIOUS
<1>1. CASE UNCHANGED packetVars
  BY <1>1 DEF packetVars, BufferInvariant, BufferTypes, PC, LockHeld, HandsFull, LockedAt,
              OneShareEach, FreeBufferIsUnused, ReturnerIsAlone, SlotIsStable,
              BitsTellShares, KernelHas, SlotHas, WillReturn, Holds
<1>2. ASSUME NEW t \in Threads,
             \/ SendTo(t) \/ RepeatPongMessage(t)
             \/ SendPacketBegin(t) \/ SendToComplete(t)
             \/ AckProcess(t) \/ ResetBegin(t) \/ RepeatMessage(t)
             \/ Step(t)
      PROVE  BufferInvariant'
  BY <1>2, SendToKeeps, DropOldPingKeeps, SendPacketBeginKeeps, SendPacketKeptKeeps,
     SendPacketOverflowKeeps, SendToCompleteKeeps, SendToCompleteClearKeeps,
     SendToCompletePushKeeps, AckProcessKeeps, ReleaseClearKeeps,
     ReleasePushKeeps, ResetBeginKeeps, ReturnBuffersReadKeeps,
     ReturnBuffersTakeKeeps, ResetEndKeeps, RepeatMessageKeeps,
     SendToRepeatLoadKeeps, SendToRepeatStoreKeeps
  DEF Step, RepeatPongMessage
<1> QED
  BY <1>1, <1>2 DEF BufferNext

-----------------------------------------------------------------------------
(* No buffer is lost                                                       *)

NoLossInvariant == RELIABLEIsKept /\ NoLostBuffer

\* Every step keeps the account of every buffer.
LEMMA NoLossStep ==
  ASSUME BufferInvariant, NoLossInvariant, [BufferNext]_packetVars
  PROVE  NoLossInvariant'
<1> USE BufferAssumption DEF NoLossInvariant, BufferInvariant
<1>1. ASSUME NEW t \in Threads, SendTo(t) PROVE NoLossInvariant'
  <2> USE <1>1 DEF SendTo, PopPacketBuffer, WSASendTo
  <2>1. RELIABLEIsKept'
    BY DEF BufferTypes, KernelHas, SlotHas, Holds, RELIABLEIsKept
  <2>2. NoLostBuffer'
    BY DEF BufferTypes, KernelHas, SlotHas, WillReturn, Holds, NoLostBuffer
  <2> QED
    BY <2>1, <2>2
<1>2. ASSUME NEW t \in Threads, SendPacketBegin(t) PROVE NoLossInvariant'
  <2> USE <1>2 DEF SendPacketBegin, Goto, WriteLockGuard, PopPacketBuffer
  <2>1. RELIABLEIsKept'
    BY DEF KernelHas, SlotHas, Holds, RELIABLEIsKept
  <2>2. NoLostBuffer'
    BY DEF BufferTypes, KernelHas, SlotHas, WillReturn, Holds, NoLostBuffer
  <2> QED
    BY <2>1, <2>2
<1>3. ASSUME NEW t \in Threads, SendPacketKept(t) PROVE NoLossInvariant'
  <2> USE <1>3 DEF SendPacketKept, Goto, SendToReliable, WSASendTo, EndWriteLockGuard
  <2>1. RELIABLEIsKept'
    BY DEF KernelHas, SlotHas, Holds, RELIABLEIsKept
  <2>2. NoLostBuffer'
    BY DEF KernelHas, SlotHas, WillReturn, Holds, NoLostBuffer
  <2> QED
    BY <2>1, <2>2
<1>4. ASSUME NEW t \in Threads, SendPacketOverflow(t) PROVE NoLossInvariant'
  <2> USE <1>4 DEF SendPacketOverflow, Goto, SendToReliable, WSASendTo,
          EndWriteLockGuard, PushPacketBuffer
  <2>1. RELIABLEIsKept'
    BY DEF BufferTypes, KernelHas, SlotHas, Holds, RELIABLEIsKept
  <2>2. NoLostBuffer'
    BY DEF BufferTypes, KernelHas, SlotHas, WillReturn, Holds, NoLostBuffer
  <2> QED
    BY <2>1, <2>2
<1>5. ASSUME NEW t \in Threads, SendToComplete(t) PROVE NoLossInvariant'
  <2> USE <1>5 DEF SendToComplete, Goto
  <2>1. RELIABLEIsKept'
    BY DEF BufferTypes, KernelHas, SlotHas, Holds, RELIABLEIsKept
  <2>2. NoLostBuffer'
    BY DEF BufferTypes, KernelHas, SlotHas, WillReturn, Holds, NoLostBuffer
  <2> QED
    BY <2>1, <2>2
<1>6. ASSUME NEW t \in Threads, SendToCompleteClear(t) PROVE NoLossInvariant'
  <2> USE <1>6 DEF SendToCompleteClear, ClearSENDING, Goto
  <2>1. RELIABLEIsKept'
    BY DEF KernelHas, SlotHas, Holds, RELIABLEIsKept
  <2>2. NoLostBuffer'
    BY DEF BufferTypes, KernelHas, SlotHas, WillReturn, Holds, RELIABLEIsKept,
           NoLostBuffer
  <2> QED
    BY <2>1, <2>2
<1>7. ASSUME NEW t \in Threads, SendToCompletePush(t) PROVE NoLossInvariant'
  <2> USE <1>7 DEF SendToCompletePush, Goto, PushPacketBuffer
  <2>1. RELIABLEIsKept'
    BY DEF KernelHas, SlotHas, Holds, RELIABLEIsKept
  <2>2. NoLostBuffer'
    BY DEF BufferTypes, KernelHas, SlotHas, WillReturn, Holds, NoLostBuffer
  <2> QED
    BY <2>1, <2>2
<1>8. ASSUME NEW t \in Threads, AckProcess(t) PROVE NoLossInvariant'
  <2> USE <1>8 DEF AckProcess, Goto, WriteLockGuard
  <2>1. RELIABLEIsKept'
    BY DEF BufferTypes, KernelHas, SlotHas, Holds, RELIABLEIsKept
  <2>2. NoLostBuffer'
    BY DEF BufferTypes, KernelHas, SlotHas, WillReturn, Holds, NoLostBuffer
  <2> QED
    BY <2>1, <2>2
<1>9. ASSUME NEW t \in Threads, ReleaseClear(t) PROVE NoLossInvariant'
  <2> USE <1>9 DEF ReleaseClear, ClearRELIABLE, Goto
  <2>1. RELIABLEIsKept'
    BY DEF BufferTypes, KernelHas, SlotHas, Holds, RELIABLEIsKept
  <2>2. NoLostBuffer'
    BY DEF BufferTypes, BitsTellShares, KernelHas, SlotHas, WillReturn, Holds,
           NoLostBuffer
  <2> QED
    BY <2>1, <2>2
<1>10. ASSUME NEW t \in Threads, ReleasePush(t) PROVE NoLossInvariant'
  <2> USE <1>10 DEF ReleasePush, Goto, PushPacketBuffer, EndWriteLockGuard
  <2>1. RELIABLEIsKept'
    BY DEF KernelHas, SlotHas, Holds, RELIABLEIsKept
  <2>2. NoLostBuffer'
    BY DEF BufferTypes, KernelHas, SlotHas, WillReturn, Holds, NoLostBuffer
  <2> QED
    BY <2>1, <2>2
<1>11. ASSUME NEW t \in Threads, ResetBegin(t) PROVE NoLossInvariant'
  <2> USE <1>11 DEF ResetBegin, Goto, WriteLockGuard
  <2>1. RELIABLEIsKept'
    BY DEF KernelHas, SlotHas, Holds, RELIABLEIsKept
  <2>2. NoLostBuffer'
    BY DEF KernelHas, SlotHas, WillReturn, Holds, NoLostBuffer
  <2> QED
    BY <2>1, <2>2
<1>12. ASSUME NEW t \in Threads, ReturnBuffersRead(t) PROVE NoLossInvariant'
  <2> USE <1>12 DEF ReturnBuffersRead, Goto
  <2>1. RELIABLEIsKept'
    BY DEF KernelHas, SlotHas, Holds, RELIABLEIsKept
  <2>2. NoLostBuffer'
    BY DEF KernelHas, SlotHas, WillReturn, Holds, NoLostBuffer
  <2> QED
    BY <2>1, <2>2
<1>13. ASSUME NEW t \in Threads, ReturnBuffersTake(t) PROVE NoLossInvariant'
  <2> USE <1>13 DEF ReturnBuffersTake, Goto
  <2>1. RELIABLEIsKept'
    BY DEF BufferTypes, KernelHas, SlotHas, Holds, RELIABLEIsKept
  <2>2. NoLostBuffer'
    BY DEF BufferTypes, KernelHas, SlotHas, WillReturn, Holds, NoLostBuffer
  <2> QED
    BY <2>1, <2>2
<1>14. ASSUME NEW t \in Threads, ResetEnd(t) PROVE NoLossInvariant'
  <2> USE <1>14 DEF ResetEnd, Goto, EndWriteLockGuard
  <2>1. RELIABLEIsKept'
    BY DEF KernelHas, SlotHas, Holds, RELIABLEIsKept
  <2>2. NoLostBuffer'
    BY DEF KernelHas, SlotHas, WillReturn, Holds, NoLostBuffer
  <2> QED
    BY <2>1, <2>2
<1>15. ASSUME NEW t \in Threads, RepeatMessage(t) PROVE NoLossInvariant'
  <2> USE <1>15 DEF RepeatMessage, Goto, WriteLockGuard, MayRepeat
  <2>1. RELIABLEIsKept'
    BY DEF KernelHas, SlotHas, Holds, RELIABLEIsKept
  <2>2. NoLostBuffer'
    BY DEF KernelHas, SlotHas, WillReturn, Holds, NoLostBuffer
  <2> QED
    BY <2>1, <2>2
<1>16. ASSUME NEW t \in Threads, SendToRepeatLoad(t) PROVE NoLossInvariant'
  <2> USE <1>16 DEF SendToRepeatLoad, Goto
  <2>1. RELIABLEIsKept'
    BY DEF KernelHas, SlotHas, Holds, RELIABLEIsKept
  <2>2. NoLostBuffer'
    BY DEF KernelHas, SlotHas, WillReturn, Holds, NoLostBuffer
  <2> QED
    BY <2>1, <2>2
<1>17. ASSUME NEW t \in Threads, SendToRepeatStore(t) PROVE NoLossInvariant'
  <2> USE <1>17 DEF SendToRepeatStore, Goto, WSASendTo, EndWriteLockGuard
  <2>1. RELIABLEIsKept'
    BY DEF SlotIsStable, KernelHas, SlotHas, Holds, RELIABLEIsKept
  <2>2. NoLostBuffer'
    BY DEF BufferTypes, KernelHas, SlotHas, WillReturn, Holds, NoLostBuffer
  <2> QED
    BY <2>1, <2>2
<1>18. ASSUME NEW t \in Threads, DropOldPing(t) PROVE NoLossInvariant'
  <2> USE <1>18 DEF DropOldPing, PopPacketBuffer
  <2>1. RELIABLEIsKept'
    BY DEF KernelHas, SlotHas, Holds, RELIABLEIsKept
  <2>2. NoLostBuffer'
    BY DEF BufferTypes, KernelHas, SlotHas, WillReturn, Holds, NoLostBuffer
  <2> QED
    BY <2>1, <2>2
<1>19. CASE UNCHANGED packetVars
  BY <1>19 DEF packetVars, RELIABLEIsKept, NoLostBuffer, KernelHas, SlotHas,
         WillReturn, Holds
<1> QED
  BY <1>1, <1>2, <1>3, <1>4, <1>5, <1>6, <1>7, <1>8, <1>9, <1>10, <1>11, <1>12,
     <1>13, <1>14, <1>15, <1>16, <1>17, <1>18, <1>19
     DEF BufferNext, RepeatPongMessage, Step

-----------------------------------------------------------------------------
(* The theorems                                                            *)

\* Kernel, pending slots and threads agree on the shares of every buffer, for
\* as long as the program runs.
THEOREM BufferSafe == BufferSpec => []BufferInvariant
<1>1. BufferInvariant /\ [BufferNext]_packetVars => BufferInvariant'
  BY BufferStep
<1> QED
  BY <1>1, BufferStart, PTL DEF BufferSpec

\* SendToComplete, AckProcess and ReturnBuffers between them return a buffer
\* to PacketManager once, whatever the order they run in.
THEOREM BufferReturnedOnce == BufferSpec => []ReturnedOnce
<1>1. BufferInvariant => ReturnedOnce
  BY DEF BufferInvariant, OneShareEach, ReturnedOnce
<1> QED
  BY <1>1, BufferSafe, PTL

\* A buffer in PacketManager's list_ is not in use by the kernel, by a pending
\* slot or by a thread.
THEOREM BufferNotFreedInUse == BufferSpec => []FreeBufferIsUnused
<1>1. BufferInvariant => FreeBufferIsUnused
  BY DEF BufferInvariant
<1> QED
  BY <1>1, BufferSafe, PTL

\* RepeatMessage never sends a buffer the kernel has not completed.
THEOREM BufferInOneSend == BufferSpec => []OneSendAtATime
<1>1. BufferInvariant => OneSendAtATime
  BY DEF BufferInvariant, OneShareEach, SlotIsStable, BitsTellShares, OneSendAtATime,
         BufferTypes, KernelHas, SlotHas, Holds
<1> QED
  BY <1>1, BufferSafe, PTL

\* No buffer is lost but by RepeatPongMessage, to an old ping, and by
\* InternalClient, to a packet it sends although its window is full.
THEOREM BufferNotLost == BufferSpec => []NoLostBuffer
<1>1. BufferInit => NoLossInvariant
  BY DEF BufferInit, NoLossInvariant, RELIABLEIsKept, NoLostBuffer
<1>2. BufferInvariant /\ NoLossInvariant /\ [BufferNext]_packetVars => NoLossInvariant'
  BY NoLossStep
<1>3. NoLossInvariant => NoLostBuffer
  BY DEF NoLossInvariant
<1> QED
  BY <1>1, <1>2, <1>3, BufferSafe, PTL DEF BufferSpec
=============================================================================
