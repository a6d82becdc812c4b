----------------------------- MODULE RingBuffer -----------------------------
(***************************************************************************)
(* DS::RingBuffer, the bounded queue for many producers and consumers.     *)
(*                                                                         *)
(* tail and head give out tickets; ticket n uses the node n % Size, whose  *)
(* seq says whose turn it is: n (push of ticket n may fill it), n + 1 (pop *)
(* of ticket n may take it), n + Size (push of the next lap).  Every load, *)
(* store and compare-exchange of Push and Pop is a step of its own.        *)
(* Tickets are 64 bits wide in the code and do not wrap here.              *)
(***************************************************************************)
EXTENDS Naturals, FiniteSets, ThreadSteps

CONSTANTS
  Size,      \* DEFAULT_WINDOW_COUNT
  MaxPush,   \* bound: calls of Push
  MaxPop     \* bound: calls of Pop

\* On a ring of one node the seq that says filled (n + 1) would also be the one
\* that lets the push of the next lap in (n + Size).
ASSUME RingBufferAssumption ==
  /\ IsFiniteSet(Threads)
  /\ Size \in Nat /\ Size >= 2
  /\ MaxPush \in Nat
  /\ MaxPop \in Nat

VARIABLES
  head, tail,
  seq,       \* buffer_[i].seq_
  data,      \* buffer_[i].data_
  pos,       \* the local head or tail of the call
  read,      \* the local seq of the call
  item,      \* the value being pushed, or the one popped
  pushes,    \* Push calls so far; the n-th pushes the value n
  pops,      \* Pop calls so far
  ticketOf,  \* ticketOf[n]: the value the push of ticket n carries
  popped     \* popped[n]: the value the pop of ticket n returned

ringVars == <<head, tail, seq, data, pc, pos, read, item, pushes, pops, ticketOf, popped>>

None == 0
Node(n) == n % Size
Ticket == 0 .. MaxPush - 1

RingInit ==
  /\ head = 0 /\ tail = 0
  /\ seq = [i \in 0 .. Size - 1 |-> i]
  /\ data = [i \in 0 .. Size - 1 |-> None]
  /\ pc = [t \in Threads |-> "idle"]
  /\ pos = [t \in Threads |-> 0]
  /\ read = [t \in Threads |-> 0]
  /\ item = [t \in Threads |-> None]
  /\ pushes = 0 /\ pops = 0
  /\ ticketOf = [n \in Ticket |-> None]
  /\ popped = [n \in Ticket |-> None]

-----------------------------------------------------------------------------
(* Push                                                                    *)

\* Push(t): load tail.
Push(t) ==
  /\ pushes < MaxPush
  /\ Goto(t, "idle", "pushLook")
  /\ pushes' = pushes + 1
  /\ item' = [item EXCEPT ![t] = pushes']
  /\ pos' = [pos EXCEPT ![t] = tail]
  /\ UNCHANGED <<head, tail, seq, data, read, pops, ticketOf, popped>>

\* Load the node's seq and decide.
PushLook(t) ==
  /\ read' = [read EXCEPT ![t] = seq[Node(pos[t])]]
  /\ \/ read'[t] = pos[t] /\ Goto(t, "pushLook", "pushSwap")
     \/ read'[t] < pos[t] /\ Goto(t, "pushLook", "idle")   \* returns false
     \/ read'[t] > pos[t] /\ Goto(t, "pushLook", "pushReload")
  /\ UNCHANGED <<head, tail, seq, data, pos, item, pushes, pops, ticketOf, popped>>

PushReload(t) ==
  /\ Goto(t, "pushReload", "pushLook")
  /\ pos' = [pos EXCEPT ![t] = tail]
  /\ UNCHANGED <<head, tail, seq, data, read, item, pushes, pops, ticketOf, popped>>

TakesTail_Always(t) == TRUE
\* tail_.compare_exchange_strong succeeds.
TakesTail(t) == tail = pos[t]

PushSwap(t) ==
  /\ \/ /\ TakesTail(t)
        /\ Goto(t, "pushSwap", "pushData")
        /\ tail' = pos[t] + 1
        /\ ticketOf' = [ticketOf EXCEPT ![pos[t]] = item[t]]
        /\ UNCHANGED pos
     \/ /\ ~TakesTail(t)
        /\ Goto(t, "pushSwap", "pushLook")
        /\ pos' = [pos EXCEPT ![t] = tail]
        /\ UNCHANGED <<tail, ticketOf>>
  /\ UNCHANGED <<head, seq, data, read, item, pushes, pops, popped>>

PushData(t) ==
  /\ Goto(t, "pushData", "pushStore")
  /\ data' = [data EXCEPT ![Node(pos[t])] = item[t]]
  /\ UNCHANGED <<head, tail, seq, pos, read, item, pushes, pops, ticketOf, popped>>

PushStore(t) ==
  /\ Goto(t, "pushStore", "idle")                          \* returns true
  /\ seq' = [seq EXCEPT ![Node(pos[t])] = read[t] + 1]
  /\ UNCHANGED <<head, tail, data, pos, read, item, pushes, pops, ticketOf, popped>>

-----------------------------------------------------------------------------
(* Pop                                                                     *)

Pop(t) ==
  /\ pops < MaxPop
  /\ Goto(t, "idle", "popLook")
  /\ pops' = pops + 1
  /\ pos' = [pos EXCEPT ![t] = head]
  /\ UNCHANGED <<head, tail, seq, data, read, item, pushes, ticketOf, popped>>

Filled_OrEmpty(t, n) == n <= pos[t] + 1
\* The node's seq n says that the push of this ticket has filled it.
Filled(t, n) == n = pos[t] + 1

PopLook(t) ==
  /\ read' = [read EXCEPT ![t] = seq[Node(pos[t])]]
  /\ \/ Filled(t, read'[t]) /\ Goto(t, "popLook", "popSwap")
     \/ read'[t] < pos[t] + 1 /\ Goto(t, "popLook", "idle") \* returns false
     \/ read'[t] > pos[t] + 1 /\ Goto(t, "popLook", "popReload")
  /\ UNCHANGED <<head, tail, seq, data, pos, item, pushes, pops, ticketOf, popped>>

PopReload(t) ==
  /\ Goto(t, "popReload", "popLook")
  /\ pos' = [pos EXCEPT ![t] = head]
  /\ UNCHANGED <<head, tail, seq, data, read, item, pushes, pops, ticketOf, popped>>

PopSwap(t) ==
  /\ \/ /\ head = pos[t]
        /\ Goto(t, "popSwap", "popData")
        /\ head' = pos[t] + 1
        /\ UNCHANGED pos
     \/ /\ head # pos[t]
        /\ Goto(t, "popSwap", "popLook")
        /\ pos' = [pos EXCEPT ![t] = head]
        /\ UNCHANGED head
  /\ UNCHANGED <<tail, seq, data, read, item, pushes, pops, ticketOf, popped>>

PopData(t) ==
  /\ Goto(t, "popData", "popStore")
  /\ item' = [item EXCEPT ![t] = data[Node(pos[t])]]
  /\ UNCHANGED <<head, tail, seq, data, pos, read, pushes, pops, ticketOf, popped>>

NextLap_FromSeq(t) == read[t] + Size
\* What the push of the next lap waits for.
NextLap(t) == pos[t] + Size

PopStore(t) ==
  /\ Goto(t, "popStore", "idle")                           \* returns true
  /\ seq' = [seq EXCEPT ![Node(pos[t])] = NextLap(t)]
  /\ popped' = [popped EXCEPT ![pos[t]] = item[t]]
  /\ UNCHANGED <<head, tail, data, pos, read, item, pushes, pops, ticketOf>>

-----------------------------------------------------------------------------
\* A call that has started takes its next step.
Continue(t) ==
  \/ PushLook(t) \/ PushReload(t) \/ PushSwap(t) \/ PushData(t) \/ PushStore(t)
  \/ PopLook(t) \/ PopReload(t) \/ PopSwap(t) \/ PopData(t) \/ PopStore(t)

RingNext == \E t \in Threads : Push(t) \/ Pop(t) \/ Continue(t)

RingSpec == RingInit /\ [][RingNext]_ringVars

\* A thread that is inside Push or Pop keeps running.
RingFairSpec == RingSpec /\ \A t \in Threads : WF_ringVars(Continue(t))

-----------------------------------------------------------------------------
(* Properties                                                              *)

\* First in, first out, each value once: a pop that has taken ticket n returns
\* the value of the push that took ticket n, which is there by then, although
\* the two threads' loads and stores interleave with those of every other lap.
PopReturnsItsTicket ==
  \A t \in Threads :
    pc[t] = "popStore" => /\ pos[t] \in Ticket
                          /\ item[t] # None
                          /\ item[t] = ticketOf[pos[t]]

\* data_ is not atomic: no thread writes or reads a node's data_ while
\* another one is about to write it.
DataRaceFree ==
  \A t, u \in Threads :
    /\ t # u
    /\ pc[t] = "pushData"
    /\ pc[u] \in {"pushData", "popData"}
    => Node(pos[t]) # Node(pos[u])

\* Every call of Push and of Pop returns: the retry loops do not spin for
\* ever on a node whose seq nobody will change.
EveryCallReturns == \A t \in Threads : pc[t] # "idle" ~> pc[t] = "idle"
=============================================================================
