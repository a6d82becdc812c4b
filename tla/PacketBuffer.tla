---------------------------- MODULE PacketBuffer ----------------------------
(***************************************************************************)
(* The life of an OverlappedPacketBuffer between the pool, the kernel and  *)
(* the pending slots of one session (or client).                           *)
(*                                                                         *)
(* A reliable packet's buffer has two users at once: the kernel, which     *)
(* reads it until the send completes, and the pending slot, which keeps it *)
(* for retransmission until the ACK.  Whichever lets go last must return   *)
(* it to PacketManager.  Nothing but two bits of the atomic type_ word     *)
(* decides who that is: SENDING is set while the kernel has the buffer,    *)
(* RELIABLE while the slot does; SendToComplete clears the first and       *)
(* AckProcess the second, and each looks at the other's bit in the old     *)
(* value.                                                                  *)
(*                                                                         *)
(* Threads are I/O threads, session workers and application threads. Those *)
(* that send, acknowledge, repeat or reset hold sendLock_ (lock_ in the    *)
(* clients); completions run on any I/O thread and take no lock.           *)
(* The lock itself is the subject of module RWLock.  Disconnect is called  *)
(* without lock_ by the main thread of the echo client and by ~Client:     *)
(* ResetBegin_Unlocked is such a call, with which ReturnedOnce does not    *)
(* hold.                                                                   *)
(*                                                                         *)
(* The code loses a buffer in two places, which the history variable       *)
(* `abandoned` records: an old ping makes RepeatPongMessage take one and   *)
(* forget it, and InternalClient sends as reliable a packet that found its *)
(* window full, so that neither the completion nor an ACK returns it.      *)
(***************************************************************************)
EXTENDS Integers, FiniteSets, ThreadSteps

CONSTANTS
  Buffers,   \* every buffer there will ever be; one PopPacketBuffer has
             \* still to make counts as one in its list
  NoThread,  \* the lock is free
  NoBuffer

ASSUME BufferAssumption ==
  /\ NoThread \notin Threads
  /\ NoBuffer \notin Buffers

VARIABLES
  freeCount,  \* how often the buffer is in PacketManager's list_
  kernel,     \* sends of the buffer the kernel has not completed
  RELIABLE,   \* the two bits of type_
  SENDING,
  pending,    \* the buffers in pendingPackets_
  lock,       \* holder of sendLock_
  buf,        \* per thread: the buffer in its hands
  old,        \* per thread: the bit it saw in the old value of type_
  resetting,  \* per thread: is it in ReturnBuffers?
  abandoned   \* history: buffers the code has let go of although nothing will
              \* return them

packetVars == <<freeCount, kernel, RELIABLE, SENDING, pending, lock, pc, buf, old,
                resetting, abandoned>>

BufferInit ==
  /\ freeCount = [b \in Buffers |-> 1]
  /\ kernel = [b \in Buffers |-> 0]
  /\ RELIABLE = [b \in Buffers |-> FALSE]
  /\ SENDING = [b \in Buffers |-> FALSE]
  /\ pending = {}
  /\ lock = NoThread
  /\ pc = [t \in Threads |-> "idle"]
  /\ buf = [t \in Threads |-> NoBuffer]
  /\ old = [t \in Threads |-> FALSE]
  /\ resetting = [t \in Threads |-> FALSE]
  /\ abandoned = {}

-----------------------------------------------------------------------------
(* Helpers                                                                 *)

\* PopPacketBuffer, PushPacketBuffer: each holds PacketManager's own lock.
PopPacketBuffer(b) ==
  /\ freeCount[b] > 0
  /\ freeCount' = [freeCount EXCEPT ![b] = @ - 1]

PushPacketBuffer(b) == freeCount' = [freeCount EXCEPT ![b] = @ + 1]

WriteLockGuard(t) == lock = NoThread /\ lock' = t
EndWriteLockGuard(t) == lock' = IF lock = t THEN NoThread ELSE lock

\* WSASendTo: the kernel reads the buffer until it posts a completion.
WSASendTo(b) == kernel' = [kernel EXCEPT ![b] = @ + 1]

-----------------------------------------------------------------------------
(* Unreliable sends: SendTo, also used for ACK, PING, SESSION and          *)
(* DISCONNECT, and the PONG of a client                                    *)

\* The old flags of a recycled buffer are overwritten by SetType(SENDTO).
SendTo(t) ==
  /\ pc[t] = "idle"
  /\ \E b \in Buffers :
       /\ PopPacketBuffer(b)
       /\ RELIABLE' = [RELIABLE EXCEPT ![b] = FALSE]
       /\ SENDING' = [SENDING EXCEPT ![b] = FALSE]
       /\ WSASendTo(b)
  /\ UNCHANGED <<pending, lock, pc, buf, old, resetting, abandoned>>

\* RepeatPongMessage takes a buffer for the PONG before it compares the ping
\* with lastPongSeq_.  An old ping, late or overtaken, is not answered, and the
\* buffer is neither sent nor pushed.
DropOldPing(t) ==
  /\ pc[t] = "idle"
  /\ \E b \in Buffers : PopPacketBuffer(b) /\ abandoned' = abandoned \cup {b}
  /\ UNCHANGED <<kernel, RELIABLE, SENDING, pending, lock, pc, buf, old, resetting>>

RepeatPongMessage(t) == SendTo(t) \/ DropOldPing(t)

-----------------------------------------------------------------------------
(* SendPacket, reliable: SendToReliable sets both bits                     *)

SendPacketBegin(t) ==
  /\ Goto(t, "idle", "send")
  /\ WriteLockGuard(t)
  /\ \E b \in Buffers : PopPacketBuffer(b) /\ buf' = [buf EXCEPT ![t] = b]
  /\ UNCHANGED <<kernel, RELIABLE, SENDING, pending, old,
                 resetting, abandoned>>

SendToReliable(b) ==
  /\ RELIABLE' = [RELIABLE EXCEPT ![b] = TRUE]
  /\ SENDING' = [SENDING EXCEPT ![b] = TRUE]
  /\ WSASendTo(b)

\* AddPendingPacket took the packet.
SendPacketKept(t) ==
  /\ Goto(t, "send", "idle")
  /\ pending' = pending \cup {buf[t]}
  /\ SendToReliable(buf[t])
  /\ buf' = [buf EXCEPT ![t] = NoBuffer]
  /\ EndWriteLockGuard(t)
  /\ UNCHANGED <<freeCount, old, resetting, abandoned>>

\* AddPendingPacket found the window full: Session and Client return the
\* buffer, InternalClient sends it although no slot keeps it.
SendPacketOverflow(t) ==
  /\ pending # {}
  /\ Goto(t, "send", "idle")
  /\ \/ /\ PushPacketBuffer(buf[t])
        /\ UNCHANGED <<kernel, RELIABLE, SENDING, abandoned>>
     \/ /\ SendToReliable(buf[t])
        /\ abandoned' = abandoned \cup {buf[t]}
        /\ UNCHANGED freeCount
  /\ buf' = [buf EXCEPT ![t] = NoBuffer]
  /\ EndWriteLockGuard(t)
  /\ UNCHANGED <<pending, old, resetting>>

-----------------------------------------------------------------------------
(* SendToComplete, on the thread that takes the completion                 *)

SendToComplete(t) ==
  /\ Goto(t, "idle", "completed")
  /\ \E b \in Buffers : /\ kernel[b] > 0
                        /\ kernel' = [kernel EXCEPT ![b] = @ - 1]
                        /\ buf' = [buf EXCEPT ![t] = b]
  /\ UNCHANGED <<freeCount, RELIABLE, SENDING, pending, lock, old,
                 resetting, abandoned>>

ClearSENDING_IgnoresRELIABLE(t) ==
  /\ Goto(t, "completed", "completedPush")
  /\ old' = [old EXCEPT ![t] = FALSE]
  /\ SENDING' = [SENDING EXCEPT ![buf[t]] = FALSE]
\* prev = type_.fetch_and(~SENDING)
ClearSENDING(t) ==
  /\ Goto(t, "completed", "completedPush")
  /\ old' = [old EXCEPT ![t] = RELIABLE[buf[t]]]
  /\ SENDING' = [SENDING EXCEPT ![buf[t]] = FALSE]

SendToCompleteClear(t) ==
  /\ ClearSENDING(t)
  /\ UNCHANGED <<freeCount, kernel, RELIABLE, pending, lock, buf,
                 resetting, abandoned>>

SendToCompletePush(t) ==
  /\ Goto(t, "completedPush", "idle")
  /\ IF old[t] THEN UNCHANGED freeCount ELSE PushPacketBuffer(buf[t])
  /\ buf' = [buf EXCEPT ![t] = NoBuffer]
  /\ UNCHANGED <<kernel, RELIABLE, SENDING, pending, lock, old,
                 resetting, abandoned>>

-----------------------------------------------------------------------------
(* AckProcess, and ReturnBuffers (Reset), which does the same to every     *)
(* pending buffer                                                          *)

AckProcess(t) ==
  /\ Goto(t, "idle", "release")
  /\ WriteLockGuard(t)
  /\ \E b \in pending : /\ pending' = pending \ {b}
                        /\ buf' = [buf EXCEPT ![t] = b]
  /\ UNCHANGED <<freeCount, kernel, RELIABLE, SENDING, old,
                 resetting, abandoned>>

ClearRELIABLE_WrongBit(t) ==
  /\ Goto(t, "release", "releasePush")
  /\ old' = [old EXCEPT ![t] = RELIABLE[buf[t]]]
  /\ RELIABLE' = [RELIABLE EXCEPT ![buf[t]] = FALSE]
\* old = type_.fetch_and(~RELIABLE)
ClearRELIABLE(t) ==
  /\ Goto(t, "release", "releasePush")
  /\ old' = [old EXCEPT ![t] = SENDING[buf[t]]]
  /\ RELIABLE' = [RELIABLE EXCEPT ![buf[t]] = FALSE]

ReleaseClear(t) ==
  /\ ClearRELIABLE(t)
  /\ UNCHANGED <<freeCount, kernel, SENDING, pending, lock, buf,
                 resetting, abandoned>>

ReleasePush(t) ==
  /\ Goto(t, "releasePush", IF resetting[t] THEN "reset" ELSE "idle")
  /\ IF old[t] THEN UNCHANGED freeCount ELSE PushPacketBuffer(buf[t])
  /\ buf' = [buf EXCEPT ![t] = NoBuffer]
  /\ IF resetting[t] THEN UNCHANGED lock ELSE EndWriteLockGuard(t)
  /\ UNCHANGED <<kernel, RELIABLE, SENDING, pending, old,
                 resetting, abandoned>>

ResetBegin_Unlocked(t) ==
  /\ Goto(t, "idle", "reset")
  /\ resetting' = [resetting EXCEPT ![t] = TRUE]
  /\ UNCHANGED <<freeCount, kernel, RELIABLE, SENDING, pending, lock, buf, old,
                 abandoned>>
\* Reset runs under the lock (but for the two calls the header names): of a
\* client in OnRecvFrom, CheckPending and SendPacket; of a session when it is destroyed, with sessionLock_ held for
\* writing, which keeps every other thread out of the session.
ResetBegin(t) ==
  /\ Goto(t, "idle", "reset")
  /\ WriteLockGuard(t)
  /\ resetting' = [resetting EXCEPT ![t] = TRUE]
  /\ UNCHANGED <<freeCount, kernel, RELIABLE, SENDING, pending, buf, old, abandoned>>

\* ReturnBuffers reads the slot and empties it.  With the lock that is one
\* step; without it another thread may take the same buffer in between.
ReturnBuffersRead(t) ==
  /\ Goto(t, "reset", "resetTake")
  /\ \E b \in pending : buf' = [buf EXCEPT ![t] = b]
  /\ UNCHANGED <<freeCount, kernel, RELIABLE, SENDING, pending, lock, old,
                 resetting, abandoned>>

ReturnBuffersTake(t) ==
  /\ Goto(t, "resetTake", "release")
  /\ pending' = pending \ {buf[t]}
  /\ UNCHANGED <<freeCount, kernel, RELIABLE, SENDING, lock, buf, old,
                 resetting, abandoned>>

ResetEnd(t) ==
  /\ Goto(t, "reset", "idle")
  /\ pending = {}
  /\ EndWriteLockGuard(t)
  /\ resetting' = [resetting EXCEPT ![t] = FALSE]
  /\ UNCHANGED <<freeCount, kernel, RELIABLE, SENDING, pending, buf, old, abandoned>>

-----------------------------------------------------------------------------
(* RepeatMessage and SendToRepeat                                          *)

MayRepeat_InFlightToo(b) == b \in pending
\* Only a kept buffer that the kernel has let go of is sent again.
MayRepeat(b) == b \in pending /\ ~SENDING[b]

RepeatMessage(t) ==
  /\ Goto(t, "idle", "repeat")
  /\ WriteLockGuard(t)
  /\ \E b \in Buffers : MayRepeat(b) /\ buf' = [buf EXCEPT ![t] = b]
  /\ UNCHANGED <<freeCount, kernel, RELIABLE, SENDING, pending, old,
                 resetting, abandoned>>

\* SetType(type_ | SENDING) is a load and a store, not one atomic step.
SendToRepeatLoad(t) ==
  /\ Goto(t, "repeat", "repeatStore")
  /\ old' = [old EXCEPT ![t] = RELIABLE[buf[t]]]
  /\ UNCHANGED <<freeCount, kernel, RELIABLE, SENDING, pending, lock, buf,
                 resetting, abandoned>>

SendToRepeatStore(t) ==
  /\ Goto(t, "repeatStore", "idle")
  /\ RELIABLE' = [RELIABLE EXCEPT ![buf[t]] = old[t]]
  /\ SENDING' = [SENDING EXCEPT ![buf[t]] = TRUE]
  /\ WSASendTo(buf[t])
  /\ buf' = [buf EXCEPT ![t] = NoBuffer]
  /\ EndWriteLockGuard(t)
  /\ UNCHANGED <<freeCount, pending, old, resetting, abandoned>>

-----------------------------------------------------------------------------
Step(t) ==
  \/ SendPacketKept(t) \/ SendPacketOverflow(t)
  \/ SendToCompleteClear(t) \/ SendToCompletePush(t)
  \/ ReleaseClear(t) \/ ReleasePush(t)
  \/ ReturnBuffersRead(t) \/ ReturnBuffersTake(t) \/ ResetEnd(t)
  \/ SendToRepeatLoad(t) \/ SendToRepeatStore(t)

BufferNext ==
  \E t \in Threads :
    \/ SendTo(t) \/ RepeatPongMessage(t)
    \/ SendPacketBegin(t) \/ SendToComplete(t)
    \/ AckProcess(t) \/ ResetBegin(t) \/ RepeatMessage(t)
    \/ Step(t)

BufferSpec == BufferInit /\ [][BufferNext]_packetVars

SendToCompleteOf(b) ==
  \E t \in Threads : SendToComplete(t) /\ kernel'[b] < kernel[b]

\* A thread inside a function runs on, and the I/O threads, which loop on
\* GetQueuedCompletionStatus, get round to every completion.
BufferFairSpec ==
  /\ BufferSpec
  /\ \A t \in Threads : WF_packetVars(Step(t))
  /\ \A b \in Buffers : SF_packetVars(SendToCompleteOf(b))

-----------------------------------------------------------------------------
(* Properties                                                              *)

PC == {"idle", "send", "completed", "completedPush", "release", "releasePush",
       "reset", "resetTake", "repeat", "repeatStore"}

\* Types: among them, PopPacketBuffer takes nothing from an empty list.
BufferTypes ==
  /\ freeCount \in [Buffers -> Nat]
  /\ kernel \in [Buffers -> Nat]
  /\ RELIABLE \in [Buffers -> BOOLEAN]
  /\ SENDING \in [Buffers -> BOOLEAN]
  /\ pending \subseteq Buffers
  /\ lock \in Threads \cup {NoThread}
  /\ pc \in [Threads -> PC]
  /\ buf \in [Threads -> Buffers \cup {NoBuffer}]
  /\ old \in [Threads -> BOOLEAN]
  /\ resetting \in [Threads -> BOOLEAN]
  /\ abandoned \subseteq Buffers

\* Thread t is at one of the places `at` with buffer b.
Holds(t, b, at) == buf[t] = b /\ pc[t] \in at

\* The kernel's side of the buffer is not finished: it is being sent, or its
\* completion has not yet cleared SENDING.
KernelHas(b) == kernel[b] > 0 \/ \E t \in Threads : Holds(t, b, {"completed"})

\* The slot's side is not finished: it is kept, or RELIABLE is not yet cleared.
SlotHas(b) == b \in pending \/ \E t \in Threads : Holds(t, b, {"release"})

\* Thread t has b to itself and will send it or return it.
WillReturn(t, b) ==
  \/ Holds(t, b, {"send"})
  \/ Holds(t, b, {"completedPush", "releasePush"}) /\ ~old[t]

\* A buffer is returned to PacketManager once: it is never twice in list_,
\* whichever of SendToComplete and AckProcess (or ReturnBuffers) comes last.
ReturnedOnce == \A b \in Buffers : freeCount[b] <= 1

\* A buffer in list_ is nobody's: not the kernel's, not a pending slot's,
\* not in the hands of a thread that will send it or return it.
FreeBufferIsUnused ==
  \A b \in Buffers :
    freeCount[b] > 0 =>
      ~KernelHas(b) /\ ~SlotHas(b) /\ \A t \in Threads : ~WillReturn(t, b)

\* RepeatMessage never hands the kernel a buffer it still has: one OVERLAPPED
\* is in one send at a time.
OneSendAtATime ==
  \A b \in Buffers :
    /\ kernel[b] <= 1
    /\ kernel[b] = 1 => \A t \in Threads : ~Holds(t, b, {"completed", "repeatStore"})

\* No buffer is lost but at the two places that abandon one (RepeatPongMessage
\* on an old ping, InternalClient's packet without a slot): any other that is
\* not in list_ is the kernel's, a slot's, or in the hands of a thread that
\* will send it or return it.
NoLostBuffer ==
  \A b \in Buffers :
    \/ freeCount[b] > 0
    \/ KernelHas(b)
    \/ SlotHas(b)
    \/ \E t \in Threads : WillReturn(t, b)
    \/ b \in abandoned

\* A buffer that is no longer kept for retransmission comes back to the pool,
\* whoever was the last to let go of it; only the two losses `abandoned` records
\* never do.
ReleasedBufferComesBack ==
  \A b \in Buffers :
    freeCount[b] = 0 /\ b \notin pending
      ~> freeCount[b] > 0 \/ b \in pending \/ b \in abandoned
=============================================================================
