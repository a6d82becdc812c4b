------------------------------- MODULE RWLock -------------------------------
(***************************************************************************)
(* DUBU::Lock, the spinning readers-writer lock behind every lock guard of *)
(* the framework.  One atomic word holds the number of readers in its READ *)
(* bits, or the value WRITE while a writer is in.  A reader loads the word *)
(* and tries to replace it by one more; a writer tries to replace EMPTY by *)
(* WRITE.  compare_exchange_weak may also fail for no reason.              *)
(***************************************************************************)
EXTENDS Integers, FiniteSets, ThreadSteps

CONSTANTS
  ReadLimit,  \* 2^16 in the code: READ is ReadLimit - 1, the bits below it
  WRITE       \* the writer's bits, all of them at ReadLimit or above

\* There are fewer threads than READ can count.
ASSUME LockAssumption ==
  /\ IsFiniteSet(Threads)
  /\ ReadLimit \in Nat
  /\ WRITE \in Nat
  /\ Cardinality(Threads) < ReadLimit
  /\ ReadLimit <= WRITE

VARIABLES
  count,     \* the atomic word count_
  expected   \* per thread: the value a reader loaded

vars == <<count, pc, expected>>

EMPTY == 0

Init ==
  /\ count = EMPTY
  /\ pc = [t \in Threads |-> "idle"]
  /\ expected = [t \in Threads |-> EMPTY]

\* expected & WRITE
HasWriteBits(n) == n >= ReadLimit

-----------------------------------------------------------------------------
(* ReadLock, ReadUnLock                                                    *)

ReadLock(t) == Goto(t, "idle", "readLoad") /\ UNCHANGED <<count, expected>>

ReadLockLoad(t) ==
  /\ Goto(t, "readLoad", IF HasWriteBits(count) THEN "readLoad" ELSE "readSwap")
  /\ expected' = [expected EXCEPT ![t] = count]
  /\ UNCHANGED count

SwapIn_Blind(t) == count' = expected[t] + 1
\* compare_exchange_weak(expected, expected + 1), successful
SwapIn(t) == count = expected[t] /\ count' = expected[t] + 1

ReadLockSwap(t) ==
  /\ Goto(t, "readSwap", "reading")
  /\ SwapIn(t)
  /\ UNCHANGED expected

ReadLockRetry(t) == Goto(t, "readSwap", "readLoad") /\ UNCHANGED <<count, expected>>

ReadUnLock(t) ==
  /\ Goto(t, "reading", "idle")
  /\ count' = count - 1
  /\ UNCHANGED expected

-----------------------------------------------------------------------------
(* WriteLock, WriteUnLock                                                  *)

WriteLock(t) == Goto(t, "idle", "writeSwap") /\ UNCHANGED <<count, expected>>

MayWrite_NoWriter == count < ReadLimit
MayWrite == count = EMPTY

\* compare_exchange_weak(EMPTY, WRITE), successful
WriteLockSwap(t) ==
  /\ Goto(t, "writeSwap", "writing")
  /\ MayWrite
  /\ count' = WRITE
  /\ UNCHANGED expected

WriteLockRetry(t) == Goto(t, "writeSwap", "writeSwap") /\ UNCHANGED <<count, expected>>

WriteUnLock_AsReader(t) ==
  /\ Goto(t, "writing", "idle")
  /\ count' = count - 1
  /\ UNCHANGED expected
\* store(EMPTY)
WriteUnLock(t) ==
  /\ Goto(t, "writing", "idle")
  /\ count' = EMPTY
  /\ UNCHANGED expected

Next ==
  \E t \in Threads :
    \/ ReadLock(t) \/ ReadLockLoad(t) \/ ReadLockSwap(t) \/ ReadLockRetry(t)
    \/ ReadUnLock(t)
    \/ WriteLock(t) \/ WriteLockSwap(t) \/ WriteLockRetry(t)
    \/ WriteUnLock(t)

Spec == Init /\ [][Next]_vars

\* Every thread keeps running, holders let go, and a swap that could succeed
\* again and again does not fail every time.
FairSpec ==
  /\ Spec
  /\ \A t \in Threads :
       /\ WF_vars(ReadLockLoad(t) \/ ReadLockRetry(t))
       /\ WF_vars(ReadUnLock(t) \/ WriteUnLock(t))
       /\ SF_vars(ReadLockSwap(t) \/ WriteLockSwap(t))

-----------------------------------------------------------------------------
(* Properties                                                              *)

Readers == {t \in Threads : pc[t] = "reading"}
Writers == {t \in Threads : pc[t] = "writing"}
Waiting == {t \in Threads : pc[t] \in {"readLoad", "readSwap", "writeSwap"}}

\* Types: ReadUnLock never takes the word below zero.
TypeOK ==
  /\ count \in Nat
  /\ pc \in [Threads -> {"idle", "readLoad", "readSwap", "reading",
                         "writeSwap", "writing"}]
  /\ expected \in [Threads -> Nat]

\* A writer is alone: what lock_, sendLock_ and sessionLock_ are for.
MutualExclusion ==
  \A t \in Writers : Writers = {t} /\ Readers = {}

\* The word tells who is in: WRITE for a writer, otherwise the number of
\* readers, which never spills out of the READ bits.
CountAgreement ==
  IF Writers # {} THEN count = WRITE
                  ELSE count = Cardinality(Readers) /\ count < ReadLimit

\* The assertion in ReadUnLock: the READ bits are not zero.
ReadUnLockAssertion == Readers # {} => count % ReadLimit > 0

\* The lock never hangs: while threads wait in ReadLock or WriteLock, one of
\* them gets in (or another thread is in).  Which one is open: a thread may
\* lose every race.
SomebodyGetsIn == Waiting # {} ~> Readers \cup Writers # {}
=============================================================================
