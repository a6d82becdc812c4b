-------------------------- MODULE SequenceNumbers --------------------------
(***************************************************************************)
(* Sequence numbers of the reliability layer.  The code keeps them in      *)
(* Uint32 fields and subtracts and increments them modulo 2^32; here the   *)
(* modulus is the constant SeqMod, so that a run can reach the wrap.       *)
(* Window is DEFAULT_WINDOW_COUNT, the number of pending and of cached     *)
(* packets per stream and the width of the acceptance tests.               *)
(***************************************************************************)
EXTENDS Integers

CONSTANTS
  SeqMod,   \* 2^32 in the code
  Window,   \* DEFAULT_WINDOW_COUNT (pch.h): 64 in the code
  StartSeq  \* last number used when the model begins: 0 after Reset, or any
            \* other once so many packets were delivered and acknowledged

\* 64 divides 2^32, and the window is less than half of the number space.
ASSUME SeqModAssumption ==
  /\ Window \in Nat \ {0}
  /\ SeqMod \in Nat
  /\ SeqMod % Window = 0
  /\ 2 * Window <= SeqMod
  /\ StartSeq \in 0 .. SeqMod - 1

SeqNo == 0 .. SeqMod - 1

SlotIndex == 0 .. Window - 1

\* Uint32 arithmetic: a - b and a + n with wrap-around, for a, b in SeqNo
\* and n < SeqMod.
USub(a, b) == IF a >= b THEN a - b ELSE a - b + SeqMod
UAdd(a, n) == IF a + n < SeqMod THEN a + n ELSE a + n - SeqMod

\* The array index of a sequence number: sequenceNo % DEFAULT_WINDOW_COUNT.
Slot(seq) == seq % Window

\* The sequence number that the n-th packet from the beginning carries.
Wire(n) == (StartSeq + n) % SeqMod
=============================================================================
