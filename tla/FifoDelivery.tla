---------------------------- MODULE FifoDelivery ----------------------------
(***************************************************************************)
(* What an ordered channel promises its application: packets are handed    *)
(* to the handlers in the order they were passed to SendPacket, each once, *)
(* and none that was not sent.  Packet n is the n-th one sent.             *)
(***************************************************************************)
EXTENDS Integers, Sequences

VARIABLES sent, delivered

Init == sent = 0 /\ delivered = << >>

Send ==
  /\ sent' = sent + 1
  /\ UNCHANGED delivered

\* One arrival may release a run of packets that waited for it.
Deliver ==
  /\ \E n \in Len(delivered) + 1 .. sent :
        delivered' = delivered \o [i \in 1 .. n - Len(delivered) |-> Len(delivered) + i]
  /\ UNCHANGED sent

Next == Send \/ Deliver

Spec == Init /\ [][Next]_<<sent, delivered>>
=============================================================================
