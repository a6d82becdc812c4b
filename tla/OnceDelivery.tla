---------------------------- MODULE OnceDelivery ----------------------------
(***************************************************************************)
(* What the reliable unordered stream promises its application: each       *)
(* packet is handed to the handlers at most once, and none that was not    *)
(* sent, in any order.  Packet n is the n-th one sent.                     *)
(***************************************************************************)
EXTENDS Integers

CONSTANT Payload

VARIABLES sent, handled   \* handled[n]: how often packet n was handed over

Init == sent = 0 /\ handled = [n \in Payload |-> 0]

Send ==
  /\ sent' = sent + 1
  /\ UNCHANGED handled

Deliver(n) ==
  /\ n <= sent
  /\ handled[n] = 0
  /\ handled' = [handled EXCEPT ![n] = 1]
  /\ UNCHANGED sent

Next == Send \/ \E n \in Payload : Deliver(n)

Spec == Init /\ [][Next]_<<sent, handled>>
=============================================================================
