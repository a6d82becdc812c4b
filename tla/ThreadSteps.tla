---------------------------- MODULE ThreadSteps ----------------------------
(***************************************************************************)
(* Threads that run the code step by step: pc says where each of them is,  *)
(* and a step takes one from one place to the next.                        *)
(***************************************************************************)
CONSTANT Threads

VARIABLE pc

Goto(t, from, to) == pc[t] = from /\ pc' = [pc EXCEPT ![t] = to]
=============================================================================
