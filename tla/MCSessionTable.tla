--------------------------- MODULE MCSessionTable ---------------------------
(* Model-checking definitions for SessionTable.                            *)
EXTENDS SessionTable, TLC

CONSTANTS c1, a1, a2

\* One client that moves between two addresses.
Roaming == c1 :> {a1, a2}
=============================================================================
