------------------------------ MODULE MCRelay ------------------------------
(* Small instances of Relay for TLC.                                       *)
EXTENDS Relay

Says(author, kind) == [author |-> author, kind |-> kind]

\* One author writes twice; two write at once, the first a chat that loses its
\* order; a bot message goes with a chat in chunks.
MCScripts ==
  { <<Says(1, "Chat"), Says(1, "Chat")>>,
    <<Says(1, "LongChat"), Says(2, "Chat")>>,
    <<Says(1, "Bot"), Says(2, "DumpChat")>> }
=============================================================================
