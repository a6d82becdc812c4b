--------------------------- MODULE MCChunkStream ---------------------------
(* Model-checking definitions for ChunkStream.                             *)
EXTENDS ChunkStream, TLC

CONSTANTS plain, m1, m2, long

\* A plain packet, two messages that use every bit of the flag, and one that
\* is a chunk too long.
Sizes == plain :> 1 @@ m1 :> FlagBits @@ m2 :> FlagBits @@ long :> FlagBits + 1

\* Threads are alike, and so are the two messages of one size.
Symmetry == Permutations(Threads) \cup Permutations({m1, m2})
=============================================================================
