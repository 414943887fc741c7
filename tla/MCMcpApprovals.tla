--------------------------- MODULE MCMcpApprovals ---------------------------
(* Turns of a project that call one tool of one connection. *)
EXTENDS McpApprovals, TLC

CONSTANTS t1, t2, write, d1, d2

\* Nothing tells turns, or digests, apart.
Interchangeable == Permutations(Turn) \cup Permutations(Schema)
=============================================================================
