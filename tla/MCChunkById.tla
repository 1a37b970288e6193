---------------------------- MODULE MCChunkById ----------------------------
(* Values of the constants of ChunkById for TLC. *)
EXTENDS ChunkById

\* Auto-increment keys; the table is ordered by them.
MCKey == [r \in Rows |-> r]

\* Every element type, with a callback that leaves its slice alone.
MCPlainCalls == [elem : {"struct", "pointer", "map", "map_without_column"},
                 edits : {FALSE}]

\* A callback that edits its slice, a query without the key column, and the
\* usual call.
MCOddCalls == [elem : {"struct", "keyless_struct"}, edits : BOOLEAN]
=============================================================================
