------------------------------ MODULE RowSweep ------------------------------
(***************************************************************************)
(* What a caller of ChunkById relies on while other clients write to the   *)
(* table: the callback sees rows in ascending key order and therefore no   *)
(* row twice, and when the call returns no error every row that was there  *)
(* all along has been seen.                                                *)
(***************************************************************************)
EXTENDS Integers

CONSTANTS Rows, Key

VARIABLES
  table,      \* rows that match the query now
  chunk,      \* rows read last
  delivered,  \* rows the callback has been given
  must,       \* rows that have matched ever since the call began
  status      \* "sweeping", "complete" (returned nil) or "aborted"

vars == <<table, chunk, delivered, must, status>>

Init ==
  /\ table \in SUBSET Rows
  /\ chunk = {}
  /\ delivered = {}
  /\ must = table
  /\ status = "sweeping"

\* The next chunk is read once the callback has seen the one before.
Read(S) ==
  /\ status = "sweeping"
  /\ chunk \subseteq delivered
  /\ S # {} /\ S \subseteq table
  /\ \A d \in delivered, s \in S : Key[d] < Key[s]
  /\ chunk' = S
  /\ UNCHANGED <<table, delivered, must, status>>

\* The callback sees the whole chunk; it may end the sweep with an error.
Visit ==
  /\ status = "sweeping"
  /\ delivered' = delivered \cup chunk
  /\ status' \in {"sweeping", "aborted"}
  /\ UNCHANGED <<table, chunk, must>>

Complete ==
  /\ status = "sweeping"
  /\ must \subseteq delivered
  /\ status' = "complete"
  /\ chunk' \in {chunk, {}}
  /\ UNCHANGED <<table, delivered, must>>

Abort ==
  /\ status = "sweeping"
  /\ status' = "aborted"
  /\ UNCHANGED <<table, chunk, delivered, must>>

\* Another client inserts, deletes or updates rows.
Write ==
  /\ table' \in SUBSET Rows
  /\ must' = must \cap table'
  /\ UNCHANGED <<chunk, delivered, status>>

Next ==
  (\E S \in SUBSET Rows : Read(S)) \/ Visit \/ Complete \/ Abort \/ Write

Spec == Init /\ [][Next]_vars
=============================================================================
