--------------------------- MODULE MCTransaction ---------------------------
(* Values of the constants of Transaction for TLC. *)
EXTENDS Transaction, TLC

CONSTANTS c1, c2

\* One goroutine calls Transaction, the other BeginTransaction.
MCStyle == c1 :> "closure" @@ c2 :> "manual"

\* A single goroutine that calls Transaction.
MCAlone == c1 :> "closure"
=============================================================================
