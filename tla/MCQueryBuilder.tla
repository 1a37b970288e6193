--------------------------- MODULE MCQueryBuilder ---------------------------
(* Two builders for TLC, interchangeable. *)
EXTENDS QueryBuilder, TLC

CONSTANTS b1, b2

MCSymmetry == Permutations({b1, b2})
=============================================================================
