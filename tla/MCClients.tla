----------------------------- MODULE MCClients -----------------------------
(* Two writers and a reader; what is left to do says which of them the run  *)
(* lets meet.                                                               *)
EXTENDS Clients, TLC

CONSTANTS w1, w2, k1, k2, k3

Cold == pool[Reader] = 0
Bare == table = {} /\ ~unique /\ ~stamped

\* Goroutines that race for connections and models; writers that race for rows;
\* a reader among writers; and a little of each.
Meetings ==
  \/ Cold /\ Bare /\ asks = MaxAsks /\ <<calls, changes, reads>> = <<0, 0, 0>>
  \/ /\ ~Cold /\ Cardinality(table) < 2 /\ (unique => ~stamped) /\ asks = 0
     /\ <<calls, changes, reads>> \in {<<3, 0, 0>>, <<2, 1, 0>>}
  \/ /\ ~Cold /\ Cardinality(table) = 3 /\ ~unique /\ ~stamped
     /\ asks = 0 /\ <<calls, changes, reads>> \in {<<1, 1, 1>>, <<0, 2, 1>>}
  \/ Cold /\ Bare /\ asks = 2 /\ <<calls, changes, reads>> = <<1, 0, 1>>

MCInit == Init /\ Meetings
MCSpec == MCInit /\ [][Next]_vars
MCSymmetry == Permutations({w1, w2}) \cup Permutations({k1, k2, k3})
=============================================================================
