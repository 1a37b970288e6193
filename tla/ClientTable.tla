---------------------------- MODULE ClientTable ----------------------------
(***************************************************************************)
(* A table in the server that several goroutines read and write: rows with *)
(* an auto-increment id, a column that callers look rows up by and one     *)
(* that they write.                                                        *)
(***************************************************************************)
EXTENDS Integers, FiniteSets

CONSTANTS
  Keys,     \* values of the column that is looked up
  Writers,  \* clients that find or create rows; each writes a value of its own
  MaxRows   \* bound: ids the server hands out

ASSUME TableAssumption ==
  IsFiniteSet(Keys) /\ MaxRows \in Nat /\ "other" \notin Writers /\ "same" \notin Keys \cup Writers

VARIABLES
  table,   \* the rows
  lastId,  \* the id handed out last
  unique   \* is there a unique index on the column?

tableVars == <<table, lastId, unique>>

Values == Writers \cup {"other"}
Row == [id : Nat, key : Keys, val : Values]

Ids(t) == {r.id : r \in t}
Holding(t, k) == {r \in t : r.key = k}

\* At first no key has two rows.
TableInit ==
  /\ unique \in BOOLEAN
  /\ \E rank \in UNION {[S -> 1..Cardinality(S)] : S \in SUBSET Keys} :
       /\ \A k, l \in DOMAIN rank : rank[k] = rank[l] => k = l
       /\ table = {[id |-> rank[k], key |-> k, val |-> "other"] : k \in DOMAIN rank}
       /\ lastId = Cardinality(DOMAIN rank)

\* A unique index takes no statement that would leave two rows of one key.
Accepts(t) == unique => \A r, s \in t : r.key = s.key => r = s

\* A row that the server would take, under an id of its own or the one given.
Fits(row) == row.id \notin Ids(table) /\ Accepts(table \cup {row})

\* Every row in S gets the key and the value, or keeps the "same".
Written(S, k, v) ==
  (table \ S) \cup {[r EXCEPT !.key = IF k = "same" THEN @ ELSE k,
                             !.val = IF v = "same" THEN @ ELSE v] : r \in S}
=============================================================================
