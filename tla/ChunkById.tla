----------------------------- MODULE ChunkById -----------------------------
(***************************************************************************)
(* Builder.ChunkById: reads a table in chunks of ChunkSize rows, each      *)
(* chunk starting after the last key of the chunk before, and hands every  *)
(* chunk to the caller's callback, while other clients (and the callback   *)
(* itself) insert and remove rows between the queries.                     *)
(***************************************************************************)
EXTENDS TablePage

CONSTANTS
  Rows,             \* every row that can exist
  Key,              \* the value of the key column in a row
  OrderRank,        \* place of a row under "order by <b's own orders>, column"
  OrRows,           \* rows that b's where clause accepts by an OR branch
  ChunkSize,
  BaseOffset,       \* the offset set on b before the call, 0 if none
  Calls,            \* the calls a caller may make, see CallKinds
  ReadsMayBreak,    \* may the connection break while rows are read?
  NoRow             \* the end of an empty slice

\* The element type of dest and the key column: a struct, a pointer to a
\* struct, a map with a known key column, a map without one, and a struct
\* whose key column the query does not select.
Elements == {"struct", "pointer", "map", "map_without_column", "keyless_struct"}

\* ... and whether the callback shortens or reorders the slice it is given.
CallKinds == [elem : Elements, edits : BOOLEAN]

ASSUME RowsAssumption == IsFiniteSet(Rows)
ASSUME KeyAssumption == Key \in [Rows -> Nat \ {0}]
ASSUME OrderAssumption == OrderRank \in [Rows -> Int]
ASSUME OrAssumption == OrRows \subseteq Rows
ASSUME SizeAssumption == ChunkSize \in Nat \ {0}
ASSUME OffsetAssumption == BaseOffset \in Nat
ASSUME CallsAssumption == Calls \subseteq CallKinds
ASSUME NoRowAssumption == NoRow \notin Rows
ASSUME BreakAssumption == ReadsMayBreak \in BOOLEAN

NoCursor == -1

VARIABLES
  table,      \* rows that satisfy b's where clause now
  call,       \* the kind of this call
  pc,         \* where the call is
  batch,      \* rows the last query fetched (tempDest, count)
  last,       \* the element at the end of tempDest once the callback is back
  cursor,     \* lastId
  delivered,  \* history: rows the callback has been given
  must        \* history: rows that have matched since the call began

vars == <<table, call, pc, batch, last, cursor, delivered, must>>

Final == {"done", "failed", "panicked"}
Status == {"start", "callback", "loop"} \cup Final

Init ==
  /\ table \in SUBSET Rows
  /\ call \in Calls
  /\ pc = "start"
  /\ batch = {}
  /\ last = NoRow
  /\ cursor = NoCursor
  /\ delivered = {}
  /\ must = table

-----------------------------------------------------------------------------
\* A map has no model to take the key column from: without an order and
\* without the extra argument the call panics before any query.
NoColumn ==
  /\ pc = "start"
  /\ call.elem = "map_without_column"
  /\ pc' = "panicked"
  /\ UNCHANGED <<table, call, batch, last, cursor, delivered, must>>

\* A query runs, its rows are scanned into a new slice; a chunk without rows
\* ends the loop.
Load(page) ==
  \E rows \in page : \E read \in Fetched(rows, OrderRank, ReadsMayBreak) :
    /\ batch' = read
    /\ pc' = IF read = {} THEN "done" ELSE "callback"

FirstPage ==
  /\ pc = "start"
  /\ call.elem # "map_without_column"
  /\ Load(PageOf(table, ForPage(1, ChunkSize), OrderRank))
  /\ UNCHANGED <<table, call, last, cursor, delivered, must>>

\* The element at the end of a slice that was read in order.
LastOf(S) == {l \in S : \A s \in S : OrderRank[s] <= OrderRank[l]}

\* The callback works on the slice that the cursor is read from afterwards.
SliceEnds(S) == IF call.edits THEN S \cup {NoRow} ELSE LastOf(S)

\* The callback is given the chunk and returns nil, or an error that ends
\* the call.
Callback ==
  /\ pc = "callback"
  /\ delivered' = delivered \cup batch
  /\ \/ pc' = "loop" /\ last' \in SliceEnds(batch)
     \/ pc' = "failed" /\ UNCHANGED last
  /\ UNCHANGED <<table, call, batch, cursor, must>>

\* Mutant of Finish: a full chunk ends the loop as well.
FinishOnFullChunk ==
  /\ pc = "loop"
  /\ pc' = "done"
  /\ UNCHANGED <<table, call, batch, last, cursor, delivered, must>>

\* A short chunk is the last one.
Finish ==
  /\ pc = "loop"
  /\ Cardinality(batch) # ChunkSize
  /\ pc' = "done"
  /\ UNCHANGED <<table, call, batch, last, cursor, delivered, must>>

\* Field on a pointer element, or the end of an emptied slice: the call
\* panics after the callback has run.
LastPanics ==
  /\ pc = "loop"
  /\ Cardinality(batch) = ChunkSize
  /\ call.elem = "pointer" \/ last = NoRow
  /\ pc' = "panicked"
  /\ UNCHANGED <<table, call, batch, last, cursor, delivered, must>>

LastId == IF call.elem = "keyless_struct" THEN 0 ELSE Key[last]

\* Mutants of After: ">=" for ">", and a clone that loses the added where.
AfterInclusive(key) == {r \in table : r \in OrRows \/ Key[r] >= key}
AfterForgotten(key) == {r \in table : key = key}

\* "where <b's clause> and column > lastId": AND binds tighter than OR, so
\* the rows of an OR branch stay in whatever the cursor is.
After(key) == {r \in table : r \in OrRows \/ Key[r] > key}

\* The next query runs on a fresh clone of b.  Limit replaces b's limit, but
\* the offset b came with is still there: only ForPage had replaced it.
NextPage ==
  /\ pc = "loop"
  /\ Cardinality(batch) = ChunkSize
  /\ call.elem # "pointer" /\ last # NoRow
  /\ cursor' = LastId
  /\ Load(PageOf(After(LastId), [offset |-> BaseOffset, limit |-> ChunkSize],
                 OrderRank))
  /\ UNCHANGED <<table, call, last, delivered, must>>

\* Preparing, running or scanning the query fails with an error.
QueryFails ==
  /\ \/ pc = "start" /\ call.elem # "map_without_column"
     \/ /\ pc = "loop" /\ Cardinality(batch) = ChunkSize
        /\ call.elem # "pointer" /\ last # NoRow
  /\ pc' = "failed"
  /\ UNCHANGED <<table, call, batch, last, cursor, delivered, must>>

-----------------------------------------------------------------------------
\* Other clients, and the callback's own statements.
InsertRow(r) ==
  /\ r \notin table
  /\ table' = table \cup {r}
  /\ UNCHANGED <<call, pc, batch, last, cursor, delivered, must>>

RemoveRow(r) ==
  /\ r \in table
  /\ table' = table \ {r}
  /\ must' = must \ {r}
  /\ UNCHANGED <<call, pc, batch, last, cursor, delivered>>

Loop ==
  NoColumn \/ FirstPage \/ Callback \/ Finish \/ LastPanics \/ NextPage \/ QueryFails

Next == Loop \/ \E r \in Rows : InsertRow(r) \/ RemoveRow(r)

Spec == Init /\ [][Next]_vars
FairSpec == Spec /\ WF_vars(Loop)

-----------------------------------------------------------------------------
\* Every variable has its type, a chunk is never larger than ChunkSize, and
\* the callback is never called with an empty chunk.
TypeOK ==
  /\ table \subseteq Rows
  /\ call \in Calls
  /\ pc \in Status
  /\ batch \subseteq Rows /\ Cardinality(batch) <= ChunkSize
  /\ pc = "callback" => batch # {}
  /\ last \in Rows \cup {NoRow}
  /\ cursor \in Int
  /\ delivered \subseteq Rows
  /\ must \subseteq table

\* The cursor is the key of the chunk's last row: the query selects the key
\* column and the callback left the slice alone.
CursorIsLastKey == ~call.edits /\ call.elem # "keyless_struct"

\* ChunkById never hands the callback a row it has already handed over,
\* however rows come and go between the queries; only the rows that an OR
\* branch of the where clause keeps matching may come again.
NoRepeat == pc = "callback" /\ CursorIsLastKey => batch \cap delivered \subseteq OrRows

\* When ChunkById returns nil, every row that matched all along has been
\* given to the callback.
NoSkip == pc = "done" => must \subseteq delivered

\* The cursor moves strictly forward from chunk to chunk, so no chunk can be
\* asked for twice.
CursorAdvances == [][CursorIsLastKey => cursor' > cursor]_cursor

\* The rows that the cursor has not passed, and how many steps of its own the
\* call can take yet, at most: a query and a callback for each, and the ones at the ends.
Ahead == {r \in Rows : Key[r] > cursor}
Left ==
  CASE pc \in Final -> 0
    [] pc = "loop" -> 2 * Cardinality(Ahead) + 1
    [] pc = "callback" -> 2 * Cardinality(Ahead) + 2
    [] pc = "start" -> 2 * Cardinality(Ahead) + 3

\* Every step of the call leaves it fewer steps to take, and no row that another
\* client inserts or removes gives it more.
RunsDown ==
  [][CursorIsLastKey => (Loop /\ Left' < Left) \/ (~Loop /\ Left' = Left)]_vars

\* The loop ends, even if other clients never stop writing: the cursor runs
\* out of keys.
Terminates == <>(pc \in Final)

\* ChunkById does what a caller relies on.
SweepStatus ==
  IF pc = "done" THEN "complete"
  ELSE IF pc \in Final THEN "aborted" ELSE "sweeping"

Sweep == INSTANCE RowSweep WITH chunk <- batch, status <- SweepStatus

ImplementsSweep == Sweep!Spec
=============================================================================
