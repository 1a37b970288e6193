-------------------------- MODULE ChunkByIdProofs --------------------------
(***************************************************************************)
(* ChunkById for every table, chunk size and mix of writers.               *)
(***************************************************************************)
EXTENDS ChunkById, TablePageProofs

\* The first page has the limit of a chunk and no offset.
LEMMA FirstWindow == ForPage(1, ChunkSize) = [offset |-> 0, limit |-> ChunkSize]
BY SizeAssumption DEF ForPage, Clamp

\* A query fetches rows that match it, no more of them than a chunk, and the
\* callback is due exactly when there are any.
LEMMA LoadFacts ==
  ASSUME NEW M \in SUBSET Rows, NEW k \in Nat,
         Load(PageOf(M, [offset |-> k, limit |-> ChunkSize], OrderRank))
  PROVE  /\ batch' \subseteq M
         /\ Cardinality(batch') \in Nat
         /\ Cardinality(batch') <= ChunkSize
         /\ pc' = IF batch' = {} THEN "done" ELSE "callback"
         /\ k = 0 /\ ~ReadsMayBreak
              => batch' \in FirstRows(M, ChunkSize, OrderRank)
<1>. DEFINE w == [offset |-> k, limit |-> ChunkSize]
<1>1. /\ IsFiniteSet(M)
      /\ w \in [offset : Nat, limit : Nat] /\ w.limit = ChunkSize /\ w.offset = k
  BY RowsAssumption, SizeAssumption, FS_Subset
<1>2. PICK rows \in PageOf(M, w, OrderRank) :
        \E read \in Fetched(rows, OrderRank, ReadsMayBreak) :
           /\ batch' = read
           /\ pc' = IF read = {} THEN "done" ELSE "callback"
  BY DEF Load
<1>. HIDE DEF w
<1>3. /\ rows \subseteq M
      /\ IsFiniteSet(rows)
      /\ Cardinality(rows) \in Nat
      /\ Cardinality(rows) <= ChunkSize
      /\ k = 0 => rows \in FirstRows(M, ChunkSize, OrderRank)
  BY <1>1, <1>2, PageFacts
<1>4. /\ batch' \in Fetched(rows, OrderRank, ReadsMayBreak)
      /\ pc' = IF batch' = {} THEN "done" ELSE "callback"
  BY <1>2
<1>5. /\ batch' \subseteq rows
      /\ Cardinality(batch') \in Nat
      /\ Cardinality(batch') <= Cardinality(rows)
      /\ ~ReadsMayBreak => batch' = rows
  BY <1>3, <1>4, BreakAssumption, FetchedFacts
<1>. QED
  BY <1>3, <1>4, <1>5, SizeAssumption

\* The rows after the cursor are rows.
LEMMA AfterFacts == ASSUME TypeOK, NEW key PROVE After(key) \in SUBSET Rows
BY DEF TypeOK, After

\* What a following page's query leaves, with its window spelled out.
LEMMA NextPageLoads ==
  ASSUME TypeOK, NextPage
  PROVE  /\ batch' \subseteq After(LastId)
         /\ Cardinality(batch') \in Nat
         /\ Cardinality(batch') <= ChunkSize
         /\ pc' = IF batch' = {} THEN "done" ELSE "callback"
         /\ BaseOffset = 0 /\ ~ReadsMayBreak
              => batch' \in FirstRows(After(LastId), ChunkSize, OrderRank)
<1>. DEFINE M == After(LastId)
<1>1. M \in SUBSET Rows
  BY AfterFacts
<1>2. Load(PageOf(M, [offset |-> BaseOffset, limit |-> ChunkSize], OrderRank))
  BY DEF NextPage
<1>. HIDE DEF M
<1>3. /\ batch' \subseteq M
      /\ Cardinality(batch') \in Nat
      /\ Cardinality(batch') <= ChunkSize
      /\ pc' = IF batch' = {} THEN "done" ELSE "callback"
      /\ BaseOffset = 0 /\ ~ReadsMayBreak
           => batch' \in FirstRows(M, ChunkSize, OrderRank)
  BY <1>1, <1>2, OffsetAssumption, LoadFacts
<1>. QED
  BY <1>3 DEF M

\* What the first page's query leaves.
LEMMA FirstPageLoads ==
  ASSUME TypeOK, FirstPage
  PROVE  /\ batch' \subseteq table
         /\ Cardinality(batch') \in Nat
         /\ Cardinality(batch') <= ChunkSize
         /\ pc' = IF batch' = {} THEN "done" ELSE "callback"
         /\ ~ReadsMayBreak => batch' \in FirstRows(table, ChunkSize, OrderRank)
<1>1. Load(PageOf(table, [offset |-> 0, limit |-> ChunkSize], OrderRank))
  BY FirstWindow DEF FirstPage
<1>. QED
  BY <1>1, LoadFacts DEF TypeOK

-----------------------------------------------------------------------------
\* TypeOK holds of every state, for every table, chunk size and writer.
THEOREM TypeCorrect == Spec => []TypeOK
<1>1. Init => TypeOK
  <2>. SUFFICES ASSUME Init PROVE TypeOK
    OBVIOUS
  <2>1. Cardinality({}) = 0
    BY FS_EmptySet
  <2>. QED
    BY <2>1, SizeAssumption DEF Init, TypeOK, Status, Final, NoCursor
<1>2. TypeOK /\ [Next]_vars => TypeOK'
  <2>. SUFFICES ASSUME TypeOK, [Next]_vars PROVE TypeOK'
    OBVIOUS
  <2>. USE DEF TypeOK, Status, Final
  <2>1. CASE NoColumn
    BY <2>1 DEF NoColumn
  <2>2. CASE FirstPage
    <3>1. /\ batch' \subseteq table /\ Cardinality(batch') <= ChunkSize
          /\ pc' = IF batch' = {} THEN "done" ELSE "callback"
      BY <2>2, FirstPageLoads
    <3>. QED
      BY <2>2, <3>1 DEF FirstPage
  <2>3. CASE Callback
    <3>1. last' \in Rows \cup {NoRow}
      BY <2>3 DEF Callback, SliceEnds, LastOf
    <3>. QED
      BY <2>3, <3>1 DEF Callback
  <2>4. CASE Finish
    BY <2>4 DEF Finish
  <2>5. CASE LastPanics
    BY <2>5 DEF LastPanics
  <2>6. CASE NextPage
    <3>1. /\ batch' \subseteq After(LastId) /\ Cardinality(batch') <= ChunkSize
          /\ pc' = IF batch' = {} THEN "done" ELSE "callback"
      BY <2>6, NextPageLoads
    <3>2. After(LastId) \in SUBSET Rows
      BY AfterFacts
    <3>3. cursor' \in Int
      BY <2>6, KeyAssumption DEF NextPage, LastId
    <3>. QED
      BY <2>6, <3>1, <3>2, <3>3 DEF NextPage
  <2>7. CASE QueryFails
    BY <2>7 DEF QueryFails
  <2>8. ASSUME NEW r \in Rows, InsertRow(r)
        PROVE  TypeOK'
    BY <2>8 DEF InsertRow
  <2>9. ASSUME NEW r \in Rows, RemoveRow(r)
        PROVE  TypeOK'
    BY <2>9 DEF RemoveRow
  <2>10. CASE UNCHANGED vars
    BY <2>10 DEF vars
  <2>. QED
    BY <2>1, <2>2, <2>3, <2>4, <2>5, <2>6, <2>7, <2>8, <2>9, <2>10 DEF Next, Loop
<1>. QED
  BY <1>1, <1>2, PTL DEF Spec

-----------------------------------------------------------------------------
\* The query's order is the order of the keys: b came without an order of its
\* own, or with the order that ChunkById adds.
OrderFollowsKey ==
  \A r, s \in Rows : OrderRank[r] < OrderRank[s] <=> Key[r] < Key[s]

\* The OR branches of the where clause match fewer rows than fill a chunk.
FewOrRows == IsFiniteSet(OrRows) /\ Cardinality(OrRows) < ChunkSize

\* What keeps NoRepeat: the rows handed over lie below the chunk that is next,
\* and below the last row of the chunk that was last; that chunk in turn lies
\* above the cursor.
RepeatInv ==
  CursorIsLastKey =>
    /\ pc = "start" => delivered = {} /\ cursor = NoCursor
    /\ pc = "callback" =>
         \A d \in delivered \ OrRows, s \in batch \ OrRows : Key[d] < Key[s]
    /\ pc = "loop" =>
         /\ last \in LastOf(batch)
         /\ \A d \in delivered \ OrRows, s \in batch \ OrRows :
               d \in batch \/ Key[d] < Key[s]
    /\ pc \in {"callback", "loop"} =>
         \A s \in batch \ OrRows : cursor < Key[s]

\* A full chunk ends on a row that no OR branch forced into it, or beyond it.
LEMMA FullChunkMovesOn ==
  ASSUME FewOrRows, OrderFollowsKey, TypeOK, Cardinality(batch) = ChunkSize,
         last \in LastOf(batch)
  PROVE  /\ last \in batch /\ last \in Rows
         /\ \A s \in batch : Key[s] <= Key[last]
         /\ \E s \in batch : s \notin OrRows
<1>1. last \in batch /\ last \in Rows
  BY DEF LastOf, TypeOK
<1>2. \A s \in batch : Key[s] <= Key[last]
  <2>. SUFFICES ASSUME NEW s \in batch PROVE Key[s] <= Key[last]
    OBVIOUS
  <2>1. OrderRank[s] <= OrderRank[last]
    BY DEF LastOf
  <2>2. s \in Rows
    BY DEF TypeOK
  <2>3. ~(OrderRank[last] < OrderRank[s])
    BY <1>1, <2>1, <2>2, OrderAssumption
  <2>4. ~(Key[last] < Key[s])
    BY <1>1, <2>2, <2>3 DEF OrderFollowsKey
  <2>. QED
    BY <1>1, <2>2, <2>4, KeyAssumption
<1>3. \E s \in batch : s \notin OrRows
  <2>. SUFFICES ASSUME batch \subseteq OrRows PROVE FALSE
    OBVIOUS
  <2>1. Cardinality(batch) <= Cardinality(OrRows)
    BY FS_Subset DEF FewOrRows
  <2>2. Cardinality(OrRows) \in Nat
    BY FS_CardinalityType DEF FewOrRows
  <2>. QED
    BY <2>1, <2>2, SizeAssumption DEF FewOrRows
<1>. QED
  BY <1>1, <1>2, <1>3

\* The rows a following page fetches lie beyond the last row of the chunk
\* before, OR branches apart.
LEMMA NextPageBeyond ==
  ASSUME TypeOK, NextPage, CursorIsLastKey, NEW s \in batch' \ OrRows
  PROVE  s \in Rows /\ cursor' = Key[last] /\ Key[last] < Key[s]
<1>1. batch' \subseteq After(LastId)
  BY NextPageLoads
<1>2. LastId = Key[last] /\ last \in Rows
  BY DEF NextPage, CursorIsLastKey, LastId, TypeOK
<1>. QED
  BY <1>1, <1>2, KeyAssumption DEF NextPage, After, TypeOK

LEMMA RepeatInvInductive ==
  ASSUME FewOrRows, OrderFollowsKey, TypeOK, RepeatInv, [Next]_vars
  PROVE  RepeatInv'
<1>. SUFFICES ASSUME CursorIsLastKey'
              PROVE  /\ pc' = "start" => delivered' = {} /\ cursor' = NoCursor
                     /\ pc' = "callback" =>
                          \A d \in delivered' \ OrRows, s \in batch' \ OrRows :
                             Key[d] < Key[s]
                     /\ pc' = "loop" =>
                          /\ last' \in LastOf(batch')
                          /\ \A d \in delivered' \ OrRows, s \in batch' \ OrRows :
                                d \in batch' \/ Key[d] < Key[s]
                     /\ pc' \in {"callback", "loop"} =>
                          \A s \in batch' \ OrRows : cursor' < Key[s]
  BY DEF RepeatInv, LastOf
<1>0. CursorIsLastKey
  BY DEF Next, Loop, vars, CursorIsLastKey, NoColumn, FirstPage, Callback, Finish,
         LastPanics, NextPage, QueryFails, InsertRow, RemoveRow
<1>. USE <1>0 DEF RepeatInv
<1>1. CASE NoColumn
  BY <1>1 DEF NoColumn
<1>2. CASE FirstPage
  <2>1. batch' \subseteq Rows /\ pc' \in {"done", "callback"}
    BY <1>2, FirstPageLoads DEF TypeOK
  <2>2. delivered' = {} /\ cursor' = NoCursor
    BY <1>2 DEF FirstPage
  <2>. QED
    BY <2>1, <2>2, KeyAssumption DEF NoCursor
<1>3. CASE Callback
  BY <1>3 DEF Callback, SliceEnds, CursorIsLastKey
<1>4. CASE Finish
  BY <1>4 DEF Finish
<1>5. CASE LastPanics
  BY <1>5 DEF LastPanics
<1>6. CASE NextPage
  <2>1. pc = "loop" /\ Cardinality(batch) = ChunkSize /\ delivered' = delivered
    BY <1>6 DEF NextPage
  <2>2. pc' \in {"done", "callback"}
    BY <1>6, NextPageLoads
  <2>3. PICK s0 \in batch : s0 \notin OrRows /\ Key[s0] <= Key[last]
    BY <2>1, FullChunkMovesOn
  <2>4. \A d \in delivered \ OrRows : Key[d] <= Key[last]
    <3>. SUFFICES ASSUME NEW d \in delivered \ OrRows PROVE Key[d] <= Key[last]
      OBVIOUS
    <3>1. last \in Rows /\ (d \in batch => Key[d] <= Key[last])
      BY <2>1, FullChunkMovesOn
    <3>2. d \in batch \/ Key[d] < Key[s0]
      BY <2>1, <2>3
    <3>. QED
      BY <2>3, <3>1, <3>2, KeyAssumption DEF TypeOK
  <2>5. \A s \in batch' \ OrRows :
           s \in Rows /\ cursor' = Key[last] /\ Key[last] < Key[s]
    BY <1>6, NextPageBeyond
  <2>6. last \in Rows
    BY <2>1, FullChunkMovesOn
  <2>. QED
    BY <2>1, <2>2, <2>4, <2>5, <2>6, KeyAssumption DEF TypeOK
<1>7. CASE QueryFails
  BY <1>7 DEF QueryFails
<1>8. ASSUME NEW r \in Rows, InsertRow(r) \/ RemoveRow(r)
      PROVE  UNCHANGED <<pc, batch, last, cursor, delivered>>
  BY <1>8 DEF InsertRow, RemoveRow
<1>9. CASE UNCHANGED <<pc, batch, last, cursor, delivered>>
  BY <1>9
<1>10. CASE UNCHANGED vars
  BY <1>10 DEF vars
<1>. QED
  BY <1>1, <1>2, <1>3, <1>4, <1>5, <1>6, <1>7, <1>8, <1>9, <1>10 DEF Next, Loop

LEMMA RepeatInvHolds ==
  ASSUME FewOrRows, OrderFollowsKey
  PROVE  Spec => []RepeatInv
<1>1. Init => RepeatInv
  BY DEF Init, RepeatInv, NoCursor
<1>2. TypeOK /\ RepeatInv /\ [Next]_vars => RepeatInv'
  BY RepeatInvInductive
<1>. QED
  BY <1>1, <1>2, TypeCorrect, PTL DEF Spec

\* NoRepeat: whatever the writers do and whether or not reads break, the
\* callback is given no row twice, as long as the order is the order of the
\* keys and OR branches cannot fill a chunk.
THEOREM NeverRepeats ==
  ASSUME FewOrRows, OrderFollowsKey
  PROVE  Spec => []NoRepeat
<1>1. TypeOK /\ RepeatInv => NoRepeat
  <2>. SUFFICES ASSUME TypeOK, RepeatInv, pc = "callback", CursorIsLastKey,
                       NEW r \in batch \cap delivered, r \notin OrRows
                PROVE  FALSE
    BY DEF NoRepeat
  <2>. QED
    BY KeyAssumption DEF RepeatInv, TypeOK
<1>. QED
  BY <1>1, TypeCorrect, RepeatInvHolds, PTL

\* CursorAdvances, under the same assumptions.
THEOREM CursorMovesForward ==
  ASSUME FewOrRows, OrderFollowsKey
  PROVE  Spec => CursorAdvances
<1>1. TypeOK /\ RepeatInv /\ [Next]_vars
         => [CursorIsLastKey => cursor' > cursor]_cursor
  <2>. SUFFICES ASSUME TypeOK, RepeatInv, [Next]_vars, CursorIsLastKey,
                       cursor' # cursor
                PROVE  cursor' > cursor
    OBVIOUS
  <2>1. NextPage
    BY DEF Next, Loop, vars, NoColumn, FirstPage, Callback, Finish, LastPanics,
           QueryFails, InsertRow, RemoveRow
  <2>2. pc = "loop" /\ Cardinality(batch) = ChunkSize /\ last \in LastOf(batch)
    BY <2>1 DEF NextPage, RepeatInv
  <2>3. PICK s0 \in batch : s0 \notin OrRows /\ Key[s0] <= Key[last]
    BY <2>2, FullChunkMovesOn
  <2>4. cursor < Key[s0]
    BY <2>2, <2>3 DEF RepeatInv
  <2>5. cursor' = Key[last] /\ last \in Rows
    BY <2>1 DEF NextPage, LastId, CursorIsLastKey, TypeOK
  <2>. QED
    BY <2>3, <2>4, <2>5, KeyAssumption DEF TypeOK
<1>. QED
  BY <1>1, TypeCorrect, RepeatInvHolds, PTL DEF Spec, CursorAdvances

-----------------------------------------------------------------------------
\* Left, place by place.
LEMMA LeftFacts ==
  /\ IsFiniteSet(Ahead) /\ Cardinality(Ahead) \in Nat
  /\ pc = "loop" => Left = 2 * Cardinality(Ahead) + 1
  /\ pc = "callback" => Left = 2 * Cardinality(Ahead) + 2
  /\ pc = "start" => Left = 2 * Cardinality(Ahead) + 3
<1>1. Ahead \subseteq Rows
  BY DEF Ahead
<1>2. IsFiniteSet(Ahead) /\ Cardinality(Ahead) \in Nat
  BY <1>1, RowsAssumption, FS_Subset, FS_CardinalityType
<1>. HIDE DEF Ahead
<1>. QED
  BY <1>2 DEF Left, Final

\* The next query starts beyond a row that the one before had ahead.
LEMMA NextPageLeavesFewer ==
  ASSUME FewOrRows, OrderFollowsKey, TypeOK, RepeatInv, NextPage, CursorIsLastKey,
         IsFiniteSet(Ahead)
  PROVE  Cardinality(Ahead') \in Nat /\ Cardinality(Ahead') <= Cardinality(Ahead) - 1
<1>1. pc = "loop" /\ Cardinality(batch) = ChunkSize /\ last \in LastOf(batch)
  BY DEF NextPage, RepeatInv
<1>2. last \in Rows /\ \E s \in batch : s \notin OrRows /\ Key[s] <= Key[last]
  BY <1>1, FullChunkMovesOn
<1>3. PICK s \in batch : s \notin OrRows /\ Key[s] <= Key[last]
  BY <1>2
<1>4. cursor < Key[s] /\ s \in Rows /\ cursor \in Int
  BY <1>1, <1>3 DEF RepeatInv, TypeOK
<1>5. cursor' = Key[last] /\ cursor < Key[last]
  BY <1>2, <1>3, <1>4, KeyAssumption DEF NextPage, LastId, CursorIsLastKey
<1>6. last \in Ahead
  BY <1>2, <1>4, <1>5, KeyAssumption DEF Ahead
<1>7. Ahead' \subseteq Ahead \ {last}
  BY <1>2, <1>4, <1>5, KeyAssumption DEF Ahead
<1>. HIDE DEF Ahead
<1>8. IsFiniteSet(Ahead \ {last}) /\ Cardinality(Ahead \ {last}) = Cardinality(Ahead) - 1
  BY <1>6, FS_RemoveElement
<1>9. IsFiniteSet(Ahead') /\ Cardinality(Ahead') <= Cardinality(Ahead \ {last})
  BY <1>7, <1>8, FS_Subset
<1>. QED
  BY <1>8, <1>9, FS_CardinalityType

\* RunsDown: a call of ChunkById takes at most two steps for a row, and three more, however
\* many rows others write; that it takes them is the scheduler's part of Terminates.
THEOREM ChunkByIdRunsDown ==
  ASSUME FewOrRows, OrderFollowsKey
  PROVE  Spec => RunsDown
<1>1. TypeOK /\ RepeatInv /\ [Next]_vars
        => [CursorIsLastKey => (Loop /\ Left' < Left) \/ (~Loop /\ Left' = Left)]_vars
  <2>. SUFFICES ASSUME TypeOK, RepeatInv, Next, CursorIsLastKey
                PROVE  (Loop => Left' < Left) /\ (~Loop => Left' = Left)
    OBVIOUS
  <2>. DEFINE n == Cardinality(Ahead)
              m == Cardinality(Ahead')
  <2>1. /\ IsFiniteSet(Ahead) /\ n \in Nat
        /\ pc = "loop" => Left = 2 * n + 1
        /\ pc = "callback" => Left = 2 * n + 2
        /\ pc = "start" => Left = 2 * n + 3
    BY LeftFacts
  <2>2. /\ m \in Nat
        /\ pc' \in Final => Left' = 0
        /\ pc' = "loop" => Left' = 2 * m + 1
        /\ pc' = "callback" => Left' = 2 * m + 2
    <3>1. Ahead' \subseteq Rows
      BY DEF Ahead
    <3>2. m \in Nat
      BY <3>1, RowsAssumption, FS_Subset, FS_CardinalityType
    <3>. QED
      BY <3>2 DEF Left, Final
  <2>3. cursor' = cursor => m = n
    BY DEF Ahead
  <2>4. CASE pc' \in Final /\ pc \in {"start", "callback", "loop"} /\ Loop
    <3>. HIDE DEF n, m
    <3>. QED
      BY <2>1, <2>2, <2>4
  <2>5. CASE FirstPage
    <3>1. pc = "start" /\ cursor' = cursor /\ pc' \in {"done", "callback"}
      BY <2>5 DEF FirstPage, Load
    <3>. HIDE DEF n, m
    <3>. QED
      BY <2>1, <2>2, <2>3, <2>5, <3>1 DEF Final, Loop
  <2>6. CASE Callback
    <3>1. pc = "callback" /\ cursor' = cursor /\ pc' \in {"failed", "loop"}
      BY <2>6 DEF Callback
    <3>. HIDE DEF n, m
    <3>. QED
      BY <2>1, <2>2, <2>3, <2>6, <3>1 DEF Final, Loop
  <2>7. CASE NextPage
    <3>1. pc = "loop" /\ pc' \in {"done", "callback"}
      BY <2>7 DEF NextPage, Load
    <3>2. m <= n - 1
      BY <2>1, <2>7, NextPageLeavesFewer
    <3>. HIDE DEF n, m
    <3>. QED
      BY <2>1, <2>2, <2>7, <3>1, <3>2 DEF Final, Loop
  <2>8. CASE NoColumn \/ Finish \/ LastPanics \/ QueryFails
    <3>1. pc' \in Final /\ pc \in {"start", "callback", "loop"} /\ Loop
      BY <2>8 DEF NoColumn, Finish, LastPanics, QueryFails, Final, Loop
    <3>. QED
      BY <2>4, <3>1
  <2>9. CASE ~Loop
    <3>1. cursor' = cursor /\ pc' = pc
      BY <2>9 DEF Next, InsertRow, RemoveRow
    <3>2. Ahead' = Ahead
      BY <3>1 DEF Ahead
    <3>3. Left' = Left
      BY <3>1, <3>2 DEF Left
    <3>. QED
      BY <2>9, <3>3
  <2>. QED
    BY <2>5, <2>6, <2>7, <2>8, <2>9 DEF Loop
<1>. QED
  BY <1>1, TypeCorrect, RepeatInvHolds, PTL DEF Spec, RunsDown

-----------------------------------------------------------------------------
\* The key column tells any two rows apart: it is a primary key.
KeyIsUnique == \A r, s \in Rows : Key[r] = Key[s] => r = s

\* What NoSkip needs of the call: reads that do not break, b without an offset
\* of its own, ordered by its unique key.
WholePages == BaseOffset = 0 /\ ReadsMayBreak = FALSE /\ OrderFollowsKey /\ KeyIsUnique

\* Every row of Missing lies beyond a full chunk.
BeyondFullChunk(Missing) ==
  \A r \in Missing : Cardinality(batch) = ChunkSize /\ \A s \in batch : Key[s] < Key[r]

\* What keeps NoSkip: a row that matched all along and was not handed over lies
\* beyond the chunk, wherever the callback leaves the cursor in the chunk.
SkipInv ==
  /\ pc = "callback" => BeyondFullChunk(must \ (delivered \cup batch))
  /\ pc = "loop" => /\ last \in batch \cup {NoRow}
                    /\ batch \subseteq delivered
                    /\ BeyondFullChunk(must \ delivered)
  /\ NoSkip

\* A row left out of a page lies beyond a full page.
LEMMA LeftOutIsBeyond ==
  ASSUME WholePages, NEW M \in SUBSET Rows,
         NEW B \in FirstRows(M, ChunkSize, OrderRank), NEW r \in M \ B
  PROVE  Cardinality(B) = ChunkSize /\ \A s \in B : Key[s] < Key[r]
<1>1. IsFiniteSet(M) /\ ChunkSize \in Nat
  BY RowsAssumption, SizeAssumption, FS_Subset
<1>2. /\ B \subseteq M
      /\ Cardinality(B) \in Nat
      /\ Cardinality(B) <= ChunkSize
      /\ Cardinality(B) < ChunkSize => B = M
      /\ \A s \in B : OrderRank[s] <= OrderRank[r]
  BY <1>1, FirstRowsFacts
<1>3. ASSUME NEW s \in B PROVE Key[s] < Key[r]
  <2>1. s \in Rows /\ r \in Rows /\ s # r /\ OrderRank[s] <= OrderRank[r]
    BY <1>2
  <2>2. ~(OrderRank[r] < OrderRank[s])
    BY <2>1, OrderAssumption
  <2>3. ~(Key[r] < Key[s]) /\ Key[r] # Key[s]
    BY <2>1, <2>2 DEF WholePages, OrderFollowsKey, KeyIsUnique
  <2>. QED
    BY <2>1, <2>3, KeyAssumption
<1>. QED
  BY <1>1, <1>2, <1>3

LEMMA SkipInvInductive ==
  ASSUME WholePages, TypeOK, SkipInv, [Next]_vars
  PROVE  SkipInv'
<1>. USE DEF SkipInv, NoSkip, BeyondFullChunk
<1>1. CASE NoColumn
  BY <1>1 DEF NoColumn
<1>2. CASE FirstPage
  <2>1. /\ batch' \in FirstRows(table, ChunkSize, OrderRank)
        /\ pc' = IF batch' = {} THEN "done" ELSE "callback"
        /\ Cardinality(batch') \in Nat
    BY <1>2, FirstPageLoads DEF WholePages
  <2>2. \A r \in must \ batch' :
           Cardinality(batch') = ChunkSize /\ \A s \in batch' : Key[s] < Key[r]
    BY <2>1, LeftOutIsBeyond DEF TypeOK
  <2>3. batch' = {} => Cardinality(batch') # ChunkSize
    BY SizeAssumption, FS_EmptySet
  <2>. QED
    BY <1>2, <2>1, <2>2, <2>3 DEF FirstPage
<1>3. CASE Callback
  <2>1. pc' = "loop" => last' \in batch \cup {NoRow}
    BY <1>3 DEF Callback, SliceEnds, LastOf
  <2>. QED
    BY <1>3, <2>1 DEF Callback
<1>4. CASE Finish
  BY <1>4 DEF Finish
<1>5. CASE LastPanics
  BY <1>5 DEF LastPanics
<1>6. CASE NextPage
  <2>1. /\ batch' \in FirstRows(After(LastId), ChunkSize, OrderRank)
        /\ pc' = IF batch' = {} THEN "done" ELSE "callback"
    BY <1>6, NextPageLoads DEF WholePages
  <2>2. must \ delivered \subseteq After(LastId)
    <3>. SUFFICES ASSUME NEW r \in must \ delivered PROVE r \in After(LastId)
      OBVIOUS
    <3>1. last \in batch /\ last \in Rows /\ r \in Rows /\ r \in table
      BY <1>6 DEF NextPage, TypeOK
    <3>2. Key[last] < Key[r]
      BY <1>6, <3>1 DEF NextPage
    <3>3. 0 < Key[r]
      BY <3>1, KeyAssumption
    <3>. QED
      BY <3>1, <3>2, <3>3 DEF After, LastId
  <2>3. \A r \in must \ (delivered \cup batch') :
           Cardinality(batch') = ChunkSize /\ \A s \in batch' : Key[s] < Key[r]
    <3>1. After(LastId) \in SUBSET Rows
      BY AfterFacts
    <3>. QED
      BY <2>1, <2>2, <3>1, LeftOutIsBeyond
  <2>4. batch' = {} => Cardinality(batch') # ChunkSize
    BY SizeAssumption, FS_EmptySet
  <2>. QED
    BY <1>6, <2>1, <2>3, <2>4 DEF NextPage
<1>7. CASE QueryFails
  BY <1>7 DEF QueryFails
<1>8. ASSUME NEW r \in Rows, InsertRow(r) \/ RemoveRow(r)
      PROVE  UNCHANGED <<pc, batch, last, delivered>> /\ must' \subseteq must
  BY <1>8 DEF InsertRow, RemoveRow
<1>9. CASE UNCHANGED <<pc, batch, last, delivered>> /\ must' \subseteq must
  BY <1>9
<1>10. CASE UNCHANGED vars
  BY <1>10 DEF vars
<1>. QED
  BY <1>1, <1>2, <1>3, <1>4, <1>5, <1>6, <1>7, <1>8, <1>9, <1>10 DEF Next, Loop

LEMMA SkipInvHolds == ASSUME WholePages PROVE Spec => []SkipInv
<1>1. Init => SkipInv
  BY DEF Init, SkipInv, NoSkip
<1>2. TypeOK /\ SkipInv /\ [Next]_vars => SkipInv'
  BY SkipInvInductive
<1>. QED
  BY <1>1, <1>2, TypeCorrect, PTL DEF Spec

\* NoSkip: for every table, every chunk size and every mix of writers, whatever
\* the OR branches of the where clause match and whatever the callback does to
\* its slice, a ChunkById that returns nil has handed over every row that
\* matched all along.
THEOREM NeverSkips == ASSUME WholePages PROVE Spec => []NoSkip
<1>1. SkipInv => NoSkip
  BY DEF SkipInv
<1>. QED
  BY <1>1, SkipInvHolds, PTL

-----------------------------------------------------------------------------
\* The calls a sweep is promised for: the cursor is the last key, whatever the
\* element type, and no OR branch brings rows back.
PlainUse ==
  /\ WholePages
  /\ OrRows = {}
  /\ \A c \in Calls : ~c.edits /\ c.elem # "keyless_struct"

\* Nothing has been read before the first page.
NothingRead == pc = "start" => batch = {}

LEMMA NothingReadHolds == Spec => []NothingRead
<1>1. Init => NothingRead
  BY DEF Init, NothingRead
<1>2. TypeOK /\ NothingRead /\ [Next]_vars => NothingRead'
  BY DEF NothingRead, Next, Loop, vars, NoColumn, FirstPage, Load, Callback, Finish,
         LastPanics, NextPage, QueryFails, InsertRow, RemoveRow
<1>. QED
  BY <1>1, <1>2, TypeCorrect, PTL DEF Spec

\* A query that finds rows is a Read of the sweep, one that finds none is its
\* completion.
LEMMA LoadIsSweepStep ==
  ASSUME PlainUse, TypeOK, TypeOK', RepeatInv', SkipInv', SweepStatus = "sweeping",
         UNCHANGED <<table, call, delivered, must>>,
         batch' \subseteq table, batch \subseteq delivered,
         pc' = IF batch' = {} THEN "done" ELSE "callback"
  PROVE  Sweep!Next
<1>1. CASE batch' = {}
  <2>1. must' \subseteq delivered' /\ SweepStatus' = "complete"
    BY <1>1 DEF SkipInv, NoSkip, SweepStatus
  <2>. QED
    BY <1>1, <2>1 DEF Sweep!Next, Sweep!Complete
<1>2. CASE batch' # {}
  <2>1. pc' = "callback" /\ SweepStatus' = "sweeping"
    BY <1>2 DEF SweepStatus, Final
  <2>2. \A d \in delivered, s \in batch' : Key[d] < Key[s]
    BY <2>1 DEF RepeatInv, CursorIsLastKey, PlainUse, TypeOK
  <2>3. batch' \in SUBSET Rows
    BY DEF TypeOK
  <2>4. Sweep!Read(batch')
    BY <1>2, <2>1, <2>2 DEF Sweep!Read
  <2>. QED
    BY <2>3, <2>4 DEF Sweep!Next
<1>. QED
  BY <1>1, <1>2

LEMMA StepIsSweepStep ==
  ASSUME PlainUse, TypeOK, TypeOK', NothingRead, RepeatInv', SkipInv, SkipInv',
         [Next]_vars
  PROVE  [Sweep!Next]_(Sweep!vars)
<1>. USE DEF SweepStatus, Final
<1>1. CASE NoColumn
  BY <1>1 DEF NoColumn, Sweep!Next, Sweep!Abort
<1>2. CASE FirstPage
  <2>1. /\ batch' \subseteq table
        /\ pc' = IF batch' = {} THEN "done" ELSE "callback"
    BY <1>2, FirstPageLoads
  <2>2. SweepStatus = "sweeping" /\ batch \subseteq delivered
    BY <1>2 DEF FirstPage, NothingRead
  <2>3. Sweep!Next
    BY <1>2, <2>1, <2>2, LoadIsSweepStep DEF FirstPage
  <2>. QED
    BY <2>3
<1>3. CASE Callback
  BY <1>3 DEF Callback, Sweep!Next, Sweep!Visit
<1>4. CASE Finish
  BY <1>4 DEF Finish, SkipInv, NoSkip, Sweep!Next, Sweep!Complete
<1>5. CASE LastPanics
  BY <1>5 DEF LastPanics, Sweep!Next, Sweep!Abort
<1>6. CASE NextPage
  <2>1. /\ batch' \subseteq After(LastId)
        /\ pc' = IF batch' = {} THEN "done" ELSE "callback"
    BY <1>6, NextPageLoads
  <2>2. batch' \subseteq table
    BY <2>1 DEF After
  <2>3. SweepStatus = "sweeping" /\ batch \subseteq delivered
    BY <1>6 DEF NextPage, SkipInv
  <2>4. Sweep!Next
    BY <1>6, <2>1, <2>2, <2>3, LoadIsSweepStep DEF NextPage
  <2>. QED
    BY <2>4
<1>7. CASE QueryFails
  BY <1>7 DEF QueryFails, Sweep!Next, Sweep!Abort
<1>8. ASSUME NEW r \in Rows, InsertRow(r) \/ RemoveRow(r)
      PROVE  Sweep!Write
  BY <1>8 DEF InsertRow, RemoveRow, TypeOK, Sweep!Write
<1>9. CASE UNCHANGED vars
  BY <1>9 DEF vars, Sweep!vars
<1>. QED
  BY <1>1, <1>2, <1>3, <1>4, <1>5, <1>6, <1>7, <1>8, <1>9 DEF Next, Loop, Sweep!Next

\* ImplementsSweep: used as PlainUse says, ChunkById is a RowSweep for every
\* table, every chunk size and every mix of writers.
THEOREM ChunkByIdIsSweep == ASSUME PlainUse PROVE Spec => ImplementsSweep
<1>. USE DEF ImplementsSweep
<1>1. Init => Sweep!Init
  BY DEF Init, Sweep!Init, SweepStatus, Final
<1>2. FewOrRows /\ OrderFollowsKey /\ WholePages
  BY FS_EmptySet, SizeAssumption DEF PlainUse, WholePages, FewOrRows
<1>3. TypeOK /\ TypeOK' /\ NothingRead /\ RepeatInv' /\ SkipInv /\ SkipInv' /\ [Next]_vars
        => [Sweep!Next]_(Sweep!vars)
  BY StepIsSweepStep
<1>4. (Spec => []RepeatInv) /\ (Spec => []SkipInv)
  BY <1>2, RepeatInvHolds, SkipInvHolds
<1>. QED
  BY <1>1, <1>3, <1>4, TypeCorrect, NothingReadHolds, PTL DEF Spec, Sweep!Spec
=============================================================================
