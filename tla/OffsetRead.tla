----------------------------- MODULE OffsetRead -----------------------------
(***************************************************************************)
(* Chunk and Paginate of Builder and EloquentBuilder: both read the table  *)
(* by offset, page after page or a count and then a page, while other      *)
(* clients insert, change and remove rows between the statements.          *)
(***************************************************************************)
EXTENDS TablePage, ClientTable

CONSTANTS
  Sizes,    \* chunk sizes and page sizes
  MaxReads  \* bound: calls of Chunk and Paginate

ASSUME ReadAssumption == Sizes \subseteq Nat \ {0} /\ MaxReads \in Nat

VARIABLES
  pc,        \* where the call is
  newest,    \* order by id desc, or asc?
  size,      \* chunkSize, PerPage
  page,      \* page, CurrentPage
  total,     \* Total
  got,       \* ids of the rows read last
  reads,     \* calls that are left
  seen,      \* history: ids the callback was given
  repeats,   \* history: how often it was given one again
  must,      \* history: ids that have been there since the call began
  removed,   \* history: rows removed since
  inserted,  \* history: rows inserted since
  broke      \* history: did a result break off?

readVars == <<pc, newest, size, page, total, got, reads, seen, repeats, must, removed,
              inserted, broke>>

ReadInit ==
  /\ pc = "idle" /\ newest = FALSE /\ size = 0 /\ page = 0 /\ total = 0
  /\ got = {} /\ reads \in 0..MaxReads
  /\ seen = {} /\ repeats = 0
  /\ must = {} /\ removed = 0 /\ inserted = 0 /\ broke = FALSE

Ended == {"idle", "chunked", "paged", "failed", "panicked"}

\* What the reader keeps about a step that others make.
Watched ==
  /\ must' = must \cap Ids(table')
  /\ IF pc \in Ended THEN UNCHANGED <<removed, inserted>>
     ELSE /\ removed' = removed + Cardinality(Ids(table) \ Ids(table'))
          /\ inserted' = inserted + Cardinality(Ids(table') \ Ids(table))
  /\ UNCHANGED <<pc, newest, size, page, total, got, reads, seen, repeats, broke>>

Begins(next) ==
  /\ pc \in Ended /\ reads > 0
  /\ reads' = reads - 1
  /\ newest' \in BOOLEAN /\ size' \in Sizes
  /\ pc' = next
  /\ total' = 0 /\ got' = {} /\ seen' = {} /\ repeats' = 0
  /\ must' = Ids(table) /\ removed' = 0 /\ inserted' = 0 /\ broke' = FALSE

\* Chunk, which wants an order.
BeginChunk == \/ Begins("read") /\ page' = 1
              \/ Begins("panicked") /\ page' = 0

\* Paginate, with its count before its page, which bears no groups.
BeginPaginate == \/ Begins("count") /\ page' \in 1..3
                 \/ Begins("panicked") /\ page' = 0

ReadFails(next) ==
  /\ pc = next
  /\ pc' = "failed"
  /\ UNCHANGED <<newest, size, page, total, got, reads, seen, repeats, must, removed,
                 inserted, broke>>

Rank == [i \in Ids(table) |-> IF newest THEN -i ELSE i]

\* Mutant of Window: pages are counted from zero.
WindowFromZero == [offset |-> page * size, limit |-> size]

Window == ForPage(page, size)

\* Get: the rows of the page, or the first of them if the result breaks off.
Get(next) ==
  \E rows \in PageOf(Ids(table), Window, Rank) : \E result \in Fetched(rows, Rank, TRUE) :
    /\ got' = result
    /\ broke' = (broke \/ result # rows)
    /\ pc' = IF next = "callback" /\ result = {} THEN "chunked" ELSE next

ReadChunk ==
  /\ pc = "read"
  /\ Get("callback")
  /\ UNCHANGED <<newest, size, page, total, reads, seen, repeats, must, removed, inserted>>

\* Mutant of NextPage: the page stays.
NextPageStays == page

NextPage == page + 1

\* The callback takes the chunk, or ends the call with an error.
Callback ==
  /\ pc = "callback"
  /\ seen' = seen \cup got
  /\ repeats' = repeats + Cardinality(seen \cap got)
  /\ \/ pc' = "failed" /\ UNCHANGED page
     \/ Cardinality(got) # size /\ pc' = "chunked" /\ UNCHANGED page
     \/ Cardinality(got) = size /\ pc' = "read" /\ page' = NextPage
  /\ UNCHANGED <<newest, size, total, got, reads, must, removed, inserted, broke>>

\* Mutant of Counted: the clone keeps the limit of the page.
CountedOnPage == IF Cardinality(Ids(table)) < size THEN Cardinality(Ids(table)) ELSE size

Counted == Cardinality(Ids(table))

Count ==
  /\ pc = "count"
  /\ total' = Counted
  /\ pc' = "page"
  /\ UNCHANGED <<newest, size, page, got, reads, seen, repeats, must, removed, inserted,
                 broke>>

ReadPage ==
  /\ pc = "page"
  /\ Get("paged")
  /\ UNCHANGED <<newest, size, page, total, reads, seen, repeats, must, removed, inserted>>

ReadStep ==
  \/ BeginChunk \/ BeginPaginate \/ ReadChunk \/ Callback \/ Count \/ ReadPage
  \/ \E next \in {"read", "count", "page"} : ReadFails(next)

-----------------------------------------------------------------------------
(* Properties. *)

ReadTypeOK ==
  /\ pc \in {"read", "callback", "count", "page"} \cup Ended
  /\ newest \in BOOLEAN /\ broke \in BOOLEAN
  /\ size \in Sizes \cup {0}
  /\ page \in Nat /\ total \in Nat /\ reads \in 0..MaxReads
  /\ repeats \in Nat /\ removed \in Nat /\ inserted \in Nat
  /\ got \cup seen \cup must \subseteq 1..lastId

\* When Chunk returns nil, no more of the rows that were there all along are
\* missing than rows were removed meanwhile, unless a result broke off.
MissBound ==
  pc = "chunked" /\ ~broke => Cardinality(must \ seen) <= removed

\* A row comes again only for a row that was inserted meanwhile.
RepeatBound == repeats <= inserted

\* The items of a Paginator are as many as its total and its page say, but for
\* the rows that came and went between the two statements.
PaginatorAgrees ==
  pc = "paged" /\ ~broke =>
    LET left == Clamp(total - (page - 1) * size)
        expected == IF left < size THEN left ELSE size
        off == Cardinality(got) - expected
    IN off <= inserted + removed /\ -off <= inserted + removed
=============================================================================
