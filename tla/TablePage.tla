----------------------------- MODULE TablePage -----------------------------
(***************************************************************************)
(* What one paged SELECT returns.  A table is the set of rows that match   *)
(* the query's where clause now; the query's ORDER BY is a rank function   *)
(* on rows (ties are rows the ORDER BY does not separate, which the server *)
(* may return in any order).  ChunkById, OffsetChunk and Paginate read     *)
(* their pages with these operators.                                       *)
(***************************************************************************)
EXTENDS Integers, FiniteSets

\* Builder.Limit and Builder.Offset keep a negative argument at zero.
Clamp(n) == IF n < 0 THEN 0 ELSE n

\* Builder.ForPage: the window of page `page`, counted from one.
ForPage(page, perPage) ==
  [offset |-> Clamp((page - 1) * perPage), limit |-> Clamp(perPage)]

\* The sets of rows that "order by ... limit n" may pick from M.
FirstRows(M, n, rank) ==
  {S \in SUBSET M :
     /\ Cardinality(S) = IF n < Cardinality(M) THEN n ELSE Cardinality(M)
     /\ \A s \in S, r \in M \ S : rank[s] <= rank[r]}

\* Mutant of PageOf: the limit is not compiled.
PageWithoutLimit(M, window, rank) ==
  {M \ skipped : skipped \in FirstRows(M, window.offset, rank)}

\* ... and that "order by ... limit n offset k" may pick.
PageOf(M, window, rank) ==
  UNION {FirstRows(M \ skipped, window.limit, rank) :
           skipped \in FirstRows(M, window.offset, rank)}

\* What the scan loop "for rows.Next()" leaves in the destination.  The loop
\* ends when the rows end or when the connection breaks: rows.Err is never
\* asked, so a broken read is a shorter result and not an error.
Fetched(S, rank, mayBreak) ==
  IF mayBreak
  THEN UNION {FirstRows(S, n, rank) : n \in 0 .. Cardinality(S)}
  ELSE {S}
=============================================================================
