--------------------------- MODULE TablePageProofs ---------------------------
(***************************************************************************)
(* What a page has of its table, and how far pages move when rows come and *)
(* go between two SELECTs: for every table, limit, offset and order.       *)
(***************************************************************************)
EXTENDS TablePage, FiniteSetTheorems, WellFoundedInduction, TLAPS

\* "order by ... limit n" returns rows of M, at most n of them, all of M when
\* there are fewer, and none that a row left out precedes.
LEMMA FirstRowsFacts ==
  ASSUME NEW M, IsFiniteSet(M), NEW n \in Nat, NEW rank,
         NEW S \in FirstRows(M, n, rank)
  PROVE  /\ S \subseteq M
         /\ IsFiniteSet(S)
         /\ Cardinality(S) \in Nat
         /\ Cardinality(S) <= n
         /\ Cardinality(S) <= Cardinality(M)
         /\ Cardinality(S) < n => S = M
         /\ \A s \in S, r \in M \ S : rank[s] <= rank[r]
<1>1. S \subseteq M
  BY DEF FirstRows
<1>2. /\ IsFiniteSet(S) /\ Cardinality(S) <= Cardinality(M)
      /\ Cardinality(S) = Cardinality(M) => S = M
  BY <1>1, FS_Subset
<1>3. Cardinality(S) \in Nat /\ Cardinality(M) \in Nat
  BY <1>2, FS_CardinalityType
<1>4. Cardinality(S) = IF n < Cardinality(M) THEN n ELSE Cardinality(M)
  BY DEF FirstRows
<1>5. \A s \in S, r \in M \ S : rank[s] <= rank[r]
  BY DEF FirstRows
<1>. QED
  BY <1>1, <1>2, <1>3, <1>4, <1>5

\* A page is rows of M, at most as many as its limit; without an offset it is
\* the first rows of M.
LEMMA PageFacts ==
  ASSUME NEW M, IsFiniteSet(M), NEW w \in [offset : Nat, limit : Nat], NEW rank,
         NEW S \in PageOf(M, w, rank)
  PROVE  /\ S \subseteq M
         /\ IsFiniteSet(S)
         /\ Cardinality(S) \in Nat
         /\ Cardinality(S) <= w.limit
         /\ w.offset = 0 => S \in FirstRows(M, w.limit, rank)
<1>1. PICK skipped \in FirstRows(M, w.offset, rank) :
               S \in FirstRows(M \ skipped, w.limit, rank)
  BY DEF PageOf
<1>2. IsFiniteSet(M \ skipped)
  BY FS_Subset
<1>3. /\ S \subseteq M \ skipped
      /\ IsFiniteSet(S)
      /\ Cardinality(S) \in Nat
      /\ Cardinality(S) <= w.limit
  BY <1>1, <1>2, FirstRowsFacts
<1>4. w.offset = 0 => skipped = {}
  <2>1. IsFiniteSet(skipped) /\ Cardinality(skipped) \in Nat
        /\ Cardinality(skipped) <= w.offset
    BY <1>1, FirstRowsFacts
  <2>. QED
    BY <2>1, FS_EmptySet
<1>. QED
  BY <1>1, <1>3, <1>4

\* A broken read leaves the first rows of the page and never others; a read
\* that does not break leaves the page.
LEMMA FetchedFacts ==
  ASSUME NEW S, IsFiniteSet(S), NEW rank, NEW mayBreak \in BOOLEAN,
         NEW T \in Fetched(S, rank, mayBreak)
  PROVE  /\ T \subseteq S
         /\ IsFiniteSet(T)
         /\ Cardinality(T) \in Nat
         /\ Cardinality(T) <= Cardinality(S)
         /\ ~mayBreak => T = S
<1>1. Cardinality(S) \in Nat
  BY FS_CardinalityType
<1>2. CASE mayBreak
  <2>1. PICK n \in 0 .. Cardinality(S) : T \in FirstRows(S, n, rank)
    BY <1>2 DEF Fetched
  <2>. QED
    BY <1>1, <1>2, <2>1, FirstRowsFacts
<1>3. CASE ~mayBreak
  BY <1>1, <1>3 DEF Fetched
<1>. QED
  BY <1>2, <1>3

-----------------------------------------------------------------------------
(* Orders without ties, as those by the id. *)

\* Every row has its own rank.
Strict(rank, M) ==
  /\ \A r \in M : rank[r] \in Int
  /\ \A r, s \in M : rank[r] = rank[s] => r = s

LEMMA NatMin ==
  ASSUME NEW T \in SUBSET Nat, T # {}
  PROVE  \E m \in T : \A x \in T : m <= x
<1>. DEFINE Less == {p \in Nat \X Nat : p[1] < p[2]}
<1>1. IsWellFoundedOn(Less, Nat)
  BY NatLessThanWellFounded DEF OpToRel
<1>2. PICK m \in T : \A x \in T : ~(<<x, m>> \in Less)
  <2>. HIDE DEF Less
  <2>. QED
    BY <1>1, WFMin, Zenon
<1>3. \A x \in T : ~(x < m)
  BY <1>2
<1>. QED
  BY <1>3

\* Two tables with the same order: what leaves the first n rows, but is still
\* there, is no more than what came to them from outside.
LEMMA ShiftedOut ==
  ASSUME NEW M, IsFiniteSet(M), NEW N, IsFiniteSet(N), NEW n \in Nat, NEW rank,
         Strict(rank, M \cup N),
         NEW S \in FirstRows(M, n, rank), NEW T \in FirstRows(N, n, rank)
  PROVE  Cardinality((S \cap N) \ T) <= Cardinality(T \ M)
<1>1. /\ S \subseteq M /\ IsFiniteSet(S) /\ Cardinality(S) \in Nat /\ Cardinality(S) <= n
      /\ T \subseteq N /\ IsFiniteSet(T) /\ Cardinality(T) \in Nat /\ Cardinality(T) <= n
      /\ Cardinality(T) < n => T = N
      /\ \A s \in S, r \in M \ S : rank[s] <= rank[r]
      /\ \A s \in T, r \in N \ T : rank[s] <= rank[r]
  BY FirstRowsFacts
<1>2. /\ IsFiniteSet(T \ M) /\ IsFiniteSet(T \cap M)
      /\ Cardinality(T \ M) \in Nat /\ Cardinality(T \cap M) \in Nat
      /\ Cardinality(T \ M) = Cardinality(T) - Cardinality(T \cap M)
  BY <1>1, FS_Difference, FS_Intersection, FS_CardinalityType
<1>3. CASE (S \cap N) \ T = {}
  <2>1. Cardinality((S \cap N) \ T) = 0
    BY <1>3, FS_EmptySet, Zenon
  <2>. QED
    BY <1>2, <2>1
<1>4. CASE (S \cap N) \ T # {}
  <2>1. PICK s : s \in S /\ s \in N /\ s \notin T
    BY <1>4
  <2>2. Cardinality(T) = n
    BY <1>1, <2>1
  <2>3. T \cap M \subseteq S \cap N
    <3>. SUFFICES ASSUME NEW t \in T, t \in M, t \notin S PROVE FALSE
      BY <1>1
    <3>1. rank[s] <= rank[t] /\ rank[t] <= rank[s]
      BY <1>1, <2>1
    <3>2. rank[s] = rank[t]
      BY <1>1, <2>1, <3>1 DEF Strict
    <3>. QED
      BY <1>1, <2>1, <3>2 DEF Strict
  <2>4. /\ IsFiniteSet(S \cap N) /\ Cardinality(S \cap N) \in Nat
        /\ Cardinality(S \cap N) <= Cardinality(S)
    BY <1>1, FS_Intersection, FS_CardinalityType
  <2>5. Cardinality((S \cap N) \ T) = Cardinality(S \cap N) - Cardinality(T \cap M)
    <3>. DEFINE A == S \cap N
    <3>1. Cardinality(A \ T) = Cardinality(A) - Cardinality(A \cap T)
      BY <2>4, FS_Difference
    <3>2. A \cap T = T \cap M
      BY <1>1, <2>3
    <3>. QED
      BY <3>1, <3>2, Zenon
  <2>. QED
    BY <1>1, <1>2, <2>2, <2>4, <2>5
<1>. QED
  BY <1>3, <1>4

\* The parts of a cover are at least as many as what they cover.
LEMMA Covered ==
  ASSUME NEW A, NEW B, NEW C, IsFiniteSet(B), IsFiniteSet(C), A \subseteq B \cup C
  PROVE  /\ IsFiniteSet(A) /\ Cardinality(A) \in Nat
         /\ Cardinality(A) <= Cardinality(B) + Cardinality(C)
<1>1. /\ IsFiniteSet(B \cup C) /\ IsFiniteSet(B \cap C)
      /\ Cardinality(B \cup C) = Cardinality(B) + Cardinality(C) - Cardinality(B \cap C)
  BY FS_Union, FS_Intersection
<1>2. IsFiniteSet(A) /\ Cardinality(A) <= Cardinality(B \cup C)
  BY <1>1, FS_Subset
<1>3. /\ Cardinality(A) \in Nat /\ Cardinality(B) \in Nat /\ Cardinality(C) \in Nat
      /\ Cardinality(B \cap C) \in Nat
  BY <1>1, <1>2, FS_CardinalityType
<1>. QED
  BY <1>1, <1>2, <1>3

\* Of any rows, those beyond the first n become more by the rows that come, at
\* most.
LEMMA MoreBeyond ==
  ASSUME NEW M, IsFiniteSet(M), NEW N, IsFiniteSet(N), NEW n \in Nat, NEW rank,
         Strict(rank, M \cup N),
         NEW S \in FirstRows(M, n, rank), NEW T \in FirstRows(N, n, rank), NEW Q
  PROVE  Cardinality((Q \cap N) \ T) <= Cardinality((Q \cap M) \ S) + Cardinality(N \ M)
<1>. DEFINE out == (S \cap N) \ T
            new == (N \ M) \ T
<1>1. S \subseteq M /\ T \subseteq N /\ IsFiniteSet(S) /\ IsFiniteSet(T)
  BY FirstRowsFacts
<1>2. /\ IsFiniteSet(out) /\ IsFiniteSet(new)
      /\ IsFiniteSet(N \ M) /\ IsFiniteSet((Q \cap M) \ S)
  BY <1>1, FS_Difference, FS_Intersection
<1>3. Cardinality(out) <= Cardinality(T \ M)
  BY ShiftedOut
<1>4. Cardinality(new) = Cardinality(N \ M) - Cardinality(T \ M)
  <2>1. Cardinality(new) = Cardinality(N \ M) - Cardinality((N \ M) \cap T)
    BY <1>2, FS_Difference
  <2>2. (N \ M) \cap T = T \ M
    BY <1>1
  <2>. QED
    BY <2>1, <2>2, Zenon
<1>5. (Q \cap N) \ T \subseteq ((Q \cap M) \ S) \cup (out \cup new)
  BY <1>1
<1>. HIDE DEF out, new
<1>6. IsFiniteSet(out \cup new) /\ Cardinality(out \cup new) <= Cardinality(out) + Cardinality(new)
  BY <1>2, Covered, FS_Union
<1>7. Cardinality((Q \cap N) \ T) <= Cardinality((Q \cap M) \ S) + Cardinality(out \cup new)
  BY <1>2, <1>5, <1>6, Covered
<1>8. /\ Cardinality((Q \cap N) \ T) \in Nat /\ Cardinality((Q \cap M) \ S) \in Nat
      /\ Cardinality(out \cup new) \in Nat /\ Cardinality(out) \in Nat
      /\ Cardinality(new) \in Nat /\ Cardinality(N \ M) \in Nat /\ Cardinality(T \ M) \in Nat
  BY <1>1, <1>2, <1>5, <1>6, Covered, FS_CardinalityType, FS_Difference
<1>. QED
  BY <1>3, <1>4, <1>6, <1>7, <1>8

\* ... and those among the first n by the rows that go.
LEMMA MoreAmong ==
  ASSUME NEW M, IsFiniteSet(M), NEW N, IsFiniteSet(N), NEW n \in Nat, NEW rank,
         Strict(rank, M \cup N),
         NEW S \in FirstRows(M, n, rank), NEW T \in FirstRows(N, n, rank), NEW Q \in SUBSET M
  PROVE  Cardinality(Q \cap T) <= Cardinality(Q \cap S) + Cardinality(M \ N)
<1>. DEFINE in == (T \cap M) \ S
<1>1. S \subseteq M /\ T \subseteq N /\ IsFiniteSet(S) /\ IsFiniteSet(T)
  BY FirstRowsFacts
<1>2. IsFiniteSet(in) /\ IsFiniteSet(M \ N) /\ IsFiniteSet(Q \cap S)
  BY <1>1, FS_Difference, FS_Intersection
<1>3. Cardinality(in) <= Cardinality(S \ N)
  <2>1. Strict(rank, N \cup M)
    BY DEF Strict
  <2>. QED
    BY <2>1, ShiftedOut
<1>4. IsFiniteSet(S \ N) /\ Cardinality(S \ N) <= Cardinality(M \ N)
  BY <1>1, <1>2, FS_Subset
<1>5. Q \cap T \subseteq (Q \cap S) \cup in
  OBVIOUS
<1>. HIDE DEF in
<1>6. Cardinality(Q \cap T) \in Nat /\ Cardinality(Q \cap T) <= Cardinality(Q \cap S) + Cardinality(in)
  BY <1>2, <1>5, Covered
<1>7. /\ Cardinality(Q \cap S) \in Nat /\ Cardinality(in) \in Nat
      /\ Cardinality(S \ N) \in Nat /\ Cardinality(M \ N) \in Nat
  BY <1>2, <1>4, FS_CardinalityType
<1>. QED
  BY <1>3, <1>4, <1>6, <1>7

\* Without ties only one set of rows comes first.
LEMMA FirstRowsUnique ==
  ASSUME NEW M, IsFiniteSet(M), NEW n \in Nat, NEW rank, Strict(rank, M),
         NEW S \in FirstRows(M, n, rank), NEW T \in FirstRows(M, n, rank)
  PROVE  S = T
<1>1. ASSUME NEW A \in FirstRows(M, n, rank), NEW B \in FirstRows(M, n, rank)
      PROVE  A \subseteq B
  <2>1. A \subseteq M /\ B \subseteq M /\ IsFiniteSet(A) /\ IsFiniteSet(B)
    BY FirstRowsFacts
  <2>2. M \cup M = M /\ A \cap M = A /\ B \ M = {}
    BY <2>1
  <2>3. Cardinality((A \cap M) \ B) <= Cardinality(B \ M)
    BY <2>2, ShiftedOut
  <2>4. Cardinality(A \ B) <= Cardinality({})
    BY <2>2, <2>3, Zenon
  <2>5. Cardinality({}) = 0 /\ IsFiniteSet(A \ B) /\ Cardinality(A \ B) \in Nat
    BY <2>1, FS_EmptySet, FS_Difference, FS_CardinalityType
  <2>6. Cardinality(A \ B) = 0
    BY <2>4, <2>5
  <2>7. A \ B = {}
    BY <2>5, <2>6, FS_EmptySet
  <2>. QED
    BY <2>7
<1>. QED
  BY <1>1

\* Some rows come first: a finite set of ranks has a least one.
LEMMA FirstRowsExist ==
  ASSUME NEW M, IsFiniteSet(M), NEW n \in Nat, NEW rank, NEW low \in Int,
         \A r \in M : rank[r] \in Int /\ low <= rank[r]
  PROVE  \E S : S \in FirstRows(M, n, rank)
<1>. DEFINE size == IF n < Cardinality(M) THEN n ELSE Cardinality(M)
            Segment(S) == \A s \in S, r \in M \ S : rank[s] <= rank[r]
            short == {k \in 0..size : \E S \in SUBSET M : Segment(S) /\ Cardinality(S) = size - k}
<1>1. Cardinality(M) \in Nat /\ size \in Nat /\ size <= Cardinality(M)
  BY FS_CardinalityType
<1>2. short # {}
  <2>1. Cardinality({}) = 0
    BY FS_EmptySet
  <2>2. size \in 0..size /\ size - size = 0
    BY <1>1
  <2>3. Segment({}) /\ {} \in SUBSET M
    OBVIOUS
  <2>. QED
    BY <2>1, <2>2, <2>3
<1>3. PICK k \in short : \A l \in short : k <= l
  <2>1. short \subseteq Nat
    BY <1>1
  <2>. QED
    BY <1>2, <2>1, NatMin
<1>4. PICK S \in SUBSET M : Segment(S) /\ Cardinality(S) = size - k
  BY <1>3
<1>5. k \in Nat /\ k <= size
  BY <1>1, <1>3
<1>6. k = 0
  <2>. SUFFICES ASSUME k # 0 PROVE FALSE
    OBVIOUS
  <2>1. M \ S # {}
    <3>. SUFFICES ASSUME M \ S = {} PROVE FALSE
      OBVIOUS
    <3>1. S = M
      OBVIOUS
    <3>. QED
      BY <1>1, <1>4, <1>5, <3>1
  <2>2. PICK x \in M \ S : \A r \in M \ S : rank[x] <= rank[r]
    <3>. DEFINE above == {rank[r] - low : r \in M \ S}
    <3>1. above \subseteq Nat /\ above # {}
      BY <2>1
    <3>2. PICK m \in above : \A a \in above : m <= a
      BY <3>1, NatMin
    <3>3. PICK x \in M \ S : m = rank[x] - low
      BY <3>2
    <3>4. \A r \in M \ S : m <= rank[r] - low
      BY <3>2
    <3>. QED
      BY <3>3, <3>4
  <2>3. Segment(S \cup {x})
    BY <1>4, <2>2
  <2>4. Cardinality(S \cup {x}) = size - (k - 1)
    <3>1. IsFiniteSet(S)
      BY FS_Subset
    <3>2. Cardinality(S \cup {x}) = Cardinality(S) + 1
      BY <2>2, <3>1, FS_AddElement
    <3>. QED
      BY <1>1, <1>4, <1>5, <3>2
  <2>5. k - 1 \in short
    <3>1. k - 1 \in 0..size
      BY <1>1, <1>5
    <3>2. S \cup {x} \in SUBSET M
      BY <2>2
    <3>. QED
      BY <2>3, <2>4, <3>1, <3>2
  <2>. QED
    BY <1>3, <1>5, <2>5
<1>7. Cardinality(S) = size
  BY <1>1, <1>4, <1>6
<1>. QED
  BY <1>4, <1>7 DEF FirstRows

\* A page and the rows that its offset skips are the first rows of the table.
LEMMA PageFollows ==
  ASSUME NEW M, IsFiniteSet(M), NEW k \in Nat, NEW n \in Nat, NEW rank,
         NEW rows \in PageOf(M, [offset |-> k, limit |-> n], rank)
  PROVE  \E skipped \in FirstRows(M, k, rank) :
           /\ skipped \cap rows = {}
           /\ skipped \cup rows \in FirstRows(M, k + n, rank)
           /\ Cardinality(rows) < n => skipped \cup rows = M
           /\ LET left == Clamp(Cardinality(M) - k) IN
              Cardinality(rows) = IF left < n THEN left ELSE n
<1>1. PICK skipped \in FirstRows(M, k, rank) : rows \in FirstRows(M \ skipped, n, rank)
  BY DEF PageOf
<1>2. /\ skipped \subseteq M /\ IsFiniteSet(skipped)
      /\ \A s \in skipped, r \in M \ skipped : rank[s] <= rank[r]
      /\ Cardinality(skipped) = IF k < Cardinality(M) THEN k ELSE Cardinality(M)
  BY FirstRowsFacts DEF FirstRows
<1>3. /\ IsFiniteSet(M \ skipped)
      /\ Cardinality(M \ skipped) = Cardinality(M) - Cardinality(skipped)
  <2>1. M \cap skipped = skipped
    BY <1>2
  <2>. QED
    BY <2>1, FS_Difference
<1>4. /\ rows \subseteq M \ skipped /\ IsFiniteSet(rows)
      /\ Cardinality(rows) < n => rows = M \ skipped
      /\ \A s \in rows, r \in (M \ skipped) \ rows : rank[s] <= rank[r]
      /\ Cardinality(rows) =
           IF n < Cardinality(M \ skipped) THEN n ELSE Cardinality(M \ skipped)
  BY <1>1, <1>3, FirstRowsFacts DEF FirstRows
<1>5. skipped \cap rows = {}
  BY <1>4
<1>6. Cardinality(skipped \cup rows) = Cardinality(skipped) + Cardinality(rows)
  <2>1. Cardinality(skipped \cup rows)
          = Cardinality(skipped) + Cardinality(rows) - Cardinality(skipped \cap rows)
    BY <1>2, <1>4, FS_Union
  <2>2. Cardinality(skipped \cap rows) = 0
    BY <1>5, FS_EmptySet, Zenon
  <2>3. Cardinality(skipped) \in Nat /\ Cardinality(rows) \in Nat
    BY <1>2, <1>4, FS_CardinalityType
  <2>. QED
    BY <2>1, <2>2, <2>3
<1>7. /\ Cardinality(M) \in Nat
      /\ Cardinality(skipped) \in Nat /\ Cardinality(M \ skipped) \in Nat
  BY <1>2, <1>3, FS_CardinalityType
<1>8. Cardinality(skipped \cup rows) = IF k + n < Cardinality(M) THEN k + n ELSE Cardinality(M)
  BY <1>2, <1>3, <1>4, <1>6, <1>7
<1>9. /\ skipped \cup rows \in SUBSET M
      /\ \A s \in skipped \cup rows, r \in M \ (skipped \cup rows) : rank[s] <= rank[r]
  BY <1>2, <1>4
<1>10. skipped \cup rows \in FirstRows(M, k + n, rank)
  BY <1>8, <1>9 DEF FirstRows
<1>11. Cardinality(rows) < n => skipped \cup rows = M
  BY <1>2, <1>4
<1>12. LET left == Clamp(Cardinality(M) - k) IN
       Cardinality(rows) = IF left < n THEN left ELSE n
  BY <1>2, <1>3, <1>4, <1>7 DEF Clamp
<1>. QED
  BY <1>5, <1>10, <1>11, <1>12

\* What bounds the rows of Q beyond, or among, the first n of a table bounds
\* them still when the rows that came, or went, are added.
LEMMA BeyondKept ==
  ASSUME NEW M, IsFiniteSet(M), NEW N, IsFiniteSet(N), NEW n \in Nat, NEW rank,
         Strict(rank, M \cup N), NEW low \in Int, \A r \in M : low <= rank[r],
         NEW Q, NEW bound \in Int,
         \A S \in FirstRows(M, n, rank) : Cardinality((Q \cap M) \ S) <= bound,
         NEW T \in FirstRows(N, n, rank)
  PROVE  Cardinality((Q \cap N) \ T) <= bound + Cardinality(N \ M)
<1>1. PICK S \in FirstRows(M, n, rank) : TRUE
  BY FirstRowsExist DEF Strict
<1>2. /\ Cardinality((Q \cap M) \ S) <= bound
      /\ Cardinality((Q \cap N) \ T) <= Cardinality((Q \cap M) \ S) + Cardinality(N \ M)
  BY <1>1, MoreBeyond
<1>3. /\ Cardinality((Q \cap M) \ S) \in Nat /\ Cardinality((Q \cap N) \ T) \in Nat
      /\ Cardinality(N \ M) \in Nat
  BY FS_Intersection, FS_Difference, FS_CardinalityType
<1>. QED
  BY <1>2, <1>3

LEMMA AmongKept ==
  ASSUME NEW M, IsFiniteSet(M), NEW N, IsFiniteSet(N), NEW n \in Nat, NEW rank,
         Strict(rank, M \cup N), NEW low \in Int, \A r \in M : low <= rank[r],
         NEW Q \in SUBSET M, NEW bound \in Int,
         \A S \in FirstRows(M, n, rank) : Cardinality(Q \cap S) <= bound,
         NEW T \in FirstRows(N, n, rank)
  PROVE  Cardinality(Q \cap T) <= bound + Cardinality(M \ N)
<1>1. PICK S \in FirstRows(M, n, rank) : TRUE
  BY FirstRowsExist DEF Strict
<1>2. /\ Cardinality(Q \cap S) <= bound
      /\ Cardinality(Q \cap T) <= Cardinality(Q \cap S) + Cardinality(M \ N)
  BY <1>1, MoreAmong
<1>3. /\ Cardinality(Q \cap S) \in Nat /\ Cardinality(Q \cap T) \in Nat
      /\ Cardinality(M \ N) \in Nat
  BY FS_Subset, FS_Intersection, FS_Difference, FS_CardinalityType
<1>. QED
  BY <1>2, <1>3
=============================================================================
