-------------------------- MODULE TransactionProofs --------------------------
(***************************************************************************)
(* Transactions of any number of goroutines over a pool of any size.       *)
(***************************************************************************)
EXTENDS Transaction, FiniteSetTheorems, TLAPS

\* Writes of a set of rows.
LEMMA WritesOfRows ==
  ASSUME NEW c \in Clients, NEW via \in {"tx", "own"}, NEW S \in SUBSET Items
  PROVE  {<<c, i, via>> : i \in S} \subseteq Writes
BY DEF Writes

\* Both connections of a goroutine.
LEMMA OwnConnections ==
  ASSUME NEW c \in Clients
  PROVE  <<c, "tx">> \in Connections /\ <<c, "own">> \in Connections
BY DEF Connections

\* The bound on statements.
LEMMA StatementCount ==
  /\ 0 \in 0 .. MaxStatements
  /\ \A n \in 0 .. MaxStatements : n < MaxStatements => n + 1 \in 0 .. MaxStatements
BY MaxStatementsAssumption

\* A write on the transaction.
LEMMA OneWrite ==
  ASSUME NEW c \in Clients, NEW i \in Items
  PROVE  <<c, i, "tx">> \in Writes
BY DEF Writes

\* TypeOK holds of every state.
THEOREM TransactionTypeCorrect == Spec => []TypeOK
<1>. USE DEF TypeOK, Places, Results
<1>1. Init => TypeOK
  BY MaxStatementsAssumption DEF Init
<1>2. TypeOK /\ [Next]_vars => TypeOK'
  <2>. SUFFICES ASSUME TypeOK, [Next]_vars PROVE TypeOK'
    OBVIOUS
  <2>1. CASE UNCHANGED vars
    BY <2>1 DEF vars
  <2>2. ASSUME NEW c \in Clients, Start(c) \/ Waiting(c) \/ Running(c)
        PROVE  TypeOK'
    <3>. USE DEF At, Go
    <3>1. CASE Start(c)
      BY <3>1 DEF Start
    <3>2. CASE Begin(c)
      BY <3>2, OwnConnections DEF Begin
    <3>3. CASE BeginFails(c)
      BY <3>3 DEF BeginFails
    <3>4. CASE Acquire(c)
      BY <3>4, OwnConnections DEF Acquire
    <3>5. ASSUME Statement(c)
          PROVE  steps' \in [Clients -> 0 .. MaxStatements]
      BY <3>5, StatementCount DEF Statement
    <3>6. ASSUME NEW i \in Items, TxWrite(c, i)
          PROVE  TypeOK'
      <4>1. <<c, i, "tx">> \in Writes
        BY OneWrite
      <4>2. Statement(c)
        BY <3>6 DEF TxWrite
      <4>3. CASE c \in broken
        BY <3>5, <3>6, <4>1, <4>2, <4>3 DEF TxWrite
      <4>4. CASE c \notin broken
        <5>1. pending[c] \cup {i} \in SUBSET Items /\ wrote[c] \cup {i} \in SUBSET Items
          OBVIOUS
        <5>. QED
          BY <3>5, <3>6, <4>2, <4>4, <5>1 DEF TxWrite
      <4>. QED
        BY <4>3, <4>4
    <3>7. ASSUME NEW S \in SUBSET Items, UseModel(c, S)
          PROVE  TypeOK'
      BY <3>5, <3>7 DEF UseModel
    <3>8. CASE TxWriteFails(c) \/ TxVictim(c)
      BY <3>5, <3>8 DEF TxWriteFails, TxVictim
    <3>9. CASE Finish(c) \/ Panics(c)
      BY <3>9 DEF Finish, Panics
    <3>10. CASE Execute(c)
      <4>1. {<<c, i, "own">> : i \in saving[c]} \subseteq Writes
        BY WritesOfRows
      <4>2. stored' \subseteq Writes
        BY <3>10, <4>1 DEF Execute
      <4>. QED
        BY <3>10, <4>2 DEF Execute
    <3>11. ASSUME NEW result \in Results, Ended(c, result), stored' \subseteq Writes
           PROVE  TypeOK'
      BY <3>11, StatementCount DEF Ended
    <3>12. CASE Commit(c) \/ CommitFails(c) \/ Rollback(c)
      <4>1. PendingWrites(c) \subseteq Writes
        BY WritesOfRows DEF PendingWrites
      <4>2. stored' \subseteq Writes
        BY <3>12, <4>1 DEF Commit, CommitFails, Rollback
      <4>. QED
        BY <3>11, <3>12, <4>2 DEF Commit, CommitFails, Rollback
    <3>. QED
      BY <2>2, <3>1, <3>2, <3>3, <3>4, <3>6, <3>7, <3>8, <3>9, <3>10, <3>12
      DEF Waiting, Running, Closure
  <2>. QED
    BY <2>1, <2>2 DEF Next
<1>. QED
  BY <1>1, <1>2, PTL DEF Spec

-----------------------------------------------------------------------------
\* NothingLeaks is inductive: a connection is taken when a goroutine enters its
\* transaction, or starts a statement past it, and given back on every way out.
LEMMA LeaksStep ==
  ASSUME TypeOK, NothingLeaks, NEW c \in Clients, Start(c) \/ Waiting(c) \/ Running(c)
  PROVE  NothingLeaks'
<1>. USE DEF At, Go
<1>0. pc \in [Clients -> Places] /\ pending \in [Clients -> SUBSET Items]
  BY DEF TypeOK
<1>. DEFINE Sound(d) == /\ <<d, "tx">> \in held <=> pc[d] \notin {"idle", "begin"}
                        /\ <<d, "own">> \in held <=> pc[d] = "execute"
                        /\ pc[d] \in {"idle", "begin"} => pending[d] = {}
<1>1. SUFFICES ASSUME NEW d \in Clients PROVE Sound(d)'
  BY DEF NothingLeaks
<1>2. Sound(d)
  BY DEF NothingLeaks
<1>3. CASE Start(c)
  BY <1>0, <1>2, <1>3 DEF Start
<1>4. CASE Begin(c)
  BY <1>0, <1>2, <1>4 DEF Begin
<1>5. CASE BeginFails(c)
  BY <1>0, <1>2, <1>5 DEF BeginFails
<1>6. CASE Acquire(c)
  BY <1>0, <1>2, <1>6 DEF Acquire
<1>7. ASSUME NEW i \in Items, TxWrite(c, i) PROVE Sound(d)'
  <2>1. pc[c] = "body" /\ UNCHANGED <<held, pc>>
    BY <1>7 DEF TxWrite, Statement
  <2>2. d # c => pending'[d] = pending[d]
    BY <1>0, <1>7 DEF TxWrite
  <2>. QED
    BY <1>2, <2>1, <2>2
<1>8. ASSUME NEW S \in SUBSET Items, UseModel(c, S) PROVE Sound(d)'
  BY <1>0, <1>2, <1>8 DEF UseModel, Statement
<1>9. CASE TxWriteFails(c)
  BY <1>2, <1>9 DEF TxWriteFails, Statement
<1>10. CASE TxVictim(c)
  BY <1>0, <1>2, <1>10 DEF TxVictim, Statement
<1>11. CASE Finish(c) \/ Panics(c)
  BY <1>0, <1>2, <1>11 DEF Finish, Panics
<1>12. CASE Execute(c)
  BY <1>0, <1>2, <1>12 DEF Execute
<1>13. CASE Commit(c) \/ CommitFails(c) \/ Rollback(c)
  BY <1>0, <1>2, <1>13 DEF Commit, CommitFails, Rollback, Ended
<1>. QED
  BY <1>3, <1>4, <1>5, <1>6, <1>7, <1>8, <1>9, <1>10, <1>11, <1>12, <1>13
  DEF Waiting, Running, Closure

\* Every way through a transaction gives its connection and its locks back.
THEOREM NothingIsLeaked == Spec => []NothingLeaks
<1>1. Init => NothingLeaks
  BY DEF Init, NothingLeaks
<1>2. TypeOK /\ NothingLeaks /\ [Next]_vars => NothingLeaks'
  <2>. SUFFICES ASSUME TypeOK, NothingLeaks, [Next]_vars PROVE NothingLeaks'
    OBVIOUS
  <2>1. CASE UNCHANGED vars
    BY <2>1 DEF vars, NothingLeaks
  <2>. QED
    BY <2>1, LeaksStep DEF Next
<1>. QED
  BY <1>1, <1>2, TransactionTypeCorrect, PTL DEF Spec

\* Goroutines that are inside transactions, but run no statement past them, hold
\* one connection each, so a pool larger than their number always has a free one.
THEOREM LargePoolSuffices == Spec => []PoolSuffices
<1>1. TypeOK /\ NothingLeaks => PoolSuffices
  <2>. SUFFICES ASSUME TypeOK, NothingLeaks,
                       PoolSize > Cardinality(Clients),
                       \A c \in Clients : pc[c] # "execute"
                PROVE  Cardinality(held) < PoolSize
    BY DEF PoolSuffices, Free
  <2>. DEFINE OfTx == [h \in held |-> h[1]]
  <2>1. \A h \in held : h[1] \in Clients /\ h = <<h[1], "tx">>
    <3>. SUFFICES ASSUME NEW h \in held PROVE h[1] \in Clients /\ h = <<h[1], "tx">>
      OBVIOUS
    <3>1. PICK c \in Clients, via \in {"tx", "own"} : h = <<c, via>>
      BY DEF TypeOK, Connections
    <3>2. via # "own"
      BY <3>1 DEF NothingLeaks
    <3>. QED
      BY <3>1, <3>2
  <2>2. OfTx \in Injection(held, Clients)
    <3>1. OfTx \in [held -> Clients]
      BY <2>1
    <3>2. \A a, b \in held : OfTx[a] = OfTx[b] => a = b
      BY <2>1
    <3>. QED
      BY <3>1, <3>2 DEF Injection, IsInjective
  <2>3. Cardinality(held) <= Cardinality(Clients) /\ IsFiniteSet(held)
    BY <2>2, ClientsAssumption, FS_Injection
  <2>. QED
    BY <2>3, ClientsAssumption, FS_CardinalityType, PoolAssumption
<1>. QED
  BY <1>1, TransactionTypeCorrect, NothingIsLeaked, PTL

-----------------------------------------------------------------------------
\* AllOrNothing is not inductive: that a commit stores what was written needs
\* that the locked rows are the rows written, as long as the server did not roll
\* back, and that nothing of the transaction was stored before.  (That no row is
\* locked on entry comes from NothingLeaks.)
Outcome(c) ==
  /\ res[c] = "committed" => WroteOf(c) \subseteq stored
  /\ res[c] = "commit failed" =>
       WroteOf(c) \subseteq stored \/ WroteOf(c) \cap stored = {}
  /\ res[c] \notin {"committed", "commit failed"} => WroteOf(c) \cap stored = {}

Inside(c) ==
  /\ res[c] = "none"
  /\ pc[c] = "begin" => wrote[c] = {} /\ c \notin broken
  /\ c \notin broken =>
       /\ pc[c] # "begin" => pending[c] = wrote[c]
       /\ \A i \in Items : <<c, i, "tx">> \notin stored

OutcomeInv ==
  \A c \in Clients :
    IF pc[c] = "idle" THEN c \in broken \/ Outcome(c) ELSE Inside(c)

LEMMA OutcomeInvSuffices == TypeOK /\ OutcomeInv => AllOrNothing
<1>. SUFFICES ASSUME TypeOK, OutcomeInv, NEW c \in Clients, c \notin broken
              PROVE  Outcome(c)
  BY DEF AllOrNothing, Outcome
<1>1. CASE pc[c] = "idle"
  BY <1>1 DEF OutcomeInv
<1>2. CASE pc[c] # "idle"
  <2>1. Inside(c)
    BY <1>2 DEF OutcomeInv
  <2>2. wrote[c] \subseteq Items
    BY DEF TypeOK
  <2>3. WroteOf(c) \cap stored = {}
    BY <2>1, <2>2 DEF Inside, WroteOf
  <2>. QED
    BY <2>1, <2>3 DEF Outcome, Inside
<1>. QED
  BY <1>1, <1>2

\* A goroutine's step leaves what others wrote and what became of it alone.
LEMMA OthersOutcome ==
  ASSUME TypeOK, OutcomeInv, NEW c \in Clients, NEW d \in Clients \ {c},
         pc'[d] = pc[d], res'[d] = res[d], pending'[d] = pending[d],
         wrote'[d] = wrote[d], d \in broken' <=> d \in broken,
         \A i \in Items : <<d, i, "tx">> \in stored' <=> <<d, i, "tx">> \in stored
  PROVE  IF pc'[d] = "idle" THEN d \in broken' \/ Outcome(d)' ELSE Inside(d)'
<1>1. wrote[d] \subseteq Items
  BY DEF TypeOK
<1>2. WroteOf(d)' = WroteOf(d)
  BY DEF WroteOf
<1>3. /\ WroteOf(d) \subseteq stored' <=> WroteOf(d) \subseteq stored
      /\ WroteOf(d) \cap stored' = {} <=> WroteOf(d) \cap stored = {}
  BY <1>1 DEF WroteOf
<1>4. CASE pc[d] = "idle"
  BY <1>2, <1>3, <1>4 DEF OutcomeInv, Outcome
<1>5. CASE pc[d] # "idle"
  BY <1>5 DEF OutcomeInv, Inside
<1>. QED
  BY <1>4, <1>5

\* A goroutine's step is no one else's.
LEMMA StepIsOwn ==
  ASSUME TypeOK, NEW c \in Clients, NEW d \in Clients \ {c},
         Start(c) \/ Waiting(c) \/ Running(c)
  PROVE  /\ pc'[d] = pc[d] /\ res'[d] = res[d] /\ pending'[d] = pending[d]
         /\ wrote'[d] = wrote[d] /\ (d \in broken' <=> d \in broken)
         /\ \A i \in Items : <<d, i, "tx">> \in stored' <=> <<d, i, "tx">> \in stored
<1>. USE DEF At, Go, Statement, Ended, PendingWrites
<1>0. /\ pc \in [Clients -> Places] /\ res \in [Clients -> Results]
      /\ pending \in [Clients -> SUBSET Items] /\ wrote \in [Clients -> SUBSET Items]
  BY DEF TypeOK
<1>1. CASE Start(c)
  BY <1>0, <1>1 DEF Start
<1>2. CASE Begin(c) \/ BeginFails(c) \/ Acquire(c)
  BY <1>0, <1>2 DEF Begin, BeginFails, Acquire
<1>3. CASE \E i \in Items : TxWrite(c, i)
  BY <1>0, <1>3 DEF TxWrite
<1>4. CASE \E S \in SUBSET Items : UseModel(c, S)
  BY <1>0, <1>4 DEF UseModel
<1>5. CASE TxWriteFails(c) \/ TxVictim(c) \/ Finish(c) \/ Panics(c)
  BY <1>0, <1>5 DEF TxWriteFails, TxVictim, Finish, Panics
<1>6. CASE Execute(c)
  BY <1>0, <1>6 DEF Execute
<1>7. CASE Commit(c)
  BY <1>0, <1>7 DEF Commit
<1>8. CASE CommitFails(c)
  BY <1>0, <1>8 DEF CommitFails
<1>9. CASE Rollback(c)
  BY <1>0, <1>9 DEF Rollback
<1>. QED
  BY <1>1, <1>2, <1>3, <1>4, <1>5, <1>6, <1>7, <1>8, <1>9 DEF Waiting, Running, Closure

\* What a goroutine's step does to its own outcome.
LEMMA OwnOutcome ==
  ASSUME TypeOK, NothingLeaks, OutcomeInv, NEW c \in Clients,
         Start(c) \/ Waiting(c) \/ Running(c)
  PROVE  IF pc'[c] = "idle" THEN c \in broken' \/ Outcome(c)' ELSE Inside(c)'
<1>. USE DEF At, Go, Statement
<1>0. /\ pc \in [Clients -> Places] /\ res \in [Clients -> Results]
      /\ pending \in [Clients -> SUBSET Items] /\ wrote \in [Clients -> SUBSET Items]
  BY DEF TypeOK
<1>1. pc[c] # "idle" => Inside(c)
  BY DEF OutcomeInv
<1>2. CASE Start(c)
  BY <1>0, <1>2 DEF Start, Inside
<1>3. CASE Begin(c) \/ Acquire(c)
  <2>1. /\ pc[c] \in {"begin", "save"} /\ pc'[c] \in {"body", "execute"}
        /\ UNCHANGED <<stored, pending, broken, res, wrote>>
    BY <1>0, <1>3 DEF Begin, Acquire
  <2>2. c \notin broken => pending[c] = wrote[c]
    BY <1>1, <2>1 DEF Inside, NothingLeaks
  <2>. QED
    BY <1>1, <2>1, <2>2 DEF Inside
<1>4. CASE BeginFails(c)
  <2>1. wrote'[c] = {} /\ res'[c] = "refused" /\ pc'[c] = "idle"
    BY <1>0, <1>1, <1>4 DEF BeginFails, Inside
  <2>2. WroteOf(c)' = {}
    BY <2>1 DEF WroteOf
  <2>. QED
    BY <2>1, <2>2 DEF Outcome
<1>5. ASSUME NEW i \in Items, TxWrite(c, i)
      PROVE  pc'[c] # "idle" /\ Inside(c)'
  <2>1. CASE c \in broken
    BY <1>0, <1>1, <1>5, <2>1 DEF TxWrite, Inside
  <2>2. CASE c \notin broken
    BY <1>0, <1>1, <1>5, <2>2 DEF TxWrite, Inside
  <2>. QED
    BY <2>1, <2>2
<1>6. ASSUME NEW S \in SUBSET Items, UseModel(c, S)
      PROVE  pc'[c] # "idle" /\ Inside(c)'
  BY <1>0, <1>1, <1>6 DEF UseModel, Inside
<1>7. CASE TxWriteFails(c) \/ Finish(c) \/ Panics(c)
  BY <1>0, <1>1, <1>7 DEF TxWriteFails, Finish, Panics, Inside
<1>8. CASE TxVictim(c)
  BY <1>0, <1>1, <1>8 DEF TxVictim, Inside
<1>9. CASE Execute(c)
  <2>1. \A i \in Items : <<c, i, "tx">> \in stored' <=> <<c, i, "tx">> \in stored
    BY <1>9 DEF Execute
  <2>. QED
    BY <1>0, <1>1, <1>9, <2>1 DEF Execute, Inside
<1>10. CASE Commit(c) \/ CommitFails(c) \/ Rollback(c)
  <2>1. /\ pc[c] \notin {"idle", "begin"} /\ pc'[c] = "idle"
        /\ wrote'[c] = wrote[c] /\ broken' = broken
    BY <1>0, <1>10 DEF Commit, CommitFails, Rollback, Ended
  <2>2. SUFFICES ASSUME c \notin broken PROVE Outcome(c)'
    BY <2>1
  <2>3. /\ pending[c] = wrote[c]
        /\ \A i \in Items : <<c, i, "tx">> \notin stored
    BY <1>1, <2>1, <2>2 DEF Inside
  <2>4. WroteOf(c)' = WroteOf(c) /\ PendingWrites(c) = WroteOf(c)
    BY <2>1, <2>3 DEF WroteOf, PendingWrites
  <2>5. wrote[c] \subseteq Items
    BY <1>0
  <2>6. WroteOf(c) \cap stored = {}
    BY <2>3, <2>5 DEF WroteOf
  <2>7. CASE Commit(c)
    <3>1. res'[c] = "committed" /\ stored' = stored \cup WroteOf(c)
      BY <1>0, <2>4, <2>7 DEF Commit, Ended
    <3>. QED
      BY <2>4, <3>1 DEF Outcome
  <2>8. CASE CommitFails(c)
    <3>1. res'[c] = "commit failed" /\ stored' \in {stored, stored \cup WroteOf(c)}
      BY <1>0, <2>4, <2>8 DEF CommitFails, Ended
    <3>. QED
      BY <2>4, <2>6, <3>1 DEF Outcome
  <2>9. CASE Rollback(c)
    <3>1. res'[c] \in {"panicked", "rolled back"} /\ stored' = stored
      BY <1>0, <2>9 DEF Rollback, Ended
    <3>. QED
      BY <2>4, <2>6, <3>1 DEF Outcome
  <2>. QED
    BY <1>10, <2>7, <2>8, <2>9
<1>. QED
  BY <1>2, <1>3, <1>4, <1>5, <1>6, <1>7, <1>8, <1>9, <1>10
  DEF Waiting, Running, Closure

\* A transaction leaves all of its writes or none, for any number of goroutines,
\* rows and statements, unless the server rolls it back under its closure.
THEOREM TransactionsAreAtomic == Spec => []AllOrNothing
<1>1. Init => OutcomeInv
  BY DEF Init, OutcomeInv, Outcome, WroteOf
<1>2. TypeOK /\ NothingLeaks /\ OutcomeInv /\ [Next]_vars => OutcomeInv'
  <2>. SUFFICES ASSUME TypeOK, NothingLeaks, OutcomeInv, [Next]_vars PROVE OutcomeInv'
    OBVIOUS
  <2>1. CASE UNCHANGED vars
    BY <2>1 DEF vars, OutcomeInv, Outcome, Inside, WroteOf
  <2>2. ASSUME NEW c \in Clients, Start(c) \/ Waiting(c) \/ Running(c)
        PROVE  OutcomeInv'
    <3>. SUFFICES ASSUME NEW d \in Clients
                  PROVE  IF pc'[d] = "idle" THEN d \in broken' \/ Outcome(d)' ELSE Inside(d)'
      BY DEF OutcomeInv
    <3>1. CASE d = c
      BY <2>2, <3>1, OwnOutcome
    <3>2. CASE d # c
      <4>1. d \in Clients \ {c}
        BY <3>2
      <4>. QED
        BY <2>2, <4>1, StepIsOwn, OthersOutcome
    <3>. QED
      BY <3>1, <3>2
  <2>. QED
    BY <2>1, <2>2 DEF Next
<1>3. TypeOK /\ OutcomeInv => AllOrNothing
  BY OutcomeInvSuffices
<1>. QED
  BY <1>1, <1>2, <1>3, TransactionTypeCorrect, NothingIsLeaked, PTL DEF Spec

=============================================================================
