---------------------------- MODULE Transaction ----------------------------
(***************************************************************************)
(* Connection.Transaction, BeginTransaction, Commit and Rollback:          *)
(* goroutines that run transactions over one connection pool, with         *)
(* statements on the transaction and statements of models and builders     *)
(* that carry it, while closures panic, rows are locked, the server picks  *)
(* deadlock victims, and commits are refused or their replies lost.        *)
(***************************************************************************)
EXTENDS Integers, FiniteSets

CONSTANTS
  Clients,        \* goroutines
  Items,          \* rows
  PoolSize,       \* MaxOpenConns
  MaxStatements,  \* bound: statements of one transaction
  Style,          \* how each runs a transaction: by Transaction ("closure")
                  \* or by BeginTransaction ("manual")
  Victims,        \* goroutines whose transactions the server may pick as victims
  Listening       \* is a listener registered for EventTransactionRollback?

ASSUME ClientsAssumption == IsFiniteSet(Clients)
ASSUME PoolAssumption == PoolSize \in Nat \ {0}
ASSUME MaxStatementsAssumption == MaxStatements \in Nat
ASSUME StyleAssumption == Style \in [Clients -> {"closure", "manual"}]
ASSUME VictimsAssumption == Victims \subseteq Clients
ASSUME ListeningAssumption == Listening \in BOOLEAN

\* A write: who wrote which row, on its transaction ("tx") or past it ("own").
Writes == Clients \X Items \X {"tx", "own"}

\* A connection out of the pool: of a goroutine's transaction, or its other one.
Connections == Clients \X {"tx", "own"}

VARIABLES
  stored,   \* committed writes of each goroutine's current or last transaction
  held,     \* connections taken from the pool: <<goroutine, "tx" or "own">>
  pc,       \* where each goroutine is
  pending,  \* rows its transaction has written and locked
  saving,   \* the row that a model's Save inside the closure writes
  steps,    \* statements of the transaction so far
  broken,   \* goroutines whose transaction the server has rolled back
  res,      \* what Transaction (or Commit or Rollback) came to
  wrote     \* history: rows written on the transaction, as its statements said

vars == <<stored, held, pc, pending, saving, steps, broken, res, wrote>>

Places == {"idle", "begin", "body", "save", "execute", "commit", "rollback"}
Results == {"none", "committed", "commit failed", "rolled back", "refused", "panicked"}

Init ==
  /\ stored = {} /\ held = {} /\ broken = {}
  /\ pc = [c \in Clients |-> "idle"]
  /\ pending = [c \in Clients |-> {}]
  /\ saving = [c \in Clients |-> {}]
  /\ steps = [c \in Clients |-> 0]
  /\ res = [c \in Clients |-> "none"]
  /\ wrote = [c \in Clients |-> {}]

At(c, place) == pc[c] = place
Go(c, place) == pc' = [pc EXCEPT ![c] = place]

-----------------------------------------------------------------------------
\* The pool hands out at most PoolSize connections; a goroutine waits for one
\* without a timeout (its context has no deadline).
Free == Cardinality(held) < PoolSize

\* The rows that transactions other than c's have locked.
LockedFor(c) == UNION {pending[d] : d \in Clients \ {c}}

-----------------------------------------------------------------------------
\* A goroutine calls Transaction or BeginTransaction.
Start(c) ==
  /\ At(c, "idle")
  /\ stored' = {w \in stored : w[1] # c}
  /\ res' = [res EXCEPT ![c] = "none"]
  /\ wrote' = [wrote EXCEPT ![c] = {}]
  /\ broken' = broken \ {c}
  /\ Go(c, "begin")
  /\ UNCHANGED <<held, pending, saving, steps>>

Begin(c) ==
  /\ At(c, "begin") /\ Free
  /\ held' = held \cup {<<c, "tx">>}
  /\ Go(c, "body")
  /\ UNCHANGED <<stored, pending, saving, steps, broken, res, wrote>>

\* DB.Begin fails: the closure is not called.
BeginFails(c) ==
  /\ At(c, "begin") /\ Free
  /\ Go(c, "idle")
  /\ res' = [res EXCEPT ![c] = "refused"]
  /\ UNCHANGED <<stored, held, pending, saving, steps, broken, wrote>>

-----------------------------------------------------------------------------
\* The closure.

Statement(c) ==
  /\ At(c, "body")
  /\ steps[c] < MaxStatements
  /\ steps' = [steps EXCEPT ![c] = @ + 1]

\* tx.Insert, Update, Delete or Statement, or a builder whose Tx is set.  On a
\* transaction that the server has rolled back, the statement commits itself.
TxWrite(c, i) ==
  /\ Statement(c)
  /\ i \notin LockedFor(c)
  /\ wrote' = [wrote EXCEPT ![c] = @ \cup {i}]
  /\ IF c \in broken
     THEN stored' = stored \cup {<<c, i, "tx">>} /\ UNCHANGED pending
     ELSE pending' = [pending EXCEPT ![c] = @ \cup {i}] /\ UNCHANGED stored
  /\ UNCHANGED <<held, pc, saving, broken, res>>

\* The statement is refused, or waits too long for a lock.
TxWriteFails(c) ==
  /\ Statement(c)
  /\ UNCHANGED <<stored, held, pc, pending, saving, broken, res, wrote>>

\* The statement would close a cycle of lock waits: the server rolls the whole
\* transaction back.
TxVictim(c) ==
  /\ Statement(c)
  /\ c \in Victims
  /\ pending' = [pending EXCEPT ![c] = {}]
  /\ broken' = broken \cup {c}
  /\ UNCHANGED <<stored, held, pc, saving, res, wrote>>

\* Save of a model whose Tx is set (S = {i}) or Exists of a builder whose Tx is
\* set (S = {}): both ask DB for a connection.
UseModel(c, S) ==
  /\ Statement(c)
  /\ saving' = [saving EXCEPT ![c] = S]
  /\ Go(c, "save")
  /\ UNCHANGED <<stored, held, pending, broken, res, wrote>>

Acquire(c) ==
  /\ At(c, "save") /\ Free
  /\ held' = held \cup {<<c, "own">>}
  /\ Go(c, "execute")
  /\ UNCHANGED <<stored, pending, saving, steps, broken, res, wrote>>

\* Mutant of Execute: the statement is not closed.
ExecuteUnclosed(c) ==
  /\ At(c, "execute")
  /\ saving' = [saving EXCEPT ![c] = {}]
  /\ Go(c, "body")
  /\ UNCHANGED <<stored, held, pending, steps, broken, res, wrote>>

\* The statement commits itself, unless its row is locked (by c's own
\* transaction, too) until it gives up.
Execute(c) ==
  /\ At(c, "execute")
  /\ \/ /\ saving[c] \cap (LockedFor(c) \cup pending[c]) = {}
        /\ stored' = stored \cup {<<c, i, "own">> : i \in saving[c]}
     \/ UNCHANGED stored
  /\ held' = held \ {<<c, "own">>}
  /\ saving' = [saving EXCEPT ![c] = {}]
  /\ Go(c, "body")
  /\ UNCHANGED <<pending, steps, broken, res, wrote>>

\* The closure returns, with an error or without: Transaction commits.  A
\* manual transaction is committed or rolled back by its goroutine.
Finish(c) ==
  /\ At(c, "body")
  /\ \/ Go(c, "commit")
     \/ Style[c] = "manual" /\ Go(c, "rollback")
  /\ UNCHANGED <<stored, held, pending, saving, steps, broken, res, wrote>>

\* The closure panics, as every use of tx.Query, tx.Table and GetConfig does:
\* the transaction has no Connection.  A goroutine that began the transaction
\* itself rolls back too.
Panics(c) ==
  /\ At(c, "body")
  /\ Go(c, "rollback")
  /\ UNCHANGED <<stored, held, pending, saving, steps, broken, res, wrote>>

-----------------------------------------------------------------------------
\* The deferred function of Transaction, or the goroutine's Commit, Rollback.

Ended(c, result) ==
  /\ pending' = [pending EXCEPT ![c] = {}]
  /\ held' = held \ {<<c, "tx">>}
  /\ res' = [res EXCEPT ![c] = result]
  /\ steps' = [steps EXCEPT ![c] = 0]
  /\ Go(c, "idle")
  /\ UNCHANGED <<saving, broken, wrote>>

PendingWrites(c) == {<<c, i, "tx">> : i \in pending[c]}

\* The error of the closure is overwritten with the error of the commit.
Commit(c) ==
  /\ At(c, "commit")
  /\ stored' = stored \cup PendingWrites(c)
  /\ Ended(c, "committed")

\* The commit is refused, or its reply is lost.
CommitFails(c) ==
  /\ At(c, "commit")
  /\ stored' \in {stored, stored \cup PendingWrites(c)}
  /\ Ended(c, "commit failed")

\* Mutant of Rollback: the transaction is left open.
RollbackForgotten(c) ==
  /\ At(c, "rollback")
  /\ res' = [res EXCEPT ![c] = "rolled back"]
  /\ steps' = [steps EXCEPT ![c] = 0]
  /\ Go(c, "idle")
  /\ UNCHANGED <<stored, held, pending, saving, broken, wrote>>

\* Mutant of Rollback: the deferred function commits whatever happened.
RollbackCommits(c) ==
  /\ At(c, "rollback")
  /\ stored' = stored \cup PendingWrites(c)
  /\ Ended(c, "rolled back")

\* After a manual rollback without an error, a listener panics: there is no
\* error to hand to it.
Rollback(c) ==
  /\ At(c, "rollback")
  /\ UNCHANGED stored
  /\ Ended(c, IF Listening /\ Style[c] = "manual" THEN "panicked" ELSE "rolled back")

Closure(c) ==
  \/ \E i \in Items : TxWrite(c, i) \/ UseModel(c, {i})
  \/ UseModel(c, {}) \/ TxWriteFails(c) \/ TxVictim(c)
  \/ Finish(c) \/ Panics(c)

Running(c) ==
  Closure(c) \/ Execute(c) \/ Commit(c) \/ CommitFails(c) \/ Rollback(c)

Waiting(c) == Begin(c) \/ BeginFails(c) \/ Acquire(c)

Next == \E c \in Clients : Start(c) \/ Waiting(c) \/ Running(c)

Spec == Init /\ [][Next]_vars

\* Closures end, statements are answered, and the pool hands a connection that
\* is given back to a goroutine that waits for one.
FairSpec ==
  Spec /\ \A c \in Clients : WF_vars(Running(c)) /\ SF_vars(Waiting(c))

-----------------------------------------------------------------------------
\* Every variable has its type.
TypeOK ==
  /\ stored \subseteq Writes
  /\ held \subseteq Connections
  /\ pc \in [Clients -> Places]
  /\ pending \in [Clients -> SUBSET Items]
  /\ saving \in [Clients -> SUBSET Items]
  /\ steps \in [Clients -> 0 .. MaxStatements]
  /\ broken \subseteq Clients
  /\ res \in [Clients -> Results]
  /\ wrote \in [Clients -> SUBSET Items]

\* What c's transaction has written.
WroteOf(c) == {<<c, i, "tx">> : i \in wrote[c]}

\* A transaction leaves all of its writes or none: all of them once Commit has
\* returned nil, none of them once it was rolled back, and none that another
\* goroutine can see before that.  Only a transaction that the server rolled
\* back under its closure is torn.
AllOrNothing ==
  \A c \in Clients \ broken :
    /\ res[c] = "committed" => WroteOf(c) \subseteq stored
    /\ res[c] = "commit failed" =>
         WroteOf(c) \subseteq stored \/ WroteOf(c) \cap stored = {}
    /\ res[c] \notin {"committed", "commit failed"} => WroteOf(c) \cap stored = {}

\* A goroutine holds the connection of its transaction exactly while it is
\* inside, one more only while a statement past the transaction runs, and no
\* row stays locked when it is out.
NothingLeaks ==
  \A c \in Clients :
    /\ <<c, "tx">> \in held <=> pc[c] \notin {"idle", "begin"}
    /\ <<c, "own">> \in held <=> pc[c] = "execute"
    /\ pc[c] \in {"idle", "begin"} => pending[c] = {}

\* With more connections than goroutines, one is free whenever no statement
\* past a transaction runs: goroutines never all wait for each other's.
PoolSuffices ==
  PoolSize > Cardinality(Clients) /\ (\A c \in Clients : pc[c] # "execute") => Free

\* Every transaction that is started ends, whoever else runs: two goroutines
\* that each hold a connection and wait for another never wait for each other
\* as long as the pool has one connection more than there are goroutines.
Ends == \A c \in Clients : pc[c] = "begin" ~> pc[c] = "idle"

\* "use same transaction": what a model that carries the transaction saved is
\* gone when the transaction was rolled back.
ModelsRollBack ==
  \A c \in Clients :
    res[c] = "rolled back" => \A w \in stored : w[1] = c => w[3] # "own"
=============================================================================
