# TLA+ models of goeloquent

goeloquent is an Eloquent-style ORM for Go and MySQL: a query builder that
compiles method chains into SQL with positional bindings, model objects with
dirty tracking and event hooks, relations with eager loading, chunked reads,
transactions, and a manager of connection pools.  This directory holds TLA+
models of the parts whose correctness depends on an order of steps, TLC runs
that check them on small instances, and TLAPS proofs of the most important
results for every value of the constants.

    tlc -workers 2 -config chunkbyid_sweep.cfg MCChunkById
    tlapm ChunkByIdProofs.tla

## 1. Inventory

| Component | State it keeps | Operations | What makes it correct |
|---|---|---|---|
| ChunkById (`builder.go` 3020-3080) | the cursor `lastId`, the slice lent to the callback, its count | one query per chunk, one callback per chunk | no row twice, no lasting row missed, it ends, whatever others write |
| Chunk, Paginate (`builder.go` 2918-3019) | page number, total | a query per page, a count | how far rows can shift between pages; total and page agree |
| EloquentModel (`model.go`) | the struct's fields, `Origin`, `Exists`, `OnlyColumns`, `ExceptColumns` | Init, Fill, Only, Except, Save, Delete, eight hooks | a Save writes what was assigned and nothing else; one insert per object; errors are told |
| Transactions (`transaction.go`, `connection.go`) | the `sql.Tx`, one pool connection | Begin, closure, Commit, Rollback, panics | all or nothing; connection and locks always returned; no goroutine waits forever |
| Query builder (`builder.go`, `join.go`) | clauses, `Bindings` per clause, `Components` | some 150 clause methods, Clone, Reset | the n-th placeholder gets the n-th binding |
| SQL grammar (`mysql_grammar.go`) | a pointer to its builder | Compile* | placeholders in the order of the bindings |
| Find-or-create helpers (`builder.go` 2600, `eloquent.go` 248-512) | the caller's conditions map and target struct | look up, then insert or update | one row per key that is looked up before it is written; reports are true; no other row is touched |
| Relations, eager loading (`eloquent.go` 283-608, `relation*.go`) | the relation's query, the loaded rows | With, constrain, fetch, match, WithCount | every parent gets exactly its related rows, no trashed ones, and their number |
| Scanning (`scan.go`) | the destination under construction | one loop per shape of destination | a result is complete or an error |
| Connections (`database_manager.go`, `index.go`, connectors) | the map of open pools, the listeners | Connection, Listen, FireEvent, Open | one pool for the default name, at most one more per goroutine for others |
| Model metadata (`config.go`) | `ParsedModelsMap` | GetParsedModel, Parse | at most one `*Model` per type and goroutine |
| Support types (`raw.go`, `util.go`, stubs) | none | string helpers | - |

How they interact: a model's Save asks the manager for the default connection
and builds a statement with the query builder; the grammar compiles it and fills
the builder's bindings; the statement runs on the builder's transaction or on a
connection of the pool; results come back through the scan loops, which also
give retrieved models their `EloquentModel`.  The library starts no goroutine of
its own, so its hard behaviours come from outside: goroutines that share a pool,
clients that write the same tables between two statements of one call, callbacks
and hooks that run in the middle of a call with access to its state, and
statements that fail, or succeed and lose their reply.

`PROJECT.json` lists the hazards of the code, each at its line.

## 2. Modules

### TablePage, ChunkById, RowSweep

`TablePage` is what one paged SELECT returns: the table is the set of rows that
match now, ORDER BY a rank function with ties the server may break either way,
`PageOf` the sets of rows that `order by ... limit n offset k` may pick.
`Fetched` is the scan loop, which reads a prefix of a result when the connection
breaks, because `rows.Err()` is never asked.

`ChunkById` models the whole call. `pc` is its place in the code: `start` (before
the first query), `callback` (a chunk was fetched and the callback is about to
run), `loop` (the callback is back), and the three ends. `batch` is `tempDest`
with its count, `last` the element at the end of `tempDest` when the callback is
back, `cursor` is `lastId`. One action per branch: `NoColumn` (the panic for maps
without a column), `FirstPage`, `Callback`, `Finish` (short chunk), `LastPanics`
(`reflect` on a pointer element or an emptied slice), `NextPage`, `QueryFails`.
The callback may shorten or reorder the slice it works on (`edits`). Between any
two of these `InsertRow` and `RemoveRow` are other clients, or the callback's own
statements. Three properties of the source are kept that are easy to overlook:
only the first query replaces the offset the builder came with (`BaseOffset`);
the condition on the cursor is ANDed without nesting, so rows of an OR branch
(`OrRows`) keep matching; and orders set before the call come first
(`OrderRank` need not follow `Key`).

`delivered` and `must` are history variables: the rows handed over, and the rows
that have matched ever since the call began.

`RowSweep` is the promise a caller relies on: chunks in ascending key order, and
completion only when everything that was there all along has been seen.
`ImplementsSweep` maps ChunkById to it (`chunk <- batch`, the three ends to
`complete` and `aborted`).

### ModelSave

One `EloquentModel` against the row its key names. `mem` is the struct, `origin`
is `Origin`, `exists`, `only` and `except` are the fields of those names, `row`
the row in the database, and `pc` the next hook or statement of the running Save
or Delete. One action per hook (`Saving` ... `Deleted`; any hook may return an
error, some may assign a field), one per statement and its ways to go wrong
(`Insert`, `InsertPanics` for a key field that is not an int64, `InsertFails`,
`Update`, `UpdateFails`, `DeleteRow`, `DeleteFails`; a failed statement may have
taken effect and lost its reply), the caller's operations between calls, and
three actions of other clients. `known` is the value the model last read from or
wrote to its row, `touched` the columns assigned since the last SyncOrigin,
`excused` the columns that a failed UPDATE, a hook, or Only/Except put out of
step, `inserts` and `unheard` the rows inserted and those the caller was not told
of; `gone` says that a hard Delete has reported success, until the model is
another one. `IsDirty` keeps the code's special case: fields that Go cannot compare always
count as dirty unless they are zero.

### Transaction

Goroutines over one pool of `PoolSize` connections. A goroutine enters by
`Transaction` (`closure`) or by `BeginTransaction` (`manual`); inside, it writes
on the transaction (`TxWrite`), is refused (`TxWriteFails`), is made a deadlock
victim (`TxVictim`, after which the server commits its statements one by one), or
uses a model or `Exists` (`UseModel`), which ask the pool for another connection
(`Acquire`, `Execute`). `Finish` goes to the commit whether or not the closure
returned an error; `Panics` goes to the rollback. `stored` holds committed
writes, tagged with how they were made; `pending` the uncommitted ones, which
are also the locked rows; `held` the connections taken from the pool.

### QueryBuilder

Several builders that use one another. A value is a number; `text[c]` holds the
values whose "?" clause `c` writes, in the order it writes them, and
`bindings[k]` what `Bindings[k]` holds, so that the text and the values of a
statement can be compared. `components` is `Components`, `aggregated` says
whether there are `Aggregates`, `callbacks` are the BeforeQuery closures (a
where each). `CompileSelect` is the order of `SelectComponents`, `GetBindings`
that of `BindingKeysInOrder`. `sent` is what the latest call sent. A clause comes
with no value, with one, or with an `Expression` (`Raw`) and one; every clause
method does one of the three to the text and to the bindings of its kind.
`Sub` is a subquery (SelectSub, FromSub, JoinSub, WhereIn, OrderBy), compiled and
copied at once; `Reset`, `CloneBuilder`, `CountClone` and `DropSelected` change
what is there; `Get`, `Aggregate`, `Insert`, `Update`, `Delete` and
`UpdateOrInsert` send one statement or two, `Paginate` the count and the page.

The code's peculiarities are kept: `Reset(TYPE_SELECT)` deletes the *where*
component; a clone has a nil pointer for each join, so compiling it panics
(`Panics`); a clone's `OnlyColumns` is an empty map and not nil, so its writes
have no columns (`mute`); writes compile the table and the wheres whatever
`Components` says; an aggregate stays on the builder after `Count`, unless there
is a having.

Values and "?" part if callers do what the builder does not prevent. `Lapses` is
the set of such things a run lets them do: send a statement that has no place for
a clause with values (`leftover`: a delete with joins, a second update on the same
builder, a count of columns with values), pass wheres as structs
or row values (`struct`),
count columns with values and a having (`having`), replace a table that has
values (`replaced`), or paginate with BeforeQuery callbacks (`unpaged`).
No run lets callers have them all: two show what `struct` and `unpaged` lead to, and
the theorem about totals covers all but `unpaged`.

### EagerLoad

One call of `Model(...).With("A.B").Get(dest)`. A `Request` is what the caller
writes: a path of relations, what `dest` is, whether `WithCount` is asked for, and
what is odd about the models. A `Relation` is one of the nine kinds, with the
place of its `WherePivot`, the condition in its closure, and the global scope of
its related model. What differs between the kinds is in nine records: which
conditions `AddConstraints` adds, where a link between two rows is stored,
whether the field is a slice, what `Match` can set it on, and what
`GetRelationExistenceQuery` counts.

A `Link` is a row of a level's table that belongs to a row of the level above,
with the conditions its columns (and its pivot row's) meet. The query of a
relation is built step by step as in `EagerLoadRelation`: `Built` (the relation
method), `AddEagerConstraints` (the first where and the first value go),
`LoadPivotWheres`, `Constrain` (the closure), `ApplyGlobalScopes`, `WherePivots`.
It is kept as the conditions in the order of the text (`holes`), the conditions
its values are for in the order they were bound (`bindings`), and the place of an
OR, so that a value that ends up at another condition's "?", or has none, shows.

`Get` is the first query, with the columns of WithCount; `Load` (through
`GetEager`) and `LoadMorphTo` (one query per type) go down the path; `Match` comes
back up and fills the fields. Every query sees the tables as they are then:
`Attach`, `Detach`, `Trash` and `Remove` are other clients. `Inner` is the nested path as
`strings.Replace` leaves it. `kept`, `ever` and `buried` are history.

`Orderly` names the calls the properties speak of, that is, those that ask for
nothing the code does not bear (section 4 lists what that is). The model has the
other calls too, with what they really do: they panic, or mix rows up.

### Registry, ClientTable, FindOrCreate, OffsetRead, Clients

`Registry` is what the goroutines of a program share. `connections` is
`DatabaseManager.Connections`, `models` is `ParsedModelsMap`; pools and `*Model`s
are numbered as they are made. `Look`, `Make`, `Set` and `Reread`
are the accesses that `Connection` and `MakeConnection` make to the map,
`MakeFails` the panics before them (no configuration, no server) and after them
(a listener for new connections), `Load`
and `Store` the two of `GetParsedModel`. `Crash` is the end the Go runtime may
put to a program that writes a map while it is accessed.

`ClientTable` is the table: rows with an auto-increment id, the column that is
looked up, the column that is written, and perhaps a unique index, which refuses
a row or an UPDATE that would leave two of one key.

`FindOrCreate` has one action per statement of the four helpers: `Exists`,
`Update`, `Insert` for UpdateOrInsert; `FirstRow`, `Save`, `Create` for
UpdateOrCreate; `FirstPanics` for the two others. `Fails` is a statement that did
nothing, `Replies` one whose reply may be lost. `call[c]` is the call at hand:
`key` is the value the conditions ask for, and `to` the one of the row that is
written: the same, unless the values hold the looked-up column as well. `held`
is the id in the target struct, `narrowed` says that UpdateOrInsert has
put the values into the caller's conditions map, `was` is what First read. A
caller may begin `again` with the same map or target. `Change` is other clients.
`disturbed` is history: the calls that others got in the way of, by a write to a
row that the call had found, or has left (`Relies`).

`OffsetRead` is one reader with Chunk (`ReadChunk`, `Callback`) or Paginate
(`Count`, `ReadPage`), over `TablePage` for what a page may hold. The order is by
the id, up or down, which no update changes. `must`, `seen`,
`repeats`, `removed` and `inserted` are history.

`Clients` composes them: a client asks the registry between its calls, a call
needs the pool it was given (and a model, unless it is the builder's own), and
every write of a finder is seen by the reader (`Watched`).

## 3. Runs

| Run | Instance | Shows |
|---|---|---|
| `chunkbyid_sweep` | 5 rows, chunks of 2, unique keys, destinations of structs, pointers and maps | ChunkById implements RowSweep, skips nothing, terminates (39,840 states) |
| `chunkbyid_or` | struct elements with and without the key column, editing callbacks, one OR row | no row but the OR row comes twice; the cursor advances, and every step leaves the call fewer steps to take (504,790 states) |
| `chunkbyid_broken_read` | reads may break | violation of `NoSkip`: nil is returned with rows unread |
| `modelsave` | 2 columns (one not comparable), 2 values, 3 model types, all hooks may fail, 3 may assign | the four invariants and `OwnColumnsOnly` (1,162,124 states) |
| `modelsave_failed_update` | 1 column, no hooks | violation: Origin is synced although the UPDATE failed |
| `transaction` | 2 goroutines, 2 rows, pool of 3, 2 statements each | atomicity, no leak of connections or locks, every transaction ends (22,297 states) |
| `transaction_models` | 1 goroutine | violation: a model's row survives the rollback |
| `querybuilder` | 2 builders, 4 calls, no lapses | every statement's values fit its placeholders; totals count the rows of their pages (556,182 states) |
| `eagerload` | 2 rows per table, up to 2 links, 1 write by others; every kind alone for each destination, with counts, marks, pivots, scopes and odd models; chains of 2 and 3 | the fields of an orderly call hold their own live rows and all of them; it does not panic; counts agree (460,009 states) |
| `clients` | 2 writers, 1 reader, 3 keys, 4 ids, 2 connections, 1 model type | the registry's, the finders' and the reader's invariants and `OwnKeysOnly` (1,101,601 states) |
| `querybuilder_struct` | 3 calls, lapse `struct` | violation: a where given as a struct has a placeholder and no value |
| `querybuilder_callback` | 3 calls, lapse `unpaged` | violation: the total is counted without the BeforeQuery callbacks |

Bounds. Two full chunks and a short one need five rows with chunks of two; every
reordering of one insertion or removal against two queries fits. A second column
and a second value suffice for the model, because columns are independent of
each other and a property tells apart only equal and different. Two goroutines
are enough for a cycle of waits, and the third connection is what breaks it: with
`PoolSize = 2` the same run reports a deadlock, both goroutines inside a
transaction and waiting for the connection of a model's statement. `PoolSuffices`
states the general rule, and the proof holds for every number of goroutines.
Statements per transaction (`MaxStatements`) and inserts per model
(`MaxInserts`) are bounds of the models, not of the code. Four calls on two
builders (`MaxCalls`) are enough for a clause, a subquery or clone, a reset and a
statement; the proofs hold for any number of both.

`eagerload` varies one or two things of a request at a time (`MCRequests`). Two
rows and two links are enough for a row of the wrong model, two rows of one model
and one row of two; the write falls between any two queries. A path of three with
different names is among the chains, and one of BelongsTo and MorphTo, where one
key holds a link of each level; how long a path is does not matter to the proofs.
`clients` takes four
meetings (`Meetings`), each with enough steps left for its hazard: goroutines
that race for connections and models; three calls, or two and a change, for a
look-up, a removal and a retry, or a write of a key that the next call looks for;
a reader with three rows and two changes or a change and a
call, for two pages and a short one; and a little of each. Rows and names are
interchangeable (symmetry). All of `Max...` are bounds of the models. Chunks and
pages have at least one row: with size zero, Chunk returns nil at once. Only finders insert rows; others change and remove
them.

Fairness. EagerLoad, Clients, ModelSave and QueryBuilder state none: their
properties are safety properties. The loop of ChunkById is one goroutine that the Go scheduler keeps
running: weak fairness of its next step, none of other clients. In Transaction,
weak fairness of each goroutine's running steps (closures end, statements are
answered, or time out on a lock), and strong fairness of waiting for a
connection, since database/sql hands a connection that is given back to a
goroutine that waits for it.

Every property of a passing run is broken by a mutant of the model that stands
for a plausible mistake in the code (`PROJECT.json`, "mutants"); the mutated
operators are next to the originals in the modules.

## 4. Disagreements found

- A connection that breaks while rows are read ends ChunkById with nil
  (`scan.go` never asks `rows.Err()`).
- `Save` syncs Origin after a failed UPDATE, against the comment on Origin; the
  retry then writes nothing.
- A model's `Tx` is documented as "use same transaction" and never used.
- `Where` with a `Where` or `[]Where` is documented with the SQL it gives, but
  binds no value.
- `Paginate` counts with a clone that has lost the BeforeQuery callbacks, which
  are documented to run before the query.

Smaller ones, and behaviour nothing in the repository speaks about, are modelled
as they are, without a run of their own. `Transaction` commits
when the closure returns an error, and replaces that error with the commit's;
and a listener for the rollback event panics after a manual `Rollback` that
succeeded, because it is handed a nil error.

Of find-or-create:

- `FirstOrNew` and `FirstOrCreate` always panic: they ask the result of a SELECT,
  whose `Raw` is nil, for its rows affected (`result.go` 21); `README.md` 26 lists
  them as features.
- UpdateOrInsert and UpdateOrCreate write the values over the conditions
  (`builder.go` 2606, `eloquent.go` 499), also when the values hold the column that
  the conditions look up, as in both cases of `TestUpdateOrInsert`
  (`tests/query_builder_test.go` 1918-1950: age 2 or 7 is asked for, age 18
  written). The row is then of a key nobody has looked for: repeated with a new
  map, the call of that test inserts one more row each time, and the key it asked
  for has a row no more. So `OneRowEach` is about keys that are asked for and
  written alike, `ReportHolds` about the row of the key that is written, and
  `OwnKeysOnly` about both.
- UpdateOrInsert does so in the caller's map; a caller that
  uses the map again looks for a row that has the values, too, and inserts a second one.
  `OneRowEach` excuses such keys, and those that two calls worked on at once
  without a unique index.
- The UPDATE of UpdateOrInsert has no limit, in spite of `Limit(1)`, and reports
  true if the row went away since; its Exists leaves the transaction.
- UpdateOrCreate sends `update t set  where` for an unchanged row without an
  updated-at column, and returns the error.
- A target used again keeps its id when nothing is found. The INSERT then has that id:
  it fails, or puts a row under the id of one that was removed, and another call
  that found that one, and is about to save it, writes to a row of another key.
  This is the row `held` in `OwnKeysOnly`.

Of paging: `LastPage` divides integers before it rounds up (`paginator.go` 13), so
it is one short whenever the last page is not full. Nothing in the repository
says or tests what it returns, and no property is about it.

Of connections: nothing keeps two goroutines from making two pools of one name, or
two `*Model`s of one type. `OpenedOnce` only says that the default connection is
spared, `MadeOnceEach` that each goroutine adds one at most.

Of eager loading; these are what `Orderly` excludes:

- A value of WherePivot is bound where it is called and its "?" written last. Only
  after the closure's Where, with no scope that has a value and nothing nested, do they meet;
  on the parents' builder (`README.md` 111-112) the value has no "?" at all, and
  MorphByMany writes the wheres of the relation method twice.
- An OR in the closure splits the whole condition: rows of other models' types and
  trashed rows get in.
- HasOne and BelongsTo cannot be matched to models that are related rows themselves.
- HasOne finds the models' column by its index in the related model.
- MorphTo ignores constraints and nested relations, and panics for a type that is
  not registered; its field may not be a pointer of a single model.
- Elements that are pointers only MorphToMany can fill.
- A model related to itself three levels deep loses the third level
  (`strings.Replace` with -1).
- A later With of the same relation replaces its constraint by the default one.
- WithCount leaves out global scopes; MorphToMany compares the keys of row and
  model, MorphByMany the name of a table, MorphTo panics. `CountAgrees` is about
  the other six kinds.

Seen but outside the models: a model with scopes of its own loses the one for
soft deletes (`config.go` 168); `scanRelations` scans every row into one struct,
so pointers and slices are shared; the queries of relations never carry the
caller's transaction; EloquentBuilder's Chunk and Paginate add the global scopes
again for every statement, which selects the same rows.

## 5. Proofs

Every theorem is of the form `Spec => ...`, for all values of the constants that
the modules' ASSUMEs allow.

`ChunkByIdProofs`. `TypeCorrect`. `NeverRepeats` and `CursorMovesForward` need
that the order follows the key and that the OR branches match fewer rows than
fill a chunk (`FewOrRows`): the invariant `RepeatInv` says everything handed over has a key at
or below the cursor. `NeverSkips` needs `WholePages` (no offset, unbroken reads),
the order to follow the key, and unique keys: `SkipInv` says every row of `must`
is delivered, in the batch, or above the cursor. `ChunkByIdIsSweep` composes both
into the step simulation of RowSweep; it is stated for plain use (no OR rows, an
untouched slice, a selected key). `ChunkByIdRunsDown` counts the steps a call has
left: two for every row ahead of the cursor, and less in the middle of a page
(`Left`). A step of the loop lowers the count, a step of another client leaves it
alone; that the next page leaves fewer rows ahead (`NextPageLeavesFewer`) follows
from `RepeatInv`. So of `Terminates` only the scheduler's fairness is left to TLC.

`TablePageProofs` holds the lemmas about pages that two modules need. That
every set of naturals that is not empty has a least element (`NatMin`, from the
well-foundedness of the naturals) takes the place of an induction: with it, the
first k rows in any order exist (`FirstRowsExist`), are unique, and a page is
what lies between two of them (`PageFollows`).

`ModelSaveProofs`. `ModelTypeCorrect`; `UpdatesOwnColumnsOnly` by the invariant
that a dirty column was touched; `OriginIsKnown` by the invariant that also says
what `origin` and `known` are in the middle of a call; `InsertsOnce` by
"`inserts` is at most `unheard`, and one more once the model exists";
`DeletesAreReported` by `DeleteInv`, which adds that between the statement of a
hard Delete and its return the row is gone, and that the model of a reported Delete
still `exists` for Save: a Save after it is an UPDATE of no row, and puts none
back.

`TransactionProofs`. `TransactionTypeCorrect`; `NothingIsLeaked`, inductive as it
stands; `LargePoolSuffices` from it by counting; `TransactionsAreAtomic` by
`OutcomeInv`: as long as the server has not rolled back, the locked rows are the
rows written and nothing of the transaction is stored yet.

`QueryBuilderProofs`. `BuildersTypeCorrect`; `ValuesAlwaysFit`, under
`Lapses = {}`, by the invariant `AllInStep`: on every builder the values that a
clause writes are the values it binds. Each call is shown to keep it (`...Kept`),
and a statement fits because a clause it does not write has no values, so that
the two orders join the same sequences; `update` and `insert` values fit between
them because a statement that has the one has not the other. `TotalsFitPages`
needs no invariant but the types: the clone of `Paginate` changes neither the
table nor the joins nor the wheres.

`EagerLoadProofs`. `EagerLoadTypeCorrect`; `EagerLoadOwnRows` and
`EagerLoadNeverTrashed` by the invariant `Belonging`: every row found was linked
at some time and meets the conditions of its relation, and a field holds a row
found for its model. That a query's conditions include them follows from its
holes and bindings being the same sequence in an orderly call.
`EagerLoadOrderlySucceeds` needs that the paths below a level are no longer
than what is left of the request (`Shallow`), so that the last level has nothing
nested and its pivot wheres are written. `EagerLoadNothingMissing` is the other
half of `EagerLoadOwnRows`, and takes the longest argument, the invariant
`Complete`. A link is *due* when its model was loaded and it meets what is asked.
On the way down (`LoadedSoFar`) every due link of the levels above is found,
because the query that selects only what is asked for (`SelectedRight`) selects
all of it (`SelectedAll`); links held by the models are read with them, and a
MorphTo has either found a link or its type is still to be queried, which needs
that one model holds one link (`OneType`). That the way down does not end early
needs `PathsThere`: in an orderly call no name comes again along a path, so that
`Inner` takes off the first relation only. On the way up (`FilledSoFar`) Match
gives every group to its field. `EagerLoadCountAgrees` follows from both halves
and `CountedRight`: without writes the links counted for a model and those in
its field are the same set, or, where the field takes one row, both are empty.

The registry by itself, in `ClientsProofs`: `RegistrySafe`, the default name is
never missing (`DefaultStays`), and who made a pool finds one from then on,
because nothing leaves the maps. `ClientsFollowRegistry` shows that the composed
system implements Registry, which carries `OpenedOnce` and `MadeOnceEach` over.

`FindOrCreateProofs` has the lemmas, one per statement, that `FindInv` is kept;
`ClientsProofs` the theorems of the composed system: `ClientsOneRowEach`
(while a call that is not excused is between its look-up and its INSERT, the key
it writes has no row, `NoneYet`, and every other write of that key is of a row
that had it before, `Excuses`), `ClientsReportHolds` and `ClientsOwnKeys` (what a
call found is there, with the key and the value it had, until others write to it,
`FoundStays`), and `ClientsTypeCorrect`.

The reader, in `ClientsProofs`. A page by offset is cut from the rows as they are
then, so a row moves to a page before or after when others change or remove the
ones in front of it. The inductive invariant is `ReadInv`, about the rows that
come first, `Leading`, as many as have been read so far. `FewMissed`: of these at
most `removed` were there all along and were not handed over: a removal pulls one
row in, and the next page covers just the rows behind. `FewAgain`: at most
`inserted` minus `repeats` rows that were handed over lie behind them: an
insertion pushes one row out, which the next page may hand over again, and then
counts. `CountHolds` says that the total counted for a Paginator differs from the
rows there are by no more than the writes since. `ClientsMissBound`,
`ClientsRepeatBound` and `ClientsPaginatorAgrees` follow, for any size of page
and any number of writers.

Only model-checked: the liveness properties, `Terminates` and `Ends`, for which
the provers have no rule (they would need ENABLED). Every invariant and every
action property of a passing run is a theorem. The properties of the runs that
end in a violation are false, and there is nothing to prove.

## 6. Not modelled

SQL text, quoting and layout; of the builder, limits, Distinct, Lock, column
lists of Only and Except, AfterQuery callbacks, Exists clauses and closures
(compiled late, while their values are taken when they are added), and the text
that a panic leaves in `PreSql`; timestamps' values; JSON and date clauses as such; pages in an order that an update can change, which
may move a row to a page before or after without a removal or an insertion;
`LastPage`; conditions and values on the primary key column of a find-or-create
helper;
reflection over struct tags, pool options; WithPivot columns, aggregates other
than counts, RemovedScopes; HasOneThrough and HasManyThrough, which are stubs; contexts and deadlines (`WithContext` stores a
context that no statement uses); logging. The server is what the code assumes of
it: row locks held to the end of a transaction, statements that commit
themselves outside of one.

## 7. Plan

What could follow, in this order:

1. Limits, Only/Except lists and clauses compiled late (Exists, closures) in QueryBuilder.
2. A ranking function for `Ends` of Transaction, as `RunsDown` is for `Terminates`,
   so that only the fairness is left to TLC.
3. Transactions that span finders and readers: Clients over Transaction.
