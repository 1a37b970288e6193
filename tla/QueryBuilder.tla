---------------------------- MODULE QueryBuilder ----------------------------
(***************************************************************************)
(* Builder and its grammar: clauses accumulate as text with "?" in it and, *)
(* apart from the text, as values to bind, kept by kind of clause.  A      *)
(* statement joins the texts in one order and the values in another place, *)
(* in another order.  Builders are used as subqueries of one another,      *)
(* cloned, reset, paginated and used again.                                *)
(***************************************************************************)
EXTENDS Integers, Sequences

CONSTANTS
  Builders,   \* the builders at hand
  MaxCalls,   \* bound: calls made on them
  Lapses      \* what callers do although values and "?" then part; see Allowed

\* The ways to part them:
\*   "leftover" - a statement without a clause that values are bound for
\*   "struct"   - wheres with "?" whose values are not bound
\*   "having"   - GetCountForPagination of columns with values and "having"
\*   "replaced" - a second table for a builder whose first one has values
\*   "unpaged"  - pagination of a builder with BeforeQuery callbacks
LapseKinds == {"leftover", "struct", "having", "replaced", "unpaged"}
ASSUME LapsesAssumption == Lapses \subseteq LapseKinds
ASSUME MaxCallsAssumption == MaxCalls \in Nat

\* Values are numbered as they come; Raw is an Expression, never bound.
Raw == 0

Clauses == {"select", "from", "join", "where", "groupBy", "having", "order"}
Keys == Clauses \cup {"update", "insert"}

VARIABLES
  builder,  \* each Builder
  sent,     \* the statements of the latest call
  used,     \* values given so far
  calls     \* calls made so far

vars == <<builder, sent, used, calls>>

NewQueryBuilder == [
  text |-> [c \in Clauses |-> <<>>],   \* the values of each clause's "?"
  bindings |-> [k \in Keys |-> <<>>],  \* Bindings
  components |-> {},                   \* Components; the column one is implied
  aggregated |-> FALSE,                \* len(Aggregates) > 0
  callbacks |-> <<>>,                  \* BeforeQuery closures: a Where each
  lostJoins |-> FALSE,                 \* are there nil pointers in Joins?
  mute |-> FALSE ]                     \* OnlyColumns is empty, but not nil

Init ==
  /\ builder = [h \in Builders |-> NewQueryBuilder]
  /\ sent = <<>> /\ used = 0 /\ calls = 0

-----------------------------------------------------------------------------
(* Clauses. *)

\* The grammar's parameter: "?" for a value; an Expression, which comes first if
\* there is one, as it is.
Placeholders(vs) == IF vs # <<>> /\ Head(vs) = Raw THEN Tail(vs) ELSE vs

\* Mutant of Bound: the Expression is kept.
BoundExpressions(vs) == vs

\* AddBinding keeps all but the Expression.
Bound(vs) == IF vs # <<>> /\ Head(vs) = Raw THEN Tail(vs) ELSE vs

Add(b, c, vs) ==
  [b EXCEPT !.text[c] = @ \o Placeholders(vs), !.bindings[c] = @ \o Bound(vs),
            !.components = @ \cup {c}]

\* Mutant of GetBindings: "where" before "update".
BindingsWhereFirst(b) ==
  b.bindings["select"] \o b.bindings["from"] \o b.bindings["join"]
    \o b.bindings["where"] \o b.bindings["update"] \o b.bindings["groupBy"]
    \o b.bindings["having"] \o b.bindings["order"] \o b.bindings["insert"]

\* GetBindings: BindingKeysInOrder.
GetBindings(b) ==
  b.bindings["select"] \o b.bindings["from"] \o b.bindings["join"]
    \o b.bindings["update"] \o b.bindings["where"] \o b.bindings["groupBy"]
    \o b.bindings["having"] \o b.bindings["order"] \o b.bindings["insert"]

\* ApplyBeforeQueryCallbacks.
Before(b) ==
  IF b.callbacks = <<>> THEN b
  ELSE [Add(b, "where", b.callbacks) EXCEPT !.callbacks = <<>>]

\* The clauses CompileSelect writes.  An aggregate has no columns, unless it
\* counts what a query with "having" selects.
Written(b) ==
  IF b.aggregated /\ "having" \notin b.components
  THEN b.components \ {"select"}
  ELSE b.components \cup {"select"}

Part(b, c) == IF c \in Written(b) THEN b.text[c] ELSE <<>>

\* CompileSelect: SelectComponents in order.
CompileSelect(b) ==
  Part(b, "select") \o Part(b, "from") \o Part(b, "join") \o Part(b, "where")
    \o Part(b, "groupBy") \o Part(b, "having") \o Part(b, "order")

\* CompileUnionAggregate uses the aggregate up.
AfterSelect(b) == [b EXCEPT !.aggregated = @ /\ "having" \notin b.components]

\* CompileComponentJoins dereferences the nil pointers a clone has for joins.
Panics(b) == b.lostJoins /\ "join" \in b.components

-----------------------------------------------------------------------------
(* The callers. *)

\* A caller does what parts "?" from values only if it is among the Lapses.
Allowed(lapse, does) == does => lapse \in Lapses

\* Are there values for a clause that a statement with these clauses leaves out?
Leftover(b, written) == \E k \in Keys \ written : b.bindings[k] # <<>>

\* What a call may be given: nothing, a value, an Expression and a value.
Arguments == {<<>>, <<used + 1>>, <<Raw, used + 1>>}

\* A call on h that leaves it as b, given n new values, with statements ss.
Calls(h, b, n, ss) ==
  /\ builder' = [builder EXCEPT ![h] = b]
  /\ used' = used + n
  /\ sent' = ss

Clause(h, c) ==
  \E vs \in Arguments : Calls(h, Add(builder[h], c, vs), Len(Bound(vs)), <<>>)

SelectRaw(h) == Clause(h, "select")
Join(h) == Clause(h, "join")
Where(h) == Clause(h, "where")
GroupByRaw(h) == Clause(h, "groupBy")
Having(h) == Clause(h, "having")
OrderByRaw(h) == Clause(h, "order")

\* From and FromRaw set the table, and add to its values.
FromRaw(h) ==
  \E vs \in Arguments :
    /\ Allowed("replaced", builder[h].bindings["from"] # <<>>)
    /\ Calls(h, [Add(builder[h], "from", vs)
                   EXCEPT !.text["from"] = Placeholders(vs)], Len(Bound(vs)), <<>>)

\* The text and the values of a subquery, as a clause.
AddSub(b, c, q) ==
  [b EXCEPT !.text[c] = (IF c = "from" THEN <<>> ELSE @) \o CompileSelect(q),
            !.bindings[c] = @ \o GetBindings(q),
            !.components = @ \cup {c}]

\* CreateSub on a builder g, for SelectSub, FromSub, JoinSub, WhereIn, OrderBy:
\* g is compiled, and its text and values are taken, then and there.
Sub(h, g, c) ==
  LET q == Before(builder[g]) IN
  /\ g # h
  /\ ~Panics(q)
  /\ Allowed("leftover", Leftover(q, Written(q)))
  /\ Allowed("replaced", c = "from" /\ builder[h].bindings["from"] # <<>>)
  /\ builder' = [builder EXCEPT ![g] = AfterSelect(q), ![h] = AddSub(builder[h], c, q)]
  /\ sent' = <<>>
  /\ UNCHANGED used

\* Where with a Where or []Where, and WhereRowValues: nothing is bound.  Of one
\* that compares columns, or asks for null, nothing need be.
WhereStruct(h) ==
  \E vs \in {<<>>, <<used + 1>>} :
    /\ Allowed("struct", vs # <<>>)
    /\ Calls(h, [builder[h] EXCEPT !.text["where"] = @ \o vs,
                                   !.components = @ \cup {"where"}], Len(vs), <<>>)

BeforeQuery(h) ==
  Calls(h, [builder[h] EXCEPT !.callbacks = Append(@, used + 1)], 1, <<>>)

-----------------------------------------------------------------------------
(* Changing a builder back. *)

Without(b, c) ==
  [b EXCEPT !.text[c] = <<>>, !.bindings[c] = <<>>, !.components = @ \ {c}]

\* Mutant of ResetClause: TYPE_COLUMN, like TYPE_SELECT, deletes the where component.
ResetColumnWhere(b, target) ==
  CASE target = "column" -> [b EXCEPT !.components = @ \ {"where"}]
    [] target = "select" -> [Without(b, "select") EXCEPT !.components = @ \ {"where"}]
    [] OTHER -> Without(b, target)

\* Reset.  For TYPE_COLUMN the columns stay, and CompileSelect writes them; for
\* TYPE_SELECT it is the where clause that is not written any more.
ResetClause(b, target) ==
  CASE target = "column" -> b
    [] target = "select" -> [Without(b, "select") EXCEPT !.components = @ \ {"where"}]
    [] OTHER -> Without(b, target)

Reset(h) ==
  \E target \in {"column", "order", "where", "select"} :
    Calls(h, ResetClause(builder[h], target), 0, <<>>)

ReOrder(h) == Calls(h, Without(builder[h], "order"), 0, <<>>)

\* SetAggregate.
SetAggregate(h) ==
  LET b == [builder[h] EXCEPT !.aggregated = TRUE] IN
  Calls(h, IF "groupBy" \in b.components THEN b ELSE ResetClause(b, "order"), 0, <<>>)

\* Clone.  Callbacks are not copied, the copied slice of joins has nil for each,
\* and a nil OnlyColumns becomes an empty map.
Clone(b) ==
  [b EXCEPT !.callbacks = <<>>, !.lostJoins = @ \/ "join" \in b.components,
            !.mute = TRUE]

CloneBuilder(h, g) ==
  /\ builder[g] = NewQueryBuilder
  /\ Calls(g, Clone(builder[h]), 0, <<>>)

-----------------------------------------------------------------------------
(* Statements. *)

Statement(kind, sql, b) ==
  [kind |-> kind, sql |-> sql, values |-> GetBindings(b),
   rows |-> <<Part(b, "from"), Part(b, "join"), Part(b, "where")>>]

Select(b) == Statement(IF b.aggregated THEN "aggregate" ELSE "select", CompileSelect(b), b)

\* A panic leaves before anything is sent; the text it leaves in PreSql is not
\* modelled.
Sends(b, ss) == IF Panics(b) THEN <<>> ELSE ss

\* Get, First, Exists and ToSql; Find, after a Where.
Get(h) ==
  LET q == Before(builder[h]) IN
  /\ Allowed("leftover", Leftover(q, Written(q)))
  /\ Calls(h, AfterSelect(q), 0, Sends(q, <<Select(q)>>))

\* Count, Min, Max, Avg, Sum.
Aggregate(h) ==
  LET q == Before([builder[h] EXCEPT !.aggregated = TRUE]) IN
  /\ Allowed("leftover", Leftover(q, Written(q)))
  /\ Calls(h, AfterSelect(q), 0, Sends(q, <<Select(q)>>))

\* FileterColumn: the columns of a write that pass the filter of the builder.
FileterColumn(b, vs) == IF b.mute THEN <<>> ELSE vs

Write(b, key, vs) == [b EXCEPT !.bindings[key] = @ \o Bound(FileterColumn(b, vs))]

\* CompileInsert.  A write names the table, with the "?" it may have.
InsertStatement(b, vs) ==
  Statement("insert", b.text["from"] \o Placeholders(FileterColumn(b, vs)),
            Write(b, "insert", vs))

\* CompileUpdate: no join, no order, no limit.
UpdateStatement(b, vs) ==
  Statement("update",
            b.text["from"] \o Placeholders(FileterColumn(b, vs)) \o b.text["where"],
            Write(b, "update", vs))

\* CompileDelete: no join.
DeleteStatement(b) ==
  Statement("delete", b.text["from"] \o b.text["where"] \o b.text["order"], b)

Insert(h) ==
  LET q == Before(builder[h]) IN
  /\ Allowed("leftover", Leftover(q, {"from"}))
  /\ \E vs \in Arguments :
       Calls(h, Write(q, "insert", vs), Len(Bound(vs)), <<InsertStatement(q, vs)>>)

\* Update, Increment, Decrement.
Update(h) ==
  LET q == Before(builder[h]) IN
  /\ Allowed("leftover", Leftover(q, {"from", "where"}))
  /\ \E vs \in Arguments :
       Calls(h, Write(q, "update", vs), Len(Bound(vs)), <<UpdateStatement(q, vs)>>)

\* Delete, by an id or by the wheres there are.
Delete(h) ==
  \E vs \in {<<>>, <<used + 1>>} :
    LET q == Before(IF vs = <<>> THEN builder[h] ELSE Add(builder[h], "where", vs)) IN
    /\ Allowed("leftover", Leftover(q, {"from", "where", "order"}))
    /\ Calls(h, q, Len(vs), <<DeleteStatement(q)>>)

\* UpdateOrInsert: a row is found, or none is, or the query fails.
UpdateOrInsert(h) ==
  LET condition == <<used + 1>>
      value == <<used + 2>>
      q == Before(Add(builder[h], "where", condition))
      fresh == Without(AfterSelect(q), "where")
      found == Sends(q, <<Select(q), UpdateStatement(AfterSelect(q), value)>>)
      absent == Sends(q, <<Select(q), InsertStatement(fresh, condition \o value)>>) IN
  /\ Allowed("leftover", Leftover(q, {"from", "where"} \cap Written(q)))
  /\ \/ Panics(q) /\ Calls(h, AfterSelect(q), 2, <<>>)
     \/ Calls(h, AfterSelect(q), 2, Sends(q, <<Select(q)>>))
     \/ ~Panics(q) /\ Calls(h, Write(AfterSelect(q), "update", value), 2, found)
     \/ ~Panics(q) /\ Calls(h, Write(fresh, "insert", condition \o value), 2, absent)

-----------------------------------------------------------------------------
(* Pagination. *)

\* CloneWithout column, order, offset and limit.
CountClone(b) == [ResetClause(ResetClause(Clone(b), "column"), "order") EXCEPT !.aggregated = TRUE]

\* The bindings of the columns go as well.
DropSelected(b) == [b EXCEPT !.bindings["select"] = <<>>]

\* Paginate: the total by a clone, then the page.  The first may fail.
Paginate(h) ==
  LET count == DropSelected(CountClone(builder[h]))
      q == Before(builder[h]) IN
  /\ builder[h].components \cap {"groupBy", "having"} = {}
  /\ Allowed("unpaged", builder[h].callbacks # <<>>)
  /\ Allowed("leftover", Leftover(q, Written(q)))
  /\ \/ Calls(h, builder[h], 0, Sends(count, <<Select(count)>>))
     \/ /\ ~Panics(count)
        /\ Calls(h, AfterSelect(q), 0, Sends(q, <<Select(count), Select(q)>>))

\* PaginateUsingPaginator: the clone has all the bindings.
PaginateUsingPaginator(h) ==
  LET count == [CountClone(builder[h]) EXCEPT !.bindings = builder[h].bindings]
      q == Before(builder[h]) IN
  /\ builder[h].components \cap {"groupBy", "having"} = {}
  /\ Allowed("unpaged", builder[h].callbacks # <<>>)
  /\ Allowed("leftover", Leftover(q, Written(q)) \/ Leftover(count, Written(count)))
  /\ \/ Calls(h, builder[h], 0, Sends(count, <<Select(count)>>))
     \/ /\ ~Panics(count)
        /\ Calls(h, AfterSelect(q), 0, Sends(q, <<Select(count), Select(q)>>))

\* GetCountForPagination: with "having", the columns are written after all.
GetCountForPagination(h) ==
  LET count == DropSelected(Clone(CountClone(builder[h]))) IN
  /\ Allowed("leftover", Leftover(count, Written(count)))
  /\ Allowed("having", "having" \in count.components /\ count.text["select"] # <<>>)
  /\ Calls(h, builder[h], 0, Sends(count, <<Select(count)>>))

Next ==
  /\ calls < MaxCalls
  /\ calls' = calls + 1
  /\ \E h \in Builders :
       \/ SelectRaw(h) \/ FromRaw(h) \/ Join(h) \/ Where(h) \/ GroupByRaw(h)
       \/ Having(h) \/ OrderByRaw(h) \/ WhereStruct(h) \/ BeforeQuery(h)
       \/ \E g \in Builders, c \in Clauses \ {"groupBy", "having"} : Sub(h, g, c)
       \/ \E g \in Builders : CloneBuilder(h, g)
       \/ Reset(h) \/ ReOrder(h) \/ SetAggregate(h)
       \/ Get(h) \/ Aggregate(h) \/ Insert(h) \/ Update(h) \/ Delete(h)
       \/ UpdateOrInsert(h) \/ Paginate(h) \/ PaginateUsingPaginator(h)
       \/ GetCountForPagination(h)

Spec == Init /\ [][Next]_vars

-----------------------------------------------------------------------------
(* Properties. *)

Values == Seq(Nat \ {Raw})

BuilderType == [
  text : [Clauses -> Values], bindings : [Keys -> Values],
  components : SUBSET Clauses, aggregated : BOOLEAN,
  callbacks : Values, lostJoins : BOOLEAN, mute : BOOLEAN ]

StatementType == [
  kind : {"select", "aggregate", "insert", "update", "delete"},
  sql : Values, values : Values, rows : Values \X Values \X Values ]

\* Builders hold values, never an Expression (builder.go:573-585), whatever they
\* are cloned, reset and counted from; statements do as well.
TypeOK ==
  /\ builder \in [Builders -> BuilderType]
  /\ sent \in Seq(StatementType)
  /\ used \in Nat
  /\ calls \in 0..MaxCalls

\* What each clause of a builder writes is what it binds, in the same order.
InStep(b) == \A c \in Clauses : b.text[c] = b.bindings[c]

Fits(s) == s.sql = s.values

\* Whatever calls led to it, a statement is sent with the values of its "?",
\* each at its place: GetBindings (builder.go:590-597) against the grammar.
ValuesFit == \A i \in 1..Len(sent) : Fits(sent[i])

\* The total of a pagination counts the rows its pages are taken from: the
\* statement of the clone has the table, joins and wheres of the builder's own.
TotalFitsPages ==
  Len(sent) = 2 /\ sent[1].kind = "aggregate" /\ sent[2].kind = "select"
    => sent[1].rows = sent[2].rows
=============================================================================
