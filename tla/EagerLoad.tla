----------------------------- MODULE EagerLoad -----------------------------
(***************************************************************************)
(* One call of Model(...).With("A.B").Get(dest): the query of the parents, *)
(* then, level by level, one query for the related rows of all the models  *)
(* the level above returned (EagerLoadRelation, GetEager), then, from the  *)
(* deepest level up, the distribution of the rows to the relation fields   *)
(* of those models (Match).  Other clients write between the queries: the  *)
(* builder of a relation has no transaction, even if the caller's has one. *)
(***************************************************************************)
EXTENDS Integers, Sequences, FiniteSets

CONSTANTS
  Rows,      \* keys of rows, of the parents' table and of each level's
  Requests,  \* calls considered, each a Request
  MaxDepth,  \* bound: relations in a path
  MaxLinks,  \* bound: links there are when the call begins
  MaxWrites  \* bound: writes of other clients during the call

-----------------------------------------------------------------------------
(* The relations. *)

\* wheres - AddConstraints' conditions that have a value, in order; not-null
\*          conditions have none, and drop no row that has a key
\* held   - where a link between two rows is: in the related row, in the row
\*          of the model itself, or in a pivot table
\* many   - the field is a slice of all the rows; otherwise one of them
\* inner  - can rows be set on models that are themselves related rows?
\* dest   - can rows be set on the elements of a []*T?
\* count  - the rows that GetRelationExistenceQuery counts for a model

\* The keys are taken by the related model's index of the column; the last row
\* of a key stays.  MatchHasOne asserts a pointer to be a reflect.Value.
HasOne == [kind |-> "HasOne", wheres |-> <<"self">>, held |-> "row", many |-> FALSE,
           inner |-> FALSE, dest |-> FALSE, count |-> "parent"]

HasMany == [kind |-> "HasMany", wheres |-> <<"self">>, held |-> "row", many |-> TRUE,
            inner |-> TRUE, dest |-> FALSE, count |-> "parent"]

BelongsTo == [kind |-> "BelongsTo", wheres |-> <<"self">>, held |-> "self", many |-> FALSE,
              inner |-> FALSE, dest |-> FALSE, count |-> "parent"]

\* The first row of a key stays.
MorphOne == [kind |-> "MorphOne", wheres |-> <<"self", "type">>, held |-> "row", many |-> FALSE,
             inner |-> TRUE, dest |-> FALSE, count |-> "typed"]

MorphMany == [kind |-> "MorphMany", wheres |-> <<"self", "type">>, held |-> "row", many |-> TRUE,
              inner |-> TRUE, dest |-> FALSE, count |-> "typed"]

\* A query for each type among the models, on a builder of its own: neither
\* constraints nor nested relations reach it.
MorphTo == [kind |-> "MorphTo", wheres |-> <<>>, held |-> "self", many |-> FALSE,
            inner |-> TRUE, dest |-> FALSE, count |-> "panics"]

BelongsToMany == [kind |-> "BelongsToMany", wheres |-> <<"self">>, held |-> "pivot", many |-> TRUE,
                  inner |-> TRUE, dest |-> FALSE, count |-> "parent"]

\* The existence query compares the key of the row to that of the model.
MorphToMany == [kind |-> "MorphToMany", wheres |-> <<"self", "type">>, held |-> "pivot",
                many |-> TRUE, inner |-> TRUE, dest |-> TRUE, count |-> "row"]

\* The existence query compares the name of a table.
MorphByMany == [kind |-> "MorphByMany", wheres |-> <<"self", "type">>, held |-> "pivot",
                many |-> TRUE, inner |-> TRUE, dest |-> FALSE, count |-> "fails"]

Kinds == {HasOne, HasMany, BelongsTo, MorphOne, MorphMany, MorphTo, BelongsToMany,
          MorphToMany, MorphByMany}

\* What a caller makes of a relation:
\*   pivot - where WherePivot is called: on the parents' builder, in the relation
\*           method, or in the closure given to With, before or after its Where
\*   mark  - the closure's Where: a condition, or an alternative (OrWhere); or a
\*           closure that a later With of the same relation replaces
\*   scope - the related model's global scope: soft deletes, or one with a value
Relation == [
  of : Kinds,
  pivot : {"none", "parent", "method", "before", "after"},
  mark : {"none", "and", "or", "replaced"},
  scope : {"none", "trashed", "valued"} ]

\* dest   - a slice of models, one model, or a slice of pointers
\* models - what is odd about the models: HasOne's column is elsewhere in the
\*          related model or not in it, a type is not registered, or MorphTo's
\*          field is a pointer
\* counts - is WithCount of the first relation asked for, too?
Request == [
  path : Seq(Relation) \ {<<>>},
  dest : {"slice", "struct", "pointers"},
  models : {"fine", "elsewhere", "absent", "unregistered", "pointer"},
  counts : BOOLEAN ]

Names(path) == [i \in 1..Len(path) |-> path[i].of.kind]

\* A relation has one name; along a path the names are all different, or it is a
\* relation of a model with itself, again and again.
ASSUME RequestsAssumption ==
  /\ Requests \subseteq Request
  /\ \A r \in Requests : Len(r.path) <= MaxDepth
  /\ \A r \in Requests : \A i \in 1..Len(r.path) :
       r.path[i].pivot # "none" => r.path[i].of.held = "pivot"
  /\ \A r \in Requests : LET names == Names(r.path) IN
       \/ \A i, j \in 1..Len(names) : names[i] = names[j] => i = j
       \/ ~r.counts /\ \A i \in 1..Len(names) : names[i] = names[1]
ASSUME BoundsAssumption == MaxDepth \in Nat /\ MaxLinks \in Nat /\ MaxWrites \in Nat

-----------------------------------------------------------------------------
(* The tables. *)

Conditions == {"type", "pivot", "mark", "scope"}
Levels == 1..MaxDepth

\* A row of a level's table that belongs to a row of the level above, and the
\* conditions its columns, and those of its pivot row, meet.
Link == [level : Levels, parent : Rows, row : Rows, meets : SUBSET Conditions]

VARIABLES
  request,  \* the call
  table,    \* the links there are
  trashed,  \* the rows <<level, row>> that are soft-deleted
  gone,     \* the rows that are no more
  writes,   \* writes of other clients so far
  pc,       \* what the call does next, or how it ended
  why,      \* why it panicked
  level,    \* the relation it is at
  eager,    \* EagerLoad of the builder above it
  parents,  \* the models of the first query
  read,     \* links read with the rows that hold them
  groups,   \* the types of a MorphTo that are still to be queried
  found,    \* the rows of the levels, each with the link it was found by
  fields,   \* the links in the relation fields
  counted,  \* the links WithCount counted for each model
  kept,     \* history: the links that were there all along, to live rows
  ever,     \* history: the links that were there at any time
  buried    \* history: the rows that were soft-deleted all along

store == <<table, trashed, gone, writes, kept, ever, buried>>
loading == <<pc, why, level, eager, parents, read, groups, found, fields, counted>>
vars == <<request, store, loading>>

Depth == Len(request.path)
At(l) == request.path[l]
Live(x) == <<x.level, x.row>> \notin trashed \cup gone

\* The columns that matter to a relation; links meet the other conditions anyway.
Relevant(r) ==
  {c \in Conditions :
     \/ c = "type" /\ (r.of = MorphTo \/ "type" \in {r.of.wheres[i] : i \in 1..Len(r.of.wheres)})
     \/ c = "pivot" /\ r.pivot # "none"
     \/ c = "mark" /\ r.mark # "none"
     \/ c = "scope" /\ r.scope = "valued"}

LinksOf(r) ==
  UNION {[level : {l}, parent : Rows, row : Rows,
          meets : {m \cup (Conditions \ Relevant(r.path[l])) : m \in SUBSET Relevant(r.path[l])}] :
         l \in 1..Len(r.path)}

\* The columns of x that are the row's own, and not the model's or the pivot's.
Own(r, x) == x.meets \ CASE r.path[x.level].of.held = "row" -> {"pivot"}
                         [] r.path[x.level].of.held = "self" -> {"pivot", "type"}
                         [] r.path[x.level].of.held = "pivot" -> {"pivot", "type"}

\* Can these links be in the tables at once?
Storable(r, xs) ==
  \A x, y \in xs : x.level = y.level =>
    /\ x.row = y.row => Own(r, x) = Own(r, y)
    /\ r.path[x.level].of.held = "row" /\ x.row = y.row => x = y
    /\ r.path[x.level].of.held = "self" /\ x.parent = y.parent => x = y

Init ==
  /\ request \in Requests
  /\ \E n \in 0..MaxLinks : \E f \in [1..n -> LinksOf(request)] : table = {f[i] : i \in 1..n}
  /\ Storable(request, table)
  /\ trashed \in SUBSET {<<x.level, x.row>> : x \in table}
  /\ gone = {} /\ writes = 0
  /\ pc = "query" /\ why = "" /\ level = 0 /\ eager = {}
  /\ parents = {} /\ read = {} /\ groups = {} /\ found = {} /\ fields = {}
  /\ counted = {}
  /\ kept = {x \in table : <<x.level, x.row>> \notin trashed}
  /\ ever = table /\ buried = trashed

-----------------------------------------------------------------------------
(* With. *)

\* With registers a path and what it begins with; a constraint of the latest
\* call replaces an earlier one.
With(names) == {SubSeq(names, 1, i) : i \in 1..Len(names)}

\* "A.B" as seen from A: strings.Replace cuts off every "A.", not only the first.
\* If one comes again, all names are the same.
Inner(names) ==
  LET n == Len(names) IN
  IF \E i \in 2..(n - 1) : names[i] = names[1] THEN <<names[n]>> ELSE Tail(names)

Nested(paths) == {Inner(names) : names \in {q \in paths : Len(q) > 1}}

\* Is the relation of level l among those that EagerLoadRelations goes through?
Wanted(l, paths) == l <= Depth /\ <<At(l).of.kind>> \in paths

-----------------------------------------------------------------------------
(* The query of a relation: the conditions with a value in the order of the  *)
(* text, the conditions the values are for in the order they are bound in,   *)
(* where the text has an OR, and whether it ends in "deleted_at is null".    *)

Plus(q, c) == [q EXCEPT !.holes = Append(@, c), !.bindings = Append(@, c)]
Bind(q, c) == [q EXCEPT !.bindings = Append(@, c)]
Write(q, c) == [q EXCEPT !.holes = Append(@, c)]
If(b, q, r) == IF b THEN q ELSE r

\* The relation method: AddConstraints, for a model that has only zero values.
Built(r) ==
  LET q == [holes |-> r.of.wheres, bindings |-> r.of.wheres, or |-> 0, live |-> FALSE] IN
  If(r.pivot = "method", Bind(q, "pivot"), q)

\* Mutant of AddEagerConstraints: the values bound so far stay.
AddEagerConstraintsKeep(q) ==
  [q EXCEPT !.holes = Append(Tail(@), "in"), !.bindings = Append(@, "in")]

\* The first condition and the first value go, whatever they are; for MorphTo,
\* nothing is taken from the relation's builder.
AddEagerConstraints(q) ==
  [q EXCEPT !.holes = Append(Tail(@), "in"), !.bindings = Append(Tail(@), "in")]

\* LoadPivotWheres: the cases do not fall through, and only MorphByMany's is there.
\* A Where is written, its value was bound before.
LoadPivotWheres(r, q) ==
  If(r.of = MorphByMany /\ r.pivot = "method", Write(q, "pivot"), q)

\* The closure given to With.
Constrain(r, q) ==
  LET before == If(r.pivot = "before", Bind(q, "pivot"), q)
      marked == CASE r.mark = "and" -> Plus(before, "mark")
                  [] r.mark = "or" -> [Plus(before, "mark") EXCEPT !.or = Len(before.holes) + 1]
                  [] OTHER -> before IN
  If(r.pivot = "after", Bind(marked, "pivot"), marked)

\* Mutant of ApplyGlobalScopes: only scopes with a value are applied.
ApplyValuedScopes(r, q) == If(r.scope = "valued", Plus(q, "scope"), q)

ApplyGlobalScopes(r, q) ==
  CASE r.scope = "valued" -> Plus(q, "scope")
    [] r.scope = "trashed" -> [q EXCEPT !.live = TRUE]
    [] OTHER -> q

\* Get writes the pivot wheres, unless there are relations to load for the rows.
WherePivots(r, q, nested) ==
  If(r.pivot \in {"method", "before", "after"} /\ nested = {}, Write(q, "pivot"), q)

EagerQuery(r, nested) ==
  IF r.of = MorphTo
  THEN ApplyGlobalScopes(r, [holes |-> <<"in">>, bindings |-> <<"in">>, or |-> 0, live |-> FALSE])
  ELSE WherePivots(r, ApplyGlobalScopes(r, Constrain(r,
         LoadPivotWheres(r, AddEagerConstraints(Built(r))))), nested)

Fits(q) == Len(q.holes) = Len(q.bindings)

\* Does x meet condition i, with the value it gets?  Values for another column
\* are none of this one's.
Holds(x, keys, q, i) ==
  /\ q.bindings[i] = q.holes[i]
  /\ IF q.holes[i] = "in" THEN x.parent \in keys ELSE q.holes[i] \in x.meets

\* AND binds tighter than OR: the scopes belong to the last alternative.
Selected(x, keys, q) ==
  LET n == Len(q.holes)
      last == (q.live => <<x.level, x.row>> \notin trashed) IN
  IF q.or = 0 THEN last /\ \A i \in 1..n : Holds(x, keys, q, i)
  ELSE \/ \A i \in 1..(q.or - 1) : Holds(x, keys, q, i)
       \/ last /\ \A i \in q.or..n : Holds(x, keys, q, i)

-----------------------------------------------------------------------------
(* The call. *)

\* Mutant of Holders: only one of the models.
HoldersOne(l) ==
  LET all == IF l = 1 THEN parents ELSE {x.row : x \in {y \in found : y.level = l - 1}} IN
  IF all = {} THEN {} ELSE {CHOOSE p \in all : TRUE}

\* The keys of the models whose relation of level l is loaded.
Holders(l) == IF l = 1 THEN parents ELSE {x.row : x \in {y \in found : y.level = l - 1}}

\* Links in the rows of models are read with the models.
ReadWith(l, models) ==
  IF l <= Depth /\ At(l).of.held = "self"
  THEN {x \in table : x.level = l /\ x.parent \in models} ELSE {}

\* The type a model belongs to by a MorphTo.
TypeOf(p, links) ==
  CASE \E x \in links : x.parent = p /\ "type" \in x.meets -> "first"
    [] \E x \in links : x.parent = p /\ "type" \notin x.meets -> "second"
    [] OTHER -> "none"

\* Mutant of Descend: nothing goes back up.
DescendStay(l, models, paths, links) ==
  IF models # {} /\ Wanted(l, paths)
  THEN /\ pc' = "load" /\ level' = l /\ eager' = paths
       /\ groups' = IF At(l).of = MorphTo THEN {TypeOf(p, links) : p \in models} ELSE {}
  ELSE /\ pc' = IF l = 1 THEN "done" ELSE "match"
       /\ level' = l
       /\ UNCHANGED <<eager, groups>>

\* The models are there: go on to the relation of level l, or to what comes after
\* the last one.
Descend(l, models, paths, links) ==
  IF models # {} /\ Wanted(l, paths)
  THEN /\ pc' = "load" /\ level' = l /\ eager' = paths
       /\ groups' = IF At(l).of = MorphTo THEN {TypeOf(p, links) : p \in models} ELSE {}
  ELSE /\ pc' = IF l = 1 THEN "done" ELSE "match"
       /\ level' = l - 1
       /\ UNCHANGED <<eager, groups>>

Panic(reason) ==
  /\ pc' = "panicked" /\ why' = reason
  /\ UNCHANGED <<level, eager, parents, read, groups, found, fields, counted>>

Fail ==
  /\ pc' = "failed"
  /\ UNCHANGED <<why, level, eager, parents, read, groups, found, fields, counted>>

\* Mutant of Counts: rows of every type count.
CountsUntyped(p, x) ==
  /\ x.level = 1 /\ <<1, x.row>> \notin gone
  /\ IF At(1).of.count = "row" THEN x.row = p ELSE x.parent = p

\* WithCount's subquery: no global scope.
Counts(p, x) ==
  /\ x.level = 1 /\ <<1, x.row>> \notin gone
  /\ IF At(1).of.count = "row" THEN x.row = p ELSE x.parent = p
  /\ At(1).of.count \in {"typed", "row"} => "type" \in x.meets

\* The first query, with WithCount's columns.  A value of WherePivot has no "?".
Get ==
  /\ pc = "query"
  /\ \/ request.counts /\ At(1).of.count = "panics" /\ Panic("aggregate")
     \/ ~(request.counts /\ At(1).of.count = "panics") /\ Fail
     \/ /\ ~(request.counts /\ At(1).of.count \in {"panics", "fails"})
        /\ At(1).pivot # "parent"
        /\ parents' \in IF request.dest = "struct" THEN {{p} : p \in Rows} \cup {{}} ELSE {Rows, {}}
        /\ read' = ReadWith(1, parents')
        /\ counted' = {m \in [to : parents', link : table] :
                          request.counts /\ Counts(m.to, m.link)}
        /\ Descend(1, parents', With(Names(request.path)), read')
        /\ UNCHANGED <<why, found, fields>>

\* The rows of level l there are for a query: by the links in the tables, or by
\* those the models were read with.
Stored(l) ==
  {x \in (IF At(l).of.held = "self" THEN read ELSE table) :
     x.level = l /\ <<l, x.row>> \notin gone}

\* What is loaded below the relation at hand.
Below == Nested({names \in eager : names[1] = At(level).of.kind})

\* Is HasOne's column odd in this way?
Odd(what) == At(level).of = HasOne /\ request.models = what

\* The keys the rows are asked for: of the models, if HasOne finds the column.
Keys == IF Odd("elsewhere") THEN SUBSET Rows ELSE {Holders(level)}

Results(keys, q) == {x \in Stored(level) : Selected(x, keys, q)}

\* GetEager: a query that fails panics.
GetEager ==
  LET q == EagerQuery(At(level), Below) IN
  \/ ~Fits(q) /\ Panic("values")
  \/ Panic("database")
  \/ /\ Fits(q)
     /\ \E keys \in Keys :
          LET models == {x.row : x \in Results(keys, q)} IN
          /\ found' = found \cup Results(keys, q)
          /\ read' = read \cup ReadWith(level + 1, models)
          /\ Descend(level + 1, models, Below, ReadWith(level + 1, models))
     /\ UNCHANGED <<why, parents, fields, counted>>

\* EagerLoadRelation, for one relation, up to its Match.
Load ==
  /\ pc = "load" /\ At(level).of # MorphTo
  /\ \/ Odd("absent") /\ Panic("column")
     \/ ~Odd("absent") /\ GetEager

\* A MorphTo's query for one of the types.
LoadMorphTo ==
  /\ pc = "load" /\ At(level).of = MorphTo
  /\ \E g \in groups :
       LET q == EagerQuery(At(level), {})
           unknown == g = "none" \/ (g = "second" /\ request.models = "unregistered")
           typed == {x \in Stored(level) : TypeOf(x.parent, {x}) = g}
           rows == {x \in typed : Selected(x, Holders(level), q)} IN
       \/ unknown /\ Panic("type")
       \/ ~unknown /\ Panic("database")
       \/ /\ ~unknown
          /\ found' = found \cup rows
          /\ groups' = groups \ {g}
          /\ pc' = IF groups' = {} THEN "match" ELSE "load"
          /\ UNCHANGED <<why, level, eager, parents, read, fields, counted>>

\* Mutant of Matches: grouped by the key of the rows themselves.
MatchesByRow(l) ==
  {m \in [to : Holders(l), link : found] : m.link.level = l /\ m.link.row = m.to}

\* The rows of level l grouped by the models they were found for.
Matches(l) ==
  {m \in [to : Holders(l), link : found] : m.link.level = l /\ m.link.parent = m.to}

\* What Match does not bear: pointers as models, a HasOne or a BelongsTo of
\* related rows, MorphTo's field a pointer of a single model.
Unmatchable(l, matches) ==
  \/ l = 1 /\ request.dest = "pointers" /\ ~At(l).of.dest
  \/ l > 1 /\ ~At(l).of.inner /\ matches # {}
  \/ /\ l = 1 /\ request.dest = "struct" /\ request.models = "pointer"
     /\ At(l).of = MorphTo /\ matches # {}

\* Match: a field takes its group, or one of it.
Match ==
  /\ pc = "match"
  /\ LET matches == Matches(level) IN
     \/ Unmatchable(level, matches) /\ Panic("models")
     \/ /\ ~Unmatchable(level, matches)
        /\ \E set \in IF At(level).of.many THEN {matches} ELSE SUBSET matches :
             /\ \A m \in matches : \E n \in set : n.to = m.to
             /\ ~At(level).of.many => \A m, n \in set : m.to = n.to => m = n
             /\ fields' = fields \cup set
        /\ level' = level - 1
        /\ pc' = IF level = 1 THEN "done" ELSE "match"
        /\ UNCHANGED <<why, eager, parents, read, groups, found, counted>>

Call == (Get \/ Load \/ LoadMorphTo \/ Match) /\ UNCHANGED <<request, store>>

-----------------------------------------------------------------------------
(* The other clients. *)

Ended == {"done", "failed", "panicked"}

Wrote ==
  /\ pc \notin Ended /\ writes < MaxWrites
  /\ writes' = writes + 1
  /\ UNCHANGED <<request, loading>>

\* A row, or the row of a pivot table, is written; the columns a row has of its
\* own do not change.
Attach ==
  \E x \in LinksOf(request) \ table :
    /\ Live(x)
    /\ Storable(request, table \cup {x})
    /\ \A y \in ever : y.level = x.level /\ y.row = x.row => Own(request, y) = Own(request, x)
    /\ table' = table \cup {x} /\ ever' = ever \cup {x}
    /\ UNCHANGED <<trashed, gone, kept, buried>> /\ Wrote

Detach ==
  \E x \in table :
    /\ table' = table \ {x} /\ kept' = kept \ {x}
    /\ UNCHANGED <<trashed, gone, ever, buried>> /\ Wrote

Trash ==
  \E x \in table :
    /\ Live(x)
    /\ trashed' = trashed \cup {<<x.level, x.row>>}
    /\ kept' = {y \in kept : <<y.level, y.row>> # <<x.level, x.row>>}
    /\ UNCHANGED <<table, gone, ever, buried>> /\ Wrote

\* Links in the models that pointed to a row may stay.
Remove ==
  \E x \in table :
    /\ <<x.level, x.row>> \notin gone
    /\ gone' = gone \cup {<<x.level, x.row>>}
    /\ kept' = {y \in kept : <<y.level, y.row>> # <<x.level, x.row>>}
    /\ UNCHANGED <<table, trashed, ever, buried>> /\ Wrote

Next == Call \/ Attach \/ Detach \/ Trash \/ Remove

Spec == Init /\ [][Next]_vars

-----------------------------------------------------------------------------
(* Properties. *)

TypeOK ==
  /\ request \in Requests
  /\ table \subseteq Link /\ kept \subseteq Link /\ ever \subseteq Link
  /\ trashed \subseteq Levels \X Rows /\ gone \subseteq Levels \X Rows
  /\ buried \subseteq Levels \X Rows
  /\ writes \in 0..MaxWrites
  /\ pc \in {"query", "load", "match"} \cup Ended
  /\ why \in {"", "aggregate", "column", "values", "database", "type", "models"}
  /\ level \in 0..Depth
  /\ parents \subseteq Rows
  /\ read \subseteq Link /\ found \subseteq Link
  /\ groups \subseteq {"first", "second", "none"}
  /\ fields \subseteq [to : Rows, link : Link]
  /\ counted \subseteq [to : Rows, link : Link]

\* Calls that do not ask for what the code does not bear: see the README.
OrderlyAt(r, l) ==
  LET this == r.path[l] IN
  /\ this.mark \in {"none", "and"}
  /\ this.pivot # "none" =>
       this.pivot = "after" /\ l = Len(r.path) /\ this.scope # "valued"
  /\ this.of = MorphTo => this.mark = "none" /\ l = Len(r.path)
  /\ l > 1 => this.of.inner
  /\ this.of = HasOne => r.models \notin {"elsewhere", "absent"}

Orderly ==
  /\ \A l \in 1..Depth : OrderlyAt(request, l)
  /\ request.dest = "pointers" => At(1).of.dest
  /\ At(1).of = MorphTo => request.models # "pointer" /\ ~request.counts
  /\ Depth > 2 => \A i, j \in 1..Depth : At(i).of = At(j).of => i = j

\* What the relation and the caller ask of a related row.
Demanded(l) ==
  {c \in Conditions :
     \/ c = "type" /\ "type" \in {At(l).of.wheres[i] : i \in 1..Len(At(l).of.wheres)}
     \/ c = "pivot" /\ At(l).pivot # "none"
     \/ c = "mark" /\ At(l).mark # "none"
     \/ c = "scope" /\ At(l).scope = "valued"}

\* In an orderly call a relation field holds only rows that were linked to its
\* own model, of the type of the relation, that meet the constraint, the pivot
\* where and the scope, whatever was written between the queries.
OwnRows ==
  Orderly => \A f \in fields :
    /\ f.link \in ever /\ f.link.parent = f.to
    /\ Demanded(f.link.level) \subseteq f.link.meets

\* A row that meets them and was linked to its model all along is in the field,
\* or, where the field holds one row, it is not empty.
NothingMissing ==
  pc = "done" /\ Orderly => \A x \in kept :
    /\ \/ x.level = 1 /\ x.parent \in parents
       \/ \E y \in found : y.level = x.level - 1 /\ y.row = x.parent
    /\ Demanded(x.level) \subseteq x.meets
    => \E f \in fields : /\ f.to = x.parent /\ f.link.level = x.level
                         /\ At(x.level).of.many => f.link = x

\* A row that was soft-deleted before the call is in no field of a relation whose
\* model has soft deletes.
NeverTrashed ==
  Orderly => \A f \in fields :
    At(f.link.level).scope = "trashed" => <<f.link.level, f.link.row>> \notin buried

\* An orderly call panics only if the database fails it, or a model of a MorphTo
\* has no registered type.
OrderlySucceeds ==
  pc = "panicked" /\ Orderly => why = "database" \/ (why = "type" /\ At(level).of = MorphTo)

\* What WithCount counts is what the same call loads, if nobody wrote, nothing is
\* soft-deleted and the relation has no other conditions.
CountAgrees ==
  /\ pc = "done" /\ Orderly /\ request.counts /\ writes = 0 /\ trashed = {}
  /\ At(1).pivot = "none" /\ At(1).mark = "none" /\ At(1).scope # "valued"
  /\ At(1).of.count \in {"parent", "typed"}
  => \A p \in parents :
       LET field == {f \in fields : f.to = p /\ f.link.level = 1}
           count == Cardinality({m \in counted : m.to = p}) IN
       IF At(1).of.many THEN count = Cardinality(field) ELSE count > 0 <=> field # {}
=============================================================================
