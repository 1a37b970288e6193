-------------------------- MODULE EagerLoadProofs --------------------------
(***************************************************************************)
(* Calls with any relations, over tables of any size, among any number of  *)
(* writes of other clients.                                                *)
(***************************************************************************)
EXTENDS EagerLoad, FiniteSetTheorems, TLAPS

-----------------------------------------------------------------------------
(* Requests and links. *)

\* What the code gives for a path of a request.
LEMMA RequestFacts ==
  ASSUME NEW r \in Requests
  PROVE  /\ r \in Request
         /\ r.path \in Seq(Relation) /\ Len(r.path) \in Nat /\ Len(r.path) >= 1
         /\ \A l \in 1..Len(r.path) : r.path[l] \in Relation /\ l \in Levels
<1>1. r \in Request /\ Len(r.path) <= MaxDepth
  BY RequestsAssumption
<1>2. r.path \in Seq(Relation) /\ r.path # <<>>
  BY <1>1 DEF Request
<1>3. Len(r.path) \in Nat /\ Len(r.path) >= 1
  BY <1>2
<1>4. ASSUME NEW l \in 1..Len(r.path)
      PROVE  r.path[l] \in Relation /\ l \in Levels
  BY <1>1, <1>2, <1>3, BoundsAssumption DEF Levels
<1>. QED
  BY <1>1, <1>2, <1>3, <1>4

\* How deep the path of the call at hand is.
LEMMA DepthFacts ==
  ASSUME request \in Requests
  PROVE  Depth \in Nat /\ Depth >= 1
BY RequestFacts DEF Depth

\* Links that a request considers are links.
LEMMA LinksOfRequest ==
  ASSUME NEW r \in Requests
  PROVE  LinksOf(r) \subseteq Link
<1>. SUFFICES ASSUME NEW x \in LinksOf(r) PROVE x \in Link
  OBVIOUS
<1>1. PICK l \in 1..Len(r.path) :
        x \in [level : {l}, parent : Rows, row : Rows,
               meets : {m \cup (Conditions \ Relevant(r.path[l])) :
                        m \in SUBSET Relevant(r.path[l])}]
  BY DEF LinksOf
<1>2. l \in Levels
  BY RequestFacts
<1>3. {m \cup (Conditions \ Relevant(r.path[l])) : m \in SUBSET Relevant(r.path[l])}
        \subseteq SUBSET Conditions
  BY DEF Relevant
<1>. QED
  BY <1>1, <1>2, <1>3 DEF Link

\* The parts of a link.
LEMMA LinkFacts ==
  ASSUME NEW x \in Link
  PROVE  /\ x.level \in Levels /\ x.parent \in Rows /\ x.row \in Rows
         /\ <<x.level, x.row>> \in Levels \X Rows
BY DEF Link

\* Rows given to models.
LEMMA GivenRows ==
  ASSUME NEW A \in SUBSET Rows, NEW B \in SUBSET Link
  PROVE  [to : A, link : B] \subseteq [to : Rows, link : Link]
OBVIOUS

\* The level a call is at, while it is at one.
Working == pc \in {"load", "match"} => level \in 1..Depth

\* The keys of models are rows.
LEMMA HoldersAreRows ==
  ASSUME TypeOK, NEW l
  PROVE  Holders(l) \subseteq Rows
BY LinkFacts DEF TypeOK, Holders

\* Going on to the next relation, or back.
LEMMA DescendTypes ==
  ASSUME TypeOK, NEW l \in 1..(Depth + 1), NEW models, NEW paths, NEW links,
         Descend(l, models, paths, links)
  PROVE  /\ pc' \in {"load", "match", "done"}
         /\ level' \in 0..Depth
         /\ pc' \in {"load", "match"} => level' \in 1..Depth
         /\ groups' \subseteq {"first", "second", "none"}
<1>1. Depth \in Nat /\ Depth >= 1
  BY DepthFacts DEF TypeOK
<1>2. CASE models # {} /\ Wanted(l, paths)
  <2>1. l \in 1..Depth
    BY <1>1, <1>2 DEF Wanted
  <2>2. \A p \in models : TypeOf(p, links) \in {"first", "second", "none"}
    BY DEF TypeOf
  <2>. QED
    BY <1>1, <1>2, <2>1, <2>2 DEF Descend
<1>3. CASE ~(models # {} /\ Wanted(l, paths))
  <2>1. /\ pc' = IF l = 1 THEN "done" ELSE "match"
        /\ level' = l - 1
        /\ groups' = groups
    BY <1>3 DEF Descend
  <2>2. groups \subseteq {"first", "second", "none"}
    BY DEF TypeOK
  <2>. QED
    BY <1>1, <2>1, <2>2
<1>. QED
  BY <1>2, <1>3

\* A step of the call leaves what the tables hold, and so keeps the types if it
\* keeps those of the call.
LEMMA CallTypes ==
  ASSUME TypeOK, UNCHANGED <<request, store>>,
         pc' \in {"query", "load", "match"} \cup Ended,
         why' \in {"", "aggregate", "column", "values", "database", "type", "models"},
         level' \in 0..Depth, parents' \subseteq Rows,
         read' \subseteq Link, found' \subseteq Link,
         groups' \subseteq {"first", "second", "none"},
         fields' \subseteq [to : Rows, link : Link],
         counted' \subseteq [to : Rows, link : Link]
  PROVE  TypeOK'
<1>1. /\ request' = request /\ table' = table /\ trashed' = trashed /\ gone' = gone
      /\ writes' = writes /\ kept' = kept /\ ever' = ever /\ buried' = buried
  BY DEF store
<1>2. Depth' = Depth
  BY <1>1 DEF Depth
<1>. QED
  BY <1>1, <1>2 DEF TypeOK, Ended

\* A panic, or a failure, is one of those named.
LEMMA EndTypes ==
  ASSUME TypeOK, Working,
         \/ Fail
         \/ \E reason \in {"aggregate", "column", "values", "database", "type", "models"} :
              Panic(reason),
         UNCHANGED <<request, store>>
  PROVE  TypeOK' /\ Working'
BY DEF TypeOK, Working, Fail, Panic, Depth, Ended, store

-----------------------------------------------------------------------------
(* The steps of the call. *)

\* The first query.
LEMMA GetTypes ==
  ASSUME TypeOK, Working, Get, UNCHANGED <<request, store>>
  PROVE  TypeOK' /\ Working'
<1>1. CASE Fail \/ Panic("aggregate")
  BY <1>1, EndTypes
<1>2. CASE ~(Fail \/ Panic("aggregate"))
  <2>1. /\ parents' \in IF request.dest = "struct" THEN {{p} : p \in Rows} \cup {{}} ELSE {Rows, {}}
        /\ read' = ReadWith(1, parents')
        /\ counted' = {m \in [to : parents', link : table] :
                          request.counts /\ Counts(m.to, m.link)}
        /\ Descend(1, parents', With(Names(request.path)), read')
        /\ UNCHANGED <<why, found, fields>>
    BY <1>2 DEF Get
  <2>2. parents' \subseteq Rows
    BY <2>1
  <2>3. read' \subseteq Link
    BY <2>1 DEF ReadWith, TypeOK
  <2>4. counted' \subseteq [to : Rows, link : Link]
    <3>1. counted' \subseteq [to : parents', link : table]
      BY <2>1
    <3>2. parents' \in SUBSET Rows /\ table \in SUBSET Link
      BY <2>2 DEF TypeOK
    <3>3. [to : parents', link : table] \subseteq [to : Rows, link : Link]
      BY <3>2, GivenRows
    <3>. QED
      BY <3>1, <3>3
  <2>5. 1 \in 1..(Depth + 1)
    <3>1. Depth \in Nat
      BY DepthFacts DEF TypeOK
    <3>. QED
      BY <3>1
  <2>6. /\ pc' \in {"load", "match", "done"}
        /\ level' \in 0..Depth
        /\ pc' \in {"load", "match"} => level' \in 1..Depth
        /\ groups' \subseteq {"first", "second", "none"}
    BY <2>1, <2>5, DescendTypes
  <2>7. Depth' = Depth
    BY DEF Depth
  <2>8. Working'
    BY <2>6, <2>7 DEF Working
  <2>9. /\ parents' \subseteq Rows /\ fields' = fields /\ why' = why /\ found' = found
        /\ pc' \in {"query", "load", "match"} \cup Ended
    BY <2>1, <2>2, <2>6 DEF Ended
  <2>10. TypeOK'
    BY <2>3, <2>4, <2>6, <2>9, CallTypes DEF TypeOK
  <2>. QED
    BY <2>8, <2>10
<1>. QED
  BY <1>1, <1>2

\* The rows of a query, and the links read with them.
LEMMA StoredTypes ==
  ASSUME TypeOK, NEW l, NEW models
  PROVE  Stored(l) \subseteq Link /\ ReadWith(l, models) \subseteq Link
BY DEF TypeOK, Stored, ReadWith

\* The query of a relation.
LEMMA LoadTypes ==
  ASSUME TypeOK, Working, Load, UNCHANGED <<request, store>>
  PROVE  TypeOK' /\ Working'
<1>1. CASE Panic("column") \/ Panic("values") \/ Panic("database")
  BY <1>1, EndTypes
<1>2. CASE ~(Panic("column") \/ Panic("values") \/ Panic("database"))
  <2>. DEFINE q == EagerQuery(At(level), Below)
              models(keys) == {x.row : x \in Results(keys, q)}
  <2>1. PICK keys \in Keys :
          /\ found' = found \cup Results(keys, q)
          /\ read' = read \cup ReadWith(level + 1, models(keys))
          /\ Descend(level + 1, models(keys), Below, ReadWith(level + 1, models(keys)))
          /\ UNCHANGED <<why, parents, fields, counted>>
    BY <1>2 DEF Load, GetEager
  <2>2. found' \subseteq Link /\ read' \subseteq Link
    BY <2>1, StoredTypes DEF TypeOK, Results
  <2>3. level + 1 \in 1..(Depth + 1)
    <3>1. Depth \in Nat /\ level \in 1..Depth
      BY DepthFacts DEF TypeOK, Load, Working
    <3>. QED
      BY <3>1
  <2>4. /\ pc' \in {"load", "match", "done"}
        /\ level' \in 0..Depth
        /\ pc' \in {"load", "match"} => level' \in 1..Depth
        /\ groups' \subseteq {"first", "second", "none"}
    BY <2>1, <2>3, DescendTypes
  <2>5. Depth' = Depth
    BY DEF Depth
  <2>6. Working'
    BY <2>4, <2>5 DEF Working
  <2>7. /\ UNCHANGED <<why, parents, fields, counted>>
        /\ pc' \in {"query", "load", "match"} \cup Ended
    BY <2>1, <2>4 DEF Ended
  <2>8. TypeOK'
    BY <2>2, <2>4, <2>7, CallTypes DEF TypeOK
  <2>. QED
    BY <2>6, <2>8
<1>. QED
  BY <1>1, <1>2

\* A query of a MorphTo.
LEMMA LoadMorphToTypes ==
  ASSUME TypeOK, Working, LoadMorphTo, UNCHANGED <<request, store>>
  PROVE  TypeOK' /\ Working'
<1>1. CASE Panic("type") \/ Panic("database")
  BY <1>1, EndTypes
<1>2. CASE ~(Panic("type") \/ Panic("database"))
  <2>1. PICK g \in groups :
          /\ found' = found \cup {x \in {y \in Stored(level) : TypeOf(y.parent, {y}) = g} :
                                    Selected(x, Holders(level), EagerQuery(At(level), {}))}
          /\ groups' = groups \ {g}
          /\ pc' = IF groups' = {} THEN "match" ELSE "load"
          /\ UNCHANGED <<why, level, eager, parents, read, fields, counted>>
    BY <1>2 DEF LoadMorphTo
  <2>2. found' \subseteq Link
    BY <2>1, StoredTypes DEF TypeOK
  <2>3. pc = "load" /\ Depth' = Depth
    BY DEF LoadMorphTo, Depth
  <2>4. Working'
    BY <2>1, <2>3 DEF Working
  <2>5. /\ UNCHANGED <<why, level, parents, read, fields, counted>>
        /\ pc' \in {"query", "load", "match"} \cup Ended
        /\ groups' \subseteq groups
    BY <2>1
  <2>6. TypeOK'
    BY <2>2, <2>5, CallTypes DEF TypeOK
  <2>. QED
    BY <2>4, <2>6
<1>. QED
  BY <1>1, <1>2

\* The distribution of the rows of a level.
LEMMA MatchTypes ==
  ASSUME TypeOK, Working, Match, UNCHANGED <<request, store>>
  PROVE  TypeOK' /\ Working'
<1>1. CASE Panic("models")
  BY <1>1, EndTypes
<1>2. CASE ~Panic("models")
  <2>1. PICK set \in SUBSET Matches(level) : fields' = fields \cup set
    BY <1>2 DEF Match
  <2>2. Matches(level) \subseteq [to : Rows, link : Link]
    BY HoldersAreRows, GivenRows DEF Matches, TypeOK
  <2>3. /\ level' = level - 1
        /\ pc' = IF level = 1 THEN "done" ELSE "match"
        /\ UNCHANGED <<why, eager, parents, read, groups, found, counted>>
        /\ pc = "match"
    BY <1>2 DEF Match
  <2>4. level \in 1..Depth /\ Depth \in Nat /\ Depth' = Depth
    BY <2>3, RequestFacts DEF Working, TypeOK, Depth
  <2>5. Working'
    BY <2>3, <2>4 DEF Working
  <2>6. /\ fields' \subseteq [to : Rows, link : Link]
        /\ level' \in 0..Depth
        /\ pc' \in {"query", "load", "match"} \cup Ended
    <3>1. fields' \subseteq [to : Rows, link : Link]
      BY <2>1, <2>2 DEF TypeOK
    <3>. QED
      BY <2>3, <2>4, <3>1 DEF Ended
  <2>7. TypeOK'
    BY <2>3, <2>6, CallTypes DEF TypeOK
  <2>. QED
    BY <2>5, <2>7
<1>. QED
  BY <1>1, <1>2

\* What the other clients do.
LEMMA WriteTypes ==
  ASSUME TypeOK, Working, Attach \/ Detach \/ Trash \/ Remove
  PROVE  TypeOK' /\ Working'
<1>1. /\ writes' \in 0..MaxWrites
      /\ UNCHANGED <<request, loading>>
  <2>1. Wrote
    BY DEF Attach, Detach, Trash, Remove
  <2>2. writes \in 0..MaxWrites
    BY DEF TypeOK
  <2>. QED
    BY <2>1, <2>2, BoundsAssumption DEF Wrote
<1>2. /\ table' \subseteq Link /\ kept' \subseteq Link /\ ever' \subseteq Link
      /\ trashed' \subseteq Levels \X Rows /\ gone' \subseteq Levels \X Rows
      /\ buried' = buried
  <2>1. CASE Attach
    BY <2>1, LinksOfRequest DEF Attach, TypeOK
  <2>2. CASE Detach
    BY <2>2 DEF Detach, TypeOK
  <2>3. CASE Trash
    BY <2>3, LinkFacts DEF Trash, TypeOK
  <2>4. CASE Remove
    BY <2>4, LinkFacts DEF Remove, TypeOK
  <2>. QED
    BY <2>1, <2>2, <2>3, <2>4
<1>. QED
  BY <1>1, <1>2 DEF TypeOK, Working, Depth, loading, Ended

\* What a call is in the beginning.
LEMMA InitTypes == Init => TypeOK /\ Working
<1>. SUFFICES ASSUME Init PROVE TypeOK /\ Working
  OBVIOUS
<1>1. table \subseteq Link
  BY LinksOfRequest DEF Init
<1>2. trashed \subseteq Levels \X Rows
  BY <1>1, LinkFacts DEF Init
<1>3. Depth \in Nat
  BY DepthFacts DEF Init
<1>4. /\ kept \subseteq Link /\ ever \subseteq Link /\ gone \subseteq Levels \X Rows
      /\ buried \subseteq Levels \X Rows
  BY <1>1, <1>2 DEF Init
<1>5. writes \in 0..MaxWrites /\ level \in 0..Depth
  <2>1. writes = 0 /\ level = 0 /\ MaxWrites \in Nat
    BY BoundsAssumption DEF Init
  <2>. QED
    BY <1>3, <2>1
<1>6. /\ pc = "query" /\ why = "" /\ request \in Requests
      /\ parents = {} /\ read = {} /\ groups = {} /\ found = {} /\ fields = {}
      /\ counted = {}
  BY DEF Init
<1>. QED
  BY <1>1, <1>2, <1>4, <1>5, <1>6 DEF TypeOK, Working

\* A step keeps the types.
LEMMA EagerLoadTypeStep == TypeOK /\ Working /\ [Next]_vars => TypeOK' /\ Working'
<1>. SUFFICES ASSUME TypeOK, Working, [Next]_vars PROVE TypeOK' /\ Working'
  OBVIOUS
<1>1. CASE UNCHANGED vars
  BY <1>1 DEF vars, store, loading, TypeOK, Working, Depth
<1>2. CASE Call
  BY <1>2, GetTypes, LoadTypes, LoadMorphToTypes, MatchTypes DEF Call
<1>3. CASE Attach \/ Detach \/ Trash \/ Remove
  BY <1>3, WriteTypes
<1>. QED
  BY <1>1, <1>2, <1>3 DEF Next

\* TypeOK holds of every state, and a relation is loaded or matched only at a
\* level of the path.
THEOREM EagerLoadTypeCorrect == Spec => [](TypeOK /\ Working)
BY InitTypes, EagerLoadTypeStep, PTL DEF Spec

-----------------------------------------------------------------------------
(* The query of a relation. *)

Terms == {"self", "type", "in", "pivot", "mark", "scope"}
Query == [holes : Seq(Terms), bindings : Seq(Terms), or : Nat, live : BOOLEAN]

\* Each condition gets the value that is meant for it, and they are those of a set
\* and, possibly, the keys.
Aligned(q, asked) ==
  /\ q \in Query /\ q.holes = q.bindings /\ q.or = 0
  /\ \A c \in asked : \E i \in 1..Len(q.holes) : q.holes[i] = c
  /\ \A i \in 1..Len(q.holes) : q.holes[i] \in asked \cup {"in"}

\* A sequence with one element more.
LEMMA AppendFacts ==
  ASSUME NEW S, NEW s \in Seq(S), NEW e \in S
  PROVE  /\ Append(s, e) \in Seq(S) /\ Len(Append(s, e)) = Len(s) + 1
         /\ Append(s, e)[Len(s) + 1] = e
         /\ \A i \in 1..Len(s) : Append(s, e)[i] = s[i]
OBVIOUS

\* A condition and its value are added.
LEMMA GrownAligned ==
  ASSUME NEW q, NEW asked, Aligned(q, asked), NEW c \in Terms,
         NEW p \in Query, p.holes = Append(q.holes, c), p.bindings = Append(q.holes, c),
         p.or = 0
  PROVE  Aligned(p, asked \cup {c})
<1>1. q.holes \in Seq(Terms)
  BY DEF Aligned, Query
<1>2. /\ p.holes \in Seq(Terms) /\ Len(p.holes) = Len(q.holes) + 1 /\ Len(q.holes) \in Nat
      /\ p.holes[Len(q.holes) + 1] = c
      /\ \A i \in 1..Len(q.holes) : p.holes[i] = q.holes[i]
  BY <1>1, AppendFacts
<1>4. ASSUME NEW d \in asked \cup {c}
      PROVE  \E i \in 1..Len(p.holes) : p.holes[i] = d
  <2>1. CASE d = c
    <3>1. Len(q.holes) + 1 \in 1..Len(p.holes)
      BY <1>2
    <3>. QED
      BY <1>2, <2>1, <3>1
  <2>2. CASE d \in asked
    <3>1. PICK i \in 1..Len(q.holes) : q.holes[i] = d
      BY <2>2 DEF Aligned
    <3>2. i \in 1..Len(p.holes)
      BY <1>2
    <3>. QED
      BY <1>2, <3>1, <3>2
  <2>. QED
    BY <2>1, <2>2
<1>5. ASSUME NEW i \in 1..Len(p.holes)
      PROVE  p.holes[i] \in asked \cup {c} \cup {"in"}
  <2>1. i = Len(q.holes) + 1 \/ i \in 1..Len(q.holes)
    BY <1>2
  <2>2. \A j \in 1..Len(q.holes) : q.holes[j] \in asked \cup {"in"}
    BY DEF Aligned
  <2>. QED
    BY <1>2, <2>1, <2>2
<1>. QED
  BY <1>4, <1>5 DEF Aligned

\* A query is its parts.
LEMMA QueryFacts ==
  ASSUME NEW q \in Query
  PROVE  /\ q.holes \in Seq(Terms) /\ q.bindings \in Seq(Terms) /\ q.or \in Nat
         /\ q.live \in BOOLEAN
         /\ Len(q.holes) \in Nat /\ Len(q.bindings) \in Nat
BY DEF Query

\* What writing a condition, or binding a value, does.
LEMMA StepFacts ==
  ASSUME NEW q \in Query, NEW c \in Terms
  PROVE  /\ Plus(q, c) \in Query /\ Bind(q, c) \in Query /\ Write(q, c) \in Query
         /\ [q EXCEPT !.live = TRUE] \in Query
         /\ Plus(q, c).holes = Append(q.holes, c) /\ Write(q, c).holes = Append(q.holes, c)
         /\ Plus(q, c).bindings = Append(q.bindings, c)
         /\ Bind(q, c).bindings = Append(q.bindings, c)
         /\ Bind(q, c).holes = q.holes /\ Write(q, c).bindings = q.bindings
         /\ Plus(q, c).or = q.or /\ Bind(q, c).or = q.or /\ Write(q, c).or = q.or
         /\ Plus(q, c).live = q.live /\ Bind(q, c).live = q.live
         /\ Write(q, c).live = q.live
         /\ [q EXCEPT !.live = TRUE].holes = q.holes
         /\ [q EXCEPT !.live = TRUE].bindings = q.bindings
         /\ [q EXCEPT !.live = TRUE].or = q.or /\ [q EXCEPT !.live = TRUE].live = TRUE
<1>1. Append(q.holes, c) \in Seq(Terms) /\ Append(q.bindings, c) \in Seq(Terms)
  BY QueryFacts
<1>2. /\ Plus(q, c) \in Query /\ Bind(q, c) \in Query /\ Write(q, c) \in Query
      /\ [q EXCEPT !.live = TRUE] \in Query
  BY <1>1 DEF Plus, Bind, Write, Query
<1>3. /\ Plus(q, c).holes = Append(q.holes, c) /\ Plus(q, c).bindings = Append(q.bindings, c)
      /\ Plus(q, c).or = q.or /\ Plus(q, c).live = q.live
  BY DEF Plus, Query
<1>4. /\ Write(q, c).holes = Append(q.holes, c) /\ Write(q, c).bindings = q.bindings
      /\ Write(q, c).or = q.or /\ Write(q, c).live = q.live
  BY DEF Write, Query
<1>5. /\ Bind(q, c).bindings = Append(q.bindings, c) /\ Bind(q, c).holes = q.holes
      /\ Bind(q, c).or = q.or /\ Bind(q, c).live = q.live
  BY DEF Bind, Query
<1>6. /\ [q EXCEPT !.live = TRUE].holes = q.holes
      /\ [q EXCEPT !.live = TRUE].bindings = q.bindings
      /\ [q EXCEPT !.live = TRUE].or = q.or /\ [q EXCEPT !.live = TRUE].live = TRUE
  BY DEF Query
<1>. QED
  BY <1>2, <1>3, <1>4, <1>5, <1>6

\* A condition written with its value.
LEMMA PlusAligned ==
  ASSUME NEW q, NEW asked, Aligned(q, asked), NEW c \in Terms
  PROVE  Aligned(Plus(q, c), asked \cup {c}) /\ Plus(q, c).live = q.live
<1>1. q \in Query /\ q.holes = q.bindings /\ q.or = 0
  BY DEF Aligned
<1>1a. /\ Plus(q, c) \in Query /\ Plus(q, c).holes = Append(q.holes, c)
       /\ Plus(q, c).bindings = Append(q.bindings, c) /\ Plus(q, c).or = q.or
       /\ Plus(q, c).live = q.live
  BY <1>1, StepFacts
<1>2. /\ Plus(q, c) \in Query /\ Plus(q, c).holes = Append(q.holes, c)
      /\ Plus(q, c).bindings = Append(q.holes, c) /\ Plus(q, c).or = 0
      /\ Plus(q, c).live = q.live
  BY <1>1, <1>1a
<1>. QED
  BY <1>2, GrownAligned

\* AddEagerConstraints puts the keys in the place of the first condition.
LEMMA EagerAligned ==
  ASSUME NEW q \in Query, q.or = 0, q.live = FALSE, q.holes = q.bindings,
         q.holes = <<"self">> \/ q.holes = <<"self", "type">>
  PROVE  LET p == AddEagerConstraints(q) IN
         /\ p.live = FALSE
         /\ Aligned(p, IF q.holes = <<"self">> THEN {} ELSE {"type"})
<1>. DEFINE p == AddEagerConstraints(q)
<1>1. /\ p.holes = Append(Tail(q.holes), "in") /\ p.bindings = p.holes
      /\ p.or = 0 /\ p.live = FALSE
  BY DEF AddEagerConstraints, Query
<1>1a. ASSUME p.holes \in Seq(Terms)
       PROVE  p \in Query
  <2>1. Append(Tail(q.holes), "in") \in Seq(Terms)
    BY <1>1, <1>1a
  <2>. QED
    BY <2>1 DEF AddEagerConstraints, Query
<1>2. CASE q.holes = <<"self">>
  <2>1. p.holes \in Seq(Terms)
    BY <1>1, <1>2 DEF Terms
  <2>2. p \in Query
    BY <1>1a, <2>1
  <2>3. Len(p.holes) = 1 /\ p.holes[1] = "in"
    BY <1>1, <1>2
  <2>. HIDE DEF p
  <2>. QED
    BY <1>1, <1>2, <2>2, <2>3 DEF Aligned, p
<1>3. CASE q.holes = <<"self", "type">>
  <2>. DEFINE rest == Tail(q.holes)
  <2>1. rest = <<"type">> /\ q.holes # <<"self">>
    BY <1>3
  <2>. HIDE DEF rest, p
  <2>2. p.holes = Append(rest, "in")
    BY <1>1 DEF rest
  <2>2a. rest \in Seq({"type", "in"}) /\ Len(rest) = 1 /\ rest[1] = "type"
    BY <2>1
  <2>3. /\ p.holes \in Seq({"type", "in"}) /\ Len(p.holes) = 2 /\ p.holes[1] = "type"
        /\ \A i \in 1..2 : p.holes[i] \in {"type", "in"}
    <3>1. "in" \in {"type", "in"}
      OBVIOUS
    <3>2. Append(rest, "in") \in Seq({"type", "in"})
      BY <2>2a, <3>1
    <3>3. Len(Append(rest, "in")) = 2 /\ Append(rest, "in")[1] = "type"
      <4>1. Len(Append(rest, "in")) = Len(rest) + 1
        BY <2>2a, <3>1, AppendFacts
      <4>2. \A i \in 1..Len(rest) : Append(rest, "in")[i] = rest[i]
        BY <2>2a, <3>1, AppendFacts
      <4>3. Append(rest, "in")[1] = rest[1]
        BY <2>2a, <4>2
      <4>. QED
        BY <2>2a, <4>1, <4>3
    <3>. QED
      BY <2>2, <3>2, <3>3
  <2>3b. p.holes \in Seq(Terms)
    BY <2>3 DEF Terms
  <2>3a. p \in Query
    BY <1>1a, <2>3b
  <2>4. \A c \in {"type"} : \E i \in 1..Len(p.holes) : p.holes[i] = c
    BY <2>3
  <2>. QED
    BY <1>1, <2>1, <2>3a, <2>4 DEF Aligned, p
<1>. QED
  BY <1>2, <1>3

\* The relations, and the conditions their methods begin with.
LEMMA KindFacts ==
  ASSUME NEW k \in Kinds
  PROVE  /\ k = MorphTo => k.wheres = <<>>
         /\ k # MorphTo => k.wheres = <<"self">> \/ k.wheres = <<"self", "type">>
         /\ k.count = "panics" => k = MorphTo
BY DEF Kinds, HasOne, HasMany, BelongsTo, MorphOne, MorphMany, MorphTo, BelongsToMany,
       MorphToMany, MorphByMany

\* What is asked of the rows of a relation.
Asked(r) ==
  {c \in Conditions :
     \/ c = "type" /\ "type" \in {r.of.wheres[i] : i \in 1..Len(r.of.wheres)}
     \/ c = "pivot" /\ r.pivot # "none"
     \/ c = "mark" /\ r.mark # "none"
     \/ c = "scope" /\ r.scope = "valued"}

\* The query up to the closure: the keys, and the type if there is one.
LEMMA StartAligned ==
  ASSUME NEW r \in Relation, r.of # MorphTo, r.pivot # "method"
  PROVE  LET p == LoadPivotWheres(r, AddEagerConstraints(Built(r))) IN
         /\ p.live = FALSE
         /\ Aligned(p, IF r.of.wheres = <<"self">> THEN {} ELSE {"type"})
<1>. DEFINE q == [holes |-> r.of.wheres, bindings |-> r.of.wheres, or |-> 0, live |-> FALSE]
<1>1. Built(r) = q
  BY DEF Built, If
<1>2. r.of.wheres = <<"self">> \/ r.of.wheres = <<"self", "type">>
  BY KindFacts DEF Relation
<1>3. r.of.wheres \in Seq(Terms)
  <2>1. <<"self">> \in Seq(Terms) /\ <<"self", "type">> \in Seq(Terms)
    BY DEF Terms
  <2>. QED
    BY <1>2, <2>1
<1>4. q \in Query
  BY <1>3 DEF Query
<1>5. q.or = 0 /\ q.live = FALSE /\ q.holes = r.of.wheres /\ q.bindings = r.of.wheres
  OBVIOUS
<1>6. LoadPivotWheres(r, AddEagerConstraints(q)) = AddEagerConstraints(q)
  BY DEF LoadPivotWheres, If
<1>. HIDE DEF q
<1>. QED
  BY <1>1, <1>2, <1>4, <1>5, <1>6, EagerAligned

\* A pivot where that the closure asks for last: it is written if no relations are
\* loaded below, and has a value without a place otherwise.
LEMMA PivotShape ==
  ASSUME NEW r \in Relation, r.pivot = "after", r.scope # "valued",
         NEW q, NEW asked, Aligned(q, asked), q.live = FALSE, NEW nested
  PROVE  LET p == WherePivots(r, ApplyGlobalScopes(r, Bind(q, "pivot")), nested) IN
         /\ nested = {} => /\ Aligned(p, asked \cup {"pivot"})
                           /\ r.scope = "trashed" => p.live = TRUE
         /\ nested # {} => ~Fits(p)
<1>. DEFINE b == Bind(q, "pivot")
            s == ApplyGlobalScopes(r, b)
            p == WherePivots(r, s, nested)
<1>1. q \in Query /\ q.holes = q.bindings /\ q.or = 0 /\ "pivot" \in Terms
  BY DEF Aligned, Terms
<1>2. /\ b \in Query /\ b.holes = q.holes /\ b.bindings = Append(q.holes, "pivot")
      /\ b.or = 0
  <2>1. /\ b \in Query /\ b.holes = q.holes /\ b.bindings = Append(q.bindings, "pivot")
        /\ b.or = q.or
    BY <1>1, StepFacts
  <2>. HIDE DEF b
  <2>. QED
    BY <1>1, <2>1
<1>. HIDE DEF b
<1>3. s = b \/ s = [b EXCEPT !.live = TRUE]
  BY DEF ApplyGlobalScopes
<1>4. r.scope = "trashed" => s = [b EXCEPT !.live = TRUE]
  BY DEF ApplyGlobalScopes
<1>5. /\ [b EXCEPT !.live = TRUE] \in Query /\ [b EXCEPT !.live = TRUE].holes = b.holes
      /\ [b EXCEPT !.live = TRUE].bindings = b.bindings
      /\ [b EXCEPT !.live = TRUE].or = b.or /\ [b EXCEPT !.live = TRUE].live = TRUE
  BY <1>1, <1>2, StepFacts
<1>6. /\ s \in Query /\ s.holes = q.holes /\ s.bindings = Append(q.holes, "pivot")
      /\ s.or = 0 /\ (r.scope = "trashed" => s.live = TRUE)
  BY <1>2, <1>3, <1>4, <1>5
<1>. HIDE DEF s
<1>7. CASE nested = {}
  <2>1. p = Write(s, "pivot")
    BY <1>7 DEF WherePivots, If
  <2>2. /\ Write(s, "pivot") \in Query /\ Write(s, "pivot").holes = Append(s.holes, "pivot")
        /\ Write(s, "pivot").bindings = s.bindings /\ Write(s, "pivot").or = s.or
        /\ Write(s, "pivot").live = s.live
    BY <1>1, <1>6, StepFacts
  <2>3. /\ p \in Query /\ p.holes = Append(q.holes, "pivot")
        /\ p.bindings = Append(q.holes, "pivot") /\ p.or = 0 /\ p.live = s.live
    BY <1>6, <2>1, <2>2
  <2>. HIDE DEF p
  <2>4. Aligned(p, asked \cup {"pivot"})
    BY <1>1, <2>3, GrownAligned
  <2>. QED
    BY <1>6, <1>7, <2>3, <2>4 DEF p, s, b
<1>8. CASE nested # {}
  <2>1. p = s
    BY <1>8 DEF WherePivots, If
  <2>2. q.holes \in Seq(Terms) /\ Len(q.holes) \in Nat
    BY <1>1, QueryFacts
  <2>3. Len(Append(q.holes, "pivot")) = Len(q.holes) + 1
    BY <1>1, <2>2, AppendFacts
  <2>4. ~Fits(s)
    BY <1>6, <2>2, <2>3 DEF Fits
  <2>. QED
    BY <1>8, <2>1, <2>4 DEF s, b
<1>. QED
  BY <1>7, <1>8

\* The query without a pivot where, from the closure on.
LEMMA ScopeShape ==
  ASSUME NEW r \in Relation, r.pivot = "none",
         NEW q, NEW asked, Aligned(q, asked), q.live = FALSE, NEW nested
  PROVE  LET p == WherePivots(r, ApplyGlobalScopes(r, q), nested) IN
         /\ Aligned(p, asked \cup (IF r.scope = "valued" THEN {"scope"} ELSE {}))
         /\ r.scope = "trashed" => p.live = TRUE
<1>. DEFINE s == ApplyGlobalScopes(r, q)
<1>1. WherePivots(r, s, nested) = s
  BY DEF WherePivots, If
<1>2. q \in Query /\ q.holes = q.bindings /\ q.or = 0 /\ "scope" \in Terms
  BY DEF Aligned, Terms
<1>3. CASE r.scope = "valued"
  <2>1. s = Plus(q, "scope")
    BY <1>3 DEF ApplyGlobalScopes
  <2>2. Aligned(s, asked \cup {"scope"})
    BY <1>2, <2>1, PlusAligned
  <2>. QED
    BY <1>1, <1>3, <2>2
<1>4. CASE r.scope = "trashed"
  <2>1. s = [q EXCEPT !.live = TRUE]
    BY <1>4 DEF ApplyGlobalScopes
  <2>2. /\ [q EXCEPT !.live = TRUE] \in Query /\ [q EXCEPT !.live = TRUE].holes = q.holes
        /\ [q EXCEPT !.live = TRUE].bindings = q.bindings
        /\ [q EXCEPT !.live = TRUE].or = q.or /\ [q EXCEPT !.live = TRUE].live = TRUE
    BY <1>2, StepFacts
  <2>3. /\ s \in Query /\ s.holes = q.holes /\ s.bindings = q.bindings /\ s.or = q.or
        /\ s.live = TRUE
    BY <2>1, <2>2
  <2>. HIDE DEF s
  <2>4. Aligned(s, asked)
    BY <1>2, <2>3 DEF Aligned
  <2>. QED
    BY <1>1, <1>4, <2>3, <2>4 DEF s
<1>5. CASE r.scope \notin {"valued", "trashed"}
  <2>1. s = q
    BY <1>5 DEF ApplyGlobalScopes
  <2>. QED
    BY <1>1, <1>5, <2>1
<1>. QED
  BY <1>3, <1>4, <1>5

\* A relation of an orderly call.
Mild(r) ==
  /\ r \in Relation /\ r.mark \in {"none", "and"}
  /\ r.pivot # "none" => r.pivot = "after" /\ r.scope # "valued" /\ r.of # MorphTo
  /\ r.of = MorphTo => r.mark = "none"

\* Its query asks for all that is asked, or has a value too many because relations are
\* loaded below a pivot where.
LEMMA QueryShape ==
  ASSUME NEW r, Mild(r), NEW nested
  PROVE  LET q == EagerQuery(r, nested) IN
         \/ Aligned(q, Asked(r)) /\ (r.scope = "trashed" => q.live = TRUE)
         \/ r.pivot = "after" /\ nested # {} /\ ~Fits(q)
<1>. USE DEF Mild
<1>1. CASE r.of = MorphTo
  <2>. DEFINE q0 == [holes |-> <<"in">>, bindings |-> <<"in">>, or |-> 0, live |-> FALSE]
  <2>1. EagerQuery(r, nested) = ApplyGlobalScopes(r, q0)
    BY <1>1 DEF EagerQuery
  <2>2. WherePivots(r, ApplyGlobalScopes(r, q0), nested) = ApplyGlobalScopes(r, q0)
    BY <1>1 DEF WherePivots, If
  <2>3. Aligned(q0, {}) /\ q0.live = FALSE
    <3>1. <<"in">> \in Seq(Terms)
      BY DEF Terms
    <3>2. q0 \in Query
      BY <3>1 DEF Query
    <3>. QED
      BY <3>2 DEF Aligned
  <2>. HIDE DEF q0
  <2>4. LET q == EagerQuery(r, nested) IN
        /\ Aligned(q, {} \cup (IF r.scope = "valued" THEN {"scope"} ELSE {}))
        /\ r.scope = "trashed" => q.live = TRUE
    BY <1>1, <2>1, <2>2, <2>3, ScopeShape
  <2>5. Asked(r) = {} \cup (IF r.scope = "valued" THEN {"scope"} ELSE {})
    <3>1. r.of.wheres = <<>>
      BY <1>1, KindFacts DEF Relation
    <3>2. "type" \notin {r.of.wheres[i] : i \in 1..Len(r.of.wheres)}
      BY <3>1
    <3>. QED
      BY <1>1, <3>2 DEF Asked, Conditions
  <2>. QED
    BY <2>4, <2>5
<1>2. CASE r.of # MorphTo
  <2>. DEFINE start == LoadPivotWheres(r, AddEagerConstraints(Built(r)))
              typed == IF r.of.wheres = <<"self">> THEN {} ELSE {"type"}
              marked == IF r.mark = "and" THEN Plus(start, "mark") ELSE start
              asked == typed \cup (IF r.mark = "and" THEN {"mark"} ELSE {})
  <2>1. start.live = FALSE /\ Aligned(start, typed)
    BY <1>2, StartAligned
  <2>2. Constrain(r, start) = IF r.pivot = "after" THEN Bind(marked, "pivot") ELSE marked
    BY DEF Constrain, If
  <2>3. EagerQuery(r, nested) =
          WherePivots(r, ApplyGlobalScopes(r, Constrain(r, start)), nested)
    BY <1>2 DEF EagerQuery
  <2>. HIDE DEF start, typed
  <2>4. marked.live = FALSE /\ Aligned(marked, asked)
    <3>1. "mark" \in Terms
      BY DEF Terms
    <3>2. Aligned(Plus(start, "mark"), typed \cup {"mark"}) /\ Plus(start, "mark").live = FALSE
      BY <2>1, <3>1, PlusAligned
    <3>. QED
      BY <2>1, <3>2
  <2>5. "type" \in {r.of.wheres[i] : i \in 1..Len(r.of.wheres)} <=> typed = {"type"}
    <3>1. CASE r.of.wheres = <<"self">>
      BY <3>1 DEF typed
    <3>2. CASE r.of.wheres = <<"self", "type">>
      <4>1. Len(r.of.wheres) = 2 /\ r.of.wheres[2] = "type"
        BY <3>2
      <4>. QED
        BY <3>2, <4>1 DEF typed
    <3>. QED
      BY <1>2, <3>1, <3>2, KindFacts DEF Relation
  <2>6. Asked(r) = asked \cup (IF r.pivot # "none" THEN {"pivot"} ELSE {})
                         \cup (IF r.scope = "valued" THEN {"scope"} ELSE {})
    BY <2>5 DEF Asked, Conditions, typed
  <2>. HIDE DEF marked, asked
  <2>7. CASE r.pivot = "none"
    <3>1. EagerQuery(r, nested) = WherePivots(r, ApplyGlobalScopes(r, marked), nested)
      BY <2>2, <2>3, <2>7
    <3>2. Asked(r) = asked \cup (IF r.scope = "valued" THEN {"scope"} ELSE {})
      BY <2>6, <2>7
    <3>3. LET q == WherePivots(r, ApplyGlobalScopes(r, marked), nested) IN
          /\ Aligned(q, asked \cup (IF r.scope = "valued" THEN {"scope"} ELSE {}))
          /\ r.scope = "trashed" => q.live = TRUE
      BY <2>4, <2>7, ScopeShape
    <3>. QED
      BY <3>1, <3>2, <3>3
  <2>8. CASE r.pivot = "after"
    <3>1. r.scope # "valued" /\ Asked(r) = asked \cup {"pivot"}
      BY <2>6, <2>8
    <3>2. EagerQuery(r, nested) =
            WherePivots(r, ApplyGlobalScopes(r, Bind(marked, "pivot")), nested)
      BY <2>2, <2>3, <2>8
    <3>3. LET q == WherePivots(r, ApplyGlobalScopes(r, Bind(marked, "pivot")), nested) IN
          /\ nested = {} => /\ Aligned(q, asked \cup {"pivot"})
                            /\ r.scope = "trashed" => q.live = TRUE
          /\ nested # {} => ~Fits(q)
      BY <2>4, <2>8, <3>1, PivotShape
    <3>. QED
      BY <2>8, <3>1, <3>2, <3>3
  <2>. QED
    BY <2>7, <2>8
<1>. QED
  BY <1>1, <1>2

-----------------------------------------------------------------------------
(* The rows of the fields. *)

\* What a relation of an orderly call is like.
LEMMA OrderlyFacts ==
  ASSUME TypeOK, Orderly, NEW l \in 1..Depth
  PROVE  LET r == At(l) IN
         /\ Mild(r) /\ (r.pivot # "none" => l = Depth)
         /\ l > 1 => r.of.inner
         /\ Demanded(l) = Asked(r)
<1>1. OrderlyAt(request, l)
  BY DEF Orderly
<1>2. At(l) \in Relation
  BY RequestFacts DEF TypeOK, At, Depth
<1>3. At(l).pivot # "none" => At(l).of # MorphTo
  <2>1. At(l).pivot # "none" => At(l).of.held = "pivot"
    <3>1. request \in Requests /\ l \in 1..Len(request.path)
      BY DEF TypeOK, Depth
    <3>2. request.path[l].pivot # "none" => request.path[l].of.held = "pivot"
      BY <3>1, RequestsAssumption
    <3>. QED
      BY <3>2 DEF At
  <2>. QED
    BY <2>1 DEF MorphTo
<1>4. Demanded(l) = Asked(At(l))
  BY DEF Demanded, Asked
<1>. QED
  BY <1>1, <1>2, <1>3, <1>4 DEF OrderlyAt, At, Depth, Mild

\* A row that a query of an orderly call selects is one that is asked for.
LEMMA SelectedRight ==
  ASSUME TypeOK, Orderly, NEW l \in 1..Depth, NEW nested, NEW keys,
         nested = {} \/ Fits(EagerQuery(At(l), nested)),
         NEW x \in Stored(l), Selected(x, keys, EagerQuery(At(l), nested))
  PROVE  /\ x.level = l /\ Demanded(x.level) \subseteq x.meets
         /\ At(x.level).scope = "trashed" => <<x.level, x.row>> \notin trashed
<1>. DEFINE q == EagerQuery(At(l), nested)
<1>1. x.level = l
  BY DEF Stored
<1>2. Aligned(q, Asked(At(l))) /\ (At(l).scope = "trashed" => q.live = TRUE)
  <2>1. Mild(At(l))
    BY OrderlyFacts
  <2>2. LET p == EagerQuery(At(l), nested) IN
        \/ Aligned(p, Asked(At(l))) /\ (At(l).scope = "trashed" => p.live = TRUE)
        \/ At(l).pivot = "after" /\ nested # {} /\ ~Fits(p)
    BY <2>1, QueryShape
  <2>. QED
    BY <2>2
<1>. HIDE DEF q
<1>3. q.or = 0 /\ q.holes = q.bindings
  BY <1>2 DEF Aligned
<1>4. /\ q.live => <<x.level, x.row>> \notin trashed
      /\ \A i \in 1..Len(q.holes) : Holds(x, keys, q, i)
  BY <1>3 DEF Selected, q
<1>5. ASSUME NEW c \in Asked(At(l))
      PROVE  c \in x.meets
  <2>1. PICK i \in 1..Len(q.holes) : q.holes[i] = c
    BY <1>2 DEF Aligned
  <2>2. c # "in"
    BY DEF Asked, Conditions
  <2>. QED
    BY <1>4, <2>1, <2>2 DEF Holds
<1>6. Demanded(l) = Asked(At(l))
  BY OrderlyFacts
<1>. QED
  BY <1>1, <1>2, <1>4, <1>5, <1>6

History == table \subseteq ever /\ read \subseteq ever /\ found \subseteq ever
           /\ buried \subseteq trashed

FoundRight ==
  Orderly => \A x \in found :
    /\ Demanded(x.level) \subseteq x.meets
    /\ At(x.level).scope = "trashed" => <<x.level, x.row>> \notin buried

FieldsFound == \A f \in fields : f.link \in found /\ f.link.parent = f.to

Belonging == TypeOK /\ Working /\ History /\ FoundRight /\ FieldsFound

\* The call at hand, its relations and what they ask for do not change.
LEMMA SameCall ==
  ASSUME request' = request
  PROVE  /\ Orderly' <=> Orderly
         /\ \A l : At(l)' = At(l) /\ Demanded(l)' = Demanded(l)
         /\ Depth' = Depth
BY DEF Orderly, OrderlyAt, At, Demanded, Depth

\* Rows that are found right are added, and the fields stay.
LEMMA MoreFound ==
  ASSUME Belonging, UNCHANGED <<request, store>>, fields' = fields,
         read' \subseteq ever, NEW more, found' = found \cup more,
         more \subseteq Stored(level), level \in 1..Depth,
         Orderly => \A x \in more :
           /\ x.level = level /\ Demanded(x.level) \subseteq x.meets
           /\ At(x.level).scope = "trashed" => <<x.level, x.row>> \notin trashed
  PROVE  History' /\ FoundRight' /\ FieldsFound'
<1>1. /\ table' = table /\ trashed' = trashed /\ ever' = ever /\ buried' = buried
      /\ request' = request
  BY DEF store
<1>2. Stored(level) \subseteq ever
  BY DEF Stored, Belonging, History
<1>3. History'
  BY <1>1, <1>2 DEF Belonging, History
<1>4. FoundRight'
  <2>. SUFFICES ASSUME Orderly', NEW x \in found'
                PROVE  /\ Demanded(x.level)' \subseteq x.meets
                       /\ At(x.level)'.scope = "trashed" => <<x.level, x.row>> \notin buried
    BY <1>1 DEF FoundRight
  <2>1. Orderly /\ At(x.level)' = At(x.level) /\ Demanded(x.level)' = Demanded(x.level)
    BY <1>1, SameCall
  <2>2. CASE x \in found
    BY <2>1, <2>2 DEF Belonging, FoundRight
  <2>3. CASE x \in more
    BY <2>1, <2>3 DEF Belonging, History
  <2>. QED
    BY <2>2, <2>3
<1>5. FieldsFound'
  BY DEF Belonging, FieldsFound
<1>. QED
  BY <1>3, <1>4, <1>5

\* Nothing is found, and no field changes.
LEMMA NothingFound ==
  ASSUME Belonging, request' = request, found' = found, fields' = fields,
         table' \subseteq ever', read' \subseteq ever', ever \subseteq ever',
         buried' = buried, trashed \subseteq trashed'
  PROVE  History' /\ FoundRight' /\ FieldsFound'
<1>1. History'
  BY DEF Belonging, History
<1>2. FoundRight'
  BY SameCall DEF Belonging, FoundRight
<1>3. FieldsFound'
  BY DEF Belonging, FieldsFound
<1>. QED
  BY <1>1, <1>2, <1>3

\* A query of an orderly call, if it runs, finds the right rows.
LEMMA ResultsRight ==
  ASSUME TypeOK, Working, pc = "load", Orderly, NEW nested, NEW keys, NEW more,
         nested = {} \/ Fits(EagerQuery(At(level), nested)),
         more \subseteq {x \in Stored(level) : Selected(x, keys, EagerQuery(At(level), nested))}
  PROVE  \A x \in more :
           /\ x.level = level /\ Demanded(x.level) \subseteq x.meets
           /\ At(x.level).scope = "trashed" => <<x.level, x.row>> \notin trashed
<1>1. level \in 1..Depth
  BY DEF Working
<1>. QED
  BY <1>1, SelectedRight

\* Every step of the call, and every write, keeps what is said of the rows.
LEMMA BelongingStep == Belonging /\ [Next]_vars => Belonging'
<1>. SUFFICES ASSUME Belonging, [Next]_vars PROVE Belonging'
  OBVIOUS
<1>0. TypeOK /\ Working /\ History /\ TypeOK' /\ Working'
  BY EagerLoadTypeStep DEF Belonging
<1>. SUFFICES History' /\ FoundRight' /\ FieldsFound'
  BY <1>0 DEF Belonging
<1>1. CASE UNCHANGED vars
  BY <1>0, <1>1, NothingFound DEF vars, store, loading, History
<1>2. ASSUME UNCHANGED <<request, store>>
      PROVE  /\ request' = request /\ table' = table /\ ever' = ever /\ buried' = buried
             /\ trashed' = trashed
  BY <1>2 DEF store
<1>3. CASE UNCHANGED <<request, store>> /\ found' = found /\ fields' = fields /\ read' = read
  BY <1>0, <1>2, <1>3, NothingFound DEF History
<1>4. CASE Get /\ UNCHANGED <<request, store>>
  <2>1. CASE read' = read
    BY <1>3, <1>4, <2>1 DEF Get, Panic, Fail
  <2>2. CASE read' # read
    <3>1. read' = ReadWith(1, parents') /\ found' = found /\ fields' = fields
      BY <1>4, <2>2 DEF Get, Panic, Fail
    <3>2. read' \subseteq ever
      BY <1>0, <3>1 DEF ReadWith, History
    <3>. QED
      BY <1>0, <1>2, <1>4, <3>1, <3>2, NothingFound DEF History
  <2>. QED
    BY <2>1, <2>2
<1>5. CASE Load /\ UNCHANGED <<request, store>>
  <2>. DEFINE q == EagerQuery(At(level), Below)
              models(keys) == {x.row : x \in Results(keys, q)}
  <2>1. CASE Panic("column") \/ Panic("values") \/ Panic("database")
    BY <1>3, <1>5, <2>1 DEF Panic
  <2>2. CASE ~(Panic("column") \/ Panic("values") \/ Panic("database"))
    <3>1. PICK keys \in Keys :
            /\ Fits(q) /\ pc = "load"
            /\ found' = found \cup Results(keys, q)
            /\ read' = read \cup ReadWith(level + 1, models(keys))
            /\ UNCHANGED <<why, parents, fields, counted>>
      BY <1>5, <2>2 DEF Load, GetEager
    <3>2. Results(keys, q) = {x \in Stored(level) : Selected(x, keys, q)}
      BY DEF Results
    <3>3. Orderly => \A x \in Results(keys, q) :
            /\ x.level = level /\ Demanded(x.level) \subseteq x.meets
            /\ At(x.level).scope = "trashed" => <<x.level, x.row>> \notin trashed
      BY <1>0, <3>1, <3>2, ResultsRight
    <3>4. read' \subseteq ever
      BY <1>0, <3>1 DEF ReadWith, History
    <3>5. level \in 1..Depth /\ Results(keys, q) \subseteq Stored(level)
      BY <1>0, <3>1, <3>2 DEF Working
    <3>. QED
      BY <1>5, <3>1, <3>3, <3>4, <3>5, MoreFound
  <2>. QED
    BY <2>1, <2>2
<1>6. CASE LoadMorphTo /\ UNCHANGED <<request, store>>
  <2>1. CASE Panic("type") \/ Panic("database")
    BY <1>3, <1>6, <2>1 DEF Panic
  <2>2. CASE ~(Panic("type") \/ Panic("database"))
    <3>1. PICK g \in groups :
            /\ found' = found \cup {x \in {y \in Stored(level) : TypeOf(y.parent, {y}) = g} :
                                      Selected(x, Holders(level), EagerQuery(At(level), {}))}
            /\ UNCHANGED <<why, level, eager, parents, read, fields, counted>>
      BY <1>6, <2>2 DEF LoadMorphTo
    <3>. DEFINE more == {x \in {y \in Stored(level) : TypeOf(y.parent, {y}) = g} :
                           Selected(x, Holders(level), EagerQuery(At(level), {}))}
    <3>2. more \subseteq {x \in Stored(level) :
                            Selected(x, Holders(level), EagerQuery(At(level), {}))}
      OBVIOUS
    <3>3. found' = found \cup more
      BY <3>1
    <3>4. pc = "load" /\ level \in 1..Depth /\ more \subseteq Stored(level)
      BY <1>0, <1>6 DEF LoadMorphTo, Working
    <3>. HIDE DEF more
    <3>5. Orderly => \A x \in more :
            /\ x.level = level /\ Demanded(x.level) \subseteq x.meets
            /\ At(x.level).scope = "trashed" => <<x.level, x.row>> \notin trashed
      BY <1>0, <3>2, <3>4, ResultsRight
    <3>6. read' \subseteq ever
      BY <1>0, <3>1 DEF History
    <3>. QED
      BY <1>6, <3>1, <3>3, <3>4, <3>5, <3>6, MoreFound
  <2>. QED
    BY <2>1, <2>2
<1>7. CASE Match /\ UNCHANGED <<request, store>>
  <2>1. CASE Panic("models")
    BY <1>3, <1>7, <2>1 DEF Panic
  <2>2. CASE ~Panic("models")
    <3>1. PICK set \in SUBSET Matches(level) : fields' = fields \cup set
      BY <1>7, <2>2 DEF Match
    <3>2. found' = found /\ read' = read
      BY <1>7, <2>2 DEF Match
    <3>3. \A m \in set : m.link \in found /\ m.link.parent = m.to
      BY <3>1 DEF Matches
    <3>4. FieldsFound'
      BY <3>1, <3>2, <3>3 DEF FieldsFound, Belonging
    <3>5. History'
      BY <1>0, <1>2, <1>7, <3>2 DEF History
    <3>6. FoundRight'
      BY <1>2, <1>7, <3>2, SameCall DEF Belonging, FoundRight
    <3>. QED
      BY <3>4, <3>5, <3>6
  <2>. QED
    BY <2>1, <2>2
<1>8. CASE Attach \/ Detach \/ Trash \/ Remove
  <2>1. UNCHANGED <<request, loading>>
    BY <1>8 DEF Attach, Detach, Trash, Remove, Wrote
  <2>2. found' = found /\ fields' = fields /\ read' = read /\ request' = request
    BY <2>1 DEF loading
  <2>3. /\ table' \subseteq ever' /\ ever \subseteq ever' /\ buried' = buried
        /\ trashed \subseteq trashed'
    BY <1>0, <1>8 DEF Attach, Detach, Trash, Remove, History
  <2>. QED
    BY <1>0, <2>2, <2>3, NothingFound DEF History
<1>. QED
  BY <1>1, <1>4, <1>5, <1>6, <1>7, <1>8 DEF Next, Call

\* Nothing is found in the beginning.
LEMMA BelongingInit == Init => Belonging
BY InitTypes DEF Init, Belonging, History, FoundRight, FieldsFound

\* The inductive invariant of the rows in the fields: what is found was there,
\* is what is asked for, and only what is found for a model is in its fields.
THEOREM EagerLoadBelonging == Spec => []Belonging
BY BelongingInit, BelongingStep, PTL DEF Spec

\* OwnRows: relation fields of orderly calls hold rows of their own models only.
THEOREM EagerLoadOwnRows == Spec => []OwnRows
<1>1. Belonging => OwnRows
  BY DEF Belonging, History, FoundRight, FieldsFound, OwnRows
<1>. QED
  BY <1>1, EagerLoadBelonging, PTL

\* NeverTrashed: what was deleted softly before an orderly call is in no field.
THEOREM EagerLoadNeverTrashed == Spec => []NeverTrashed
<1>1. Belonging => NeverTrashed
  BY DEF Belonging, FoundRight, FieldsFound, NeverTrashed
<1>. QED
  BY <1>1, EagerLoadBelonging, PTL

-----------------------------------------------------------------------------
(* How a call ends. *)

KindNames == {k.kind : k \in Kinds}

\* Paths of names, none with more than n.
Short(paths, n) == \A names \in paths : names \in Seq(KindNames) /\ Len(names) <= n

\* What a level's own relations are loaded from goes no deeper than the path.
Shallow == pc = "load" => Short(eager, Depth - level + 1)

\* The paths that With registers.
LEMMA WithShort ==
  ASSUME request \in Requests
  PROVE  Short(With(Names(request.path)), Depth)
<1>. DEFINE names == Names(request.path)
<1>1. Depth \in Nat /\ Depth = Len(request.path)
  BY DepthFacts DEF Depth
<1>2. names \in Seq(KindNames) /\ Len(names) = Depth
  <2>1. \A i \in 1..Depth : request.path[i].of.kind \in KindNames
    BY <1>1, RequestFacts DEF Relation, KindNames
  <2>2. names = [i \in 1..Depth |-> request.path[i].of.kind]
    BY <1>1 DEF Names
  <2>. QED
    BY <1>1, <2>1, <2>2
<1>. HIDE DEF names
<1>3. ASSUME NEW i \in 1..Depth
      PROVE  SubSeq(names, 1, i) \in Seq(KindNames) /\ Len(SubSeq(names, 1, i)) <= Depth
  BY <1>1, <1>2
<1>4. \A p \in With(names) : \E i \in 1..Depth : p = SubSeq(names, 1, i)
  BY <1>2 DEF With
<1>. QED
  BY <1>3, <1>4 DEF Short, names

\* A path seen from its first relation is shorter.
LEMMA InnerShort ==
  ASSUME NEW names \in Seq(KindNames), Len(names) > 1
  PROVE  Inner(names) \in Seq(KindNames) /\ Len(Inner(names)) <= Len(names) - 1
<1>1. /\ Tail(names) \in Seq(KindNames) /\ Len(Tail(names)) = Len(names) - 1
      /\ names[Len(names)] \in KindNames /\ Len(names) \in Nat
  OBVIOUS
<1>2. /\ <<names[Len(names)]>> \in Seq(KindNames) /\ Len(<<names[Len(names)]>>) = 1
  BY <1>1
<1>3. Inner(names) = Tail(names) \/ Inner(names) = <<names[Len(names)]>>
  BY DEF Inner
<1>4. CASE Inner(names) = Tail(names)
  BY <1>1, <1>4
<1>5. CASE Inner(names) = <<names[Len(names)]>>
  BY <1>1, <1>2, <1>5
<1>. QED
  BY <1>3, <1>4, <1>5

\* What is loaded below a level goes less deep, and below the last there is nothing.
LEMMA BelowShort ==
  ASSUME NEW n \in Nat, n >= 1, Short(eager, n)
  PROVE  Short(Below, n - 1) /\ (n = 1 => Below = {})
<1>1. ASSUME NEW p \in Below
      PROVE  \E names \in eager : Len(names) > 1 /\ p = Inner(names)
  BY DEF Below, Nested
<1>2. ASSUME NEW p \in Below
      PROVE  p \in Seq(KindNames) /\ Len(p) <= n - 1 /\ n # 1
  <2>1. PICK names \in eager : Len(names) > 1 /\ p = Inner(names)
    BY <1>1
  <2>2. names \in Seq(KindNames) /\ Len(names) <= n
    BY DEF Short
  <2>3. p \in Seq(KindNames) /\ Len(p) <= Len(names) - 1
    BY <2>1, <2>2, InnerShort
  <2>4. Len(names) \in Nat /\ Len(p) \in Nat
    BY <2>2, <2>3
  <2>. QED
    BY <2>1, <2>2, <2>3, <2>4
<1>. QED
  BY <1>2 DEF Short

\* A call keeps to the depth of its path.
LEMMA ShallowStep ==
  ASSUME TypeOK, Working, Shallow, [Next]_vars
  PROVE  Shallow'
<1>1. Depth \in Nat
  BY DepthFacts DEF TypeOK
<1>2. CASE UNCHANGED <<request, loading>>
  BY <1>2 DEF loading, Shallow, Short, Depth
<1>3. CASE Call
  <2>1. request' = request /\ Depth' = Depth
    BY <1>3 DEF Call, Depth
  <2>. SUFFICES ASSUME pc' = "load" PROVE Short(eager', Depth - level' + 1)
    BY <2>1 DEF Shallow, Short
  <2>2. CASE Get
    <3>1. Descend(1, parents', With(Names(request.path)), read')
      BY <2>2 DEF Get, Fail, Panic
    <3>2. eager' = With(Names(request.path)) /\ level' = 1
      BY <3>1 DEF Descend
    <3>3. Depth - level' + 1 = Depth
      BY <1>1, <3>2
    <3>. QED
      BY <3>2, <3>3, WithShort DEF TypeOK
  <2>3. CASE Load
    <3>1. PICK models : Descend(level + 1, models, Below, ReadWith(level + 1, models))
      BY <2>3 DEF Load, GetEager, Panic
    <3>2. eager' = Below /\ level' = level + 1
      BY <3>1 DEF Descend
    <3>3. pc = "load" /\ level \in 1..Depth /\ Short(eager, Depth - level + 1)
      BY <2>3 DEF Load, Working, Shallow
    <3>4. Depth - level + 1 \in Nat /\ Depth - level + 1 >= 1
      BY <1>1, <3>3
    <3>5. Short(Below, (Depth - level + 1) - 1)
      BY <3>3, <3>4, BelowShort
    <3>6. (Depth - level + 1) - 1 = Depth - level' + 1
      BY <1>1, <3>2, <3>3
    <3>. QED
      BY <3>2, <3>5, <3>6
  <2>4. CASE LoadMorphTo
    BY <2>4 DEF LoadMorphTo, Panic, Shallow
  <2>5. CASE Match
    BY <2>5 DEF Match, Panic
  <2>. QED
    BY <1>3, <2>2, <2>3, <2>4, <2>5 DEF Call
<1>4. CASE UNCHANGED vars
  BY <1>2, <1>4 DEF vars
<1>5. CASE Attach \/ Detach \/ Trash \/ Remove
  BY <1>2, <1>5 DEF Attach, Detach, Trash, Remove, Wrote
<1>. QED
  BY <1>3, <1>4, <1>5 DEF Next

\* Panics of the first query.
LEMMA GetSucceeds ==
  ASSUME TypeOK, Orderly, Get, pc' = "panicked"
  PROVE  FALSE
<1>1. request.counts /\ At(1).of.count = "panics"
  BY DEF Get, Fail, Panic, Descend
<1>2. 1 \in 1..Depth
  <2>1. Depth \in Nat /\ Depth >= 1
    BY DepthFacts DEF TypeOK
  <2>. QED
    BY <2>1
<1>3. At(1).of \in Kinds
  BY <1>2, OrderlyFacts DEF Mild, Relation
<1>4. At(1).of = MorphTo
  BY <1>1, <1>3, KindFacts
<1>. QED
  BY <1>1, <1>4 DEF Orderly

\* Panics of a relation's query.
LEMMA LoadSucceeds ==
  ASSUME TypeOK, Working, Shallow, Orderly, Load, pc' = "panicked"
  PROVE  why' = "database"
<1>1. pc = "load" /\ level \in 1..Depth /\ Depth \in Nat
  BY DepthFacts DEF Load, Working, TypeOK
<1>2. ~Odd("absent")
  BY <1>1 DEF Orderly, OrderlyAt, Odd, At
<1>3. Fits(EagerQuery(At(level), Below))
  <2>. SUFFICES ASSUME ~Fits(EagerQuery(At(level), Below)) PROVE FALSE
    OBVIOUS
  <2>1. Mild(At(level)) /\ (At(level).pivot # "none" => level = Depth)
    BY <1>1, OrderlyFacts
  <2>2. LET q == EagerQuery(At(level), Below) IN
        \/ Aligned(q, Asked(At(level))) /\ (At(level).scope = "trashed" => q.live = TRUE)
        \/ At(level).pivot = "after" /\ Below # {} /\ ~Fits(q)
    BY <2>1, QueryShape
  <2>3. At(level).pivot = "after" /\ Below # {}
    BY <2>2 DEF Aligned, Fits
  <2>4. level = Depth /\ Short(eager, Depth - level + 1)
    BY <1>1, <2>1, <2>3 DEF Shallow
  <2>5. Depth - level + 1 = 1
    BY <1>1, <2>4
  <2>. QED
    BY <2>3, <2>4, <2>5, BelowShort
<1>. QED
  BY <1>2, <1>3 DEF Load, GetEager, Descend, Panic

\* Panics of a distribution.
LEMMA MatchSucceeds ==
  ASSUME TypeOK, Working, Orderly, Match, pc' = "panicked"
  PROVE  FALSE
<1>1. level \in 1..Depth /\ Unmatchable(level, Matches(level))
  BY DEF Match, Panic, Working
<1>2. level > 1 => At(level).of.inner
  BY <1>1, OrderlyFacts
<1>. QED
  BY <1>1, <1>2 DEF Unmatchable, Orderly

\* OrderlySucceeds: an orderly call panics because of the database, or of a type.
THEOREM EagerLoadOrderlySucceeds == Spec => []OrderlySucceeds
<1>. DEFINE Inv == TypeOK /\ Working /\ Shallow /\ OrderlySucceeds
<1>1. Init => Inv
  BY InitTypes DEF Init, Shallow, OrderlySucceeds
<1>2. Inv /\ [Next]_vars => Inv'
  <2>. SUFFICES ASSUME Inv, [Next]_vars PROVE OrderlySucceeds'
    BY EagerLoadTypeStep, ShallowStep
  <2>1. CASE UNCHANGED <<request, loading>>
    BY <2>1, SameCall DEF loading, OrderlySucceeds
  <2>2. CASE Call
    <3>1. request' = request
      BY <2>2 DEF Call
    <3>. SUFFICES ASSUME pc' = "panicked", Orderly
                  PROVE  why' = "database" \/ (why' = "type" /\ At(level').of = MorphTo)
      BY <3>1, SameCall DEF OrderlySucceeds, At
    <3>2. CASE Get
      BY <3>2, GetSucceeds
    <3>3. CASE Load
      BY <3>3, LoadSucceeds
    <3>4. CASE LoadMorphTo
      BY <3>4 DEF LoadMorphTo, Panic
    <3>5. CASE Match
      BY <3>5, MatchSucceeds
    <3>. QED
      BY <2>2, <3>2, <3>3, <3>4, <3>5 DEF Call
  <2>3. CASE Attach \/ Detach \/ Trash \/ Remove
    BY <2>1, <2>3 DEF Attach, Detach, Trash, Remove, Wrote
  <2>4. CASE UNCHANGED vars
    BY <2>1, <2>4 DEF vars
  <2>. QED
    BY <2>2, <2>3, <2>4 DEF Next
<1>3. Inv => OrderlySucceeds
  OBVIOUS
<1>. QED
  BY <1>1, <1>2, <1>3, PTL DEF Spec

-----------------------------------------------------------------------------
(* The paths of an orderly call. *)

\* A relation is known by its name.
LEMMA KindsDiffer ==
  ASSUME NEW j \in Kinds, NEW k \in Kinds, j.kind = k.kind
  PROVE  j = k
<1>1. /\ HasOne.kind = "HasOne" /\ HasMany.kind = "HasMany" /\ BelongsTo.kind = "BelongsTo"
      /\ MorphOne.kind = "MorphOne" /\ MorphMany.kind = "MorphMany"
      /\ MorphTo.kind = "MorphTo" /\ BelongsToMany.kind = "BelongsToMany"
      /\ MorphToMany.kind = "MorphToMany" /\ MorphByMany.kind = "MorphByMany"
  BY DEF HasOne, HasMany, BelongsTo, MorphOne, MorphMany, MorphTo, BelongsToMany,
         MorphToMany, MorphByMany
<1>. QED
  BY <1>1 DEF Kinds

\* The path from the relation of level l to that of level j.
Between(l, j) == [i \in 1..(j - l + 1) |-> At(l + i - 1).of.kind]

\* The paths on to every level are among those that relations are loaded from.
PathsThere ==
  pc = "load" /\ Orderly => \A j \in level..Depth : Between(level, j) \in eager

\* A sequence without its first element.
LEMMA TailFacts ==
  ASSUME NEW S, NEW s \in Seq(S), Len(s) >= 1
  PROVE  Tail(s) = [i \in 1..(Len(s) - 1) |-> s[i + 1]]
<1>1. Tail(s) \in Seq(S) /\ Len(Tail(s)) = Len(s) - 1
  OBVIOUS
<1>2. \A i \in 1..(Len(s) - 1) : Tail(s)[i] = s[i + 1]
  OBVIOUS
<1>3. Tail(s) = [i \in 1..Len(Tail(s)) |-> Tail(s)[i]]
  <2>. DEFINE t == Tail(s)
  <2>1. t \in Seq(S)
    BY <1>1
  <2>. HIDE DEF t
  <2>2. t \in [1..Len(t) -> S]
    BY <2>1
  <2>3. t = [i \in 1..Len(t) |-> t[i]]
    BY <2>2
  <2>. QED
    BY <2>3 DEF t
<1>. QED
  BY <1>1, <1>2, <1>3

\* The names along a path.
LEMMA BetweenFacts ==
  ASSUME TypeOK, NEW l \in 1..Depth, NEW j \in l..Depth
  PROVE  /\ Between(l, j) \in Seq(KindNames) /\ Len(Between(l, j)) = j - l + 1
         /\ \A i \in 1..(j - l + 1) : /\ l + i - 1 \in 1..Depth
                                      /\ At(l + i - 1).of \in Kinds
                                      /\ Between(l, j)[i] = At(l + i - 1).of.kind
         /\ Between(l, j)[1] = At(l).of.kind
         /\ j = l => Between(l, j) = <<At(l).of.kind>>
         /\ j > l => Tail(Between(l, j)) = Between(l + 1, j)
<1>. DEFINE n == j - l + 1
<1>0. Depth \in Nat
  BY DepthFacts DEF TypeOK
<1>1. Depth \in Nat /\ n \in Nat /\ n >= 1 /\ l \in Nat /\ j \in Nat
  BY <1>0
<1>2. ASSUME NEW i \in 1..n
      PROVE  /\ l + i - 1 \in 1..Depth /\ At(l + i - 1).of \in Kinds
             /\ At(l + i - 1).of.kind \in KindNames
  <2>1. l + i - 1 \in 1..Depth
    BY <1>1
  <2>2. At(l + i - 1) \in Relation
    BY <2>1, RequestFacts DEF TypeOK, At, Depth
  <2>. QED
    BY <2>1, <2>2 DEF Relation, KindNames
<1>3. Between(l, j) \in [1..n -> KindNames]
  BY <1>2 DEF Between
<1>4. Between(l, j) \in Seq(KindNames) /\ Len(Between(l, j)) = n
  BY <1>1, <1>3
<1>5. \A i \in 1..n : Between(l, j)[i] = At(l + i - 1).of.kind
  BY DEF Between
<1>6. Between(l, j)[1] = At(l).of.kind
  <2>1. l + 1 - 1 = l /\ 1 \in 1..n
    BY <1>1
  <2>. QED
    BY <1>5, <2>1
<1>7. ASSUME j = l
      PROVE  Between(l, j) = <<At(l).of.kind>>
  <2>1. n = 1
    BY <1>7
  <2>2. Len(Between(l, j)) = 1
    BY <1>4, <2>1
  <2>. QED
    BY <1>4, <1>6, <2>2
<1>8. ASSUME j > l
      PROVE  Tail(Between(l, j)) = Between(l + 1, j)
  <2>1. Tail(Between(l, j)) = [i \in 1..(n - 1) |-> Between(l, j)[i + 1]]
    BY <1>1, <1>4, TailFacts
  <2>2. n - 1 = j - (l + 1) + 1
    OBVIOUS
  <2>3. ASSUME NEW i \in 1..(n - 1)
        PROVE  Between(l, j)[i + 1] = At(l + 1 + i - 1).of.kind
    <3>1. i + 1 \in 1..n /\ l + (i + 1) - 1 = l + 1 + i - 1
      BY <1>1
    <3>. QED
      BY <1>5, <3>1
  <2>4. Between(l + 1, j) = [i \in 1..(n - 1) |-> At(l + 1 + i - 1).of.kind]
    BY <2>2 DEF Between
  <2>. QED
    BY <2>1, <2>3, <2>4
<1>. QED
  BY <1>2, <1>4, <1>5, <1>6, <1>7, <1>8

\* With registers the path to every level.
LEMMA WithThere ==
  ASSUME TypeOK, NEW j \in 1..Depth
  PROVE  Between(1, j) \in With(Names(request.path))
<1>. DEFINE names == Names(request.path)
<1>1. Depth \in Nat /\ Depth = Len(request.path)
  BY DepthFacts DEF Depth, TypeOK
<1>2. names = [i \in 1..Depth |-> At(i).of.kind]
  BY <1>1 DEF Names, At
<1>3. SubSeq(names, 1, j) = [i \in 1..(j - 1 + 1) |-> names[1 + i - 1]]
  OBVIOUS
<1>4. \A i \in 1..(j - 1 + 1) : names[1 + i - 1] = At(1 + i - 1).of.kind
  BY <1>1, <1>2
<1>5. SubSeq(names, 1, j) = Between(1, j)
  <2>. HIDE DEF names
  <2>. QED
    BY <1>3, <1>4 DEF Between
<1>6. Len(names) = Depth
  BY <1>1 DEF Names
<1>. QED
  BY <1>5, <1>6 DEF With

\* From the relation at hand the paths go on to all the levels below: in an orderly
\* call no name comes again, and Inner takes the first one off.
LEMMA BelowThere ==
  ASSUME TypeOK, Working, PathsThere, Orderly, pc = "load",
         NEW j \in (level + 1)..Depth
  PROVE  Between(level + 1, j) \in Below
<1>. DEFINE path == Between(level, j)
<1>0. Depth \in Nat /\ level \in 1..Depth
  BY DepthFacts DEF TypeOK, Working
<1>1. Depth \in Nat /\ level \in 1..Depth /\ j \in level..Depth /\ j > level
  BY <1>0
<1>2. path \in eager
  BY <1>1 DEF PathsThere
<1>3. /\ path \in Seq(KindNames) /\ Len(path) = j - level + 1
      /\ \A i \in 1..(j - level + 1) : /\ level + i - 1 \in 1..Depth
                                       /\ At(level + i - 1).of \in Kinds
                                       /\ path[i] = At(level + i - 1).of.kind
      /\ path[1] = At(level).of.kind
      /\ Tail(path) = Between(level + 1, j)
  BY <1>1, BetweenFacts
<1>. HIDE DEF path
<1>4. ~\E i \in 2..(Len(path) - 1) : path[i] = path[1]
  <2>. SUFFICES ASSUME NEW i \in 2..(Len(path) - 1), path[i] = path[1] PROVE FALSE
    OBVIOUS
  <2>1. i \in 1..(j - level + 1) /\ 1 \in 1..(j - level + 1) /\ Depth > 2
    BY <1>1, <1>3
  <2>2. At(level + i - 1).of.kind = At(level).of.kind /\ level + 1 - 1 = level
    BY <1>1, <1>3, <2>1
  <2>3. /\ level + i - 1 \in 1..Depth /\ At(level + i - 1).of \in Kinds
        /\ At(level).of \in Kinds
    BY <1>3, <2>1, <2>2
  <2>4. At(level + i - 1).of = At(level).of
    BY <2>2, <2>3, KindsDiffer
  <2>5. level + i - 1 = level
    BY <1>1, <2>1, <2>3, <2>4 DEF Orderly
  <2>. QED
    BY <1>1, <2>5
<1>5. Inner(path) = Between(level + 1, j)
  BY <1>3, <1>4 DEF Inner
<1>6. Len(path) > 1
  BY <1>1, <1>3
<1>. QED
  BY <1>2, <1>3, <1>5, <1>6 DEF Below, Nested

\* The relation of a level is gone through when the path to it is there.
LEMMA WantedThere ==
  ASSUME TypeOK, NEW l \in 1..Depth, NEW paths, Between(l, l) \in paths
  PROVE  Wanted(l, paths)
<1>0. Depth \in Nat
  BY DepthFacts DEF TypeOK
<1>1. l \in l..Depth /\ l <= Depth
  BY <1>0
<1>2. Between(l, l) = <<At(l).of.kind>>
  BY <1>1, BetweenFacts
<1>. QED
  BY <1>1, <1>2 DEF Wanted

\* A call keeps its paths.
LEMMA PathsStep ==
  ASSUME TypeOK, Working, PathsThere, [Next]_vars
  PROVE  PathsThere'
<1>1. Depth \in Nat
  BY DepthFacts DEF TypeOK
<1>2. CASE UNCHANGED <<request, loading>>
  BY <1>2, SameCall DEF loading, PathsThere, Between
<1>3. CASE Call
  <2>1. request' = request
    BY <1>3 DEF Call
  <2>2. /\ Orderly' <=> Orderly
        /\ Depth' = Depth
        /\ \A l, j : Between(l, j)' = Between(l, j)
    BY <2>1, SameCall DEF Between
  <2>. SUFFICES ASSUME pc' = "load", Orderly, NEW j \in level'..Depth
                PROVE  Between(level', j) \in eager'
    BY <2>1, <2>2 DEF PathsThere, Between, At
  <2>3. CASE Get
    <3>1. Descend(1, parents', With(Names(request.path)), read')
      BY <2>3 DEF Get, Fail, Panic
    <3>2. eager' = With(Names(request.path)) /\ level' = 1
      BY <3>1 DEF Descend
    <3>. QED
      BY <3>2, WithThere
  <2>4. CASE Load
    <3>1. PICK models : Descend(level + 1, models, Below, ReadWith(level + 1, models))
      BY <2>4 DEF Load, GetEager, Panic
    <3>2. eager' = Below /\ level' = level + 1 /\ pc = "load"
      BY <2>4, <3>1 DEF Descend, Load
    <3>. QED
      BY <3>2, BelowThere
  <2>5. CASE LoadMorphTo
    BY <2>5 DEF LoadMorphTo, Panic, PathsThere
  <2>6. CASE Match
    BY <2>6 DEF Match, Panic
  <2>. QED
    BY <1>3, <2>3, <2>4, <2>5, <2>6 DEF Call
<1>4. CASE UNCHANGED vars
  BY <1>2, <1>4 DEF vars
<1>5. CASE Attach \/ Detach \/ Trash \/ Remove
  BY <1>2, <1>5 DEF Attach, Detach, Trash, Remove, Wrote
<1>. QED
  BY <1>3, <1>4, <1>5 DEF Next

-----------------------------------------------------------------------------
(* What is there all along. *)

\* The links are those the request considers, and can be in the tables at once; those
\* that were there all along still are, and lead to live rows.
Stocked ==
  /\ table \subseteq LinksOf(request) /\ Storable(request, table)
  /\ kept \subseteq table /\ \A x \in kept : Live(x)

\* Links, and fewer of them.
LEMMA StorableLess ==
  ASSUME NEW r, NEW xs, NEW ys \in SUBSET xs, Storable(r, xs)
  PROVE  Storable(r, ys)
BY DEF Storable

\* Links that are considered belong to a level of the path.
LEMMA LinkLevels ==
  ASSUME NEW r, NEW x \in LinksOf(r)
  PROVE  x.level \in 1..Len(r.path)
BY DEF LinksOf

LEMMA StockedInit == Init => Stocked
<1>. SUFFICES ASSUME Init PROVE Stocked
  OBVIOUS
<1>1. table \subseteq LinksOf(request)
  BY DEF Init
<1>. QED
  BY <1>1 DEF Init, Stocked, Live

LEMMA StockedStep ==
  ASSUME Stocked, [Next]_vars
  PROVE  Stocked'
<1>1. CASE UNCHANGED <<request, store>>
  BY <1>1 DEF store, Stocked, Live
<1>2. CASE Call \/ UNCHANGED vars
  BY <1>1, <1>2 DEF Call, vars
<1>3. CASE Attach
  <2>1. PICK x \in LinksOf(request) \ table :
          /\ Storable(request, table \cup {x}) /\ table' = table \cup {x}
          /\ UNCHANGED <<trashed, gone, kept>> /\ request' = request
    BY <1>3 DEF Attach, Wrote
  <2>. QED
    BY <2>1 DEF Stocked, Live
<1>4. CASE Detach
  <2>1. PICK x \in table : /\ table' = table \ {x} /\ kept' = kept \ {x}
                           /\ UNCHANGED <<trashed, gone>> /\ request' = request
    BY <1>4 DEF Detach, Wrote
  <2>2. Storable(request, table \ {x})
    BY StorableLess DEF Stocked
  <2>. QED
    BY <2>1, <2>2 DEF Stocked, Live
<1>5. CASE Trash
  <2>1. PICK x \in table : /\ trashed' = trashed \cup {<<x.level, x.row>>}
                           /\ kept' = {y \in kept : <<y.level, y.row>> # <<x.level, x.row>>}
                           /\ UNCHANGED <<table, gone>> /\ request' = request
    BY <1>5 DEF Trash, Wrote
  <2>. QED
    BY <2>1 DEF Stocked, Live
<1>6. CASE Remove
  <2>1. PICK x \in table : /\ gone' = gone \cup {<<x.level, x.row>>}
                           /\ kept' = {y \in kept : <<y.level, y.row>> # <<x.level, x.row>>}
                           /\ UNCHANGED <<table, trashed>> /\ request' = request
    BY <1>6 DEF Remove, Wrote
  <2>. QED
    BY <2>1 DEF Stocked, Live
<1>. QED
  BY <1>2, <1>3, <1>4, <1>5, <1>6 DEF Next

\* A link that was there all along, and its level.
LEMMA KeptFacts ==
  ASSUME TypeOK, Stocked, NEW x \in kept
  PROVE  x \in table /\ x \in Link /\ x.level \in 1..Depth /\ Live(x)
<1>1. x \in table /\ x \in LinksOf(request) /\ Live(x)
  BY DEF Stocked
<1>2. x.level \in 1..Depth
  BY <1>1, LinkLevels DEF Depth
<1>. QED
  BY <1>1, <1>2 DEF TypeOK

\* The converse of SelectedRight: a query of an orderly call selects the rows of its
\* models that are what is asked for.
LEMMA SelectedAll ==
  ASSUME TypeOK, Orderly, NEW l \in 1..Depth, NEW nested, NEW keys,
         nested = {} \/ Fits(EagerQuery(At(l), nested)),
         NEW x, x.parent \in keys, Demanded(l) \subseteq x.meets,
         <<x.level, x.row>> \notin trashed
  PROVE  Selected(x, keys, EagerQuery(At(l), nested))
<1>. DEFINE q == EagerQuery(At(l), nested)
<1>1. Aligned(q, Asked(At(l)))
  <2>1. Mild(At(l))
    BY OrderlyFacts
  <2>2. LET p == EagerQuery(At(l), nested) IN
        \/ Aligned(p, Asked(At(l))) /\ (At(l).scope = "trashed" => p.live = TRUE)
        \/ At(l).pivot = "after" /\ nested # {} /\ ~Fits(p)
    BY <2>1, QueryShape
  <2>. QED
    BY <2>2
<1>2. Asked(At(l)) \subseteq x.meets
  BY OrderlyFacts
<1>. HIDE DEF q
<1>3. /\ q.or = 0 /\ q.holes = q.bindings
      /\ \A i \in 1..Len(q.holes) : q.holes[i] \in Asked(At(l)) \cup {"in"}
  BY <1>1 DEF Aligned
<1>4. \A i \in 1..Len(q.holes) : Holds(x, keys, q, i)
  BY <1>2, <1>3 DEF Holds
<1>. QED
  BY <1>3, <1>4 DEF Selected, q

\* A link that was there all along is read with the model it is in, and tells the type
\* it belongs to: no other link of that relation is in the model.
LEMMA OneType ==
  ASSUME TypeOK, Stocked, NEW x \in kept, At(x.level).of.held = "self",
         NEW models, x.parent \in models
  PROVE  /\ x \in ReadWith(x.level, models)
         /\ TypeOf(x.parent, ReadWith(x.level, models)) = TypeOf(x.parent, {x})
<1>. DEFINE links == ReadWith(x.level, models)
<1>1. x \in table /\ x.level \in 1..Depth /\ x.level <= Depth
  <2>1. x \in table /\ x.level \in 1..Depth /\ Depth \in Nat
    BY KeptFacts, DepthFacts DEF TypeOK
  <2>. QED
    BY <2>1
<1>2. links = {y \in table : y.level = x.level /\ y.parent \in models}
  BY <1>1 DEF ReadWith
<1>3. x \in links
  BY <1>1, <1>2
<1>4. ASSUME NEW y \in links, y.parent = x.parent
      PROVE  y = x
  BY <1>1, <1>2, <1>4 DEF Stocked, Storable, At
<1>. HIDE DEF links
<1>5. \A s : (\E y \in links : y.parent = x.parent /\ s \in y.meets)
               <=> (\E y \in {x} : y.parent = x.parent /\ s \in y.meets)
  BY <1>3, <1>4
<1>6. (\E y \in links : y.parent = x.parent /\ "type" \notin y.meets)
        <=> (\E y \in {x} : y.parent = x.parent /\ "type" \notin y.meets)
  BY <1>3, <1>4
<1>7. TypeOf(x.parent, links) = TypeOf(x.parent, {x})
  BY <1>5, <1>6 DEF TypeOf
<1>. QED
  BY <1>3, <1>7 DEF links

-----------------------------------------------------------------------------
(* What is loaded and filled in. *)

\* A link that is asked for and whose model was loaded.
Due(x) == x.parent \in Holders(x.level) /\ Demanded(x.level) \subseteq x.meets

\* Its field has it, or one of its kind.
Filled(x) ==
  \E f \in fields : /\ f.to = x.parent /\ f.link.level = x.level
                    /\ At(x.level).of.many => f.link = x

\* On the way down: the levels above were loaded completely, and of the level at hand
\* the links that are in the models were read; a MorphTo has found them or still asks
\* for their type.
LoadedSoFar ==
  pc = "load" /\ Orderly =>
    /\ \A y \in found : y.level < level \/ (y.level = level /\ At(level).of = MorphTo)
    /\ \A x \in kept : Due(x) =>
         /\ x.level < level => x \in found
         /\ x.level = level /\ At(level).of.held = "self" => x \in read
         /\ x.level = level /\ At(level).of = MorphTo =>
              x \in found \/ TypeOf(x.parent, {x}) \in groups

\* On the way up: all levels were loaded, and the ones below were filled in.
FilledSoFar ==
  pc \in {"match", "done"} /\ Orderly =>
    /\ pc = "done" => level = 0
    /\ \A x \in kept : Due(x) => x \in found /\ (x.level > level => Filled(x))

Unread == pc = "query" => found = {}

Complete == Stocked /\ PathsThere /\ Unread /\ LoadedSoFar /\ FilledSoFar

\* The models of level l are those that level l - 1 found, and more rows found at one
\* level are models of the next only.
LEMMA HoldersGrow ==
  ASSUME TypeOK, NEW n \in Nat, parents' = parents,
         NEW more, found' = found \cup more, \A y \in more : y.level = n
  PROVE  \A l \in 1..n : Holders(l)' = Holders(l)
<1>. SUFFICES ASSUME NEW l \in 1..n PROVE Holders(l)' = Holders(l)
  OBVIOUS
<1>1. CASE l = 1
  BY <1>1 DEF Holders
<1>2. CASE l # 1
  <2>1. l - 1 # n
    OBVIOUS
  <2>2. {y \in found' : y.level = l - 1} = {y \in found : y.level = l - 1}
    BY <2>1
  <2>. QED
    BY <1>2, <2>2 DEF Holders
<1>. QED
  BY <1>1, <1>2

\* The rows found have the level of a relation.
LEMMA FoundLevels ==
  ASSUME TypeOK
  PROVE  \A y \in found : y.level \in Nat
<1>1. found \subseteq Link
  BY DEF TypeOK
<1>2. Levels \subseteq Nat
  BY BoundsAssumption DEF Levels
<1>. QED
  BY <1>1, <1>2, LinkFacts

\* What is due does not change with the rows found at its own level or below.
LEMMA SameDue ==
  ASSUME TypeOK, request' = request, NEW n \in Nat, parents' = parents,
         NEW more, found' = found \cup more, \A y \in more : y.level = n,
         NEW x, x.level \in 1..n
  PROVE  Due(x)' <=> Due(x)
<1>1. Holders(x.level)' = Holders(x.level)
  BY HoldersGrow
<1>2. Demanded(x.level)' = Demanded(x.level)
  BY SameCall
<1>. QED
  BY <1>1, <1>2 DEF Due

\* Other clients do not add to what was there all along.
LEMMA WriteComplete ==
  ASSUME TypeOK, Unread, LoadedSoFar, FilledSoFar,
         UNCHANGED <<request, loading>>, kept' \subseteq kept
  PROVE  Unread' /\ LoadedSoFar' /\ FilledSoFar'
<1>1. /\ request' = request /\ pc' = pc /\ level' = level /\ parents' = parents
      /\ read' = read /\ groups' = groups /\ found' = found /\ fields' = fields
  BY DEF loading
<1>2. \A l : Holders(l)' = Holders(l)
  BY <1>1 DEF Holders
<1>3. \A x : (Due(x)' <=> Due(x)) /\ (Filled(x)' <=> Filled(x))
  BY <1>1, <1>2, SameCall DEF Due, Filled
<1>4. Unread'
  BY <1>1 DEF Unread
<1>5. LoadedSoFar'
  BY <1>1, <1>3, SameCall DEF LoadedSoFar
<1>6. FilledSoFar'
  BY <1>1, <1>3, SameCall DEF FilledSoFar
<1>. QED
  BY <1>4, <1>5, <1>6

\* A call that has ended in a panic or a failure is not expected to be complete.
LEMMA EndComplete ==
  ASSUME pc' \in {"panicked", "failed"}
  PROVE  Unread' /\ LoadedSoFar' /\ FilledSoFar'
BY DEF Unread, LoadedSoFar, FilledSoFar

\* The first query.
LEMMA GetComplete ==
  ASSUME TypeOK, Working, Complete, Get, UNCHANGED <<request, store>>
  PROVE  Unread' /\ LoadedSoFar' /\ FilledSoFar'
<1>1. CASE Fail \/ Panic("aggregate")
  BY <1>1, EndComplete DEF Fail, Panic
<1>2. CASE ~(Fail \/ Panic("aggregate"))
  <2>1. /\ read' = ReadWith(1, parents')
        /\ Descend(1, parents', With(Names(request.path)), read')
        /\ found' = {} /\ request' = request /\ kept' = kept
    BY <1>2 DEF Get, Complete, Unread, store
  <2>2. Wanted(1, With(Names(request.path)))
    <3>1. Depth \in Nat /\ Depth >= 1
      BY DepthFacts DEF TypeOK
    <3>2. 1 \in 1..Depth
      BY <3>1
    <3>. QED
      BY <3>2, WithThere, WantedThere
  <2>3. \A x \in kept' : x \in kept /\ x.level \in 1..Depth /\ x.level \in Nat
    BY <2>1, KeptFacts DEF Complete
  <2>4. ASSUME NEW x \in kept', Due(x)'
        PROVE  x.level = 1 /\ x.parent \in parents'
    BY <2>1, <2>3, <2>4 DEF Due, Holders
  <2>5. CASE parents' # {}
    <3>1. /\ pc' = "load" /\ level' = 1
          /\ groups' = IF At(1).of = MorphTo
                       THEN {TypeOf(p, read') : p \in parents'} ELSE {}
      BY <2>1, <2>2, <2>5 DEF Descend
    <3>2. ASSUME NEW x \in kept', Due(x)'
          PROVE  /\ At(1).of.held = "self" => x \in read'
                 /\ At(1).of = MorphTo => TypeOf(x.parent, {x}) \in groups'
      <4>1. x.level = 1 /\ x.parent \in parents' /\ x \in kept
        BY <2>3, <2>4, <3>2
      <4>2. ASSUME At(1).of.held = "self"
            PROVE  x \in read' /\ TypeOf(x.parent, read') = TypeOf(x.parent, {x})
        BY <2>1, <4>1, <4>2, OneType DEF Complete
      <4>3. MorphTo.held = "self"
        BY DEF MorphTo
      <4>. QED
        BY <3>1, <4>1, <4>2, <4>3
    <3>3. At(level)' = At(1)
      BY <2>1, <3>1 DEF At
    <3>4. \A y \in found' : y.level < level'
      BY <2>1
    <3>5. ASSUME NEW x \in kept', Due(x)'
          PROVE  x.level = level' /\ ~(x.level < level')
      BY <2>4, <3>1, <3>5
    <3>6. LoadedSoFar'
      BY <3>2, <3>3, <3>4, <3>5 DEF LoadedSoFar
    <3>. QED
      BY <3>1, <3>6 DEF Unread, FilledSoFar
  <2>6. CASE parents' = {}
    <3>1. pc' = "done" /\ level' = 0
      BY <2>1, <2>6 DEF Descend
    <3>2. \A x \in kept' : ~Due(x)'
      BY <2>4, <2>6
    <3>. QED
      BY <3>1, <3>2 DEF Unread, LoadedSoFar, FilledSoFar
  <2>. QED
    BY <2>5, <2>6
<1>. QED
  BY <1>1, <1>2

\* The query of a relation other than MorphTo finds all that is due at its level, and
\* their rows are the models of the next; if it is not gone on to, nothing is due below.
LEMMA LoadComplete ==
  ASSUME TypeOK, Working, Complete, Load, UNCHANGED <<request, store>>
  PROVE  Unread' /\ LoadedSoFar' /\ FilledSoFar'
<1>1. CASE Panic("column") \/ Panic("values") \/ Panic("database")
  BY <1>1, EndComplete DEF Panic
<1>2. CASE ~(Panic("column") \/ Panic("values") \/ Panic("database"))
  <2>. DEFINE q == EagerQuery(At(level), Below)
              models(keys) == {x.row : x \in Results(keys, q)}
  <2>1. PICK keys \in Keys :
          /\ Fits(q) /\ pc = "load" /\ At(level).of # MorphTo
          /\ found' = found \cup Results(keys, q)
          /\ read' = read \cup ReadWith(level + 1, models(keys))
          /\ Descend(level + 1, models(keys), Below, ReadWith(level + 1, models(keys)))
          /\ parents' = parents /\ fields' = fields
          /\ request' = request /\ kept' = kept
    BY <1>2 DEF Load, GetEager, store
  <2>. DEFINE more == Results(keys, q)
              next == models(keys)
  <2>2. Depth \in Nat /\ level \in 1..Depth /\ level + 1 # 1
    <3>1. Depth \in Nat /\ level \in 1..Depth
      BY <2>1, DepthFacts DEF TypeOK, Working
    <3>. QED
      BY <3>1
  <2>3. \A y \in more : y.level = level
    BY DEF Results, Stored
  <2>4. Fits(q) /\ more = {x \in Stored(level) : Selected(x, keys, q)}
    BY <2>1 DEF Results
  <2>5. next = {y.row : y \in more}
    OBVIOUS
  <2>6. pc' \in {"load", "match"}
    BY <2>1, <2>2 DEF Descend
  <2>. SUFFICES ASSUME Orderly PROVE LoadedSoFar' /\ FilledSoFar'
    BY <2>1, <2>6, SameCall DEF Unread, LoadedSoFar, FilledSoFar
  <2>7. keys = Holders(level)
    <3>1. ~Odd("elsewhere")
      BY <2>2 DEF Orderly, OrderlyAt, Odd, At
    <3>. QED
      BY <2>1, <3>1 DEF Keys
  <2>8. \A y \in found : y.level < level
    BY <2>1 DEF Complete, LoadedSoFar
  <2>9. \A y \in found' : y \in found \/ y \in more
    BY <2>1
  <2>10. ASSUME NEW l, l = level + 1
         PROVE  Holders(l)' = next
    <3>1. \A y \in found : y.level \in Nat
      BY FoundLevels
    <3>2. l # 1 /\ l - 1 = level
      BY <2>2, <2>10
    <3>3. {y \in found' : y.level = level} = more
      BY <2>1, <2>2, <2>3, <2>8, <2>9, <3>1
    <3>4. Holders(l)' = {y.row : y \in {z \in found' : z.level = level}}
      BY <3>2 DEF Holders
    <3>. QED
      BY <2>5, <3>3, <3>4
  <2>11. ASSUME NEW x \in kept, Due(x)', x.level <= level
         PROVE  x \in found'
    <3>1. x.level \in 1..level /\ x \in table /\ Live(x)
      BY <2>2, <2>11, KeptFacts DEF Complete
    <3>2. Due(x)
      BY <2>1, <2>2, <2>3, <2>11, <3>1, SameDue
    <3>3. CASE x.level < level
      BY <2>1, <2>11, <3>2, <3>3 DEF Complete, LoadedSoFar
    <3>4. CASE x.level = level
      <4>1. x \in Stored(level)
        <5>1. At(level).of.held = "self" => x \in read
          BY <2>1, <2>11, <3>2, <3>4 DEF Complete, LoadedSoFar
        <5>. QED
          BY <3>1, <3>4, <5>1 DEF Stored, Live
      <4>2. x.parent \in keys /\ Demanded(level) \subseteq x.meets
        BY <2>7, <3>2, <3>4 DEF Due
      <4>3. Selected(x, keys, q)
        BY <2>2, <2>4, <3>1, <4>2, SelectedAll DEF Live
      <4>. QED
        BY <2>1, <2>4, <4>1, <4>3
    <3>. QED
      BY <2>2, <3>1, <3>3, <3>4
  <2>. HIDE DEF next, more
  <2>12. CASE next # {} /\ Wanted(level + 1, Below)
    <3>1. /\ pc' = "load" /\ level' = level + 1
          /\ groups' = IF At(level + 1).of = MorphTo
                       THEN {TypeOf(p, ReadWith(level + 1, next)) : p \in next} ELSE {}
      BY <2>1, <2>12 DEF Descend, next
    <3>2. ReadWith(level + 1, next) \subseteq read'
      BY <2>1 DEF next
    <3>3. ASSUME NEW x \in kept, Due(x)', x.level = level + 1, At(level + 1).of.held = "self"
          PROVE  /\ x \in read'
                 /\ At(level + 1).of = MorphTo => TypeOf(x.parent, {x}) \in groups'
      <4>1. x.parent \in next
        BY <2>10, <3>3 DEF Due
      <4>2. /\ x \in ReadWith(x.level, next)
            /\ TypeOf(x.parent, ReadWith(x.level, next)) = TypeOf(x.parent, {x})
        BY <3>3, <4>1, OneType DEF Complete
      <4>. QED
        BY <3>1, <3>2, <3>3, <4>1, <4>2
    <3>4. MorphTo.held = "self"
      BY DEF MorphTo
    <3>5. \A y \in found' : y.level < level'
      <4>1. \A y \in found : y.level \in Nat
        BY FoundLevels
      <4>. QED
        BY <2>2, <2>3, <2>8, <2>9, <3>1, <4>1 DEF more
    <3>6. ASSUME NEW x \in kept, Due(x)'
          PROVE  /\ x.level < level + 1 => x \in found'
                 /\ x.level = level + 1 /\ At(level + 1).of.held = "self" => x \in read'
                 /\ x.level = level + 1 /\ At(level + 1).of = MorphTo =>
                      TypeOf(x.parent, {x}) \in groups'
      <4>1. x.level \in 1..Depth
        BY KeptFacts DEF Complete
      <4>2. x.level < level + 1 => x.level <= level
        BY <2>2, <4>1
      <4>. QED
        BY <2>11, <3>3, <3>4, <3>6, <4>2
    <3>7. LoadedSoFar'
      BY <2>1, <3>1, <3>5, <3>6, SameCall DEF LoadedSoFar, At
    <3>. QED
      BY <3>1, <3>7 DEF FilledSoFar
  <2>13. CASE ~(next # {} /\ Wanted(level + 1, Below))
    <3>1. pc' = "match" /\ level' = level
      BY <2>1, <2>2, <2>13 DEF Descend, next
    <3>2. ASSUME NEW x \in kept, Due(x)'
          PROVE  x.level <= level
      <4>. SUFFICES ASSUME ~(x.level <= level) PROVE FALSE
        OBVIOUS
      <4>1. x.level \in 1..Depth /\ x.level >= level + 1
        BY <2>2, KeptFacts DEF Complete
      <4>2. x.parent \in Holders(x.level)'
        BY <3>2 DEF Due
      <4>3. CASE x.level = level + 1
        <5>1. level + 1 \in 1..Depth /\ level + 1 \in (level + 1)..Depth
          BY <2>2, <4>1, <4>3
        <5>2. Between(level + 1, level + 1) \in Below
          BY <2>1, <5>1, BelowThere DEF Complete
        <5>3. Wanted(level + 1, Below)
          BY <5>1, <5>2, WantedThere
        <5>. QED
          BY <2>10, <2>13, <4>2, <4>3, <5>3
      <4>4. CASE x.level # level + 1
        <5>1. x.level # 1 /\ x.level - 1 > level
          BY <2>2, <4>1, <4>4
        <5>2. PICK y \in found' : y.level = x.level - 1
          BY <4>2, <5>1 DEF Holders
        <5>3. y.level <= level
          <6>1. \A z \in found : z.level \in Nat
            BY FoundLevels
          <6>. QED
            BY <2>2, <2>3, <2>8, <2>9, <6>1 DEF more
        <5>. QED
          BY <2>2, <4>1, <5>1, <5>2, <5>3
      <4>. QED
        BY <4>3, <4>4
    <3>3. ASSUME NEW x \in kept, Due(x)'
          PROVE  x \in found' /\ ~(x.level > level)
      <4>1. x.level <= level /\ x.level \in 1..Depth
        BY <3>2, <3>3, KeptFacts DEF Complete
      <4>. QED
        BY <2>2, <2>11, <3>3, <4>1
    <3>4. FilledSoFar'
      BY <2>1, <3>1, <3>3 DEF FilledSoFar
    <3>. QED
      BY <3>1, <3>4 DEF LoadedSoFar
  <2>. QED
    BY <2>12, <2>13
<1>. QED
  BY <1>1, <1>2

\* A query of a MorphTo finds what is due of its type; the other types are still asked
\* for, and after the last one all is found: in an orderly call nothing is below.
LEMMA MorphComplete ==
  ASSUME TypeOK, Working, Complete, LoadMorphTo, UNCHANGED <<request, store>>
  PROVE  Unread' /\ LoadedSoFar' /\ FilledSoFar'
<1>1. CASE Panic("type") \/ Panic("database")
  BY <1>1, EndComplete DEF Panic
<1>2. CASE ~(Panic("type") \/ Panic("database"))
  <2>. DEFINE q == EagerQuery(At(level), {})
              more(g) == {x \in {y \in Stored(level) : TypeOf(y.parent, {y}) = g} :
                            Selected(x, Holders(level), q)}
  <2>1. PICK g \in groups :
          /\ pc = "load" /\ At(level).of = MorphTo
          /\ found' = found \cup more(g)
          /\ groups' = groups \ {g}
          /\ pc' = IF groups' = {} THEN "match" ELSE "load"
          /\ level' = level /\ parents' = parents /\ read' = read /\ fields' = fields
          /\ request' = request /\ kept' = kept
    BY <1>2 DEF LoadMorphTo, store
  <2>. SUFFICES ASSUME Orderly PROVE LoadedSoFar' /\ FilledSoFar'
    BY <2>1, SameCall DEF Unread, LoadedSoFar, FilledSoFar
  <2>2. Depth \in Nat /\ level \in 1..Depth
    BY <2>1, DepthFacts DEF TypeOK, Working
  <2>3. level = Depth
    BY <2>1, <2>2 DEF Orderly, OrderlyAt, At, Depth
  <2>4. At(level)' = At(level) /\ MorphTo.held = "self"
    BY <2>1 DEF At, MorphTo
  <2>5. \A y \in more(g) : y.level = level
    BY DEF Stored
  <2>6. ASSUME NEW x \in kept, Due(x)'
        PROVE  /\ x.level \in 1..level
               /\ x.level < level => x \in found'
               /\ x.level = level => x \in read' /\ (x \in found' \/ TypeOf(x.parent, {x}) \in groups')
    <3>1. x.level \in 1..level /\ Live(x)
      BY <2>3, KeptFacts DEF Complete
    <3>. HIDE DEF more
    <3>2. Due(x)
      BY <2>1, <2>2, <2>5, <2>6, <3>1, SameDue
    <3>3. /\ x.level < level => x \in found
          /\ x.level = level => x \in read /\ (x \in found \/ TypeOf(x.parent, {x}) \in groups)
      BY <2>1, <2>4, <3>2 DEF Complete, LoadedSoFar
    <3>4. ASSUME x.level = level, TypeOf(x.parent, {x}) = g
          PROVE  x \in found'
      <4>1. x \in Stored(level)
        BY <2>1, <2>4, <3>1, <3>3, <3>4 DEF Stored, Live
      <4>2. x.parent \in Holders(level) /\ Demanded(level) \subseteq x.meets
        BY <3>2, <3>4 DEF Due
      <4>3. Selected(x, Holders(level), q)
        BY <2>2, <3>1, <4>2, SelectedAll DEF Live
      <4>. QED
        BY <2>1, <3>4, <4>1, <4>3 DEF more
    <3>. QED
      BY <2>1, <3>1, <3>3, <3>4
  <2>7. \A y \in found' : y.level < level' \/ (y.level = level' /\ At(level)'.of = MorphTo)
    BY <2>1, <2>4, <2>5 DEF Complete, LoadedSoFar
  <2>. HIDE DEF more
  <2>8. CASE groups' = {}
    <3>1. pc' = "match" /\ level' = level
      BY <2>1, <2>8
    <3>2. ASSUME NEW x \in kept', Due(x)'
          PROVE  x \in found' /\ ~(x.level > level')
      <4>1. /\ x.level \in 1..level
            /\ x.level < level => x \in found'
            /\ x.level = level => x \in found' \/ TypeOf(x.parent, {x}) \in groups'
        BY <2>1, <2>6, <3>2
      <4>2. x.level < level \/ x.level = level
        BY <2>2, <4>1
      <4>. QED
        BY <2>2, <2>8, <3>1, <4>1, <4>2
    <3>. QED
      BY <3>1, <3>2 DEF LoadedSoFar, FilledSoFar
  <2>9. CASE groups' # {}
    <3>1. LoadedSoFar'
      BY <2>1, <2>6, <2>7, <2>9 DEF LoadedSoFar
    <3>. QED
      BY <2>1, <2>9, <3>1 DEF FilledSoFar
  <2>. QED
    BY <2>8, <2>9
<1>. QED
  BY <1>1, <1>2

\* Match gives every group of the level to the field of its model, all of it or one row.
LEMMA MatchComplete ==
  ASSUME TypeOK, Working, Complete, Match, UNCHANGED <<request, store>>
  PROVE  Unread' /\ LoadedSoFar' /\ FilledSoFar'
<1>1. CASE Panic("models")
  BY <1>1, EndComplete DEF Panic
<1>2. CASE ~Panic("models")
  <2>1. PICK set \in IF At(level).of.many THEN {Matches(level)} ELSE SUBSET Matches(level) :
          /\ \A m \in Matches(level) : \E n \in set : n.to = m.to
          /\ fields' = fields \cup set
    BY <1>2 DEF Match
  <2>2. /\ pc = "match" /\ level' = level - 1
        /\ pc' = IF level = 1 THEN "done" ELSE "match"
        /\ parents' = parents /\ found' = found
        /\ request' = request /\ kept' = kept
    BY <1>2 DEF Match, store
  <2>3. set \subseteq Matches(level) /\ (At(level).of.many => set = Matches(level))
    BY <2>1
  <2>4. level \in 1..Depth /\ Depth \in Nat
    BY <2>2, DepthFacts DEF TypeOK, Working
  <2>. SUFFICES ASSUME Orderly PROVE FilledSoFar'
    BY <2>2, SameCall DEF Unread, LoadedSoFar, FilledSoFar
  <2>5. ASSUME NEW x \in kept, Due(x)'
        PROVE  x \in found' /\ (x.level > level - 1 => Filled(x)')
    <3>1. x.level \in 1..Depth /\ Holders(x.level)' = Holders(x.level)
      BY <2>2, KeptFacts DEF Complete, Holders
    <3>2. Due(x)
      BY <2>2, <2>5, <3>1, SameCall DEF Due
    <3>3. x \in found /\ (x.level > level => Filled(x))
      BY <2>2, <3>2 DEF Complete, FilledSoFar
    <3>4. CASE x.level > level
      BY <2>1, <2>2, <3>3, <3>4, SameCall DEF Filled
    <3>5. CASE x.level = level
      <4>. DEFINE m == [to |-> x.parent, link |-> x]
      <4>1. m \in Matches(level)
        BY <3>2, <3>3, <3>5 DEF Matches, Due
      <4>2. PICK n \in set : n.to = m.to /\ (At(level).of.many => n = m)
        BY <2>1, <2>3, <4>1
      <4>3. n.link.level = level /\ n \in fields'
        BY <2>1, <2>3, <4>2 DEF Matches
      <4>4. At(x.level)' = At(level)
        BY <2>2, <3>5, SameCall
      <4>. QED
        BY <2>2, <3>3, <3>5, <4>2, <4>3, <4>4 DEF Filled
    <3>6. CASE x.level < level
      BY <2>2, <2>4, <3>1, <3>3, <3>6
    <3>. QED
      BY <2>4, <3>1, <3>4, <3>5, <3>6
  <2>6. pc' = "done" => level' = 0
    BY <2>2
  <2>. QED
    BY <2>2, <2>5, <2>6 DEF FilledSoFar
<1>. QED
  BY <1>1, <1>2

LEMMA CompleteInit == Init => Complete
BY StockedInit DEF Init, Complete, PathsThere, Unread, LoadedSoFar, FilledSoFar

\* Every step of a call, and every write, keeps what is said of what is there all along.
LEMMA CompleteStep ==
  ASSUME TypeOK, Working, Complete, [Next]_vars
  PROVE  Complete'
<1>1. Stocked' /\ PathsThere'
  BY StockedStep, PathsStep DEF Complete
<1>. SUFFICES Unread' /\ LoadedSoFar' /\ FilledSoFar'
  BY <1>1 DEF Complete
<1>2. CASE Call
  BY <1>2, GetComplete, LoadComplete, MorphComplete, MatchComplete DEF Call
<1>3. CASE UNCHANGED vars
  BY <1>3, WriteComplete DEF vars, store, Complete
<1>4. CASE Attach \/ Detach \/ Trash \/ Remove
  <2>1. UNCHANGED <<request, loading>> /\ kept' \subseteq kept
    BY <1>4 DEF Attach, Detach, Trash, Remove, Wrote
  <2>. QED
    BY <2>1, WriteComplete DEF Complete
<1>. QED
  BY <1>2, <1>3, <1>4 DEF Next

\* The inductive invariant of what an orderly call may not miss: on the way down all
\* that is due is found, level by level, and on the way up it is put in its field.
THEOREM EagerLoadComplete == Spec => [](TypeOK /\ Working /\ Complete)
<1>1. Init => TypeOK /\ Working /\ Complete
  BY InitTypes, CompleteInit
<1>2. TypeOK /\ Working /\ Complete /\ [Next]_vars => (TypeOK /\ Working /\ Complete)'
  BY EagerLoadTypeStep, CompleteStep
<1>. QED
  BY <1>1, <1>2, PTL DEF Spec

\* In a call that is done, what is due is in its field.
LEMMA DoneFilled ==
  ASSUME TypeOK, Complete, pc = "done", Orderly, NEW x \in kept, Due(x)
  PROVE  Filled(x)
<1>1. x.level \in 1..Depth /\ level = 0
  BY KeptFacts DEF Complete, FilledSoFar
<1>2. x.level > level
  BY <1>1
<1>. QED
  BY <1>2 DEF Complete, FilledSoFar

\* NothingMissing: what was linked to a model all along, and is asked for, is in the
\* relation field of the model when an orderly call returns.
THEOREM EagerLoadNothingMissing == Spec => []NothingMissing
<1>1. TypeOK /\ Working /\ Complete => NothingMissing
  <2>. SUFFICES ASSUME TypeOK, Complete, pc = "done", Orderly, NEW x \in kept,
                       \/ x.level = 1 /\ x.parent \in parents
                       \/ \E y \in found : y.level = x.level - 1 /\ y.row = x.parent,
                       Demanded(x.level) \subseteq x.meets
                PROVE  Filled(x)
    BY DEF NothingMissing, Filled
  <2>1. x.parent \in Holders(x.level)
    <3>1. CASE x.level = 1 /\ x.parent \in parents
      BY <3>1 DEF Holders
    <3>2. CASE \E y \in found : y.level = x.level - 1 /\ y.row = x.parent
      <4>1. PICK y \in found : y.level = x.level - 1 /\ y.row = x.parent
        BY <3>2
      <4>2. y \in Link
        BY DEF TypeOK
      <4>3. y.level \in Levels /\ x.level \in 1..Depth
        BY <4>2, LinkFacts, KeptFacts DEF Complete
      <4>4. x.level # 1
        BY <4>1, <4>3, BoundsAssumption DEF Levels
      <4>. QED
        BY <4>1, <4>4 DEF Holders
    <3>. QED
      BY <3>1, <3>2
  <2>. QED
    BY <2>1, DoneFilled DEF Due
<1>. QED
  BY <1>1, EagerLoadComplete, PTL

-----------------------------------------------------------------------------
(* What is counted. *)

\* As long as nobody wrote, the links are those there were, and what was counted for
\* the models are the links that count.
CountedRight ==
  /\ IsFiniteSet(table)
  /\ writes = 0 => /\ gone = {} /\ table = ever
                   /\ kept = {x \in table : <<x.level, x.row>> \notin trashed}
  /\ writes = 0 /\ pc \in {"load", "match", "done"} =>
       counted = {m \in [to : parents, link : table] : request.counts /\ Counts(m.to, m.link)}

\* There are finitely many links in the beginning.
LEMMA FewLinks == Init => IsFiniteSet(table)
<1>. SUFFICES ASSUME Init PROVE IsFiniteSet(table)
  OBVIOUS
<1>1. PICK n \in 0..MaxLinks : \E f \in [1..n -> LinksOf(request)] : table = {f[i] : i \in 1..n}
  BY DEF Init
<1>2. PICK f \in [1..n -> LinksOf(request)] : table = {f[i] : i \in 1..n}
  BY <1>1
<1>3. f \in Surjection(1..n, table)
  BY <1>2 DEF Surjection
<1>4. IsFiniteSet(1..n)
  BY <1>1, BoundsAssumption, FS_Interval
<1>. QED
  BY <1>3, <1>4, FS_Surjection

LEMMA CountedInit == Init => CountedRight
<1>. SUFFICES ASSUME Init PROVE CountedRight
  OBVIOUS
<1>1. IsFiniteSet(table)
  BY FewLinks
<1>. QED
  BY <1>1 DEF Init, CountedRight

\* A call counts once, with its first query; a write is a write.
LEMMA CountedStep ==
  ASSUME TypeOK, CountedRight, [Next]_vars
  PROVE  CountedRight'
<1>1. CASE Call \/ UNCHANGED vars
  <2>1. /\ table' = table /\ trashed' = trashed /\ gone' = gone /\ writes' = writes
        /\ kept' = kept /\ ever' = ever /\ request' = request
    BY <1>1 DEF Call, vars, store
  <2>2. \A p, x : Counts(p, x)' <=> Counts(p, x)
    BY <2>1 DEF Counts, At
  <2>3. CASE counted' = counted /\ parents' = parents
             /\ (pc' \in {"load", "match", "done"} => pc \in {"load", "match", "done"})
    BY <2>1, <2>2, <2>3 DEF CountedRight
  <2>4. CASE counted' = {m \in [to : parents', link : table] :
                           request.counts /\ Counts(m.to, m.link)}
    BY <2>1, <2>2, <2>4 DEF CountedRight
  <2>5. CASE Get
    BY <2>3, <2>4, <2>5 DEF Get, Panic, Fail
  <2>6. CASE Load
    BY <2>3, <2>6 DEF Load, GetEager, Panic
  <2>7. CASE LoadMorphTo
    BY <2>3, <2>7 DEF LoadMorphTo, Panic
  <2>8. CASE Match
    BY <2>3, <2>8 DEF Match, Panic
  <2>9. CASE UNCHANGED vars
    BY <2>3, <2>9 DEF vars, loading
  <2>. QED
    BY <1>1, <2>5, <2>6, <2>7, <2>8, <2>9 DEF Call
<1>2. CASE Attach \/ Detach \/ Trash \/ Remove
  <2>1. writes' = writes + 1 /\ writes \in 0..MaxWrites
    BY <1>2 DEF Attach, Detach, Trash, Remove, Wrote, TypeOK
  <2>2. writes' # 0
    BY <2>1, BoundsAssumption
  <2>3. (\E x : table' = table \cup {x}) \/ table' \subseteq table
    BY <1>2 DEF Attach, Detach, Trash, Remove
  <2>4. IsFiniteSet(table')
    BY <2>3, FS_AddElement, FS_Subset DEF CountedRight
  <2>. QED
    BY <2>2, <2>4 DEF CountedRight
<1>. QED
  BY <1>1, <1>2 DEF Next

\* Those that WithCount can count in the relation's own way have no conditions but
\* the type.
LEMMA CountKinds ==
  ASSUME NEW k \in Kinds
  PROVE  /\ k.count = "parent" => k.wheres = <<"self">>
         /\ k.count = "typed" => k.wheres = <<"self", "type">>
BY DEF Kinds, HasOne, HasMany, BelongsTo, MorphOne, MorphMany, MorphTo, BelongsToMany,
       MorphToMany, MorphByMany

\* When the relation has no other conditions, the links that count for a model are those
\* that the same call is to load for it.
LEMMA CountsDue ==
  ASSUME TypeOK, gone = {}, At(1).pivot = "none", At(1).mark = "none", At(1).scope # "valued",
         At(1).of.count \in {"parent", "typed"},
         NEW p \in parents, NEW x, x.level = 1
  PROVE  Counts(p, x) <=> x.parent = p /\ Demanded(1) \subseteq x.meets
<1>1. At(1).of \in Kinds
  <2>1. Depth \in Nat /\ Depth >= 1
    BY DepthFacts DEF TypeOK
  <2>2. 1 \in 1..Len(request.path)
    BY <2>1 DEF Depth
  <2>. QED
    BY <2>2, RequestFacts DEF TypeOK, At, Relation
<1>2. Demanded(1) = IF At(1).of.count = "typed" THEN {"type"} ELSE {}
  <2>1. CASE At(1).of.count = "typed"
    <3>1. At(1).of.wheres = <<"self", "type">>
      BY <1>1, <2>1, CountKinds
    <3>2. Len(At(1).of.wheres) = 2 /\ At(1).of.wheres[2] = "type"
      BY <3>1
    <3>3. "type" \in {At(1).of.wheres[i] : i \in 1..Len(At(1).of.wheres)}
      BY <3>2
    <3>. QED
      BY <2>1, <3>3 DEF Demanded, Conditions
  <2>2. CASE At(1).of.count = "parent"
    <3>1. At(1).of.wheres = <<"self">>
      BY <1>1, <2>2, CountKinds
    <3>2. Len(At(1).of.wheres) = 1 /\ At(1).of.wheres[1] = "self"
      BY <3>1
    <3>3. "type" \notin {At(1).of.wheres[i] : i \in 1..Len(At(1).of.wheres)}
      BY <3>2
    <3>. QED
      BY <2>2, <3>3 DEF Demanded, Conditions
  <2>. QED
    BY <2>1, <2>2
<1>. QED
  BY <1>2 DEF Counts

\* CountAgrees: WithCount and the relation field agree where nobody wrote.
THEOREM EagerLoadCountAgrees == Spec => []CountAgrees
<1>1. TypeOK /\ Working /\ Complete /\ Belonging /\ CountedRight => CountAgrees
  <2>. SUFFICES ASSUME TypeOK, Complete, Belonging, CountedRight,
                       pc = "done", Orderly, request.counts, writes = 0, trashed = {},
                       At(1).pivot = "none", At(1).mark = "none", At(1).scope # "valued",
                       At(1).of.count \in {"parent", "typed"},
                       NEW p \in parents
                PROVE  LET field == {f \in fields : f.to = p /\ f.link.level = 1}
                           count == Cardinality({m \in counted : m.to = p}) IN
                       IF At(1).of.many THEN count = Cardinality(field)
                       ELSE count > 0 <=> field # {}
    BY DEF CountAgrees
  <2>. DEFINE field == {f \in fields : f.to = p /\ f.link.level = 1}
              ours == {m \in counted : m.to = p}
  <2>1. /\ gone = {} /\ table = ever /\ kept = table /\ IsFiniteSet(table)
        /\ counted = {m \in [to : parents, link : table] : Counts(m.to, m.link)}
    BY DEF CountedRight
  <2>2. ASSUME NEW f \in field
        PROVE  f \in ours
    <3>1. f.link \in found /\ f.link.parent = p /\ f.to = p /\ f.link.level = 1
      BY DEF Belonging, FieldsFound
    <3>2. f.link \in table /\ Demanded(1) \subseteq f.link.meets
      BY <2>1, <3>1 DEF Belonging, History, FoundRight
    <3>3. Counts(p, f.link)
      BY <2>1, <3>1, <3>2, CountsDue
    <3>4. f \in [to : Rows, link : Link]
      BY DEF TypeOK
    <3>5. f \in [to : parents, link : table]
      BY <3>1, <3>2, <3>4
    <3>. QED
      BY <2>1, <3>1, <3>3, <3>5
  <2>3. ASSUME NEW m \in ours
        PROVE  field # {} /\ (At(1).of.many => m \in field)
    <3>. DEFINE x == m.link
    <3>1. m \in [to : parents, link : table] /\ m.to = p /\ Counts(p, x) /\ x \in kept
      BY <2>1
    <3>2. x.level = 1
      BY <3>1 DEF Counts
    <3>3. x.parent = p /\ Demanded(1) \subseteq x.meets
      BY <2>1, <3>1, <3>2, CountsDue
    <3>4. Due(x)
      BY <3>2, <3>3 DEF Due, Holders
    <3>5. PICK f \in fields : /\ f.to = x.parent /\ f.link.level = x.level
                              /\ At(x.level).of.many => f.link = x
      BY <3>1, <3>4, DoneFilled DEF Filled
    <3>6. f \in field
      BY <3>2, <3>3, <3>5
    <3>7. ASSUME At(1).of.many
          PROVE  f = m
      <4>1. f.to = m.to /\ f.link = m.link
        BY <3>1, <3>2, <3>3, <3>5, <3>7
      <4>2. f \in [to : Rows, link : Link]
        BY DEF TypeOK
      <4>. QED
        BY <3>1, <4>1, <4>2
    <3>. QED
      BY <3>6, <3>7
  <2>4. IsFiniteSet(ours)
    <3>. DEFINE give(x) == [to |-> p, link |-> x]
                links == {m.link : m \in ours}
                back == [x \in links |-> give(x)]
    <3>1. links \subseteq table
      BY <2>1
    <3>2. IsFiniteSet(links)
      BY <2>1, <3>1, FS_Subset
    <3>3. \A m \in ours : m = give(m.link)
      BY <2>1
    <3>4. back \in Surjection(links, ours)
      <4>1. \A x \in links : back[x] \in ours
        BY <3>3
      <4>2. \A m \in ours : m.link \in links /\ back[m.link] = m
        BY <3>3
      <4>. QED
        BY <4>1, <4>2 DEF Surjection
    <3>. QED
      BY <3>2, <3>4, FS_Surjection
  <2>. HIDE DEF field, ours
  <2>5. CASE At(1).of.many
    <3>1. ours = field
      BY <2>2, <2>3, <2>5
    <3>. QED
      BY <2>5, <3>1 DEF field, ours
  <2>6. CASE ~At(1).of.many
    <3>1. ours = {} <=> field = {}
      BY <2>2, <2>3
    <3>2. Cardinality(ours) \in Nat /\ (Cardinality(ours) = 0 <=> ours = {})
      BY <2>4, FS_CardinalityType, FS_EmptySet
    <3>3. Cardinality(ours) > 0 <=> field # {}
      BY <3>1, <3>2
    <3>. QED
      BY <2>6, <3>3 DEF field, ours
  <2>. QED
    BY <2>5, <2>6
<1>2. Spec => []CountedRight
  <2>1. TypeOK /\ Working /\ CountedRight /\ [Next]_vars => CountedRight'
    BY CountedStep
  <2>. QED
    BY <2>1, CountedInit, EagerLoadTypeCorrect, PTL DEF Spec
<1>. QED
  BY <1>1, <1>2, EagerLoadComplete, EagerLoadBelonging, PTL
=============================================================================
