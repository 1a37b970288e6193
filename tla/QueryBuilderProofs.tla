------------------------- MODULE QueryBuilderProofs -------------------------
(***************************************************************************)
(* Proofs about QueryBuilder, for any number of builders and calls.        *)
(***************************************************************************)
EXTENDS QueryBuilder, SequenceTheorems, TLAPS

-----------------------------------------------------------------------------
(* What the operators on builders return. *)

\* What a call is given is bound as it is written.
LEMMA ArgumentsBind ==
  ASSUME used \in Nat, NEW vs \in Arguments
  PROVE  /\ Placeholders(vs) = Bound(vs)
         /\ Bound(vs) \in Values
         /\ Len(Bound(vs)) \in Nat
  <1>1. CASE vs = <<>>
    BY <1>1 DEF Placeholders, Bound, Values
  <1>2. CASE vs = <<used + 1>>
    <2>1. Head(vs) = used + 1 /\ used + 1 \in Nat \ {Raw} /\ Len(vs) = 1
      BY <1>2 DEF Raw
    <2>2. Placeholders(vs) = vs /\ Bound(vs) = vs
      BY <2>1 DEF Placeholders, Bound
    <2>3. <<used + 1>> \in Values
      BY <2>1 DEF Values
    <2> QED
      BY <1>2, <2>1, <2>2, <2>3
  <1>3. CASE vs = <<Raw, used + 1>>
    BY <1>3 DEF Placeholders, Bound, Values, Raw
  <1> QED
    BY <1>1, <1>2, <1>3 DEF Arguments

\* Values are bound and written as they are.
LEMMA ValuesBind ==
  ASSUME NEW vs \in Values
  PROVE  Placeholders(vs) = vs /\ Bound(vs) = vs
  <1>1. vs # <<>> => Head(vs) \in Nat \ {Raw}
    BY DEF Values
  <1> QED
    BY <1>1 DEF Placeholders, Bound

\* Two sequences of values make one.
LEMMA ValuesJoin ==
  ASSUME NEW s \in Values, NEW t \in Values
  PROVE  s \o t \in Values /\ s \o <<>> = s /\ <<>> \o s = s
  BY ConcatProperties, ConcatEmptySeq DEF Values

LEMMA NoValues == <<>> \in Values
  BY DEF Values

\* Adding to a clause keeps a builder one, and its clauses in step.
LEMMA AddKeeps ==
  ASSUME NEW b \in BuilderType, NEW c \in Clauses, NEW vs,
         Placeholders(vs) = Bound(vs), Bound(vs) \in Values
  PROVE  Add(b, c, vs) \in BuilderType /\ (InStep(b) => InStep(Add(b, c, vs)))
  <1>1. /\ b.text[c] \o Placeholders(vs) \in Values
        /\ b.bindings[c] \o Bound(vs) \in Values
    BY ValuesJoin DEF BuilderType, Keys
  <1> QED
    BY <1>1 DEF Add, BuilderType, InStep, Keys

LEMMA BeforeKeeps ==
  ASSUME NEW b \in BuilderType
  PROVE  Before(b) \in BuilderType /\ (InStep(b) => InStep(Before(b)))
  <1>1. b.callbacks \in Values
    BY DEF BuilderType
  <1> DEFINE a == Add(b, "where", b.callbacks)
  <1>2. a \in BuilderType /\ (InStep(b) => InStep(a))
    BY <1>1, ValuesBind, AddKeeps DEF Clauses
  <1>3. /\ [a EXCEPT !.callbacks = <<>>] \in BuilderType
        /\ InStep(a) => InStep([a EXCEPT !.callbacks = <<>>])
    BY <1>2, NoValues DEF BuilderType, InStep
  <1> QED
    BY <1>2, <1>3 DEF Before

LEMMA ResetKeeps ==
  ASSUME NEW b \in BuilderType, NEW target \in {"column", "order", "where", "select"}
  PROVE  /\ ResetClause(b, target) \in BuilderType
         /\ InStep(b) => InStep(ResetClause(b, target))
  <1>1. ASSUME NEW c \in Clauses
        PROVE  Without(b, c) \in BuilderType /\ (InStep(b) => InStep(Without(b, c)))
    BY NoValues DEF Without, BuilderType, InStep, Keys
  <1>2. CASE target = "column"
    BY <1>2 DEF ResetClause
  <1>3. CASE target = "select"
    BY <1>1, <1>3 DEF ResetClause, BuilderType, InStep, Clauses
  <1>4. CASE target \in {"order", "where"}
    BY <1>1, <1>4 DEF ResetClause, Clauses
  <1> QED
    BY <1>2, <1>3, <1>4

LEMMA CloneKeeps ==
  ASSUME NEW b \in BuilderType
  PROVE  Clone(b) \in BuilderType /\ (InStep(b) => InStep(Clone(b)))
  BY NoValues DEF Clone, BuilderType, InStep

LEMMA AfterSelectKeeps ==
  ASSUME NEW b \in BuilderType
  PROVE  AfterSelect(b) \in BuilderType /\ (InStep(b) => InStep(AfterSelect(b)))
  BY DEF AfterSelect, BuilderType, InStep

\* The values of a write are no clause's.
LEMMA WriteKeeps ==
  ASSUME NEW b \in BuilderType, NEW key \in {"update", "insert"},
         NEW vs, Bound(vs) \in Values
  PROVE  Write(b, key, vs) \in BuilderType /\ (InStep(b) => InStep(Write(b, key, vs)))
  <1>1. Bound(FileterColumn(b, vs)) \in Values
    BY NoValues, ValuesBind DEF FileterColumn
  <1>2. b.bindings[key] \o Bound(FileterColumn(b, vs)) \in Values
    BY <1>1, ValuesJoin DEF BuilderType, Keys
  <1> QED
    BY <1>2 DEF Write, BuilderType, InStep, Keys, Clauses

\* The values and the text of a builder are values.
LEMMA BuilderValues ==
  ASSUME NEW b \in BuilderType
  PROVE  GetBindings(b) \in Values /\ CompileSelect(b) \in Values
  <1>1. \A k \in Keys : b.bindings[k] \in Values
    BY DEF BuilderType
  <1>2. \A c \in Clauses : Part(b, c) \in Values
    BY NoValues DEF BuilderType, Part
  <1>3. GetBindings(b) \in Values
    BY <1>1, ValuesJoin DEF GetBindings, Keys, Clauses
  <1>4. CompileSelect(b) \in Values
    BY <1>2, ValuesJoin DEF CompileSelect, Clauses
  <1> QED
    BY <1>3, <1>4

\* A builder in step that binds no value for a clause it does not write sends a
\* read with the values of its "?": the heart of the matter.
LEMMA SelectFits ==
  ASSUME NEW b \in BuilderType, InStep(b), ~Leftover(b, Written(b))
  PROVE  CompileSelect(b) = GetBindings(b)
  <1>1. \A c \in Clauses : Part(b, c) = b.bindings[c]
    BY DEF InStep, Leftover, Part, Keys
  <1>2. b.bindings["update"] = <<>> /\ b.bindings["insert"] = <<>>
    BY DEF Leftover, Written, Keys, BuilderType, Clauses
  <1>3. \A k \in Keys : b.bindings[k] \in Values
    BY DEF BuilderType
  <1> DEFINE upToJoin == b.bindings["select"] \o b.bindings["from"] \o b.bindings["join"]
             all == upToJoin \o b.bindings["where"] \o b.bindings["groupBy"]
                      \o b.bindings["having"] \o b.bindings["order"]
  <1>4. upToJoin \in Values
    BY <1>3, ValuesJoin DEF Keys, Clauses
  <1>5. all \in Values
    BY <1>3, <1>4, ValuesJoin DEF Keys, Clauses
  <1>6. CompileSelect(b) = all
    BY <1>1 DEF CompileSelect, Clauses
  <1>7. upToJoin \o b.bindings["update"] = upToJoin
    BY <1>2, <1>4, ValuesJoin
  <1>8. all \o b.bindings["insert"] = all
    BY <1>2, <1>5, ValuesJoin
  <1>9. GetBindings(b) = all \o b.bindings["insert"]
    BY <1>7 DEF GetBindings
  <1> QED
    BY <1>6, <1>8, <1>9

-----------------------------------------------------------------------------
(* Statements. *)

Kinds == {"select", "aggregate", "insert", "update", "delete"}

LEMMA StatementIsOne ==
  ASSUME NEW kind \in Kinds, NEW sql \in Values, NEW b \in BuilderType
  PROVE  Statement(kind, sql, b) \in StatementType
  <1>1. \A c \in Clauses : Part(b, c) \in Values
    BY NoValues DEF Part, BuilderType
  <1> QED
    BY <1>1, BuilderValues DEF Statement, StatementType, Kinds, Clauses

LEMMA SelectIsOne ==
  ASSUME NEW b \in BuilderType
  PROVE  Select(b) \in StatementType
  BY BuilderValues, StatementIsOne DEF Select, Kinds, BuilderType

LEMMA WritesAreStatements ==
  ASSUME NEW b \in BuilderType, NEW vs, Placeholders(vs) = Bound(vs), Bound(vs) \in Values
  PROVE  /\ InsertStatement(b, vs) \in StatementType
         /\ UpdateStatement(b, vs) \in StatementType
         /\ DeleteStatement(b) \in StatementType
  <1>1. Placeholders(FileterColumn(b, vs)) \in Values
    BY NoValues, ValuesBind DEF FileterColumn
  <1>2. \A c \in {"from", "where", "order"} : b.text[c] \in Values
    BY DEF BuilderType, Clauses
  <1>3. /\ b.text["from"] \o Placeholders(FileterColumn(b, vs)) \in Values
        /\ b.text["from"] \o b.text["where"] \in Values
    BY <1>1, <1>2, ValuesJoin
  <1>5. /\ b.text["from"] \o Placeholders(FileterColumn(b, vs)) \o b.text["where"] \in Values
        /\ b.text["from"] \o b.text["where"] \o b.text["order"] \in Values
    BY <1>2, <1>3, ValuesJoin
  <1>4. Write(b, "insert", vs) \in BuilderType /\ Write(b, "update", vs) \in BuilderType
    BY WriteKeeps
  <1> QED
    BY <1>3, <1>4, <1>5, StatementIsOne
       DEF InsertStatement, UpdateStatement, DeleteStatement, Kinds

\* The clones that count are builders, in step but for the columns' values.
LEMMA CountCloneKeeps ==
  ASSUME NEW b \in BuilderType
  PROVE  /\ CountClone(b) \in BuilderType
         /\ InStep(b) => InStep(CountClone(b))
         /\ DropSelected(CountClone(b)) \in BuilderType
         /\ DropSelected(Clone(CountClone(b))) \in BuilderType
  <1>1. Clone(b) \in BuilderType /\ (InStep(b) => InStep(Clone(b)))
    BY CloneKeeps
  <1> DEFINE r == ResetClause(ResetClause(Clone(b), "column"), "order")
  <1>2. r \in BuilderType /\ (InStep(b) => InStep(r))
    BY <1>1, ResetKeeps
  <1>3. CountClone(b) \in BuilderType /\ (InStep(b) => InStep(CountClone(b)))
    BY <1>2 DEF CountClone, BuilderType, InStep
  <1>4. ASSUME NEW d \in BuilderType
        PROVE  DropSelected(d) \in BuilderType
    BY NoValues DEF DropSelected, BuilderType, Keys, Clauses
  <1> QED
    BY <1>3, <1>4, CloneKeeps

LEMMA NewBuilderIsOne == NewQueryBuilder \in BuilderType /\ InStep(NewQueryBuilder)
  BY NoValues DEF NewQueryBuilder, BuilderType, InStep, Keys

-----------------------------------------------------------------------------
(* Calls. *)

AllInStep == \A h \in Builders : InStep(builder[h])

\* A call may leave a builder as b and send ss: both are well formed and, if the
\* callers keep from lapses, in step.
Sound(b, ss) ==
  /\ b \in BuilderType
  /\ ss \in Seq(StatementType)
  /\ Lapses = {} /\ AllInStep =>
       InStep(b) /\ \A i \in 1..Len(ss) : Fits(ss[i])

\* What every call keeps.
Kept ==
  /\ builder' \in [Builders -> BuilderType]
  /\ sent' \in Seq(StatementType)
  /\ used' \in Nat
  /\ Lapses = {} /\ AllInStep => AllInStep' /\ ValuesFit'

LEMMA SoundCalls ==
  ASSUME TypeOK, NEW h \in Builders, NEW b, NEW n \in Nat, NEW ss,
         Sound(b, ss), Calls(h, b, n, ss)
  PROVE  Kept
  <1>1. builder' = [builder EXCEPT ![h] = b] /\ used' = used + n /\ sent' = ss
    BY DEF Calls
  <1>2. builder \in [Builders -> BuilderType] /\ used \in Nat
    BY DEF TypeOK
  <1>3. builder' \in [Builders -> BuilderType] /\ sent' \in Seq(StatementType) /\ used' \in Nat
    BY <1>1, <1>2 DEF Sound
  <1>4. ASSUME Lapses = {}, AllInStep
        PROVE  AllInStep' /\ ValuesFit'
    <2>1. \A g \in Builders : builder'[g] = IF g = h THEN b ELSE builder[g]
      BY <1>1, <1>2
    <2>2. InStep(b) /\ \A i \in 1..Len(ss) : Fits(ss[i])
      BY <1>4 DEF Sound
    <2>3. \A g \in Builders : InStep(builder'[g])
      BY <1>4, <2>1, <2>2 DEF AllInStep
    <2> QED
      BY <1>1, <2>2, <2>3 DEF AllInStep, ValuesFit
  <1> QED
    BY <1>3, <1>4 DEF Kept

LEMMA Quiet ==
  ASSUME TypeOK, NEW h \in Builders, NEW b \in BuilderType,
         AllInStep => InStep(b)
  PROVE  Sound(b, <<>>)
  BY DEF Sound

\* The six clauses that take values.
LEMMA ClauseKept ==
  ASSUME TypeOK, NEW h \in Builders, NEW c \in Clauses, Clause(h, c)
  PROVE  Kept
  <1>1. builder[h] \in BuilderType /\ used \in Nat
    BY DEF TypeOK
  <1>2. PICK vs \in Arguments : Calls(h, Add(builder[h], c, vs), Len(Bound(vs)), <<>>)
    BY DEF Clause
  <1>3. /\ Placeholders(vs) = Bound(vs) /\ Bound(vs) \in Values
        /\ Len(Bound(vs)) \in Nat
    BY <1>1, ArgumentsBind
  <1>4. Sound(Add(builder[h], c, vs), <<>>)
    BY <1>1, <1>3, AddKeeps, Quiet DEF AllInStep
  <1> QED
    BY <1>2, <1>3, <1>4, SoundCalls

LEMMA FromRawKept ==
  ASSUME TypeOK, NEW h \in Builders, FromRaw(h)
  PROVE  Kept
  <1>1. builder[h] \in BuilderType /\ used \in Nat
    BY DEF TypeOK
  <1> DEFINE from(vs) == [Add(builder[h], "from", vs) EXCEPT !.text["from"] = Placeholders(vs)]
  <1>2. PICK vs \in Arguments :
          /\ Allowed("replaced", builder[h].bindings["from"] # <<>>)
          /\ Calls(h, from(vs), Len(Bound(vs)), <<>>)
    BY DEF FromRaw
  <1>3. /\ Placeholders(vs) = Bound(vs) /\ Bound(vs) \in Values
        /\ Len(Bound(vs)) \in Nat
    BY <1>1, ArgumentsBind
  <1>4. /\ Add(builder[h], "from", vs) \in BuilderType
        /\ InStep(builder[h]) => InStep(Add(builder[h], "from", vs))
    BY <1>1, <1>3, AddKeeps DEF Clauses
  <1>5. from(vs) \in BuilderType
    BY <1>3, <1>4 DEF BuilderType, Clauses
  <1>6. ASSUME Lapses = {}, InStep(builder[h])
        PROVE  InStep(from(vs))
    <2>1. builder[h].bindings["from"] = <<>>
      BY <1>2, <1>6 DEF Allowed
    <2>2. Add(builder[h], "from", vs).bindings["from"] = Bound(vs)
      BY <1>1, <1>3, <2>1, ValuesJoin DEF Add, BuilderType, Keys, Clauses
    <2> QED
      BY <1>3, <1>4, <1>6, <2>2 DEF InStep, BuilderType
  <1>7. Sound(from(vs), <<>>)
    BY <1>5, <1>6 DEF Sound, AllInStep
  <1> QED
    BY <1>2, <1>3, <1>7, SoundCalls

LEMMA WhereStructKept ==
  ASSUME TypeOK, NEW h \in Builders, WhereStruct(h)
  PROVE  Kept
  <1> DEFINE b(vs) == [builder[h] EXCEPT !.text["where"] = @ \o vs,
                                         !.components = @ \cup {"where"}]
  <1>1. PICK vs \in {<<>>, <<used + 1>>} :
          Allowed("struct", vs # <<>>) /\ Calls(h, b(vs), Len(vs), <<>>)
    BY DEF WhereStruct
  <1>2. builder[h] \in BuilderType /\ used \in Nat
    BY DEF TypeOK
  <1>3. vs \in Values /\ Len(vs) \in Nat
    <2>1. used + 1 \in Nat \ {Raw}
      BY <1>2 DEF Raw
    <2>2. <<used + 1>> \in Values
      BY <2>1 DEF Values
    <2> QED
      BY <2>2, NoValues DEF Values
  <1>4. builder[h].text["where"] \in Values
    BY <1>2 DEF BuilderType, Clauses
  <1>5. builder[h].text["where"] \o vs \in Values
    BY <1>3, <1>4, ValuesJoin
  <1>6. b(vs) \in BuilderType
    BY <1>2, <1>5 DEF BuilderType, Clauses
  <1>7. ASSUME Lapses = {}, InStep(builder[h])
        PROVE  InStep(b(vs))
    <2>1. vs = <<>>
      BY <1>1, <1>7 DEF Allowed
    <2>2. builder[h].text["where"] \o vs = builder[h].text["where"]
      BY <1>4, <2>1, ValuesJoin, NoValues
    <2> QED
      BY <1>2, <1>7, <2>2 DEF InStep, BuilderType
  <1>8. Sound(b(vs), <<>>)
    BY <1>6, <1>7 DEF Sound, AllInStep
  <1> QED
    BY <1>1, <1>3, <1>8, SoundCalls

LEMMA BeforeQueryKept ==
  ASSUME TypeOK, NEW h \in Builders, BeforeQuery(h)
  PROVE  Kept
  <1> DEFINE b == [builder[h] EXCEPT !.callbacks = Append(@, used + 1)]
  <1>1. Calls(h, b, 1, <<>>)
    BY DEF BeforeQuery
  <1>2. builder[h] \in BuilderType /\ used \in Nat
    BY DEF TypeOK
  <1>3. used + 1 \in Nat \ {Raw}
    BY <1>2 DEF Raw
  <1>4. Append(builder[h].callbacks, used + 1) \in Values
    BY <1>2, <1>3, AppendProperties DEF BuilderType, Values
  <1>5. b \in BuilderType /\ (InStep(builder[h]) => InStep(b))
    BY <1>2, <1>4 DEF BuilderType, InStep
  <1>6. Sound(b, <<>>)
    BY <1>5, Quiet DEF AllInStep
  <1> QED
    BY <1>1, <1>6, SoundCalls

\* A clause given another text and other values.
LEMMA ClauseChanged ==
  ASSUME NEW b \in BuilderType, NEW c \in Clauses, NEW s \in Values, NEW t \in Values,
         NEW d, d = [b EXCEPT !.text[c] = s, !.bindings[c] = t,
                              !.components = b.components \cup {c}]
  PROVE  d \in BuilderType /\ (InStep(b) /\ s = t => InStep(d))
  BY DEF BuilderType, InStep, Keys

LEMMA AddSubKeeps ==
  ASSUME NEW b \in BuilderType, NEW c \in Clauses, NEW q \in BuilderType
  PROVE  /\ AddSub(b, c, q) \in BuilderType
         /\ InStep(b) /\ CompileSelect(q) = GetBindings(q)
              /\ (c = "from" => b.bindings["from"] = <<>>)
            => InStep(AddSub(b, c, q))
  <1> DEFINE base == IF c = "from" THEN <<>> ELSE b.text[c]
  <1>1. CompileSelect(q) \in Values /\ GetBindings(q) \in Values
    BY BuilderValues
  <1>2. base \in Values
    BY NoValues DEF BuilderType
  <1>3. base \o CompileSelect(q) \in Values /\ b.bindings[c] \o GetBindings(q) \in Values
    BY <1>1, <1>2, ValuesJoin DEF BuilderType, Keys
  <1>4. AddSub(b, c, q) =
          [b EXCEPT !.text[c] = base \o CompileSelect(q),
                    !.bindings[c] = b.bindings[c] \o GetBindings(q),
                    !.components = b.components \cup {c}]
    BY DEF AddSub, BuilderType, Keys
  <1>5. InStep(b) /\ (c = "from" => b.bindings["from"] = <<>>) => base = b.bindings[c]
    BY DEF InStep
  <1> HIDE DEF base
  <1> QED
    BY <1>3, <1>4, <1>5, ClauseChanged

LEMMA SubKept ==
  ASSUME TypeOK, NEW h \in Builders, NEW g \in Builders, NEW c \in Clauses, Sub(h, g, c)
  PROVE  Kept
  <1> DEFINE q == Before(builder[g])
             b == AddSub(builder[h], c, q)
  <1>1. /\ g # h
        /\ Allowed("leftover", Leftover(q, Written(q)))
        /\ Allowed("replaced", c = "from" /\ builder[h].bindings["from"] # <<>>)
        /\ builder' = [builder EXCEPT ![g] = AfterSelect(q), ![h] = b]
        /\ sent' = <<>> /\ used' = used
    BY DEF Sub
  <1>2. /\ builder \in [Builders -> BuilderType] /\ used \in Nat
        /\ builder[h] \in BuilderType /\ builder[g] \in BuilderType
    BY DEF TypeOK
  <1>3. q \in BuilderType /\ (InStep(builder[g]) => InStep(q))
    BY <1>2, BeforeKeeps
  <1>4. AfterSelect(q) \in BuilderType /\ (InStep(q) => InStep(AfterSelect(q)))
    BY <1>3, AfterSelectKeeps
  <1>5. b \in BuilderType
    BY <1>2, <1>3, AddSubKeeps
  <1>6. ASSUME Lapses = {}, AllInStep
        PROVE  InStep(b)
    <2>1. ~Leftover(q, Written(q)) /\ InStep(q)
      BY <1>1, <1>3, <1>6 DEF Allowed, AllInStep
    <2>2. CompileSelect(q) = GetBindings(q)
      BY <1>3, <2>1, SelectFits
    <2>3. c = "from" => builder[h].bindings["from"] = <<>>
      BY <1>1, <1>6 DEF Allowed
    <2> QED
      BY <1>2, <1>3, <1>6, <2>2, <2>3, AddSubKeeps DEF AllInStep
  <1> HIDE DEF b, q
  <1>7. \A k \in Builders :
           builder'[k] = IF k = h THEN b ELSE IF k = g THEN AfterSelect(q) ELSE builder[k]
    BY <1>1, <1>2
  <1>8. builder' \in [Builders -> BuilderType]
    BY <1>1, <1>2, <1>4, <1>5
  <1>9. ASSUME Lapses = {}, AllInStep
        PROVE  AllInStep' /\ ValuesFit'
    <2>1. \A k \in Builders : InStep(builder'[k])
      BY <1>3, <1>4, <1>6, <1>7, <1>9 DEF AllInStep
    <2>2. Len(sent') = 0
      BY <1>1
    <2> QED
      BY <2>1, <2>2 DEF AllInStep, ValuesFit
  <1>10. sent' \in Seq(StatementType)
    BY <1>1
  <1> QED
    BY <1>1, <1>2, <1>8, <1>9, <1>10 DEF Kept

\* Reset, ReOrder, SetAggregate and Clone: what a builder is changed back to.
LEMMA ChangesKept ==
  ASSUME TypeOK, NEW h \in Builders, Reset(h) \/ ReOrder(h) \/ SetAggregate(h)
  PROVE  Kept
  <1>1. builder[h] \in BuilderType
    BY DEF TypeOK
  <1>2. CASE Reset(h)
    <2>1. PICK target \in {"column", "order", "where", "select"} :
            Calls(h, ResetClause(builder[h], target), 0, <<>>)
      BY <1>2 DEF Reset
    <2>2. Sound(ResetClause(builder[h], target), <<>>)
      BY <1>1, ResetKeeps, Quiet DEF AllInStep
    <2> QED
      BY <2>1, <2>2, SoundCalls
  <1>3. CASE ReOrder(h)
    <2>1. Without(builder[h], "order") = ResetClause(builder[h], "order")
      BY DEF ResetClause
    <2>2. Sound(Without(builder[h], "order"), <<>>)
      BY <1>1, <2>1, ResetKeeps, Quiet DEF AllInStep
    <2> QED
      BY <1>3, <2>2, SoundCalls DEF ReOrder
  <1>4. CASE SetAggregate(h)
    <2> DEFINE a == [builder[h] EXCEPT !.aggregated = TRUE]
               b == IF "groupBy" \in a.components THEN a ELSE ResetClause(a, "order")
    <2>1. Calls(h, b, 0, <<>>)
      BY <1>4 DEF SetAggregate
    <2>2. a \in BuilderType /\ (InStep(builder[h]) => InStep(a))
      BY <1>1 DEF BuilderType, InStep
    <2>3. b \in BuilderType /\ (InStep(a) => InStep(b))
      BY <2>2, ResetKeeps
    <2>4. Sound(b, <<>>)
      BY <2>2, <2>3, Quiet DEF AllInStep
    <2> QED
      BY <2>1, <2>4, SoundCalls
  <1> QED
    BY <1>2, <1>3, <1>4

LEMMA CloneKept ==
  ASSUME TypeOK, NEW h \in Builders, NEW g \in Builders, CloneBuilder(h, g)
  PROVE  Kept
  <1>1. builder[h] \in BuilderType
    BY DEF TypeOK
  <1>2. Sound(Clone(builder[h]), <<>>)
    BY <1>1, CloneKeeps, Quiet DEF AllInStep
  <1> QED
    BY <1>2, SoundCalls DEF CloneBuilder

-----------------------------------------------------------------------------
(* Calls that send statements. *)

\* A statement a sound call may send.
OneFits(s) == s \in StatementType /\ (Lapses = {} /\ AllInStep => Fits(s))

\* One or two statements that fit, or none, with a builder in step.
LEMMA Sending ==
  ASSUME NEW b \in BuilderType, Lapses = {} /\ AllInStep => InStep(b),
         NEW s, NEW t, OneFits(s), OneFits(t)
  PROVE  Sound(b, <<>>) /\ Sound(b, <<s>>) /\ Sound(b, <<s, t>>)
  <1>1. <<s>> \in Seq(StatementType) /\ <<s, t>> \in Seq(StatementType)
    BY DEF OneFits
  <1> QED
    BY <1>1 DEF Sound, OneFits

\* A read of a builder with nothing left over fits.
LEMMA SelectIsSound ==
  ASSUME NEW b \in BuilderType, Lapses = {} /\ AllInStep => InStep(b),
         Lapses = {} => ~Leftover(b, Written(b))
  PROVE  OneFits(Select(b))
  <1>1. Select(b) \in StatementType
    BY SelectIsOne
  <1>2. ASSUME Lapses = {}, AllInStep
        PROVE  Fits(Select(b))
    BY <1>2, SelectFits DEF Select, Statement, Fits
  <1> QED
    BY <1>1, <1>2 DEF OneFits

LEMMA GetKept ==
  ASSUME TypeOK, NEW h \in Builders, Get(h)
  PROVE  Kept
  <1> DEFINE q == Before(builder[h])
  <1>1. /\ Allowed("leftover", Leftover(q, Written(q)))
        /\ Calls(h, AfterSelect(q), 0, Sends(q, <<Select(q)>>))
    BY DEF Get
  <1>2. q \in BuilderType /\ (AllInStep => InStep(q))
    BY BeforeKeeps DEF TypeOK, AllInStep
  <1> HIDE DEF q
  <1>3. OneFits(Select(q))
    BY <1>1, <1>2, SelectIsSound DEF Allowed
  <1>4. AfterSelect(q) \in BuilderType /\ (AllInStep => InStep(AfterSelect(q)))
    BY <1>2, AfterSelectKeeps
  <1>5. Sound(AfterSelect(q), Sends(q, <<Select(q)>>))
    BY <1>3, <1>4, Sending DEF Sends
  <1> QED
    BY <1>1, <1>5, SoundCalls

LEMMA AggregateKept ==
  ASSUME TypeOK, NEW h \in Builders, Aggregate(h)
  PROVE  Kept
  <1> DEFINE a == [builder[h] EXCEPT !.aggregated = TRUE]
             q == Before(a)
  <1>1. /\ Allowed("leftover", Leftover(q, Written(q)))
        /\ Calls(h, AfterSelect(q), 0, Sends(q, <<Select(q)>>))
    BY DEF Aggregate
  <1>2. a \in BuilderType /\ (AllInStep => InStep(a))
    BY DEF TypeOK, AllInStep, BuilderType, InStep
  <1> HIDE DEF a
  <1>3. q \in BuilderType /\ (AllInStep => InStep(q))
    BY <1>2, BeforeKeeps
  <1> HIDE DEF q
  <1>4. OneFits(Select(q))
    BY <1>1, <1>3, SelectIsSound DEF Allowed
  <1>5. AfterSelect(q) \in BuilderType /\ (AllInStep => InStep(AfterSelect(q)))
    BY <1>3, AfterSelectKeeps
  <1>6. Sound(AfterSelect(q), Sends(q, <<Select(q)>>))
    BY <1>4, <1>5, Sending DEF Sends
  <1> QED
    BY <1>1, <1>6, SoundCalls

\* An insert of a builder that binds values of its table only fits.
LEMMA InsertIsSound ==
  ASSUME NEW b \in BuilderType, NEW vs, Placeholders(vs) = Bound(vs), Bound(vs) \in Values,
         Lapses = {} /\ AllInStep => InStep(b),
         Lapses = {} => ~Leftover(b, {"from"})
  PROVE  OneFits(InsertStatement(b, vs))
  <1> DEFINE w == Write(b, "insert", vs)
             given == Bound(FileterColumn(b, vs))
             from == b.bindings["from"]
  <1>1. InsertStatement(b, vs) \in StatementType
    BY WritesAreStatements
  <1>2. given \in Values /\ Placeholders(FileterColumn(b, vs)) = given
    BY NoValues, ValuesBind DEF FileterColumn
  <1>3. from \in Values
    BY DEF BuilderType, Keys, Clauses
  <1>4. ASSUME Lapses = {}
        PROVE  GetBindings(w) = from \o given
    <2>1. \A k \in Keys \ {"from"} : b.bindings[k] = <<>>
      BY <1>4 DEF Leftover
    <2> HIDE DEF given
    <2>2. w.bindings = [b.bindings EXCEPT !["insert"] = @ \o given]
      BY DEF Write, BuilderType, given
    <2> HIDE DEF w
    <2>3. w.bindings["insert"] = given
      BY <1>2, <2>1, <2>2, ValuesJoin DEF BuilderType, Keys
    <2>4. /\ \A k \in Keys \ {"from", "insert"} : w.bindings[k] = <<>>
          /\ w.bindings["from"] = from
      BY <2>1, <2>2 DEF BuilderType, Keys, Clauses
    <2> HIDE DEF from
    <2>5. <<>> \o from = from /\ from \o <<>> = from
      BY <1>3, NoValues, ValuesJoin
    <2>6. \A k \in {"select", "join", "update", "where", "groupBy", "having", "order"} :
            w.bindings[k] = <<>>
      BY <2>4 DEF Keys, Clauses
    <2> QED
      BY <2>3, <2>4, <2>5, <2>6 DEF GetBindings
  <1>5. InStep(b) => b.text["from"] = from
    BY DEF InStep, Clauses
  <1> HIDE DEF w, given, from
  <1>6. Lapses = {} /\ AllInStep => Fits(InsertStatement(b, vs))
    BY <1>2, <1>4, <1>5 DEF InsertStatement, Statement, Fits, w
  <1> QED
    BY <1>1, <1>6 DEF OneFits

\* An update of a builder that binds values of its table and wheres only fits.
LEMMA UpdateIsSound ==
  ASSUME NEW b \in BuilderType, NEW vs, Placeholders(vs) = Bound(vs), Bound(vs) \in Values,
         Lapses = {} /\ AllInStep => InStep(b),
         Lapses = {} => ~Leftover(b, {"from", "where"})
  PROVE  OneFits(UpdateStatement(b, vs))
  <1> DEFINE w == Write(b, "update", vs)
             given == Bound(FileterColumn(b, vs))
             from == b.bindings["from"]
             where == b.bindings["where"]
  <1>1. UpdateStatement(b, vs) \in StatementType
    BY WritesAreStatements
  <1>2. given \in Values /\ Placeholders(FileterColumn(b, vs)) = given
    BY NoValues, ValuesBind DEF FileterColumn
  <1>3. from \in Values /\ where \in Values
    BY DEF BuilderType, Keys, Clauses
  <1>4. ASSUME Lapses = {}
        PROVE  GetBindings(w) = from \o given \o where
    <2>1. \A k \in Keys \ {"from", "where"} : b.bindings[k] = <<>>
      BY <1>4 DEF Leftover
    <2> HIDE DEF given
    <2>2. w.bindings = [b.bindings EXCEPT !["update"] = @ \o given]
      BY DEF Write, BuilderType, given
    <2> HIDE DEF w
    <2>3. w.bindings["update"] = given
      BY <1>2, <2>1, <2>2, ValuesJoin DEF BuilderType, Keys
    <2>4. /\ \A k \in Keys \ {"from", "update", "where"} : w.bindings[k] = <<>>
          /\ w.bindings["from"] = from /\ w.bindings["where"] = where
      BY <2>1, <2>2 DEF BuilderType, Keys, Clauses
    <2> HIDE DEF from, where
    <2>5. <<>> \o from = from /\ from \o <<>> = from
      BY <1>3, NoValues, ValuesJoin
    <2>6. from \o given \in Values
      BY <1>2, <1>3, ValuesJoin
    <2>7. from \o given \o where \in Values
          /\ (from \o given \o where) \o <<>> = from \o given \o where
      BY <1>3, <2>6, ValuesJoin
    <2>8. \A k \in {"select", "join", "groupBy", "having", "order", "insert"} :
            w.bindings[k] = <<>>
      BY <2>4 DEF Keys, Clauses
    <2> QED
      BY <2>3, <2>4, <2>5, <2>7, <2>8 DEF GetBindings
  <1>5. InStep(b) => b.text["from"] = from /\ b.text["where"] = where
    BY DEF InStep, Clauses
  <1> HIDE DEF w, given, from, where
  <1>6. Lapses = {} /\ AllInStep => Fits(UpdateStatement(b, vs))
    BY <1>2, <1>4, <1>5 DEF UpdateStatement, Statement, Fits, w
  <1> QED
    BY <1>1, <1>6 DEF OneFits

\* A delete of a builder that binds values of its table, wheres and orders only fits.
LEMMA DeleteIsSound ==
  ASSUME NEW b \in BuilderType, Lapses = {} /\ AllInStep => InStep(b),
         Lapses = {} => ~Leftover(b, {"from", "where", "order"})
  PROVE  OneFits(DeleteStatement(b))
  <1> DEFINE from == b.bindings["from"]
             where == b.bindings["where"]
             order == b.bindings["order"]
  <1>1. DeleteStatement(b) \in StatementType
    BY WritesAreStatements, NoValues, ValuesBind
  <1>2. from \in Values /\ where \in Values /\ order \in Values
    BY DEF BuilderType, Keys, Clauses
  <1>3. ASSUME Lapses = {}
        PROVE  GetBindings(b) = from \o where \o order
    <2>1. \A k \in Keys \ {"from", "where", "order"} : b.bindings[k] = <<>>
      BY <1>3 DEF Leftover
    <2> HIDE DEF from, where, order
    <2>2. <<>> \o from = from /\ from \o <<>> = from
      BY <1>2, NoValues, ValuesJoin
    <2>3. from \o where \in Values /\ (from \o where) \o <<>> = from \o where
      BY <1>2, ValuesJoin
    <2>4. (from \o where \o order) \o <<>> = from \o where \o order
      BY <1>2, <2>3, ValuesJoin
    <2>5. \A k \in {"select", "join", "update", "groupBy", "having", "insert"} :
            b.bindings[k] = <<>>
      BY <2>1 DEF Keys, Clauses
    <2>6. GetBindings(b) = <<>> \o from \o <<>> \o <<>> \o where \o <<>> \o <<>> \o order \o <<>>
      BY <2>5 DEF GetBindings, from, where, order
    <2> QED
      BY <2>2, <2>3, <2>4, <2>6
  <1>4. InStep(b) => b.text["from"] = from /\ b.text["where"] = where /\ b.text["order"] = order
    BY DEF InStep, Clauses
  <1> HIDE DEF from, where, order
  <1>5. Lapses = {} /\ AllInStep => Fits(DeleteStatement(b))
    BY <1>3, <1>4 DEF DeleteStatement, Statement, Fits
  <1> QED
    BY <1>1, <1>5 DEF OneFits

LEMMA InsertKept ==
  ASSUME TypeOK, NEW h \in Builders, Insert(h)
  PROVE  Kept
  <1> DEFINE q == Before(builder[h])
  <1>1. /\ Allowed("leftover", Leftover(q, {"from"}))
        /\ \E vs \in Arguments :
             Calls(h, Write(q, "insert", vs), Len(Bound(vs)), <<InsertStatement(q, vs)>>)
    BY DEF Insert
  <1>2. q \in BuilderType /\ (AllInStep => InStep(q)) /\ used \in Nat
    BY BeforeKeeps DEF TypeOK, AllInStep
  <1> HIDE DEF q
  <1>3. PICK vs \in Arguments :
          Calls(h, Write(q, "insert", vs), Len(Bound(vs)), <<InsertStatement(q, vs)>>)
    BY <1>1
  <1>4. /\ Placeholders(vs) = Bound(vs) /\ Bound(vs) \in Values
        /\ Len(Bound(vs)) \in Nat
    BY <1>2, ArgumentsBind
  <1>5. OneFits(InsertStatement(q, vs))
    BY <1>1, <1>2, <1>4, InsertIsSound DEF Allowed
  <1>6. /\ Write(q, "insert", vs) \in BuilderType
        /\ AllInStep => InStep(Write(q, "insert", vs))
    BY <1>2, <1>4, WriteKeeps
  <1>7. Sound(Write(q, "insert", vs), <<InsertStatement(q, vs)>>)
    BY <1>5, <1>6, Sending
  <1> QED
    BY <1>3, <1>4, <1>7, SoundCalls

LEMMA UpdateKept ==
  ASSUME TypeOK, NEW h \in Builders, Update(h)
  PROVE  Kept
  <1> DEFINE q == Before(builder[h])
  <1>1. /\ Allowed("leftover", Leftover(q, {"from", "where"}))
        /\ \E vs \in Arguments :
             Calls(h, Write(q, "update", vs), Len(Bound(vs)), <<UpdateStatement(q, vs)>>)
    BY DEF Update
  <1>2. q \in BuilderType /\ (AllInStep => InStep(q)) /\ used \in Nat
    BY BeforeKeeps DEF TypeOK, AllInStep
  <1> HIDE DEF q
  <1>3. PICK vs \in Arguments :
          Calls(h, Write(q, "update", vs), Len(Bound(vs)), <<UpdateStatement(q, vs)>>)
    BY <1>1
  <1>4. /\ Placeholders(vs) = Bound(vs) /\ Bound(vs) \in Values
        /\ Len(Bound(vs)) \in Nat
    BY <1>2, ArgumentsBind
  <1>5. OneFits(UpdateStatement(q, vs))
    BY <1>1, <1>2, <1>4, UpdateIsSound DEF Allowed
  <1>6. /\ Write(q, "update", vs) \in BuilderType
        /\ AllInStep => InStep(Write(q, "update", vs))
    BY <1>2, <1>4, WriteKeeps
  <1>7. Sound(Write(q, "update", vs), <<UpdateStatement(q, vs)>>)
    BY <1>5, <1>6, Sending
  <1> QED
    BY <1>3, <1>4, <1>7, SoundCalls

LEMMA DeleteKept ==
  ASSUME TypeOK, NEW h \in Builders, Delete(h)
  PROVE  Kept
  <1> DEFINE a(vs) == IF vs = <<>> THEN builder[h] ELSE Add(builder[h], "where", vs)
             q(vs) == Before(a(vs))
  <1>1. PICK vs \in {<<>>, <<used + 1>>} :
          /\ Allowed("leftover", Leftover(q(vs), {"from", "where", "order"}))
          /\ Calls(h, q(vs), Len(vs), <<DeleteStatement(q(vs))>>)
    BY DEF Delete
  <1>2. builder[h] \in BuilderType /\ (AllInStep => InStep(builder[h])) /\ used \in Nat
    BY DEF TypeOK, AllInStep
  <1>3. vs \in Arguments /\ Len(vs) \in Nat
    BY DEF Arguments
  <1>4. a(vs) \in BuilderType /\ (AllInStep => InStep(a(vs)))
    BY <1>2, <1>3, ArgumentsBind, AddKeeps DEF Clauses
  <1> HIDE DEF a
  <1>5. q(vs) \in BuilderType /\ (AllInStep => InStep(q(vs)))
    BY <1>4, BeforeKeeps
  <1> HIDE DEF q
  <1>6. OneFits(DeleteStatement(q(vs)))
    BY <1>1, <1>5, DeleteIsSound DEF Allowed
  <1>7. Sound(q(vs), <<DeleteStatement(q(vs))>>)
    BY <1>5, <1>6, Sending
  <1> QED
    BY <1>1, <1>3, <1>7, SoundCalls

LEMMA UpdateOrInsertKept ==
  ASSUME TypeOK, NEW h \in Builders, UpdateOrInsert(h)
  PROVE  Kept
  <1> DEFINE condition == <<used + 1>>
             value == <<used + 2>>
             a == Add(builder[h], "where", condition)
             q == Before(a)
             r == AfterSelect(q)
             fresh == Without(r, "where")
             both == condition \o value
             found == Sends(q, <<Select(q), UpdateStatement(r, value)>>)
             absent == Sends(q, <<Select(q), InsertStatement(fresh, both)>>)
  <1>1. /\ Allowed("leftover", Leftover(q, {"from", "where"} \cap Written(q)))
        /\ \/ Panics(q) /\ Calls(h, r, 2, <<>>)
           \/ Calls(h, r, 2, Sends(q, <<Select(q)>>))
           \/ ~Panics(q) /\ Calls(h, Write(r, "update", value), 2, found)
           \/ ~Panics(q) /\ Calls(h, Write(fresh, "insert", both), 2, absent)
    BY DEF UpdateOrInsert
  <1>2. builder[h] \in BuilderType /\ (AllInStep => InStep(builder[h])) /\ used \in Nat
    BY DEF TypeOK, AllInStep
  <1>3. condition \in Values /\ value \in Values
    <2>1. used + 1 \in Nat \ {Raw} /\ used + 2 \in Nat \ {Raw}
      BY <1>2 DEF Raw
    <2> QED
      BY <2>1 DEF Values
  <1> HIDE DEF condition, value
  <1>4. both \in Values
    BY <1>3, ValuesJoin
  <1> HIDE DEF both
  <1>5. a \in BuilderType /\ (AllInStep => InStep(a)) /\ "where" \in a.components
    <2>1. "where" \in a.components
      BY <1>2 DEF Add, BuilderType
    <2> QED
      BY <1>2, <1>3, <2>1, ValuesBind, AddKeeps DEF Clauses
  <1> HIDE DEF a
  <1>6. q \in BuilderType /\ (AllInStep => InStep(q)) /\ "where" \in q.components
    <2>1. "where" \in q.components
      BY <1>5 DEF Before, Add, BuilderType
    <2> QED
      BY <1>5, <2>1, BeforeKeeps
  <1> HIDE DEF q
  <1>7. r \in BuilderType /\ (AllInStep => InStep(r)) /\ r.bindings = q.bindings
    BY <1>6, AfterSelectKeeps DEF AfterSelect, BuilderType
  <1> HIDE DEF r
  <1>8. fresh = ResetClause(r, "where")
    BY DEF ResetClause
  <1>9. fresh \in BuilderType /\ (AllInStep => InStep(fresh))
    BY <1>7, <1>8, ResetKeeps
  <1>10. Lapses = {} => ~Leftover(q, {"from", "where"} \cap Written(q))
    BY <1>1 DEF Allowed
  <1>11. Lapses = {} => ~Leftover(q, Written(q))
    BY <1>10 DEF Leftover
  <1>12. Lapses = {} => ~Leftover(r, {"from", "where"})
    BY <1>7, <1>10 DEF Leftover
  <1>13. Lapses = {} => ~Leftover(fresh, {"from"})
    BY <1>7, <1>12 DEF Leftover, Without, BuilderType
  <1> HIDE DEF fresh
  <1>14. OneFits(Select(q))
    BY <1>6, <1>11, SelectIsSound
  <1>15. OneFits(UpdateStatement(r, value))
    BY <1>3, <1>7, <1>12, ValuesBind, UpdateIsSound
  <1>16. OneFits(InsertStatement(fresh, both))
    BY <1>4, <1>9, <1>13, ValuesBind, InsertIsSound
  <1>17. /\ Write(r, "update", value) \in BuilderType
         /\ AllInStep => InStep(Write(r, "update", value))
    BY <1>3, <1>7, ValuesBind, WriteKeeps
  <1>18. /\ Write(fresh, "insert", both) \in BuilderType
         /\ AllInStep => InStep(Write(fresh, "insert", both))
    BY <1>4, <1>9, ValuesBind, WriteKeeps
  <1>19. /\ Sound(r, <<>>) /\ Sound(r, Sends(q, <<Select(q)>>))
         /\ Sound(Write(r, "update", value), found)
         /\ Sound(Write(fresh, "insert", both), absent)
    BY <1>7, <1>14, <1>15, <1>16, <1>17, <1>18, Sending DEF Sends
  <1> HIDE DEF found, absent
  <1> QED
    BY <1>1, <1>19, SoundCalls

\* What the clone that counts takes over from a builder.
LEMMA CountCloneIs ==
  ASSUME NEW b \in BuilderType
  PROVE  /\ CountClone(b).text = [b.text EXCEPT !["order"] = <<>>]
         /\ CountClone(b).bindings = [b.bindings EXCEPT !["order"] = <<>>]
         /\ CountClone(b).components = b.components \ {"order"}
         /\ CountClone(b).aggregated = TRUE
  BY DEF CountClone, ResetClause, Without, Clone, BuilderType

\* Values for columns may be dropped from a count that writes no "?" for them.
LEMMA CountFits ==
  ASSUME NEW d \in BuilderType, InStep(d), DropSelected(d) \in BuilderType,
         "select" \notin Written(d) \/ d.text["select"] = <<>>,
         ~Leftover(DropSelected(d), Written(d))
  PROVE  Fits(Select(DropSelected(d)))
  <1> DEFINE c == DropSelected(d)
             e == [c EXCEPT !.text["select"] = <<>>]
  <1>1. c \in BuilderType /\ e \in BuilderType
    BY NoValues DEF BuilderType, Clauses
  <1>2. /\ c.bindings = [d.bindings EXCEPT !["select"] = <<>>]
        /\ c.text = d.text /\ c.components = d.components /\ c.aggregated = d.aggregated
    BY DEF DropSelected, BuilderType
  <1> HIDE DEF c
  <1>3. /\ e.bindings = c.bindings /\ e.text = [c.text EXCEPT !["select"] = <<>>]
        /\ e.components = c.components /\ e.aggregated = c.aggregated
    BY <1>1 DEF BuilderType
  <1> HIDE DEF e
  <1>4. InStep(e)
    BY <1>2, <1>3 DEF InStep, BuilderType, Keys, Clauses
  <1>5. Written(e) = Written(d) /\ Written(c) = Written(d)
    BY <1>2, <1>3 DEF Written
  <1>6. ~Leftover(e, Written(e))
    BY <1>3, <1>5 DEF Leftover, c
  <1>7. CompileSelect(e) = GetBindings(e)
    BY <1>1, <1>4, <1>6, SelectFits
  <1>8. \A k \in Clauses : Part(c, k) = Part(e, k)
    BY <1>1, <1>2, <1>3, <1>5 DEF Part, BuilderType
  <1>9. CompileSelect(c) = CompileSelect(e)
    BY <1>8 DEF CompileSelect, Clauses
  <1>10. GetBindings(c) = GetBindings(e)
    BY <1>3 DEF GetBindings
  <1> QED
    BY <1>7, <1>9, <1>10 DEF Fits, Select, Statement, c

LEMMA PaginateKept ==
  ASSUME TypeOK, NEW h \in Builders, Paginate(h)
  PROVE  Kept
  <1> DEFINE b == builder[h]
             d == CountClone(b)
             count == DropSelected(d)
             q == Before(b)
  <1>1. /\ b.components \cap {"groupBy", "having"} = {}
        /\ Allowed("unpaged", b.callbacks # <<>>)
        /\ Allowed("leftover", Leftover(q, Written(q)))
        /\ \/ Calls(h, b, 0, Sends(count, <<Select(count)>>))
           \/ Calls(h, AfterSelect(q), 0, Sends(q, <<Select(count), Select(q)>>))
    BY DEF Paginate
  <1>2. b \in BuilderType /\ (AllInStep => InStep(b))
    BY DEF TypeOK, AllInStep
  <1> HIDE DEF b
  <1>3. d \in BuilderType /\ (AllInStep => InStep(d)) /\ count \in BuilderType
    BY <1>2, CountCloneKeeps
  <1>4. q \in BuilderType /\ (AllInStep => InStep(q))
    BY <1>2, BeforeKeeps
  <1>5. /\ d.text = [b.text EXCEPT !["order"] = <<>>]
        /\ d.bindings = [b.bindings EXCEPT !["order"] = <<>>]
        /\ d.components = b.components \ {"order"}
        /\ d.aggregated = TRUE
    BY <1>2, CountCloneIs
  <1> HIDE DEF d
  <1>6. count.bindings = [d.bindings EXCEPT !["select"] = <<>>]
    BY <1>3 DEF DropSelected, BuilderType
  <1> HIDE DEF count
  <1>7. Written(d) = b.components \ {"order", "select"}
    BY <1>1, <1>5 DEF Written
  <1>8. ASSUME Lapses = {}, AllInStep
        PROVE  Fits(Select(count))
    <2>1. q = b
      BY <1>1, <1>8 DEF Allowed, Before
    <2>2. ~Leftover(b, Written(b))
      BY <1>1, <1>8, <2>1 DEF Allowed
    <2>3. ~Leftover(count, Written(d))
      BY <1>2, <1>5, <1>6, <1>7, <2>2 DEF Leftover, Written, BuilderType, Keys, Clauses
    <2> QED
      BY <1>3, <1>7, <1>8, <2>3, CountFits DEF count
  <1> HIDE DEF q
  <1>9. OneFits(Select(count))
    BY <1>3, <1>8, SelectIsOne DEF OneFits
  <1>10. OneFits(Select(q))
    BY <1>1, <1>4, SelectIsSound DEF Allowed
  <1>11. AfterSelect(q) \in BuilderType /\ (AllInStep => InStep(AfterSelect(q)))
    BY <1>4, AfterSelectKeeps
  <1>12. /\ Sound(b, Sends(count, <<Select(count)>>))
         /\ Sound(AfterSelect(q), Sends(q, <<Select(count), Select(q)>>))
    BY <1>2, <1>9, <1>10, <1>11, Sending DEF Sends
  <1> QED
    BY <1>1, <1>12, SoundCalls

LEMMA PaginateUsingPaginatorKept ==
  ASSUME TypeOK, NEW h \in Builders, PaginateUsingPaginator(h)
  PROVE  Kept
  <1> DEFINE b == builder[h]
             d == CountClone(b)
             count == [d EXCEPT !.bindings = b.bindings]
             q == Before(b)
  <1>1. /\ Allowed("leftover", Leftover(q, Written(q)) \/ Leftover(count, Written(count)))
        /\ \/ Calls(h, b, 0, Sends(count, <<Select(count)>>))
           \/ Calls(h, AfterSelect(q), 0, Sends(q, <<Select(count), Select(q)>>))
    BY DEF PaginateUsingPaginator
  <1>2. b \in BuilderType /\ (AllInStep => InStep(b))
    BY DEF TypeOK, AllInStep
  <1> HIDE DEF b
  <1>3. d \in BuilderType /\ d.text = [b.text EXCEPT !["order"] = <<>>]
    BY <1>2, CountCloneKeeps, CountCloneIs
  <1>4. q \in BuilderType /\ (AllInStep => InStep(q))
    BY <1>2, BeforeKeeps
  <1>5. /\ count.text = d.text /\ count.bindings = b.bindings
        /\ count.components = d.components /\ count.aggregated = d.aggregated
        /\ count \in BuilderType
    BY <1>2, <1>3 DEF BuilderType
  <1>6. d.components = b.components \ {"order"}
    BY <1>2, CountCloneIs
  <1> HIDE DEF count, d, q
  <1>7. ASSUME Lapses = {}, AllInStep
        PROVE  InStep(count)
    <2>1. ~Leftover(count, Written(count))
      BY <1>1, <1>7 DEF Allowed
    <2>2. b.bindings["order"] = <<>>
      BY <1>5, <1>6, <2>1 DEF Leftover, Written, Keys, Clauses
    <2> QED
      BY <1>2, <1>3, <1>5, <1>7, <2>2 DEF InStep, BuilderType
  <1>8. OneFits(Select(count))
    BY <1>1, <1>5, <1>7, SelectIsSound DEF Allowed
  <1>9. OneFits(Select(q))
    BY <1>1, <1>4, SelectIsSound DEF Allowed
  <1>10. AfterSelect(q) \in BuilderType /\ (AllInStep => InStep(AfterSelect(q)))
    BY <1>4, AfterSelectKeeps
  <1>11. /\ Sound(b, Sends(count, <<Select(count)>>))
         /\ Sound(AfterSelect(q), Sends(q, <<Select(count), Select(q)>>))
    BY <1>2, <1>8, <1>9, <1>10, Sending DEF Sends
  <1> QED
    BY <1>1, <1>11, SoundCalls

LEMMA GetCountForPaginationKept ==
  ASSUME TypeOK, NEW h \in Builders, GetCountForPagination(h)
  PROVE  Kept
  <1> DEFINE b == builder[h]
             d == Clone(CountClone(b))
             count == DropSelected(d)
  <1>1. /\ Allowed("leftover", Leftover(count, Written(count)))
        /\ Allowed("having", "having" \in count.components /\ count.text["select"] # <<>>)
        /\ Calls(h, b, 0, Sends(count, <<Select(count)>>))
    BY DEF GetCountForPagination
  <1>2. b \in BuilderType /\ (AllInStep => InStep(b))
    BY DEF TypeOK, AllInStep
  <1> HIDE DEF b
  <1>3. CountClone(b) \in BuilderType /\ (AllInStep => InStep(CountClone(b)))
    BY <1>2, CountCloneKeeps
  <1>4. d \in BuilderType /\ (AllInStep => InStep(d)) /\ count \in BuilderType
    BY <1>2, <1>3, CountCloneKeeps, CloneKeeps
  <1>5. CountClone(b).aggregated = TRUE
    BY <1>2, CountCloneIs
  <1>6. d.aggregated = TRUE
    BY <1>3, <1>5 DEF Clone, BuilderType
  <1> HIDE DEF d
  <1>7. /\ count.text = d.text /\ count.components = d.components
        /\ count.aggregated = d.aggregated
    BY <1>4 DEF DropSelected, BuilderType
  <1> HIDE DEF count
  <1>8. ASSUME Lapses = {}, AllInStep
        PROVE  Fits(Select(count))
    <2>1. ~Leftover(count, Written(d))
      BY <1>1, <1>7, <1>8 DEF Allowed, Written
    <2>2. "select" \notin Written(d) \/ d.text["select"] = <<>>
      BY <1>1, <1>6, <1>7, <1>8 DEF Allowed, Written
    <2> QED
      BY <1>4, <1>8, <2>1, <2>2, CountFits DEF count
  <1>9. OneFits(Select(count))
    BY <1>4, <1>8, SelectIsOne DEF OneFits
  <1>10. Sound(b, Sends(count, <<Select(count)>>))
    BY <1>2, <1>9, Sending DEF Sends
  <1> QED
    BY <1>1, <1>10, SoundCalls

-----------------------------------------------------------------------------
(* The theorems. *)

\* Every call keeps builders well formed and, without lapses, in step.
LEMMA StepKept ==
  ASSUME TypeOK, Next
  PROVE  Kept
  <1>1. PICK h \in Builders :
          \/ \E c \in Clauses : Clause(h, c)
          \/ FromRaw(h) \/ WhereStruct(h) \/ BeforeQuery(h)
          \/ \E g \in Builders, c \in Clauses : Sub(h, g, c)
          \/ \E g \in Builders : CloneBuilder(h, g)
          \/ Reset(h) \/ ReOrder(h) \/ SetAggregate(h)
          \/ Get(h) \/ Aggregate(h) \/ Insert(h) \/ Update(h) \/ Delete(h)
          \/ UpdateOrInsert(h) \/ Paginate(h) \/ PaginateUsingPaginator(h)
          \/ GetCountForPagination(h)
    BY DEF Next, SelectRaw, Join, Where, GroupByRaw, Having, OrderByRaw, Clauses
  <1>2. CASE \E c \in Clauses : Clause(h, c)
    BY <1>2, ClauseKept
  <1>3. CASE FromRaw(h) \/ WhereStruct(h) \/ BeforeQuery(h)
    BY <1>3, FromRawKept, WhereStructKept, BeforeQueryKept
  <1>4. CASE \E g \in Builders, c \in Clauses : Sub(h, g, c)
    BY <1>4, SubKept
  <1>5. CASE \E g \in Builders : CloneBuilder(h, g)
    BY <1>5, CloneKept
  <1>6. CASE Reset(h) \/ ReOrder(h) \/ SetAggregate(h)
    BY <1>6, ChangesKept
  <1>7. CASE Get(h) \/ Aggregate(h)
    BY <1>7, GetKept, AggregateKept
  <1>8. CASE Insert(h) \/ Update(h) \/ Delete(h) \/ UpdateOrInsert(h)
    BY <1>8, InsertKept, UpdateKept, DeleteKept, UpdateOrInsertKept
  <1>9. CASE Paginate(h) \/ PaginateUsingPaginator(h) \/ GetCountForPagination(h)
    BY <1>9, PaginateKept, PaginateUsingPaginatorKept, GetCountForPaginationKept
  <1> QED
    BY <1>1, <1>2, <1>3, <1>4, <1>5, <1>6, <1>7, <1>8, <1>9

LEMMA InitKept == Init => TypeOK /\ AllInStep /\ ValuesFit
  <1> SUFFICES ASSUME Init PROVE TypeOK /\ AllInStep /\ ValuesFit
    OBVIOUS
  <1>1. builder \in [Builders -> BuilderType] /\ AllInStep
    BY NewBuilderIsOne DEF Init, AllInStep
  <1>2. sent \in Seq(StatementType) /\ Len(sent) = 0
    BY DEF Init
  <1> QED
    BY <1>1, <1>2, MaxCallsAssumption DEF Init, TypeOK, ValuesFit

LEMMA TypePreserved == TypeOK /\ [Next]_vars => TypeOK'
  <1> SUFFICES ASSUME TypeOK, [Next]_vars PROVE TypeOK'
    OBVIOUS
  <1>1. CASE Next
    <2>1. calls' \in 0..MaxCalls
      BY <1>1, MaxCallsAssumption DEF Next, TypeOK
    <2> QED
      BY <1>1, <2>1, StepKept DEF Kept, TypeOK
  <1>2. CASE UNCHANGED vars
    BY <1>2 DEF vars, TypeOK
  <1> QED
    BY <1>1, <1>2

\* Builders and statements hold numbered values throughout, never an Expression
\* (AddBinding, builder.go:573-585).
THEOREM BuildersTypeCorrect == Spec => []TypeOK
  <1> QED
    BY InitKept, TypePreserved, PTL DEF Spec

\* Callers that keep from the lapses get every statement sent with the values of
\* its "?", each at its place, through any calls on any builders (GetBindings,
\* builder.go:590-597, against CompileSelect, CompileInsert, CompileUpdate and
\* CompileDelete).
THEOREM ValuesAlwaysFit ==
  ASSUME Lapses = {}
  PROVE  Spec => []ValuesFit
  <1> DEFINE IInv == TypeOK /\ AllInStep /\ ValuesFit
  <1>1. Init => IInv
    BY InitKept
  <1>2. IInv /\ [Next]_vars => IInv'
    <2> SUFFICES ASSUME IInv, [Next]_vars PROVE IInv'
      OBVIOUS
    <2>1. TypeOK'
      BY TypePreserved
    <2>2. CASE Next
      BY <2>1, <2>2, StepKept DEF Kept
    <2>3. CASE UNCHANGED vars
      BY <2>1, <2>3 DEF vars, AllInStep, ValuesFit
    <2> QED
      BY <2>2, <2>3
  <1>3. IInv => ValuesFit
    OBVIOUS
  <1> QED
    BY <1>1, <1>2, <1>3, PTL DEF Spec

\* The statement of the total has the table, joins and wheres of the page's.
LEMMA CountRows ==
  ASSUME NEW b \in BuilderType, NEW bindings
  PROVE  /\ Select(DropSelected(CountClone(b))).rows = Select(b).rows
         /\ Select([CountClone(b) EXCEPT !.bindings = bindings]).rows = Select(b).rows
  <1> DEFINE d == CountClone(b)
  <1>1. /\ d \in BuilderType
        /\ d.text = [b.text EXCEPT !["order"] = <<>>]
        /\ d.components = b.components \ {"order"}
    BY CountCloneIs, CountCloneKeeps
  <1> HIDE DEF d
  <1>2. ASSUME NEW e, e.text = d.text, e.components = d.components
        PROVE  Select(e).rows = Select(b).rows
    <2>1. ASSUME NEW c \in {"from", "join", "where"}
          PROVE  Part(e, c) = Part(b, c)
      <3>1. e.text[c] = b.text[c]
        BY <1>1, <1>2 DEF BuilderType, Clauses
      <3>2. c \in Written(e) <=> c \in e.components
        BY DEF Written
      <3>3. c \in Written(b) <=> c \in b.components
        BY DEF Written
      <3> QED
        BY <1>1, <1>2, <3>1, <3>2, <3>3 DEF Part
    <2> QED
      BY <2>1 DEF Select, Statement
  <1>3. /\ DropSelected(d).text = d.text
        /\ DropSelected(d).components = d.components
        /\ [d EXCEPT !.bindings = bindings].text = d.text
        /\ [d EXCEPT !.bindings = bindings].components = d.components
    BY <1>1 DEF DropSelected, BuilderType
  <1> QED
    BY <1>2, <1>3 DEF d

\* Two statements, the second no select, are not those of a pagination.
LEMMA OtherPairs ==
  ASSUME NEW q, NEW s, NEW t, t.kind # "select", sent' = Sends(q, <<s, t>>)
  PROVE  TotalFitsPages'
  BY DEF Sends, TotalFitsPages

LEMMA Singles ==
  ASSUME NEW q, NEW s, sent' \in {<<>>, <<s>>, Sends(q, <<s>>)}
  PROVE  TotalFitsPages'
  <1>1. sent' = <<>> \/ sent' = <<s>>
    BY DEF Sends
  <1>2. Len(sent') # 2
    BY <1>1
  <1> QED
    BY <1>2 DEF TotalFitsPages

LEMMA Pairs ==
  ASSUME NEW q, NEW s, NEW t, s.rows = t.rows, sent' = Sends(q, <<s, t>>)
  PROVE  TotalFitsPages'
  BY DEF Sends, TotalFitsPages

\* Unless a builder with BeforeQuery callbacks is paginated, totals count the rows
\* of their pages (Paginate, builder.go:2918-2943, and PaginateUsingPaginator).
THEOREM TotalsFitPages ==
  ASSUME "unpaged" \notin Lapses
  PROVE  Spec => []TotalFitsPages
  <1>1. Init => TotalFitsPages
    BY DEF Init, TotalFitsPages
  <1>2. TypeOK /\ TotalFitsPages /\ [Next]_vars => TotalFitsPages'
    <2> SUFFICES ASSUME TypeOK, TotalFitsPages, [Next]_vars PROVE TotalFitsPages'
      OBVIOUS
    <2>1. CASE UNCHANGED vars
      BY <2>1 DEF vars, TotalFitsPages
    <2>2. ASSUME NEW h \in Builders, Paginate(h) \/ PaginateUsingPaginator(h)
          PROVE  TotalFitsPages'
      <3> DEFINE b == builder[h]
                 first == DropSelected(CountClone(b))
                 other == [CountClone(b) EXCEPT !.bindings = b.bindings]
      <3>1. b \in BuilderType
        BY DEF TypeOK
      <3>2. Before(b) = b
        BY <2>2 DEF Paginate, PaginateUsingPaginator, Allowed, Before
      <3>3. \E c \in {first, other} :
              sent' = Sends(c, <<Select(c)>>) \/ sent' = Sends(b, <<Select(c), Select(b)>>)
        BY <2>2, <3>2 DEF Paginate, PaginateUsingPaginator, Calls
      <3>4. Select(first).rows = Select(b).rows /\ Select(other).rows = Select(b).rows
        BY <3>1, CountRows
      <3> HIDE DEF first, other, b
      <3> QED
        BY <3>3, <3>4, Pairs, Singles
    <2>3. ASSUME NEW h \in Builders, UpdateOrInsert(h)
          PROVE  TotalFitsPages'
      <3>1. \/ sent' = <<>>
            \/ \E q, s : sent' = Sends(q, <<s>>)
            \/ \E q, s, b, vs : sent' = Sends(q, <<s, UpdateStatement(b, vs)>>)
            \/ \E q, s, b, vs : sent' = Sends(q, <<s, InsertStatement(b, vs)>>)
        BY <2>3 DEF UpdateOrInsert, Calls
      <3>2. \A b, vs : /\ UpdateStatement(b, vs).kind # "select"
                       /\ InsertStatement(b, vs).kind # "select"
        BY DEF UpdateStatement, InsertStatement, Statement
      <3>3. CASE sent' = <<>>
        BY <3>3, Singles
      <3>4. ASSUME NEW q, NEW s, sent' = Sends(q, <<s>>)
            PROVE  TotalFitsPages'
        BY <3>4, Singles
      <3>5. ASSUME NEW q, NEW s, NEW b, NEW vs,
                   sent' = Sends(q, <<s, UpdateStatement(b, vs)>>)
            PROVE  TotalFitsPages'
        <4> DEFINE t == UpdateStatement(b, vs)
        <4>1. t.kind # "select" /\ sent' = Sends(q, <<s, t>>)
          BY <3>2, <3>5
        <4> HIDE DEF t
        <4> QED
          BY <4>1, OtherPairs
      <3>6. ASSUME NEW q, NEW s, NEW b, NEW vs,
                   sent' = Sends(q, <<s, InsertStatement(b, vs)>>)
            PROVE  TotalFitsPages'
        <4> DEFINE t == InsertStatement(b, vs)
        <4>1. t.kind # "select" /\ sent' = Sends(q, <<s, t>>)
          BY <3>2, <3>6
        <4> HIDE DEF t
        <4> QED
          BY <4>1, OtherPairs
      <3> QED
        BY <3>1, <3>3, <3>4, <3>5, <3>6
    <2>4. ASSUME NEW h \in Builders,
                 \/ \E c \in Clauses : Clause(h, c)
                 \/ FromRaw(h) \/ WhereStruct(h) \/ BeforeQuery(h)
                 \/ \E g \in Builders, c \in Clauses : Sub(h, g, c)
                 \/ \E g \in Builders : CloneBuilder(h, g)
                 \/ Reset(h) \/ ReOrder(h) \/ SetAggregate(h)
          PROVE  TotalFitsPages'
      <3>1. sent' = <<>>
        BY <2>4 DEF Clause, FromRaw, WhereStruct, BeforeQuery, Sub, CloneBuilder,
                    Reset, ReOrder, SetAggregate, Calls
      <3> QED
        BY <3>1, Singles
    <2>5. ASSUME NEW h \in Builders,
                 \/ Get(h) \/ Aggregate(h) \/ Insert(h) \/ Update(h) \/ Delete(h)
                 \/ GetCountForPagination(h)
          PROVE  TotalFitsPages'
      <3>1. \E q, s : sent' \in {<<s>>, Sends(q, <<s>>)}
        BY <2>5 DEF Get, Aggregate, Insert, Update, Delete, GetCountForPagination, Calls
      <3> QED
        BY <3>1, Singles
    <2> QED
      BY <2>1, <2>2, <2>3, <2>4, <2>5
         DEF Next, SelectRaw, Join, Where, GroupByRaw, Having, OrderByRaw, Clauses
  <1> QED
    BY <1>1, <1>2, BuildersTypeCorrect, PTL DEF Spec
=============================================================================
