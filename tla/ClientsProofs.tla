--------------------------- MODULE ClientsProofs ---------------------------
(***************************************************************************)
(* Any number of writers and a reader, with any connections and keys.      *)
(***************************************************************************)
EXTENDS Clients, FindOrCreateProofs, TablePageProofs

-----------------------------------------------------------------------------
(* The registry by itself. *)

\* What a client wants is of the kind that it looks for.
Kinds ==
  \A c \in Clients :
    /\ at[c] \in {"look", "make", "set", "reread"} => want[c] \in Names
    /\ at[c] \in {"load", "store"} => want[c] \in Types

\* The pool that Open made is in its place, and nobody is about to write there.
DefaultStays ==
  /\ connections[Default] = 1 /\ made[Default] = 1
  /\ \A c \in Clients : Writing(c) => want[c] # Default

\* What was made once is found from then on.
Found ==
  /\ \A c \in Clients : at[c] = "set" => mine[c] # 0
  /\ \A c \in Clients, n \in Names : <<c, n>> \in makers => connections[n] # 0
  /\ \A c \in Clients, t \in Types : <<c, t>> \in parsers => models[t] # 0

RegistryInv == RegistryTypeOK /\ Kinds /\ DefaultStays /\ Found /\ MadeOnceEach

LEMMA RegistryInvInit == RegistryInit => RegistryInv
<1>. SUFFICES ASSUME RegistryInit PROVE RegistryInv
  OBVIOUS
<1>1. PICK warm \in {0, 1} :
        /\ models = [t \in Types |-> warm] /\ parsed = [t \in Types |-> warm]
        /\ pool = [c \in Clients |-> warm] /\ model = [c \in Clients |-> warm]
  BY DEF RegistryInit
<1>2. RegistryTypeOK
  <2>1. /\ models \in [Types -> Nat] /\ parsed \in [Types -> Nat]
        /\ pool \in [Clients -> Nat] /\ model \in [Clients -> Nat]
    BY <1>1
  <2>2. connections \in [Names -> Nat] /\ made \in [Names -> Nat]
    BY DEF RegistryInit, Opened
  <2>. QED
    BY <2>1, <2>2, RegistryAssumption DEF RegistryInit, RegistryTypeOK
<1>3. Kinds /\ DefaultStays /\ Found /\ MadeOnceEach
  BY RegistryAssumption
     DEF RegistryInit, Kinds, DefaultStays, Found, MadeOnceEach, Opened, Writing
<1>. QED
  BY <1>2, <1>3 DEF RegistryInv

LEMMA AskKeeps ==
  ASSUME RegistryInv, NEW c \in Clients, Ask(c)
  PROVE  RegistryInv'
<1>. USE DEF RegistryInv, Ask, Goes
<1>1. RegistryTypeOK'
  BY RegistryAssumption DEF RegistryTypeOK
<1>2. Kinds' /\ DefaultStays' /\ Found' /\ MadeOnceEach'
  BY DEF RegistryTypeOK, Kinds, DefaultStays, Found, MadeOnceEach, Writing
<1>. QED
  BY <1>1, <1>2

LEMMA MovesKeeps ==
  ASSUME RegistryInv, NEW c \in Clients, Moves(c)
  PROVE  RegistryInv'
<1>. USE DEF RegistryInv, Goes
<1>1. CASE Look(c)
  <2>1. RegistryTypeOK'
    BY <1>1 DEF RegistryTypeOK, Look, Kinds
  <2>2. Kinds' /\ Found'
    BY <1>1 DEF RegistryTypeOK, Look, Kinds, Found
  <2>3. DefaultStays' /\ MadeOnceEach'
    BY <1>1 DEF RegistryTypeOK, Look, Kinds, Found, DefaultStays, MadeOnceEach, Missing, Writing
  <2>. QED
    BY <2>1, <2>2, <2>3
<1>2. CASE MakeFails(c)
  BY <1>2 DEF RegistryTypeOK, MakeFails, Kinds, Found, DefaultStays, MadeOnceEach, Writing
<1>3. CASE Make(c)
  <2>1. want[c] \in Names /\ want[c] # Default /\ made[want[c]] \in Nat
    BY <1>3 DEF Make, Kinds, DefaultStays, Writing, RegistryTypeOK
  <2>2. RegistryTypeOK'
    BY <1>3, <2>1 DEF RegistryTypeOK, Make
  <2>3. Kinds' /\ DefaultStays'
    BY <1>3, <2>1, RegistryAssumption DEF RegistryTypeOK, Make, Kinds, DefaultStays, Writing
  <2>4. Found'
    BY <1>3, <2>1 DEF RegistryTypeOK, Make, Found
  <2>5. MadeOnceEach'
    BY <1>3, <2>1 DEF RegistryTypeOK, Make, MadeOnceEach
  <2>. QED
    BY <2>2, <2>3, <2>4, <2>5
<1>4. CASE Set(c)
  <2>1. want[c] \in Names /\ want[c] # Default /\ mine[c] \in Nat \ {0}
    BY <1>4 DEF Set, Kinds, DefaultStays, Writing, RegistryTypeOK, Found
  <2>2. RegistryTypeOK'
    BY <1>4, <2>1 DEF RegistryTypeOK, Set
  <2>3. Kinds' /\ DefaultStays' /\ MadeOnceEach'
    BY <1>4, <2>1, RegistryAssumption
       DEF RegistryTypeOK, Set, Kinds, DefaultStays, Writing, MadeOnceEach
  <2>4. Found'
    BY <1>4, <2>1 DEF RegistryTypeOK, Set, Found
  <2>. QED
    BY <2>2, <2>3, <2>4
<1>5. CASE Reread(c)
  BY <1>5 DEF RegistryTypeOK, Reread, Kinds, Found, DefaultStays, MadeOnceEach, Writing
<1>6. CASE Load(c)
  <2>1. RegistryTypeOK'
    BY <1>6 DEF RegistryTypeOK, Load, Kinds
  <2>2. Kinds' /\ Found'
    BY <1>6 DEF RegistryTypeOK, Load, Kinds, Found
  <2>3. DefaultStays' /\ MadeOnceEach'
    BY <1>6 DEF RegistryTypeOK, Load, Kinds, Found, DefaultStays, MadeOnceEach, Writing
  <2>. QED
    BY <2>1, <2>2, <2>3
<1>7. CASE Store(c)
  <2>1. want[c] \in Types /\ parsed[want[c]] \in Nat
    BY <1>7 DEF Store, Kinds, RegistryTypeOK
  <2>2. RegistryTypeOK'
    BY <1>7, <2>1 DEF RegistryTypeOK, Store
  <2>3. Kinds' /\ DefaultStays'
    BY <1>7 DEF RegistryTypeOK, Store, Kinds, DefaultStays, Writing
  <2>4. Found'
    BY <1>7, <2>1 DEF RegistryTypeOK, Store, Found
  <2>5. MadeOnceEach'
    BY <1>7, <2>1 DEF RegistryTypeOK, Store, MadeOnceEach
  <2>. QED
    BY <2>2, <2>3, <2>4, <2>5
<1>. QED
  BY <1>1, <1>2, <1>3, <1>4, <1>5, <1>6, <1>7 DEF Moves

LEMMA RegistryInvKept ==
  ASSUME RegistryInv, [RegistryNext]_registryVars
  PROVE  RegistryInv'
<1>. USE DEF RegistryInv
<1>1. CASE UNCHANGED registryVars
  BY <1>1 DEF registryVars, RegistryTypeOK, Kinds, DefaultStays, Found, MadeOnceEach, Writing
<1>2. CASE Crash
  BY <1>2 DEF Crash, RegistryTypeOK, Kinds, DefaultStays, Found, MadeOnceEach, Writing
<1>. QED
  BY <1>1, <1>2, AskKeeps, MovesKeeps DEF RegistryNext

\* The inductive invariant implies that the pool is shared.
LEMMA DefaultShared == RegistryInv => OpenedOnce
BY DEF RegistryInv, DefaultStays, OpenedOnce

\* Whatever goroutines, names and types there are, the invariant holds always.
THEOREM RegistrySafe == RegistrySpec => []RegistryInv
<1>1. RegistryInit => RegistryInv
  BY RegistryInvInit
<1>2. RegistryInv /\ [RegistryNext]_registryVars => RegistryInv'
  BY RegistryInvKept
<1>. QED
  BY <1>1, <1>2, PTL DEF RegistrySpec

-----------------------------------------------------------------------------
(* The program. *)

\* Each step of the program is a step of the registry or leaves it alone.
LEMMA RegistrySteps ==
  ASSUME [Next]_vars
  PROVE  [RegistryNext]_registryVars
<1>1. CASE AskFor \/ Answer \/ End
  BY <1>1 DEF Next, vars, AskFor, Answer, End, RegistryNext
<1>2. CASE BeginFind \/ Find \/ ChangeRow \/ Read
  BY <1>2 DEF BeginFind, Find, ChangeRow, Read
<1>. QED
  BY <1>1, <1>2 DEF Next, vars

\* ... and a step of one call, of others, or of none.
LEMMA FindSteps ==
  ASSUME [Next]_vars
  PROVE  \/ UNCHANGED <<tableVars, findVars>>
         \/ \E c \in Writers, fn \in Helpers, k, to \in Keys : Begin(c, fn, k, to)
         \/ \E c \in Writers : Statement(c)
         \/ Change
<1>1. CASE AskFor \/ Answer \/ End \/ Read
  BY <1>1 DEF AskFor, Answer, End, Read
<1>2. CASE BeginFind \/ Find \/ ChangeRow
  BY <1>2 DEF BeginFind, Find, ChangeRow
<1>. QED
  BY <1>1, <1>2 DEF Next, vars

\* The goroutines among their other calls use the DatabaseManager as the registry
\* specifies.
THEOREM ClientsFollowRegistry == Spec => RegistrySpec
<1>1. Init => RegistryInit
  BY DEF Init
<1>2. [Next]_vars => [RegistryNext]_registryVars
  BY RegistrySteps
<1>. QED
  BY <1>1, <1>2, PTL DEF Spec, RegistrySpec

\* However goroutines race for other connections, they share the one that Open
\* made.
THEOREM ClientsOpenedOnce == Spec => []OpenedOnce
<1>1. RegistryInv => OpenedOnce
  BY DefaultShared
<1>. QED
  BY <1>1, ClientsFollowRegistry, RegistrySafe, PTL

\* A goroutine makes no pool and parses no model twice.
THEOREM ClientsMadeOnceEach == Spec => []MadeOnceEach
<1>1. RegistryInv => MadeOnceEach
  BY DEF RegistryInv
<1>. QED
  BY <1>1, ClientsFollowRegistry, RegistrySafe, PTL

-----------------------------------------------------------------------------
(* Finding and creating. *)

LEMMA FindInvKept ==
  ASSUME FindInv, [Next]_vars
  PROVE  FindInv'
<1>1. CASE UNCHANGED <<tableVars, findVars>>
  BY <1>1 DEF tableVars, findVars, FindInv, FindTypeOK, OwnIds, Excuses, Idle, NoneYet,
              OneRowEach, Holding, FoundStays, Sought, ReportHolds, Underway
<1>2. CASE Change
  BY <1>2, ChangeKeeps
<1>3. CASE \E c \in Writers : Statement(c)
  BY <1>3, StatementKeeps
<1>4. CASE \E c \in Writers, fn \in Helpers, k, to \in Keys : Begin(c, fn, k, to)
  BY <1>4, BeginKeeps
<1>. QED
  BY <1>1, <1>2, <1>3, <1>4, FindSteps

THEOREM ClientsFindInv == Spec => []FindInv
<1>1. Init => FindInv
  BY FindInvInit DEF Init
<1>2. FindInv /\ [Next]_vars => FindInv'
  BY FindInvKept
<1>. QED
  BY <1>1, <1>2, PTL DEF Spec

\* Calls that do not overlap and write the key they ask for, retries of calls that
\* failed among them, leave one row of each key; with a unique index all calls do.
THEOREM ClientsOneRowEach == Spec => []OneRowEach
<1>1. FindInv => OneRowEach
  BY DEF FindInv
<1>. QED
  BY <1>1, ClientsFindInv, PTL

\* A call that reports a write has left a row with its values, the key among them if
\* the values hold one, unless others wrote to a row it had found or left.
THEOREM ClientsReportHolds == Spec => []ReportHolds
<1>1. FindInv => ReportHolds
  BY DEF FindInv
<1>. QED
  BY <1>1, ClientsFindInv, PTL

\* A call turns rows of the key it asks for into rows of the key it writes, and
\* writes to no others but the one its Save had found, if others wrote to that.
THEOREM ClientsOwnKeys == Spec => OwnKeysOnly
<1>1. ASSUME FindInv, [Next]_vars
      PROVE  [\A c \in Writers : ~Idle(c) /\ call'[c] # call[c] =>
                /\ \A r \in table \ table' :
                     r.key = call[c].key \/ (r.id = call[c].held /\ c \in disturbed)
                /\ \A r \in table' \ table :
                     r.key = call[c].to \/ (r.id = call[c].held /\ c \in disturbed)
             ]_<<tableVars, findVars>>
  <2>. SUFFICES ASSUME NEW d \in Writers, ~Idle(d), call'[d] # call[d]
                PROVE  /\ \A r \in table \ table' :
                            r.key = call[d].key \/ (r.id = call[d].held /\ d \in disturbed)
                       /\ \A r \in table' \ table :
                            r.key = call[d].to \/ (r.id = call[d].held /\ d \in disturbed)
    OBVIOUS
  <2>1. CASE UNCHANGED table \/ UNCHANGED call
    BY <2>1
  <2>2. CASE \E c \in Writers : Statement(c)
    BY <1>1, <2>2, StatementOwn
  <2>3. CASE UNCHANGED <<tableVars, findVars>>
    BY <2>1, <2>3 DEF tableVars
  <2>4. CASE Change
    BY <2>1, <2>4 DEF Change
  <2>5. CASE \E c \in Writers, fn \in Helpers, k, to \in Keys : Begin(c, fn, k, to)
    BY <2>1, <2>5 DEF Begin, tableVars
  <2>. QED
    BY <1>1, <2>2, <2>3, <2>4, <2>5, FindSteps
<1>. QED
  BY <1>1, ClientsFindInv, PTL DEF Spec, OwnKeysOnly

-----------------------------------------------------------------------------
(* The reader. *)

\* The ids of the server only grow.
LEMMA IdsGrow ==
  ASSUME FindInv, [Next]_vars
  PROVE  lastId \in Nat /\ lastId' \in Nat /\ lastId <= lastId'
<1>1. lastId \in Nat /\ lastId' \in Nat
  BY FindInvKept DEF FindInv, FindTypeOK
<1>2. ASSUME NEW c \in Writers, Statement(c)
      PROVE  lastId <= lastId'
  <2>1. CASE Insert(c)
    BY <1>1, <2>1 DEF Insert
  <2>2. CASE Create(c)
    <3>1. \/ lastId' = lastId
          \/ call[c].held = 0 /\ lastId' = NewId(c)
      BY <2>2 DEF Create
    <3>. QED
      BY <1>1, <3>1 DEF NewId
  <2>3. CASE Update(c)
    <3>1. lastId' = lastId
      BY <2>3 DEF Update, Updates
    <3>. QED
      BY <1>1, <3>1
  <2>4. CASE Save(c)
    <3>1. lastId' = lastId
      BY <2>4 DEF Save, Updates, tableVars
    <3>. QED
      BY <1>1, <3>1
  <2>5. CASE Exists(c) \/ FirstRow(c) \/ FirstPanics(c) \/ Fails(c)
    <3>1. lastId' = lastId
      BY <2>5 DEF Exists, FirstRow, FirstPanics, Fails, tableVars
    <3>. QED
      BY <1>1, <3>1
  <2>. QED
    BY <1>2, <2>1, <2>2, <2>3, <2>4, <2>5 DEF Statement
<1>3. CASE Change
  BY <1>1, <1>3 DEF Change
<1>4. CASE \E c \in Writers, fn \in Helpers, k, to \in Keys : Begin(c, fn, k, to)
  BY <1>1, <1>4 DEF Begin, tableVars
<1>. QED
  BY <1>1, <1>2, <1>3, <1>4, FindSteps DEF tableVars

\* Sets of ids are finite.
LEMMA IdsFinite ==
  ASSUME NEW n \in Nat, NEW S, S \subseteq 1..n
  PROVE  IsFiniteSet(S) /\ Cardinality(S) \in Nat
<1>1. IsFiniteSet(1..n)
  BY FS_Interval
<1>2. IsFiniteSet(S)
  BY <1>1, FS_Subset
<1>. QED
  BY <1>2, FS_CardinalityType

\* A page begins where the pages before it end.
LEMMA WindowFacts ==
  ASSUME ReadTypeOK
  PROVE  /\ Window \in [offset : Nat, limit : Nat]
         /\ page >= 1 => Window = [offset |-> (page - 1) * size, limit |-> size]
<1>1. size \in Nat /\ page \in Nat
  BY ReadAssumption DEF ReadTypeOK
<1>2. (page - 1) * size \in Int /\ (page >= 1 => (page - 1) * size \in Nat)
  <2>1. page >= 1 => page - 1 \in Nat
    BY <1>1
  <2>. QED
    BY <1>1, <2>1
<1>. QED
  BY <1>1, <1>2 DEF Window, ForPage, Clamp

LEMMA ReadStepTypes ==
  ASSUME FindInv, ReadTypeOK, ReadStep, UNCHANGED <<tableVars, findVars>>
  PROVE  ReadTypeOK'
<1>. USE DEF ReadTypeOK, Ended
<1>1. lastId' = lastId /\ lastId \in Nat /\ Ids(table) \subseteq 1..lastId
  BY DEF FindInv, FindTypeOK, tableVars
<1>2. ASSUME NEW next \in {"read", "count", "panicked"}, Begins(next), page' \in Nat
      PROVE  ReadTypeOK'
  <2>1. reads' \in 0..MaxReads
    BY <1>2, ReadAssumption DEF Begins
  <2>. QED
    BY <1>1, <1>2, <2>1 DEF Begins
<1>3. CASE BeginChunk \/ BeginPaginate
  BY <1>2, <1>3 DEF BeginChunk, BeginPaginate
<1>4. ASSUME NEW next \in {"callback", "paged"}, Get(next)
      PROVE  got' \subseteq 1..lastId /\ broke' \in BOOLEAN /\ pc' \in {"chunked", "callback", "paged"}
  <2>1. PICK rows \in PageOf(Ids(table), Window, Rank) :
          \E result \in Fetched(rows, Rank, TRUE) :
            /\ got' = result
            /\ broke' = (broke \/ result # rows)
            /\ pc' = IF next = "callback" /\ result = {} THEN "chunked" ELSE next
    BY <1>4 DEF Get
  <2>2. got' \subseteq rows /\ rows \subseteq Ids(table)
    <3>1. PICK result \in Fetched(rows, Rank, TRUE) : got' = result
      BY <2>1
    <3>2. IsFiniteSet(Ids(table))
      BY <1>1, IdsFinite
    <3>3. rows \subseteq Ids(table) /\ IsFiniteSet(rows)
      BY <2>1, <3>2, WindowFacts, PageFacts
    <3>. QED
      BY <3>1, <3>3, FetchedFacts
  <2>3. got' \subseteq 1..lastId
    BY <1>1, <2>2
  <2>4. broke' \in BOOLEAN
    BY <2>1
  <2>5. pc' \in {"chunked", "callback", "paged"}
    BY <2>1
  <2>. QED
    BY <2>3, <2>4, <2>5
<1>5. CASE ReadChunk \/ ReadPage
  BY <1>1, <1>4, <1>5 DEF ReadChunk, ReadPage
<1>6. CASE Callback
  <2>1. Cardinality(seen \cap got) \in Nat
    BY <1>1, IdsFinite
  <2>2. repeats' \in Nat /\ page' \in Nat
    BY <1>6, <2>1 DEF Callback, NextPage
  <2>. QED
    BY <1>1, <1>6, <2>2 DEF Callback
<1>7. CASE Count
  <2>1. Cardinality(Ids(table)) \in Nat
    BY <1>1, IdsFinite
  <2>. QED
    BY <1>1, <1>7, <2>1 DEF Count, Counted
<1>8. CASE \E next \in {"read", "count", "page"} : ReadFails(next)
  BY <1>1, <1>8 DEF ReadFails
<1>. QED
  BY <1>3, <1>5, <1>6, <1>7, <1>8 DEF ReadStep

LEMMA WatchedTypes ==
  ASSUME FindInv, FindInv', lastId <= lastId', ReadTypeOK, Watched
  PROVE  ReadTypeOK'
<1>. USE DEF ReadTypeOK, Ended
<1>1. /\ lastId \in Nat /\ Ids(table) \subseteq 1..lastId
      /\ lastId' \in Nat /\ Ids(table') \subseteq 1..lastId'
  BY DEF FindInv, FindTypeOK, Ids
<1>2. /\ Cardinality(Ids(table) \ Ids(table')) \in Nat
      /\ Cardinality(Ids(table') \ Ids(table)) \in Nat
  BY <1>1, IdsFinite
<1>3. removed' \in Nat /\ inserted' \in Nat
  BY <1>2 DEF Watched
<1>4. 1..lastId \subseteq 1..lastId'
  BY <1>1
<1>. QED
  BY <1>3, <1>4 DEF Watched

\* TypeOK holds of every state.
THEOREM ClientsTypeCorrect == Spec => []TypeOK
<1>1. Init => TypeOK
  <2>. SUFFICES ASSUME Init PROVE TypeOK
    OBVIOUS
  <2>1. RegistryTypeOK /\ FindTypeOK
    BY RegistryInvInit, FindInvInit DEF Init, RegistryInv, FindInv
  <2>2. ReadTypeOK
    BY ReadAssumption DEF Init, ReadInit, ReadTypeOK, Ended
  <2>. QED
    BY <2>1, <2>2 DEF TypeOK
<1>2. TypeOK /\ RegistryInv /\ FindInv /\ FindInv' /\ RegistryInv' /\ [Next]_vars => TypeOK'
  <2>. SUFFICES ASSUME TypeOK, RegistryInv, FindInv, FindInv', RegistryInv', [Next]_vars
                PROVE  TypeOK'
    OBVIOUS
  <2>1. RegistryTypeOK' /\ FindTypeOK' /\ ReadTypeOK
    BY DEF RegistryInv, FindInv, TypeOK
  <2>2. lastId <= lastId'
    BY IdsGrow
  <2>3. CASE Find \/ ChangeRow
    BY <2>1, <2>2, <2>3, WatchedTypes DEF Find, ChangeRow, TypeOK
  <2>4. CASE Read
    BY <2>1, <2>4, ReadStepTypes DEF Read, TypeOK
  <2>5. CASE UNCHANGED <<readVars, lastId>>
    BY <2>1, <2>5 DEF readVars, ReadTypeOK, TypeOK
  <2>6. CASE AskFor \/ Answer \/ End \/ BeginFind \/ UNCHANGED vars
    BY <2>5, <2>6 DEF AskFor, Answer, End, BeginFind, Begin, vars, tableVars
  <2>. QED
    BY <2>3, <2>4, <2>6 DEF Next
<1>3. Spec => []RegistryInv
  BY ClientsFollowRegistry, RegistrySafe, PTL
<1>. QED
  BY <1>1, <1>2, <1>3, ClientsFindInv, PTL DEF Spec

-----------------------------------------------------------------------------
(* What the reader has missed and met again. *)

\* The reader's order, of rows that are there and of rows to come.
Order == [i \in Nat |-> IF newest THEN -i ELSE i]

\* The n rows that are first now.
Leading(n) == FirstRows(Ids(table), n, Order)

\* However many rows the callback was given again, and is going to be as far as
\* rows beyond the first n go, a row was inserted for each.
FewAgain(n, given, again) ==
  \A S \in Leading(n) : again + Cardinality((given \cap Ids(table)) \ S) <= inserted

\* However many of the first n rows the reader has passed over, a row was removed
\* for each.
FewMissed(n, given) ==
  \A S \in Leading(n) : Cardinality((must \ given) \cap S) <= removed

\* Reading: the pages before the one that is next.
PagesRead ==
  pc = "read" => /\ FewAgain((page - 1) * size, seen, repeats)
                 /\ ~broke => FewMissed((page - 1) * size, seen)

\* ... and with a page that the callback is about to have.
PageGiven ==
  pc = "callback" =>
    /\ FewAgain(page * size, seen \cup got, repeats + Cardinality(seen \cap got))
    /\ repeats + Cardinality(seen \cap got) <= inserted
    /\ ~broke => FewMissed(page * size, seen \cup got)
    /\ ~broke /\ Cardinality(got) # size => Cardinality(must \ (seen \cup got)) <= removed

\* Since the count, rows came and went.
CountHolds ==
  pc = "page" => /\ total - Cardinality(Ids(table)) <= removed
                 /\ Cardinality(Ids(table)) - total <= inserted

Sized ==
  /\ pc # "idle" => size \in Sizes
  /\ pc \in {"read", "callback", "count", "page", "paged"} => page >= 1

ReadInv ==
  /\ must \subseteq Ids(table) /\ Sized
  /\ PagesRead /\ PageGiven /\ CountHolds
  /\ MissBound /\ RepeatBound /\ PaginatorAgrees

\* Ids are ordered without ties, and there is a first one.
LEMMA OrderFacts ==
  ASSUME newest \in BOOLEAN, NEW m \in Nat, NEW M, M \subseteq 1..m
  PROVE  /\ Strict(Order, M)
         /\ \A i \in M : -m <= Order[i]
BY DEF Order, Strict

\* A query orders the rows there are as Order does.
LEMMA RankIsOrder ==
  ASSUME FindInv, NEW n
  PROVE  FirstRows(Ids(table), n, Rank) = Leading(n)
<1>1. \A i \in Ids(table) : Rank[i] = Order[i]
  BY DEF FindInv, FindTypeOK, Rank, Order
<1>2. ASSUME NEW S \in SUBSET Ids(table)
      PROVE  (\A s \in S, r \in Ids(table) \ S : Rank[s] <= Rank[r])
               <=> (\A s \in S, r \in Ids(table) \ S : Order[s] <= Order[r])
  BY <1>1
<1>. QED
  BY <1>2 DEF FirstRows, Leading

\* The ids that there are now and after a step, and those that the reader keeps.
LEMMA ReaderSets ==
  ASSUME FindInv, ReadTypeOK
  PROVE  /\ IsFiniteSet(Ids(table)) /\ IsFiniteSet(seen) /\ IsFiniteSet(got)
         /\ IsFiniteSet(must)
         /\ lastId \in Nat /\ Ids(table) \subseteq 1..lastId
<1>1. lastId \in Nat /\ Ids(table) \subseteq 1..lastId
  BY DEF FindInv, FindTypeOK
<1>2. seen \subseteq 1..lastId /\ got \subseteq 1..lastId /\ must \subseteq 1..lastId
  BY DEF ReadTypeOK
<1>. QED
  BY <1>1, <1>2, IdsFinite

\* Rows that come and go while a call is under way are counted.
LEMMA ReadersWatch ==
  ASSUME FindInv, FindInv', lastId <= lastId', ReadTypeOK, ReadInv, Watched
  PROVE  ReadInv'
<1>. DEFINE M == Ids(table)
            N == Ids(table')
<1>1. /\ lastId \in Nat /\ lastId' \in Nat /\ M \subseteq 1..lastId' /\ N \subseteq 1..lastId'
  BY DEF FindInv, FindTypeOK, Ids
<1>2. /\ IsFiniteSet(M) /\ IsFiniteSet(N) /\ IsFiniteSet(M \ N) /\ IsFiniteSet(N \ M)
      /\ Cardinality(M) \in Nat /\ Cardinality(N) \in Nat
      /\ Cardinality(M \ N) \in Nat /\ Cardinality(N \ M) \in Nat
      /\ IsFiniteSet(must) /\ IsFiniteSet(seen) /\ IsFiniteSet(got)
  BY <1>1, IdsFinite, ReaderSets
<1>3. /\ Strict(Order, M \cup N) /\ -lastId' \in Int /\ \A i \in M : -lastId' <= Order[i]
  <2>1. M \cup N \subseteq 1..lastId'
    BY <1>1
  <2>. QED
    BY <1>1, <2>1, OrderFacts DEF ReadTypeOK
<1>4. /\ UNCHANGED <<pc, newest, size, page, total, got, seen, repeats, broke>>
      /\ must' = must \cap N
      /\ removed' \in Nat /\ inserted' \in Nat /\ removed <= removed' /\ inserted <= inserted'
      /\ pc \in {"read", "callback", "page"} =>
           removed' = removed + Cardinality(M \ N) /\ inserted' = inserted + Cardinality(N \ M)
  BY <1>2 DEF Watched, Ended, ReadTypeOK
<1>5. Order' = Order
  BY <1>4 DEF Order
<1>6. ASSUME pc \in {"read", "callback"}, NEW n \in Nat, NEW given, NEW again \in Nat,
             FewAgain(n, given, again),
             NEW T \in FirstRows(N, n, Order)
      PROVE  again + Cardinality((given \cap N) \ T) <= inserted'
  <2>. DEFINE bound == inserted - again
  <2>1. inserted \in Nat /\ bound \in Int
    BY <1>6 DEF ReadTypeOK
  <2>2. \A S \in FirstRows(M, n, Order) : Cardinality((given \cap M) \ S) <= bound
    <3>. SUFFICES ASSUME NEW S \in FirstRows(M, n, Order)
                  PROVE  Cardinality((given \cap M) \ S) <= bound
      OBVIOUS
    <3>1. again + Cardinality((given \cap M) \ S) <= inserted
      BY <1>6 DEF FewAgain, Leading
    <3>2. Cardinality((given \cap M) \ S) \in Nat
      BY <1>2, FS_Intersection, FS_Difference, FS_CardinalityType
    <3>. QED
      BY <1>6, <2>1, <3>1, <3>2
  <2>. HIDE DEF M, N, bound
  <2>3. Cardinality((given \cap N) \ T) <= bound + Cardinality(N \ M)
    BY <1>2, <1>3, <1>6, <2>1, <2>2, BeyondKept
  <2>4. Cardinality((given \cap N) \ T) \in Nat
    BY <1>2, FS_Intersection, FS_Difference, FS_CardinalityType
  <2>. QED
    BY <1>2, <1>4, <1>6, <2>1, <2>3, <2>4 DEF bound
<1>7. ASSUME pc \in {"read", "callback"}, NEW n \in Nat, NEW given,
             FewMissed(n, given),
             NEW T \in FirstRows(N, n, Order)
      PROVE  Cardinality((must' \ given) \cap T) <= removed'
  <2>1. must \ given \in SUBSET M
    BY DEF ReadInv
  <2>2. \A S \in FirstRows(M, n, Order) : Cardinality((must \ given) \cap S) <= removed
    BY <1>7 DEF FewMissed, Leading
  <2>3. (must' \ given) \cap T = (must \ given) \cap T
    <3>1. T \subseteq N
      BY <1>7 DEF FirstRows
    <3>. QED
      BY <1>4, <3>1
  <2>4. removed \in Int
    BY DEF ReadTypeOK
  <2>. HIDE DEF M, N
  <2>5. Cardinality((must \ given) \cap T) <= removed + Cardinality(M \ N)
    BY <1>2, <1>3, <1>7, <2>1, <2>2, <2>4, AmongKept
  <2>. QED
    BY <1>4, <1>7, <2>3, <2>5
<1>8. ASSUME NEW given
      PROVE  Cardinality(must' \ given) <= Cardinality(must \ given)
             /\ Cardinality(must' \ given) \in Nat /\ Cardinality(must \ given) \in Nat
  <2>1. IsFiniteSet(must \ given)
    BY <1>2, FS_Difference
  <2>2. must' \ given \in SUBSET (must \ given)
    BY <1>4
  <2>. QED
    BY <2>1, <2>2, FS_Subset, FS_CardinalityType
<1>. USE DEF ReadInv
<1>9. must' \subseteq N /\ Sized'
  BY <1>4 DEF Sized
<1>10. RepeatBound'
  BY <1>4 DEF RepeatBound, ReadTypeOK
<1>11. MissBound'
  <2>1. /\ Cardinality(must' \ seen) <= Cardinality(must \ seen)
        /\ Cardinality(must' \ seen) \in Nat /\ Cardinality(must \ seen) \in Nat
    BY <1>8
  <2>2. removed \in Nat /\ removed' \in Nat /\ removed <= removed' /\ seen' = seen
        /\ pc' = pc /\ broke' = broke
    BY <1>4 DEF ReadTypeOK
  <2>. QED
    BY <2>1, <2>2 DEF MissBound
<1>12. PaginatorAgrees'
  <2>1. pc = "paged" => UNCHANGED <<removed, inserted>>
    BY DEF Watched, Ended
  <2>. QED
    BY <1>4, <2>1 DEF PaginatorAgrees
<1>13. CountHolds'
  <2>1. /\ Cardinality(M \ N) = Cardinality(M) - Cardinality(M \cap N)
        /\ Cardinality(N \ M) = Cardinality(N) - Cardinality(N \cap M)
    BY <1>2, FS_Difference
  <2>2. Cardinality(M \cap N) = Cardinality(N \cap M) /\ Cardinality(M \cap N) \in Nat
    <3>1. M \cap N = N \cap M
      OBVIOUS
    <3>2. IsFiniteSet(M \cap N)
      BY <1>2, FS_Intersection
    <3>. QED
      BY <3>1, <3>2, FS_CardinalityType
  <2>. QED
    BY <1>2, <1>4, <2>1, <2>2 DEF CountHolds, ReadTypeOK
<1>14. PagesRead'
  <2>. SUFFICES ASSUME pc = "read" PROVE PagesRead'
    BY <1>4 DEF PagesRead
  <2>1. (page - 1) * size \in Nat /\ repeats \in Nat
    <3>1. page - 1 \in Nat /\ size \in Nat
      BY ReadAssumption DEF Sized, ReadTypeOK
    <3>. QED
      BY <3>1 DEF ReadTypeOK
  <2>2. FewAgain((page - 1) * size, seen, repeats)
    BY DEF PagesRead
  <2>3. \A T \in FirstRows(N, (page - 1) * size, Order) :
          repeats + Cardinality((seen \cap N) \ T) <= inserted'
    BY <1>6, <2>1, <2>2
  <2>4. ~broke => \A T \in FirstRows(N, (page - 1) * size, Order) :
                    Cardinality((must' \ seen) \cap T) <= removed'
    BY <1>7, <2>1 DEF PagesRead
  <2>. QED
    BY <1>4, <1>5, <2>3, <2>4 DEF PagesRead, FewAgain, FewMissed, Leading
<1>15. PageGiven'
  <2>. SUFFICES ASSUME pc = "callback" PROVE PageGiven'
    BY <1>4 DEF PageGiven
  <2>. DEFINE again == repeats + Cardinality(seen \cap got)
              given == seen \cup got
  <2>1. page * size \in Nat /\ again \in Nat
    <3>1. Cardinality(seen \cap got) \in Nat
      BY <1>2, FS_Intersection, FS_CardinalityType
    <3>2. page \in Nat /\ size \in Nat /\ repeats \in Nat
      BY ReadAssumption DEF ReadTypeOK
    <3>. QED
      BY <3>1, <3>2
  <2>2. FewAgain(page * size, given, again) /\ again <= inserted
    BY DEF PageGiven
  <2>3. \A T \in FirstRows(N, page * size, Order) :
          again + Cardinality((given \cap N) \ T) <= inserted'
    <3>. HIDE DEF again, given
    <3>. QED
      BY <1>6, <2>1, <2>2
  <2>4. ~broke => \A T \in FirstRows(N, page * size, Order) :
                    Cardinality((must' \ given) \cap T) <= removed'
    BY <1>7, <2>1 DEF PageGiven
  <2>5. again <= inserted'
    <3>1. inserted \in Nat
      BY DEF ReadTypeOK
    <3>. HIDE DEF again
    <3>. QED
      BY <1>4, <2>1, <2>2, <3>1
  <2>6. ~broke /\ Cardinality(got) # size => Cardinality(must' \ given) <= removed'
    <3>1. ~broke /\ Cardinality(got) # size => Cardinality(must \ given) <= removed
      BY DEF PageGiven
    <3>2. /\ Cardinality(must' \ given) <= Cardinality(must \ given)
          /\ Cardinality(must' \ given) \in Nat /\ Cardinality(must \ given) \in Nat
      BY <1>8
    <3>3. removed \in Nat /\ removed' \in Nat /\ removed <= removed'
      BY <1>4 DEF ReadTypeOK
    <3>. HIDE DEF given
    <3>. QED
      BY <3>1, <3>2, <3>3
  <2>. QED
    BY <1>4, <1>5, <2>3, <2>4, <2>5, <2>6 DEF PageGiven, FewAgain, FewMissed, Leading
<1>. QED
  BY <1>9, <1>10, <1>11, <1>12, <1>13, <1>14, <1>15

\* What a SELECT of a page brings: rows that follow those of the pages before.
LEMMA PageIs ==
  ASSUME FindInv, ReadTypeOK, page >= 1, size \in Sizes, NEW next, Get(next)
  PROVE  \E skipped \in Leading((page - 1) * size), rows \in SUBSET Ids(table) :
           /\ skipped \cap rows = {}
           /\ skipped \cup rows \in Leading(page * size)
           /\ Cardinality(rows) < size => skipped \cup rows = Ids(table)
           /\ LET left == Clamp(Cardinality(Ids(table)) - (page - 1) * size) IN
              Cardinality(rows) = IF left < size THEN left ELSE size
           /\ got' \subseteq rows
           /\ ~broke' => ~broke /\ got' = rows
           /\ pc' = IF next = "callback" /\ got' = {} THEN "chunked" ELSE next
<1>. DEFINE k == (page - 1) * size
<1>1. /\ k \in Nat /\ size \in Nat /\ k + size = page * size
      /\ Window = [offset |-> k, limit |-> size]
  <2>1. page \in Nat /\ size \in Nat /\ page - 1 \in Nat
    BY ReadAssumption DEF ReadTypeOK
  <2>2. k \in Nat
    BY <2>1
  <2>3. (page - 1) * size + size = page * size
    BY <2>1
  <2>. QED
    BY <2>1, <2>2, <2>3, WindowFacts
<1>2. PICK rows \in PageOf(Ids(table), Window, Rank) :
        \E result \in Fetched(rows, Rank, TRUE) :
          /\ got' = result
          /\ broke' = (broke \/ result # rows)
          /\ pc' = IF next = "callback" /\ result = {} THEN "chunked" ELSE next
  BY DEF Get
<1>3. IsFiniteSet(Ids(table))
  BY ReaderSets
<1>. HIDE DEF k
<1>4. rows \in SUBSET Ids(table) /\ IsFiniteSet(rows)
  <2>1. [offset |-> k, limit |-> size] \in [offset : Nat, limit : Nat]
    BY <1>1
  <2>. QED
    BY <1>1, <1>2, <1>3, <2>1, PageFacts
<1>5. PICK skipped \in FirstRows(Ids(table), k, Rank) :
           /\ skipped \cap rows = {}
           /\ skipped \cup rows \in FirstRows(Ids(table), k + size, Rank)
           /\ Cardinality(rows) < size => skipped \cup rows = Ids(table)
           /\ LET left == Clamp(Cardinality(Ids(table)) - k) IN
              Cardinality(rows) = IF left < size THEN left ELSE size
  BY <1>1, <1>2, <1>3, PageFollows
<1>6. skipped \in Leading(k) /\ skipped \cup rows \in Leading(k + size)
  BY <1>5, RankIsOrder
<1>7. /\ got' \subseteq rows
      /\ ~broke' => ~broke /\ got' = rows
      /\ pc' = IF next = "callback" /\ got' = {} THEN "chunked" ELSE next
  <2>1. PICK result \in Fetched(rows, Rank, TRUE) :
          /\ got' = result
          /\ broke' = (broke \/ result # rows)
          /\ pc' = IF next = "callback" /\ result = {} THEN "chunked" ELSE next
    BY <1>2
  <2>2. result \subseteq rows
    BY <1>4, FetchedFacts
  <2>. QED
    BY <2>1, <2>2
<1>. QED
  BY <1>1, <1>4, <1>5, <1>6, <1>7 DEF k

\* A page for the callback.
LEMMA ReadChunkKeeps ==
  ASSUME FindInv, ReadTypeOK, ReadTypeOK', ReadInv, ReadChunk, UNCHANGED <<tableVars, findVars>>
  PROVE  ReadInv'
<1>. DEFINE M == Ids(table)
<1>1. /\ pc = "read" /\ Get("callback")
      /\ UNCHANGED <<page, size, newest, total, seen, repeats, must, removed, inserted, table>>
  BY DEF ReadChunk, tableVars
<1>2. page >= 1 /\ size \in Sizes /\ size \in Nat /\ page \in Nat
  BY <1>1, ReadAssumption DEF ReadInv, Sized, ReadTypeOK
<1>3. PICK skipped \in Leading((page - 1) * size), rows \in SUBSET M :
        /\ skipped \cap rows = {}
        /\ skipped \cup rows \in Leading(page * size)
        /\ Cardinality(rows) < size => skipped \cup rows = M
        /\ LET left == Clamp(Cardinality(Ids(table)) - (page - 1) * size) IN
           Cardinality(rows) = IF left < size THEN left ELSE size
        /\ got' \subseteq rows
        /\ ~broke' => ~broke /\ got' = rows
        /\ pc' = IF got' = {} THEN "chunked" ELSE "callback"
  BY <1>1, <1>2, PageIs
<1>4. /\ IsFiniteSet(M) /\ IsFiniteSet(seen) /\ IsFiniteSet(must) /\ must \subseteq M
      /\ IsFiniteSet(rows) /\ IsFiniteSet(got') /\ M \subseteq 1..lastId /\ lastId \in Nat
  BY <1>3, ReaderSets, FS_Subset DEF ReadInv
<1>5. skipped \subseteq M /\ skipped \cup rows \subseteq M
  BY <1>3 DEF Leading, FirstRows
<1>6. Order' = Order
  BY <1>1 DEF Order
\* Only these rows come first.
<1>7. ASSUME NEW S \in Leading(page * size)
      PROVE  S = skipped \cup rows
  <2>1. Strict(Order, M)
    BY <1>4, OrderFacts DEF ReadTypeOK
  <2>2. page * size \in Nat
    BY <1>2
  <2>. QED
    BY <1>3, <1>4, <2>1, <2>2, FirstRowsUnique DEF Leading
<1>. DEFINE again == repeats + Cardinality(seen \cap got')
            given == seen \cup got'
\* The rows given again are no longer beyond the pages read.
<1>8. again + Cardinality((given \cap M) \ (skipped \cup rows)) <= inserted /\ again <= inserted
  <2>. DEFINE behind == (seen \cap M) \ skipped
              beyond == (given \cap M) \ (skipped \cup rows)
              met == seen \cap got'
  <2>1. repeats + Cardinality(behind) <= inserted
    BY <1>1, <1>3 DEF ReadInv, PagesRead, FewAgain
  <2>2. IsFiniteSet(behind) /\ IsFiniteSet(beyond) /\ IsFiniteSet(met)
    BY <1>4, FS_Intersection, FS_Union, FS_Difference
  <2>3. beyond \subseteq behind /\ met \subseteq behind
    BY <1>3
  <2>4. beyond \cap met = {}
    BY <1>3
  <2>. HIDE DEF behind, beyond, met
  <2>5. Cardinality(beyond \cap met) = 0
    BY <2>4, FS_EmptySet, Zenon
  <2>6. Cardinality(beyond \cup met) = Cardinality(beyond) + Cardinality(met) - 0
    BY <2>2, <2>5, FS_Union
  <2>7. Cardinality(beyond \cup met) <= Cardinality(behind)
    BY <2>2, <2>3, FS_Subset
  <2>8. Cardinality(beyond) \in Nat /\ Cardinality(met) \in Nat /\ Cardinality(behind) \in Nat
    BY <2>2, FS_CardinalityType
  <2>9. again = repeats + Cardinality(met)
    BY DEF met
  <2>10. repeats \in Nat /\ inserted \in Nat
    BY DEF ReadTypeOK
  <2>11. again + Cardinality(beyond) <= inserted /\ again <= inserted
    <3>. HIDE DEF again
    <3>. QED
      BY <2>1, <2>6, <2>7, <2>8, <2>9, <2>10
  <2>. QED
    BY <2>11 DEF beyond
\* A page that is whole passes nothing over.
<1>9. ~broke' => Cardinality((must \ given) \cap (skipped \cup rows)) <= removed
  <2>. SUFFICES ASSUME ~broke' PROVE Cardinality((must \ given) \cap (skipped \cup rows)) <= removed
    OBVIOUS
  <2>1. Cardinality((must \ seen) \cap skipped) <= removed
    BY <1>1, <1>3 DEF ReadInv, PagesRead, FewMissed
  <2>2. (must \ given) \cap (skipped \cup rows) \in SUBSET ((must \ seen) \cap skipped)
    BY <1>3
  <2>3. IsFiniteSet((must \ seen) \cap skipped)
    BY <1>4, FS_Intersection, FS_Difference
  <2>. HIDE DEF given
  <2>4. /\ Cardinality((must \ given) \cap (skipped \cup rows)) <= Cardinality((must \ seen) \cap skipped)
        /\ Cardinality((must \ given) \cap (skipped \cup rows)) \in Nat
        /\ Cardinality((must \ seen) \cap skipped) \in Nat
    BY <2>2, <2>3, FS_Subset, FS_CardinalityType
  <2>. QED
    BY <2>1, <2>4 DEF ReadTypeOK
\* A page that is short is the last.
<1>10. ~broke' /\ Cardinality(got') # size => Cardinality(must \ given) <= removed
  <2>. SUFFICES ASSUME ~broke', Cardinality(got') # size PROVE Cardinality(must \ given) <= removed
    OBVIOUS
  <2>1. Cardinality(rows) < size
    <3>1. got' = rows
      BY <1>3
    <3>2. Cardinality(rows) # size
      BY <3>1
    <3>3. Cardinality(M) - (page - 1) * size \in Int
      BY <1>2, <1>4, FS_CardinalityType
    <3>. QED
      BY <1>2, <1>3, <3>2, <3>3 DEF Clamp
  <2>2. skipped \cup rows = M
    BY <1>3, <2>1
  <2>3. (must \ given) \cap (skipped \cup rows) = must \ given
    BY <1>4, <2>2
  <2>. HIDE DEF given
  <2>. QED
    BY <1>9, <2>3
<1>. HIDE DEF M
<1>11. PageGiven'
  <2>. SUFFICES ASSUME pc' = "callback" PROVE PageGiven'
    BY DEF PageGiven
  <2>. HIDE DEF M
  <2>1. FewAgain(page * size, seen \cup got, repeats + Cardinality(seen \cap got))'
    <3>1. \A S \in Leading(page * size) : again + Cardinality((given \cap M) \ S) <= inserted
      BY <1>7, <1>8
    <3>. QED
      BY <1>1, <1>6, <3>1 DEF FewAgain, Leading, M
  <2>2. (~broke => FewMissed(page * size, seen \cup got))'
    <3>1. ~broke' => \A S \in Leading(page * size) : Cardinality((must \ given) \cap S) <= removed
      BY <1>7, <1>9
    <3>. QED
      BY <1>1, <1>6, <3>1 DEF FewMissed, Leading
  <2>. QED
    BY <1>1, <1>8, <1>10, <2>1, <2>2 DEF PageGiven
<1>12. MissBound'
  <2>. SUFFICES ASSUME pc' = "chunked", ~broke' PROVE Cardinality(must \ seen) <= removed
    BY <1>1 DEF MissBound
  <2>1. got' = {}
    BY <1>3
  <2>2. Cardinality(got') = 0
    BY <2>1, FS_EmptySet, Zenon
  <2>3. Cardinality(must \ given) <= removed
    BY <1>2, <1>10, <2>2, ReadAssumption
  <2>4. given = seen
    BY <2>1
  <2>. QED
    BY <2>3, <2>4, Zenon
<1>13. RepeatBound' /\ must' \subseteq Ids(table')
  BY <1>1 DEF ReadInv, RepeatBound
<1>14. pc' \in {"chunked", "callback"}
  BY <1>3
<1>. QED
  BY <1>1, <1>2, <1>11, <1>12, <1>13, <1>14
     DEF ReadInv, Sized, PagesRead, CountHolds, PaginatorAgrees

\* The callback has had the page; the next one begins behind it.
LEMMA CallbackKeeps ==
  ASSUME FindInv, ReadTypeOK, ReadTypeOK', ReadInv, Callback, UNCHANGED <<tableVars, findVars>>
  PROVE  ReadInv'
<1>1. /\ pc = "callback" /\ seen' = seen \cup got
      /\ repeats' = repeats + Cardinality(seen \cap got)
      /\ UNCHANGED <<size, newest, total, got, must, removed, inserted, broke, table>>
      /\ \/ pc' = "failed"
         \/ pc' = "chunked" /\ Cardinality(got) # size
         \/ pc' = "read" /\ page' = page + 1
  BY DEF Callback, NextPage, tableVars
<1>2. page \in Nat /\ page >= 1 /\ size \in Sizes
  BY <1>1 DEF ReadInv, Sized, ReadTypeOK
<1>3. Order' = Order
  BY <1>1 DEF Order
<1>4. MissBound'
  BY <1>1 DEF ReadInv, PageGiven, MissBound
<1>5. RepeatBound' /\ must' \subseteq Ids(table')
  BY <1>1 DEF ReadInv, PageGiven, RepeatBound
<1>6. PagesRead'
  <2>. SUFFICES ASSUME pc' = "read" PROVE PagesRead'
    BY DEF PagesRead
  <2>1. page' = page + 1 /\ (page' - 1) * size' = page * size
    BY <1>1, <1>2
  <2>2. FewAgain(page * size, seen', repeats') /\ (~broke => FewMissed(page * size, seen'))
    BY <1>1 DEF ReadInv, PageGiven
  <2>3. FewAgain((page' - 1) * size', seen', repeats')
          /\ (~broke => FewMissed((page' - 1) * size', seen'))
    BY <2>1, <2>2
  <2>. QED
    BY <1>1, <1>3, <2>3 DEF PagesRead, FewAgain, FewMissed, Leading
<1>7. Sized'
  BY <1>1, <1>2 DEF Sized
<1>. QED
  BY <1>1, <1>4, <1>5, <1>6, <1>7 DEF ReadInv, PageGiven, CountHolds, PaginatorAgrees

\* A call begins with nothing missed and nothing met.
LEMMA ReadBeginKeeps ==
  ASSUME FindInv, ReadTypeOK, ReadTypeOK', ReadInv, BeginChunk \/ BeginPaginate,
         UNCHANGED <<tableVars, findVars>>
  PROVE  ReadInv'
<1>1. /\ table' = table /\ size' \in Sizes /\ newest' \in BOOLEAN
      /\ got' = {} /\ seen' = {} /\ repeats' = 0 /\ must' = Ids(table)
      /\ removed' = 0 /\ inserted' = 0
      /\ \/ pc' = "read" /\ page' = 1
         \/ pc' = "count" /\ page' \in 1..3
         \/ pc' = "panicked"
  BY DEF BeginChunk, BeginPaginate, Begins, tableVars
<1>2. PagesRead'
  <2>. SUFFICES ASSUME pc' = "read" PROVE PagesRead'
    BY DEF PagesRead
  <2>1. (page' - 1) * size' = 0
    <3>1. page' = 1
      BY <1>1
    <3>2. size' \in Nat
      BY <1>1, ReadAssumption
    <3>3. \A n \in Nat : (1 - 1) * n = 0
      OBVIOUS
    <3>. QED
      BY <3>1, <3>2, <3>3
  <2>2. ASSUME NEW S \in Leading(0)' PROVE S = {}
    <3>1. IsFiniteSet(Ids(table))
      BY ReaderSets
    <3>2. /\ IsFiniteSet(S) /\ Cardinality(S) \in Nat /\ Cardinality(S) <= 0
      BY <1>1, <2>2, <3>1, FirstRowsFacts DEF Leading
    <3>3. Cardinality(S) = 0
      BY <3>2
    <3>. QED
      BY <3>2, <3>3, FS_EmptySet
  <2>3. Cardinality({}) = 0
    BY FS_EmptySet
  <2>4. FewAgain(0, {}, 0)'
    <3>. SUFFICES ASSUME NEW S \in Leading(0)'
                  PROVE  0 + Cardinality(({} \cap Ids(table')) \ S) <= inserted'
      BY DEF FewAgain
    <3>1. ({} \cap Ids(table')) \ S = {}
      OBVIOUS
    <3>2. Cardinality(({} \cap Ids(table')) \ S) = 0
      BY <2>3, <3>1, Zenon
    <3>. QED
      BY <1>1, <3>2
  <2>5. FewMissed(0, {})'
    <3>. SUFFICES ASSUME NEW S \in Leading(0)'
                  PROVE  Cardinality((must' \ {}) \cap S) <= removed'
      BY DEF FewMissed
    <3>1. (must' \ {}) \cap S = {}
      BY <2>2
    <3>2. Cardinality((must' \ {}) \cap S) = 0
      BY <2>3, <3>1, Zenon
    <3>. QED
      BY <1>1, <3>2
  <2>. QED
    BY <1>1, <2>1, <2>4, <2>5 DEF PagesRead, FewAgain, FewMissed, Leading
<1>. QED
  BY <1>1, <1>2
     DEF ReadInv, Sized, PageGiven, CountHolds, MissBound, RepeatBound, PaginatorAgrees

\* What the total says of the page after it.
LEMMA ReadPageKeeps ==
  ASSUME FindInv, ReadTypeOK, ReadTypeOK', ReadInv, ReadPage, UNCHANGED <<tableVars, findVars>>
  PROVE  ReadInv'
<1>. DEFINE k == (page - 1) * size
            there == Cardinality(Ids(table))
<1>1. /\ pc = "page" /\ Get("paged")
      /\ UNCHANGED <<page, size, newest, total, seen, repeats, must, removed, inserted, table>>
  BY DEF ReadPage, tableVars
<1>2. /\ page >= 1 /\ size \in Sizes /\ size \in Nat \ {0} /\ page \in Nat
      /\ total \in Nat /\ removed \in Nat /\ inserted \in Nat
  BY <1>1, ReadAssumption DEF ReadInv, Sized, ReadTypeOK
<1>3. PICK rows \in SUBSET Ids(table) :
        /\ LET left == Clamp(there - k) IN
           Cardinality(rows) = IF left < size THEN left ELSE size
        /\ ~broke' => got' = rows
        /\ pc' = "paged"
  <2>1. PICK skipped \in Leading(k), rows \in SUBSET Ids(table) :
          /\ LET left == Clamp(there - k) IN
             Cardinality(rows) = IF left < size THEN left ELSE size
          /\ ~broke' => got' = rows
          /\ pc' = IF "paged" = "callback" /\ got' = {} THEN "chunked" ELSE "paged"
    BY <1>1, <1>2, PageIs
  <2>. QED
    BY <2>1
<1>4. /\ there \in Nat /\ k \in Int
      /\ total - there <= removed /\ there - total <= inserted
  <2>1. there \in Nat
    BY ReaderSets, FS_CardinalityType
  <2>2. k \in Int
    BY <1>2
  <2>. QED
    BY <1>1, <2>1, <2>2 DEF ReadInv, CountHolds
<1>5. PaginatorAgrees'
  <2>. SUFFICES ASSUME ~broke'
                PROVE  LET left == Clamp(total - k)
                           expected == IF left < size THEN left ELSE size
                           off == Cardinality(got') - expected
                       IN off <= inserted + removed /\ -off <= inserted + removed
    BY <1>1, <1>3 DEF PaginatorAgrees
  <2>. HIDE DEF k, there
  <2>1. LET left == Clamp(there - k) IN
        Cardinality(got') = IF left < size THEN left ELSE size
    BY <1>3
  <2>2. LET left == Clamp(total - k)
            expected == IF left < size THEN left ELSE size
            off == Cardinality(got') - expected
        IN off <= inserted + removed /\ -off <= inserted + removed
    BY <1>2, <1>4, <2>1 DEF Clamp
  <2>. QED
    BY <2>2
<1>. QED
  BY <1>1, <1>2, <1>3, <1>5
     DEF ReadInv, Sized, PagesRead, PageGiven, CountHolds, MissBound, RepeatBound

LEMMA ReaderKeeps ==
  ASSUME FindInv, ReadTypeOK, ReadTypeOK', ReadInv, ReadStep, UNCHANGED <<tableVars, findVars>>
  PROVE  ReadInv'
<1>1. CASE Count
  <2>1. Cardinality(Ids(table)) \in Nat /\ table' = table
    BY ReaderSets, FS_CardinalityType DEF tableVars
  <2>2. removed \in Nat /\ inserted \in Nat
    BY DEF ReadTypeOK
  <2>. QED
    BY <1>1, <2>1, <2>2 DEF Count, Counted, ReadInv, Sized, PagesRead, PageGiven, CountHolds,
       MissBound, RepeatBound, PaginatorAgrees
<1>2. CASE \E next \in {"read", "count", "page"} : ReadFails(next)
  BY <1>2 DEF ReadFails, ReadInv, Sized, PagesRead, PageGiven, CountHolds, MissBound,
              RepeatBound, PaginatorAgrees, tableVars
<1>. QED
  BY <1>1, <1>2, ReadBeginKeeps, ReadChunkKeeps, CallbackKeeps, ReadPageKeeps DEF ReadStep

\* Whatever is read while other clients come and go, the reader keeps count.
THEOREM ClientsReadInv == Spec => []ReadInv
<1>1. Init => ReadInv
  BY DEF Init, ReadInit, ReadInv, Sized, PagesRead, PageGiven, CountHolds, MissBound,
         RepeatBound, PaginatorAgrees
<1>2. FindInv /\ FindInv' /\ TypeOK /\ TypeOK' /\ ReadInv /\ [Next]_vars => ReadInv'
  <2>. SUFFICES ASSUME FindInv, FindInv', TypeOK, TypeOK', ReadInv, [Next]_vars
                PROVE  ReadInv'
    OBVIOUS
  <2>1. ReadTypeOK /\ ReadTypeOK' /\ lastId <= lastId'
    BY IdsGrow DEF TypeOK
  <2>2. CASE Find \/ ChangeRow
    BY <2>1, <2>2, ReadersWatch DEF Find, ChangeRow
  <2>3. CASE Read
    BY <2>1, <2>3, ReaderKeeps DEF Read
  <2>4. CASE UNCHANGED <<readVars, table>>
    BY <2>4 DEF readVars, ReadInv, Sized, PagesRead, PageGiven, CountHolds, MissBound,
                RepeatBound, PaginatorAgrees, FewAgain, FewMissed, Leading, Order
  <2>5. CASE AskFor \/ Answer \/ End \/ BeginFind \/ UNCHANGED vars
    BY <2>4, <2>5 DEF AskFor, Answer, End, BeginFind, Begin, vars, tableVars
  <2>. QED
    BY <2>2, <2>3, <2>5 DEF Next
<1>. QED
  BY <1>1, <1>2, ClientsFindInv, ClientsTypeCorrect, PTL DEF Spec

\* Chunk passes over a row that was there all along only for a row that others
\* removed meanwhile, whatever the chunk size and the order.
THEOREM ClientsMissBound == Spec => []MissBound
<1>1. ReadInv => MissBound
  BY DEF ReadInv
<1>. QED
  BY <1>1, ClientsReadInv, PTL

\* ... and gives a row to the callback again only for one that they inserted.
THEOREM ClientsRepeatBound == Spec => []RepeatBound
<1>1. ReadInv => RepeatBound
  BY DEF ReadInv
<1>. QED
  BY <1>1, ClientsReadInv, PTL

\* A Paginator's items are as many as its total says, but for the rows that came
\* and went between its two statements, whatever the page and its size.
THEOREM ClientsPaginatorAgrees == Spec => []PaginatorAgrees
<1>1. ReadInv => PaginatorAgrees
  BY DEF ReadInv
<1>. QED
  BY <1>1, ClientsReadInv, PTL
=============================================================================
