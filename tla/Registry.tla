------------------------------ MODULE Registry ------------------------------
(***************************************************************************)
(* What the goroutines of a program share: DatabaseManager.Connections, a  *)
(* plain map that Connection reads and writes without a lock, and          *)
(* ParsedModelsMap, a sync.Map that GetParsedModel loads and stores in two *)
(* steps.  Open makes the connection "default" before there are others.    *)
(***************************************************************************)
EXTENDS Integers

CONSTANTS
  Clients,  \* goroutines
  Names,    \* names of connections
  Default,  \* the one that Open makes
  Types,    \* types of models
  MaxAsks   \* bound: calls of Connection and GetParsedModel

ASSUME RegistryAssumption == Default \in Names /\ MaxAsks \in Nat

VARIABLES
  connections,  \* Connections: the pool of each name, 0 if there is none
  made,         \* pools made for each name
  models,       \* ParsedModelsMap: the *Model of each type, 0 if there is none
  parsed,       \* times each type was parsed
  at,           \* what each client does next
  want,         \* the name, or type, it asks for
  mine,         \* the pool, or *Model, it has made
  pool,         \* the pool it was given last, 0 if none
  model,        \* the *Model it was given last, 0 if none
  asks,         \* calls that are left
  makers,       \* history: which clients made pools of which names
  parsers,      \* history: which clients parsed which types
  crashed       \* did the runtime end the program?

registryVars == <<connections, made, models, parsed, at, want, mine, pool, model, asks,
                  makers, parsers, crashed>>

\* Mutant of Opened: nothing is made before it is asked for.
OpenedLazily == [n \in Names |-> 0]

\* Open.
Opened == [n \in Names |-> IF n = Default THEN 1 ELSE 0]

\* The program is cold, or has used the default connection and every type.
RegistryInit ==
  /\ connections = Opened /\ made = Opened
  /\ \E warm \in {0, 1} :
       /\ models = [t \in Types |-> warm] /\ parsed = [t \in Types |-> warm]
       /\ pool = [c \in Clients |-> warm] /\ model = [c \in Clients |-> warm]
  /\ at = [c \in Clients |-> "free"]
  /\ want = [c \in Clients |-> Default]
  /\ mine = [c \in Clients |-> 0]
  /\ asks \in 0..MaxAsks /\ makers = {} /\ parsers = {} /\ crashed = FALSE

Goes(c, next) == at' = [at EXCEPT ![c] = next]

Ask(c) ==
  /\ at[c] = "free" /\ asks > 0
  /\ asks' = asks - 1
  /\ \/ \E n \in Names : want' = [want EXCEPT ![c] = n] /\ Goes(c, "look")
     \/ \E t \in Types : want' = [want EXCEPT ![c] = t] /\ Goes(c, "load")
  /\ UNCHANGED <<connections, made, models, parsed, mine, pool, model, makers, parsers, crashed>>

\* Mutant of Missing: the map is never asked.
MissingAlways(n) == TRUE

Missing(n) == connections[n] = 0

\* Connection: what the map has, or MakeConnection.
Look(c) ==
  /\ at[c] = "look"
  /\ \/ Missing(want[c]) /\ Goes(c, "make") /\ UNCHANGED pool
     \/ /\ ~Missing(want[c])
        /\ pool' = [pool EXCEPT ![c] = connections[want[c]]]
        /\ Goes(c, "free")
  /\ UNCHANGED <<connections, made, models, parsed, want, mine, model, asks, makers, parsers,
                 crashed>>

\* MakeConnection panics if the name has no configuration or the server is away, or,
\* when it has written the map, in a listener for new connections.
MakeFails(c) ==
  /\ at[c] \in {"make", "set"}
  /\ pool' = [pool EXCEPT ![c] = 0]
  /\ Goes(c, "free")
  /\ UNCHANGED <<connections, made, models, parsed, want, mine, model, asks, makers, parsers,
                 crashed>>

\* MakeConnection writes the map.
Make(c) ==
  LET n == want[c] IN
  /\ at[c] = "make"
  /\ made' = [made EXCEPT ![n] = @ + 1]
  /\ mine' = [mine EXCEPT ![c] = made[n] + 1]
  /\ connections' = [connections EXCEPT ![n] = made[n] + 1]
  /\ makers' = makers \cup {<<c, n>>}
  /\ Goes(c, "set")
  /\ UNCHANGED <<models, parsed, want, pool, model, asks, parsers, crashed>>

\* Connection writes it again,
Set(c) ==
  /\ at[c] = "set"
  /\ connections' = [connections EXCEPT ![want[c]] = mine[c]]
  /\ Goes(c, "reread")
  /\ UNCHANGED <<made, models, parsed, want, mine, pool, model, asks, makers, parsers, crashed>>

\* and returns what it reads there.
Reread(c) ==
  /\ at[c] = "reread"
  /\ pool' = [pool EXCEPT ![c] = connections[want[c]]]
  /\ Goes(c, "free")
  /\ UNCHANGED <<connections, made, models, parsed, want, mine, model, asks, makers, parsers,
                 crashed>>

\* GetParsedModel.
Load(c) ==
  /\ at[c] = "load"
  /\ \/ models[want[c]] = 0 /\ Goes(c, "store") /\ UNCHANGED model
     \/ /\ models[want[c]] # 0
        /\ model' = [model EXCEPT ![c] = models[want[c]]]
        /\ Goes(c, "free")
  /\ UNCHANGED <<connections, made, models, parsed, want, mine, pool, asks, makers, parsers,
                 crashed>>

\* Its own *Model is stored, over another's if need be, and returned.
Store(c) ==
  LET t == want[c] IN
  /\ at[c] = "store"
  /\ parsed' = [parsed EXCEPT ![t] = @ + 1]
  /\ models' = [models EXCEPT ![t] = parsed[t] + 1]
  /\ model' = [model EXCEPT ![c] = parsed[t] + 1]
  /\ parsers' = parsers \cup {<<c, t>>}
  /\ Goes(c, "free")
  /\ UNCHANGED <<connections, made, want, mine, pool, asks, makers, crashed>>

\* The runtime ends a program that writes a map while it is accessed.
Writing(c) == at[c] \in {"make", "set"}
Accessing(c) == at[c] \in {"look", "make", "set", "reread"}

Crash ==
  /\ \E c, d \in Clients : c # d /\ Writing(c) /\ Accessing(d)
  /\ crashed' = TRUE
  /\ UNCHANGED <<connections, made, models, parsed, at, want, mine, pool, model, asks, makers,
                 parsers>>

Moves(c) ==
  Look(c) \/ MakeFails(c) \/ Make(c) \/ Set(c) \/ Reread(c) \/ Load(c) \/ Store(c)

RegistryNext ==
  ~crashed /\ ((\E c \in Clients : Ask(c) \/ Moves(c)) \/ Crash)

RegistrySpec == RegistryInit /\ [][RegistryNext]_registryVars

-----------------------------------------------------------------------------
(* Properties. *)

RegistryTypeOK ==
  /\ connections \in [Names -> Nat] /\ made \in [Names -> Nat]
  /\ models \in [Types -> Nat] /\ parsed \in [Types -> Nat]
  /\ at \in [Clients -> {"free", "look", "make", "set", "reread", "load", "store"}]
  /\ want \in [Clients -> Names \cup Types]
  /\ mine \in [Clients -> Nat] /\ pool \in [Clients -> Nat] /\ model \in [Clients -> Nat]
  /\ asks \in 0..MaxAsks
  /\ makers \subseteq Clients \X Names /\ parsers \subseteq Clients \X Types
  /\ crashed \in BOOLEAN

\* However goroutines race for other names, they share the one pool that Open
\* made, and those that ask for it do not give the runtime a reason to end the
\* program.
OpenedOnce ==
  /\ made[Default] <= 1
  /\ \A c, d \in Clients :
       c # d /\ want[c] = Default /\ want[d] = Default => ~(Writing(c) /\ Accessing(d))

\* A race costs at most one pool, or one *Model, for each goroutine: one that has
\* made the pool of a name, or parsed a type, never does so again.
MadeOnceEach ==
  \A c \in Clients :
    /\ at[c] = "make" => <<c, want[c]>> \notin makers
    /\ at[c] = "store" => <<c, want[c]>> \notin parsers
=============================================================================
