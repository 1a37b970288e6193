------------------------------ MODULE Clients ------------------------------
(***************************************************************************)
(* Goroutines of one program on one table: each asks the DatabaseManager   *)
(* for its connection and the metadata of its model (Registry); some then  *)
(* find or create rows (FindOrCreate) while one reads by offset            *)
(* (OffsetRead).                                                           *)
(***************************************************************************)
EXTENDS Registry, FindOrCreate, OffsetRead

CONSTANT Reader

ASSUME ClientsAssumption == Clients = Writers \cup {Reader} /\ Reader \notin Writers

vars == <<registryVars, tableVars, findVars, readVars>>

Init == RegistryInit /\ TableInit /\ FindInit /\ ReadInit

\* Between its calls a client may ask for a connection or a model.
Between(c) == IF c = Reader THEN pc \in Ended ELSE Idle(c)

AskFor ==
  /\ \E c \in Clients : Between(c) /\ Ask(c)
  /\ UNCHANGED <<tableVars, findVars, readVars>>

Answer ==
  /\ \E c \in Clients : Moves(c)
  /\ UNCHANGED <<tableVars, findVars, readVars>>

End == Crash /\ UNCHANGED <<tableVars, findVars, readVars>>

\* A builder's helper needs a connection, a model's needs its metadata too.
Ready(c, fn) ==
  at[c] = "free" /\ pool[c] # 0 /\ (fn = "updateOrInsert" \/ model[c] # 0)

BeginFind ==
  /\ \E c \in Writers, fn \in Helpers, k, to \in Keys :
       Ready(c, fn) /\ Begin(c, fn, k, to)
  /\ UNCHANGED <<registryVars, readVars>>

Find == (\E c \in Writers : Statement(c)) /\ Watched /\ UNCHANGED registryVars

ChangeRow == Change /\ Watched /\ UNCHANGED registryVars

Read ==
  /\ at[Reader] = "free" /\ pool[Reader] # 0
  /\ ReadStep
  /\ UNCHANGED <<registryVars, tableVars, findVars>>

\* Nothing moves once the runtime has ended the program.
Next ==
  ~crashed /\ (AskFor \/ Answer \/ End \/ BeginFind \/ Find \/ ChangeRow \/ Read)

Spec == Init /\ [][Next]_vars

-----------------------------------------------------------------------------
TypeOK == RegistryTypeOK /\ FindTypeOK /\ ReadTypeOK
=============================================================================
