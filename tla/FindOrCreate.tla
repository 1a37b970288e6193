---------------------------- MODULE FindOrCreate ----------------------------
(***************************************************************************)
(* Builder.UpdateOrInsert, EloquentBuilder.UpdateOrCreate, FirstOrNew and  *)
(* FirstOrCreate: look a row up and, in a statement of its own, update it  *)
(* or insert one.  Several clients do so on one table while others change  *)
(* and remove rows; a statement may fail, and its reply may be lost.  The  *)
(* values a call writes may hold the column it looks up: then the row it   *)
(* writes is of another key than the one it asked for.                     *)
(***************************************************************************)
EXTENDS ClientTable

CONSTANTS
  MaxCalls,   \* bound: calls of the helpers
  MaxChanges  \* bound: rows that others change or remove

ASSUME CallsAssumption == MaxCalls \in Nat /\ MaxChanges \in Nat

VARIABLES
  call,       \* what each client is doing
  stamped,    \* has the model an updated-at column?
  calls,      \* calls that are left
  changes,    \* changes by others that are left
  excused,    \* history: keys of which nobody promises one row, see Begin
  disturbed   \* history: clients whose rows others have written to, see Relies

findVars == <<call, stamped, calls, changes, excused, disturbed>>

Helpers == {"updateOrInsert", "updateOrCreate", "firstOrNew", "firstOrCreate"}
Panicking == {"firstOrNew", "firstOrCreate"}
Steps == {"idle", "look", "update", "insert", "save", "create"}
Outcomes == {"none", "updated", "created", "error", "panicked"}

Call == [
  fn       : Helpers,
  key      : Keys,      \* what the conditions ask for
  to       : Keys,      \* the key of the row it writes: the values', if they have one
  step     : Steps,     \* the statement that is next
  held     : Nat,       \* id in the target struct, 0 in a new one
  was      : Values,    \* the value the row had when it was found
  narrowed : BOOLEAN,   \* do the conditions ask for the value as well?
  outcome  : Outcomes]

FindInit ==
  /\ \E k \in Keys :
       call = [c \in Writers |->
                 [fn |-> "firstOrNew", key |-> k, to |-> k, step |-> "idle", held |-> 0,
                  was |-> "other", narrowed |-> FALSE, outcome |-> "none"]]
  /\ stamped \in BOOLEAN
  /\ calls \in 0..MaxCalls /\ changes \in 0..MaxChanges
  /\ excused = {} /\ disturbed = {}

Idle(c) == call[c].step = "idle"
Busy(k) == \E c \in Writers : ~Idle(c) /\ call[c].to = k

\* A call with new arguments, or one that reuses the conditions map (of which
\* UpdateOrInsert has made the row it inserted) or the target struct.  Two calls
\* at once for one key may each miss the other's row; a map that asks for the values
\* misses a row that has other ones; and a call whose values hold another key does
\* not look for the rows of that one.  FirstOrNew and FirstOrCreate never come to
\* their values.
Begin(c, fn, k, to) ==
  /\ Idle(c) /\ calls > 0
  /\ fn \in Panicking => to = k
  /\ \E again \in BOOLEAN :
       /\ again => /\ call[c].fn = fn /\ call[c].outcome # "none"
                   /\ fn = "updateOrInsert" => k = call[c].key
       /\ LET narrowed == again /\ call[c].narrowed
          IN /\ call' = [call EXCEPT ![c] =
                           [fn |-> fn, key |-> k, to |-> to, step |-> "look",
                            held |-> IF again THEN call[c].held ELSE 0,
                            was |-> "other", narrowed |-> narrowed, outcome |-> "none"]]
             /\ excused' = IF k # to \/ narrowed \/ Busy(to) THEN excused \cup {to} ELSE excused
  /\ calls' = calls - 1
  /\ disturbed' = disturbed \ {c}
  /\ UNCHANGED <<tableVars, stamped, changes>>

Proceeds(c, step) == call' = [call EXCEPT ![c].step = step]
Returns(c, outcome) == call' = [call EXCEPT ![c].step = "idle", ![c].outcome = outcome]

\* The rows the conditions ask for.
Sought(c) ==
  {r \in Holding(table, call[c].key) : call[c].narrowed => r.val = c}

\* A call relies on the rows it has found, and afterwards on the ones it has left.
Relies(c, r) ==
  \/ call[c].step = "update" /\ r \in Sought(c)
  \/ call[c].step = "save" /\ r.id = call[c].held
  \/ Idle(c) /\ r.key = call[c].to /\ r.val = c

\* A statement of client c writes to the rows of S.
Disturb(S, c) ==
  disturbed' = disturbed \cup {d \in Writers \ {c} : \E r \in S : Relies(d, r)}

\* A statement that fails has done nothing.
Fails(c) ==
  /\ ~Idle(c) /\ call[c].fn \notin Panicking
  /\ Returns(c, "error")
  /\ UNCHANGED <<tableVars, stamped, calls, changes, excused, disturbed>>

\* The reply of a statement comes back, or is lost.
Replies(c, outcome) == Returns(c, outcome) \/ Returns(c, "error")

-----------------------------------------------------------------------------
\* Mutant of InsertIf: the answer of Exists is not asked for.
InsertAlways(c) == TRUE

InsertIf(c) == Sought(c) = {}

\* UpdateOrInsert asks whether there is a row; if not it writes the values over the
\* caller's conditions.
Exists(c) ==
  /\ call[c].step = "look" /\ call[c].fn = "updateOrInsert"
  /\ \/ /\ InsertIf(c)
        /\ call' = [call EXCEPT ![c].step = "insert", ![c].key = call[c].to,
                                ![c].narrowed = TRUE]
     \/ ~InsertIf(c) /\ Proceeds(c, "update")
  /\ UNCHANGED <<tableVars, stamped, calls, changes, excused, disturbed>>

\* An UPDATE of the rows in S, with its reply, unless a unique index refuses it.
Updates(c, S, k, v) ==
  /\ LET t == Written(S, k, v) IN
       \/ Accepts(t) /\ table' = t /\ Disturb(S, c) /\ Replies(c, "updated")
       \/ ~Accepts(t) /\ Returns(c, "error") /\ UNCHANGED <<table, disturbed>>
  /\ UNCHANGED <<lastId, unique, stamped, calls, changes, excused>>

\* It has the conditions but no limit: the MySQL grammar writes none.
Update(c) == call[c].step = "update" /\ Updates(c, Sought(c), call[c].to, c)

\* The INSERT has an id of the server's.
Insert(c) ==
  LET row == [id |-> lastId + 1, key |-> call[c].key, val |-> c] IN
  /\ call[c].step = "insert"
  /\ lastId < MaxRows
  /\ \/ /\ Fits(row)
        /\ table' = table \cup {row} /\ lastId' = row.id
        /\ Replies(c, "created")
     \/ ~Fits(row) /\ Returns(c, "error") /\ UNCHANGED <<table, lastId>>
  /\ UNCHANGED <<unique, stamped, calls, changes, excused, disturbed>>

-----------------------------------------------------------------------------
\* Mutant of MissLeads: BatchSync leaves what Exists says of a reused target.
MissLeadsBack(c) == IF call[c].held # 0 THEN "save" ELSE "create"

\* A First without a row says that the target does not exist; its fields stay.
MissLeads(c) == "create"

\* UpdateOrCreate reads one of the rows into the target.
FirstRow(c) ==
  /\ call[c].step = "look" /\ call[c].fn = "updateOrCreate"
  /\ \/ \E r \in Sought(c) :
          call' = [call EXCEPT ![c].step = "save", ![c].held = r.id, ![c].was = r.val]
     \/ Sought(c) = {} /\ Proceeds(c, MissLeads(c))
  /\ UNCHANGED <<tableVars, stamped, calls, changes, excused, disturbed>>

\* FirstOrNew and FirstOrCreate ask a Result without rows affected for their number.
FirstPanics(c) ==
  /\ call[c].step = "look" /\ call[c].fn \in Panicking
  /\ Returns(c, "panicked")
  /\ UNCHANGED <<tableVars, stamped, calls, changes, excused, disturbed>>

\* Mutant of Filled: what is found is saved as it was.
FilledNot(c) == call[c].was

\* Fill, with the values.
Filled(c) == c

\* What is written of a column that had one value and is filled with another.
Dirty(had, now) == IF had = now THEN "same" ELSE now

\* Save: an UPDATE by id of what is dirty, without a column to set if nothing is.
Save(c) ==
  LET mine == {r \in table : r.id = call[c].held}
      key == Dirty(call[c].key, call[c].to)
      val == Dirty(call[c].was, Filled(c))
      toSet == stamped \/ key # "same" \/ val # "same"
  IN
  /\ call[c].step = "save"
  /\ \/ toSet /\ Updates(c, mine, key, val)
     \/ /\ ~toSet /\ Returns(c, "error")
        /\ UNCHANGED <<tableVars, stamped, calls, changes, excused, disturbed>>

\* Mutant of NewId: the server takes a zero id for an id.
NewIdHeld(c) == call[c].held

\* The id the target holds; a zero asks the server for one.
NewId(c) == IF call[c].held = 0 THEN lastId + 1 ELSE call[c].held

\* Save of what does not exist: an INSERT with every column, the id included.
Create(c) ==
  LET new == call[c].held = 0
      row == [id |-> NewId(c), key |-> call[c].to, val |-> c]
  IN
  /\ call[c].step = "create"
  /\ new => lastId < MaxRows
  /\ \/ /\ Fits(row)
        /\ table' = table \cup {row}
        /\ lastId' = IF new THEN row.id ELSE lastId
        /\ \/ call' = [call EXCEPT ![c].step = "idle", ![c].outcome = "created",
                                   ![c].held = row.id]
           \/ Returns(c, "error")
     \/ ~Fits(row) /\ Returns(c, "error") /\ UNCHANGED <<table, lastId>>
  /\ UNCHANGED <<unique, stamped, calls, changes, excused, disturbed>>

-----------------------------------------------------------------------------
\* Others change a row or remove it.
Change ==
  /\ changes > 0 /\ changes' = changes - 1
  /\ \E r \in table :
       /\ table' \in {table \ {r}, Written({r}, "same", "other")}
       /\ disturbed' = disturbed \cup {d \in Writers : Relies(d, r)}
  /\ UNCHANGED <<lastId, unique, call, stamped, calls, excused>>

Statement(c) ==
  \/ Exists(c) \/ Update(c) \/ Insert(c) \/ FirstRow(c) \/ FirstPanics(c) \/ Save(c)
  \/ Create(c) \/ Fails(c)

-----------------------------------------------------------------------------
(* Properties. *)

FindTypeOK ==
  /\ lastId \in Nat /\ table \subseteq Row /\ Ids(table) \subseteq 1..lastId /\ unique \in BOOLEAN
  /\ call \in [Writers -> Call] /\ \A c \in Writers : call[c].held <= lastId
  /\ stamped \in BOOLEAN
  /\ calls \in 0..MaxCalls /\ changes \in 0..MaxChanges
  /\ excused \subseteq Keys /\ disturbed \subseteq Writers

\* Calls that do not overlap find the row of their key if there is one, and so never
\* leave two, whatever failed or was lost before; with a unique index calls that do
\* overlap cannot make a second one either.  This is no promise for a key that a
\* call writes without looking for it, nor for one asked for with a used map.
OneRowEach ==
  \A k \in Keys : k \notin excused \/ unique =>
    \A r, s \in Holding(table, k) : r = s

\* A call that reports a row updated or created has left one with its values, the
\* key among them, unless other clients wrote to a row it had found or left.
ReportHolds ==
  \A c \in Writers :
    call[c].outcome \in {"updated", "created"} /\ c \notin disturbed =>
      \E r \in Holding(table, call[c].to) : r.val = c

\* A call writes to rows of the key it asked for and makes of them rows of the key it
\* writes, however its target was used before; only the row a Save had found may have
\* become another's since, if others gave it another key or removed it and put their
\* own under its id.
OwnKeysOnly ==
  [][\A c \in Writers : ~Idle(c) /\ call'[c] # call[c] =>
       /\ \A r \in table \ table' :
            r.key = call[c].key \/ (r.id = call[c].held /\ c \in disturbed)
       /\ \A r \in table' \ table :
            r.key = call[c].to \/ (r.id = call[c].held /\ c \in disturbed)
    ]_<<tableVars, findVars>>
=============================================================================
