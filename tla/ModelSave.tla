----------------------------- MODULE ModelSave -----------------------------
(***************************************************************************)
(* EloquentModel: one model object in memory, the row its key names, the   *)
(* dirty tracking between the two, and Save and Delete with their event    *)
(* hooks.  The caller retries as it likes; statements fail or lose their   *)
(* replies; other clients write to the row between any two steps.          *)
(***************************************************************************)
EXTENDS Integers, FiniteSets

CONSTANTS
  Columns,      \* the columns with a field, apart from the key and timestamps
  Opaque,       \* ... those whose field cannot be compared with == (slices)
  Values,       \* what a field can hold
  Zero,         \* the zero value, also the column's default
  Types,        \* the model types in use, see ModelTypes
  Filters,      \* the arguments of Only and Except in use
  Hooks,        \* the hooks that may return an error
  HookEdits,    \* the hooks that may assign a field
  MaxInserts,   \* bound: inserts of one model object
  NoRow         \* no row has the model's key

HookNames == {"saving", "creating", "created", "updating", "updated", "saved",
              "deleting", "deleted"}

\* Is the key field an int64?  Does the type have DELETED_AT, UPDATED_AT?
ModelTypes == [int64Key : BOOLEAN, soft : BOOLEAN, stamps : BOOLEAN]

ASSUME OpaqueAssumption == Opaque \subseteq Columns
ASSUME ZeroAssumption == Zero \in Values
ASSUME TypesAssumption == Types \subseteq ModelTypes
ASSUME FiltersAssumption == Filters \subseteq SUBSET Columns
ASSUME HooksAssumption == Hooks \subseteq HookNames /\ HookEdits \subseteq HookNames
ASSUME MaxInsertsAssumption == MaxInserts \in Nat

Records == [Columns -> Values]
ASSUME NoRowAssumption == NoRow \notin Records

VARIABLES
  row,       \* the row under the model's key
  trashed,   \* is that row soft-deleted?
  type,      \* the model's type
  mem,       \* the struct's fields
  origin,    \* Origin
  keyDirty,  \* does the key field differ from Origin's key?
  exists,    \* Exists
  only,      \* OnlyColumns ({} is nil)
  except,    \* ExceptColumns
  pc,        \* where Save or Delete is; "idle" between calls
  err,       \* the error of the statement that Save or Delete will return
  res,       \* what the last call came to
  known,     \* history: what the model last read from or wrote to its row
  touched,   \* history: columns assigned since Origin was last synced
  excused,   \* history: columns whose Origin may differ from known, see Excuse
  inserts,   \* history: rows this model object has inserted
  unheard,   \* history: ... those it was not told of
  gone       \* history: has a Delete of its row been reported?

model == <<mem, origin, keyDirty, exists, only, except>>
dbVars == <<row, trashed, known>>
counts == <<inserts, unheard>>
vars == <<row, trashed, type, mem, origin, keyDirty, exists, only, except, pc, err, res,
          known, touched, excused, inserts, unheard, gone>>

Steps == HookNames \cup {"insert", "update", "delete"}
Results == {"none", "saved", "deleted", "error", "panic"}

\* A zero struct that was booted, of any type.
Init ==
  /\ row = NoRow /\ trashed = FALSE
  /\ type \in Types
  /\ mem = [c \in Columns |-> Zero] /\ origin = mem /\ known = mem
  /\ exists = FALSE /\ keyDirty = FALSE
  /\ only = {} /\ except = {}
  /\ pc = "idle" /\ err = FALSE /\ res = "none"
  /\ touched = {} /\ excused = {}
  /\ inserts = 0 /\ unheard = 0 /\ gone = FALSE

-----------------------------------------------------------------------------
\* The caller.

\* DB.Init, or a first Save of values the struct already has: the values in
\* the struct become Origin.
New ==
  /\ pc = "idle"
  /\ mem' \in Records /\ origin' = mem' /\ known' = mem'
  /\ exists' = FALSE /\ keyDirty' = FALSE /\ only' = {} /\ except' = {}
  /\ res' = "none"
  /\ row' = NoRow /\ trashed' = FALSE
  /\ touched' = {} /\ excused' = {} /\ inserts' = 0 /\ unheard' = 0
  /\ gone' = FALSE
  /\ UNCHANGED <<type, pc, err>>

\* Find, First or Get scans the row into the struct and gives it a fresh
\* EloquentModel.
Retrieve ==
  /\ pc = "idle"
  /\ row # NoRow /\ ~trashed
  /\ mem' = row /\ origin' = row /\ known' = row
  /\ exists' = TRUE /\ keyDirty' = FALSE /\ only' = {} /\ except' = {}
  /\ res' = "none"
  /\ touched' = {} /\ excused' = {} /\ inserts' = 0 /\ unheard' = 0
  /\ gone' = FALSE
  /\ UNCHANGED <<row, trashed, type, pc, err>>

\* The program sets a field.
Assign(c, v) ==
  /\ mem' = [mem EXCEPT ![c] = v]
  /\ touched' = touched \cup {c}

Set(c, v) ==
  /\ pc = "idle"
  /\ Assign(c, v)
  /\ res' = "none"
  /\ UNCHANGED <<origin, keyDirty, exists, only, except, type, gone, pc, err, excused>>
  /\ UNCHANGED dbVars /\ UNCHANGED counts

Only(S) ==
  /\ pc = "idle"
  /\ only' = S
  /\ res' = "none"
  /\ UNCHANGED <<mem, origin, keyDirty, exists, except, type, gone, pc, err, touched, excused>>
  /\ UNCHANGED dbVars /\ UNCHANGED counts

Except(S) ==
  /\ pc = "idle"
  /\ except' = S
  /\ res' = "none"
  /\ UNCHANGED <<mem, origin, keyDirty, exists, only, type, gone, pc, err, touched, excused>>
  /\ UNCHANGED dbVars /\ UNCHANGED counts

Save ==
  /\ pc = "idle"
  /\ exists \/ inserts < MaxInserts
  /\ pc' = "saving" /\ err' = FALSE /\ res' = "none"
  /\ UNCHANGED model /\ UNCHANGED dbVars /\ UNCHANGED counts
  /\ UNCHANGED <<type, gone, touched, excused>>

Delete ==
  /\ pc = "idle"
  /\ pc' = "deleting" /\ err' = FALSE /\ res' = "none"
  /\ UNCHANGED model /\ UNCHANGED dbVars /\ UNCHANGED counts
  /\ UNCHANGED <<type, gone, touched, excused>>

-----------------------------------------------------------------------------
\* Events.

\* Hook h runs and returns nil; it may have assigned a field.
HookAgrees(h) ==
  /\ pc = h
  /\ \/ UNCHANGED <<mem, touched>>
     \/ h \in HookEdits /\ \E c \in Columns, v \in Values : Assign(c, v)

\* The columns that a hook has just edited.
Edited == {c \in Columns : mem'[c] # mem[c]}

Return(result) == pc' = "idle" /\ res' = result

\* Hook h returns an error, and so does the call.  After the statement that
\* leaves the model unsynced with what it wrote.
HookFails(h) ==
  /\ pc = h /\ h \in Hooks
  /\ Return("error")
  /\ excused' = IF h \in {"created", "updated", "saved"} THEN Columns ELSE excused
  /\ UNCHANGED model /\ UNCHANGED dbVars /\ UNCHANGED counts
  /\ UNCHANGED <<type, gone, err, touched>>

\* The hooks before the statement, and the hook between statement and saved.
Before(h, next) ==
  /\ HookAgrees(h)
  /\ pc' = next
  /\ UNCHANGED <<origin, keyDirty, exists, only, except, type, gone, err, res, excused>>
  /\ UNCHANGED dbVars /\ UNCHANGED counts

\* Mutant of Saving: Exists is not asked.
SavingAlwaysCreates == Before("saving", "creating")

Saving == Before("saving", IF exists THEN "updating" ELSE "creating")
Creating == Before("creating", "insert")
Updating == Before("updating", "update")
Deleting == Before("deleting", "delete")

\* Edits of a hook after the statement are synced away unwritten.
After(h) ==
  /\ HookAgrees(h)
  /\ pc' = "saved"
  /\ excused' = excused \cup Edited
  /\ UNCHANGED <<origin, keyDirty, exists, only, except, type, gone, err, res>>
  /\ UNCHANGED dbVars /\ UNCHANGED counts

Created == After("created")
Updated == After("updated")

-----------------------------------------------------------------------------
\* Dirty tracking.

\* A field that cannot be compared counts as dirty unless it is zero.
IsDirty(c) == mem[c] # origin[c] \/ (c \in Opaque /\ mem[c] # Zero)

\* The columns that Only and Except let through; empty lists let all through.
Allowed == (IF only = {} THEN Columns ELSE only) \ except

AttributesForCreate == Allowed

\* Mutants of AttributesForUpdate: every allowed column, dirty or not; and no
\* column that was set to its zero value.
AttributesUnfiltered == Allowed
AttributesNonZero == {c \in Allowed : IsDirty(c) /\ mem[c] # Zero}

AttributesForUpdate == {c \in Allowed : IsDirty(c)}

SyncOrigin ==
  /\ origin' = mem' /\ keyDirty' = FALSE
  /\ touched' = {}
  /\ only' = {} /\ except' = {}

\* The last hook of Save agrees, Origin is synced whatever the statement
\* came to, and the statement's error is returned.
Saved ==
  /\ pc = "saved"
  /\ \/ UNCHANGED mem
     \/ "saved" \in HookEdits /\ \E c \in Columns, v \in Values :
                                    mem' = [mem EXCEPT ![c] = v]
  /\ SyncOrigin
  /\ excused' = excused \cup Edited \cup (Columns \ Allowed)
                        \cup (IF err THEN Columns ELSE {})
  /\ Return(IF err THEN "error" ELSE "saved")
  /\ UNCHANGED <<exists, type, gone, err>> /\ UNCHANGED dbVars /\ UNCHANGED counts

-----------------------------------------------------------------------------
\* Statements.

\* Is there a column to set?
SomethingToSet ==
  type.stamps \/ AttributesForUpdate # {} \/ (keyDirty /\ only = {})

\* The new row, with the default in the columns that are left out.
Inserted == [c \in Columns |-> IF c \in AttributesForCreate THEN mem[c] ELSE Zero]

\* Mutant of Insert: the model does not exist until Save has returned nil.
InsertLate ==
  /\ pc = "insert"
  /\ type.int64Key
  /\ row' = Inserted /\ trashed' = FALSE /\ known' = Inserted
  /\ inserts' = inserts + 1
  /\ excused' = Columns \ Allowed
  /\ pc' = "created"
  /\ UNCHANGED model
  /\ UNCHANGED <<type, gone, err, res, touched, unheard>>

\* The insert succeeds: the generated key goes into the key field, which must
\* be an int64, and the model exists.
Insert ==
  /\ pc = "insert"
  /\ type.int64Key
  /\ row' = Inserted /\ trashed' = FALSE /\ known' = Inserted
  /\ exists' = TRUE /\ keyDirty' = TRUE
  /\ inserts' = inserts + 1
  /\ excused' = Columns \ Allowed
  /\ pc' = "created"
  /\ UNCHANGED <<type, gone, mem, origin, only, except, err, res, touched, unheard>>

\* Setting any other key field panics, after the row is in.
InsertPanics ==
  /\ pc = "insert"
  /\ ~type.int64Key
  /\ inserts' = inserts + 1 /\ unheard' = unheard + 1
  /\ Return("panic")
  /\ UNCHANGED model /\ UNCHANGED dbVars
  /\ UNCHANGED <<type, gone, err, touched, excused>>

\* The insert is refused, or its reply is lost when the row is in.
InsertFails ==
  /\ pc = "insert"
  /\ \/ UNCHANGED counts
     \/ inserts' = inserts + 1 /\ unheard' = unheard + 1
  /\ Return("error")
  /\ UNCHANGED model /\ UNCHANGED dbVars
  /\ UNCHANGED <<type, gone, err, touched, excused>>

Written == [c \in Columns |-> IF c \in AttributesForUpdate THEN mem[c] ELSE row[c]]

\* "update ... set <attributes> where key": no row with the key is no error.
\* What is written is known, whether or not a row took it.
Update ==
  /\ pc = "update"
  /\ SomethingToSet
  /\ row' = IF row = NoRow THEN NoRow ELSE Written
  /\ known' = [c \in Columns |-> IF c \in AttributesForUpdate THEN mem[c] ELSE known[c]]
  /\ excused' = excused \ AttributesForUpdate
  /\ pc' = "updated"
  /\ UNCHANGED model /\ UNCHANGED counts
  /\ UNCHANGED <<trashed, type, gone, err, res, touched>>

\* The update is refused ("set" without a column always is), or its reply is
\* lost; Save goes on to the next hook all the same.
UpdateFails ==
  /\ pc = "update"
  /\ \/ row' = row
     \/ row # NoRow /\ SomethingToSet /\ row' = Written
  /\ err' = TRUE
  /\ pc' = "updated"
  /\ UNCHANGED model /\ UNCHANGED counts
  /\ UNCHANGED <<trashed, type, gone, res, known, touched, excused>>

\* Delete never asks Exists: without a key, no row is named.  With DELETED_AT
\* the row is updated and the statement's error dropped.
DeleteRow ==
  /\ pc = "delete"
  /\ \/ ~type.soft /\ trashed' = trashed /\ row' = (IF exists THEN NoRow ELSE row)
     \/ type.soft /\ row' = row /\ trashed' = (trashed \/ (exists /\ row # NoRow))
  /\ pc' = "deleted"
  /\ UNCHANGED model /\ UNCHANGED counts
  /\ UNCHANGED <<type, gone, err, res, known, touched, excused>>

DeleteFails ==
  /\ pc = "delete"
  /\ \/ UNCHANGED <<row, trashed>>
     \/ ~type.soft /\ exists /\ row' = NoRow /\ trashed' = trashed
     \/ type.soft /\ exists /\ row # NoRow /\ row' = row /\ trashed' = TRUE
  /\ err' = ~type.soft
  /\ pc' = "deleted"
  /\ UNCHANGED model /\ UNCHANGED counts
  /\ UNCHANGED <<type, gone, res, known, touched, excused>>

\* Mutant of Deleted: the statement's error is dropped.
DeletedDropsError ==
  /\ HookAgrees("deleted")
  /\ Return("deleted")
  /\ gone' = (gone \/ (exists /\ ~type.soft))
  /\ UNCHANGED <<origin, keyDirty, exists, only, except, type, err, excused>>
  /\ UNCHANGED dbVars /\ UNCHANGED counts

Deleted ==
  /\ HookAgrees("deleted")
  /\ gone' = (gone \/ (~err /\ exists /\ ~type.soft))
  /\ Return(IF err THEN "error" ELSE "deleted")
  /\ UNCHANGED <<origin, keyDirty, exists, only, except, type, err, excused>>
  /\ UNCHANGED dbVars /\ UNCHANGED counts

-----------------------------------------------------------------------------
\* Other clients change the row, remove it, or create the row a program is
\* about to retrieve.
OtherWrites(c, v) ==
  /\ row # NoRow
  /\ row' = [row EXCEPT ![c] = v]
  /\ UNCHANGED model /\ UNCHANGED counts
  /\ UNCHANGED <<trashed, type, gone, pc, err, res, known, touched, excused>>

OtherRemoves ==
  /\ row # NoRow
  /\ row' = NoRow /\ trashed' = FALSE
  /\ UNCHANGED model /\ UNCHANGED counts
  /\ UNCHANGED <<type, gone, pc, err, res, known, touched, excused>>

OtherCreates ==
  /\ row = NoRow /\ ~exists /\ pc = "idle"
  /\ row' \in Records
  /\ UNCHANGED model /\ UNCHANGED counts
  /\ UNCHANGED <<trashed, type, gone, pc, err, res, known, touched, excused>>

Caller ==
  \/ New \/ Retrieve \/ Save \/ Delete
  \/ \E c \in Columns, v \in Values : Set(c, v)
  \/ \E S \in Filters : Only(S) \/ Except(S)

Call ==
  \/ Saving \/ Creating \/ Created \/ Updating \/ Updated \/ Saved
  \/ Deleting \/ Deleted
  \/ \E h \in HookNames : HookFails(h)
  \/ Insert \/ InsertPanics \/ InsertFails
  \/ Update \/ UpdateFails \/ DeleteRow \/ DeleteFails

Others == OtherRemoves \/ OtherCreates \/ \E c \in Columns, v \in Values : OtherWrites(c, v)

Next == Caller \/ Call \/ Others

Spec == Init /\ [][Next]_vars

-----------------------------------------------------------------------------
\* Every variable has its type; Save inserts models that do not exist and
\* updates those that do.
TypeOK ==
  /\ row \in Records \cup {NoRow} /\ trashed \in BOOLEAN
  /\ type \in Types
  /\ mem \in Records /\ origin \in Records /\ known \in Records
  /\ exists \in BOOLEAN /\ keyDirty \in BOOLEAN
  /\ only \subseteq Columns /\ except \subseteq Columns
  /\ pc \in Steps \cup {"idle"}
  /\ err \in BOOLEAN /\ res \in Results
  /\ touched \subseteq Columns /\ excused \subseteq Columns
  /\ inserts \in Nat /\ unheard \in Nat /\ gone \in BOOLEAN
  /\ pc \in {"creating", "insert"} => ~exists
  /\ pc \in {"created", "updating", "update", "updated"} => exists

\* An UPDATE of Save changes a column of the row only if the program assigned
\* that column since Origin was last synced: what other clients wrote to the
\* others survives.  Columns that cannot be compared are always written.
OwnColumnsOnly ==
  [][pc = "update" /\ pc' = "updated" /\ row # NoRow =>
       \A c \in Columns \ Opaque : row'[c] # row[c] => c \in touched]_vars

\* Between calls, Origin is what the model last read from or wrote to the
\* database, so an assignment that was not written is still dirty; except for
\* the columns that a failed UPDATE, a hook's error or late edit, or Only and
\* Except have put out of step.
OriginKnown ==
  pc = "idle" /\ exists => \A c \in Columns \ excused : origin[c] = known[c]

\* ... without the exceptions: what the comment on Origin promises.
OriginFromDatabase == pc = "idle" /\ exists => origin = known

\* However often Save is retried, a model inserts one row, and one more for
\* each insert it was not told of.
InsertedOnce == inserts <= unheard + 1

\* Once a hard Delete of a model that exists has returned nil, the row is gone, and
\* no later Save, Delete or hook of that model puts one back under its key, whatever
\* fails or is retried: until the program makes it another model or retrieves one, a
\* Save of it is an UPDATE that finds nothing.
DeleteReported == gone => row = NoRow
=============================================================================
