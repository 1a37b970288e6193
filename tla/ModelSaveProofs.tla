--------------------------- MODULE ModelSaveProofs ---------------------------
(***************************************************************************)
(* Dirty tracking and Save for every set of columns, of model types, of    *)
(* filters and of hooks, and every mix of failures and other clients.      *)
(***************************************************************************)
EXTENDS ModelSave, TLAPS

\* A hook leaves the fields as they are or assigns one of them.
LEMMA HookEffect ==
  ASSUME TypeOK, NEW h, HookAgrees(h)
  PROVE  /\ mem' \in Records
         /\ touched \subseteq touched' /\ touched' \subseteq Columns
         /\ \A c \in Columns : mem'[c] # mem[c] => c \in touched'
<1>. USE DEF TypeOK, Records
<1>1. CASE UNCHANGED <<mem, touched>>
  BY <1>1
<1>2. ASSUME NEW c \in Columns, NEW v \in Values, Assign(c, v)
      PROVE  /\ mem' \in Records
             /\ touched \subseteq touched' /\ touched' \subseteq Columns
             /\ \A d \in Columns : mem'[d] # mem[d] => d \in touched'
  BY <1>2 DEF Assign
<1>. QED
  BY <1>1, <1>2 DEF HookAgrees

\* TypeOK holds of every state.
THEOREM ModelTypeCorrect == Spec => []TypeOK
<1>1. Init => TypeOK
  <2>1. [c \in Columns |-> Zero] \in Records
    BY ZeroAssumption DEF Records
  <2>. SUFFICES ASSUME Init PROVE TypeOK
    OBVIOUS
  <2>2. mem \in Records /\ origin \in Records /\ known \in Records
    BY <2>1 DEF Init
  <2>3. /\ row \in Records \cup {NoRow} /\ type \in Types
        /\ only \subseteq Columns /\ except \subseteq Columns
        /\ touched \subseteq Columns /\ excused \subseteq Columns
        /\ inserts \in Nat /\ unheard \in Nat
        /\ pc = "idle" /\ res = "none"
    BY DEF Init
  <2>4. trashed \in BOOLEAN /\ exists \in BOOLEAN /\ keyDirty \in BOOLEAN /\ err \in BOOLEAN
        /\ gone \in BOOLEAN
    BY DEF Init
  <2>. QED
    BY <2>2, <2>3, <2>4 DEF TypeOK, Results
<1>2. TypeOK /\ [Next]_vars => TypeOK'
  <2>. SUFFICES ASSUME TypeOK, [Next]_vars PROVE TypeOK'
    OBVIOUS
  <2>. USE DEF TypeOK, Steps, HookNames, Results, model, dbVars, counts, Return
  <2>1. CASE New
    BY <2>1 DEF New
  <2>2. CASE Retrieve
    BY <2>2 DEF Retrieve
  <2>3. CASE Save \/ Delete
    BY <2>3 DEF Save, Delete
  <2>4. ASSUME NEW c \in Columns, NEW v \in Values, Set(c, v)
        PROVE  TypeOK'
    BY <2>4 DEF Set, Assign, Records
  <2>5. ASSUME NEW S \in Filters, Only(S) \/ Except(S)
        PROVE  TypeOK'
    BY <2>5, FiltersAssumption DEF Only, Except
  <2>6. CASE Saving \/ Creating \/ Updating \/ Deleting
    <3>1. mem' \in Records /\ touched' \subseteq Columns
      BY <2>6, HookEffect DEF Saving, Creating, Updating, Deleting, Before
    <3>. QED
      BY <2>6, <3>1
      DEF Saving, Creating, Updating, Deleting, Before, HookAgrees
  <2>7. CASE Created \/ Updated
    <3>1. mem' \in Records /\ touched' \subseteq Columns /\ Edited \subseteq Columns
      BY <2>7, HookEffect DEF Created, Updated, After, Edited
    <3>. QED
      BY <2>7, <3>1 DEF Created, Updated, After
  <2>8. CASE Saved
    <3>1. mem' \in Records /\ Edited \subseteq Columns
      BY <2>8 DEF Saved, Edited, Records
    <3>. QED
      BY <2>8, <3>1 DEF Saved, SyncOrigin
  <2>9. CASE Deleted
    <3>1. mem' \in Records /\ touched' \subseteq Columns
      BY <2>9, HookEffect DEF Deleted
    <3>2. gone' \in BOOLEAN
      BY <2>9 DEF Deleted
    <3>. QED
      BY <2>9, <3>1, <3>2 DEF Deleted
  <2>10. ASSUME NEW h \in HookNames, HookFails(h)
         PROVE  TypeOK'
    BY <2>10 DEF HookFails
  <2>11. CASE Insert
    <3>1. Inserted \in Records
      BY ZeroAssumption DEF Inserted, Records
    <3>2. exists' \in BOOLEAN /\ trashed' \in BOOLEAN /\ keyDirty' \in BOOLEAN
      BY <2>11 DEF Insert
    <3>3. pc' = "created" /\ exists'
      BY <2>11 DEF Insert
    <3>4. excused' \subseteq Columns
      BY <2>11 DEF Insert
    <3>5. inserts' \in Nat /\ row' \in Records /\ known' \in Records
      BY <2>11, <3>1 DEF Insert
    <3>6. UNCHANGED <<type, gone, mem, origin, only, except, err, res, touched, unheard>>
      BY <2>11 DEF Insert
    <3>. QED
      BY <3>2, <3>3, <3>4, <3>5, <3>6
  <2>12. CASE InsertPanics \/ InsertFails
    BY <2>12 DEF InsertPanics, InsertFails
  <2>13. CASE Update \/ UpdateFails
    <3>1. row \in Records => Written \in Records
      BY DEF Written, Records
    <3>2. known' \in Records
      BY <2>13 DEF Update, UpdateFails, Records
    <3>3. row' \in Records \cup {NoRow}
      BY <2>13, <3>1 DEF Update, UpdateFails
    <3>. QED
      BY <2>13, <3>2, <3>3 DEF Update, UpdateFails
  <2>14. CASE DeleteRow \/ DeleteFails
    BY <2>14, TypesAssumption DEF DeleteRow, DeleteFails, ModelTypes
  <2>15. CASE OtherRemoves
    BY <2>15 DEF OtherRemoves
  <2>18. CASE OtherCreates
    BY <2>18 DEF OtherCreates
  <2>16. ASSUME NEW c \in Columns, NEW v \in Values, OtherWrites(c, v)
         PROVE  TypeOK'
    BY <2>16 DEF OtherWrites, Records
  <2>17. CASE UNCHANGED vars
    BY <2>17 DEF vars
  <2>. QED
    BY <2>1, <2>2, <2>3, <2>4, <2>5, <2>6, <2>7, <2>8, <2>9, <2>10, <2>11, <2>12,
       <2>13, <2>14, <2>15, <2>16, <2>17, <2>18 DEF Next, Caller, Call, Others
<1>. QED
  BY <1>1, <1>2, PTL DEF Spec

-----------------------------------------------------------------------------
\* A field that differs from Origin was assigned since the last sync.
DirtyWasTouched == \A c \in Columns : mem[c] # origin[c] => c \in touched

LEMMA DirtyWasTouchedHolds == Spec => []DirtyWasTouched
<1>1. Init => DirtyWasTouched
  BY DEF Init, DirtyWasTouched
<1>2. TypeOK /\ DirtyWasTouched /\ [Next]_vars => DirtyWasTouched'
  <2>. SUFFICES ASSUME TypeOK, DirtyWasTouched, [Next]_vars PROVE DirtyWasTouched'
    OBVIOUS
  <2>. USE DEF DirtyWasTouched, model
  <2>1. CASE New \/ Retrieve
    BY <2>1 DEF New, Retrieve
  <2>2. ASSUME NEW c \in Columns, NEW v \in Values, Set(c, v)
        PROVE  DirtyWasTouched'
    BY <2>2 DEF Set, Assign, TypeOK, Records
  <2>3. ASSUME NEW h, HookAgrees(h), UNCHANGED origin
        PROVE  DirtyWasTouched'
    BY <2>3, HookEffect
  <2>4. CASE Saving \/ Creating \/ Updating \/ Deleting \/ Created \/ Updated \/ Deleted
    BY <2>3, <2>4
    DEF Saving, Creating, Updating, Deleting, Created, Updated, Deleted, Before, After
  <2>5. CASE Saved
    BY <2>5 DEF Saved, SyncOrigin
  <2>6. CASE UNCHANGED <<mem, origin, touched>>
    BY <2>6
  <2>7. ASSUME \/ Save \/ Delete \/ Insert \/ InsertPanics \/ InsertFails
               \/ Update \/ UpdateFails \/ DeleteRow \/ DeleteFails
               \/ OtherRemoves \/ OtherCreates
               \/ \E S \in Filters : Only(S) \/ Except(S)
               \/ \E h \in HookNames : HookFails(h)
               \/ \E c \in Columns, v \in Values : OtherWrites(c, v)
               \/ UNCHANGED vars
        PROVE  UNCHANGED <<mem, origin, touched>>
    BY <2>7 DEF Save, Delete, Insert, InsertPanics, InsertFails, Update, UpdateFails,
                DeleteRow, DeleteFails, OtherRemoves, OtherCreates, OtherWrites,
                Only, Except, HookFails, vars
  <2>. QED
    BY <2>1, <2>2, <2>4, <2>5, <2>6, <2>7 DEF Next, Caller, Call, Others
<1>. QED
  BY <1>1, <1>2, ModelTypeCorrect, PTL DEF Spec

\* OwnColumnsOnly, whatever the filters, hooks, failures and other clients.
THEOREM UpdatesOwnColumnsOnly == Spec => OwnColumnsOnly
<1>1. TypeOK /\ DirtyWasTouched /\ [Next]_vars =>
        [pc = "update" /\ pc' = "updated" /\ row # NoRow =>
           \A c \in Columns \ Opaque : row'[c] # row[c] => c \in touched]_vars
  <2>. SUFFICES ASSUME DirtyWasTouched, Next, pc = "update", pc' = "updated",
                       row # NoRow, NEW c \in Columns \ Opaque, row'[c] # row[c]
                PROVE  c \in touched
    OBVIOUS
  <2>1. Update \/ UpdateFails
    BY DEF Next, Caller, Call, Others, New, Retrieve, Set, Only, Except, Save, Delete,
           Saving, Creating, Updating, Deleting, Created, Updated, Saved, Deleted,
           Before, After, HookAgrees, HookFails, HookNames, Return, Insert,
           InsertPanics, InsertFails, DeleteRow, DeleteFails, OtherRemoves,
           OtherCreates, OtherWrites
  <2>2. row' = Written
    BY <2>1 DEF Update, UpdateFails
  <2>3. c \in AttributesForUpdate
    BY <2>2 DEF Written
  <2>. QED
    BY <2>3 DEF AttributesForUpdate, IsDirty, DirtyWasTouched
<1>. QED
  BY <1>1, ModelTypeCorrect, DirtyWasTouchedHolds, PTL DEF Spec, OwnColumnsOnly

-----------------------------------------------------------------------------
\* What keeps OriginKnown: until the statement, Origin is what is known; after
\* a statement without an error, the fields that a sync will not excuse are.
OriginInv ==
  exists =>
    /\ pc \in {"idle", "saving", "updating", "update", "deleting", "delete", "deleted"} =>
         \A c \in Columns \ excused : origin[c] = known[c]
    /\ pc \in {"created", "updated", "saved"} /\ ~err =>
         \A c \in Allowed \ excused : mem[c] = known[c]

LEMMA OriginInvHolds == Spec => []OriginInv
<1>1. Init => OriginInv
  BY DEF Init, OriginInv
<1>2. TypeOK /\ OriginInv /\ [Next]_vars => OriginInv'
  <2>. SUFFICES ASSUME TypeOK, OriginInv, [Next]_vars PROVE OriginInv'
    OBVIOUS
  <2>. USE DEF OriginInv, model, dbVars, counts, Return
  <2>1. CASE New \/ Retrieve
    BY <2>1 DEF New, Retrieve
  <2>2. CASE Save \/ Delete
    BY <2>2 DEF Save, Delete
  <2>3. ASSUME NEW c \in Columns, NEW v \in Values, Set(c, v)
        PROVE  OriginInv'
    BY <2>3 DEF Set
  <2>4. ASSUME NEW S \in Filters, Only(S) \/ Except(S)
        PROVE  OriginInv'
    BY <2>4 DEF Only, Except
  <2>5. CASE Saving \/ Creating \/ Updating \/ Deleting
    BY <2>5 DEF Saving, Creating, Updating, Deleting, Before, HookAgrees, TypeOK
  <2>6. CASE Created \/ Updated
    <3>1. /\ UNCHANGED <<only, except, exists, err, known>>
          /\ pc \in {"created", "updated"} /\ pc' = "saved"
          /\ excused' = excused \cup Edited
      BY <2>6 DEF Created, Updated, After, HookAgrees
    <3>2. Allowed' = Allowed /\ Allowed \subseteq Columns
      BY <3>1 DEF Allowed, TypeOK
    <3>. QED
      BY <3>1, <3>2 DEF Edited
  <2>7. CASE Saved
    <3>1. /\ UNCHANGED <<exists, known>> /\ pc = "saved" /\ pc' = "idle" /\ origin' = mem'
          /\ excused' = excused \cup Edited \cup (Columns \ Allowed)
                                \cup (IF err THEN Columns ELSE {})
      BY <2>7 DEF Saved, SyncOrigin
    <3>. QED
      BY <3>1 DEF Edited
  <2>8. CASE Deleted
    BY <2>8 DEF Deleted, HookAgrees
  <2>9. ASSUME NEW h \in HookNames, HookFails(h)
        PROVE  OriginInv'
    BY <2>9 DEF HookFails, HookNames, TypeOK
  <2>10. CASE Insert
    BY <2>10 DEF Insert, Inserted, AttributesForCreate, Allowed, TypeOK
  <2>11. CASE InsertPanics \/ InsertFails
    BY <2>11 DEF InsertPanics, InsertFails, TypeOK
  <2>12. CASE Update
    <3>1. /\ UNCHANGED model /\ pc = "update" /\ pc' = "updated"
          /\ excused' = excused \ AttributesForUpdate
          /\ \A c \in Columns :
                known'[c] = IF c \in AttributesForUpdate THEN mem[c] ELSE known[c]
      BY <2>12 DEF Update
    <3>2. Allowed' = Allowed /\ Allowed \subseteq Columns
      BY <3>1 DEF Allowed, TypeOK
    <3>3. \A c \in Allowed : c \notin AttributesForUpdate => mem[c] = origin[c]
      BY DEF AttributesForUpdate, IsDirty
    <3>. QED
      BY <3>1, <3>2, <3>3
  <2>13. CASE UpdateFails
    BY <2>13 DEF UpdateFails
  <2>14. CASE DeleteRow \/ DeleteFails
    BY <2>14 DEF DeleteRow, DeleteFails
  <2>15. ASSUME \/ OtherRemoves \/ OtherCreates
                \/ \E c \in Columns, v \in Values : OtherWrites(c, v)
                \/ UNCHANGED vars
         PROVE  UNCHANGED <<mem, origin, known, exists, only, except, pc, err, excused>>
    BY <2>15 DEF OtherRemoves, OtherCreates, OtherWrites, vars
  <2>16. CASE UNCHANGED <<mem, origin, known, exists, only, except, pc, err, excused>>
    BY <2>16 DEF Allowed
  <2>. QED
    BY <2>1, <2>2, <2>3, <2>4, <2>5, <2>6, <2>7, <2>8, <2>9, <2>10, <2>11, <2>12,
       <2>13, <2>14, <2>15, <2>16 DEF Next, Caller, Call, Others
<1>. QED
  BY <1>1, <1>2, ModelTypeCorrect, PTL DEF Spec

\* OriginKnown: dirty tracking loses an assignment only where excused says.
THEOREM OriginIsKnown == Spec => []OriginKnown
<1>1. OriginInv => OriginKnown
  BY DEF OriginInv, OriginKnown
<1>. QED
  BY <1>1, OriginInvHolds, PTL

-----------------------------------------------------------------------------
\* A model that does not exist has been told of none of its inserts.
InsertInv == inserts <= unheard + 1 /\ (~exists => inserts = unheard)

\* InsertedOnce, however calls are retried.
THEOREM InsertsOnce == Spec => []InsertedOnce
<1>1. Init => InsertInv
  BY DEF Init, InsertInv
<1>2. TypeOK /\ InsertInv /\ [Next]_vars => InsertInv'
  <2>. SUFFICES ASSUME TypeOK, InsertInv, [Next]_vars PROVE InsertInv'
    OBVIOUS
  <2>. USE DEF InsertInv, model, counts, TypeOK
  <2>1. CASE New \/ Retrieve
    BY <2>1 DEF New, Retrieve
  <2>2. CASE Insert
    BY <2>2 DEF Insert
  <2>3. CASE InsertPanics \/ InsertFails
    BY <2>3 DEF InsertPanics, InsertFails
  <2>4. CASE UNCHANGED <<exists, inserts, unheard>>
    BY <2>4
  <2>5. ASSUME ~(New \/ Retrieve \/ Insert \/ InsertPanics \/ InsertFails)
        PROVE  UNCHANGED <<exists, inserts, unheard>>
    BY <2>5 DEF Next, Caller, Call, Others, Set, Only, Except, Save, Delete,
           Saving, Creating, Updating, Deleting, Created, Updated, Saved, Deleted,
           Before, After, HookFails, Update, UpdateFails, DeleteRow, DeleteFails,
           OtherRemoves, OtherCreates, OtherWrites, vars
  <2>. QED
    BY <2>1, <2>2, <2>3, <2>4, <2>5
<1>3. InsertInv => InsertedOnce
  BY DEF InsertInv, InsertedOnce
<1>. QED
  BY <1>1, <1>2, <1>3, ModelTypeCorrect, PTL DEF Spec

-----------------------------------------------------------------------------
\* What keeps DeleteReported: a model whose row is gone is one that exists, so that a
\* Save of it inserts nothing; and where the DELETE went through, no row is left for the
\* last hook to report.
DeleteInv ==
  /\ gone => exists /\ row = NoRow
  /\ pc = "deleted" /\ ~err /\ exists /\ ~type.soft => row = NoRow

\* DeleteReported: no failure, lost reply, hook or other client makes Delete of a
\* model that exists return nil and leave its row, and no later call on that model
\* brings the row back.
THEOREM DeletesAreReported == Spec => []DeleteReported
<1>1. Init => DeleteInv
  BY DEF Init, DeleteInv
<1>2. TypeOK /\ DeleteInv /\ [Next]_vars => DeleteInv'
  <2>. SUFFICES ASSUME TypeOK, DeleteInv, [Next]_vars PROVE DeleteInv'
    OBVIOUS
  <2>. USE DEF DeleteInv, model, dbVars, counts, Return
  \* The caller turns to another model or goes on with this one.
  <2>1. CASE New \/ Retrieve
    BY <2>1 DEF New, Retrieve
  <2>2. CASE Save \/ Delete
    BY <2>2 DEF Save, Delete
  <2>3. ASSUME NEW c \in Columns, NEW v \in Values, Set(c, v)
        PROVE  DeleteInv'
    BY <2>3 DEF Set
  <2>4. ASSUME NEW S \in Filters, Only(S) \/ Except(S)
        PROVE  DeleteInv'
    BY <2>4 DEF Only, Except
  \* Hooks touch neither the row nor Exists.
  <2>5. CASE Saving \/ Creating \/ Created \/ Updating \/ Updated \/ Deleting \/ Saved
             \/ \E h \in HookNames : HookFails(h)
    BY <2>5 DEF Saving, Creating, Created, Updating, Updated, Deleting, Before, After,
                HookAgrees, Saved, HookFails
  \* Only a model that does not exist is inserted.
  <2>6. CASE Insert \/ InsertPanics \/ InsertFails
    <3>1. ~exists
      BY <2>6 DEF TypeOK, Insert, InsertPanics, InsertFails
    <3>2. ~gone' /\ pc' # "deleted"
      BY <2>6, <3>1 DEF Insert, InsertPanics, InsertFails
    <3>. QED
      BY <3>2
  \* An UPDATE of a row that is gone makes none.
  <2>7. CASE Update \/ UpdateFails
    BY <2>7 DEF Update, UpdateFails
  <2>8. CASE DeleteRow \/ DeleteFails
    <3>1. pc' = "deleted" /\ UNCHANGED <<exists, type, gone>> /\ type.soft \in BOOLEAN
      BY <2>8, TypesAssumption DEF DeleteRow, DeleteFails, TypeOK, ModelTypes
    <3>2. row' = row \/ row' = NoRow
      BY <2>8 DEF DeleteRow, DeleteFails
    <3>3. exists /\ ~type.soft => row' = NoRow \/ err'
      BY <2>8, <3>1 DEF DeleteRow, DeleteFails
    <3>. QED
      BY <3>1, <3>2, <3>3
  <2>9. CASE Deleted
    <3>1. /\ pc = "deleted" /\ pc' = "idle" /\ UNCHANGED <<row, exists, err, type>>
          /\ gone' => gone \/ (~err /\ exists /\ ~type.soft)
      BY <2>9 DEF Deleted, HookAgrees
    <3>. QED
      BY <3>1
  \* Nobody else makes a row under the key of a model that exists.
  <2>10. CASE Others
    BY <2>10 DEF Others, OtherRemoves, OtherCreates, OtherWrites
  <2>11. CASE UNCHANGED vars
    BY <2>11 DEF vars
  <2>. QED
    BY <2>1, <2>2, <2>3, <2>4, <2>5, <2>6, <2>7, <2>8, <2>9, <2>10, <2>11
    DEF Next, Caller, Call
<1>3. DeleteInv => DeleteReported
  BY DEF DeleteInv, DeleteReported
<1>. QED
  BY <1>1, <1>2, <1>3, ModelTypeCorrect, PTL DEF Spec
=============================================================================
