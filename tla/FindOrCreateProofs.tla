------------------------- MODULE FindOrCreateProofs -------------------------
(***************************************************************************)
(* Calls that find or create rows, by any number of clients over any keys. *)
(***************************************************************************)
EXTENDS FindOrCreate, FiniteSetTheorems, TLAPS

\* Ids tell rows apart.
OwnIds == \A r, s \in table : r.id = s.id => r = s

\* Two calls at once that write one key, a call that asks for another key than it writes,
\* and one whose conditions ask for the values as well, are excused.
Excuses ==
  /\ \A c, d \in Writers :
       c # d /\ ~Idle(c) /\ ~Idle(d) /\ call[c].to = call[d].to => call[c].to \in excused
  /\ \A c \in Writers :
       /\ ~Idle(c) /\ call[c].key # call[c].to => call[c].to \in excused
       /\ call[c].step = "look" /\ call[c].narrowed => call[c].to \in excused

\* A call that is about to insert a row of a key has found none.
NoneYet ==
  \A c \in Writers : call[c].step \in {"insert", "create"} /\ call[c].to \notin excused =>
    Holding(table, call[c].to) = {}

\* What a call has found is there until others get in its way.
FoundStays ==
  \A c \in Writers : c \notin disturbed =>
    /\ call[c].step = "update" => Sought(c) # {}
    /\ call[c].step = "save" =>
         \E r \in table : r.id = call[c].held /\ r.key = call[c].key /\ r.val = call[c].was

\* A call under way has come to nothing yet, and the conditions of one that inserts
\* are the row.
Underway ==
  \A c \in Writers :
    /\ ~Idle(c) => call[c].outcome = "none"
    /\ call[c].step = "insert" => call[c].key = call[c].to

FindInv ==
  /\ FindTypeOK /\ OwnIds
  /\ Excuses /\ NoneYet /\ OneRowEach
  /\ FoundStays /\ ReportHolds
  /\ Underway

-----------------------------------------------------------------------------
(* Rows. *)

\* What an UPDATE makes of a row.
Image(r, k, v) ==
  [r EXCEPT !.key = IF k = "same" THEN @ ELSE k, !.val = IF v = "same" THEN @ ELSE v]

LEMMA ImageFacts ==
  ASSUME NEW r \in Row, NEW k \in Keys \cup {"same"}, NEW v \in Values \cup {"same"}
  PROVE  LET w == Image(r, k, v)
         IN /\ w \in Row /\ w.id = r.id
            /\ w.key = IF k = "same" THEN r.key ELSE k
            /\ w.val = IF v = "same" THEN r.val ELSE v
BY DEF Row, Image

\* The rows after an UPDATE are the images of the rows before, under the same ids.
LEMMA WrittenFacts ==
  ASSUME table \subseteq Row, OwnIds, NEW S \in SUBSET table,
         NEW k \in Keys \cup {"same"}, NEW v \in Values \cup {"same"}
  PROVE  LET t == Written(S, k, v)
         IN /\ t \subseteq Row
            /\ Ids(t) = Ids(table)
            /\ \A w \in t : \E r \in table : /\ w.id = r.id
                                             /\ r \in S => w = Image(r, k, v)
                                             /\ r \notin S => w = r
            /\ \A r \in S : Image(r, k, v) \in t
            /\ \A r \in table \ S : r \in t
            /\ \A w, x \in t : w.id = x.id => w = x
<1> DEFINE t == Written(S, k, v)
<1>1. t = (table \ S) \cup {Image(r, k, v) : r \in S}
  BY DEF Written, Image
<1>. HIDE DEF t
<1>2. \A r \in S : Image(r, k, v) \in Row /\ Image(r, k, v).id = r.id
  BY ImageFacts
<1>3. ASSUME NEW w \in t
      PROVE  \E r \in table : /\ w.id = r.id
                              /\ r \in S => w = Image(r, k, v)
                              /\ r \notin S => w = r
  BY <1>1, <1>2, <1>3
<1>4. t \subseteq Row /\ Ids(t) = Ids(table)
  BY <1>1, <1>2 DEF Ids
<1>5. ASSUME NEW w \in t, NEW x \in t, w.id = x.id
      PROVE  w = x
  <2>1. PICK r \in table : w.id = r.id /\ (r \in S => w = Image(r, k, v)) /\ (r \notin S => w = r)
    BY <1>3
  <2>2. PICK s \in table : x.id = s.id /\ (s \in S => x = Image(s, k, v)) /\ (s \notin S => x = s)
    BY <1>3
  <2>3. r = s
    BY <1>5, <2>1, <2>2 DEF OwnIds
  <2>. QED
    BY <2>1, <2>2, <2>3
<1>. QED
  BY <1>1, <1>3, <1>4, <1>5 DEF t

-----------------------------------------------------------------------------
(* What a step makes of the state of its call. *)

\* Client c's call goes on, or ends, and the others' stay as they are.
Only(c, step, outcome) ==
  /\ call' \in [Writers -> Call]
  /\ \A d \in Writers \ {c} : call'[d] = call[d]
  /\ call'[c].fn = call[c].fn /\ call'[c].to = call[c].to
  /\ call'[c].step = step /\ call'[c].outcome = outcome

\* ... with the target and the conditions as they were.
Keeping(c) ==
  /\ call'[c].key = call[c].key
  /\ call'[c].held = call[c].held /\ call'[c].was = call[c].was
  /\ call'[c].narrowed = call[c].narrowed

LEMMA CallFacts ==
  ASSUME FindTypeOK, NEW c \in Writers
  PROVE  /\ call[c] \in Call /\ call[c].key \in Keys /\ call[c].to \in Keys
         /\ call[c].held \in Nat
         /\ call[c].held <= lastId /\ lastId \in Nat
BY DEF FindTypeOK, Call

LEMMA ReturnsFacts ==
  ASSUME FindTypeOK, NEW c \in Writers, NEW o \in Outcomes, Returns(c, o)
  PROVE  Only(c, "idle", o) /\ Keeping(c)
BY CallFacts DEF Returns, Only, Keeping, FindTypeOK, Call, Steps

LEMMA ProceedsFacts ==
  ASSUME FindTypeOK, NEW c \in Writers, NEW s \in Steps, Proceeds(c, s)
  PROVE  Only(c, s, call[c].outcome) /\ Keeping(c)
BY CallFacts DEF Proceeds, Only, Keeping, FindTypeOK, Call

-----------------------------------------------------------------------------
(* Steps that leave the rows alone. *)

\* A call that returns without a report.
LEMMA ReturnKeeps ==
  ASSUME FindInv, NEW c \in Writers, NEW o \in {"error", "panicked"}, Returns(c, o),
         UNCHANGED <<tableVars, stamped, calls, changes, excused, disturbed>>
  PROVE  FindInv'
<1>1. Only(c, "idle", o) /\ Keeping(c)
  BY ReturnsFacts DEF FindInv, Outcomes
<1>. USE <1>1 DEF Only, Keeping, FindInv, tableVars
<1>2. FindTypeOK'
  BY DEF FindTypeOK
<1>3. Excuses' /\ OneRowEach' /\ OwnIds'
  BY DEF Excuses, Idle, OneRowEach, Holding, OwnIds
<1>4. NoneYet' /\ Underway'
  BY DEF NoneYet, Underway, Idle, Holding
<1>5. FoundStays'
  BY DEF FoundStays, Sought, Holding
<1>6. ReportHolds'
  BY DEF ReportHolds, Holding
<1>. QED
  BY <1>2, <1>3, <1>4, <1>5, <1>6

\* A call that goes on to its statement, with what it found.
LEMMA LookKeeps ==
  ASSUME FindInv, NEW c \in Writers, Exists(c) \/ FirstRow(c)
  PROVE  FindInv'
<1>. USE DEF FindInv
<1>1. /\ call[c].step = "look"
      /\ UNCHANGED <<tableVars, stamped, calls, changes, excused, disturbed>>
  BY DEF Exists, FirstRow
<1>2. PICK s \in {"insert", "update", "save", "create"} :
        /\ Only(c, s, call[c].outcome)
        /\ call'[c].held \in Nat /\ call'[c].held <= lastId
        /\ call'[c].key = (IF s = "insert" THEN call[c].to ELSE call[c].key)
        /\ s \in {"insert", "create"} => Sought(c) = {}
        /\ s = "update" => Sought(c) # {} /\ Keeping(c)
        /\ s = "save" => /\ \E r \in Sought(c) : /\ r.id = call'[c].held
                                               /\ r.val = call'[c].was
                         /\ call'[c].narrowed = call[c].narrowed
  <2>1. CASE Exists(c) /\ InsertIf(c)
    <3>1. call' = [call EXCEPT ![c].step = "insert", ![c].key = call[c].to,
                              ![c].narrowed = TRUE]
      BY <2>1 DEF Exists
    <3>2. \A x \in Call, k \in Keys :
            [x EXCEPT !.step = "insert", !.key = k, !.narrowed = TRUE] \in Call
      BY DEF Call, Steps
    <3>3. call \in [Writers -> Call] /\ call[c] \in Call /\ call[c].to \in Keys
      BY CallFacts DEF FindTypeOK
    <3>4. /\ call' \in [Writers -> Call]
          /\ call' = [call EXCEPT ![c] =
                [call[c] EXCEPT !.step = "insert", !.key = call[c].to, !.narrowed = TRUE]]
      BY <3>1, <3>2, <3>3
    <3>5. /\ Only(c, "insert", call[c].outcome) /\ call'[c].held = call[c].held
          /\ call'[c].key = call[c].to
      BY <3>3, <3>4 DEF Only, Call
    <3>. QED
      BY <2>1, <3>5, CallFacts DEF InsertIf
  <2>2. CASE Exists(c) /\ ~InsertIf(c)
    <3>1. Proceeds(c, "update")
      BY <2>2 DEF Exists
    <3>2. Only(c, "update", call[c].outcome) /\ Keeping(c)
      BY <3>1, ProceedsFacts DEF Steps
    <3>. QED
      BY <2>2, <3>2, CallFacts DEF InsertIf, Keeping
  <2>3. ASSUME FirstRow(c), NEW r \in Sought(c),
               call' = [call EXCEPT ![c].step = "save", ![c].held = r.id, ![c].was = r.val]
        PROVE  /\ Only(c, "save", call[c].outcome) /\ call'[c].key = call[c].key
               /\ call'[c].held = r.id /\ call'[c].was = r.val
               /\ call'[c].held \in Nat /\ call'[c].held <= lastId
               /\ call'[c].narrowed = call[c].narrowed
    <3>1. r \in Row /\ r.id \in 1..lastId /\ r.id \in Nat /\ r.val \in Values
      BY CallFacts DEF Sought, Holding, FindTypeOK, Ids, Row
    <3>2. \A x \in Call : [x EXCEPT !.step = "save", !.held = r.id, !.was = r.val] \in Call
      BY <3>1 DEF Call, Steps
    <3>3. call \in [Writers -> Call] /\ call[c] \in Call
      BY CallFacts DEF FindTypeOK
    <3>4. /\ call' \in [Writers -> Call]
          /\ call' = [call EXCEPT ![c] =
                        [call[c] EXCEPT !.step = "save", !.held = r.id, !.was = r.val]]
      BY <2>3, <3>2, <3>3
    <3>. QED
      BY <3>1, <3>3, <3>4 DEF Only, Call
  <2>4. CASE FirstRow(c) /\ Sought(c) = {}
    <3>1. Proceeds(c, "create")
      BY <2>4 DEF FirstRow, MissLeads
    <3>2. Only(c, "create", call[c].outcome) /\ Keeping(c)
      BY <3>1, ProceedsFacts DEF Steps
    <3>. QED
      BY <2>4, <3>2, CallFacts DEF Keeping
  <2>. QED
    BY <2>1, <2>2, <2>3, <2>4 DEF FirstRow
<1>. USE <1>1, <1>2 DEF Only, tableVars
<1>3. FindTypeOK' /\ OwnIds'
  BY DEF FindTypeOK, OwnIds
<1>4. Excuses' /\ OneRowEach'
  BY DEF Excuses, Idle, OneRowEach, Holding
<1>5. NoneYet'
  <2>. SUFFICES ASSUME NEW d \in Writers, call'[d].step \in {"insert", "create"},
                       call'[d].to \notin excused
                PROVE  Holding(table, call'[d].to) = {}
    BY DEF NoneYet, Holding
  <2>1. CASE d = c
    <3>1. call[c].key = call[c].to /\ ~call[c].narrowed /\ Sought(c) = {}
      BY <2>1, CallFacts DEF Excuses, Idle, Call
    <3>. QED
      BY <2>1, <3>1 DEF Sought
  <2>2. CASE d # c
    BY <2>2 DEF NoneYet
  <2>. QED
    BY <2>1, <2>2
<1>6. Underway'
  BY DEF Underway, Idle
<1>7. FoundStays'
  BY DEF FoundStays, Sought, Holding, Keeping
<1>8. ReportHolds'
  <2>. SUFFICES ASSUME NEW d \in Writers, call'[d].outcome \in {"updated", "created"},
                       d \notin disturbed
                PROVE  \E r \in Holding(table, call'[d].to) : r.val = d
    BY DEF ReportHolds
  <2>. QED
    BY DEF ReportHolds
<1>. QED
  BY <1>3, <1>4, <1>5, <1>6, <1>7, <1>8

-----------------------------------------------------------------------------
(* Rows that are written. *)

\* An UPDATE that the server takes, of rows to which no key is given that is not their
\* own or excused; the calls of others that rely on these rows are disturbed.
LEMMA WriteKeeps ==
  ASSUME FindInv, NEW c \in Writers, NEW S \in SUBSET table,
         NEW k \in Keys \cup {"same"}, NEW v \in Values \cup {"same"},
         NEW o \in {"updated", "error"}, Returns(c, o),
         table' = Written(S, k, v), Accepts(table'), Disturb(S, c),
         \A r \in S : k \in {"same", r.key} \cup excused,
         o = "updated" /\ c \notin disturbed =>
            \E r \in Holding(table', call[c].to) : r.val = c,
         UNCHANGED <<lastId, unique, stamped, calls, changes, excused>>
  PROVE  FindInv'
<1>. USE DEF FindInv
<1>1. Only(c, "idle", o) /\ Keeping(c)
  BY ReturnsFacts DEF Outcomes
<1>2. /\ table' \subseteq Row
      /\ Ids(table') = Ids(table)
      /\ \A w, x \in table' : w.id = x.id => w = x
      /\ \A r \in table \ S : r \in table'
  BY WrittenFacts DEF FindTypeOK
<1>3. ASSUME NEW w \in table', w.key \notin excused
      PROVE  \E r \in table : w.id = r.id /\ w.key = r.key
  <2>1. PICK r \in table : /\ w.id = r.id
                           /\ r \in S => w = Image(r, k, v)
                           /\ r \notin S => w = r
    <3>1. table \subseteq Row /\ OwnIds
      BY DEF FindTypeOK
    <3>2. \A r \in S : Image(r, k, v).id = r.id
      BY <3>1, ImageFacts
    <3>3. w \in table \ S \/ \E r \in S : w = Image(r, k, v)
      BY DEF Written, Image
    <3>. QED
      BY <3>2, <3>3
  <2>2. CASE r \in S
    <3>1. w.key = IF k = "same" THEN r.key ELSE k
      BY <2>1, <2>2, ImageFacts DEF FindTypeOK
    <3>. QED
      BY <1>3, <2>1, <2>2, <3>1
  <2>. QED
    BY <2>1, <2>2
<1>4. \A d \in Writers \ {c}, r \in S : Relies(d, r) => d \in disturbed'
  BY DEF Disturb
<1>5. /\ disturbed \subseteq disturbed' /\ disturbed' \subseteq Writers
      /\ c \in disturbed' <=> c \in disturbed
  BY DEF Disturb, FindTypeOK
<1>. USE <1>1 DEF Only, Keeping
<1>6. FindTypeOK' /\ OwnIds'
  BY <1>2, <1>5 DEF FindTypeOK, OwnIds
<1>7. Excuses' /\ Underway'
  BY DEF Excuses, Underway, Idle
<1>8. OneRowEach'
  <2>. SUFFICES ASSUME NEW l \in Keys, l \notin excused \/ unique,
                       NEW w \in Holding(table', l), NEW x \in Holding(table', l)
                PROVE  w = x
    BY DEF OneRowEach
  <2>0. w \in table' /\ x \in table' /\ w.key = l /\ x.key = l
    BY DEF Holding
  <2>1. CASE unique
    BY <2>0, <2>1 DEF Accepts
  <2>2. CASE l \notin excused
    <3>1. PICK r \in table : w.id = r.id /\ r.key = l
      BY <1>3, <2>0, <2>2
    <3>2. PICK s \in table : x.id = s.id /\ s.key = l
      BY <1>3, <2>0, <2>2
    <3>3. r = s
      BY <2>2, <3>1, <3>2 DEF OneRowEach, Holding
    <3>. QED
      BY <1>2, <2>0, <3>1, <3>2, <3>3
  <2>. QED
    BY <2>1, <2>2
<1>9. NoneYet'
  BY <1>3 DEF NoneYet, Holding
<1>10. ASSUME NEW d \in Writers \ {c}, d \notin disturbed', NEW r \in table, Relies(d, r)
       PROVE  r \in table'
  BY <1>2, <1>4, <1>10
<1>11. FoundStays'
  <2>. SUFFICES ASSUME NEW d \in Writers \ {c}, d \notin disturbed'
                PROVE  /\ call[d].step = "update" => Sought(d)' # {}
                       /\ call[d].step = "save" =>
                            \E r \in table' : /\ r.id = call[d].held /\ r.key = call[d].key
                                              /\ r.val = call[d].was
    BY DEF FoundStays
  <2>1. CASE call[d].step = "update"
    <3>1. PICK r \in Sought(d) : TRUE
      BY <1>5, <2>1 DEF FoundStays
    <3>2. r \in table'
      BY <1>10, <2>1, <3>1 DEF Relies, Sought, Holding
    <3>. QED
      BY <2>1, <3>1, <3>2 DEF Sought, Holding
  <2>2. CASE call[d].step = "save"
    <3>1. PICK r \in table : r.id = call[d].held /\ r.key = call[d].key /\ r.val = call[d].was
      BY <1>5, <2>2 DEF FoundStays
    <3>2. r \in table'
      BY <1>10, <2>2, <3>1 DEF Relies
    <3>. QED
      BY <2>2, <3>1, <3>2
  <2>. QED
    BY <2>1, <2>2
<1>12. ReportHolds'
  <2>. SUFFICES ASSUME NEW d \in Writers, call'[d].outcome \in {"updated", "created"},
                       d \notin disturbed'
                PROVE  \E r \in Holding(table', call'[d].to) : r.val = d
    BY DEF ReportHolds
  <2>1. CASE d = c
    BY <1>5, <2>1
  <2>2. CASE d # c
    <3>1. Idle(d)
      BY <2>2 DEF Underway
    <3>2. PICK r \in table : r.key = call[d].to /\ r.val = d
      BY <1>5, <2>2 DEF ReportHolds, Holding
    <3>3. r \in table'
      BY <1>10, <2>2, <3>1, <3>2 DEF Relies
    <3>. QED
      BY <2>2, <3>2, <3>3 DEF Holding
  <2>. QED
    BY <2>1, <2>2
<1>. QED
  BY <1>6, <1>7, <1>8, <1>9, <1>11, <1>12

\* ... or that a unique index refuses.
LEMMA UpdatesKeeps ==
  ASSUME FindInv, NEW c \in Writers, NEW S \in SUBSET table,
         NEW k \in Keys \cup {"same"}, NEW v \in Values \cup {"same"},
         Updates(c, S, k, v),
         \A r \in S : k \in {"same", r.key} \cup excused,
         c \notin disturbed => \E r \in S : /\ Image(r, k, v).key = call[c].to
                                            /\ Image(r, k, v).val = c
  PROVE  FindInv'
<1> DEFINE t == Written(S, k, v)
<1>0. UNCHANGED <<lastId, unique, stamped, calls, changes, excused>>
  BY DEF Updates
<1>1. CASE Accepts(t) /\ table' = t /\ Disturb(S, c) /\ Replies(c, "updated")
  <2>1. PICK o \in {"updated", "error"} : Returns(c, o)
    BY <1>1 DEF Replies
  <2>2. Accepts(table')
    BY <1>0, <1>1 DEF Accepts
  <2>3. ASSUME c \notin disturbed
        PROVE  \E r \in Holding(table', call[c].to) : r.val = c
    <3>1. \A r \in S : Image(r, k, v) \in table'
      BY <1>1, WrittenFacts DEF FindInv, FindTypeOK
    <3>. QED
      BY <2>3, <3>1 DEF Holding
  <2>. QED
    BY <1>0, <1>1, <2>1, <2>2, <2>3, WriteKeeps
<1>2. CASE Returns(c, "error") /\ UNCHANGED <<table, disturbed>>
  BY <1>0, <1>2, ReturnKeeps DEF tableVars
<1>. QED
  BY <1>1, <1>2 DEF Updates

LEMMA UpdateKeeps ==
  ASSUME FindInv, NEW c \in Writers, Update(c)
  PROVE  FindInv'
<1>1. /\ Sought(c) \in SUBSET table /\ c \in Values \cup {"same"} /\ c # "same"
      /\ call[c].to \in Keys \cup {"same"} /\ call[c].to # "same"
      /\ \A r \in Sought(c) : r.key = call[c].key
  BY TableAssumption, CallFacts DEF FindInv, Sought, Holding, Values
<1>2. ASSUME NEW r \in Sought(c)
      PROVE  /\ call[c].to \in {"same", r.key} \cup excused
             /\ Image(r, call[c].to, c).key = call[c].to
             /\ Image(r, call[c].to, c).val = c
  <2>1. r \in Row
    BY <1>1 DEF FindInv, FindTypeOK
  <2>2. call[c].to \in {r.key} \cup excused
    BY <1>1 DEF Update, FindInv, Excuses, Idle
  <2>. QED
    BY <1>1, <2>1, <2>2, ImageFacts
<1>3. c \notin disturbed => \E r \in Sought(c) : TRUE
  BY DEF Update, FindInv, FoundStays
<1>. QED
  BY <1>1, <1>2, <1>3, UpdatesKeeps DEF Update

LEMMA SaveKeeps ==
  ASSUME FindInv, NEW c \in Writers, Save(c)
  PROVE  FindInv'
<1> DEFINE mine == {r \in table : r.id = call[c].held}
           key == Dirty(call[c].key, call[c].to)
           val == Dirty(call[c].was, c)
<1>1. /\ mine \in SUBSET table /\ call[c].step = "save"
      /\ key \in Keys \cup {"same"} /\ val \in Values \cup {"same"}
  BY CallFacts DEF FindInv, Dirty, Values, Save
<1>2. CASE Updates(c, mine, key, val)
  <2>1. key = "same" \/ key \in excused
    BY <1>1 DEF FindInv, Excuses, Idle, Dirty
  <2>2. ASSUME c \notin disturbed
        PROVE  \E r \in mine : Image(r, key, val).key = call[c].to /\ Image(r, key, val).val = c
    <3>1. PICK r \in mine : r.key = call[c].key /\ r.val = call[c].was
      BY <1>1, <2>2 DEF FindInv, FoundStays
    <3>2. r \in Row /\ c # "same" /\ call[c].to # "same"
      BY TableAssumption, CallFacts DEF FindInv, FindTypeOK
    <3>3. /\ Image(r, key, val).key = IF key = "same" THEN r.key ELSE key
          /\ Image(r, key, val).val = IF val = "same" THEN r.val ELSE val
      BY <1>1, <3>2, ImageFacts
    <3>. QED
      BY <3>1, <3>2, <3>3 DEF Dirty
  <2>. HIDE DEF mine, key, val
  <2>. QED
    BY <1>1, <1>2, <2>1, <2>2, UpdatesKeeps
<1>3. CASE /\ Returns(c, "error")
           /\ UNCHANGED <<tableVars, stamped, calls, changes, excused, disturbed>>
  BY <1>3, ReturnKeeps
<1>. QED
  BY <1>2, <1>3 DEF Save, Filled

-----------------------------------------------------------------------------
(* Rows that are new. *)

\* A row of the call's key, with an id that is new or that is used again.
LEMMA RowKeeps ==
  ASSUME FindInv, NEW c \in Writers, NEW row \in Row, NEW o \in {"created", "error"},
         call[c].step \in {"insert", "create"},
         Only(c, "idle", o),
         call'[c].held \in Nat, call'[c].held <= lastId',
         row.key = call[c].to, row.val = c, row.id >= 1,
         Fits(row), table' = table \cup {row},
         \/ row.id = lastId + 1 /\ lastId' = row.id
         \/ row.id <= lastId /\ lastId' = lastId,
         UNCHANGED <<unique, stamped, calls, changes, excused, disturbed>>
  PROVE  FindInv'
<1>. USE DEF FindInv, Only
<1>1. lastId \in Nat /\ lastId' \in Nat /\ lastId <= lastId' /\ row.id \in Nat
      /\ row.id \in 1..lastId'
  BY DEF FindTypeOK, Row
<1>2. FindTypeOK'
  <2>1. Ids(table') \subseteq 1..lastId'
    BY <1>1 DEF FindTypeOK, Ids
  <2>2. \A d \in Writers : call'[d].held <= lastId'
    BY <1>1, CallFacts
  <2>. QED
    BY <1>1, <2>1, <2>2 DEF FindTypeOK
<1>3. OwnIds'
  BY DEF OwnIds, Fits, Ids
<1>4. Excuses'
  BY DEF Excuses, Idle
<1>5. OneRowEach'
  <2>. SUFFICES ASSUME NEW k \in Keys, k \notin excused \/ unique,
                       NEW w \in Holding(table', k), NEW x \in Holding(table', k)
                PROVE  w = x
    BY DEF OneRowEach
  <2>1. CASE k # row.key
    BY <2>1 DEF OneRowEach, Holding
  <2>2. CASE k = row.key
    <3>1. CASE unique
      BY <3>1 DEF Fits, Accepts, Holding
    <3>2. CASE k \notin excused
      <4>1. Holding(table, k) = {}
        BY <2>2, <3>2 DEF NoneYet
      <4>. QED
        BY <4>1 DEF Holding
    <3>. QED
      BY <3>1, <3>2
  <2>. QED
    BY <2>1, <2>2
<1>6. NoneYet'
  BY DEF NoneYet, Holding, Excuses, Idle
<1>7. FoundStays'
  BY DEF FoundStays, Sought, Holding
<1>8. ReportHolds'
  BY DEF ReportHolds, Holding
<1>9. Underway'
  BY DEF Underway, Idle
<1>. QED
  BY <1>2, <1>3, <1>4, <1>5, <1>6, <1>7, <1>8, <1>9

LEMMA InsertKeeps ==
  ASSUME FindInv, NEW c \in Writers, Insert(c)
  PROVE  FindInv'
<1> DEFINE row == [id |-> lastId + 1, key |-> call[c].key, val |-> c]
<1>1. /\ row \in Row /\ row.id = lastId + 1 /\ row.key = call[c].to /\ row.val = c
      /\ lastId \in Nat
  BY CallFacts DEF FindInv, Underway, Insert, Row, Values
<1>2. CASE Fits(row) /\ table' = table \cup {row} /\ lastId' = row.id /\ Replies(c, "created")
  <2>1. PICK o \in {"created", "error"} : Returns(c, o)
    BY <1>2 DEF Replies
  <2>2. Only(c, "idle", o) /\ Keeping(c)
    BY <2>1, ReturnsFacts DEF FindInv, Outcomes
  <2>3. call'[c].held \in Nat /\ call'[c].held <= lastId'
    BY <1>1, <1>2, <2>2, CallFacts DEF Keeping, FindInv
  <2>. HIDE DEF row
  <2>. QED
    BY <1>1, <1>2, <2>2, <2>3, RowKeeps DEF Insert
<1>3. CASE Returns(c, "error") /\ UNCHANGED <<table, lastId>>
  BY <1>3, ReturnKeeps DEF Insert, tableVars
<1>. QED
  BY <1>2, <1>3 DEF Insert

LEMMA CreateKeeps ==
  ASSUME FindInv, NEW c \in Writers, Create(c)
  PROVE  FindInv'
<1> DEFINE new == call[c].held = 0
           row == [id |-> NewId(c), key |-> call[c].to, val |-> c]
<1>1. /\ row \in Row /\ row.id = NewId(c) /\ row.key = call[c].to /\ row.val = c
      /\ lastId \in Nat /\ NewId(c) \in Nat /\ NewId(c) >= 1
      /\ new => NewId(c) = lastId + 1
      /\ ~new => NewId(c) <= lastId
  BY CallFacts DEF FindInv, Row, Values, NewId
<1>2. CASE /\ Fits(row)
           /\ table' = table \cup {row}
           /\ lastId' = IF new THEN row.id ELSE lastId
           /\ \/ call' = [call EXCEPT ![c].step = "idle", ![c].outcome = "created",
                                      ![c].held = row.id]
              \/ Returns(c, "error")
  <2>1. /\ row.id <= lastId' /\ lastId <= lastId' /\ row.id >= 1
        /\ \/ row.id = lastId + 1 /\ lastId' = row.id
           \/ row.id <= lastId /\ lastId' = lastId
    BY <1>1, <1>2
  <2>2. CASE call' = [call EXCEPT ![c].step = "idle", ![c].outcome = "created",
                                  ![c].held = row.id]
    <3>1. \A x \in Call, i \in Nat :
            [x EXCEPT !.step = "idle", !.outcome = "created", !.held = i] \in Call
      BY DEF Call, Steps, Outcomes
    <3>2. call \in [Writers -> Call] /\ call[c] \in Call
      BY CallFacts DEF FindInv, FindTypeOK
    <3>3. row.id \in Nat
      BY <1>1
    <3>. HIDE DEF row, new
    <3>4. /\ call' \in [Writers -> Call]
          /\ call' = [call EXCEPT ![c] =
                [call[c] EXCEPT !.step = "idle", !.outcome = "created", !.held = row.id]]
      BY <2>2, <3>1, <3>2, <3>3
    <3>5. Only(c, "idle", "created") /\ call'[c].held = row.id
      BY <3>2, <3>4 DEF Only, Call
    <3>. QED
      BY <1>1, <1>2, <2>1, <3>3, <3>5, RowKeeps DEF Create
  <2>3. CASE Returns(c, "error")
    <3>1. Only(c, "idle", "error") /\ Keeping(c)
      BY <2>3, ReturnsFacts DEF FindInv, Outcomes
    <3>2. call'[c].held \in Nat /\ call'[c].held <= lastId'
      BY <1>1, <2>1, <3>1, CallFacts DEF Keeping, FindInv
    <3>. HIDE DEF row, new
    <3>. QED
      BY <1>1, <1>2, <3>1, <3>2, RowKeeps DEF Create
  <2>. QED
    BY <1>2, <2>2, <2>3
<1>3. CASE Returns(c, "error") /\ UNCHANGED <<table, lastId>>
  BY <1>3, ReturnKeeps DEF Create, tableVars
<1>. QED
  BY <1>2, <1>3 DEF Create

-----------------------------------------------------------------------------
(* The statements of a call, the steps of others, and the initial states. *)

LEMMA StatementKeeps ==
  ASSUME FindInv, NEW c \in Writers, Statement(c)
  PROVE  FindInv'
<1>1. CASE FirstPanics(c)
  BY <1>1, ReturnKeeps DEF FirstPanics
<1>2. CASE Fails(c)
  BY <1>2, ReturnKeeps DEF Fails
<1>. QED
  BY <1>1, <1>2, LookKeeps, UpdateKeeps, SaveKeeps, InsertKeeps, CreateKeeps DEF Statement

\* A new call: its target, if it is used again, and its conditions.
LEMMA BeginKeeps ==
  ASSUME FindInv, NEW c \in Writers, NEW fn \in Helpers, NEW k \in Keys, NEW to \in Keys, Begin(c, fn, k, to)
  PROVE  FindInv'
<1>1. PICK again \in BOOLEAN :
        LET narrowed == again /\ call[c].narrowed
        IN /\ call' = [call EXCEPT ![c] =
                          [fn |-> fn, key |-> k, to |-> to, step |-> "look",
                           held |-> IF again THEN call[c].held ELSE 0,
                           was |-> "other", narrowed |-> narrowed, outcome |-> "none"]]
           /\ excused' = IF k # to \/ narrowed \/ Busy(to) THEN excused \cup {to} ELSE excused
  BY DEF Begin
<1>2. UNCHANGED <<tableVars, stamped, changes>> /\ disturbed' = disturbed \ {c}
      /\ calls' \in 0..MaxCalls
  BY CallsAssumption DEF Begin, FindInv, FindTypeOK
<1> DEFINE new == [fn |-> fn, key |-> k, to |-> to, step |-> "look",
                   held |-> IF again THEN call[c].held ELSE 0, was |-> "other",
                   narrowed |-> again /\ call[c].narrowed, outcome |-> "none"]
<1>3. call[c].narrowed \in BOOLEAN /\ call[c].held \in Nat /\ call[c].held <= lastId
  BY CallFacts DEF FindInv, Call
<1>4. new \in Call /\ new.held <= lastId /\ new.step = "look" /\ new.key = k /\ new.to = to
      /\ new.outcome = "none" /\ new.narrowed = (again /\ call[c].narrowed)
  <2>1. (again /\ call[c].narrowed) \in BOOLEAN
    OBVIOUS
  <2>2. (IF again THEN call[c].held ELSE 0) \in Nat /\ "other" \in Values
    BY <1>3 DEF Values
  <2>3. new \in Call
    BY <2>1, <2>2 DEF Call, Steps, Outcomes
  <2>4. new.held <= lastId
    BY <1>3, CallFacts DEF FindInv
  <2>. QED
    BY <2>3, <2>4
<1>5. /\ call' \in [Writers -> Call] /\ call'[c] = new
      /\ \A d \in Writers \ {c} : call'[d] = call[d]
  BY <1>1, <1>4 DEF FindInv, FindTypeOK
<1>6. /\ excused \subseteq excused' /\ excused' \subseteq Keys
      /\ k # to \/ (again /\ call[c].narrowed) \/ Busy(to) => to \in excused'
  BY <1>1 DEF FindInv, FindTypeOK
<1>. HIDE DEF new
<1>. USE <1>2, <1>4, <1>5, <1>6 DEF FindInv, tableVars
<1>7. FindTypeOK' /\ OwnIds'
  BY DEF FindTypeOK, OwnIds
<1>8. Excuses'
  <2>1. \A d \in Writers \ {c} : ~Idle(d) /\ call[d].to = to => to \in excused'
    BY DEF Busy
  <2>2. \A d, e \in Writers :
          d # e /\ ~Idle(d)' /\ ~Idle(e)' /\ call'[d].to = call'[e].to => call'[d].to \in excused'
    BY <2>1 DEF Excuses, Idle
  <2>3. \A d \in Writers :
          /\ ~Idle(d)' /\ call'[d].key # call'[d].to => call'[d].to \in excused'
          /\ call'[d].step = "look" /\ call'[d].narrowed => call'[d].to \in excused'
    BY DEF Excuses, Idle
  <2>. QED
    BY <2>2, <2>3 DEF Excuses
<1>9. NoneYet' /\ OneRowEach'
  BY DEF NoneYet, OneRowEach, Holding
<1>10. FoundStays'
  BY DEF FoundStays, Sought, Holding
<1>11. ReportHolds'
  BY DEF ReportHolds, Holding
<1>12. Underway'
  BY DEF Underway, Idle
<1>. QED
  BY <1>7, <1>8, <1>9, <1>10, <1>11, <1>12

\* A row that others change or remove.
LEMMA ChangeKeeps ==
  ASSUME FindInv, Change
  PROVE  FindInv'
<1>1. PICK r \in table : /\ table' \in {table \ {r}, Written({r}, "same", "other")}
                        /\ disturbed' = disturbed \cup {d \in Writers : Relies(d, r)}
  BY DEF Change
<1>2. /\ UNCHANGED <<lastId, unique, call, stamped, calls, excused>>
      /\ changes' \in 0..MaxChanges
  BY CallsAssumption DEF Change, FindInv, FindTypeOK
<1>3. ASSUME NEW w \in table'
      PROVE  w \in Row /\ \E s \in table : w.id = s.id /\ w.key = s.key
  <2>1. CASE w \in table
    BY <2>1 DEF FindInv, FindTypeOK
  <2>2. CASE w \notin table
    <3>1. w \in Written({r}, "same", "other")
      BY <1>1, <2>2
    <3>2. w = Image(r, "same", "other")
      BY <2>2, <3>1 DEF Written, Image
    <3>. QED
      BY <3>2, ImageFacts DEF FindInv, FindTypeOK, Values
  <2>. QED
    BY <2>1, <2>2
<1>4. \A w, x \in table' : w.id = x.id => w = x
  <2>1. table \subseteq Row /\ OwnIds
    BY DEF FindInv, FindTypeOK
  <2>2. CASE table' = table \ {r}
    BY <2>1, <2>2 DEF OwnIds
  <2>3. CASE table' = Written({r}, "same", "other")
    <3>1. {r} \in SUBSET table /\ "same" \in Keys \cup {"same"} /\ "other" \in Values \cup {"same"}
      BY DEF Values
    <3>2. \A w, x \in Written({r}, "same", "other") : w.id = x.id => w = x
      BY <2>1, <3>1, WrittenFacts
    <3>. QED
      BY <2>3, <3>2
  <2>. QED
    BY <1>1, <2>2, <2>3
<1>5. ASSUME NEW s \in table, s # r
      PROVE  s \in table'
  BY <1>1, <1>5 DEF Written
<1>. USE <1>2 DEF FindInv
<1>6. FindTypeOK'
  <2>1. Ids(table') \subseteq 1..lastId
    BY <1>3 DEF FindTypeOK, Ids
  <2>. QED
    BY <1>1, <1>3, <2>1 DEF FindTypeOK
<1>7. OwnIds' /\ Excuses' /\ Underway'
  BY <1>4 DEF OwnIds, Excuses, Idle, Underway
<1>8. OneRowEach'
  <2>. SUFFICES ASSUME NEW k \in Keys, k \notin excused \/ unique,
                       NEW w \in Holding(table', k), NEW x \in Holding(table', k)
                PROVE  w = x
    BY DEF OneRowEach
  <2>1. PICK q \in table : w.id = q.id /\ q.key = k
    BY <1>3 DEF Holding
  <2>2. PICK s \in table : x.id = s.id /\ s.key = k
    BY <1>3 DEF Holding
  <2>3. q = s
    BY <2>1, <2>2 DEF OneRowEach, Holding
  <2>. QED
    BY <1>4, <2>1, <2>2, <2>3 DEF Holding
<1>9. NoneYet'
  BY <1>3 DEF NoneYet, Holding
<1>10. ASSUME NEW d \in Writers, d \notin disturbed', NEW s \in table, Relies(d, s)
       PROVE  s \in table' /\ d \notin disturbed
  BY <1>1, <1>5, <1>10
<1>11. FoundStays'
  <2>. SUFFICES ASSUME NEW d \in Writers, d \notin disturbed'
                PROVE  /\ call[d].step = "update" => Sought(d)' # {}
                       /\ call[d].step = "save" =>
                            \E s \in table' : /\ s.id = call[d].held /\ s.key = call[d].key
                                              /\ s.val = call[d].was
    BY DEF FoundStays
  <2>0. d \notin disturbed
    BY <1>1
  <2>1. CASE call[d].step = "update"
    <3>1. PICK s \in Sought(d) : TRUE
      BY <2>0, <2>1 DEF FoundStays
    <3>2. s \in table'
      BY <1>10, <2>1, <3>1 DEF Relies, Sought, Holding
    <3>. QED
      BY <2>1, <3>1, <3>2 DEF Sought, Holding
  <2>2. CASE call[d].step = "save"
    <3>1. PICK s \in table : s.id = call[d].held /\ s.key = call[d].key /\ s.val = call[d].was
      BY <2>0, <2>2 DEF FoundStays
    <3>2. s \in table'
      BY <1>10, <2>2, <3>1 DEF Relies
    <3>. QED
      BY <2>2, <3>1, <3>2
  <2>. QED
    BY <2>1, <2>2
<1>12. ReportHolds'
  <2>. SUFFICES ASSUME NEW d \in Writers, call[d].outcome \in {"updated", "created"},
                       d \notin disturbed'
                PROVE  \E s \in Holding(table', call[d].to) : s.val = d
    BY DEF ReportHolds
  <2>1. Idle(d) /\ d \notin disturbed
    BY <1>1 DEF Underway
  <2>2. PICK s \in table : s.key = call[d].to /\ s.val = d
    BY <2>1 DEF ReportHolds, Holding
  <2>3. s \in table'
    BY <1>10, <2>1, <2>2 DEF Relies
  <2>. QED
    BY <2>2, <2>3 DEF Holding
<1>. QED
  BY <1>6, <1>7, <1>8, <1>9, <1>11, <1>12

\* At first no call has begun and no key has two rows.
LEMMA FindInvInit == TableInit /\ FindInit => FindInv
<1>. SUFFICES ASSUME TableInit, FindInit PROVE FindInv
  OBVIOUS
<1>1. PICK k0 \in Keys :
        call = [c \in Writers |->
                  [fn |-> "firstOrNew", key |-> k0, to |-> k0, step |-> "idle", held |-> 0,
                   was |-> "other", narrowed |-> FALSE, outcome |-> "none"]]
  BY DEF FindInit
<1>2. PICK S \in SUBSET Keys : \E rank \in [S -> 1..Cardinality(S)] :
        /\ \A k, l \in S : rank[k] = rank[l] => k = l
        /\ table = {[id |-> rank[k], key |-> k, val |-> "other"] : k \in S}
        /\ lastId = Cardinality(S)
  BY DEF TableInit
<1>3. PICK rank \in [S -> 1..Cardinality(S)] :
        /\ \A k, l \in S : rank[k] = rank[l] => k = l
        /\ table = {[id |-> rank[k], key |-> k, val |-> "other"] : k \in S}
        /\ lastId = Cardinality(S)
  BY <1>2
<1>4. Cardinality(S) \in Nat
  BY TableAssumption, FS_Subset, FS_CardinalityType
<1>5. \A r \in table : r \in Row /\ r.id \in 1..lastId /\ r.id = rank[r.key] /\ r.key \in S
                     /\ r.val = "other"
  BY <1>3, <1>4 DEF Row, Values
<1>6. FindTypeOK
  <2>1. call \in [Writers -> Call] /\ \A c \in Writers : call[c].held = 0
    <3>1. [fn |-> "firstOrNew", key |-> k0, to |-> k0, step |-> "idle", held |-> 0,
           was |-> "other", narrowed |-> FALSE, outcome |-> "none"] \in Call
      BY DEF Call, Helpers, Steps, Values, Outcomes
    <3>. QED
      BY <1>1, <3>1
  <2>2. table \subseteq Row /\ Ids(table) \subseteq 1..lastId /\ lastId \in Nat
    BY <1>3, <1>4, <1>5 DEF Ids
  <2>3. unique \in BOOLEAN
    BY DEF TableInit
  <2>4. /\ stamped \in BOOLEAN /\ calls \in 0..MaxCalls /\ changes \in 0..MaxChanges
        /\ excused = {} /\ disturbed = {}
    BY DEF FindInit
  <2>5. \A c \in Writers : call[c].held <= lastId
    BY <2>1, <2>2
  <2>. QED
    BY <2>1, <2>2, <2>3, <2>4, <2>5 DEF FindTypeOK
<1>7. OwnIds /\ OneRowEach
  BY <1>3, <1>5 DEF OwnIds, OneRowEach, Holding
<1>8. Excuses /\ NoneYet /\ FoundStays /\ ReportHolds /\ Underway
  BY <1>1 DEF Excuses, Idle, NoneYet, FoundStays, ReportHolds, Underway
<1>. QED
  BY <1>6, <1>7, <1>8 DEF FindInv

-----------------------------------------------------------------------------
(* What a statement writes to. *)

\* A row as it was, or as it has become, is of the call's key or the one a Save found.
LEMMA StatementOwn ==
  ASSUME FindInv, NEW c \in Writers, Statement(c), NEW d \in Writers, call'[d] # call[d]
  PROVE  /\ \A r \in table \ table' :
              r.key = call[d].key \/ (r.id = call[d].held /\ d \in disturbed)
         /\ \A r \in table' \ table :
              r.key = call[d].to \/ (r.id = call[d].held /\ d \in disturbed)
<1>. USE DEF FindInv
<1>1. CASE UNCHANGED table
  BY <1>1
<1>2. ASSUME NEW o \in Outcomes, Returns(c, o)
      PROVE  d = c
  BY <1>2, ReturnsFacts DEF Only
<1>3. ASSUME NEW S \in SUBSET table, NEW k \in Keys \cup {"same"},
             NEW v \in Values \cup {"same"}, Updates(c, S, k, v)
      PROVE  /\ d = c
             /\ \A r \in table \ table' : r \in S
             /\ \A w \in table' \ table :
                  \E r \in S : w.id = r.id /\ w.key = IF k = "same" THEN r.key ELSE k
  <2>1. d = c
    BY <1>2, <1>3 DEF Updates, Replies, Outcomes
  <2>2. CASE UNCHANGED table
    BY <2>1, <2>2
  <2>3. CASE table' = Written(S, k, v)
    <3>1. \A r \in table \ table' : r \in S
      BY <2>3 DEF Written
    <3>2. ASSUME NEW w \in table' \ table
          PROVE  \E r \in S : w.id = r.id /\ w.key = IF k = "same" THEN r.key ELSE k
      <4>1. PICK r \in S : w = Image(r, k, v)
        BY <2>3, <3>2 DEF Written, Image
      <4>. QED
        BY <4>1, ImageFacts DEF FindTypeOK
    <3>. QED
      BY <2>1, <3>1, <3>2
  <2>. QED
    BY <1>3, <2>2, <2>3 DEF Updates
<1>4. CASE Update(c)
  <2>1. /\ Sought(c) \in SUBSET table /\ \A r \in Sought(c) : r.key = call[c].key
        /\ call[c].to \in Keys \cup {"same"} /\ call[c].to # "same"
        /\ c \in Values \cup {"same"}
    BY TableAssumption, CallFacts DEF Sought, Holding, Values
  <2>2. Updates(c, Sought(c), call[c].to, c)
    BY <1>4 DEF Update
  <2>. QED
    BY <1>3, <2>1, <2>2
<1>5. CASE Save(c)
  <2> DEFINE mine == {r \in table : r.id = call[c].held}
             key == Dirty(call[c].key, call[c].to)
             val == Dirty(call[c].was, c)
  <2>1. CASE Updates(c, mine, key, val)
    <3>1. /\ mine \in SUBSET table /\ key \in Keys \cup {"same"}
          /\ val \in Values \cup {"same"} /\ \A r \in mine : r.id = call[c].held
      BY CallFacts DEF Dirty, Values
    <3>2. c \notin disturbed => \A r \in mine : r.key = call[c].key
      BY <1>5 DEF Save, FoundStays, OwnIds
    <3>3. \A r \in mine : c \notin disturbed =>
             (IF key = "same" THEN r.key ELSE key) = call[c].to
      BY <3>2, TableAssumption, CallFacts DEF Dirty
    <3>. HIDE DEF mine, key, val
    <3>4. d = c
      BY <1>3, <2>1, <3>1
    <3>5. \A r \in table \ table' : r \in mine
      BY <1>3, <2>1, <3>1
    <3>6. \A w \in table' \ table :
             \E r \in mine : w.id = r.id /\ w.key = IF key = "same" THEN r.key ELSE key
      BY <1>3, <2>1, <3>1
    <3>. QED
      BY <3>1, <3>2, <3>3, <3>4, <3>5, <3>6
  <2>2. CASE UNCHANGED table
    BY <1>1, <2>2
  <2>. QED
    BY <1>5, <2>1, <2>2 DEF Save, Filled, tableVars
<1>6. CASE Insert(c)
  BY <1>2, <1>6 DEF Insert, Replies, Outcomes, Underway
<1>7. CASE Create(c)
  <2>1. d = c
    BY <1>2, <1>7 DEF Create, Outcomes, FindTypeOK
  <2>. QED
    BY <1>7, <2>1 DEF Create
<1>8. CASE Exists(c) \/ FirstRow(c) \/ FirstPanics(c) \/ Fails(c)
  BY <1>1, <1>8 DEF Exists, FirstRow, FirstPanics, Fails, tableVars
<1>. QED
  BY <1>4, <1>5, <1>6, <1>7, <1>8 DEF Statement
=============================================================================
