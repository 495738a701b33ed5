-------------------------- MODULE AutoImportProofs --------------------------
(* Theorems about AutoImport and their proofs.                              *)
EXTENDS AutoImport, FiniteSetTheorems, TLAPS

-----------------------------------------------------------------------------
(* The inductive invariant, in named parts.                                 *)

\* codex_auto_import_attempt and codex_auto_import hold one record between
\* them, and the phase of a boot says which.
Books ==
    /\ \A p, q \in attempt : p = q
    /\ \A m, n \in marker : m = n
    /\ marker # {} => attempt = {}
    /\ phase = "engine" => marker = {} /\ attempt # {}
    /\ phase \in {"rebuild", "flip"} => marker # {}

\* Nothing recorded or stored is above the last id given out.
IdsGivenOut ==
    /\ \A t \in Plan : \A x \in table[t] : x.id <= seq[t]
    /\ \A p \in attempt : \A t \in Plan : p[t] <= seq[t]
    /\ \A m \in marker : \A r \in m.ranges : r.max <= seq[r.table]

\* Once the deletes of a boot are committed no imported row is left.
PurgedInBoot ==
    phase \in {"rebuild", "flip"} =>
        \A t \in Plan : \A x \in table[t] : x.by # "auto"

\* Without others writing under an open attempt, what lies above the snapshot
\* or in a range is the import's own.
OwnRanges ==
    ~exposed =>
        /\ \A p \in attempt : \A t \in Plan : \A x \in table[t] : x.id > p[t] => x.by = "auto"
        /\ \A m \in marker : \A r \in m.ranges : \A t \in Plan : \A x \in table[t] :
              InRange(r, t, x) => x.by = "auto"

TablesFinite == \A t \in Plan : IsFiniteSet(table[t])

AutoInv ==
    /\ TypeOK /\ TablesFinite /\ Books /\ IdsGivenOut
    /\ AutoRowsTracked /\ PurgedLeavesNoImport /\ PurgedInBoot /\ OwnRanges

-----------------------------------------------------------------------------

LEMMA AutoInitInv == Init => AutoInv
<1> SUFFICES ASSUME Init PROVE AutoInv
  OBVIOUS
<1> USE BoundAssumption
<1>1. PICK old \in SUBSET Plan :
          /\ table = [t \in Plan |->
                        IF t \in old THEN {[id |-> 1, src |-> Live, by |-> "claude"]} ELSE {}]
          /\ seq = [t \in Plan |-> IF t \in old THEN 1 ELSE 0]
          /\ agg = IF Requests \in old THEN 1 ELSE 0
  BY DEF Init
<1>2. TypeOK
  <2>1. [id |-> 1, src |-> Live, by |-> "claude"] \in Row
    BY DEF Row, Ids, Writers
  <2>2. table \in [Plan -> SUBSET Row]
    BY <1>1, <2>1
  <2>3. seq \in [Plan -> Ids] /\ agg \in Nat
    BY <1>1 DEF Ids
  <2>4. /\ attempt = {} /\ marker = {} /\ phase = "off" /\ clock = 0 /\ today = 0
        /\ exposed = FALSE /\ crashes = 0 /\ errors = 0 /\ jumps = 0
    BY DEF Init
  <2>5. 0 \in Days /\ 0 \in 0 .. MaxCrashes /\ 0 \in 0 .. MaxErrors /\ 0 \in 0 .. MaxJumps
    BY BoundAssumption DEF Days
  <2> QED
    BY <2>2, <2>3, <2>4, <2>5 DEF TypeOK
<1>3. \A t \in Plan : \A x \in table[t] : x.id = 1 /\ x.by = "claude" /\ seq[t] = 1
  BY <1>1
<1>4. TablesFinite
  <2>1. IsFiniteSet({[id |-> 1, src |-> Live, by |-> "claude"]})
    BY FS_Singleton
  <2> QED
    BY <1>1, <2>1, FS_EmptySet DEF TablesFinite
<1> QED
  BY <1>2, <1>3, <1>4 DEF Init, AutoInv, Books, IdsGivenOut, AutoRowsTracked,
     PurgedLeavesNoImport, PurgedInBoot, OwnRanges

-----------------------------------------------------------------------------

\* What TypeOK says of a recorded range.
LEMMA RangeType ==
    ASSUME TypeOK, NEW m \in marker, NEW r \in m.ranges
    PROVE  r.table \in Plan /\ r.min \in Nat /\ r.max \in Nat /\ r.max \in Ids
<1>1. m \in Marker
  BY DEF TypeOK
<1>2. m.ranges \in SUBSET IdRange
  BY <1>1 DEF Marker
<1>3. r \in IdRange
  BY <1>2
<1>4. r.table \in Plan /\ r.min \in Ids /\ r.max \in Ids
  BY <1>3 DEF IdRange
<1> QED
  BY <1>4 DEF Ids

\* What an insert does to the tables: one row, above every id given out.
LEMMA InsertEffect ==
    ASSUME TypeOK, NEW t \in Plan, NEW by \in Writers,
           NEW src \in (UNION {Archive[u] : u \in Plan}) \cup {Live},
           Insert(t, src, by)
    PROVE  /\ table' \in [Plan -> SUBSET Row]
           /\ seq' \in [Plan -> Ids]
           /\ agg' \in Nat
           /\ \A u \in Plan : seq[u] <= seq'[u]
           /\ \A u \in Plan : \A x \in table'[u] :
                 \/ x \in table[u]
                 \/ u = t /\ x.id = seq[u] + 1 /\ seq'[u] = seq[u] + 1 /\ x.by = by
<1> DEFINE new == [id |-> seq[t] + 1, src |-> src, by |-> by]
<1>1. seq[t] \in Nat /\ MaxIds \in Nat /\ seq[t] < MaxIds
  BY BoundAssumption DEF TypeOK, Ids, Insert
<1>2. new \in Row
  BY <1>1 DEF Row, Ids
<1>3. seq' = [seq EXCEPT ![t] = @ + 1] /\ table' = [table EXCEPT ![t] = @ \cup {new}]
  BY DEF Insert
<1>4. table' \in [Plan -> SUBSET Row]
  BY <1>2, <1>3 DEF TypeOK
<1>5. seq' \in [Plan -> Ids] /\ seq'[t] = seq[t] + 1
  BY <1>1, <1>3 DEF TypeOK, Ids
<1>6. \A u \in Plan : seq[u] \in Nat /\ seq[u] <= seq'[u]
  BY <1>1, <1>3 DEF TypeOK, Ids
<1>7. ASSUME NEW u \in Plan, NEW x \in table'[u]
      PROVE  \/ x \in table[u]
             \/ u = t /\ x.id = seq[u] + 1 /\ seq'[u] = seq[u] + 1 /\ x.by = by
  BY <1>3, <1>5 DEF TypeOK
<1>8. agg' \in Nat
  BY DEF Insert, TypeOK
<1> QED
  BY <1>4, <1>5, <1>6, <1>7, <1>8

\* A batch inserts one archive row.
LEMMA BatchInserts ==
    ASSUME NEW by \in Writers, Batch(by)
    PROVE  \E t \in Plan : \E a \in (UNION {Archive[u] : u \in Plan}) \cup {Live} :
              Insert(t, a, by)
BY DEF Batch, Missing

\* Every inserting action, by its writer.
LEMMA InsertPreserves ==
    ASSUME AutoInv, NEW t \in Plan, NEW by \in Writers,
           NEW src \in (UNION {Archive[u] : u \in Plan}) \cup {Live},
           Insert(t, src, by),
           UNCHANGED bookVars, UNCHANGED phase, UNCHANGED timeVars, UNCHANGED boundVars,
           \/ by = "auto" /\ phase = "engine" /\ UNCHANGED exposed
           \/ by # "auto" /\ phase = "serve" /\ Exposing
    PROVE  AutoInv'
<1> USE DEF AutoInv, bookVars, timeVars, boundVars
<1>1. /\ table' \in [Plan -> SUBSET Row] /\ seq' \in [Plan -> Ids] /\ agg' \in Nat
      /\ \A u \in Plan : seq[u] <= seq'[u]
      /\ \A u \in Plan : \A x \in table'[u] :
            \/ x \in table[u]
            \/ u = t /\ x.id = seq[u] + 1 /\ seq'[u] = seq[u] + 1 /\ x.by = by
  BY InsertEffect
<1>2. \A u \in Plan : seq[u] \in Nat /\ seq'[u] \in Nat
  BY <1>1 DEF TypeOK, Ids
<1>3. exposed' \in BOOLEAN
  BY DEF TypeOK, Exposing
<1>4. TypeOK' /\ TablesFinite'
  <2>1. TypeOK'
    BY <1>1, <1>3 DEF TypeOK
  <2>2. ASSUME NEW u \in Plan PROVE IsFiniteSet(table'[u])
    <3>1. PICK x : table'[u] = table[u] \/ table'[u] = table[u] \cup {x}
      BY DEF Insert, TypeOK
    <3> QED
      BY <3>1, FS_AddElement DEF TablesFinite
  <2> QED
    BY <2>1, <2>2 DEF TablesFinite
<1>5. Books'
  BY DEF Books
<1>6. IdsGivenOut'
  <2>1. ASSUME NEW u \in Plan, NEW x \in table'[u] PROVE x.id <= seq'[u]
    <3>1. x.id \in Nat
      BY <1>1 DEF Row, Ids
    <3>2. CASE x \in table[u]
      BY <3>1, <3>2, <1>1, <1>2 DEF IdsGivenOut
    <3>3. CASE x.id = seq[u] + 1 /\ seq'[u] = seq[u] + 1
      BY <3>3, <1>2
    <3> QED
      BY <3>2, <3>3, <1>1
  <2>2. \A p \in attempt : \A u \in Plan : p[u] <= seq'[u]
    BY <1>1, <1>2 DEF IdsGivenOut, TypeOK, Ids
  <2>3. ASSUME NEW m \in marker, NEW r \in m.ranges PROVE r.max <= seq'[r.table]
    <3>1. r.table \in Plan /\ r.max \in Nat
      BY RangeType
    <3>2. r.max <= seq[r.table]
      BY DEF IdsGivenOut
    <3> QED
      BY <3>1, <3>2, <1>1, <1>2
  <2> QED
    BY <2>1, <2>2, <2>3 DEF IdsGivenOut
<1>7. ASSUME NEW p \in attempt, NEW u \in Plan, NEW x \in table'[u], x \notin table[u]
      PROVE  x.id > p[u]
  <2>1. x.id = seq[u] + 1 /\ p[u] <= seq[u]
    BY <1>1, <1>7 DEF IdsGivenOut
  <2>2. p[u] \in Nat
    BY <1>7 DEF TypeOK, Ids
  <2> QED
    BY <2>1, <2>2, <1>2
<1>8. ASSUME NEW m \in marker, NEW r \in m.ranges, NEW u \in Plan, NEW x \in table'[u],
             x \notin table[u]
      PROVE  ~InRange(r, u, x)
  <2>1. x.id = seq[u] + 1 /\ r.max <= seq[r.table]
    BY <1>1, <1>8 DEF IdsGivenOut
  <2>2. r.max \in Nat
    BY RangeType
  <2> QED
    BY <2>1, <2>2, <1>2 DEF InRange
<1>9. CASE by = "auto"
  <2>1. phase = "engine" /\ marker = {} /\ attempt # {} /\ exposed' = exposed
    BY <1>9 DEF Books
  <2>2. AutoRowsTracked'
    BY <1>1, <1>7, <2>1 DEF AutoRowsTracked
  <2>3. OwnRanges'
    BY <1>1, <1>9, <2>1 DEF OwnRanges
  <2> QED
    BY <1>4, <1>5, <1>6, <2>1, <2>2, <2>3 DEF PurgedLeavesNoImport, PurgedInBoot
<1>10. CASE by # "auto"
  <2>1. phase = "serve" /\ (~exposed' => ~exposed /\ attempt = {})
    BY <1>10 DEF Exposing, TypeOK
  <2>2. AutoRowsTracked'
    BY <1>1, <1>10 DEF AutoRowsTracked
  <2>3. OwnRanges'
    BY <1>1, <1>8, <2>1 DEF OwnRanges
  <2>4. PurgedLeavesNoImport'
    BY <1>1, <1>10 DEF PurgedLeavesNoImport
  <2> QED
    BY <1>4, <1>5, <1>6, <2>1, <2>2, <2>3, <2>4 DEF PurgedInBoot
<1> QED
  BY <1>9, <1>10

-----------------------------------------------------------------------------

\* Steps that touch neither the tables nor the books, phase by phase.
LEMMA QuietPreserves ==
    ASSUME AutoInv, TypeOK', UNCHANGED <<table, seq, attempt, marker, exposed>>,
           phase' = "engine" => phase = "engine" \/ (marker = {} /\ attempt # {}),
           phase' \in {"rebuild", "flip"} => phase \in {"rebuild", "flip"}
    PROVE  AutoInv'
BY DEF AutoInv, TablesFinite, Books, IdsGivenOut, AutoRowsTracked, PurgedLeavesNoImport,
       PurgedInBoot, OwnRanges, InRange

LEMMA FiniteStep == TypeOK /\ TablesFinite /\ [Next]_vars => TablesFinite'
<1> SUFFICES ASSUME TypeOK, TablesFinite, [Next]_vars, NEW u \in Plan
             PROVE  IsFiniteSet(table'[u])
  BY DEF TablesFinite
<1>1. IsFiniteSet(table[u])
  BY DEF TablesFinite
<1>2. CASE table' = table
  BY <1>1, <1>2
<1>3. CASE \E t \in Plan : \E src, by : Insert(t, src, by)
  <2>1. PICK x : table'[u] = table[u] \/ table'[u] = table[u] \cup {x}
    BY <1>3 DEF Insert, TypeOK
  <2> QED
    BY <1>1, <2>1, FS_AddElement
<1>4. CASE Purge \/ Prune
  <2>1. table'[u] \subseteq table[u]
    BY <1>4 DEF Purge, Prune, TypeOK
  <2> QED
    BY <1>1, <2>1, FS_Subset
<1> QED
  BY <1>2, <1>3, <1>4 DEF Next, vars, storeVars, Boot, Skip, AlreadyMigrated, Snapshot, Resume,
     ImportBatch, FinishImport, Rebuild, Flip, StartupError, LiveInsert, ManualBatch,
     Stop, Crash, DayPasses, ClockJump, Batch

LEMMA TypeStep == TypeOK /\ TablesFinite /\ [Next]_vars => TypeOK'
<1> SUFFICES ASSUME TypeOK, TablesFinite, [Next]_vars PROVE TypeOK'
  OBVIOUS
<1> USE DEF storeVars, bookVars, boundVars, timeVars
<1>1. CASE UNCHANGED vars
  BY <1>1 DEF vars, TypeOK
<1>2. CASE Boot \/ Skip \/ Resume \/ Stop
  BY <1>2 DEF TypeOK, Boot, Skip, Resume, Stop
<1>3. CASE AlreadyMigrated
  <2>1. [day |-> clock, on |-> today, purged |-> FALSE, ranges |-> {}] \in Marker
    BY DEF TypeOK, Marker
  <2> QED
    BY <1>3, <2>1 DEF TypeOK, AlreadyMigrated, RecordAutoImport
<1>4. CASE Snapshot
  BY <1>4 DEF TypeOK, Snapshot
<1>5. CASE ImportBatch \/ LiveInsert \/ ManualBatch
  <2>1. PICK t \in Plan, by \in Writers,
             src \in (UNION {Archive[u] : u \in Plan}) \cup {Live} : Insert(t, src, by)
    BY <1>5, BatchInserts DEF ImportBatch, LiveInsert, ManualBatch, Writers
  <2>2. table' \in [Plan -> SUBSET Row] /\ seq' \in [Plan -> Ids] /\ agg' \in Nat
    BY <2>1, InsertEffect
  <2> QED
    BY <1>5, <2>2 DEF TypeOK, ImportBatch, LiveInsert, ManualBatch, Exposing
<1>6. CASE FinishImport
  <2>1. PICK pre \in attempt, post \in [Plan -> Ids] :
            RecordAutoImport({[table |-> t, min |-> pre[t] + 1, max |-> post[t]] :
                                  t \in {u \in Plan : post[u] > pre[u]}})
    BY <1>6 DEF FinishImport
  <2> DEFINE ranges == {[table |-> t, min |-> pre[t] + 1, max |-> post[t]] :
                            t \in {u \in Plan : post[u] > pre[u]}}
  <2>2. ASSUME NEW t \in Plan, post[t] > pre[t]
        PROVE  [table |-> t, min |-> pre[t] + 1, max |-> post[t]] \in IdRange
    <3>1. pre[t] \in Ids /\ post[t] \in Ids
      BY <2>1 DEF TypeOK
    <3>2. pre[t] + 1 \in Ids
      BY <2>2, <3>1, BoundAssumption DEF Ids
    <3> QED
      BY <3>1, <3>2 DEF IdRange
  <2>3. ranges \subseteq IdRange
    BY <2>2
  <2>4. [day |-> clock, on |-> today, purged |-> FALSE, ranges |-> ranges] \in Marker
    BY <2>3 DEF TypeOK, Marker
  <2>5. attempt' = {} /\ marker' \subseteq Marker
    BY <2>1, <2>4 DEF RecordAutoImport
  <2> QED
    BY <1>6, <2>5 DEF TypeOK, FinishImport
<1>7. CASE Purge
  <2>1. PICK m \in marker : table' = [t \in Plan |-> table[t] \ Purgeable(m, t)]
    BY <1>7 DEF Purge
  <2>2. table' \in [Plan -> SUBSET Row]
    BY <2>1 DEF TypeOK
  <2> QED
    BY <1>7, <2>2 DEF TypeOK, Purge
<1>8. CASE Flip
  <2>1. ASSUME NEW m \in marker PROVE [m EXCEPT !.purged = TRUE] \in Marker
    BY DEF TypeOK, Marker
  <2> QED
    BY <1>8, <2>1 DEF TypeOK, Flip
<1>9. CASE Prune
  <2>1. table' \in [Plan -> SUBSET Row]
    BY <1>9 DEF TypeOK, Prune
  <2> QED
    BY <1>9, <2>1 DEF TypeOK, Prune
<1>10. CASE StartupError \/ Crash \/ DayPasses \/ ClockJump
  BY <1>10, BoundAssumption DEF TypeOK, StartupError, Crash, DayPasses, ClockJump, Days
<1>11. CASE Rebuild
  <2>1. Cardinality(table[Requests]) \in Nat
    BY PlanAssumption, FS_CardinalityType DEF TablesFinite
  <2> QED
    BY <1>11, <2>1 DEF TypeOK, Rebuild
<1> QED
  BY <1>1, <1>2, <1>3, <1>4, <1>5, <1>6, <1>7, <1>8, <1>9, <1>10, <1>11 DEF Next

LEMMA PurgePreserves == AutoInv /\ TypeOK' /\ TablesFinite' /\ Purge => AutoInv'
<1> SUFFICES ASSUME AutoInv, TypeOK', TablesFinite', Purge PROVE AutoInv'
  OBVIOUS
<1> USE DEF AutoInv, bookVars
<1>1. PICK m \in marker : table' = [t \in Plan |-> table[t] \ Purgeable(m, t)]
  BY DEF Purge
<1>2. \A t \in Plan : table'[t] = table[t] \ Purgeable(m, t)
  BY <1>1
<1>3. seq' = seq /\ attempt' = attempt /\ marker' = marker /\ exposed' = exposed
      /\ phase' = "rebuild" /\ attempt = {}
  BY DEF Purge, Books
<1>4. ASSUME NEW t \in Plan, NEW x \in table'[t] PROVE x \in table[t] /\ x.by # "auto"
  <2>1. x \in table[t] /\ x \notin Purgeable(m, t)
    BY <1>2
  <2>2. ASSUME x.by = "auto" PROVE FALSE
    <3>1. \E n \in marker : \E r \in n.ranges : InRange(r, t, x)
      BY <1>3, <2>1, <2>2 DEF AutoRowsTracked
    <3>2. \E r \in m.ranges : InRange(r, t, x)
      BY <3>1 DEF Books
    <3> QED
      BY <2>1, <2>2, <3>2 DEF Purgeable
  <2> QED
    BY <2>1, <2>2
<1>5. Books' /\ PurgedInBoot' /\ PurgedLeavesNoImport' /\ AutoRowsTracked'
  BY <1>3, <1>4 DEF Books, PurgedInBoot, PurgedLeavesNoImport, AutoRowsTracked
<1>6. IdsGivenOut'
  BY <1>3, <1>4 DEF IdsGivenOut
<1>7. OwnRanges'
  BY <1>3, <1>4 DEF OwnRanges, InRange
<1> QED
  BY <1>5, <1>6, <1>7

LEMMA FinishPreserves == AutoInv /\ TypeOK' /\ TablesFinite' /\ FinishImport => AutoInv'
<1> SUFFICES ASSUME AutoInv, TypeOK', TablesFinite', FinishImport PROVE AutoInv'
  OBVIOUS
<1> USE DEF AutoInv, storeVars
<1>1. PICK pre \in attempt, post \in [Plan -> Ids] :
          /\ \A t \in Plan : MaxRowId(t, post[t])
          /\ RecordAutoImport({[table |-> t, min |-> pre[t] + 1, max |-> post[t]] :
                                   t \in {u \in Plan : post[u] > pre[u]}})
  BY DEF FinishImport
<1> DEFINE new(t) == [table |-> t, min |-> pre[t] + 1, max |-> post[t]]
<1> DEFINE ranges == {new(t) : t \in {u \in Plan : post[u] > pre[u]}}
<1>2. table' = table /\ seq' = seq /\ exposed' = exposed /\ phase' = "serve" /\ attempt' = {}
  BY <1>1 DEF FinishImport, RecordAutoImport
<1>3. \E m : marker' = {m} /\ ~m.purged /\ m.ranges = ranges
  <2>1. RecordAutoImport(ranges)
    BY <1>1
  <2> HIDE DEF ranges
  <2>2. marker' = {[day |-> clock, on |-> today, purged |-> FALSE, ranges |-> ranges]}
    BY <2>1 DEF RecordAutoImport
  <2> DEFINE m == [day |-> clock, on |-> today, purged |-> FALSE, ranges |-> ranges]
  <2>3. marker' = {m} /\ ~m.purged /\ m.ranges = ranges
    BY <2>2
  <2> QED
    BY <2>3
<1>4. ASSUME NEW t \in Plan, NEW x \in table[t]
      PROVE  x.id \in Nat /\ pre[t] \in Nat /\ post[t] \in Nat /\ x.id <= post[t]
  <2>1. x \in Row /\ pre[t] \in Ids /\ post[t] \in Ids
    BY <1>1 DEF TypeOK
  <2> QED
    BY <2>1, <1>1 DEF Row, Ids, MaxRowId
<1>5. ASSUME NEW r \in ranges, NEW t \in Plan, NEW x \in table[t]
      PROVE  InRange(r, t, x) => x.id > pre[t]
  BY <1>4 DEF InRange
<1>6. Books'
  BY <1>2, <1>3 DEF Books
<1>7. IdsGivenOut'
  <2>1. ASSUME NEW t \in Plan, post[t] > pre[t] PROVE post[t] <= seq[t]
    <3>1. pre[t] \in Nat /\ post[t] \in Nat
      BY <1>1 DEF TypeOK, Ids
    <3>2. \E x \in table[t] : x.id = post[t]
      BY <3>1, <2>1, <1>1 DEF MaxRowId
    <3> QED
      BY <3>2 DEF IdsGivenOut
  <2>2. ASSUME NEW r \in ranges PROVE r.max <= seq[r.table]
    BY <2>1
  <2> QED
    BY <1>2, <1>3, <2>2 DEF IdsGivenOut
<1>8. AutoRowsTracked'
  <2>1. ASSUME NEW t \in Plan, NEW x \in table[t], x.by = "auto"
        PROVE  \E r \in ranges : InRange(r, t, x)
    <3>1. x.id > pre[t]
      <4>1. marker = {}
        BY DEF Books, FinishImport
      <4>2. \E p \in attempt : x.id > p[t]
        BY <2>1, <4>1 DEF AutoRowsTracked
      <4> QED
        BY <4>2 DEF Books
    <3>2. new(t) \in ranges /\ InRange(new(t), t, x)
      BY <3>1, <1>4 DEF InRange
    <3> QED
      BY <3>2
  <2> HIDE DEF ranges
  <2> QED
    BY <1>2, <1>3, <2>1 DEF AutoRowsTracked, InRange
<1>9. PurgedLeavesNoImport' /\ PurgedInBoot'
  BY <1>2, <1>3 DEF PurgedLeavesNoImport, PurgedInBoot
<1>10. OwnRanges'
  <2>1. ASSUME ~exposed, NEW r \in ranges, NEW t \in Plan, NEW x \in table[t], InRange(r, t, x)
        PROVE  x.by = "auto"
    <3>1. x.id > pre[t]
      BY <1>5, <2>1
    <3> QED
      BY <2>1, <3>1, <1>1 DEF OwnRanges
  <2> HIDE DEF ranges
  <2>2. attempt' = {} /\ \A n \in marker' : n.ranges = ranges
    BY <1>2, <1>3
  <2> QED
    BY <1>2, <2>1, <2>2 DEF OwnRanges, InRange
<1> QED
  BY <1>2, <1>6, <1>7, <1>8, <1>9, <1>10

LEMMA SnapshotPreserves == AutoInv /\ TypeOK' /\ TablesFinite' /\ Snapshot => AutoInv'
<1> SUFFICES ASSUME AutoInv, TypeOK', TablesFinite', Snapshot PROVE AutoInv'
  OBVIOUS
<1> USE DEF AutoInv, storeVars
<1>1. PICK pre \in [Plan -> Ids] : (\A t \in Plan : MaxRowId(t, pre[t])) /\ attempt' = {pre}
  BY DEF Snapshot
<1>2. table' = table /\ seq' = seq /\ exposed' = exposed /\ phase' = "engine"
      /\ marker' = marker /\ marker = {} /\ attempt = {}
  BY DEF Snapshot
<1>3. \A t \in Plan : \A x \in table[t] : ~(x.id > pre[t])
  <2> SUFFICES ASSUME NEW t \in Plan, NEW x \in table[t] PROVE ~(x.id > pre[t])
    OBVIOUS
  <2>1. x \in Row /\ pre[t] \in Ids
    BY DEF TypeOK
  <2> QED
    BY <2>1, <1>1 DEF Row, Ids, MaxRowId
<1>4. \A t \in Plan : pre[t] <= seq[t]
  <2> SUFFICES ASSUME NEW t \in Plan PROVE pre[t] <= seq[t]
    OBVIOUS
  <2>1. seq[t] \in Nat
    BY DEF TypeOK, Ids
  <2> QED
    BY <2>1, <1>1 DEF MaxRowId, IdsGivenOut
<1>5. AutoRowsTracked'
  BY <1>2 DEF AutoRowsTracked
<1> QED
  BY <1>1, <1>2, <1>3, <1>4, <1>5 DEF Books, IdsGivenOut, PurgedLeavesNoImport, PurgedInBoot,
     OwnRanges

LEMMA FlipPreserves == AutoInv /\ TypeOK' /\ TablesFinite' /\ Flip => AutoInv'
<1> SUFFICES ASSUME AutoInv, TypeOK', TablesFinite', Flip PROVE AutoInv'
  OBVIOUS
<1> USE DEF AutoInv, storeVars
<1>1. /\ table' = table /\ seq' = seq /\ exposed' = exposed /\ phase' = "serve"
      /\ attempt' = attempt /\ phase = "flip"
  BY DEF Flip
<1>2. PICK m \in marker : marker = {m}
  BY <1>1 DEF Books
<1>3. PICK n : marker' = {n} /\ n.ranges = m.ranges
  <2> DEFINE n == [m EXCEPT !.purged = TRUE]
  <2>1. marker' = {n}
    BY <1>2 DEF Flip
  <2>2. m \in Marker
    BY DEF TypeOK
  <2>3. n.ranges = m.ranges
    BY <2>2 DEF Marker
  <2> QED
    BY <2>1, <2>3
<1>4. Books'
  BY <1>1, <1>2, <1>3 DEF Books
<1>5. IdsGivenOut' /\ AutoRowsTracked'
  BY <1>1, <1>2, <1>3 DEF IdsGivenOut, AutoRowsTracked, InRange
<1>6. PurgedLeavesNoImport' /\ PurgedInBoot'
  BY <1>1 DEF PurgedInBoot, PurgedLeavesNoImport
<1>7. OwnRanges'
  BY <1>1, <1>2, <1>3 DEF OwnRanges, InRange
<1> QED
  BY <1>4, <1>5, <1>6, <1>7

LEMMA PrunePreserves == AutoInv /\ TypeOK' /\ TablesFinite' /\ Prune => AutoInv'
<1> SUFFICES ASSUME AutoInv, TypeOK', TablesFinite', Prune PROVE AutoInv'
  OBVIOUS
<1> USE DEF AutoInv, bookVars
<1>1. /\ \A t \in Plan : table'[t] \subseteq table[t]
      /\ seq' = seq /\ attempt' = attempt /\ marker' = marker /\ exposed' = exposed
      /\ phase' = phase
  BY DEF Prune, TypeOK
<1>2. Books' /\ PurgedLeavesNoImport' /\ PurgedInBoot'
  BY <1>1 DEF Books, PurgedLeavesNoImport, PurgedInBoot
<1>3. IdsGivenOut' /\ OwnRanges'
  BY <1>1 DEF IdsGivenOut, OwnRanges, InRange
<1>4. AutoRowsTracked'
  BY <1>1 DEF AutoRowsTracked, InRange
<1> QED
  BY <1>2, <1>3, <1>4

LEMMA AlreadyMigratedPreserves ==
    AutoInv /\ TypeOK' /\ TablesFinite' /\ AlreadyMigrated => AutoInv'
<1> SUFFICES ASSUME AutoInv, TypeOK', TablesFinite', AlreadyMigrated PROVE AutoInv'
  OBVIOUS
<1> USE DEF AutoInv, storeVars
<1>1. /\ table' = table /\ seq' = seq /\ exposed' = exposed /\ phase' = "serve"
      /\ attempt = {} /\ attempt' = {} /\ marker = {}
  BY DEF AlreadyMigrated, RecordAutoImport
<1>2. PICK m : marker' = {m} /\ ~m.purged /\ m.ranges = {}
  <2> DEFINE m == [day |-> clock, on |-> today, purged |-> FALSE, ranges |-> {}]
  <2>1. marker' = {m} /\ ~m.purged /\ m.ranges = {}
    BY DEF AlreadyMigrated, RecordAutoImport
  <2> QED
    BY <2>1
<1>3. AutoRowsTracked'
  BY <1>1 DEF AutoRowsTracked
<1> QED
  BY <1>1, <1>2, <1>3 DEF Books, IdsGivenOut, PurgedLeavesNoImport, PurgedInBoot, OwnRanges

LEMMA AutoStepInv == AutoInv /\ [Next]_vars => AutoInv'
<1> SUFFICES ASSUME AutoInv, [Next]_vars PROVE AutoInv'
  OBVIOUS
<1>1. TypeOK' /\ TablesFinite'
  BY TypeStep, FiniteStep DEF AutoInv
<1> USE DEF storeVars, bookVars, timeVars, boundVars
<1>2. CASE UNCHANGED vars
  BY <1>1, <1>2, QuietPreserves DEF vars
<1>3. CASE Boot \/ Skip \/ Resume \/ Rebuild \/ StartupError \/ Stop \/ Crash \/ DayPasses
           \/ ClockJump
  BY <1>1, <1>3, QuietPreserves DEF Boot, Skip, Resume, Rebuild, StartupError, Stop, Crash,
     DayPasses, ClockJump
<1>4. CASE ImportBatch
  <2>1. PICK t \in Plan, src \in (UNION {Archive[u] : u \in Plan}) \cup {Live} :
            Insert(t, src, "auto")
    BY <1>4, BatchInserts DEF ImportBatch, Writers
  <2> QED
    BY <1>4, <2>1, InsertPreserves DEF ImportBatch, Writers
<1>5. CASE ManualBatch
  <2>1. PICK t \in Plan, src \in (UNION {Archive[u] : u \in Plan}) \cup {Live} :
            Insert(t, src, "manual")
    BY <1>5, BatchInserts DEF ManualBatch, Writers
  <2> QED
    BY <1>5, <2>1, InsertPreserves DEF ManualBatch, Writers
<1>6. CASE LiveInsert
  <2>1. PICK t \in Plan, by \in {"claude", "codex"} : Insert(t, Live, by)
    BY <1>6 DEF LiveInsert
  <2> QED
    BY <1>6, <2>1, InsertPreserves DEF LiveInsert, Writers
<1> QED
  BY <1>1, <1>2, <1>3, <1>4, <1>5, <1>6, PurgePreserves, FinishPreserves, SnapshotPreserves,
     FlipPreserves, PrunePreserves, AlreadyMigratedPreserves DEF Next

LEMMA AutoInvariance == Spec => []AutoInv
BY AutoInitInv, AutoStepInv, PTL DEF Spec

-----------------------------------------------------------------------------

\* Every variable of the boot state machine stays within its type.
THEOREM AutoTypeCorrect == Spec => []TypeOK
BY AutoInvariance, PTL DEF AutoInv

\* No row of a boot import escapes the books, for any plan, any archive, any
\* number of crashes, start-up errors and clock changes.
THEOREM AutoImportTracked == Spec => []AutoRowsTracked
BY AutoInvariance, PTL DEF AutoInv

\* A marker that says purged leaves no row of a boot import behind.
THEOREM AutoPurgeComplete == Spec => []PurgedLeavesNoImport
BY AutoInvariance, PTL DEF AutoInv

\* The purge deletes rows of the boot import only, as long as nobody wrote
\* while an attempt was open (autoimport.go's single-writer assumption).
THEOREM AutoPurgeSparesOthers == Spec => PurgeSparesOthers
<1>1. AutoInv /\ [Next]_vars =>
          [PurgeStep /\ ~exposed =>
              \A t \in Plan : \A x \in table[t] \ table'[t] : x.by = "auto"]_vars
  <2> SUFFICES ASSUME AutoInv, Next, PurgeStep, ~exposed, NEW t \in Plan,
                      NEW x \in table[t], x \notin table'[t]
               PROVE  x.by = "auto"
    BY DEF vars, PurgeStep
  <2>1. Purge
    BY DEF Next, PurgeStep, Boot, Skip, AlreadyMigrated, Snapshot, Resume, ImportBatch,
       FinishImport, Rebuild, Flip, StartupError, LiveInsert, ManualBatch, Prune, Stop, Crash,
       DayPasses, ClockJump
  <2>2. PICK m \in marker : table' = [u \in Plan |-> table[u] \ Purgeable(m, u)]
    BY <2>1 DEF Purge
  <2>3. \E r \in m.ranges : InRange(r, t, x)
    BY <2>2 DEF Purgeable
  <2> QED
    BY <2>3 DEF AutoInv, OwnRanges
<1> QED
  BY AutoInvariance, <1>1, PTL DEF Spec, PurgeSparesOthers

-----------------------------------------------------------------------------
(* The request totals.                                                      *)

\* The rebuild of this boot leaves fresh totals behind for the flip.
TotalsInv ==
    /\ StaleTotalsAreRetried
    /\ phase = "flip" => agg = Cardinality(table[Requests])

\* An insert counts the one row it adds, so totals that match keep matching.
LEMMA InsertCounts ==
    ASSUME AutoInv, NEW t \in Plan, NEW src, NEW by, Insert(t, src, by),
           agg = Cardinality(table[Requests])
    PROVE  agg' = Cardinality(table'[Requests])
<1> USE DEF AutoInv
<1>1. CASE t # Requests
  BY <1>1, PlanAssumption DEF Insert, TypeOK
<1>2. CASE t = Requests
  <2> DEFINE new == [id |-> seq[t] + 1, src |-> src, by |-> by]
  <2>1. table'[t] = table[t] \cup {new} /\ agg' = agg + 1
    BY <1>2 DEF Insert, TypeOK
  <2>2. new \notin table[t]
    <3>1. seq[t] \in Nat /\ \A x \in table[t] : x.id <= seq[t]
      BY DEF TypeOK, Ids, IdsGivenOut
    <3> QED
      BY <3>1
  <2>3. IsFiniteSet(table[t])
    BY DEF TablesFinite
  <2> HIDE DEF new
  <2>4. Cardinality(table[t] \cup {new}) = Cardinality(table[t]) + 1
    BY <2>2, <2>3, FS_AddElement
  <2> QED
    BY <1>2, <2>1, <2>4
<1> QED
  BY <1>1, <1>2

LEMMA TotalsInit == Init => TotalsInv
<1> SUFFICES ASSUME Init PROVE agg = Cardinality(table[Requests]) /\ phase = "off"
  BY DEF TotalsInv, StaleTotalsAreRetried
<1>1. Cardinality({[id |-> 1, src |-> Live, by |-> "claude"]}) = 1
  BY FS_Singleton
<1>2. Cardinality({}) = 0
  BY FS_EmptySet
<1> QED
  BY <1>1, <1>2, PlanAssumption DEF Init

LEMMA TotalsStep == AutoInv /\ TotalsInv /\ [Next]_vars => TotalsInv'
<1> SUFFICES ASSUME AutoInv, TotalsInv, [Next]_vars PROVE TotalsInv'
  OBVIOUS
<1> USE DEF storeVars, bookVars, StaleTotalsAreRetried
<1>1. CASE UNCHANGED vars
  BY <1>1 DEF vars, TotalsInv
<1>2. CASE Boot \/ Skip \/ Resume \/ StartupError \/ Stop \/ Crash \/ DayPasses \/ ClockJump
  BY <1>2 DEF TotalsInv, Boot, Skip, Resume, StartupError, Stop, Crash, DayPasses, ClockJump
<1>3. CASE AlreadyMigrated \/ Snapshot \/ FinishImport
  <2>1. agg = Cardinality(table[Requests])
    BY <1>3 DEF AutoInv, TotalsInv, Books, AlreadyMigrated, Snapshot, FinishImport
  <2> QED
    BY <1>3, <2>1 DEF TotalsInv, AlreadyMigrated, Snapshot, FinishImport
<1>4. CASE ImportBatch \/ LiveInsert \/ ManualBatch
  <2>1. PICK t, src, by : t \in Plan /\ Insert(t, src, by)
    BY <1>4 DEF ImportBatch, LiveInsert, ManualBatch, Batch
  <2>2. marker' = marker /\ phase' = phase /\ phase # "flip"
    BY <1>4 DEF ImportBatch, LiveInsert, ManualBatch
  <2> QED
    BY <2>1, <2>2, InsertCounts DEF TotalsInv
<1>5. CASE Purge
  <2>1. \E m \in marker : ~m.purged
    BY <1>5 DEF Purge, Due
  <2> QED
    BY <1>5, <2>1 DEF TotalsInv, Purge
<1>6. CASE Rebuild
  BY <1>6 DEF TotalsInv, Rebuild
<1>7. CASE Flip
  BY <1>7 DEF TotalsInv, Flip
<1>8. CASE Prune
  BY <1>8, PlanAssumption DEF TotalsInv, Prune, AutoInv, TypeOK
<1> QED
  BY <1>1, <1>2, <1>3, <1>4, <1>5, <1>6, <1>7, <1>8 DEF Next

\* The purge is never recorded as done over request totals that still count
\* what it deleted, wherever it was interrupted.
THEOREM AutoTotalsRetried == Spec => []StaleTotalsAreRetried
BY AutoInvariance, TotalsInit, TotalsStep, PTL DEF Spec, TotalsInv
=============================================================================
