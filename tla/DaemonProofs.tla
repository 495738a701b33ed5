---------------------------- MODULE DaemonProofs ----------------------------
(***************************************************************************)
(* Proofs about Daemon, for any number of processes, command lines and      *)
(* editors, every database found, every price table and every budget; the   *)
(* lemmas on SchemaMigrations, of which it is made, come first.             *)
(***************************************************************************)
EXTENDS Daemon, FiniteSetTheorems, WellFoundedInduction, TLAPS

-----------------------------------------------------------------------------
(* Starting processes and the totals (SchemaMigrations).                    *)

TotalsType ==
    /\ DOMAIN svc \subseteq Stored /\ IsFiniteSet(DOMAIN svc)
    /\ count \in [AggKeys -> Nat]
    /\ form # "current" => count = NoTotals
    /\ \A k \in AggKeys : count[k] <= FromRows[k]

\* No process is past the check.
NobodyPast == \A p \in Procs : pc[p] \notin {"bind", "serve"}

\* Totals that lack rows are seen by the next check or come before it; a process
\* is past its check over such totals only if that failed.
TotalsInv ==
    /\ TotalsType
    /\ gaps \subseteq {"failed"} /\ ~Whole =>
          /\ form # "current" \/ NeedsAggRebuild
          /\ gaps = {} => NobodyPast

-----------------------------------------------------------------------------
(* Rows and totals.                                                         *)

LEMMA RowFacts ==
    /\ LastDay \in Nat
    /\ DayOf \in [Stored -> Days]
    /\ IsFiniteSet(Old)
BY RowAssumption, Zenon

\* The total a live request goes into is one of the clients'.
LEMMA ClientFact ==
    ASSUME NEW r \in Stored
    PROVE  NormalizeServiceName(ClientOf[r]) \in Clients
<1>1. ClientOf[r] \in Clients \cup {""} /\ Default \in Clients
  BY RowAssumption, Zenon
<1>2. CASE ClientOf[r] = ""
  BY <1>1, <1>2, Zenon DEF NormalizeServiceName
<1>3. CASE ClientOf[r] # ""
  <2>1. ClientOf[r] \in Clients
    BY <1>1, <1>3, Zenon
  <2>2. QED
    BY <1>3, <2>1, Zenon DEF NormalizeServiceName
<1>4. QED
  BY <1>2, <1>3, Zenon

RowsOf(k) == {r \in DOMAIN svc : DayOf[r] = k[1] /\ NormalizeServiceName(svc[r]) = k[2]}

LEMMA RowsCounted ==
    ASSUME IsFiniteSet(DOMAIN svc)
    PROVE  /\ FromRows = [k \in AggKeys |-> Cardinality(RowsOf(k))]
           /\ \A k \in AggKeys : IsFiniteSet(RowsOf(k)) /\ FromRows[k] \in Nat
<1>1. FromRows = [k \in AggKeys |-> Cardinality(RowsOf(k))]
  BY DEF FromRows, RowsOf
<1>2. ASSUME NEW k \in AggKeys
      PROVE  IsFiniteSet(RowsOf(k)) /\ Cardinality(RowsOf(k)) \in Nat
  BY FS_Subset, FS_CardinalityType DEF RowsOf
<1>3. QED
  BY <1>1, <1>2

LEMMA NatHasMin ==
    ASSUME NEW T \in SUBSET Nat, T # {}
    PROVE  /\ Min(T) \in T
           /\ \A y \in T : Min(T) <= y
<1> DEFINE R == OpToRel(<, Nat)
<1>1. R = {ss \in Nat \X Nat : ss[1] < ss[2]}
  BY DEF OpToRel
<1>2. IsWellFoundedOn(R, Nat)
  BY NatLessThanWellFounded, Zenon
<1> HIDE DEF R
<1>3. PICK x \in T : \A y \in T : ~ (<<y, x>> \in R)
  BY <1>2, WFMin, Zenon
<1>4. \A y \in T : ~(y < x)
  BY <1>1, <1>3
<1>5. \A y \in T : x <= y
  BY <1>4
<1>6. QED
  BY <1>5 DEF Min

\* Without totals, any row shows that some are missing.
LEMMA EmptyIsSeen ==
    ASSUME IsFiniteSet(DOMAIN svc), count = NoTotals, form = "current", ~Whole
    PROVE  NeedsAggRebuild
<1>1. PICK k \in AggKeys : FromRows[k] # 0
  BY RowsCounted DEF Whole, NoTotals
<1>2. RowsOf(k) # {}
  BY <1>1, RowsCounted, FS_EmptySet
<1>3. RowDays # {}
  BY <1>2 DEF RowsOf, RowDays
<1>4. AggDays = {}
  BY DEF AggDays, NoTotals
<1>5. QED
  BY <1>3, <1>4 DEF NeedsAggRebuild

\* A statement that leaves rows and totals alone, and brings nobody past the check.
LEMMA TotalsStand ==
    ASSUME TotalsInv, UNCHANGED <<dbVars, gaps>>, NobodyPast => NobodyPast'
    PROVE  TotalsInv'
<1>1. UNCHANGED <<svc, form, count, gaps>>
  BY DEF dbVars
<1>2. FromRows' = FromRows /\ AggDays' = AggDays /\ RowDays' = RowDays
  BY <1>1 DEF FromRows, AggDays, RowDays
<1>3. (NeedsAggRebuild' <=> NeedsAggRebuild) /\ (Whole' <=> Whole)
  BY <1>1, <1>2 DEF NeedsAggRebuild, Whole
<1>4. TotalsType'
  BY <1>1, <1>2 DEF TotalsInv, TotalsType
<1>5. QED
  BY <1>1, <1>3, <1>4 DEF TotalsInv

\* Totals that were deleted, by a process that was alone unless it is remembered.
LEMMA EmptiedIsSeen ==
    ASSUME TotalsInv, UNCHANGED svc, count' = NoTotals, gaps' = {} => NobodyPast'
    PROVE  TotalsInv'
<1>1. TotalsType'
  <2>1. FromRows' = FromRows
    BY DEF FromRows
  <2>2. \A k \in AggKeys : NoTotals[k] = 0 /\ FromRows[k] >= 0
    BY RowsCounted DEF NoTotals, TotalsInv, TotalsType
  <2>3. NoTotals \in [AggKeys -> Nat]
    BY DEF NoTotals
  <2>4. QED
    BY <2>1, <2>2, <2>3 DEF TotalsInv, TotalsType
<1>2. form' # "current" \/ Whole' \/ NeedsAggRebuild'
  <2>1. ASSUME form' = "current", ~Whole'
        PROVE  NeedsAggRebuild'
    <3>1. RowDays # {}
      <4>1. PICK k \in AggKeys : FromRows[k] # 0
        <5>1. FromRows' = FromRows
          BY DEF FromRows
        <5>2. NoTotals # FromRows
          BY <2>1, <5>1 DEF Whole
        <5>3. QED
          BY <5>2, RowsCounted DEF NoTotals, TotalsInv, TotalsType
      <4>2. RowsOf(k) # {}
        BY <4>1, RowsCounted, FS_EmptySet DEF TotalsInv, TotalsType
      <4>3. QED
        BY <4>2 DEF RowsOf, RowDays
    <3>2. RowDays' = RowDays
      BY DEF RowDays
    <3>3. AggDays' = {}
      BY DEF AggDays, NoTotals
    <3>4. QED
      BY <3>1, <3>2, <3>3 DEF NeedsAggRebuild
  <2>2. QED
    BY <2>1
<1>3. QED
  BY <1>1, <1>2 DEF TotalsInv

\* Totals that were filled from the rows.
LEMMA FilledIsWhole ==
    ASSUME TotalsInv, UNCHANGED svc, form' = "current", count' = FromRows
    PROVE  TotalsInv'
<1>1. FromRows' = FromRows
  BY DEF FromRows
<1>2. Whole'
  BY <1>1 DEF Whole
<1>3. count' \in [AggKeys -> Nat]
  BY RowsCounted DEF TotalsInv, TotalsType, FromRows
<1>4. TotalsType'
  BY <1>1, <1>3 DEF TotalsInv, TotalsType
<1>5. QED
  BY <1>2, <1>4 DEF TotalsInv

\* A name that is normalized stays as it is.
LEMMA NormalStays ==
    ASSUME NEW name
    PROVE  NormalizeServiceName(NormalizeServiceName(name)) = NormalizeServiceName(name)
<1>1. Default # ""
  BY RowAssumption, Zenon
<1>2. ASSUME NEW n, n # ""
      PROVE  NormalizeServiceName(n) = n
  BY <1>2, Zenon DEF NormalizeServiceName
<1>3. NormalizeServiceName(name) # ""
  <2>1. CASE name = ""
    BY <1>1, <2>1, Zenon DEF NormalizeServiceName
  <2>2. CASE name # ""
    BY <1>2, <2>2, Zenon
  <2>3. QED
    BY <2>1, <2>2, Zenon
<1>4. QED
  BY <1>2, <1>3, Zenon

\* A row that comes with its share of the totals.
LEMMA RowComes ==
    ASSUME TotalsInv, NEW r \in Stored \ DOMAIN svc, NEW name,
           NormalizeServiceName(name) \in Clients, InsertRow(r, name), UNCHANGED pc
    PROVE  TotalsInv'
<1> DEFINE k == <<DayOf[r], NormalizeServiceName(name)>>
<1>1. /\ form = "current" /\ form' = form
      /\ svc' = [s \in DOMAIN svc \cup {r} |-> IF s = r THEN name ELSE svc[s]]
      /\ count' = [count EXCEPT ![k] = @ + 1]
      /\ gaps' = IF ~Whole /\ ~NeedsAggRebuild' THEN gaps \cup {"overtaken"} ELSE gaps
  BY Zenon DEF InsertRow
<1>2. k \in AggKeys
  <2>1. DayOf[r] \in Days
    BY RowAssumption, Zenon
  <2>2. QED
    BY <2>1 DEF AggKeys
<1>3. /\ DOMAIN svc' = DOMAIN svc \cup {r}
      /\ DOMAIN svc' \subseteq Stored /\ IsFiniteSet(DOMAIN svc')
  BY <1>1, FS_AddElement DEF TotalsInv, TotalsType
<1>4. ASSUME NEW j \in AggKeys
      PROVE  FromRows'[j] = IF j = k THEN FromRows[j] + 1 ELSE FromRows[j]
  <2>1. FromRows'[j] = Cardinality(RowsOf(j)')
    BY <1>3 DEF FromRows, RowsOf
  <2>2. FromRows[j] = Cardinality(RowsOf(j)) /\ IsFiniteSet(RowsOf(j))
    BY RowsCounted DEF TotalsInv, TotalsType
  <2>3. r \notin RowsOf(j)
    BY DEF RowsOf
  <2>4. CASE j = k
    <3>1. RowsOf(j)' = RowsOf(j) \cup {r}
      BY <1>1, <1>3, <2>4 DEF RowsOf
    <3>2. QED
      BY <2>1, <2>2, <2>3, <2>4, <3>1, FS_AddElement
  <2>5. CASE j # k
    <3>1. ~(DayOf[r] = j[1] /\ NormalizeServiceName(name) = j[2])
      BY <2>5 DEF AggKeys
    <3>2. RowsOf(j)' = RowsOf(j)
      BY <1>1, <1>3, <3>1 DEF RowsOf
    <3>3. QED
      BY <2>1, <2>2, <2>5, <3>2
  <2>6. QED
    BY <2>4, <2>5
<1>5. \A j \in AggKeys : count'[j] = IF j = k THEN count[j] + 1 ELSE count[j]
  BY <1>1, <1>2 DEF TotalsInv, TotalsType
<1>6. \A j \in AggKeys : count[j] \in Nat /\ FromRows[j] \in Nat /\ count[j] <= FromRows[j]
  BY RowsCounted DEF TotalsInv, TotalsType
<1>7. TotalsType'
  <2>1. count' \in [AggKeys -> Nat]
    BY <1>1, <1>2 DEF TotalsInv, TotalsType
  <2>2. \A j \in AggKeys : count'[j] <= FromRows'[j]
    BY <1>4, <1>5, <1>6
  <2>3. QED
    BY <1>1, <1>3, <2>1, <2>2 DEF TotalsType
<1>8. Whole => Whole'
  <2>1. FromRows' = [j \in AggKeys |-> FromRows'[j]] /\ count' = [j \in AggKeys |-> count'[j]]
    BY <1>1 DEF FromRows, TotalsInv, TotalsType
  <2>2. ASSUME Whole
        PROVE  \A j \in AggKeys : count'[j] = FromRows'[j]
    BY <1>4, <1>5, <2>2 DEF Whole
  <2>3. QED
    BY <1>1, <2>1, <2>2 DEF Whole
<1>9. NobodyPast' <=> NobodyPast
  BY DEF NobodyPast
<1>10. QED
  BY <1>1, <1>7, <1>8, <1>9 DEF TotalsInv

-----------------------------------------------------------------------------
(* Steps of a process.                                                      *)

PcType == pc \in [Procs -> Steps]

\* A process that moves short of its port brings nobody past the check.
LEMMA MoveShort ==
    ASSUME PcType, NEW p \in Procs, NEW step, step \notin {"bind", "serve"},
           pc' = [pc EXCEPT ![p] = step]
    PROVE  NobodyPast => NobodyPast'
BY DEF PcType, NobodyPast

\* One that empties the totals is alone, or it is remembered.
LEMMA EmptiesAlone ==
    ASSUME PcType, NEW p \in Procs, NEW step, step \notin {"bind", "serve"},
           pc' = [pc EXCEPT ![p] = step], Emptied(p)
    PROVE  count' = NoTotals /\ (gaps' \subseteq {"failed"} => NobodyPast')
<1>1. count' = NoTotals
  BY Zenon DEF Emptied
<1>2. ASSUME gaps' \subseteq {"failed"}
      PROVE  NobodyPast'
  <2>1. \A q \in Procs \ {p} : pc[q] = "off"
    <3>1. CASE \E q \in Procs \ {p} : pc[q] # "off"
      <4>1. gaps' = gaps \cup {"cleared"}
        BY <3>1, Zenon DEF Emptied
      <4>2. QED
        BY <1>2, <4>1
    <3>2. QED
      BY <3>1
  <2>2. QED
    BY <2>1 DEF PcType, NobodyPast
<1>3. QED
  BY <1>1, <1>2

LEMMA InsertTotalsKeeps ==
    ASSUME TotalsInv, PcType, NEW p \in Procs, NEW from,
           NEW to, to \notin {"bind", "serve"}, InsertTotals(p, from, to)
    PROVE  TotalsInv'
<1>1. UNCHANGED <<svc, form>>
  BY Zenon DEF InsertTotals
<1>2. CASE form = "current" /\ \A k \in AggKeys : FromRows[k] = 0 \/ count[k] = 0
  <2>1. count' = [k \in AggKeys |-> count[k] + FromRows[k]]
    BY <1>2, Zenon DEF InsertTotals
  <2>2. \A k \in AggKeys : count[k] + FromRows[k] = FromRows[k]
    BY <1>2, RowsCounted DEF TotalsInv, TotalsType
  <2>3. count' = FromRows
    BY <2>1, <2>2 DEF FromRows
  <2>4. QED
    BY <1>1, <1>2, <2>3, FilledIsWhole
<1>3. CASE ~(form = "current" /\ \A k \in AggKeys : FromRows[k] = 0 \/ count[k] = 0)
  <2>1. pc' = [pc EXCEPT ![p] = "off"] /\ UNCHANGED <<count, gaps>>
    BY <1>3, Zenon DEF InsertTotals, Dies
  <2>2. QED
    BY <1>1, <2>1, MoveShort, TotalsStand DEF dbVars
<1>4. QED
  BY <1>2, <1>3

LEMMA StampKeeps ==
    ASSUME TotalsInv, PcType, NEW p \in Procs, StampService(p)
    PROVE  TotalsInv'
<1>1. /\ svc' = [r \in DOMAIN svc |-> NormalizeServiceName(svc[r])]
      /\ UNCHANGED <<form, count, gaps>>
  BY Zenon DEF StampService
<1>2. Go(p, "stamp", "clear") \/ Go(p, "stamp", "import")
  <2>1. Go(p, "stamp", IF \E r \in DOMAIN svc : svc[r] = "" THEN "clear" ELSE "import")
    BY Zenon DEF StampService
  <2>2. QED
    BY <2>1, Zenon
<1>3. NobodyPast => NobodyPast'
  BY <1>2, MoveShort DEF Go
<1>4. DOMAIN svc' = DOMAIN svc
  BY <1>1
<1>5. \A r \in DOMAIN svc : NormalizeServiceName(svc'[r]) = NormalizeServiceName(svc[r])
  BY <1>1, NormalStays
<1>6. FromRows' = FromRows
  <2>1. \A k : RowsOf(k)' = RowsOf(k)
    BY <1>4, <1>5 DEF RowsOf
  <2>2. FromRows = [k \in AggKeys |-> Cardinality(RowsOf(k))]
    BY DEF FromRows, RowsOf
  <2>3. FromRows' = [k \in AggKeys |-> Cardinality(RowsOf(k)')]
    BY DEF FromRows, RowsOf
  <2>4. QED
    BY <2>1, <2>2, <2>3
<1>7. RowDays' = RowDays /\ AggDays' = AggDays
  BY <1>1, <1>4 DEF RowDays, AggDays
<1>8. (NeedsAggRebuild' <=> NeedsAggRebuild) /\ (Whole' <=> Whole)
  BY <1>1, <1>6, <1>7 DEF NeedsAggRebuild, Whole
<1>9. TotalsType'
  BY <1>1, <1>4, <1>6 DEF TotalsInv, TotalsType
<1>10. QED
  BY <1>1, <1>3, <1>8, <1>9 DEF TotalsInv

LEMMA CheckKeepsTotals ==
    ASSUME TotalsInv, PcType, NEW p \in Procs, CheckAgg(p)
    PROVE  TotalsInv'
<1>1. form = "current" /\ UNCHANGED dbVars
  BY Zenon DEF CheckAgg
<1>2. CASE NeedsAggRebuild
  <2>1. Go(p, "check", "rebuild") /\ gaps' = gaps
    BY <1>2, Zenon DEF CheckAgg
  <2>2. QED
    BY <1>1, <2>1, MoveShort, TotalsStand DEF Go
<1>3. CASE ~NeedsAggRebuild
  <2>1. gaps' = gaps \ {"failed"}
    BY <1>3, Zenon DEF CheckAgg
  <2>2. UNCHANGED <<svc, form, count>>
    BY <1>1 DEF dbVars
  <2>3. FromRows' = FromRows
    BY <2>2 DEF FromRows
  <2>4. TotalsType' /\ (Whole' <=> Whole)
    BY <2>2, <2>3 DEF TotalsInv, TotalsType, Whole
  <2>5. gaps' \subseteq {"failed"} => Whole
    BY <1>1, <1>3, <2>1 DEF TotalsInv
  <2>6. QED
    BY <2>4, <2>5 DEF TotalsInv
<1>4. QED
  BY <1>2, <1>3

LEMMA FailKeepsTotals ==
    ASSUME TotalsInv, NEW p \in Procs, CheckFails(p)
    PROVE  TotalsInv'
<1>1. gaps' = gaps \cup {"failed"} /\ UNCHANGED <<svc, form, count>>
  BY DEF CheckFails, dbVars
<1>2. FromRows' = FromRows /\ AggDays' = AggDays /\ RowDays' = RowDays
  BY <1>1 DEF FromRows, AggDays, RowDays
<1>3. (NeedsAggRebuild' <=> NeedsAggRebuild) /\ (Whole' <=> Whole)
  BY <1>1, <1>2 DEF NeedsAggRebuild, Whole
<1>4. TotalsType'
  BY <1>1, <1>2 DEF TotalsInv, TotalsType
<1>5. QED
  BY <1>1, <1>3, <1>4 DEF TotalsInv

LEMMA RebuildKeepsTotals ==
    ASSUME TotalsInv, RebuildDailyAggregates
    PROVE  TotalsInv'
BY FilledIsWhole DEF RebuildDailyAggregates

LEMMA MigrateKeepsTotals ==
    ASSUME TotalsInv, PcType, NEW p \in Procs, Migrate(p)
    PROVE  TotalsInv'
<1>1. CASE CreateTables(p)
  <2>1. /\ Go(p, "tables", "look") /\ UNCHANGED <<svc, count, gaps>>
        /\ form' = IF form = "absent" THEN "current" ELSE form
    BY <1>1, Zenon DEF CreateTables
  <2>2. NobodyPast => NobodyPast'
    BY <2>1, MoveShort DEF Go
  <2>3. CASE form = "absent"
    <3>1. count' = NoTotals
      BY <2>1, <2>3 DEF TotalsInv, TotalsType
    <3>2. gaps = {} => NobodyPast'
      BY <2>2, <2>3 DEF TotalsInv, Whole
    <3>3. QED
      BY <2>1, <3>1, <3>2, EmptiedIsSeen
  <2>4. CASE form # "absent"
    BY <2>1, <2>2, <2>4, TotalsStand DEF dbVars
  <2>5. QED
    BY <2>3, <2>4
<1>2. CASE LookForService(p)
  <2>1. (Go(p, "look", "stamp") \/ Go(p, "look", "drop")) /\ UNCHANGED <<dbVars, gaps>>
    <3>1. Go(p, "look", IF form = "current" THEN "stamp" ELSE "drop") /\ UNCHANGED <<dbVars, gaps>>
      BY <1>2, Zenon DEF LookForService
    <3>2. QED
      BY <3>1, Zenon
  <2>2. NobodyPast => NobodyPast'
    BY <2>1, MoveShort DEF Go
  <2>3. QED
    BY <2>1, <2>2, TotalsStand
<1>3. CASE DropLegacyAgg(p)
  BY <1>3, EmptiesAlone, EmptiedIsSeen DEF DropLegacyAgg, Go
<1>4. CASE RecreateAgg(p)
  <2>1. pc[p] = "create" /\ UNCHANGED <<svc, count, gaps>>
    BY <1>4, Zenon DEF RecreateAgg
  <2>2. CASE form = "absent"
    <3>1. Go(p, "create", "fill") /\ form' = "current"
      BY <1>4, <2>2, Zenon DEF RecreateAgg
    <3>2. NobodyPast => NobodyPast'
      BY <3>1, MoveShort DEF Go
    <3>3. count' = NoTotals
      BY <2>1, <2>2 DEF TotalsInv, TotalsType
    <3>4. gaps = {} => NobodyPast'
      BY <2>2, <3>2 DEF TotalsInv, Whole
    <3>5. QED
      BY <2>1, <3>3, <3>4, EmptiedIsSeen
  <2>3. CASE form # "absent"
    <3>1. pc' = [pc EXCEPT ![p] = "off"] /\ UNCHANGED form
      BY <1>4, <2>3, Zenon DEF RecreateAgg, Dies
    <3>2. QED
      BY <2>1, <3>1, MoveShort, TotalsStand DEF dbVars
  <2>4. QED
    BY <2>2, <2>3
<1>5. CASE FillAgg(p) \/ RefillAgg(p)
  BY <1>5, InsertTotalsKeeps DEF FillAgg, RefillAgg
<1>6. CASE StampService(p)
  BY <1>6, StampKeeps
<1>7. CASE ClearAgg(p)
  BY <1>7, EmptiesAlone, EmptiedIsSeen DEF ClearAgg, Go
<1>8. CASE ImportArchiveRow(p)
  <2>1. PICK r \in Archive \ DOMAIN svc : InsertRow(r, Codex)
    BY <1>8, Zenon DEF ImportArchiveRow
  <2>2. pc' = pc
    BY <1>8, Zenon DEF ImportArchiveRow
  <2>3. NormalizeServiceName(Codex) \in Clients
    BY RowAssumption, Zenon DEF NormalizeServiceName
  <2>4. r \in Stored \ DOMAIN svc
    BY <2>1 DEF Stored
  <2>5. QED
    BY <2>1, <2>2, <2>3, <2>4, RowComes
<1>9. CASE ImportEnds(p)
  BY <1>9, MoveShort, TotalsStand DEF ImportEnds, Go
<1>10. CASE CheckAgg(p)
  BY <1>10, CheckKeepsTotals
<1>11. CASE RebuildAtBoot(p)
  BY <1>11, RebuildKeepsTotals DEF RebuildAtBoot
<1>12. QED
  BY <1>1, <1>2, <1>3, <1>4, <1>5, <1>6, <1>7, <1>8, <1>9, <1>10, <1>11, Zenon DEF Migrate

LEMMA RequestKeepsTotals ==
    ASSUME TotalsInv, NEW p \in Procs, NEW r, InsertRequest(p, r)
    PROVE  TotalsInv'
<1>1. r \in Stored \ DOMAIN svc /\ InsertRow(r, ClientOf[r]) /\ pc' = pc
  BY DEF InsertRequest, Stored
<1>2. NormalizeServiceName(ClientOf[r]) \in Clients
  BY <1>1, ClientFact
<1>3. QED
  BY <1>1, <1>2, RowComes

-----------------------------------------------------------------------------
(* The database found.                                                      *)

\* Pruned totals begin after the first row.
LEMMA PrunedIsSeen ==
    ASSUME IsFiniteSet(DOMAIN svc), DOMAIN svc \subseteq Stored, form = "current",
           NEW cutoff \in Days,
           count = [k \in AggKeys |-> IF k[1] >= cutoff THEN FromRows[k] ELSE 0], ~Whole
    PROVE  NeedsAggRebuild
<1>1. PICK k \in AggKeys : count[k] # FromRows[k]
  BY RowsCounted DEF Whole, FromRows
<1>2. k[1] < cutoff /\ FromRows[k] # 0
  <2>1. k[1] \in Nat /\ cutoff \in Nat
    BY RowFacts DEF AggKeys, Days
  <2>2. QED
    BY <1>1, <2>1
<1>3. RowsOf(k) # {}
  BY <1>2, RowsCounted, FS_EmptySet
<1>4. k[1] \in RowDays
  BY <1>3 DEF RowsOf, RowDays
<1>5. RowDays \in SUBSET Nat
  <2>1. \A r \in DOMAIN svc : DayOf[r] \in Nat
    BY RowFacts DEF Days
  <2>2. QED
    BY <2>1 DEF RowDays
<1>6. \A d \in AggDays : d \in Nat /\ d >= cutoff
  <2>1. \A j \in AggKeys : j[1] \in Nat /\ (count[j] > 0 => j[1] >= cutoff)
    <3>1. \A j \in AggKeys : j[1] \in Nat /\ cutoff \in Nat
      BY RowFacts DEF AggKeys, Days
    <3>2. QED
      BY <3>1
  <2>2. QED
    BY <2>1 DEF AggDays
<1>7. CASE AggDays # {}
  <2>1. AggDays \in SUBSET Nat
    BY <1>6
  <2>2. Min(AggDays) \in AggDays
    BY <1>7, <2>1, NatHasMin
  <2>3. Min(RowDays) \in Nat /\ Min(RowDays) <= k[1]
    BY <1>4, <1>5, NatHasMin
  <2>4. Min(AggDays) > Min(RowDays)
    <3>1. Min(AggDays) \in Nat /\ Min(AggDays) >= cutoff
      BY <1>6, <2>2
    <3>2. cutoff \in Nat
      BY RowFacts DEF Days
    <3>3. k[1] \in Nat
      BY <1>4, <1>5
    <3>4. QED
      BY <1>2, <2>3, <3>1, <3>2, <3>3
  <2>5. QED
    BY <1>4, <2>4 DEF NeedsAggRebuild
<1>8. CASE AggDays = {}
  BY <1>4, <1>8 DEF NeedsAggRebuild
<1>9. QED
  BY <1>7, <1>8

LEMMA FoundTotals ==
    ASSUME MigrationsInit
    PROVE  TotalsInv
<1>1. NobodyPast
  <2>1. pc = [p \in Procs |-> "off"]
    BY Zenon DEF MigrationsInit
  <2>2. QED
    BY <2>1 DEF NobodyPast
<1>2. DOMAIN svc \subseteq Old
  <2>1. svc \in UNION {[rows -> Clients \cup {""}] : rows \in SUBSET Old}
    BY Zenon DEF MigrationsInit, OldDatabase
  <2>2. QED
    BY <2>1, Zenon
<1>3. DOMAIN svc \subseteq Stored /\ IsFiniteSet(DOMAIN svc)
  BY <1>2, RowFacts, FS_Subset DEF Stored
<1>4. PICK cutoff \in Days :
          count = [k \in AggKeys |-> IF form = "current" /\ k[1] >= cutoff THEN FromRows[k] ELSE 0]
  BY Zenon DEF MigrationsInit, OldDatabase
<1>5. \A k \in AggKeys : FromRows[k] \in Nat
  BY <1>3, RowsCounted
<1>6. TotalsType
  <2>1. count \in [AggKeys -> Nat] /\ \A k \in AggKeys : count[k] <= FromRows[k]
    BY <1>4, <1>5
  <2>2. form # "current" => count = NoTotals
    BY <1>4 DEF NoTotals
  <2>3. QED
    BY <1>3, <2>1, <2>2 DEF TotalsType
<1>7. form = "current" /\ ~Whole => NeedsAggRebuild
  BY <1>3, <1>4, PrunedIsSeen
<1>8. QED
  BY <1>1, <1>6, <1>7, Zenon DEF TotalsInv

-----------------------------------------------------------------------------
(* Processes, shells and the PID file.                                      *)

Commands == {"idle", "kill", "remove", "check", "spawn", "write", "watch"}
ShellType == [step: Commands, pid: Procs \cup {Nobody}, again: BOOLEAN]

\* As much of the types as the commands are about.
LifeType ==
    /\ pc \in [Procs -> Steps]
    /\ pidFile \in Procs \cup {Nobody}
    /\ shell \in [Shells -> ShellType]
    /\ used \in [start: SUBSET Procs, hand: SUBSET Procs]
    /\ met \in BOOLEAN

\* The processes that commands started and that run.
Started == {p \in used.start : pc[p] # "off"}

\* Where the command of shell s is, no started process runs but the one it
\* knows of: none between removal and spawning, its own otherwise.
Knows(s) ==
    CASE shell[s].step \in {"remove", "check", "spawn"} -> Started = {}
      [] shell[s].step \in {"kill", "write", "watch"} -> Started \subseteq {shell[s].pid}
      [] OTHER -> TRUE

\* A started process that runs is in the PID file or about to be written there.
Filed ==
    \A p \in Started :
        pidFile = p \/ \E s \in Shells : shell[s].step = "write" /\ shell[s].pid = p

OneCommand ==
    \A s, t \in Shells : s = t \/ shell[s].step = "idle" \/ shell[t].step = "idle"

LifeInv ==
    /\ LifeType
    /\ ~met => OneCommand /\ Filed /\ \A s \in Shells : Knows(s)

-----------------------------------------------------------------------------
\* A process takes a step of its start-up short of serving.
Boots(p) ==
    /\ pc[p] \notin {"off", "serve"}
    /\ \E step \in Steps \ {"serve"} : pc' = [pc EXCEPT ![p] = step]

LEMMA MigrateMoves ==
    ASSUME LifeType, NEW p \in Procs, Migrate(p) \/ CheckFails(p)
    PROVE  Boots(p)
<1>1. ASSUME NEW from, NEW to \in Steps \ {"serve"}, Go(p, from, to), from \notin {"off", "serve"}
      PROVE  Boots(p)
  BY <1>1 DEF Go, Boots
<1>2. "off" \in Steps
  BY DEF Steps
<1>3. ASSUME CreateTables(p) \/ LookForService(p) \/ DropLegacyAgg(p)
      PROVE  Boots(p)
  BY <1>3 DEF CreateTables, LookForService, DropLegacyAgg, Go, Boots, Steps
<1>4. ASSUME RecreateAgg(p)
      PROVE  Boots(p)
  BY <1>4 DEF RecreateAgg, Go, Dies, Boots, Steps
<1>5. ASSUME FillAgg(p) \/ RefillAgg(p)
      PROVE  Boots(p)
  <2>1. PICK from \in {"fill", "refill"}, to \in {"stamp", "import"} : InsertTotals(p, from, to)
    BY <1>5, Zenon DEF FillAgg, RefillAgg
  <2>2. pc[p] = from /\ (Go(p, from, to) \/ Dies(p))
    BY <2>1, Zenon DEF InsertTotals
  <2>3. pc[p] \notin {"off", "serve"} /\ (pc' = [pc EXCEPT ![p] = to] \/ pc' = [pc EXCEPT ![p] = "off"])
    BY <2>2 DEF Go, Dies
  <2>4. QED
    BY <2>3 DEF Boots, Steps
<1>6. ASSUME StampService(p) \/ ClearAgg(p)
      PROVE  Boots(p)
  <2>1. PICK from \in {"stamp", "clear"}, to \in {"clear", "import", "refill"} : Go(p, from, to)
    <3>1. CASE StampService(p)
      <4>1. Go(p, "stamp", IF \E r \in DOMAIN svc : svc[r] = "" THEN "clear" ELSE "import")
        BY <3>1, Zenon DEF StampService
      <4>2. Go(p, "stamp", "clear") \/ Go(p, "stamp", "import")
        BY <4>1, Zenon
      <4>3. QED
        BY <4>2, Zenon
    <3>2. CASE ClearAgg(p)
      BY <3>2, Zenon DEF ClearAgg
    <3>3. QED
      BY <1>6, <3>1, <3>2
  <2>2. to \in Steps \ {"serve"}
    BY DEF Steps
  <2>3. QED
    BY <1>1, <2>1, <2>2
<1>7. ASSUME ImportArchiveRow(p)
      PROVE  Boots(p)
  <2>1. pc[p] = "import" /\ pc' = pc
    BY <1>7 DEF ImportArchiveRow
  <2>2. pc' = [pc EXCEPT ![p] = "import"] /\ "import" \in Steps
    BY <2>1 DEF LifeType, Steps
  <2>3. QED
    BY <2>1, <2>2 DEF Boots
<1>8. ASSUME ImportEnds(p) \/ CheckAgg(p) \/ RebuildAtBoot(p)
      PROVE  Boots(p)
  BY <1>8 DEF ImportEnds, CheckAgg, RebuildAtBoot, Go, Boots, Steps
<1>9. ASSUME CheckFails(p)
      PROVE  Boots(p)
  BY <1>9 DEF CheckFails, Boots, Steps
<1>10. QED
  BY <1>3, <1>4, <1>5, <1>6, <1>7, <1>8, <1>9 DEF Migrate

LEMMA BindMoves ==
    ASSUME LifeType, NEW p \in Procs, Bind(p)
    PROVE  /\ pc[p] # "off"
           /\ \E step \in Steps : pc' = [pc EXCEPT ![p] = step]
<1>1. pc[p] = "bind"
  BY Zenon DEF Bind
<1>2. CASE \E q \in Procs : pc[q] = "serve"
  <2>1. pc' = [pc EXCEPT ![p] = "off"]
    BY <1>2, Zenon DEF Bind
  <2>2. QED
    BY <1>1, <2>1 DEF Steps
<1>3. CASE ~\E q \in Procs : pc[q] = "serve"
  <2>1. pc' = [pc EXCEPT ![p] = "serve"]
    BY <1>3, Zenon DEF Bind
  <2>2. QED
    BY <1>1, <2>1 DEF Steps
<1>4. QED
  BY <1>2, <1>3

\* As long as no process is started and commands rest, the invariant stands.
LEMMA ProcessSteps ==
    ASSUME LifeInv, UNCHANGED <<pidFile, shell, met>>, pc' \in [Procs -> Steps],
           used' \in [start: SUBSET Procs, hand: SUBSET Procs], Started' \subseteq Started
    PROVE  LifeInv'
<1>1. LifeType'
  BY DEF LifeInv, LifeType
<1>2. OneCommand => OneCommand'
  BY DEF OneCommand
<1>3. Filed => Filed'
  BY DEF Filed
<1>4. ASSUME NEW s \in Shells, Knows(s)
      PROVE  Knows(s)'
  BY <1>4 DEF Knows
<1>5. QED
  BY <1>1, <1>2, <1>3, <1>4 DEF LifeInv

\* A process that goes on, or ends, starts nothing.
LEMMA MovesStartNothing ==
    ASSUME LifeType, NEW p \in Procs, UNCHANGED used,
           pc[p] # "off", NEW step \in Steps, pc' = [pc EXCEPT ![p] = step]
    PROVE  pc' \in [Procs -> Steps] /\ Started' \subseteq Started
BY DEF LifeType, Started

\* A process that ends does so alone.
LEMMA EndMoves ==
    ASSUME LifeType, NEW p \in Procs, End(p)
    PROVE  pc[p] # "off" /\ pc' = [pc EXCEPT ![p] = "off"] /\ "off" \in Steps
BY Zenon DEF End, Steps

LEMMA BootKeeps ==
    ASSUME LifeInv, NEW p \in Procs, Boot(p) \/ Crash(p)
    PROVE  LifeInv'
<1>1. /\ pc[p] # "off"
      /\ \E step \in Steps : pc' = [pc EXCEPT ![p] = step]
  <2>1. CASE Boot(p)
    <3>1. Migrate(p) \/ CheckFails(p) \/ Bind(p)
      BY <2>1, Zenon DEF Boot
    <3>2. QED
      BY <3>1, MigrateMoves, BindMoves DEF LifeInv, Boots
  <2>2. CASE Crash(p)
    <3>1. End(p)
      BY <2>2, Zenon DEF Crash
    <3>2. QED
      BY <3>1, EndMoves DEF LifeInv
  <2>3. QED
    BY <2>1, <2>2
<1>2. UNCHANGED cliVars
  BY Zenon DEF Boot, Crash
<1>3. UNCHANGED <<pidFile, shell, used, met>>
  BY <1>2 DEF cliVars
<1>4. pc' \in [Procs -> Steps] /\ Started' \subseteq Started
  BY <1>1, <1>3, MovesStartNothing DEF LifeInv
<1>5. QED
  BY <1>3, <1>4, ProcessSteps DEF LifeInv, LifeType

\* A start by hand is none by a command.
LEMMA HandKeeps ==
    ASSUME LifeInv, NEW p \in Procs, ServeByHand(p)
    PROVE  LifeInv'
<1>1. /\ p \notin used.start
      /\ pc' = [pc EXCEPT ![p] = "tables"]
      /\ used' = [used EXCEPT !.hand = @ \cup {p}]
      /\ UNCHANGED <<pidFile, shell, met>>
  BY DEF ServeByHand, Fresh
<1>2. "tables" \in Steps
  BY DEF Steps
<1>3. Started' \subseteq Started
  BY <1>1 DEF LifeInv, LifeType, Started
<1>4. QED
  BY <1>1, <1>2, <1>3, ProcessSteps DEF LifeInv, LifeType

\* What a shell's step does to the others: one that goes on makes sure that it
\* is alone, or it is remembered that it was not.
Moved(s, step, pid) ==
    /\ shell' \in [Shells -> ShellType]
    /\ met' \in BOOLEAN
    /\ shell'[s].step = step
    /\ step # "idle" => shell'[s].pid = pid
    /\ \A t \in Shells \ {s} : shell'[t] = shell[t]
    /\ ~met' => ~met
    /\ ~met' /\ step # "idle" => \A t \in Shells \ {s} : shell[t].step = "idle"

LEMMA RunMoves ==
    ASSUME LifeType, NEW s \in Shells, NEW step \in Commands,
           NEW pid \in Procs \cup {Nobody}, Run(s, step, pid)
    PROVE  Moved(s, step, pid)
<1>1. Idle \in ShellType /\ Idle.step = "idle"
  BY DEF Idle, ShellType, Commands
<1>2. [shell[s] EXCEPT !.step = step, !.pid = pid] \in ShellType
  BY DEF LifeType, ShellType
<1>3. shell' = [shell EXCEPT ![s] = IF step = "idle" THEN Idle
                                    ELSE [shell[s] EXCEPT !.step = step, !.pid = pid]]
  BY DEF Run, LifeType
<1>4. shell' \in [Shells -> ShellType]
  BY <1>1, <1>2, <1>3 DEF LifeType
<1>5. \A t \in Shells \ {s} : shell'[t] = shell[t]
  BY <1>3 DEF LifeType
<1>6. shell'[s].step = step /\ (step # "idle" => shell'[s].pid = pid)
  BY <1>1, <1>3 DEF LifeType, ShellType
<1>7. met' = (met \/ (step # "idle" /\ \E t \in Shells \ {s} : shell[t].step # "idle"))
  BY DEF Run
<1>8. met' \in BOOLEAN
  BY <1>7 DEF LifeType
<1>9. ~met' => ~met /\ (step # "idle" => \A t \in Shells \ {s} : shell[t].step = "idle")
  BY <1>7
<1>10. QED
  BY <1>4, <1>5, <1>6, <1>8, <1>9, Zenon DEF Moved

\* What a command has to show for its own shell suffices for all of them.
LEMMA MovedKeeps ==
    ASSUME LifeInv, NEW s \in Shells, NEW step \in Commands,
           NEW pid \in Procs \cup {Nobody}, Moved(s, step, pid),
           pc' \in [Procs -> Steps], pidFile' \in Procs \cup {Nobody},
           used' \in [start: SUBSET Procs, hand: SUBSET Procs],
           ~met' => Filed' /\ Knows(s)',
           step = "idle" => Started' \subseteq Started
    PROVE  LifeInv'
<1>1. LifeType'
  BY DEF LifeType, Moved
<1>2. SUFFICES ASSUME ~met'
               PROVE  OneCommand' /\ \A t \in Shells \ {s} : Knows(t)'
  BY <1>1 DEF LifeInv
<1>3. OneCommand /\ \A t \in Shells : Knows(t)
  BY <1>2 DEF LifeInv, Moved
<1>4. OneCommand'
  BY <1>2, <1>3 DEF OneCommand, Moved
<1>5. ASSUME NEW t \in Shells \ {s}
      PROVE  Knows(t)'
  <2>1. CASE step = "idle"
    BY <1>3, <1>5, <2>1 DEF Knows, Moved
  <2>2. CASE step # "idle"
    BY <1>2, <2>2 DEF Knows, Moved
  <2>3. QED
    BY <2>1, <2>2
<1>6. QED
  BY <1>4, <1>5

-----------------------------------------------------------------------------
(* Commands.                                                                *)

\* A shell that is alone and about to begin: what runs is in the PID file.
LEMMA AloneIsFiled ==
    ASSUME LifeInv, ~met, NEW s \in Shells, shell[s].step # "write",
           \A t \in Shells \ {s} : shell[t].step = "idle"
    PROVE  /\ Started \subseteq {pidFile}
           /\ ~Alive(pidFile) => Started = {}
<1>1. \A p \in Started : pidFile = p
  BY DEF LifeInv, Filed
<1>2. \A p \in Started : pc[p] # "off" /\ p # Nobody
  BY BudgetAssumption DEF LifeInv, LifeType, Started
<1>3. QED
  BY <1>1, <1>2 DEF Alive

LEMMA StartKeeps ==
    ASSUME LifeInv, NEW s \in Shells, StartCommand(s)
    PROVE  LifeInv'
<1>1. /\ shell[s].step = "idle"
      /\ ~Alive(pidFile)
      /\ pidFile' = Nobody
      /\ Run(s, "spawn", Nobody)
      /\ UNCHANGED <<pc, used>>
  BY DEF StartCommand, migrationVars
<1>2. Moved(s, "spawn", Nobody)
  BY <1>1, RunMoves DEF LifeInv, Commands
<1>3. Started' = Started
  BY <1>1 DEF Started
<1>4. ASSUME ~met'
      PROVE  Started = {}
  BY <1>1, <1>2, <1>4, AloneIsFiled DEF Moved
<1>5. ~met' => Filed' /\ Knows(s)'
  BY <1>2, <1>3, <1>4 DEF Filed, Knows, Moved
<1>6. QED
  BY <1>1, <1>2, <1>5, MovedKeeps DEF LifeInv, LifeType, Commands

LEMMA SpawnKeeps ==
    ASSUME LifeInv, NEW s \in Shells, Spawn(s)
    PROVE  LifeInv'
<1>1. PICK p \in Procs : /\ Fresh(p)
                         /\ pc' = [pc EXCEPT ![p] = "tables"]
                         /\ used' = [used EXCEPT !.start = @ \cup {p}]
                         /\ Run(s, "write", p)
  BY DEF Spawn
<1>2. shell[s].step = "spawn" /\ pidFile' = pidFile
  BY DEF Spawn
<1>3. Moved(s, "write", p)
  BY <1>1, RunMoves DEF LifeInv, Commands
<1>4. pc' \in [Procs -> Steps] /\ used' \in [start: SUBSET Procs, hand: SUBSET Procs]
  BY <1>1 DEF LifeInv, LifeType, Steps
<1>5. Started' \subseteq Started \cup {p}
  BY <1>1 DEF LifeInv, LifeType, Started
<1>6. ASSUME ~met'
      PROVE  Started = {}
  BY <1>2, <1>3, <1>6 DEF LifeInv, Knows, Moved
<1>7. ~met' => Filed' /\ Knows(s)'
  BY <1>3, <1>5, <1>6 DEF Filed, Knows, Moved
<1>8. QED
  BY <1>2, <1>3, <1>4, <1>7, MovedKeeps DEF LifeInv, LifeType, Commands

LEMMA WriteKeeps ==
    ASSUME LifeInv, NEW s \in Shells, WritePID(s)
    PROVE  LifeInv'
<1>1. /\ shell[s].step = "write"
      /\ pidFile' = shell[s].pid
      /\ Run(s, "watch", shell[s].pid)
      /\ UNCHANGED <<pc, used>>
  BY DEF WritePID, migrationVars
<1>2. shell[s].pid \in Procs \cup {Nobody}
  BY DEF LifeInv, LifeType, ShellType
<1>3. Moved(s, "watch", shell[s].pid)
  BY <1>1, <1>2, RunMoves DEF LifeInv, Commands
<1>4. Started' = Started
  BY <1>1 DEF Started
<1>5. ASSUME ~met'
      PROVE  Started \subseteq {shell[s].pid}
  BY <1>1, <1>3, <1>5 DEF LifeInv, Knows, Moved
<1>6. ~met' => Filed' /\ Knows(s)'
  BY <1>1, <1>3, <1>4, <1>5 DEF Filed, Knows, Moved
<1>7. QED
  BY <1>1, <1>2, <1>3, <1>6, MovedKeeps DEF LifeInv, LifeType, Commands

\* A stale PID file that goes takes no started process with it.
LEMMA StaleGoes ==
    ASSUME LifeInv, ~met, ~Alive(pidFile), NEW s \in Shells, NEW pid,
           shell[s].step # "write",
           UNCHANGED <<pc, used>>, Moved(s, "idle", pid)
    PROVE  Filed'
<1>1. \A p \in Started : pidFile # p
  BY BudgetAssumption DEF LifeInv, LifeType, Started, Alive
<1>2. \A p \in Started : \E t \in Shells \ {s} : shell[t].step = "write" /\ shell[t].pid = p
  BY <1>1 DEF LifeInv, Filed
<1>3. Started' = Started
  BY DEF Started
<1>4. QED
  BY <1>2, <1>3 DEF Filed, Moved

LEMMA WatchKeeps ==
    ASSUME LifeInv, NEW s \in Shells, Watch(s)
    PROVE  LifeInv'
<1>1. /\ shell[s].step = "watch"
      /\ pidFile' = IF Alive(shell[s].pid) THEN pidFile ELSE Nobody
      /\ Run(s, "idle", Nobody)
      /\ UNCHANGED <<pc, used>>
  BY DEF Watch, migrationVars
<1>2. Moved(s, "idle", Nobody)
  BY <1>1, RunMoves DEF LifeInv, Commands
<1>3. Started' = Started
  BY <1>1 DEF Started
<1>4. ASSUME ~met'
      PROVE  Filed'
  <2>1. Started \subseteq {shell[s].pid} /\ Filed
    BY <1>1, <1>2, <1>4 DEF LifeInv, Knows, Moved
  <2>2. CASE Alive(shell[s].pid)
    BY <1>1, <1>2, <1>3, <2>1, <2>2 DEF Filed, Moved
  <2>3. CASE ~Alive(shell[s].pid)
    <3>1. Started = {}
      BY <2>1, <2>3, BudgetAssumption DEF LifeInv, LifeType, Started, Alive
    <3>2. QED
      BY <1>3, <3>1 DEF Filed
  <2>4. QED
    BY <2>2, <2>3
<1>5. Knows(s)'
  BY <1>2 DEF Knows, Moved
<1>6. pidFile' \in Procs \cup {Nobody}
  BY <1>1 DEF LifeInv, LifeType
<1>7. QED
  BY <1>1, <1>2, <1>3, <1>4, <1>5, <1>6, MovedKeeps DEF LifeInv, LifeType, Commands

LEMMA StopKeeps ==
    ASSUME LifeInv, NEW s \in Shells, StopCommand(s)
    PROVE  LifeInv'
<1>1. shell[s].step = "idle" /\ pidFile # Nobody /\ UNCHANGED <<pc, used>>
  BY DEF StopCommand, migrationVars
<1>2. Started' = Started
  BY <1>1 DEF Started
<1>3. CASE Alive(pidFile)
  <2>1. Run(s, "kill", pidFile) /\ pidFile' = pidFile
    BY <1>3 DEF StopCommand
  <2>2. Moved(s, "kill", pidFile)
    BY <2>1, RunMoves DEF LifeInv, LifeType, Commands
  <2>3. ASSUME ~met'
        PROVE  Started \subseteq {pidFile}
    BY <1>1, <2>2, <2>3, AloneIsFiled DEF Moved
  <2>4. ~met' => Filed' /\ Knows(s)'
    BY <1>2, <2>1, <2>2, <2>3 DEF Filed, Knows, Moved
  <2>5. QED
    BY <1>1, <2>1, <2>2, <2>4, MovedKeeps DEF LifeInv, LifeType, Commands
<1>4. CASE ~Alive(pidFile)
  <2>1. Run(s, "idle", Nobody) /\ pidFile' = Nobody
    BY <1>4 DEF StopCommand
  <2>2. Moved(s, "idle", Nobody)
    BY <2>1, RunMoves DEF LifeInv, Commands
  <2>3. ~met' => Filed'
    BY <1>1, <1>4, <2>2, StaleGoes DEF Moved
  <2>4. Knows(s)'
    BY <2>2 DEF Knows, Moved
  <2>5. QED
    BY <1>1, <1>2, <2>1, <2>2, <2>3, <2>4, MovedKeeps DEF LifeInv, LifeType, Commands
<1>5. QED
  BY <1>3, <1>4

LEMMA KillKeeps ==
    ASSUME LifeInv, NEW s \in Shells, Kill(s)
    PROVE  LifeInv'
<1>1. shell[s].step = "kill" /\ Run(s, "remove", Nobody) /\ UNCHANGED <<pidFile, used>>
  BY DEF Kill
<1>2. shell[s].pid \in Procs \cup {Nobody}
  BY DEF LifeInv, LifeType, ShellType
<1>3. Moved(s, "remove", Nobody)
  BY <1>1, RunMoves DEF LifeInv, Commands
<1>4. ASSUME ~met'
      PROVE  Started \subseteq {shell[s].pid}
  BY <1>1, <1>3, <1>4 DEF LifeInv, Knows, Moved
<1>5. pc' \in [Procs -> Steps] /\ (~met' => Started' = {})
  <2>1. CASE Alive(shell[s].pid)
    <3>1. shell[s].pid \in Procs
      BY <1>2, <2>1 DEF Alive
    <3>2. End(shell[s].pid)
      BY <2>1, Zenon DEF Kill
    <3>3. pc' = [pc EXCEPT ![shell[s].pid] = "off"] /\ "off" \in Steps
      BY <3>1, <3>2, EndMoves DEF LifeInv
    <3>4. QED
      BY <1>1, <1>4, <3>1, <3>3 DEF LifeInv, LifeType, Started
  <2>2. CASE ~Alive(shell[s].pid)
    <3>1. pc' = pc
      BY <2>2 DEF Kill, migrationVars
    <3>2. Started' = Started
      BY <1>1, <3>1 DEF Started
    <3>3. ~met' => Started = {}
      BY <1>4, <2>2, BudgetAssumption DEF LifeInv, LifeType, Started, Alive
    <3>4. QED
      BY <3>1, <3>2, <3>3 DEF LifeInv, LifeType
  <2>3. QED
    BY <2>1, <2>2
<1>6. ~met' => Filed' /\ Knows(s)'
  BY <1>3, <1>5 DEF Filed, Knows, Moved
<1>7. QED
  BY <1>1, <1>3, <1>5, <1>6, MovedKeeps DEF LifeInv, LifeType, Commands

LEMMA RemoveKeeps ==
    ASSUME LifeInv, NEW s \in Shells, RemovePID(s)
    PROVE  LifeInv'
<1>1. shell[s].step = "remove" /\ pidFile' = Nobody /\ UNCHANGED <<pc, used>>
  BY DEF RemovePID, migrationVars
<1>2. PICK step \in {"check", "idle"} : Run(s, step, Nobody)
  <2>1. Run(s, IF shell[s].again THEN "check" ELSE "idle", Nobody)
    BY DEF RemovePID
  <2>2. QED
    BY <2>1, Zenon
<1>3. step \in Commands
  BY DEF Commands
<1>4. Moved(s, step, Nobody)
  BY <1>2, <1>3, RunMoves DEF LifeInv
<1>5. Started' = Started
  BY <1>1 DEF Started
<1>6. ASSUME ~met'
      PROVE  Started = {}
  BY <1>1, <1>4, <1>6 DEF LifeInv, Knows, Moved
<1>7. ~met' => Filed' /\ Knows(s)'
  BY <1>4, <1>5, <1>6 DEF Filed, Knows, Moved
<1>8. QED
  BY <1>1, <1>3, <1>4, <1>5, <1>7, MovedKeeps DEF LifeInv, LifeType

LEMMA RestartKeeps ==
    ASSUME LifeInv, NEW s \in Shells, RestartCommand(s)
    PROVE  LifeInv'
<1>1. /\ shell[s].step = "idle"
      /\ pidFile' = IF Alive(pidFile) THEN pidFile ELSE Nobody
      /\ shell' = [shell EXCEPT ![s] = [step |-> IF Alive(pidFile) THEN "kill" ELSE "check",
                                       pid |-> pidFile', again |-> TRUE]]
      /\ met' = (met \/ \E t \in Shells \ {s} : shell[t].step # "idle")
      /\ UNCHANGED <<pc, used>>
  BY DEF RestartCommand, migrationVars
<1>2. PICK step \in {"kill", "check"} :
          /\ step = (IF Alive(pidFile) THEN "kill" ELSE "check")
          /\ shell' = [shell EXCEPT ![s] = [step |-> step, pid |-> pidFile', again |-> TRUE]]
  BY <1>1
<1>3. pidFile' \in Procs \cup {Nobody}
  BY <1>1 DEF LifeInv, LifeType
<1>4. step \in Commands
  BY DEF Commands
<1>5. Moved(s, step, pidFile')
  <2>1. [step |-> step, pid |-> pidFile', again |-> TRUE] \in ShellType
    BY <1>3, <1>4 DEF ShellType
  <2>2. shell' \in [Shells -> ShellType]
    BY <1>2, <2>1 DEF LifeInv, LifeType
  <2>3. /\ shell'[s].step = step /\ shell'[s].pid = pidFile'
        /\ \A t \in Shells \ {s} : shell'[t] = shell[t]
    BY <1>2 DEF LifeInv, LifeType
  <2>4. met' \in BOOLEAN
    BY <1>1 DEF LifeInv, LifeType
  <2>5. ~met' => ~met /\ \A t \in Shells \ {s} : shell[t].step = "idle"
    BY <1>1
  <2>6. QED
    BY <2>2, <2>3, <2>4, <2>5, Zenon DEF Moved
<1>6. Started' = Started
  BY <1>1 DEF Started
<1>7. ASSUME ~met'
      PROVE  Started \subseteq {pidFile} /\ (~Alive(pidFile) => Started = {})
  <2>1. ~met /\ \A t \in Shells \ {s} : shell[t].step = "idle"
    BY <1>2, <1>5, <1>7 DEF Moved
  <2>2. QED
    BY <1>1, <2>1, AloneIsFiled
<1>8. ~met' => Filed' /\ Knows(s)'
  <2>1. CASE Alive(pidFile)
    BY <1>1, <1>2, <1>5, <1>6, <1>7, <2>1 DEF Filed, Knows, Moved
  <2>2. CASE ~Alive(pidFile)
    BY <1>2, <1>5, <1>6, <1>7, <2>2 DEF Filed, Knows, Moved
  <2>3. QED
    BY <2>1, <2>2
<1>9. QED
  BY <1>1, <1>3, <1>4, <1>5, <1>6, <1>8, MovedKeeps DEF LifeInv, LifeType

LEMMA CheckKeeps ==
    ASSUME LifeInv, NEW s \in Shells, CheckStopped(s)
    PROVE  LifeInv'
<1>1. shell[s].step = "check" /\ UNCHANGED <<pc, used>>
  BY DEF CheckStopped, migrationVars
<1>2. PICK step \in {"idle", "spawn"} : Run(s, step, Nobody) /\ pidFile' \in {pidFile, Nobody}
  <2>1. CASE Alive(pidFile)
    BY <2>1, Zenon DEF CheckStopped
  <2>2. CASE ~Alive(pidFile)
    BY <2>2, Zenon DEF CheckStopped
  <2>3. QED
    BY <2>1, <2>2
<1>3. step \in Commands /\ pidFile' \in Procs \cup {Nobody}
  BY <1>2 DEF Commands, LifeInv, LifeType
<1>4. Moved(s, step, Nobody)
  BY <1>2, <1>3, RunMoves DEF LifeInv
<1>5. Started' = Started
  BY <1>1 DEF Started
<1>6. ASSUME ~met'
      PROVE  Started = {}
  BY <1>1, <1>4, <1>6 DEF LifeInv, Knows, Moved
<1>7. ~met' => Filed' /\ Knows(s)'
  BY <1>4, <1>5, <1>6 DEF Filed, Knows, Moved
<1>8. QED
  BY <1>1, <1>3, <1>4, <1>5, <1>7, MovedKeeps DEF LifeInv, LifeType

LEMMA CommandsKeep ==
    ASSUME LifeInv, NEW s \in Shells, Command(s)
    PROVE  LifeInv'
BY StartKeeps, StopKeeps, RestartKeeps, KillKeeps, RemoveKeeps, CheckKeeps, SpawnKeeps,
   WriteKeeps, WatchKeeps, Zenon DEF Command

LEMMA LifeStands ==
    ASSUME LifeInv, UNCHANGED <<pc, pidFile, shell, used, met>>
    PROVE  LifeInv'
BY DEF LifeInv, LifeType, OneCommand, Filed, Knows, Started

LEMMA UseLeavesSteps ==
    ASSUME NEW p \in Procs, Use(p)
    PROVE  pc' = pc
<1>1. CASE \E r \in New \cap budget.rows : InsertRequest(p, r)
  BY <1>1, Zenon DEF InsertRequest
<1>2. CASE RecomputeRebuilds(p)
  BY <1>2, Zenon DEF RecomputeRebuilds
<1>3. QED
  BY <1>1, <1>2, Zenon DEF Use

LEMMA LifeStep ==
    ASSUME LifeInv, [Next]_vars
    PROVE  LifeInv'
<1>1. ASSUME NEW p \in Procs, ServeByHand(p) \/ Crash(p) \/ Boot(p)
      PROVE  LifeInv'
  BY <1>1, HandKeeps, BootKeeps, Zenon
<1>2. ASSUME NEW p \in Procs, Use(p)
      PROVE  LifeInv'
  <2>1. UNCHANGED <<pidFile, shell, used, met>>
    BY <1>2 DEF Use, cliVars
  <2>2. pc' = pc
    BY <1>2, UseLeavesSteps
  <2>3. QED
    BY <2>1, <2>2, LifeStands
<1>3. ASSUME NEW s \in Shells, Command(s)
      PROVE  LifeInv'
  BY <1>3, CommandsKeep
<1>4. CASE Pricing
  <2>1. UNCHANGED migrationVars /\ UNCHANGED cliVars
    BY <1>4, Zenon DEF Pricing
  <2>2. QED
    BY <2>1, LifeStands DEF migrationVars, cliVars
<1>5. CASE UNCHANGED vars
  BY <1>5, LifeStands DEF vars, migrationVars
<1>6. QED
  BY <1>1, <1>2, <1>3, <1>4, <1>5, Zenon DEF Next

LEMMA LifeBegins ==
    ASSUME Init
    PROVE  LifeInv
<1>1. /\ pc = [p \in Procs |-> "off"]
      /\ pidFile = Nobody
      /\ shell = [s \in Shells |-> Idle]
      /\ used = [start |-> {}, hand |-> {}]
      /\ met = FALSE
  BY DEF Init, MigrationsInit
<1>2. Idle \in ShellType /\ Idle.step = "idle"
  BY DEF Idle, ShellType, Commands
<1>3. LifeType
  BY <1>1, <1>2 DEF LifeType, Steps
<1>4. Started = {}
  BY <1>1 DEF Started
<1>5. OneCommand /\ Filed /\ \A s \in Shells : Knows(s)
  BY <1>1, <1>2, <1>4 DEF OneCommand, Filed, Knows
<1>6. QED
  BY <1>3, <1>5 DEF LifeInv

\* A daemon that a command started and that serves is the one `stop` finds, as
\* long as no two commands ran at once (startDaemon, cmdStop, cmdRestart).
THEOREM DaemonStopFindsIt == Spec => []StopFindsIt
<1>1. LifeInv => StopFindsIt
  BY DEF LifeInv, Filed, Started, StopFindsIt
<1>2. QED
  BY <1>1, LifeBegins, LifeStep, PTL DEF Spec

-----------------------------------------------------------------------------
(* Prices.                                                                  *)

Edit(step, key, entry, snap) == [step |-> step, key |-> key, entry |-> entry, snap |-> snap]
IsEdit(e) == \E step, key, entry, snap : e = Edit(step, key, entry, snap)
EditorType ==
    /\ editor = [w \in Editors |-> editor[w]]
    /\ \A w \in Editors : IsEdit(editor[w])

\* An edit has not written yet, or is over.
Resting(w) == editor[w].step \in {"idle", "write"}

\* Unless memory may differ: it is the table while no edit has written and not
\* installed, and an edit that is alone in that will install the table.
Current ==
    ~unsure =>
        /\ (\A w \in Editors : Resting(w)) => cached = stored
        /\ \A w \in Editors :
               /\ editor[w].step = "install"
               /\ \A v \in Editors \ {w} : Resting(v)
               => editor[w].snap = stored

LEMMA EditMoves ==
    ASSUME EditorType, NEW w \in Editors, NEW edit, IsEdit(edit),
           editor' = [editor EXCEPT ![w] = edit]
    PROVE  /\ EditorType'
           /\ editor'[w] = edit
           /\ \A v \in Editors \ {w} : editor'[v] = editor[v]
<1>1. editor'[w] = edit /\ \A v \in Editors \ {w} : editor'[v] = editor[v]
  BY DEF EditorType
<1>2. editor' = [v \in Editors |-> editor'[v]]
  BY DEF EditorType
<1>3. QED
  BY <1>1, <1>2 DEF EditorType

LEMMA SubmitKeeps ==
    ASSUME EditorType, Current, NEW w \in Editors, Submit(w)
    PROVE  EditorType' /\ Current'
<1>1. PICK key, entry :
          editor' = [editor EXCEPT ![w] = [NoEdit EXCEPT !.step = "write", !.key = key, !.entry = entry]]
  BY Zenon DEF Submit
<1>2. editor[w].step = "idle" /\ UNCHANGED <<stored, cached, unsure>>
  BY DEF Submit
<1>3. DEFINE edit == Edit("write", key, entry, <<>>)
<1>4. /\ IsEdit(edit) /\ edit.step = "write"
      /\ [NoEdit EXCEPT !.step = "write", !.key = key, !.entry = entry] = edit
  <2>1. IsEdit(edit)
    BY Zenon DEF IsEdit
  <2>2. edit.step = "write"
    BY DEF Edit
  <2>3. NoEdit = Edit("idle", Miss.key, NoEntry, <<>>)
    BY DEF NoEdit, Edit
  <2>4. [NoEdit EXCEPT !.step = "write", !.key = key, !.entry = entry] = edit
    <3>1. [NoEdit EXCEPT !.step = "write"] = Edit("write", Miss.key, NoEntry, <<>>)
      BY <2>3 DEF Edit
    <3>2. [Edit("write", Miss.key, NoEntry, <<>>) EXCEPT !.key = key] = Edit("write", key, NoEntry, <<>>)
      BY DEF Edit
    <3>3. [Edit("write", key, NoEntry, <<>>) EXCEPT !.entry = entry] = edit
      BY DEF Edit
    <3>4. [NoEdit EXCEPT !.step = "write", !.key = key, !.entry = entry]
            = [[[NoEdit EXCEPT !.step = "write"] EXCEPT !.key = key] EXCEPT !.entry = entry]
      OBVIOUS
    <3>5. QED
      BY <3>1, <3>2, <3>3, <3>4, Zenon
  <2>5. QED
    BY <2>1, <2>2, <2>4
<1> HIDE DEF edit
<1>5. /\ EditorType' /\ editor'[w] = edit
      /\ \A v \in Editors \ {w} : editor'[v] = editor[v]
  BY <1>1, <1>4, EditMoves
<1>6. \A v \in Editors : Resting(v)' <=> Resting(v)
  BY <1>2, <1>4, <1>5 DEF Resting
<1>7. QED
  BY <1>2, <1>4, <1>5, <1>6 DEF Current

LEMMA EditStepKeeps ==
    ASSUME EditorType, Current, NEW w \in Editors, EditStep(w)
    PROVE  EditorType' /\ Current'
<1>1. IsEdit(NoEdit) /\ NoEdit.step = "idle"
  <2>1. NoEdit = Edit("idle", Miss.key, NoEntry, <<>>)
    BY DEF NoEdit, Edit
  <2>2. QED
    BY <2>1 DEF IsEdit, NoEdit
<1>2. CASE WriteEntry(w)
  <2>1. editor[w].step = "write" /\ editor' = [editor EXCEPT ![w] = [editor[w] EXCEPT !.step = "query"]]
    BY <1>2 DEF WriteEntry, EditorType
  <2>2. PICK edit : IsEdit(edit) /\ edit.step = "query" /\ editor' = [editor EXCEPT ![w] = edit]
    <3>1. PICK step, key, entry, snap : editor[w] = Edit(step, key, entry, snap)
      BY DEF EditorType, IsEdit
    <3>2. [editor[w] EXCEPT !.step = "query"] = Edit("query", key, entry, snap)
      BY <3>1 DEF Edit
    <3>3. IsEdit(Edit("query", key, entry, snap)) /\ Edit("query", key, entry, snap).step = "query"
      <4>1. IsEdit(Edit("query", key, entry, snap))
        BY Zenon DEF IsEdit
      <4>2. QED
        BY <4>1 DEF Edit
    <3>4. QED
      BY <2>1, <3>2, <3>3, Zenon
  <2>3. /\ EditorType' /\ editor'[w] = edit
        /\ \A v \in Editors \ {w} : editor'[v] = editor[v]
    BY <2>2, EditMoves
  <2>4. QED
    BY <2>2, <2>3 DEF Current, Resting
<1>3. CASE ReadTable(w)
  <2>1. /\ editor' = [editor EXCEPT ![w] = [editor[w] EXCEPT !.step = "install", !.snap = stored]]
        /\ stored' = stored
    BY <1>3 DEF ReadTable, EditorType
  <2>2. PICK edit : /\ IsEdit(edit) /\ edit.step = "install" /\ edit.snap = stored
                    /\ editor' = [editor EXCEPT ![w] = edit]
    <3>1. PICK step, key, entry, snap : editor[w] = Edit(step, key, entry, snap)
      BY DEF EditorType, IsEdit
    <3>2. DEFINE edit == Edit("install", key, entry, stored)
    <3>3. [editor[w] EXCEPT !.step = "install", !.snap = stored] = edit
      <4>1. [editor[w] EXCEPT !.step = "install"] = Edit("install", key, entry, snap)
        BY <3>1 DEF Edit
      <4>2. [Edit("install", key, entry, snap) EXCEPT !.snap = stored] = edit
        BY DEF Edit
      <4>3. [editor[w] EXCEPT !.step = "install", !.snap = stored]
              = [[editor[w] EXCEPT !.step = "install"] EXCEPT !.snap = stored]
        OBVIOUS
      <4>4. QED
        BY <4>1, <4>2, <4>3, Zenon
    <3>4. IsEdit(edit)
      BY Zenon DEF IsEdit
    <3>5. edit.step = "install" /\ edit.snap = stored
      BY DEF Edit
    <3> HIDE DEF edit
    <3>6. QED
      BY <2>1, <3>3, <3>4, <3>5, Zenon
  <2>3. /\ EditorType' /\ editor'[w] = edit
        /\ \A v \in Editors \ {w} : editor'[v] = editor[v]
    BY <2>2, EditMoves
  <2>4. QED
    BY <2>1, <2>2, <2>3 DEF Current, Resting
<1>4. CASE InstallTable(w)
  <2>1. /\ editor[w].step = "install"
        /\ cached' = editor[w].snap
        /\ editor' = [editor EXCEPT ![w] = NoEdit]
        /\ unsure' = (unsure \/ \E v \in Editors \ {w} : editor[v].step # "idle")
        /\ stored' = stored
    BY <1>4, Zenon DEF InstallTable, Install
  <2>2. /\ EditorType' /\ editor'[w] = NoEdit
        /\ \A v \in Editors \ {w} : editor'[v] = editor[v]
    BY <1>1, <2>1, EditMoves
  <2>3. QED
    BY <1>1, <2>1, <2>2 DEF Current, Resting
<1>5. CASE EditFails(w)
  <2>1. /\ editor[w].step \in {"write", "query"}
        /\ editor' = [editor EXCEPT ![w] = NoEdit]
        /\ unsure' = (unsure \/ editor[w].step = "query")
        /\ UNCHANGED <<stored, cached>>
    BY <1>5 DEF EditFails
  <2>2. /\ EditorType' /\ editor'[w] = NoEdit
        /\ \A v \in Editors \ {w} : editor'[v] = editor[v]
    BY <1>1, <2>1, EditMoves
  <2>3. QED
    BY <1>1, <2>1, <2>2 DEF Current, Resting
<1>6. QED
  BY <1>2, <1>3, <1>4, <1>5, Zenon DEF EditStep

RunsUsed == \A p \in Procs : pc[p] # "off" => p \in used.start \cup used.hand

PriceInv ==
    /\ EditorType
    /\ Current
    /\ RunsUsed
    /\ (\E w \in Editors : editor[w].step # "idle") => Serving

LEMMA RegistryStands ==
    ASSUME PriceInv, UNCHANGED registryVars, RunsUsed', Serving => Serving'
    PROVE  PriceInv'
BY DEF PriceInv, registryVars, EditorType, Current, Resting

\* The memory of a daemon that ends is gone.
LEMMA Unloads ==
    ASSUME Unload
    PROVE  EditorType' /\ Current' /\ \A w \in Editors : editor'[w].step = "idle"
<1>1. editor' = [w \in Editors |-> NoEdit] /\ unsure'
  BY DEF Unload
<1>2. IsEdit(NoEdit) /\ NoEdit.step = "idle"
  <2>1. NoEdit = Edit("idle", Miss.key, NoEntry, <<>>)
    BY DEF NoEdit, Edit
  <2>2. QED
    BY <2>1 DEF IsEdit, NoEdit
<1>3. QED
  BY <1>1, <1>2 DEF EditorType, Current

LEMMA RunsMove ==
    ASSUME LifeType, RunsUsed, NEW p \in Procs, NEW step, UNCHANGED used,
           pc[p] # "off", pc' = [pc EXCEPT ![p] = step]
    PROVE  RunsUsed'
BY DEF LifeType, RunsUsed

LEMMA EndPrices ==
    ASSUME LifeType, PriceInv, NEW p \in Procs, End(p), UNCHANGED used
    PROVE  PriceInv'
<1>1. pc[p] # "off" /\ pc' = [pc EXCEPT ![p] = "off"]
  BY EndMoves
<1>2. RunsUsed'
  BY <1>1, RunsMove DEF PriceInv
<1>3. CASE pc[p] = "serve"
  <2>1. Unload
    BY <1>3, Zenon DEF End
  <2>2. QED
    BY <1>2, <2>1, Unloads DEF PriceInv
<1>4. CASE pc[p] # "serve"
  <2>1. UNCHANGED registryVars
    BY <1>4, Zenon DEF End
  <2>2. Serving => Serving'
    BY <1>1, <1>4 DEF LifeType, Serving
  <2>3. QED
    BY <1>2, <2>1, <2>2, RegistryStands
<1>5. QED
  BY <1>3, <1>4

\* A process that did not run starts.
LEMMA LaunchPrices ==
    ASSUME LifeType, PriceInv, NEW p \in Procs, Fresh(p), UNCHANGED registryVars,
           pc' = [pc EXCEPT ![p] = "tables"],
           \A q \in Procs : q \in used.start \cup used.hand \/ q = p
                            => q \in used'.start \cup used'.hand
    PROVE  PriceInv'
<1>1. pc[p] = "off"
  BY DEF PriceInv, RunsUsed, Fresh
<1>2. RunsUsed'
  BY DEF PriceInv, RunsUsed, LifeType
<1>3. Serving => Serving'
  BY <1>1 DEF LifeType, Serving
<1>4. QED
  BY <1>2, <1>3, RegistryStands

LEMMA BootPrices ==
    ASSUME LifeType, PriceInv, NEW p \in Procs, Boot(p)
    PROVE  PriceInv'
<1>1. UNCHANGED used
  BY DEF Boot, cliVars
<1>2. CASE (Migrate(p) \/ CheckFails(p)) /\ UNCHANGED registryVars
  <2>1. PICK step \in Steps \ {"serve"} :
            pc[p] \notin {"off", "serve"} /\ pc' = [pc EXCEPT ![p] = step]
    BY <1>2, MigrateMoves DEF Boots
  <2>2. RunsUsed'
    BY <1>1, <2>1, RunsMove DEF PriceInv
  <2>3. Serving => Serving'
    BY <2>1 DEF LifeType, Serving
  <2>4. QED
    BY <1>2, <2>2, <2>3, RegistryStands
<1>3. CASE Bind(p)
  <2>1. pc[p] = "bind"
    BY <1>3, Zenon DEF Bind
  <2>2. CASE \E q \in Procs : pc[q] = "serve"
    <3>1. /\ pc' = [pc EXCEPT ![p] = "off"]
          /\ unsure' = (unsure \/ stored' # stored)
          /\ UNCHANGED <<cached, alias, editor, misses>>
      BY <1>3, <2>2, Zenon DEF Bind
    <3>2. RunsUsed'
      BY <1>1, <2>1, <3>1, RunsMove DEF PriceInv
    <3>3. Serving'
      BY <2>1, <2>2, <3>1 DEF LifeType, Serving
    <3>4. EditorType' /\ Current'
      BY <3>1 DEF PriceInv, EditorType, Current, Resting
    <3>5. QED
      BY <3>2, <3>3, <3>4 DEF PriceInv
  <2>3. CASE ~\E q \in Procs : pc[q] = "serve"
    <3>1. pc' = [pc EXCEPT ![p] = "serve"] /\ NewRegistry
      BY <1>3, <2>3, Zenon DEF Bind
    <3>2. RunsUsed'
      BY <1>1, <2>1, <3>1, RunsMove DEF PriceInv
    <3>3. Serving'
      BY <3>1 DEF LifeType, Serving
    <3>4. editor' = editor /\ cached' = stored'
      BY <3>1, Zenon DEF NewRegistry, Install
    <3>5. \A w \in Editors : editor[w].step = "idle"
      BY <2>3 DEF PriceInv, Serving
    <3>6. EditorType' /\ Current'
      BY <3>4, <3>5 DEF PriceInv, EditorType, Current
    <3>7. QED
      BY <3>2, <3>3, <3>6 DEF PriceInv
  <2>4. QED
    BY <2>2, <2>3
<1>4. QED
  BY <1>2, <1>3, Zenon DEF Boot

LEMMA CommandPrices ==
    ASSUME LifeInv, PriceInv, NEW s \in Shells, Command(s)
    PROVE  PriceInv'
<1>1. CASE UNCHANGED <<migrationVars, registryVars, used>>
  BY <1>1, RegistryStands DEF migrationVars, PriceInv, RunsUsed, Serving
<1>2. CASE Kill(s)
  <2>1. UNCHANGED used
    BY <1>2 DEF Kill
  <2>2. CASE Alive(shell[s].pid)
    <3>1. End(shell[s].pid)
      BY <1>2, <2>2, Zenon DEF Kill
    <3>2. shell[s].pid \in Procs
      BY <2>2 DEF Alive, LifeInv, LifeType, ShellType
    <3>3. QED
      BY <2>1, <3>1, <3>2, EndPrices DEF LifeInv
  <2>3. CASE ~Alive(shell[s].pid)
    BY <1>1, <1>2, <2>1, <2>3, Zenon DEF Kill
  <2>4. QED
    BY <2>2, <2>3
<1>3. CASE Spawn(s)
  <2>1. PICK p \in Procs : /\ Fresh(p)
                           /\ pc' = [pc EXCEPT ![p] = "tables"]
                           /\ used' = [used EXCEPT !.start = @ \cup {p}]
    BY <1>3 DEF Spawn
  <2>2. UNCHANGED registryVars
    BY <1>3 DEF Spawn
  <2>3. QED
    BY <2>1, <2>2, LaunchPrices DEF LifeInv, LifeType
<1>4. CASE StartCommand(s) \/ StopCommand(s) \/ RestartCommand(s)
  BY <1>1, <1>4, Zenon DEF StartCommand, StopCommand, RestartCommand
<1>5. CASE RemovePID(s) \/ CheckStopped(s) \/ WritePID(s) \/ Watch(s)
  BY <1>1, <1>5, Zenon DEF RemovePID, CheckStopped, WritePID, Watch
<1>6. QED
  BY <1>2, <1>3, <1>4, <1>5, Zenon DEF Command

LEMMA PricingPrices ==
    ASSUME PriceInv, Pricing
    PROVE  PriceInv'
<1>1. Serving /\ UNCHANGED <<pc, used>>
  BY DEF Pricing, migrationVars, cliVars
<1>2. RunsUsed' /\ Serving'
  BY <1>1 DEF PriceInv, RunsUsed, Serving
<1>3. CASE \E w \in Editors : Submit(w) \/ EditStep(w)
  BY <1>2, <1>3, SubmitKeeps, EditStepKeeps DEF PriceInv
<1>4. CASE \E n \in Names : RecordMiss(n)
  <2>1. UNCHANGED <<stored, cached, editor, unsure>>
    BY <1>4 DEF RecordMiss
  <2>2. QED
    BY <1>2, <2>1 DEF PriceInv, EditorType, Current, Resting
<1>5. QED
  BY <1>3, <1>4, Zenon DEF Pricing

LEMMA PriceStep ==
    ASSUME LifeInv, PriceInv, [Next]_vars
    PROVE  PriceInv'
<1>1. ASSUME NEW p \in Procs, ServeByHand(p)
      PROVE  PriceInv'
  <2>1. /\ Fresh(p) /\ UNCHANGED registryVars
        /\ pc' = [pc EXCEPT ![p] = "tables"]
        /\ used' = [used EXCEPT !.hand = @ \cup {p}]
    BY <1>1 DEF ServeByHand
  <2>2. QED
    BY <2>1, LaunchPrices DEF LifeInv, LifeType
<1>2. ASSUME NEW p \in Procs, Crash(p)
      PROVE  PriceInv'
  <2>1. End(p) /\ UNCHANGED used
    BY <1>2, Zenon DEF Crash, cliVars
  <2>2. QED
    BY <2>1, EndPrices DEF LifeInv
<1>3. ASSUME NEW p \in Procs, Boot(p)
      PROVE  PriceInv'
  BY <1>3, BootPrices DEF LifeInv
<1>4. ASSUME NEW p \in Procs, Use(p)
      PROVE  PriceInv'
  <2>1. UNCHANGED registryVars /\ UNCHANGED used
    BY <1>4 DEF Use, cliVars
  <2>2. pc' = pc
    BY <1>4, UseLeavesSteps
  <2>3. QED
    BY <2>1, <2>2, RegistryStands DEF PriceInv, RunsUsed, Serving
<1>5. ASSUME NEW s \in Shells, Command(s)
      PROVE  PriceInv'
  BY <1>5, CommandPrices
<1>6. CASE Pricing
  BY <1>6, PricingPrices
<1>7. CASE UNCHANGED vars
  BY <1>7, RegistryStands DEF vars, migrationVars, registryVars, PriceInv, RunsUsed, Serving
<1>8. QED
  BY <1>1, <1>2, <1>3, <1>4, <1>5, <1>6, <1>7, Zenon DEF Next

LEMMA PriceBegins ==
    ASSUME Init
    PROVE  PriceInv
<1>1. /\ pc = [p \in Procs |-> "off"]
      /\ editor = [w \in Editors |-> NoEdit] /\ unsure
  BY DEF Init, MigrationsInit, RegistryInit, Unloaded
<1>2. IsEdit(NoEdit) /\ NoEdit.step = "idle"
  <2>1. NoEdit = Edit("idle", Miss.key, NoEntry, <<>>)
    BY DEF NoEdit, Edit
  <2>2. QED
    BY <2>1 DEF IsEdit, NoEdit
<1>3. QED
  BY <1>1, <1>2 DEF PriceInv, EditorType, Current, RunsUsed

\* The prices in memory are those of the table while no edit is under way,
\* unless edits overlapped, a reload failed or another process wrote the table
\* (Upsert, Delete, Reload, NewRegistry).
THEOREM DaemonPricesAreCurrent == Spec => []PricesAreCurrent
<1>1. PriceInv => PricesAreCurrent
  BY DEF PriceInv, Current, Resting, PricesAreCurrent
<1>2. QED
  BY <1>1, LifeBegins, LifeStep, PriceBegins, PriceStep, PTL DEF Spec

-----------------------------------------------------------------------------
(* Totals.                                                                  *)

\* A process that starts or ends leaves the database as it is.
LEMMA LifeSparesTotals ==
    ASSUME LifeType, TotalsInv, UNCHANGED <<svc, form, count, gaps>>, NEW p \in Procs,
           NEW step, step \notin {"bind", "serve"}, pc' = [pc EXCEPT ![p] = step]
    PROVE  TotalsInv'
BY MoveShort, TotalsStand DEF LifeType, PcType, dbVars

LEMMA SamePcSparesTotals ==
    ASSUME TotalsInv, UNCHANGED migrationVars
    PROVE  TotalsInv'
BY TotalsStand DEF migrationVars, dbVars, NobodyPast

LEMMA EndSparesTotals ==
    ASSUME LifeType, TotalsInv, NEW p \in Procs, End(p)
    PROVE  TotalsInv'
<1>1. pc' = [pc EXCEPT ![p] = "off"] /\ UNCHANGED <<svc, form, count, gaps>>
  BY Zenon DEF End
<1>2. QED
  BY <1>1, LifeSparesTotals

LEMMA BootKeepsTotals ==
    ASSUME LifeType, TotalsInv, NEW p \in Procs, Boot(p)
    PROVE  TotalsInv'
<1>1. CASE Migrate(p)
  BY <1>1, MigrateKeepsTotals DEF LifeType, PcType
<1>2. CASE CheckFails(p)
  BY <1>2, FailKeepsTotals
<1>3. CASE Bind(p)
  <2>1. pc[p] = "bind" /\ UNCHANGED <<svc, form, count, gaps>>
    BY <1>3, Zenon DEF Bind
  <2>2. ~NobodyPast
    BY <2>1 DEF NobodyPast
  <2>3. QED
    BY <2>1, <2>2, TotalsStand DEF dbVars
<1>4. QED
  BY <1>1, <1>2, <1>3, Zenon DEF Boot

LEMMA CommandKeepsTotals ==
    ASSUME LifeInv, TotalsInv, NEW s \in Shells, Command(s)
    PROVE  TotalsInv'
<1>1. CASE UNCHANGED migrationVars
  BY <1>1, SamePcSparesTotals
<1>2. CASE Kill(s)
  <2>1. CASE Alive(shell[s].pid)
    <3>1. End(shell[s].pid)
      BY <1>2, <2>1, Zenon DEF Kill
    <3>2. shell[s].pid \in Procs
      BY <2>1 DEF Alive, LifeInv, LifeType, ShellType
    <3>3. QED
      BY <3>1, <3>2, EndSparesTotals DEF LifeInv
  <2>2. CASE ~Alive(shell[s].pid)
    BY <1>1, <1>2, <2>2, Zenon DEF Kill
  <2>3. QED
    BY <2>1, <2>2
<1>3. CASE Spawn(s)
  <2>1. PICK p \in Procs : pc' = [pc EXCEPT ![p] = "tables"]
    BY <1>3 DEF Spawn
  <2>2. UNCHANGED <<svc, form, count, gaps>>
    BY <1>3 DEF Spawn
  <2>3. QED
    BY <2>1, <2>2, LifeSparesTotals DEF LifeInv
<1>4. CASE StartCommand(s) \/ StopCommand(s) \/ RestartCommand(s)
  BY <1>1, <1>4, Zenon DEF StartCommand, StopCommand, RestartCommand
<1>5. CASE RemovePID(s) \/ CheckStopped(s) \/ WritePID(s) \/ Watch(s)
  BY <1>1, <1>5, Zenon DEF RemovePID, CheckStopped, WritePID, Watch
<1>6. QED
  BY <1>2, <1>3, <1>4, <1>5, Zenon DEF Command

LEMMA TotalsStep ==
    ASSUME LifeInv, TotalsInv, [Next]_vars
    PROVE  TotalsInv'
<1>1. ASSUME NEW p \in Procs, ServeByHand(p)
      PROVE  TotalsInv'
  <2>1. pc' = [pc EXCEPT ![p] = "tables"] /\ UNCHANGED <<svc, form, count, gaps>>
    BY <1>1 DEF ServeByHand
  <2>2. QED
    BY <2>1, LifeSparesTotals DEF LifeInv
<1>2. ASSUME NEW p \in Procs, Crash(p)
      PROVE  TotalsInv'
  <2>1. End(p)
    BY <1>2, Zenon DEF Crash
  <2>2. QED
    BY <2>1, EndSparesTotals DEF LifeInv
<1>3. ASSUME NEW p \in Procs, Boot(p)
      PROVE  TotalsInv'
  BY <1>3, BootKeepsTotals DEF LifeInv
<1>4. ASSUME NEW p \in Procs, Use(p)
      PROVE  TotalsInv'
  <2>1. CASE \E r \in New \cap budget.rows : InsertRequest(p, r)
    BY <2>1, RequestKeepsTotals
  <2>2. CASE RecomputeRebuilds(p)
    BY <2>2, RebuildKeepsTotals DEF RecomputeRebuilds
  <2>3. QED
    BY <1>4, <2>1, <2>2, Zenon DEF Use
<1>5. ASSUME NEW s \in Shells, Command(s)
      PROVE  TotalsInv'
  BY <1>5, CommandKeepsTotals
<1>6. CASE Pricing \/ UNCHANGED vars
  <2>1. UNCHANGED migrationVars
    BY <1>6, Zenon DEF Pricing, vars
  <2>2. QED
    BY <2>1, SamePcSparesTotals
<1>7. QED
  BY <1>1, <1>2, <1>3, <1>4, <1>5, <1>6, Zenon DEF Next

\* Totals that a serving daemon shows are those of the rows, whatever database
\* was found and whichever processes started, died or served before
\* (runMigrations, NeedsAggRebuild, RebuildDailyAggregates).
THEOREM DaemonTotalsWhole == Spec => []ServedTotalsWhole
<1>1. Init => TotalsInv
  BY FoundTotals DEF Init
<1>2. TotalsInv => ServedTotalsWhole
  BY DEF TotalsInv, NobodyPast, ServedTotalsWhole
<1>3. QED
  BY <1>1, <1>2, LifeBegins, LifeStep, TotalsStep, PTL DEF Spec

-----------------------------------------------------------------------------
(* The registry: tables, index, edits, misses.                              *)

IsTable(t) == DOMAIN t \subseteq Names /\ \A k \in DOMAIN t : IsEntry(t[k])

\* An edit that is about to write has an entry, one about to install a table.
EditFits(e) ==
    /\ e.step \in {"idle", "write", "query", "install"}
    /\ e.step = "write" => e.key \in Names /\ (e.entry = NoEntry \/ IsEntry(e.entry))
    /\ e.step = "install" => IsTable(e.snap)

\* An index that was built has every alias of the configuration, and leads from
\* it to a key of the configuration.
IndexFits ==
    /\ DOMAIN alias \subseteq Names /\ \A a \in DOMAIN alias : alias[a] \in keys
    /\ \/ DOMAIN alias = {}
       \/ \A a \in Names : Owners(Overrides, a) # {} =>
              a \in DOMAIN alias /\ alias[a] \in Owners(Overrides, a)

MissesFit ==
    /\ misses \in Seq(Names) /\ Len(misses) <= MissLimit
    /\ \A i, j \in DOMAIN misses : misses[i] = misses[j] => i = j

RegistryFits ==
    /\ IsTable(stored) /\ IsTable(cached) /\ IndexFits /\ MissesFit
    /\ \A w \in Editors : EditFits(editor[w])
    /\ unsure \in BOOLEAN

LEMMA TableFacts ==
    /\ IsTable(Overrides) /\ IsTable(Seed) /\ IsTable(<<>>)
    /\ \A e \in Edits : e.key \in Names /\ e.aliases \subseteq Names /\ e.price \in Nat
    /\ MissLimit \in Nat \ {0}
<1>1. /\ IsTable(Overrides) /\ IsTable(Seed)
      /\ \A e \in Edits : e.key \in Names /\ e.aliases \subseteq Names /\ e.price \in Nat
      /\ MissLimit \in Nat \ {0}
  BY NameAssumption, Zenon DEF IsTable
<1>2. IsTable(<<>>)
  <2>1. PICK t : t = <<>>
    OBVIOUS
  <2>2. DOMAIN t = {}
    BY <2>1
  <2>3. QED
    BY <2>1, <2>2, Zenon DEF IsTable
<1>3. QED
  BY <1>1, <1>2

LEMMA InstallFits ==
    ASSUME NEW table, IsTable(table), Install(table)
    PROVE  IsTable(cached)' /\ IndexFits'
<1>1. /\ cached' = table
      /\ alias' \in [Aliases(table) -> DOMAIN table \cup DOMAIN Overrides]
      /\ rebuildIndexLocked(table, alias')
  BY DEF Install
<1>2. IsTable(cached)'
  <2>1. PICK t : t = cached' /\ IsTable(t)
    BY <1>1
  <2>2. QED
    BY <2>1 DEF IsTable
<1>3. DOMAIN alias' = Aliases(table) /\ \A a \in DOMAIN alias' : alias'[a] \in keys'
  BY <1>1 DEF keys
<1>4. ASSUME NEW a \in Names, Owners(Overrides, a) # {}
      PROVE  a \in DOMAIN alias' /\ alias'[a] \in Owners(Overrides, a)
  <2>1. a \in DOMAIN alias'
    BY <1>3, <1>4 DEF Aliases
  <2>2. QED
    BY <1>1, <1>4, <2>1 DEF rebuildIndexLocked
<1>5. Aliases(table) \subseteq Names
  BY DEF Aliases
<1>6. QED
  BY <1>2, <1>3, <1>4, <1>5 DEF IndexFits, Owners

LEMMA UnloadFits ==
    ASSUME IsTable(stored), Unload
    PROVE  RegistryFits'
<1>1. /\ cached' = <<>> /\ alias' = <<>> /\ misses' = <<>> /\ unsure' = TRUE
      /\ editor' = [w \in Editors |-> NoEdit] /\ stored' = stored
  BY DEF Unload
<1>2. IsTable(stored)' /\ IsTable(cached)'
  <2>1. PICK s, c : s = stored' /\ c = cached' /\ IsTable(s) /\ IsTable(c)
    BY <1>1, TableFacts
  <2>2. QED
    BY <2>1 DEF IsTable
<1>3. DOMAIN alias' = {}
  BY <1>1
<1>4. IndexFits'
  BY <1>3 DEF IndexFits
<1>5. MissesFit'
  BY <1>1, TableFacts DEF MissesFit
<1>6. \A w \in Editors : EditFits(editor[w])'
  <2>1. EditFits(NoEdit)
    BY DEF EditFits, NoEdit
  <2>2. PICK e : e = NoEdit /\ EditFits(e)
    BY <2>1
  <2>3. EditFits(e)'
    BY <2>2 DEF EditFits, IsTable
  <2>4. ASSUME NEW w \in Editors
        PROVE  EditFits(editor[w])'
    <3>1. PICK k : k = editor'[w] /\ k = e
      BY <1>1, <2>2
    <3>2. QED
      BY <2>3, <3>1
  <2>5. QED
    BY <2>4
<1>7. QED
  BY <1>1, <1>2, <1>4, <1>5, <1>6 DEF RegistryFits

LEMMA NewRegistryFits ==
    ASSUME RegistryFits, NewRegistry
    PROVE  RegistryFits'
<1>1. PICK table : /\ table = (IF DOMAIN stored = {} THEN Seed ELSE stored)
                   /\ stored' = table /\ Install(table) /\ misses' = <<>> /\ unsure' = FALSE
                   /\ editor' = editor
  BY DEF NewRegistry
<1>2. IsTable(table)
  BY <1>1, TableFacts DEF RegistryFits
<1>3. IsTable(cached)' /\ IndexFits'
  BY <1>1, <1>2, InstallFits
<1>4. IsTable(stored)'
  BY <1>1, <1>2 DEF IsTable
<1>5. MissesFit'
  BY <1>1, TableFacts DEF MissesFit
<1>6. \A w \in Editors : EditFits(editor[w])'
  BY <1>1 DEF RegistryFits, EditFits, IsTable
<1>7. QED
  BY <1>1, <1>3, <1>4, <1>5, <1>6 DEF RegistryFits

\* Another process seeds an empty table.
LEMMA SeedFits ==
    ASSUME RegistryFits, stored' = (IF DOMAIN stored = {} THEN Seed ELSE stored),
           unsure' = (unsure \/ stored' # stored), UNCHANGED <<cached, alias, editor, misses>>
    PROVE  RegistryFits'
<1>1. IsTable(stored)'
  <2>1. PICK t : t = stored' /\ IsTable(t)
    BY TableFacts DEF RegistryFits
  <2>2. QED
    BY <2>1 DEF IsTable
<1>2. IsTable(cached)' /\ IndexFits' /\ MissesFit'
  BY DEF RegistryFits, IsTable, IndexFits, MissesFit, keys, Owners
<1>3. \A w \in Editors : EditFits(editor[w])'
  BY DEF RegistryFits, EditFits, IsTable
<1>4. unsure' \in BOOLEAN
  OBVIOUS
<1>5. QED
  BY <1>1, <1>2, <1>3, <1>4 DEF RegistryFits

LEMMA EditorFits ==
    ASSUME EditorType, RegistryFits, NEW w \in Editors, NEW edit, EditFits(edit),
           editor' = [editor EXCEPT ![w] = edit]
    PROVE  \A v \in Editors : EditFits(editor[v])'
<1>1. editor'[w] = edit /\ \A v \in Editors \ {w} : editor'[v] = editor[v]
  BY DEF EditorType
<1>2. ASSUME NEW v \in Editors
      PROVE  EditFits(editor[v])'
  <2>1. PICK e : e = editor'[v] /\ EditFits(e)
    BY <1>1 DEF RegistryFits
  <2>2. EditFits(e)'
    BY <2>1 DEF EditFits, IsTable
  <2>3. QED
    BY <2>1, <2>2
<1>3. QED
  BY <1>2

LEMMA NewEdit ==
    ASSUME NEW key, NEW entry
    PROVE  [NoEdit EXCEPT !.step = "write", !.key = key, !.entry = entry]
             = Edit("write", key, entry, <<>>)
<1>1. [NoEdit EXCEPT !.step = "write"] = Edit("write", Miss.key, NoEntry, <<>>)
  BY DEF NoEdit, Edit
<1>2. [Edit("write", Miss.key, NoEntry, <<>>) EXCEPT !.key = key] = Edit("write", key, NoEntry, <<>>)
  BY DEF Edit
<1>3. [Edit("write", key, NoEntry, <<>>) EXCEPT !.entry = entry] = Edit("write", key, entry, <<>>)
  BY DEF Edit
<1>4. [NoEdit EXCEPT !.step = "write", !.key = key, !.entry = entry]
        = [[[NoEdit EXCEPT !.step = "write"] EXCEPT !.key = key] EXCEPT !.entry = entry]
  OBVIOUS
<1>5. QED
  BY <1>1, <1>2, <1>3, <1>4, Zenon

LEMMA SubmitFits ==
    ASSUME EditorType, RegistryFits, NEW w \in Editors, Submit(w)
    PROVE  RegistryFits'
<1>1. PICK e \in Edits :
         /\ e.price > 0 \/ e.source = "delete"
         /\ editor' = [editor EXCEPT ![w] =
                [NoEdit EXCEPT !.step = "write", !.key = e.key,
                   !.entry = IF e.source = "delete" THEN NoEntry
                             ELSE [price |-> e.price, aliases |-> e.aliases \ {e.key},
                                   source |-> IF e.source = "openrouter" THEN e.source
                                              ELSE "manual"]]]
  BY Zenon DEF Submit
<1>2. PICK entry : entry = IF e.source = "delete" THEN NoEntry
                           ELSE [price |-> e.price, aliases |-> e.aliases \ {e.key},
                                 source |-> IF e.source = "openrouter" THEN e.source ELSE "manual"]
  OBVIOUS
<1>3. entry = NoEntry \/ IsEntry(entry)
  <2>1. CASE e.source = "delete"
    BY <1>2, <2>1
  <2>2. CASE e.source # "delete"
    <3>1. PICK source : entry = [price |-> e.price, aliases |-> e.aliases \ {e.key}, source |-> source]
      BY <1>2, <2>2, Zenon
    <3>2. entry.price = e.price /\ entry.aliases = e.aliases \ {e.key}
      BY <3>1
    <3>3. e.price > 0 /\ e.price \in Nat /\ e.aliases \subseteq Names
      BY <1>1, <2>2, TableFacts
    <3>4. QED
      BY <3>2, <3>3 DEF IsEntry
  <2>3. QED
    BY <2>1, <2>2
<1>4. PICK key : key = e.key
  OBVIOUS
<1>5. PICK edit : edit = Edit("write", key, entry, <<>>)
  OBVIOUS
<1>6. editor' = [editor EXCEPT ![w] = edit]
  BY <1>1, <1>2, <1>4, <1>5, NewEdit, Zenon
<1>7. EditFits(edit)
  <2>1. edit.step = "write" /\ edit.key = key /\ edit.entry = entry
    BY <1>5 DEF Edit
  <2>2. key \in Names
    BY <1>4, TableFacts
  <2>3. QED
    BY <1>3, <2>1, <2>2 DEF EditFits
<1>8. \A v \in Editors : EditFits(editor[v])'
  BY <1>6, <1>7, EditorFits
<1>9. UNCHANGED <<stored, cached, alias, misses, unsure>>
  BY DEF Submit
<1>10. QED
  BY <1>8, <1>9 DEF RegistryFits, IsTable, IndexFits, MissesFit, keys, Owners

LEMMA WriteFits ==
    ASSUME EditorType, RegistryFits, NEW w \in Editors, WriteEntry(w)
    PROVE  RegistryFits'
<1>1. PICK e : e = editor[w] /\ IsEdit(e) /\ EditFits(e) /\ e.step = "write"
  BY DEF EditorType, RegistryFits, WriteEntry
<1>2. PICK key, entry : key = e.key /\ entry = e.entry
  OBVIOUS
<1>3. key \in Names /\ (entry = NoEntry \/ IsEntry(entry))
  BY <1>1, <1>2 DEF EditFits
<1>4. stored' = IF entry = NoEntry THEN [k \in DOMAIN stored \ {key} |-> stored[k]]
                ELSE [k \in DOMAIN stored \cup {key} |-> IF k = key THEN entry ELSE stored[k]]
  BY <1>1, <1>2, Zenon DEF WriteEntry
<1>5. IsTable(stored)'
  <2>1. IsTable(stored)
    BY DEF RegistryFits
  <2>2. CASE entry = NoEntry
    BY <1>4, <2>1, <2>2 DEF IsTable
  <2>3. CASE entry # NoEntry
    BY <1>3, <1>4, <2>1, <2>3 DEF IsTable
  <2>4. QED
    BY <2>2, <2>3
<1>6. PICK edit : EditFits(edit) /\ editor' = [editor EXCEPT ![w] = edit]
  <2>1. editor' = [editor EXCEPT ![w] = [e EXCEPT !.step = "query"]]
    BY <1>1 DEF WriteEntry, EditorType
  <2>2. PICK step, k, n, snap : e = Edit(step, k, n, snap)
    BY <1>1 DEF IsEdit
  <2>3. PICK edit : edit = Edit("query", k, n, snap)
    OBVIOUS
  <2>4. [e EXCEPT !.step = "query"] = edit
    BY <2>2, <2>3 DEF Edit
  <2>5. edit.step = "query"
    BY <2>3 DEF Edit
  <2>6. EditFits(edit)
    BY <2>5 DEF EditFits
  <2>7. QED
    BY <2>1, <2>4, <2>6
<1>7. \A v \in Editors : EditFits(editor[v])'
  BY <1>6, EditorFits
<1>8. UNCHANGED <<cached, alias, misses, unsure>>
  BY DEF WriteEntry
<1>9. QED
  BY <1>5, <1>7, <1>8 DEF RegistryFits, IsTable, IndexFits, MissesFit, keys, Owners

LEMMA ReadFits ==
    ASSUME EditorType, RegistryFits, NEW w \in Editors, ReadTable(w)
    PROVE  RegistryFits'
<1>1. editor' = [editor EXCEPT ![w] = [editor[w] EXCEPT !.step = "install", !.snap = stored]]
  BY DEF ReadTable, EditorType
<1>2. PICK step, key, entry, snap : editor[w] = Edit(step, key, entry, snap)
  BY DEF EditorType, IsEdit
<1>3. PICK edit : edit = Edit("install", key, entry, stored)
  OBVIOUS
<1>4. [editor[w] EXCEPT !.step = "install", !.snap = stored] = edit
  <2>1. [editor[w] EXCEPT !.step = "install"] = Edit("install", key, entry, snap)
    BY <1>2 DEF Edit
  <2>2. [Edit("install", key, entry, snap) EXCEPT !.snap = stored] = edit
    BY <1>3 DEF Edit
  <2>3. [editor[w] EXCEPT !.step = "install", !.snap = stored]
          = [[editor[w] EXCEPT !.step = "install"] EXCEPT !.snap = stored]
    OBVIOUS
  <2>4. QED
    BY <2>1, <2>2, <2>3, Zenon
<1>5. edit.step = "install" /\ edit.snap = stored
  BY <1>3 DEF Edit
<1>6. EditFits(edit)
  BY <1>5 DEF EditFits, RegistryFits
<1>7. \A v \in Editors : EditFits(editor[v])'
  BY <1>1, <1>4, <1>6, EditorFits
<1>8. UNCHANGED <<stored, cached, alias, misses, unsure>>
  BY DEF ReadTable
<1>9. QED
  BY <1>7, <1>8 DEF RegistryFits, IsTable, IndexFits, MissesFit, keys, Owners

LEMMA EditEndFits ==
    ASSUME EditorType, RegistryFits, NEW w \in Editors, InstallTable(w) \/ EditFails(w)
    PROVE  RegistryFits'
<1>1. editor' = [editor EXCEPT ![w] = NoEdit] /\ UNCHANGED <<stored, misses>> /\ unsure' \in BOOLEAN
  BY DEF InstallTable, EditFails
<1>2. EditFits(NoEdit)
  BY DEF EditFits, NoEdit
<1>3. \A v \in Editors : EditFits(editor[v])'
  BY <1>1, <1>2, EditorFits
<1>4. IsTable(stored)' /\ MissesFit'
  BY <1>1 DEF RegistryFits, IsTable, MissesFit
<1>5. CASE InstallTable(w)
  <2>1. PICK table : table = editor[w].snap /\ IsTable(table)
    BY <1>5 DEF InstallTable, RegistryFits, EditFits
  <2>2. Install(table)
    BY <1>5, <2>1 DEF InstallTable
  <2>3. QED
    BY <1>1, <1>3, <1>4, <2>1, <2>2, InstallFits DEF RegistryFits
<1>6. CASE EditFails(w)
  <2>1. UNCHANGED <<cached, alias>>
    BY <1>6 DEF EditFails
  <2>2. IsTable(cached)' /\ IndexFits'
    BY <2>1 DEF RegistryFits, IsTable, IndexFits, keys, Owners
  <2>3. QED
    BY <1>1, <1>3, <1>4, <2>2 DEF RegistryFits
<1>7. QED
  BY <1>5, <1>6

LEMMA MissFits ==
    ASSUME RegistryFits, NEW n \in Names, RecordMiss(n)
    PROVE  RegistryFits'
<1>1. /\ misses' = IF n \in ToSet(misses) THEN misses
                   ELSE Append(IF Len(misses) >= MissLimit THEN Tail(misses) ELSE misses, n)
      /\ UNCHANGED <<stored, cached, alias, editor, unsure>>
  BY Zenon DEF RecordMiss
<1>2. MissesFit /\ MissLimit \in Nat \ {0}
  BY TableFacts DEF RegistryFits
<1>3. MissesFit'
  <2>1. CASE n \in ToSet(misses)
    BY <1>1, <1>2, <2>1 DEF MissesFit
  <2>2. CASE n \notin ToSet(misses)
    <3>1. PICK kept : kept = IF Len(misses) >= MissLimit THEN Tail(misses) ELSE misses
      OBVIOUS
    <3>2. /\ kept \in Seq(Names) /\ Len(kept) \in Nat /\ Len(kept) < MissLimit
          /\ \A i, j \in DOMAIN kept : kept[i] = kept[j] => i = j
          /\ \A i \in DOMAIN kept : kept[i] # n
      <4>1. \A i \in DOMAIN misses : misses[i] # n
        BY <2>2 DEF ToSet
      <4>2. CASE Len(misses) >= MissLimit
        <5>1. kept = Tail(misses) /\ misses # <<>>
          BY <1>2, <3>1, <4>2 DEF MissesFit
        <5>2. /\ kept \in Seq(Names) /\ Len(kept) = Len(misses) - 1
              /\ \A i \in DOMAIN kept : i + 1 \in DOMAIN misses /\ kept[i] = misses[i + 1]
          BY <1>2, <5>1 DEF MissesFit
        <5>3. QED
          BY <1>2, <4>1, <5>2 DEF MissesFit
      <4>3. CASE ~(Len(misses) >= MissLimit)
        BY <1>2, <3>1, <4>1, <4>3 DEF MissesFit
      <4>4. QED
        BY <4>2, <4>3
    <3>3. misses' = Append(kept, n)
      BY <1>1, <2>2, <3>1
    <3>4. QED
      BY <1>2, <3>2, <3>3 DEF MissesFit
  <2>3. QED
    BY <2>1, <2>2
<1>4. QED
  BY <1>1, <1>3 DEF RegistryFits, IsTable, IndexFits, EditFits, keys, Owners

-----------------------------------------------------------------------------
(* One process serves, and memory is empty while none does.                 *)

ServeInv ==
    /\ RegistryFits
    /\ \A p, q \in Procs : pc[p] = "serve" /\ pc[q] = "serve" => p = q
    /\ ~Serving => cached = <<>>

LEMMA ServeStands ==
    ASSUME ServeInv, UNCHANGED registryVars,
           \A p \in Procs : pc'[p] = "serve" <=> pc[p] = "serve"
    PROVE  ServeInv'
<1>1. RegistryFits'
  BY DEF ServeInv, registryVars, RegistryFits, IsTable, IndexFits, MissesFit, EditFits, keys, Owners
<1>2. Serving' <=> Serving
  BY DEF Serving
<1>3. QED
  BY <1>1, <1>2 DEF ServeInv, registryVars

LEMMA ShortServes ==
    ASSUME LifeType, ServeInv, UNCHANGED registryVars, NEW p \in Procs, pc[p] # "serve",
           NEW step, step # "serve", pc' = [pc EXCEPT ![p] = step]
    PROVE  ServeInv'
<1>1. \A q \in Procs : pc'[q] = "serve" <=> pc[q] = "serve"
  BY DEF LifeType
<1>2. QED
  BY <1>1, ServeStands

LEMMA EndServes ==
    ASSUME LifeType, ServeInv, NEW p \in Procs, End(p)
    PROVE  ServeInv'
<1>1. pc' = [pc EXCEPT ![p] = "off"]
  BY EndMoves
<1>2. CASE pc[p] = "serve"
  <2>1. Unload
    BY <1>2, Zenon DEF End
  <2>2. RegistryFits'
    BY <2>1, UnloadFits DEF ServeInv, RegistryFits
  <2>3. \A q \in Procs : pc'[q] # "serve"
    BY <1>1, <1>2 DEF LifeType, ServeInv
  <2>4. QED
    BY <2>1, <2>2, <2>3 DEF ServeInv, Unload
<1>3. CASE pc[p] # "serve"
  <2>1. UNCHANGED registryVars
    BY <1>3, Zenon DEF End
  <2>2. QED
    BY <1>1, <1>3, <2>1, ShortServes
<1>4. QED
  BY <1>2, <1>3

LEMMA BootServes ==
    ASSUME LifeType, ServeInv, NEW p \in Procs, Boot(p)
    PROVE  ServeInv'
<1>1. CASE (Migrate(p) \/ CheckFails(p)) /\ UNCHANGED registryVars
  <2>1. PICK step \in Steps \ {"serve"} :
            pc[p] \notin {"off", "serve"} /\ pc' = [pc EXCEPT ![p] = step]
    BY <1>1, MigrateMoves DEF Boots
  <2>2. QED
    BY <1>1, <2>1, ShortServes
<1>2. CASE Bind(p)
  <2>1. pc[p] = "bind"
    BY <1>2, Zenon DEF Bind
  <2>2. CASE \E q \in Procs : pc[q] = "serve"
    <3>1. /\ pc' = [pc EXCEPT ![p] = "off"]
          /\ stored' = (IF DOMAIN stored = {} THEN Seed ELSE stored)
          /\ unsure' = (unsure \/ stored' # stored)
          /\ UNCHANGED <<cached, alias, editor, misses>>
      BY <1>2, <2>2, Zenon DEF Bind
    <3>2. RegistryFits'
      BY <3>1, SeedFits DEF ServeInv
    <3>3. \A q \in Procs : pc'[q] = "serve" <=> pc[q] = "serve"
      BY <2>1, <3>1 DEF LifeType
    <3>4. Serving' <=> Serving
      BY <3>3 DEF Serving
    <3>5. QED
      BY <3>1, <3>2, <3>3, <3>4 DEF ServeInv
  <2>3. CASE ~\E q \in Procs : pc[q] = "serve"
    <3>1. pc' = [pc EXCEPT ![p] = "serve"] /\ NewRegistry
      BY <1>2, <2>3, Zenon DEF Bind
    <3>2. RegistryFits'
      BY <3>1, NewRegistryFits DEF ServeInv
    <3>3. pc'[p] = "serve" /\ \A q \in Procs : pc'[q] = "serve" => q = p
      BY <2>3, <3>1 DEF LifeType
    <3>4. QED
      BY <3>2, <3>3 DEF ServeInv, Serving
  <2>4. QED
    BY <2>2, <2>3
<1>3. QED
  BY <1>1, <1>2, Zenon DEF Boot

LEMMA CommandServes ==
    ASSUME LifeInv, RunsUsed, ServeInv, NEW s \in Shells, Command(s)
    PROVE  ServeInv'
<1>1. CASE UNCHANGED <<migrationVars, registryVars>>
  BY <1>1, ServeStands DEF migrationVars
<1>2. CASE Kill(s)
  <2>1. CASE Alive(shell[s].pid)
    <3>1. End(shell[s].pid)
      BY <1>2, <2>1, Zenon DEF Kill
    <3>2. shell[s].pid \in Procs
      BY <2>1 DEF Alive, LifeInv, LifeType, ShellType
    <3>3. QED
      BY <3>1, <3>2, EndServes DEF LifeInv
  <2>2. CASE ~Alive(shell[s].pid)
    BY <1>1, <1>2, <2>2, Zenon DEF Kill
  <2>3. QED
    BY <2>1, <2>2
<1>3. CASE Spawn(s)
  <2>1. PICK p \in Procs : Fresh(p) /\ pc' = [pc EXCEPT ![p] = "tables"]
    BY <1>3 DEF Spawn
  <2>2. UNCHANGED registryVars /\ pc[p] = "off"
    BY <1>3, <2>1 DEF Spawn, RunsUsed, Fresh
  <2>3. QED
    BY <2>1, <2>2, ShortServes DEF LifeInv
<1>4. CASE StartCommand(s) \/ StopCommand(s) \/ RestartCommand(s)
  BY <1>1, <1>4, Zenon DEF StartCommand, StopCommand, RestartCommand
<1>5. CASE RemovePID(s) \/ CheckStopped(s) \/ WritePID(s) \/ Watch(s)
  BY <1>1, <1>5, Zenon DEF RemovePID, CheckStopped, WritePID, Watch
<1>6. QED
  BY <1>2, <1>3, <1>4, <1>5, Zenon DEF Command

LEMMA PricingServes ==
    ASSUME EditorType, ServeInv, Pricing
    PROVE  ServeInv'
<1>1. Serving /\ UNCHANGED pc
  BY DEF Pricing, migrationVars
<1>2. RegistryFits
  BY DEF ServeInv
<1>3. CASE \E w \in Editors : Submit(w)
  BY <1>1, <1>2, <1>3, SubmitFits DEF ServeInv, Serving
<1>4. CASE \E w \in Editors : EditStep(w)
  <2>1. RegistryFits'
    BY <1>2, <1>4, WriteFits, ReadFits, EditEndFits, Zenon DEF EditStep
  <2>2. QED
    BY <1>1, <2>1 DEF ServeInv, Serving
<1>5. CASE \E n \in Names : RecordMiss(n)
  BY <1>1, <1>2, <1>5, MissFits DEF ServeInv, Serving
<1>6. QED
  BY <1>3, <1>4, <1>5, Zenon DEF Pricing

LEMMA ServeStep ==
    ASSUME LifeInv, PriceInv, ServeInv, [Next]_vars
    PROVE  ServeInv'
<1>1. ASSUME NEW p \in Procs, ServeByHand(p)
      PROVE  ServeInv'
  <2>1. Fresh(p) /\ UNCHANGED registryVars /\ pc' = [pc EXCEPT ![p] = "tables"]
    BY <1>1 DEF ServeByHand
  <2>2. pc[p] = "off"
    BY <2>1 DEF PriceInv, RunsUsed, Fresh
  <2>3. QED
    BY <2>1, <2>2, ShortServes DEF LifeInv
<1>2. ASSUME NEW p \in Procs, Crash(p)
      PROVE  ServeInv'
  <2>1. End(p)
    BY <1>2, Zenon DEF Crash
  <2>2. QED
    BY <2>1, EndServes DEF LifeInv
<1>3. ASSUME NEW p \in Procs, Boot(p)
      PROVE  ServeInv'
  BY <1>3, BootServes DEF LifeInv
<1>4. ASSUME NEW p \in Procs, Use(p)
      PROVE  ServeInv'
  <2>1. UNCHANGED registryVars
    BY <1>4 DEF Use
  <2>2. pc' = pc
    BY <1>4, UseLeavesSteps
  <2>3. QED
    BY <2>1, <2>2, ServeStands
<1>5. ASSUME NEW s \in Shells, Command(s)
      PROVE  ServeInv'
  BY <1>5, CommandServes DEF PriceInv
<1>6. CASE Pricing
  BY <1>6, PricingServes DEF PriceInv
<1>7. CASE UNCHANGED vars
  BY <1>7, ServeStands DEF vars, migrationVars
<1>8. QED
  BY <1>1, <1>2, <1>3, <1>4, <1>5, <1>6, <1>7, Zenon DEF Next

LEMMA ServeBegins ==
    ASSUME Init
    PROVE  ServeInv
<1>1. /\ pc = [p \in Procs |-> "off"] /\ stored \in {<<>>, Seed}
      /\ cached = <<>> /\ alias = <<>> /\ misses = <<>> /\ unsure = TRUE
      /\ editor = [w \in Editors |-> NoEdit]
  BY DEF Init, MigrationsInit, RegistryInit, Unloaded
<1>2. IsTable(stored) /\ IsTable(cached)
  BY <1>1, TableFacts
<1>3. IndexFits
  <2>1. DOMAIN alias = {}
    BY <1>1
  <2>2. QED
    BY <2>1 DEF IndexFits
<1>4. MissesFit
  BY <1>1, TableFacts DEF MissesFit
<1>5. \A w \in Editors : EditFits(editor[w])
  <2>1. EditFits(NoEdit)
    BY DEF EditFits, NoEdit
  <2>2. QED
    BY <1>1, <2>1
<1>6. \A p \in Procs : pc[p] # "serve"
  BY <1>1
<1>7. QED
  BY <1>1, <1>2, <1>3, <1>4, <1>5, <1>6 DEF ServeInv, RegistryFits

-----------------------------------------------------------------------------
(* What is stored.                                                          *)

DatabaseFits ==
    /\ \A r \in DOMAIN svc : svc[r] \in Clients \cup {""}
    /\ form \in {"absent", "legacy", "current"}
    /\ gaps \subseteq {"failed", "overtaken", "cleared"}

LEMMA ClientsNamed ==
    /\ Default \in Clients /\ Codex \in Clients
    /\ \A r \in Stored : ClientOf[r] \in Clients \cup {""}
BY RowAssumption, Zenon

LEMMA InsertFits ==
    ASSUME DatabaseFits, NEW r, NEW name \in Clients \cup {""}, InsertRow(r, name)
    PROVE  DatabaseFits'
<1>1. /\ svc' = [s \in DOMAIN svc \cup {r} |-> IF s = r THEN name ELSE svc[s]]
      /\ form' = form /\ (gaps' = gaps \/ gaps' = gaps \cup {"overtaken"})
  BY Zenon DEF InsertRow
<1>2. QED
  BY <1>1 DEF DatabaseFits

LEMMA MigrateFits ==
    ASSUME DatabaseFits, NEW p \in Procs, Migrate(p)
    PROVE  DatabaseFits'
<1>1. CASE CreateTables(p)
  <2>1. UNCHANGED <<svc, gaps>> /\ (form' = form \/ form' = "current")
    BY <1>1, Zenon DEF CreateTables
  <2>2. QED
    BY <2>1 DEF DatabaseFits
<1>2. CASE LookForService(p) \/ ImportEnds(p)
  <2>1. UNCHANGED <<svc, form, gaps>>
    BY <1>2, Zenon DEF LookForService, ImportEnds, dbVars
  <2>2. QED
    BY <2>1 DEF DatabaseFits
<1>3. CASE DropLegacyAgg(p) \/ ClearAgg(p)
  <2>1. /\ UNCHANGED svc /\ (form' = form \/ form' = "absent")
        /\ gaps' = gaps \/ gaps' = gaps \cup {"cleared"}
    BY <1>3, Zenon DEF DropLegacyAgg, ClearAgg, Emptied
  <2>2. QED
    BY <2>1 DEF DatabaseFits
<1>4. CASE RecreateAgg(p)
  <2>1. UNCHANGED <<svc, gaps>> /\ (form' = form \/ form' = "current")
    BY <1>4, Zenon DEF RecreateAgg
  <2>2. QED
    BY <2>1 DEF DatabaseFits
<1>5. CASE FillAgg(p) \/ RefillAgg(p)
  <2>1. UNCHANGED <<svc, form>> /\ (gaps' = gaps \/ gaps' = {})
    BY <1>5, Zenon DEF FillAgg, RefillAgg, InsertTotals
  <2>2. QED
    BY <2>1 DEF DatabaseFits
<1>6. CASE StampService(p)
  <2>1. svc' = [r \in DOMAIN svc |-> NormalizeServiceName(svc[r])] /\ UNCHANGED <<form, gaps>>
    BY <1>6, Zenon DEF StampService
  <2>2. QED
    BY <2>1, ClientsNamed DEF DatabaseFits, NormalizeServiceName
<1>7. CASE ImportArchiveRow(p)
  BY <1>7, InsertFits, ClientsNamed, Zenon DEF ImportArchiveRow
<1>8. CASE CheckAgg(p)
  <2>1. UNCHANGED <<svc, form>> /\ (gaps' = gaps \/ gaps' = gaps \ {"failed"})
    BY <1>8, Zenon DEF CheckAgg, dbVars
  <2>2. QED
    BY <2>1 DEF DatabaseFits
<1>9. CASE RebuildAtBoot(p)
  <2>1. UNCHANGED <<svc, form>> /\ gaps' = {}
    BY <1>9, Zenon DEF RebuildAtBoot, RebuildDailyAggregates
  <2>2. QED
    BY <2>1 DEF DatabaseFits
<1>10. QED
  BY <1>1, <1>2, <1>3, <1>4, <1>5, <1>6, <1>7, <1>8, <1>9, Zenon DEF Migrate

LEMMA DatabaseStep ==
    ASSUME DatabaseFits, [Next]_vars
    PROVE  DatabaseFits'
<1>1. CASE UNCHANGED <<svc, form, gaps>>
  BY <1>1 DEF DatabaseFits
<1>2. ASSUME NEW p, End(p)
      PROVE  DatabaseFits'
  BY <1>1, <1>2, Zenon DEF End
<1>3. ASSUME NEW p \in Procs, ServeByHand(p) \/ Crash(p)
      PROVE  DatabaseFits'
  BY <1>1, <1>2, <1>3, Zenon DEF ServeByHand, Crash
<1>4. ASSUME NEW p \in Procs, Boot(p)
      PROVE  DatabaseFits'
  <2>1. CASE CheckFails(p)
    <3>1. UNCHANGED <<svc, form>> /\ gaps' = gaps \cup {"failed"}
      BY <2>1, Zenon DEF CheckFails, dbVars
    <3>2. QED
      BY <3>1 DEF DatabaseFits
  <2>2. CASE Bind(p)
    BY <1>1, <2>2, Zenon DEF Bind
  <2>3. QED
    BY <1>4, <2>1, <2>2, MigrateFits, Zenon DEF Boot
<1>5. ASSUME NEW p \in Procs, Use(p)
      PROVE  DatabaseFits'
  <2>1. ASSUME NEW r \in New, InsertRequest(p, r)
        PROVE  DatabaseFits'
    <3>1. r \in Stored /\ InsertRow(r, ClientOf[r])
      BY <2>1, Zenon DEF InsertRequest, Stored
    <3>2. QED
      BY <3>1, ClientsNamed, InsertFits
  <2>2. CASE RecomputeRebuilds(p)
    <3>1. UNCHANGED <<svc, form>> /\ gaps' = {}
      BY <2>2, Zenon DEF RecomputeRebuilds, RebuildDailyAggregates
    <3>2. QED
      BY <3>1 DEF DatabaseFits
  <2>3. QED
    BY <1>5, <2>1, <2>2, Zenon DEF Use
<1>6. ASSUME NEW s \in Shells, Command(s)
      PROVE  DatabaseFits'
  <2>1. CASE Kill(s)
    <3>1. End(shell[s].pid) \/ UNCHANGED migrationVars
      BY <2>1, Zenon DEF Kill
    <3>2. QED
      BY <1>1, <1>2, <3>1 DEF migrationVars
  <2>2. CASE Spawn(s)
    BY <1>1, <2>2, Zenon DEF Spawn
  <2>3. CASE StartCommand(s) \/ StopCommand(s) \/ RestartCommand(s)
    BY <1>1, <2>3, Zenon DEF StartCommand, StopCommand, RestartCommand, migrationVars
  <2>4. CASE RemovePID(s) \/ CheckStopped(s) \/ WritePID(s) \/ Watch(s)
    BY <1>1, <2>4, Zenon DEF RemovePID, CheckStopped, WritePID, Watch, migrationVars
  <2>5. QED
    BY <1>6, <2>1, <2>2, <2>3, <2>4, Zenon DEF Command
<1>7. CASE Pricing \/ UNCHANGED vars
  BY <1>1, <1>7, Zenon DEF Pricing, vars, migrationVars
<1>8. QED
  BY <1>3, <1>4, <1>5, <1>6, <1>7, Zenon DEF Next

LEMMA DatabaseBegins ==
    ASSUME Init
    PROVE  DatabaseFits
<1>1. /\ \E rows \in SUBSET Old : svc \in [rows -> Clients \cup {""}]
      /\ form \in {"absent", "legacy", "current"} /\ gaps = {}
  BY DEF Init, MigrationsInit, OldDatabase
<1>2. QED
  BY <1>1 DEF DatabaseFits

LEMMA DaemonKeeps == Spec => [](LifeInv /\ PriceInv /\ TotalsInv /\ ServeInv /\ DatabaseFits)
<1>1. Init => TotalsInv
  BY FoundTotals DEF Init
<1>2. QED
  BY <1>1, LifeBegins, LifeStep, PriceBegins, PriceStep, TotalsStep, ServeBegins, ServeStep,
     DatabaseBegins, DatabaseStep, PTL DEF Spec

LEMMA MissesCounted ==
    ASSUME MissesFit
    PROVE  Cardinality(ToSet(misses)) = Len(misses) /\ ToSet(misses) \subseteq Names
<1>1. misses \in Seq(Names) /\ Len(misses) \in Nat /\ DOMAIN misses = 1 .. Len(misses)
  BY DEF MissesFit
<1>2. PICK S, D : S = ToSet(misses) /\ D = 1 .. Len(misses)
  OBVIOUS
<1>3. misses \in Bijection(D, S)
  <2>1. misses \in [D -> S]
    BY <1>1, <1>2 DEF ToSet
  <2>2. \A s \in S : \E i \in D : misses[i] = s
    BY <1>1, <1>2 DEF ToSet
  <2>3. \A i, j \in D : misses[i] = misses[j] => i = j
    BY <1>1, <1>2 DEF MissesFit
  <2>4. QED
    BY <2>1, <2>2, <2>3 DEF Bijection, Injection, Surjection, IsInjective
<1>4. IsFiniteSet(D) /\ Cardinality(D) = Len(misses)
  BY <1>1, <1>2, FS_Interval
<1>5. Cardinality(S) = Cardinality(D)
  <2>1. ExistsBijection(D, S)
    BY <1>3 DEF ExistsBijection
  <2>2. QED
    BY <1>4, <2>1, FS_Bijection, Zenon
<1>6. S \subseteq Names
  BY <1>1, <1>2 DEF ToSet
<1>7. QED
  BY <1>2, <1>4, <1>5, <1>6

\* The types of the daemon's life, the database and the registry; one process
\* serves at most, and the registry is empty while none does (cmdServe,
\* NewRegistry).
THEOREM DaemonTypeCorrect == Spec => []TypeOK
<1>1. LifeInv /\ PriceInv /\ TotalsInv /\ ServeInv /\ DatabaseFits => TypeOK
  <2> SUFFICES ASSUME LifeInv, PriceInv, TotalsInv, ServeInv, DatabaseFits
               PROVE  TypeOK
    OBVIOUS
  <2>1. LifeType
    BY DEF LifeInv
  <2>2. MigrationsTypeOK
    BY <2>1 DEF LifeType, TotalsInv, TotalsType, DatabaseFits, MigrationsTypeOK
  <2>3. RegistryTypeOK
    <3>1. RegistryFits
      BY DEF ServeInv
    <3>2. /\ IsTable(stored) /\ IsTable(cached) /\ IndexFits /\ MissesFit /\ unsure \in BOOLEAN
          /\ \A w \in Editors : EditFits(editor[w])
      BY <3>1, Zenon DEF RegistryFits
    <3>3. \A t \in {stored, cached} : DOMAIN t \subseteq Names /\ \A k \in DOMAIN t : IsEntry(t[k])
      BY <3>2, Zenon DEF IsTable
    <3>4. \A w \in Editors : editor[w].step \in {"idle", "write", "query", "install"}
      BY <3>2, Zenon DEF EditFits
    <3>5. Cardinality(ToSet(misses)) = Len(misses) /\ ToSet(misses) \subseteq Names
      BY <3>2, MissesCounted
    <3>6. Len(misses) <= MissLimit
      BY <3>2 DEF MissesFit
    <3>7. QED
      BY <3>2, <3>3, <3>4, <3>5, <3>6, Zenon DEF RegistryTypeOK, IndexFits
  <2>4. Cardinality({p \in Procs : pc[p] = "serve"}) <= 1
    <3>1. PICK S : S = {p \in Procs : pc[p] = "serve"} /\ (S = {} \/ \E p : S = {p})
      BY DEF ServeInv
    <3>2. Cardinality(S) = 0 \/ Cardinality(S) = 1
      BY <3>1, FS_EmptySet, FS_Singleton
    <3>3. QED
      BY <3>1, <3>2
  <2>5. \A s \in Shells : /\ shell[s].pid \in Procs \cup {Nobody}
                          /\ shell[s].step \in {"idle", "kill", "remove", "check", "spawn", "write", "watch"}
                          /\ shell[s].again \in BOOLEAN
    BY <2>1 DEF LifeType, ShellType, Commands
  <2>6. (\A p \in Procs : pc[p] # "serve") => cached = <<>>
    BY DEF ServeInv, Serving
  <2>7. \A p \in Procs : pc[p] # "off" => p \in used.start \cup used.hand
    BY DEF PriceInv, RunsUsed
  <2>8. QED
    BY <2>1, <2>2, <2>3, <2>4, <2>5, <2>6, <2>7, Zenon DEF TypeOK, LifeType
<1>2. QED
  BY <1>1, DaemonKeeps, PTL

-----------------------------------------------------------------------------
(* What a name's price is.                                                  *)

\* The forms of a name begin with the name itself.
LEMMA FormsBegin ==
    ASSUME NEW n, NEW forms, forms = stripVariants(n)
    PROVE  (\E T : forms \in Seq(T)) /\ forms # <<>> /\ forms[1] = n
<1>1. PICK s, ss : s = Shorter(n) /\ ss = Shorter(Shorter(n))
  OBVIOUS
<1>2. PICK T : T = {n, s, ss}
  OBVIOUS
<1>3. PICK a : a = IF Ends(n, Dates) THEN <<s>> ELSE <<>>
  OBVIOUS
<1>4. PICK b : b = IF Ends(Shorter(n), Dates) THEN <<ss>> ELSE <<>>
  OBVIOUS
<1>5. PICK c : c = IF Ends(n, Tags) THEN <<s>> \o b ELSE <<>>
  OBVIOUS
<1>6. forms = <<n>> \o a \o c
  BY <1>1, <1>3, <1>4, <1>5, Zenon DEF stripVariants
<1>7. a \in Seq(T) /\ b \in Seq(T)
  <2>1. <<s>> \in Seq(T) /\ <<ss>> \in Seq(T) /\ <<>> \in Seq(T)
    BY <1>2
  <2>2. QED
    BY <1>3, <1>4, <2>1, Zenon
<1>8. c \in Seq(T)
  <2>1. <<s>> \o b \in Seq(T) /\ <<>> \in Seq(T)
    BY <1>2, <1>7
  <2>2. QED
    BY <1>5, <2>1, Zenon
<1>9. PICK d : d = <<n>> \o a
  OBVIOUS
<1>10. d \in Seq(T) /\ Len(d) >= 1 /\ d[1] = n
  BY <1>2, <1>7, <1>9
<1>11. forms = d \o c
  BY <1>6, <1>9
<1>12. forms \in Seq(T) /\ Len(forms) >= 1 /\ forms[1] = n
  BY <1>8, <1>10, <1>11
<1>13. QED
  BY <1>12

LEMMA FirstIsFound ==
    ASSUME NEW T, NEW s \in Seq(T), s # <<>>, NEW S, s[1] \in S
    PROVE  {i \in 1..Len(s) : s[i] \in S} # {} /\ Min({i \in 1..Len(s) : s[i] \in S}) = 1
<1>1. PICK I : I = {i \in 1..Len(s) : s[i] \in S}
  OBVIOUS
<1>2. 1 \in I /\ I \in SUBSET Nat /\ \A i \in I : 1 <= i
  BY <1>1
<1>3. Min(I) = 1
  <2>1. PICK m : m = Min(I) /\ m \in I /\ \A y \in I : m <= y
    BY <1>2, NatHasMin
  <2>2. m <= 1 /\ 1 <= m /\ m \in Nat
    BY <1>2, <2>1
  <2>3. QED
    BY <2>1, <2>2
<1>4. QED
  BY <1>1, <1>2, <1>3

LEMMA NoneIsFound ==
    ASSUME NEW T, NEW s \in Seq(T), NEW S, SelectInSeq(s, LAMBDA v : v \in S) # 0
    PROVE  \E i \in DOMAIN s : s[i] \in S
<1>1. PICK I : I = {i \in 1..Len(s) : s[i] \in S}
  OBVIOUS
<1>2. I # {}
  BY <1>1 DEF SelectInSeq
<1>3. QED
  BY <1>1, <1>2

LEMMA ExactLookup ==
    ASSUME NEW n, n \in keys
    PROVE  Lookup(n) = [kind |-> "exact", key |-> n]
<1>1. PICK forms : forms = stripVariants(n)
  OBVIOUS
<1>2. PICK T : forms \in Seq(T) /\ forms # <<>> /\ forms[1] = n
  BY <1>1, FormsBegin
<1>3. SelectInSeq(forms, LAMBDA v : v \in keys) = 1
  BY <1>2, FirstIsFound DEF SelectInSeq
<1>4. QED
  BY <1>1, <1>2, <1>3 DEF Lookup

LEMMA KindsDiffer ==
    ASSUME NEW k
    PROVE  /\ [kind |-> "exact", key |-> k].kind = "exact"
           /\ [kind |-> "alias", key |-> k].kind = "alias"
           /\ [kind |-> "prefix", key |-> k].kind = "prefix"
           /\ [kind |-> "basename", key |-> k].kind = "basename"
           /\ Miss.kind = "miss"
           /\ [kind |-> "exact", key |-> k].key = k
           /\ [kind |-> "alias", key |-> k].key = k
           /\ [kind |-> "basename", key |-> k].key = k
BY DEF Miss

\* A name that is an alias is found as it is spelled.
LEMMA AliasLookup ==
    ASSUME NEW n, n \in DOMAIN alias, Lookup(n).kind = "alias"
    PROVE  Lookup(n).key = alias[n]
<1>1. PICK forms : forms = stripVariants(n)
  OBVIOUS
<1>2. PICK T : forms \in Seq(T) /\ forms # <<>> /\ forms[1] = n
  BY <1>1, FormsBegin
<1>3. PICK known : known = SelectInSeq(forms, LAMBDA v : v \in DOMAIN alias)
  OBVIOUS
<1>4. known = 1
  BY <1>2, <1>3, FirstIsFound DEF SelectInSeq
<1>5. PICK exact : exact = SelectInSeq(forms, LAMBDA v : v \in keys)
  OBVIOUS
<1>6. Lookup(n) = IF exact # 0 THEN [kind |-> "exact", key |-> forms[exact]]
                  ELSE [kind |-> "alias", key |-> alias[forms[known]]]
  <2>1. known # 0
    BY <1>4
  <2>2. QED
    BY <1>1, <1>3, <1>5, <2>1, Zenon DEF Lookup
<1>7. CASE exact # 0
  <2>1. Lookup(n) = [kind |-> "exact", key |-> forms[exact]]
    BY <1>6, <1>7
  <2>2. Lookup(n).kind = "exact"
    BY <2>1
  <2>3. QED
    BY <2>2
<1>8. CASE exact = 0
  <2>1. Lookup(n) = [kind |-> "alias", key |-> alias[n]]
    BY <1>2, <1>4, <1>6, <1>8
  <2>2. QED
    BY <2>1
<1>9. QED
  BY <1>7, <1>8

\* A key of the configuration is found by its own name and, unless a key is
\* spelled like it, by its aliases, whatever the table holds and in whatever
\* order the index was built (rebuildIndexLocked, resolveLocked).
THEOREM DaemonOverridesWin == Spec => []OverridesWin
<1>1. ServeInv => OverridesWin
  <2> SUFFICES ASSUME ServeInv, NEW k \in DOMAIN Overrides
               PROVE  /\ resolveLocked(Lookup(k).key) = Overrides[k]
                      /\ \A a \in Overrides[k].aliases :
                            Lookup(a).kind = "alias" => Lookup(a).key \in Owners(Overrides, a)
    BY DEF OverridesWin
  <2>1. k \in keys
    BY DEF keys
  <2>2. resolveLocked(Lookup(k).key) = Overrides[k]
    <3>1. Lookup(k).key = k
      <4>1. PICK found : found = Lookup(k) /\ found = [kind |-> "exact", key |-> k]
        BY <2>1, ExactLookup
      <4>2. QED
        BY <4>1
    <3>2. QED
      BY <3>1 DEF resolveLocked
  <2>3. ASSUME NEW a \in Overrides[k].aliases, Lookup(a).kind = "alias"
        PROVE  Lookup(a).key \in Owners(Overrides, a)
    <3>1. a \notin keys
      <4>1. SUFFICES ASSUME a \in keys
                     PROVE  FALSE
        OBVIOUS
      <4>2. PICK found : found = Lookup(a) /\ found = [kind |-> "exact", key |-> a]
        BY <4>1, ExactLookup
      <4>3. found.kind = "exact"
        BY <4>2
      <4>4. QED
        BY <2>3, <4>2, <4>3
    <3>2. a \in Names
      <4>1. IsEntry(Overrides[k])
        BY TableFacts DEF IsTable
      <4>2. QED
        BY <4>1 DEF IsEntry
    <3>3. k \in Owners(Overrides, a)
      BY <2>1, <3>1 DEF Owners
    <3>4. IndexFits
      BY DEF ServeInv, RegistryFits
    <3>5. CASE DOMAIN alias = {}
      <4>1. PICK found : found = Lookup(a) /\ found.kind = "alias"
        BY <2>3
      <4>2. SelectInSeq(stripVariants(a), LAMBDA v : v \in DOMAIN alias) = 0
        <5>1. PICK forms : forms = stripVariants(a)
          OBVIOUS
        <5>2. PICK T : forms \in Seq(T)
          BY <5>1, FormsBegin
        <5>3. QED
          BY <3>5, <5>1, <5>2, NoneIsFound
      <4>3. found.kind # "alias"
        BY <4>1, <4>2, KindsDiffer, Zenon DEF Lookup
      <4>4. QED
        BY <4>1, <4>3
    <3>6. CASE a \in DOMAIN alias /\ alias[a] \in Owners(Overrides, a)
      BY <2>3, <3>6, AliasLookup
    <3>7. QED
      BY <3>2, <3>3, <3>4, <3>5, <3>6 DEF IndexFits
  <2>4. QED
    BY <2>2, <2>3
<1>2. QED
  BY <1>1, DaemonKeeps, PTL

\* The names are finitely many, and one is told by its path and its words.
LEMMA NameFacts ==
    /\ IsFiniteSet(Names)
    /\ \A m \in Names : /\ Len(m.path) \in Nat
                        /\ m.path = <<>> <=> Len(m.path) = 0
                        /\ m = [path |-> m.path, words |-> m.words]
<1>1. Alphabet \in Seq(Names) /\ ToSet(Alphabet) = Names /\ \A m \in Names : m \in Name
  BY NameAssumption, Zenon
<1>2. IsFiniteSet(Names)
  <2>1. PICK D : D = 1 .. Len(Alphabet)
    OBVIOUS
  <2>2. IsFiniteSet(D)
    BY <1>1, <2>1, FS_Interval
  <2>3. Alphabet \in Surjection(D, Names)
    BY <1>1, <2>1 DEF ToSet, Surjection
  <2>4. QED
    BY <2>2, <2>3, FS_Surjection
<1>3. QED
  <2> SUFFICES ASSUME NEW m \in Names
               PROVE  /\ Len(m.path) \in Nat
                      /\ m.path = <<>> <=> Len(m.path) = 0
                      /\ m = [path |-> m.path, words |-> m.words]
    BY <1>2
  <2>1. m \in [path: Seq(STRING), words: Seq(STRING)]
    BY <1>1, Zenon DEF Name
  <2>2. QED
    BY <2>1

LEMMA RanksAreNumbers ==
    ASSUME NEW s
    PROVE  DisplayRank(s) \in Nat
<1>1. DisplayRank(s) \in {100, 80, 60, 40, 0}
  BY Zenon DEF DisplayRank
<1>2. QED
  BY <1>1

\* The nearest of a name's providers, when it is one, heads the line.
LEMMA NearestHeads ==
    ASSUME NEW n, IsTable(cached), NEW m \in Family(n),
           \A j \in Family(n) \ {m} : Len(m.path) < Len(j.path)
    PROVE  Heads(n) = {m}
<1>1. keys \subseteq Names
  BY TableFacts DEF keys, IsTable
<1>2. \A j \in Family(n) : Len(j.path) \in Nat
  BY <1>1, NameFacts DEF Family
<1>3. ~repBetter(m, m)
  BY <1>2, RanksAreNumbers DEF repBetter
<1>4. \A j \in Family(n) \ {m} : repBetter(m, j) /\ ~repBetter(j, m)
  BY <1>2 DEF repBetter
<1>5. QED
  BY <1>3, <1>4 DEF Heads

\* ... and answers for the bare name.
LEMMA NearestAnswers ==
    ASSUME NEW n \in Names, IsTable(cached), n.path = <<>>, n \notin keys, NEW m \in Family(n),
           \A j \in Family(n) \ {m} : Len(m.path) < Len(j.path)
    PROVE  (CHOOSE k \in basenameCandidates(n) :
                \A j \in basenameCandidates(n) \ {k} : basenameCandidateLess(k, j)) = m
<1>1. keys \subseteq Names
  BY TableFacts DEF keys, IsTable
<1>2. \A j \in Family(n) : Len(j.path) \in Nat /\ j.path # <<>>
  <2> SUFFICES ASSUME NEW j \in Family(n)
               PROVE  Len(j.path) \in Nat /\ j.path # <<>>
    OBVIOUS
  <2>1. j \in keys /\ j \in Names /\ j.words = n.words
    BY <1>1 DEF Family
  <2>2. /\ Len(j.path) \in Nat
        /\ j = [path |-> j.path, words |-> j.words] /\ n = [path |-> n.path, words |-> n.words]
    BY <2>1, NameFacts, Zenon
  <2>3. j.path # <<>>
    <3> SUFFICES ASSUME j.path = <<>>
                 PROVE  FALSE
      OBVIOUS
    <3>1. j = n
      BY <2>1, <2>2, Zenon
    <3>2. QED
      BY <2>1, <3>1
  <2>4. QED
    BY <2>2, <2>3
<1>3. PICK F : F = Family(n) /\ basenameCandidates(n) = F
  BY <1>2 DEF basenameCandidates, Family
<1>4. \A j \in F \ {m} : basenameCandidateLess(m, j) /\ ~basenameCandidateLess(j, m)
  BY <1>2, <1>3 DEF basenameCandidateLess
<1>5. \A k \in F : (\A j \in F \ {k} : basenameCandidateLess(k, j)) <=> k = m
  BY <1>3, <1>4
<1>6. PICK c : c = CHOOSE k \in F : \A j \in F \ {k} : basenameCandidateLess(k, j)
  OBVIOUS
<1>7. c \in F /\ \A j \in F \ {c} : basenameCandidateLess(c, j)
  BY <1>3, <1>5, <1>6, Zenon
<1>8. c = m
  BY <1>5, <1>7, Zenon
<1>9. QED
  BY <1>3, <1>6, <1>8, Zenon

\* "The price shown is the price actually applied" (registry.go List): a bare
\* name that its own entry or the nearest of its providers answers is priced
\* by the entry that heads its line, if that provider is one.
THEOREM DaemonShownIsApplied == Spec => []ShownIsApplied
<1>1. ServeInv => ShownIsApplied
  <2> SUFFICES ASSUME ServeInv, NEW n \in Names, NEW nearest,
                      nearest = {k \in Family(n) : \A j \in Family(n) : Len(k.path) <= Len(j.path)},
                      n.path = <<>>, Cardinality(nearest) = 1,
                      Lookup(n).kind = "basename" \/ n \in keys
               PROVE  Heads(n) = {Lookup(n).key}
    BY DEF ShownIsApplied
  <2>1. IsTable(cached)
    BY DEF ServeInv, RegistryFits
  <2>2. keys \subseteq Names
    BY <2>1, TableFacts DEF keys, IsTable
  <2>3. \A j \in Family(n) : Len(j.path) \in Nat
    BY <2>2, NameFacts DEF Family
  <2>4. PICK m : nearest = {m}
    <3>1. nearest \subseteq Names
      BY <2>2 DEF Family
    <3>2. IsFiniteSet(nearest)
      BY <3>1, NameFacts, FS_Subset
    <3>3. QED
      BY <3>2, FS_Singleton
  <2>5. m \in Family(n) /\ \A j \in Family(n) \ {m} : Len(m.path) < Len(j.path)
    <3>1. m \in Family(n) /\ \A j \in Family(n) : Len(m.path) <= Len(j.path)
      BY <2>4
    <3>2. ASSUME NEW j \in Family(n) \ {m}
          PROVE  Len(m.path) < Len(j.path)
      <4>1. PICK i \in Family(n) : ~(Len(j.path) <= Len(i.path))
        BY <2>4, <3>2
      <4>2. Len(m.path) <= Len(i.path)
        BY <3>1
      <4>3. QED
        BY <2>3, <3>1, <4>1, <4>2
    <3>3. QED
      BY <3>1, <3>2
  <2>6. Heads(n) = {m}
    BY <2>1, <2>5, NearestHeads
  <2>7. CASE n \in keys
    <3>1. n \in Family(n) /\ Len(n.path) = 0
      BY <2>7, NameFacts DEF Family
    <3>2. n = m
      BY <2>3, <2>5, <3>1
    <3>3. PICK found : found = Lookup(n) /\ found = [kind |-> "exact", key |-> n]
      BY <2>7, ExactLookup
    <3>4. QED
      BY <2>6, <3>2, <3>3
  <2>8. CASE n \notin keys
    <3>1. PICK c : c = CHOOSE k \in basenameCandidates(n) :
                         \A j \in basenameCandidates(n) \ {k} : basenameCandidateLess(k, j)
      OBVIOUS
    <3>2. c = m
      BY <2>1, <2>5, <2>8, <3>1, NearestAnswers
    <3>3. PICK found : found = Lookup(n) /\ found.kind = "basename"
      BY <2>8
    <3>4. found = [kind |-> "basename", key |-> c]
      BY <3>1, <3>3, KindsDiffer, Zenon DEF Lookup
    <3>5. QED
      BY <2>6, <3>2, <3>3, <3>4
  <2>9. QED
    BY <2>7, <2>8
<1>2. QED
  BY <1>1, DaemonKeeps, PTL
=============================================================================
