----------------------------- MODULE AutoImport -----------------------------
(***************************************************************************)
(* The one-shot import of the frozen codex_* archive at start-up, and the   *)
(* purge of what it brought in, thirty days later (cmd/cc-otel).            *)
(*                                                                          *)
(* The import runs over several boots if it has to: the highest ids of the  *)
(* target tables are recorded before the engine runs, the engine commits    *)
(* batch after batch, and the id ranges (pre, post] it filled are recorded  *)
(* with the marker.  The purge deletes the recorded ranges.  The daemon may *)
(* die between any two commits, and an error lets start-up go on.           *)
(*                                                                          *)
(* The engine itself is the dbmerge pipeline: here a batch is one archive   *)
(* row that the target does not hold yet, in the order of the table plan (a *)
(* larger batch only has fewer points to die at).                           *)
(***************************************************************************)
EXTENDS Naturals, FiniteSets

CONSTANTS
    Plan,            \* the target tables of codexAutoPlan
    Before(_, _),    \* the order in which the engine fills them
    Requests,        \* the one that holds requests: api_requests
    Archive,         \* the archive rows of each table
    Live,            \* not an archive row: what a row of live traffic came from
    PurgeDays,       \* codexAutoPurgeDays
    MaxIds,          \* rows ever inserted into a table (bound)
    MaxDay,          \* last day (bound)
    MaxCrashes, MaxErrors, MaxJumps  \* crashes, start-up errors, clock changes (bounds)

ASSUME PlanAssumption == Requests \in Plan
ASSUME ArchiveAssumption == \A t \in Plan : Live \notin Archive[t]
ASSUME BoundAssumption ==
    /\ PurgeDays \in Nat /\ MaxIds \in Nat \ {0} /\ MaxDay \in Nat
    /\ MaxCrashes \in Nat /\ MaxErrors \in Nat /\ MaxJumps \in Nat

VARIABLES
    table,    \* rows of each target table
    seq,      \* sqlite_sequence: the last id AUTOINCREMENT gave out
    agg,      \* SUM(request_count) of daily_model_agg
    attempt,  \* codex_auto_import_attempt: {} or {the ids before the import}
    marker,   \* codex_auto_import and its ranges: {} or {the marker row}
    phase,    \* how far this boot is; "off" and "serve" between boots
    clock,    \* the machine's calendar day
    today,    \* the calendar day it really is
    exposed,  \* history: rows were written by others while an attempt was open
    crashes, errors, jumps

storeVars == <<table, seq, agg>>
bookVars == <<attempt, marker>>
boundVars == <<crashes, errors, jumps>>
timeVars == <<clock, today>>
vars == <<table, seq, agg, attempt, marker, phase, clock, today, exposed,
          crashes, errors, jumps>>

Ids == 0 .. MaxIds
Days == 0 .. MaxDay

\* by is a history field: who inserted the row.  "claude" and "codex" are live
\* traffic by service, "manual" is the migration button, "auto" the boot import.
Writers == {"claude", "codex", "manual", "auto"}
Row == [id : Ids, src : (UNION {Archive[t] : t \in Plan}) \cup {Live}, by : Writers]

IdRange == [table : Plan, min : Ids, max : Ids]

\* on is a history field: the day it really was when the import ended.
Marker == [day : Days, on : Days, purged : BOOLEAN, ranges : SUBSET IdRange]

TypeOK ==
    /\ table \in [Plan -> SUBSET Row]
    /\ seq \in [Plan -> Ids]
    /\ agg \in Nat
    /\ attempt \subseteq [Plan -> Ids]
    /\ marker \subseteq Marker
    /\ phase \in {"off", "boot", "engine", "rebuild", "flip", "serve"}
    /\ clock \in Days /\ today \in Days
    /\ exposed \in BOOLEAN
    /\ crashes \in 0 .. MaxCrashes /\ errors \in 0 .. MaxErrors /\ jumps \in 0 .. MaxJumps

\* An upgraded machine: the unified tables may hold Claude's rows already.
Init ==
    /\ \E old \in SUBSET Plan :
          /\ table = [t \in Plan |->
                        IF t \in old THEN {[id |-> 1, src |-> Live, by |-> "claude"]} ELSE {}]
          /\ seq = [t \in Plan |-> IF t \in old THEN 1 ELSE 0]
          /\ agg = IF Requests \in old THEN 1 ELSE 0
    /\ attempt = {} /\ marker = {}
    /\ phase = "off"
    /\ clock = 0 /\ today = 0
    /\ exposed = FALSE
    /\ crashes = 0 /\ errors = 0 /\ jumps = 0

-----------------------------------------------------------------------------
(* The tables.                                                              *)

\* COALESCE(MAX(id), 0)
MaxRowId(t, m) ==
    /\ \A x \in table[t] : x.id <= m
    /\ m = 0 \/ \E x \in table[t] : x.id = m

\* Mutation: a primary key without AUTOINCREMENT gives freed ids out again.
InsertReusingIds(t, src, by) ==
    /\ \E m \in Ids :
          /\ MaxRowId(t, m) /\ m < MaxIds
          /\ seq' = [seq EXCEPT ![t] = m + 1]
          /\ table' = [table EXCEPT ![t] = @ \cup {[id |-> m + 1, src |-> src, by |-> by]}]
    /\ agg' = IF t = Requests THEN agg + 1 ELSE agg

\* An AUTOINCREMENT insert; a request is counted in the same transaction.
Insert(t, src, by) ==
    /\ seq[t] < MaxIds
    /\ seq' = [seq EXCEPT ![t] = @ + 1]
    /\ table' = [table EXCEPT ![t] = @ \cup {[id |-> seq[t] + 1, src |-> src, by |-> by]}]
    /\ agg' = IF t = Requests THEN agg + 1 ELSE agg

\* Archive rows the engine would still insert.
Missing(t) == {a \in Archive[t] : \A x \in table[t] : x.src # a}

\* One committed batch: the next table of the plan that lacks archive rows.
Batch(by) ==
    \E t \in Plan : \E a \in Missing(t) :
        /\ \A u \in Plan : Before(u, t) => Missing(u) = {}
        /\ Insert(t, a, by)

-----------------------------------------------------------------------------
(* autoImportCodex.                                                         *)

Boot ==
    /\ phase = "off"
    /\ phase' = "boot"
    /\ UNCHANGED <<storeVars, bookVars, timeVars, exposed, boundVars>>

\* The boundary of the purge: local midnights, thirty days apart.
Due(m) == ~m.purged /\ clock >= m.day + PurgeDays

\* A marker that is young or purged, or no archive at all.
Skip ==
    /\ phase = "boot"
    /\ \/ \E m \in marker : ~Due(m)
       \/ marker = {} /\ \A t \in Plan : Archive[t] = {}
    /\ phase' = "serve"
    /\ UNCHANGED <<storeVars, bookVars, timeVars, exposed, boundVars>>

\* recordAutoImport: the attempt and the marker flip in one transaction.
RecordAutoImport(ranges) ==
    /\ attempt' = {}
    /\ marker' = {[day |-> clock, on |-> today, purged |-> FALSE, ranges |-> ranges]}

\* Mutation: the fast path is taken on a resumed import as well.
AlreadyMigratedAnyway ==
    /\ phase = "boot" /\ marker = {}
    /\ \E t \in Plan : Archive[t] # {}
    /\ Missing(Requests) = {}
    /\ RecordAutoImport({})
    /\ phase' = "serve"
    /\ UNCHANGED <<storeVars, timeVars, exposed, boundVars>>

\* The button was used before: a marker without ranges, no import.
AlreadyMigrated ==
    /\ phase = "boot" /\ marker = {} /\ attempt = {}
    /\ \E t \in Plan : Archive[t] # {}
    /\ Missing(Requests) = {}
    /\ RecordAutoImport({})
    /\ phase' = "serve"
    /\ UNCHANGED <<storeVars, timeVars, exposed, boundVars>>

\* A first import: the ids before it are on disk before the engine starts.
Snapshot ==
    /\ phase = "boot" /\ marker = {} /\ attempt = {}
    /\ Missing(Requests) # {}
    /\ \E pre \in [Plan -> Ids] :
          /\ \A t \in Plan : MaxRowId(t, pre[t])
          /\ attempt' = {pre}
    /\ phase' = "engine"
    /\ UNCHANGED <<storeVars, marker, timeVars, exposed, boundVars>>

\* Mutation: a resumed import takes a snapshot of its own.
ResumeAfresh ==
    /\ phase = "boot" /\ marker = {} /\ attempt # {}
    /\ \E pre \in [Plan -> Ids] :
          /\ \A t \in Plan : MaxRowId(t, pre[t])
          /\ attempt' = {pre}
    /\ phase' = "engine"
    /\ UNCHANGED <<storeVars, marker, timeVars, exposed, boundVars>>

\* An interrupted import goes on, against the ids of its first attempt.
Resume ==
    /\ phase = "boot" /\ marker = {} /\ attempt # {}
    /\ phase' = "engine"
    /\ UNCHANGED <<storeVars, bookVars, timeVars, exposed, boundVars>>

ImportBatch ==
    /\ phase = "engine"
    /\ Batch("auto")
    /\ UNCHANGED <<bookVars, phase, timeVars, exposed, boundVars>>

\* The engine is through: the ranges it filled go with the marker.
FinishImport ==
    /\ phase = "engine"
    /\ \A t \in Plan : Missing(t) = {}
    /\ \E pre \in attempt, post \in [Plan -> Ids] :
          /\ \A t \in Plan : MaxRowId(t, post[t])
          /\ RecordAutoImport({[table |-> t, min |-> pre[t] + 1, max |-> post[t]] :
                                   t \in {u \in Plan : post[u] > pre[u]}})
    /\ phase' = "serve"
    /\ UNCHANGED <<storeVars, timeVars, exposed, boundVars>>

-----------------------------------------------------------------------------
(* autoPurgeImported.                                                       *)

InRange(r, t, x) == r.table = t /\ x.id >= r.min /\ x.id <= r.max

\* Mutation: the last id of a range is left out.
PurgeableShort(m, t) ==
    {x \in table[t] : /\ \E r \in m.ranges : InRange(r, t, x) /\ x.id < r.max
                      /\ t = Requests => x.by # "claude"}

\* Rows the DELETEs take: of api_requests only those of service codex.
Purgeable(m, t) ==
    {x \in table[t] : /\ \E r \in m.ranges : InRange(r, t, x)
                      /\ t = Requests => x.by # "claude"}

\* All DELETEs in one transaction; a marker from the future defers the purge.
Purge ==
    /\ phase = "boot"
    /\ \E m \in marker :
          /\ Due(m)
          /\ m.day <= clock
          /\ table' = [t \in Plan |-> table[t] \ Purgeable(m, t)]
    /\ phase' = "rebuild"
    /\ UNCHANGED <<seq, agg, bookVars, timeVars, exposed, boundVars>>

\* RebuildDailyAggregates.
Rebuild ==
    /\ phase = "rebuild"
    /\ agg' = Cardinality(table[Requests])
    /\ phase' = "flip"
    /\ UNCHANGED <<table, seq, bookVars, timeVars, exposed, boundVars>>

\* Mutation: the marker flips first, the rebuild is left to the next boot.
FlipFirst ==
    /\ phase \in {"rebuild", "flip"}
    /\ marker' = {[m EXCEPT !.purged = TRUE] : m \in marker}
    /\ phase' = "serve"
    /\ UNCHANGED <<storeVars, attempt, timeVars, exposed, boundVars>>

Flip ==
    /\ phase = "flip"
    /\ marker' = {[m EXCEPT !.purged = TRUE] : m \in marker}
    /\ phase' = "serve"
    /\ UNCHANGED <<storeVars, attempt, timeVars, exposed, boundVars>>

-----------------------------------------------------------------------------
(* Around it.                                                               *)

\* Any error of a query, the engine, its check or the rebuild: logged, and the
\* daemon serves.
StartupError ==
    /\ phase \in {"boot", "engine", "rebuild", "flip"}
    /\ errors < MaxErrors
    /\ errors' = errors + 1
    /\ phase' = "serve"
    /\ UNCHANGED <<storeVars, bookVars, timeVars, exposed, crashes, jumps>>

Exposing == exposed' = (exposed \/ attempt # {})

\* A record of live traffic.
LiveInsert ==
    /\ phase = "serve"
    /\ \E t \in Plan, by \in {"claude", "codex"} : Insert(t, Live, by)
    /\ Exposing
    /\ UNCHANGED <<bookVars, phase, timeVars, boundVars>>

\* The migration button: the same engine, while traffic goes on.
ManualBatch ==
    /\ phase = "serve"
    /\ Batch("manual")
    /\ Exposing
    /\ UNCHANGED <<bookVars, phase, timeVars, boundVars>>

\* Retention and the raw-event sweep delete old event rows, never requests.
Prune ==
    /\ phase = "serve"
    /\ \E t \in Plan \ {Requests} : \E x \in table[t] :
          table' = [table EXCEPT ![t] = @ \ {x}]
    /\ UNCHANGED <<seq, agg, bookVars, phase, timeVars, exposed, boundVars>>

\* The daemon is stopped, or dies.
Stop ==
    /\ phase = "serve"
    /\ phase' = "off"
    /\ UNCHANGED <<storeVars, bookVars, timeVars, exposed, boundVars>>

Crash ==
    /\ phase \in {"boot", "engine", "rebuild", "flip"}
    /\ crashes < MaxCrashes
    /\ crashes' = crashes + 1
    /\ phase' = "off"
    /\ UNCHANGED <<storeVars, bookVars, timeVars, exposed, errors, jumps>>

DayPasses ==
    /\ phase \in {"off", "serve"}
    /\ today < MaxDay /\ clock < MaxDay
    /\ today' = today + 1 /\ clock' = clock + 1
    /\ UNCHANGED <<storeVars, bookVars, phase, exposed, boundVars>>

\* A manual clock set, an RTC fault, a restored machine.
ClockJump ==
    /\ phase \in {"off", "serve"}
    /\ jumps < MaxJumps
    /\ jumps' = jumps + 1
    /\ clock' \in Days
    /\ UNCHANGED <<storeVars, bookVars, phase, today, exposed, crashes, errors>>

Next ==
    \/ Boot \/ Skip \/ AlreadyMigrated \/ Snapshot \/ Resume \/ ImportBatch \/ FinishImport
    \/ Purge \/ Rebuild \/ Flip
    \/ StartupError \/ LiveInsert \/ ManualBatch \/ Prune \/ Stop \/ Crash
    \/ DayPasses \/ ClockJump

Spec == Init /\ [][Next]_vars

-----------------------------------------------------------------------------
(* Properties.                                                              *)

\* Whatever crashes and errors an import meets, each row a boot import ever
\* committed is above the snapshot of the open attempt or in a range of the
\* marker: no such row escapes the purge.
AutoRowsTracked ==
    \A t \in Plan : \A x \in table[t] :
        x.by = "auto" =>
            \/ \E pre \in attempt : x.id > pre[t]
            \/ \E m \in marker : \E r \in m.ranges : InRange(r, t, x)

\* A marker that says purged leaves no row of the boot import behind.
PurgedLeavesNoImport ==
    \A m \in marker : m.purged => \A t \in Plan : \A x \in table[t] : x.by # "auto"

\* The request totals may lag behind api_requests only while the purge that
\* caused it is still due to be repeated: the marker never closes over a
\* stale total.
StaleTotalsAreRetried ==
    agg # Cardinality(table[Requests]) => \E m \in marker : ~m.purged

\* The step of a boot that runs the purge.
PurgeStep == phase = "boot" /\ phase' = "rebuild"

\* The purge takes rows of the boot import only, unless the daemon has served
\* with an import attempt still open.
PurgeSparesOthers ==
    [][PurgeStep /\ ~exposed =>
          \A t \in Plan : \A x \in table[t] \ table'[t] : x.by = "auto"]_vars

\* "The purge must NEVER take live rows."
NoLiveRowPurged ==
    [][PurgeStep => \A t \in Plan : \A x \in table[t] \ table'[t] : x.src # Live]_vars

=============================================================================
