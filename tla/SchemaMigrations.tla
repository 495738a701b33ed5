-------------------------- MODULE SchemaMigrations --------------------------
(***************************************************************************)
(* What a starting daemon does to the database before it serves: the steps  *)
(* of runMigrations that touch data, the start-up import of the archive     *)
(* (AutoImport has its details; here it is the rows it brings in and their  *)
(* share of the totals), and the check that rebuilds the totals.            *)
(*                                                                          *)
(* Every step is a statement that commits on its own, the rebuild of main   *)
(* a transaction; the process may die between any two of them.  Two         *)
(* processes may start at once: `serve` takes no lock before it binds.      *)
(***************************************************************************)
EXTENDS Naturals, FiniteSets, FiniteSetsExt

CONSTANTS
    Procs,         \* process ids
    Old, Archive, New,  \* rows of the old database, of the archive, of live traffic
    LastDay,       \* days are 1 .. LastDay
    DayOf,         \* the day of each row
    Clients,       \* service names
    Default,       \* DefaultServiceName
    Codex,
    ClientOf       \* the service a row's record names; "" when it names none

Days == 1 .. LastDay
Stored == Old \cup Archive \cup New

ASSUME RowAssumption ==
    /\ LastDay \in Nat \ {0} /\ Default \in Clients /\ Codex \in Clients /\ "" \notin Clients
    /\ DayOf \in [Stored -> Days]
    /\ ClientOf \in [Stored -> Clients \cup {""}]
    /\ \A r \in Archive : ClientOf[r] = Codex /\ r \notin Old \cup New
    /\ Old \cap New = {} /\ IsFiniteSet(Old)

VARIABLES
    svc,     \* api_requests: the stored rows and their service_name
    form,    \* daily_model_agg: absent, without service_name, as it is now
    count,   \* request_count of daily_model_agg
    pc,      \* how far each process is
    gaps     \* history: why the totals may lack rows

dbVars == <<svc, form, count>>
migrationVars == <<svc, form, count, pc, gaps>>

-----------------------------------------------------------------------------
NormalizeServiceName(name) == IF name = "" THEN Default ELSE name

AggKeys == Days \X Clients
NoTotals == [k \in AggKeys |-> 0]

\* rebuildDailyAggSQL: what the detail rows add up to.
FromRows == [k \in AggKeys |->
    Cardinality({r \in DOMAIN svc : DayOf[r] = k[1] /\ NormalizeServiceName(svc[r]) = k[2]})]

AggDays == {k[1] : k \in {k \in AggKeys : count[k] > 0}}
RowDays == {DayOf[r] : r \in DOMAIN svc}

\* Mutation: the check before older builds' pruning was known.
RebuildIfEmpty == AggDays = {} /\ RowDays # {}
NeedsAggRebuild == RowDays # {} /\ (AggDays = {} \/ Min(AggDays) > Min(RowDays))

Whole == form = "current" /\ count = FromRows

Steps == {"off", "tables", "look", "drop", "create", "fill", "stamp", "clear", "refill",
          "import", "check", "rebuild", "bind", "serve"}

MigrationsTypeOK ==
    /\ DOMAIN svc \subseteq Stored /\ \A r \in DOMAIN svc : svc[r] \in Clients \cup {""}
    /\ form \in {"absent", "legacy", "current"}
    /\ count \in [AggKeys -> Nat] /\ (form # "current" => count = NoTotals)
    /\ pc \in [Procs -> Steps]
    /\ gaps \subseteq {"failed", "overtaken", "cleared"}

\* A new installation or an old one: totals without the service dimension, none
\* at all, or pruned by the retention of an older build; rows without a service.
\* Of totals without the dimension nothing is ever read.
OldDatabase ==
    /\ svc \in UNION {[rows -> Clients \cup {""}] : rows \in SUBSET Old}
    /\ \A r \in DOMAIN svc : svc[r] = ClientOf[r]
    /\ form \in {"absent", "legacy", "current"}
    /\ \E cutoff \in Days : count = [k \in AggKeys |->
           IF form = "current" /\ k[1] >= cutoff THEN FromRows[k] ELSE 0]

MigrationsInit ==
    /\ OldDatabase
    /\ pc = [p \in Procs |-> "off"]
    /\ gaps = {}

-----------------------------------------------------------------------------
(* runMigrations.  An error of a statement ends the process.                *)

Go(p, from, to) == pc[p] = from /\ pc' = [pc EXCEPT ![p] = to]
Dies(p) == pc' = [pc EXCEPT ![p] = "off"]

\* CREATE TABLE IF NOT EXISTS.
CreateTables(p) ==
    /\ Go(p, "tables", "look")
    /\ form' = IF form = "absent" THEN "current" ELSE form
    /\ UNCHANGED <<svc, count, gaps>>

\* Totals without service_name are dropped, recreated and filled.
LookForService(p) ==
    /\ Go(p, "look", IF form = "current" THEN "stamp" ELSE "drop")
    /\ UNCHANGED <<dbVars, gaps>>

\* gaps remembers totals taken from under a process that runs beside.
Emptied(p) ==
    /\ count' = NoTotals
    /\ gaps' = IF \E q \in Procs \ {p} : pc[q] # "off" THEN gaps \cup {"cleared"} ELSE gaps

DropLegacyAgg(p) ==
    /\ Go(p, "drop", "create")
    /\ form' = "absent"
    /\ Emptied(p)
    /\ UNCHANGED svc

RecreateAgg(p) ==
    /\ pc[p] = "create"
    /\ IF form = "absent"
       THEN Go(p, "create", "fill") /\ form' = "current"
       ELSE Dies(p) /\ UNCHANGED form
    /\ UNCHANGED <<svc, count, gaps>>

\* A plain INSERT: it fails on a total that is there already.
InsertTotals(p, from, to) ==
    /\ pc[p] = from
    /\ IF form = "current" /\ \A k \in AggKeys : FromRows[k] = 0 \/ count[k] = 0
       THEN /\ Go(p, from, to)
            /\ count' = [k \in AggKeys |-> count[k] + FromRows[k]]
            /\ gaps' = {}
       ELSE Dies(p) /\ UNCHANGED <<count, gaps>>
    /\ UNCHANGED <<svc, form>>

FillAgg(p) == InsertTotals(p, "fill", "stamp")

\* Rows without a service become the default client's; if there were any, the
\* totals are deleted and filled anew.
StampService(p) ==
    /\ Go(p, "stamp", IF \E r \in DOMAIN svc : svc[r] = "" THEN "clear" ELSE "import")
    /\ svc' = [r \in DOMAIN svc |-> NormalizeServiceName(svc[r])]
    /\ UNCHANGED <<form, count, gaps>>

ClearAgg(p) ==
    /\ Go(p, "clear", "refill")
    /\ Emptied(p)
    /\ UNCHANGED <<svc, form>>

RefillAgg(p) == InsertTotals(p, "refill", "import")

-----------------------------------------------------------------------------
(* cmdServe, up to the listeners.                                           *)

\* A row and its share of the totals in one transaction.  gaps remembers
\* totals that lacked rows and from now on look as if they did not.
InsertRow(r, name) ==
    LET k == <<DayOf[r], NormalizeServiceName(name)>> IN
    /\ form = "current"
    /\ svc' = [s \in DOMAIN svc \cup {r} |-> IF s = r THEN name ELSE svc[s]]
    /\ count' = [count EXCEPT ![k] = @ + 1]
    /\ gaps' = IF ~Whole /\ ~NeedsAggRebuild' THEN gaps \cup {"overtaken"} ELSE gaps
    /\ UNCHANGED form

ImportArchiveRow(p) ==
    /\ pc[p] = "import"
    /\ \E r \in Archive \ DOMAIN svc : InsertRow(r, Codex)
    /\ UNCHANGED pc

\* Done, or given up after an error: start-up goes on.
ImportEnds(p) ==
    /\ Go(p, "import", "check")
    /\ UNCHANGED <<dbVars, gaps>>

CheckAgg(p) ==
    /\ form = "current"
    /\ Go(p, "check", IF NeedsAggRebuild THEN "rebuild" ELSE "bind")
    /\ gaps' = IF NeedsAggRebuild THEN gaps ELSE gaps \ {"failed"}
    /\ UNCHANGED dbVars

RebuildDailyAggregates ==
    /\ form = "current"
    /\ count' = FromRows
    /\ gaps' = {}
    /\ UNCHANGED <<svc, form>>

RebuildAtBoot(p) == Go(p, "rebuild", "bind") /\ RebuildDailyAggregates

\* An error of the check or of the rebuild is logged, and the daemon serves.
CheckFails(p) ==
    /\ pc[p] \in {"check", "rebuild"}
    /\ pc' = [pc EXCEPT ![p] = "bind"]
    /\ gaps' = gaps \cup {"failed"}
    /\ UNCHANGED dbVars

Migrate(p) ==
    \/ CreateTables(p) \/ LookForService(p) \/ DropLegacyAgg(p) \/ RecreateAgg(p) \/ FillAgg(p)
    \/ StampService(p) \/ ClearAgg(p) \/ RefillAgg(p)
    \/ ImportArchiveRow(p) \/ ImportEnds(p) \/ CheckAgg(p) \/ RebuildAtBoot(p)

-----------------------------------------------------------------------------
(* While a process serves.                                                  *)

\* The row keeps the name as it came, the total has it normalized.
InsertRequest(p, r) ==
    /\ pc[p] = "serve" /\ r \in New \ DOMAIN svc
    /\ InsertRow(r, ClientOf[r])
    /\ UNCHANGED pc

\* The rebuild that ends a recompute.
RecomputeRebuilds(p) ==
    /\ pc[p] = "serve"
    /\ RebuildDailyAggregates
    /\ UNCHANGED pc

-----------------------------------------------------------------------------
(* Whatever database it found, however often it was killed on the way and   *)
(* however many processes started beside it: a daemon that serves, with no  *)
(* other starting up, has totals that are what the rows add up to.  Three   *)
(* things can spoil that: the check or the rebuild at start-up failed; rows *)
(* were counted into totals that lacked others and hid the gap from the     *)
(* check; a process emptied them while another ran beside it, and died      *)
(* (runMigrations, autoImportCodex before NeedsAggRebuild).                 *)
ServedTotalsWhole ==
    /\ \E p \in Procs : pc[p] = "serve"
    /\ \A p \in Procs : pc[p] \in {"off", "serve"}
    /\ gaps = {}
    => Whole
=============================================================================
