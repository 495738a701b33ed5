----------------------------- MODULE CostLedger -----------------------------
(***************************************************************************)
(* What a request costs and how that cost is kept: export handlers price a  *)
(* request and write it into api_requests and daily_model_agg; a user edits *)
(* prices; a recompute, started from the dashboard or by the command line   *)
(* tool, walks the stored rows, rewrites the costs that differ in chunks    *)
(* and then rebuilds the totals.                                            *)
(*                                                                          *)
(* Tokens are one number, prices are per token.  A Codex request is stored  *)
(* twice: its anchor inserts the row without tokens, its completion sets    *)
(* tokens and cost (CodexLedger has the details of that).                   *)
(***************************************************************************)
EXTENDS Integers, Sequences, FiniteSets, Functions

CONSTANTS
    Requests,      \* what clients report
    Clients,       \* service names
    ClaudeCode,    \* the client whose own cost is authoritative ...
    ClaudeModels,  \* ... on these models
    Codex,         \* the client whose requests arrive in two records
    Models,
    Trace,         \* the record of a request
    LastDay,       \* local calendar days are 1 .. LastDay
    Midnight,      \* the instant at which a local day begins
    Rates,         \* prices a user may set; 0 stands for a model not priced
    Rate0,         \* the price table to begin with
    Chunk,         \* rows in a transaction of the recompute
    MaxEdits,      \* price edits (bound)
    MaxRecomputes  \* recomputes (bound)

Days == 1 .. LastDay
Report == [at: Nat, client: Clients, model: Models, tokens: Nat, reported: Nat,
           timed: BOOLEAN, session: BOOLEAN]

ASSUME CalendarAssumption ==
    /\ LastDay \in Nat \ {0}
    /\ Midnight \in [1 .. LastDay + 1 -> Nat]
    /\ \A d \in Days : Midnight[d] < Midnight[d + 1]
ASSUME TraceShape ==
    /\ Trace \in [Requests -> Report]
    /\ \A r \in Requests : Midnight[1] <= Trace[r].at /\ Trace[r].at < Midnight[LastDay + 1]
ASSUME PriceAssumption == Rates \subseteq Nat /\ Rate0 \in [Models -> Rates]
ASSUME CostBounds == Chunk \in Nat \ {0} /\ MaxEdits \in Nat /\ MaxRecomputes \in Nat

VARIABLES
    rows,     \* api_requests in id order
    agg,      \* daily_model_agg, by day, client and model
    rate,     \* the price registry
    stage,    \* how far the handler of each request is
    bill,     \* the cost a handler has computed
    job,      \* the recompute
    stale,    \* costs were rewritten and the totals not yet rebuilt
    edits, recomputes

costVars == <<rows, agg, rate, stage, bill, job, stale, edits, recomputes>>

-----------------------------------------------------------------------------
(* Rows and totals.                                                         *)

Row == [req: Requests, tokens: Nat, cost: Nat]
Total == [requests: Nat, tokens: Nat, cost: Nat]
NoUse == [requests |-> 0, tokens |-> 0, cost |-> 0]
Plus(t, u) == [requests |-> t.requests + u.requests,
               tokens |-> t.tokens + u.tokens, cost |-> t.cost + u.cost]

\* The local calendar day of an instant: date(timestamp, 'unixepoch', 'localtime').
DayOf(t) == CHOOSE d \in Days : Midnight[d] <= t /\ t < Midnight[d + 1]

AggKeys == Days \X Clients \X Models
KeyOf(r) == <<DayOf(Trace[r].at), Trace[r].client, Trace[r].model>>

\* SUM and COUNT over a set of rows.
RowTotals(ids) == [requests |-> Cardinality(ids),
                   tokens |-> SumFunction([i \in ids |-> rows[i].tokens]),
                   cost |-> SumFunction([i \in ids |-> rows[i].cost])]

\* The totals as the detail rows have them: INSERT ... SELECT ... GROUP BY.
FromRows == [k \in AggKeys |-> RowTotals({i \in DOMAIN rows : KeyOf(rows[i].req) = k})]

-----------------------------------------------------------------------------
(* Pricing a request.                                                       *)

IsUpstreamAuthoritative(client, model) == client = ClaudeCode /\ model \in ClaudeModels
Calc(r, tokens) == tokens * rate[Trace[r].model]

\* A cost the registry cannot compute leaves the reported one.
CostOf(r) ==
    LET c == Calc(r, Trace[r].tokens)
    IN IF IsUpstreamAuthoritative(Trace[r].client, Trace[r].model) \/ c = 0
       THEN Trace[r].reported ELSE c

IdleJob == [step |-> "idle", snap |-> <<>>, left |-> {}, changes |-> <<>>,
            write |-> FALSE, tool |-> FALSE, prices |-> Rate0, edited |-> FALSE]

CostTypeOK ==
    /\ rows \in Seq(Row)
    /\ agg \in [AggKeys -> Total]
    /\ rate \in [Models -> Rates]
    /\ stage \in [Requests -> {"new", "anchored", "priced", "stored", "told"}]
    /\ bill \in [Requests -> Nat]
    /\ \E ids \in SUBSET DOMAIN rows :
          job \in [step: {"idle", "scan", "apply", "rebuild"}, snap: [ids -> Row],
                  left: SUBSET ids, changes: Seq([id: ids, cost: Nat]),
                  write: BOOLEAN, tool: BOOLEAN, prices: [Models -> Rates], edited: BOOLEAN]
    /\ stale \in BOOLEAN
    /\ edits \in 0 .. MaxEdits /\ recomputes \in 0 .. MaxRecomputes

CostInit ==
    /\ rows = <<>>
    /\ agg = [k \in AggKeys |-> NoUse]
    /\ rate = Rate0
    /\ stage = [r \in Requests |-> "new"]
    /\ bill = [r \in Requests |-> 0]
    /\ job = IdleJob
    /\ stale = FALSE
    /\ edits = 0 /\ recomputes = 0

-----------------------------------------------------------------------------
(* Export handlers.                                                         *)

\* A row and its share of the totals, in one transaction.
InsertRow(r, tokens, cost) ==
    /\ rows' = Append(rows, [req |-> r, tokens |-> tokens, cost |-> cost])
    /\ agg' = [agg EXCEPT ![KeyOf(r)] =
                  Plus(@, [requests |-> 1, tokens |-> tokens, cost |-> cost])]

AnchorRequest(r) ==
    /\ Trace[r].client = Codex /\ stage[r] = "new"
    /\ InsertRow(r, 0, 0)
    /\ stage' = [stage EXCEPT ![r] = "anchored"]
    /\ UNCHANGED <<rate, bill, job, stale, edits, recomputes>>

\* The registry is read before the transaction; a price may change in between.
PriceRequest(r) ==
    /\ stage[r] = IF Trace[r].client = Codex THEN "anchored" ELSE "new"
    /\ bill' = [bill EXCEPT ![r] = CostOf(r)]
    /\ stage' = [stage EXCEPT ![r] = "priced"]
    /\ UNCHANGED <<rows, agg, rate, job, stale, edits, recomputes>>

\* Mutation: the completion is counted as a request of its own.
FinalizeCounted(r) ==
    LET i == CHOOSE n \in DOMAIN rows : rows[n].req = r IN
    /\ rows' = [rows EXCEPT ![i].tokens = Trace[r].tokens, ![i].cost = bill[r]]
    /\ agg' = [agg EXCEPT ![KeyOf(r)] =
                  Plus(@, [requests |-> 1, tokens |-> Trace[r].tokens - rows[i].tokens,
                           cost |-> bill[r] - rows[i].cost])]
\* A completion moves row and totals by the difference to what the row had.
FinalizeRequest(r) ==
    LET i == CHOOSE n \in DOMAIN rows : rows[n].req = r IN
    /\ rows' = [rows EXCEPT ![i].tokens = Trace[r].tokens, ![i].cost = bill[r]]
    /\ agg' = [agg EXCEPT ![KeyOf(r)] =
                  Plus(@, [requests |-> 0, tokens |-> Trace[r].tokens - rows[i].tokens,
                           cost |-> bill[r] - rows[i].cost])]

StoreRequest(r) ==
    /\ stage[r] = "priced"
    /\ IF Trace[r].client = Codex
       THEN FinalizeRequest(r)
       ELSE InsertRow(r, Trace[r].tokens, bill[r])
    /\ stage' = [stage EXCEPT ![r] = "stored"]
    /\ UNCHANGED <<rate, bill, job, stale, edits, recomputes>>

-----------------------------------------------------------------------------
(* Prices and the recompute.                                                *)

\* A user sets a price or removes it.  (edited is a history field.)
EditPrice(m, p) ==
    /\ edits < MaxEdits /\ rate[m] # p
    /\ rate' = [rate EXCEPT ![m] = p]
    /\ edits' = edits + 1
    /\ job' = [job EXCEPT !.edited = TRUE]
    /\ UNCHANGED <<rows, agg, stage, bill, stale, recomputes>>

\* The tool's dates.  The end of its last day is 24 hours after its midnight
\* whatever that day's length (hours, with which the instance counts time).
parseDateRange(from, to) == <<Midnight[from], Midnight[to] + 24>>

\* One SELECT: the rows of the window, by id, as they are when it begins.
Begin(window, write, tool) ==
    /\ job.step = "idle" /\ recomputes < MaxRecomputes
    /\ recomputes' = recomputes + 1
    /\ LET ids == {i \in DOMAIN rows : /\ window[1] <= Trace[rows[i].req].at
                                       /\ Trace[rows[i].req].at < window[2]}
       IN job' = [step |-> "scan", snap |-> [i \in ids |-> rows[i]], left |-> ids, changes |-> <<>>,
                  write |-> write, tool |-> tool, prices |-> rate, edited |-> FALSE]
    /\ UNCHANGED <<rows, agg, rate, stage, bill, stale, edits>>

\* The dashboard's button takes all of history and writes.
StartRecompute == Begin(<<0, Midnight[LastDay + 1]>>, TRUE, FALSE)

\* The tool takes a range of days, may only report, and has a registry of its own.
RunTool == \E from, to \in Days : \E write \in BOOLEAN :
              from <= to /\ Begin(parseDateRange(from, to), write, TRUE)

JobCalc(w) == w.tokens * (IF job.tool THEN job.prices ELSE rate)[Trace[w.req].model]
Repriced(w) == /\ ~IsUpstreamAuthoritative(Trace[w.req].client, Trace[w.req].model)
               /\ w.tokens > 0
               /\ JobCalc(w) > 0

\* The SELECT has no ORDER BY: the rows come in any order.
ScanRow ==
    /\ job.step = "scan"
    /\ \E i \in job.left :
          LET w == job.snap[i]
              c == JobCalc(w)
          IN job' = [job EXCEPT !.left = @ \ {i},
                       !.changes = IF Repriced(w) /\ c # w.cost
                                   THEN Append(@, [id |-> i, cost |-> c]) ELSE @]
    /\ UNCHANGED <<rows, agg, rate, stage, bill, stale, edits, recomputes>>

ScanEnds ==
    /\ job.step = "scan" /\ job.left = {}
    /\ job' = IF job.write
              THEN [job EXCEPT !.step = IF job.changes = <<>> THEN "rebuild" ELSE "apply"]
              ELSE IdleJob
    /\ UNCHANGED <<rows, agg, rate, stage, bill, stale, edits, recomputes>>

\* Mutation: the slice ends one before the chunk's last row.
ChunkShort(changes) == SubSeq(changes, 1, IF Len(changes) <= Chunk THEN Len(changes) ELSE Chunk - 1)
NextChunk(changes) == SubSeq(changes, 1, IF Len(changes) <= Chunk THEN Len(changes) ELSE Chunk)

ApplyChunk ==
    /\ job.step = "apply"
    /\ LET chunk == NextChunk(job.changes)
           rest == SubSeq(job.changes, Chunk + 1, Len(job.changes))
       IN /\ rows' = [i \in DOMAIN rows |->
                        IF \E n \in DOMAIN chunk : chunk[n].id = i
                        THEN [rows[i] EXCEPT !.cost =
                                chunk[CHOOSE n \in DOMAIN chunk : chunk[n].id = i].cost]
                        ELSE rows[i]]
          /\ job' = [job EXCEPT !.changes = rest,
                       !.step = IF rest = <<>> THEN "rebuild" ELSE "apply"]
    /\ stale' = TRUE
    /\ UNCHANGED <<agg, rate, stage, bill, edits, recomputes>>

RebuildAgg ==
    /\ job.step = "rebuild"
    /\ agg' = FromRows
    /\ stale' = FALSE
    /\ job' = IdleJob
    /\ UNCHANGED <<rows, rate, stage, bill, edits, recomputes>>

\* An error of any statement, or the daemon's shutdown, ends the job where it is.
Interrupt ==
    /\ job.step # "idle"
    /\ job' = IdleJob
    /\ UNCHANGED <<rows, agg, rate, stage, bill, stale, edits, recomputes>>

Ingest(r) == AnchorRequest(r) \/ PriceRequest(r) \/ StoreRequest(r)
Recompute == StartRecompute \/ RunTool \/ ScanRow \/ ScanEnds \/ ApplyChunk \/ RebuildAgg \/ Interrupt

-----------------------------------------------------------------------------
(* The recompute keeps its word: once its chunks are written, every row it  *)
(* was to reprice has the cost of the price table, whatever was stored in   *)
(* the meantime, unless a price was edited while it ran (runRecompute,      *)
(* scanTable, applyChanges).                                                *)
RecomputeReprices ==
    job.step = "rebuild" /\ ~job.edited =>
        \A i \in DOMAIN job.snap :
            Repriced(job.snap[i]) => rows[i].cost = JobCalc(job.snap[i])
=============================================================================
