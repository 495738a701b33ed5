----------------------------- MODULE CodexLedger -----------------------------
(***************************************************************************)
(* The Codex half of the usage ledger: how one Codex request, reported by   *)
(* two log records that share no identifier on the wire, becomes one row of *)
(* api_requests and one contribution to daily_model_agg.                    *)
(*                                                                          *)
(*   anchor      codex.api_request: inserts the row, tokens still zero,     *)
(*               then remembers the row in the in-memory span tracker       *)
(*   completion  codex.sse_event(response.completed): looks the request up  *)
(*               in the tracker, writes its tokens onto a row, and forgets  *)
(*               the tracker entry                                          *)
(*                                                                          *)
(* Every export call runs in a goroutine of its own, so the handlers        *)
(* interleave at the tracker's lock and at the SQLite transactions; each of *)
(* those is one action here.  SQLite runs one writer at a time and refuses  *)
(* to upgrade a stale snapshot (the code re-runs the transaction), so a     *)
(* transaction that reads and then writes is one atomic step.               *)
(***************************************************************************)
EXTENDS Integers, Sequences, FiniteSets

CONSTANTS
    Requests,      \* the Codex requests clients make
    Handlers,      \* concurrently running export handlers
    Vectors,       \* non-zero token vectors (six counters and the cost)
    NoVec,         \* the all-zero vector of a row that awaits its completion
    Conversations, \* (session_id, model) pairs
    Models,
    ModelOf,       \* the model of a conversation
    Days,
    DayOf(_),      \* local calendar day of an instant
    Trace,         \* what the client reports about each request
    TrackerAge,    \* 10 minutes: how far back a tracker lookup reaches
    SpanTTL,       \* 30 minutes: a tracker entry older than this is evicted
    MaxSpans,      \* codexSpanTrackerMaxEntries
    PendingWindow, \* 1800 s: how far back a pending row is searched
    ReplayBefore,  \* 1860 s: replay window before the completion
    ReplayAfter,   \* 60 s: replay window after the completion
    AnchorFirst,   \* TRUE: a completion is exported after its anchor's answer
    MaxCopies,     \* duplicate deliveries (bound)
    MaxFaults      \* daemon faults and failed transactions (bound)

(***************************************************************************)
(* The client's view of a request: its conversation, the instants at which *)
(* it was sent and completed, its token vector, whether its records carry   *)
(* an OTLP span id (span) and an auth.request_id (rid), and whether the     *)
(* anchor reports a pending successful stream (ok).                         *)
(***************************************************************************)
Report == [conv: Conversations, at: Nat, done: Nat, vec: Vectors,
           span: BOOLEAN, rid: BOOLEAN, ok: BOOLEAN]

ASSUME TraceAssumption == Trace \in [Requests -> Report]
ASSUME ModelAssumption == ModelOf \in [Conversations -> Models]

\* The instants at which rows may be stamped.
Times == {Trace[r].at : r \in Requests} \cup {Trace[r].done : r \in Requests}

ASSUME DayAssumption == \A t \in Times : DayOf(t) \in Days
ASSUME NoVecAssumption == NoVec \notin Vectors
ASSUME WindowAssumption ==
    /\ TrackerAge \in Nat /\ SpanTTL \in Nat /\ MaxSpans \in Nat
    /\ PendingWindow \in Nat /\ ReplayBefore \in Nat /\ ReplayAfter \in Nat
ASSUME BoundAssumption ==
    AnchorFirst \in BOOLEAN /\ MaxCopies \in Nat /\ MaxFaults \in Nat

VARIABLES
    rows,     \* api_requests rows of service codex, in id order
    agg,      \* daily_model_agg: per (day, model), requests and token vectors
    spans,    \* codexSpanTracker.spans
    fallback, \* codexSpanTracker.nextFallback
    job,      \* where each export handler stands
    copies,   \* duplicate deliveries so far
    acked,    \* records whose export was answered
    faults    \* restarts and failed transactions so far

dbVars == <<rows, agg>>
trackerVars == <<spans, fallback>>
netVars == <<copies, acked>>
vars == <<rows, agg, spans, fallback, job, copies, acked, faults>>

-----------------------------------------------------------------------------
(* Rows, tracker entries and handlers.                                      *)

Records == {"anchor", "completion"} \X Requests

\* req is a history field: the request whose record inserted the row.
Row == [conv: Conversations, at: Times, vec: Vectors \cup {NoVec},
        event: {"anchor", "completion"}, req: Requests]

Keys == Days \X Models
KeyOf(row) == <<DayOf(row.at), ModelOf[row.conv]>>

SpanKey(r) == <<"span", r>>
FallbackKey(n) == <<"fallback", n>>
NoKey == <<"none", 0>>
SpanKeys == ({"span"} \X Requests) \cup ({"fallback"} \X Nat)

\* row = 0 is spanInfo.rowID = 0: the anchor was a duplicate of a stored row.
Span == [key: SpanKeys, row: Nat, conv: Conversations, start: Nat]

Idle == [step |-> "idle"]
Job == [step: {"record"}, req: Requests, row: Nat]
       \cup [step: {"apply", "remove"}, req: Requests, row: Nat,
             key: SpanKeys \cup {NoKey}]

TypeOK ==
    /\ rows \in Seq(Row)
    /\ agg \in [Keys -> [requests: Nat, tokens: [Vectors -> Nat]]]
    /\ spans \subseteq Span
    /\ fallback \in Nat
    /\ job \in [Handlers -> Job \cup {Idle}]
    /\ copies \in 0 .. MaxCopies
    /\ acked \subseteq Records
    /\ faults \in 0 .. MaxFaults

Init ==
    /\ rows = <<>>
    /\ agg = [k \in Keys |-> [requests |-> 0, tokens |-> [v \in Vectors |-> 0]]]
    /\ spans = {}
    /\ fallback = 0
    /\ job = [h \in Handlers |-> Idle]
    /\ copies = 0
    /\ acked = {}
    /\ faults = 0

-----------------------------------------------------------------------------
(* The two writes to the database.  Each keeps daily_model_agg in step with *)
(* the row it writes, inside the same transaction.                          *)

AddVec(tokens, v) ==
    [w \in Vectors |-> IF w = v THEN tokens[w] + 1 ELSE tokens[w]]

\* A new row counts as one request and brings its tokens along.
InsertRow(row) ==
    /\ rows' = Append(rows, row)
    /\ agg' = [agg EXCEPT ![KeyOf(row)] =
                  [requests |-> @.requests + 1, tokens |-> AddVec(@.tokens, row.vec)]]

\* Mutation: the token delta lands on the completion's day, not the row's.
FinalizeOnCompletionDay(i, r) ==
    /\ rows' = [rows EXCEPT ![i].vec = Trace[r].vec]
    /\ agg' = [agg EXCEPT ![<<DayOf(Trace[r].done), ModelOf[Trace[r].conv]>>].tokens =
                  AddVec(@, Trace[r].vec)]

\* A completion's tokens land on row i, under the day of the row itself.
FinalizeRow(i, r) ==
    /\ rows' = [rows EXCEPT ![i].vec = Trace[r].vec]
    /\ agg' = [agg EXCEPT ![KeyOf(rows[i])].tokens = AddVec(@, Trace[r].vec)]

-----------------------------------------------------------------------------
(* The span tracker, under its mutex.                                       *)

\* Mutation: only the age eviction is left.
EvictedByAge(start, kept) == kept = {s \in spans : s.start + SpanTTL >= start}

\* Eviction on every recordRequest: by age, then the oldest beyond the cap.
Evicted(start, kept) ==
    LET fresh == {s \in spans : s.start + SpanTTL >= start} IN
    /\ kept \subseteq fresh
    /\ \/ Cardinality(fresh) <= MaxSpans /\ kept = fresh
       \/ /\ Cardinality(fresh) > MaxSpans
          /\ Cardinality(kept) = MaxSpans
          /\ \A s \in kept, t \in fresh \ kept : t.start <= s.start

\* An entry under the same key keeps its row when the new one has none, and
\* the earlier start.
Merge(s, old) ==
    [s EXCEPT !.row = IF s.row = 0 THEN old.row ELSE s.row,
              !.start = IF old.start < s.start THEN old.start ELSE s.start]

RecordRequest(s) ==
    \E kept \in SUBSET spans :
        /\ Evicted(s.start, kept)
        /\ \/ /\ \A t \in kept : t.key # s.key
              /\ spans' = kept \cup {s}
           \/ \E old \in kept :
                 /\ old.key = s.key
                 /\ spans' = (kept \ {old}) \cup {Merge(s, old)}

\* Entries a completion of request r may be matched with.
Eligible(r) ==
    {s \in spans : /\ s.conv = Trace[r].conv
                   /\ s.start <= Trace[r].done
                   /\ s.start + TrackerAge >= Trace[r].done}

\* The entry of the record's own span, else a newest one of the conversation.
Matches(r) ==
    LET exact == {s \in Eligible(r) : Trace[r].span /\ s.key = SpanKey(r)} IN
    IF exact # {} THEN exact
    ELSE {s \in Eligible(r) : \A t \in Eligible(r) : t.start <= s.start}

-----------------------------------------------------------------------------
(* Handlers.                                                                *)

\* A record is being handled: its export has not been answered yet.
InFlight(m) ==
    \E h \in Handlers :
        /\ job[h].step # "idle" /\ job[h].req = m[2]
        /\ (m[1] = "anchor") <=> (job[h].step = "record")

\* At-least-once delivery in any order, one record to an export: a record that
\* fails fails its export (exportResult; of a batch that lands in part, the
\* failed records are given up by contract).  A record that is neither answered nor
\* in flight may always be sent; copies counts the duplicates beyond that.
\* AnchorFirst is a client that does not export a completion before its
\* anchor's export was answered.
Deliver(m) ==
    /\ AnchorFirst /\ m[1] = "completion" => <<"anchor", m[2]>> \in acked
    /\ \/ /\ m \notin acked /\ ~InFlight(m)
          /\ UNCHANGED copies
       \/ /\ m \in acked \/ InFlight(m)
          /\ copies < MaxCopies
          /\ copies' = copies + 1

\* The unique index on a non-empty request_id.
AnchorStored(r) ==
    /\ Trace[r].rid
    /\ \E i \in DOMAIN rows : rows[i].event = "anchor" /\ rows[i].req = r

AnchorRow(r) == [conv |-> Trace[r].conv, at |-> Trace[r].at, vec |-> NoVec,
                 event |-> "anchor", req |-> r]

\* Mutation: an ignored insert reports the connection's last inserted id.
AnchorInsertStaleId(h, r) ==
    /\ job[h] = Idle
    /\ Deliver(<<"anchor", r>>)
    /\ \/ AnchorStored(r) /\ UNCHANGED dbVars
       \/ ~AnchorStored(r) /\ InsertRow(AnchorRow(r))
    /\ job' = [job EXCEPT ![h] = [step |-> "record", req |-> r, row |-> Len(rows')]]
    /\ UNCHANGED <<spans, fallback, acked, faults>>

\* codex.api_request, first half: the insert transaction.
AnchorInsert(h, r) ==
    /\ job[h] = Idle
    /\ Deliver(<<"anchor", r>>)
    /\ \/ /\ AnchorStored(r)
          /\ job' = [job EXCEPT ![h] = [step |-> "record", req |-> r, row |-> 0]]
          /\ UNCHANGED dbVars
       \/ /\ ~AnchorStored(r)
          /\ InsertRow(AnchorRow(r))
          /\ job' = [job EXCEPT ![h] =
                        [step |-> "record", req |-> r, row |-> Len(rows) + 1]]
    /\ UNCHANGED <<spans, fallback, acked, faults>>

\* codex.api_request, second half: a pending stream is tracked under its span
\* id, or under a fresh fallback key when the record has none.
AnchorRecord(h) ==
    /\ job[h].step = "record"
    /\ LET r == job[h].req
           s == [key |-> IF Trace[r].span THEN SpanKey(r) ELSE FallbackKey(fallback + 1),
                 row |-> job[h].row, conv |-> Trace[r].conv, start |-> Trace[r].at]
       IN /\ \/ /\ Trace[r].ok
                /\ RecordRequest(s)
                /\ fallback' = IF Trace[r].span THEN fallback ELSE fallback + 1
             \/ ~Trace[r].ok /\ UNCHANGED trackerVars
          /\ acked' = acked \cup {<<"anchor", r>>}
    /\ job' = [job EXCEPT ![h] = Idle]
    /\ UNCHANGED <<rows, agg, copies, faults>>

\* response.completed, first step: find the request in the tracker.
CompletionLookup(h, r) ==
    /\ job[h] = Idle
    /\ Trace[r].ok
    /\ Deliver(<<"completion", r>>)
    /\ \/ /\ Matches(r) = {}
          /\ job' = [job EXCEPT ![h] =
                        [step |-> "apply", req |-> r, row |-> 0, key |-> NoKey]]
       \/ \E s \in Matches(r) :
             job' = [job EXCEPT ![h] =
                        [step |-> "apply", req |-> r, row |-> s.row, key |-> s.key]]
    /\ UNCHANGED <<rows, agg, spans, fallback, acked, faults>>

\* The pinned row, if it is still a row of this conversation.
Pinned(p, r) == {i \in DOMAIN rows : i = p /\ rows[i].conv = Trace[r].conv}

\* Rows that await a completion of r's conversation, none older than the window.
Pending(r) ==
    {i \in DOMAIN rows : /\ rows[i].conv = Trace[r].conv
                         /\ rows[i].vec = NoVec
                         /\ rows[i].at + PendingWindow >= Trace[r].done}

\* A row of the conversation that already carries these very tokens.
Replayed(r) ==
    \E i \in DOMAIN rows :
        /\ rows[i].conv = Trace[r].conv /\ rows[i].vec = Trace[r].vec
        /\ rows[i].at + ReplayBefore >= Trace[r].done
        /\ rows[i].at <= Trace[r].done + ReplayAfter

OrphanRow(r) == [conv |-> Trace[r].conv, at |-> Trace[r].done, vec |-> Trace[r].vec,
                 event |-> "completion", req |-> r]

\* The identity check and the fallback insert share the transaction.
ReplayOrOrphan(r) ==
    \/ Replayed(r) /\ UNCHANGED dbVars
    \/ ~Replayed(r) /\ InsertRow(OrphanRow(r))

\* Mutation: no replay guard in front of the fallback insert.
OrphanAlways(p, r) ==
    \/ \E i \in Pinned(p, r) : rows[i].vec # NoVec /\ UNCHANGED dbVars
    \/ \E i \in Pinned(p, r) : rows[i].vec = NoVec /\ FinalizeRow(i, r)
    \/ /\ Pinned(p, r) = {}
       /\ \/ \E i \in Pending(r) :
                (\A j \in Pending(r) : j <= i) /\ FinalizeRow(i, r)
          \/ Pending(r) = {} /\ InsertRow(OrphanRow(r))

\* Mutation: the pinned row is written whatever it carries.
PinnedOverwritten(p, r) ==
    \/ \E i \in Pinned(p, r) : FinalizeRow(i, r)
    \/ /\ Pinned(p, r) = {}
       /\ \/ \E i \in Pending(r) :
                (\A j \in Pending(r) : j <= i) /\ FinalizeRow(i, r)
          \/ Pending(r) = {} /\ ReplayOrOrphan(r)

\* Mutation: a pinned row that is gone or foreign ends the update.
NoFallback(p, r) ==
    \/ \E i \in Pinned(p, r) : rows[i].vec # NoVec /\ UNCHANGED dbVars
    \/ \E i \in Pinned(p, r) : rows[i].vec = NoVec /\ FinalizeRow(i, r)
    \/ Pinned(p, r) = {} /\ UNCHANGED dbVars

\* UpdateCodexAPIRequestTokens: the pinned row when it exists (a no-op once it
\* carries tokens), else the newest pending row, else replay check and orphan.
UpdateTokens(p, r) ==
    \/ \E i \in Pinned(p, r) : rows[i].vec # NoVec /\ UNCHANGED dbVars
    \/ \E i \in Pinned(p, r) : rows[i].vec = NoVec /\ FinalizeRow(i, r)
    \/ /\ Pinned(p, r) = {}
       /\ \/ \E i \in Pending(r) :
                (\A j \in Pending(r) : j <= i) /\ FinalizeRow(i, r)
          \/ Pending(r) = {} /\ ReplayOrOrphan(r)

\* response.completed, second step: the transaction.
CompletionApply(h) ==
    /\ job[h].step = "apply"
    /\ UpdateTokens(job[h].row, job[h].req)
    /\ job' = [job EXCEPT ![h].step = "remove"]
    /\ UNCHANGED <<spans, fallback, copies, acked, faults>>

\* Mutation: a failed record is answered like a stored one.
FailureAnswered(h) ==
    /\ job[h].step = "apply"
    /\ faults < MaxFaults
    /\ faults' = faults + 1
    /\ acked' = acked \cup {<<"completion", job[h].req>>}
    /\ job' = [job EXCEPT ![h] = Idle]
    /\ UNCHANGED <<rows, agg, spans, fallback, copies>>

\* The transaction stays busy through all its attempts: the record fails and
\* the tracker entry stays.
CompletionFails(h) ==
    /\ job[h].step = "apply"
    /\ faults < MaxFaults
    /\ faults' = faults + 1
    /\ job' = [job EXCEPT ![h] = Idle]
    /\ UNCHANGED <<rows, agg, spans, fallback, copies, acked>>

\* response.completed, last step: the tracker entry is dropped, the export
\* answered.
CompletionRemove(h) ==
    /\ job[h].step = "remove"
    /\ spans' = {s \in spans : s.key # job[h].key}
    /\ acked' = acked \cup {<<"completion", job[h].req>>}
    /\ job' = [job EXCEPT ![h] = Idle]
    /\ UNCHANGED <<rows, agg, fallback, copies, faults>>

\* The daemon dies and comes back: tracker and handlers are gone, committed
\* transactions stay.
Restart ==
    /\ faults < MaxFaults
    /\ faults' = faults + 1
    /\ spans' = {} /\ fallback' = 0
    /\ job' = [h \in Handlers |-> Idle]
    /\ UNCHANGED <<rows, agg, copies, acked>>

HandlerStep(h) ==
    AnchorRecord(h) \/ CompletionApply(h) \/ CompletionRemove(h)

Next ==
    \/ \E h \in Handlers, r \in Requests : AnchorInsert(h, r) \/ CompletionLookup(h, r)
    \/ \E h \in Handlers : HandlerStep(h) \/ CompletionFails(h)
    \/ Restart

Spec == Init /\ [][Next]_vars

\* Handlers are goroutines that run to their end; exporters retry a record
\* until its export is answered.
Fairness ==
    /\ \A h \in Handlers : WF_vars(HandlerStep(h))
    /\ \A r \in Requests :
          /\ WF_vars(\E h \in Handlers : <<"anchor", r>> \notin acked /\ AnchorInsert(h, r))
          /\ WF_vars(\E h \in Handlers :
                        <<"completion", r>> \notin acked /\ CompletionLookup(h, r))

FairSpec == Spec /\ Fairness

-----------------------------------------------------------------------------
(* Properties under any delivery: lost, duplicated, reordered, restarts.    *)

RowsOf(R, k) == {i \in DOMAIN R : KeyOf(R[i]) = k}
RowsWith(R, k, v) == {i \in RowsOf(R, k) : R[i].vec = v}

\* daily_model_agg, which only ever receives deltas, equals what
\* RebuildDailyAggregates would recompute from api_requests: per day and model
\* the number of rows, and every token vector as often as rows carry it.
AggMatchesRows ==
    \A k \in Keys :
        /\ agg[k].requests = Cardinality(RowsOf(rows, k))
        /\ \A v \in Vectors : agg[k].tokens[v] = Cardinality(RowsWith(rows, k, v))

\* A tracker entry never leads a completion to another conversation's row: the
\* row it names exists, is the anchor of that conversation, and, under a span
\* id, the anchor of that very request.
TrackedRowIsItsAnchor ==
    \A s \in spans :
        s.row # 0 =>
            /\ s.row \in DOMAIN rows
            /\ rows[s.row].event = "anchor" /\ rows[s.row].conv = s.conv
            /\ \A r \in Requests : s.key = SpanKey(r) => rows[s.row].req = r

\* The tracker is bounded by its cap plus the entry just recorded, whatever
\* the clients' clocks say (recordRequest evicts before it inserts).
TrackerBounded == Cardinality(spans) <= MaxSpans + 1

\* What a completion has written stays: no handler rewrites the tokens of a row
\* that carries some, and no row disappears or changes hands.
FinalizedRowsKeep ==
    [][\A i \in DOMAIN rows :
          /\ i \in DOMAIN rows'
          /\ [rows'[i] EXCEPT !.vec = rows[i].vec] = rows[i]
          /\ rows[i].vec # NoVec => rows'[i].vec = rows[i].vec]_rows

-----------------------------------------------------------------------------
(* Properties of the accounting of one request, for the clients that an MC  *)
(* module describes.                                                        *)

\* Replaying a completion is a no-op: its tokens are on at most one row.
CompletionChargedOnce ==
    \A r \in Requests : Cardinality({i \in DOMAIN rows : rows[i].vec = Trace[r].vec}) <= 1

\* Tokens whose export was answered with success are on a row.
AnsweredTokensLanded ==
    \A r \in Requests :
        <<"completion", r>> \in acked => \E i \in DOMAIN rows : rows[i].vec = Trace[r].vec

\* Every successful request's tokens reach the ledger in the end.
TokensLand ==
    \A r \in Requests :
        Trace[r].ok => <>(\E i \in DOMAIN rows : rows[i].vec = Trace[r].vec)

-----------------------------------------------------------------------------
(* The ledger as its readers see it.                                        *)

Ledger == INSTANCE UsageLedger WITH
    VecOf <- [r \in Requests |-> Trace[r].vec],
    counted <- {r \in Requests : \E i \in DOMAIN rows : rows[i].req = r},
    charged <- {r \in Requests : \E i \in DOMAIN rows : rows[i].vec = Trace[r].vec},
    totals <- agg

\* Handlers, tracker, duplicates and restarts together implement the abstract
\* ledger: each step of the code counts one new request, charges one request
\* for the first time, or leaves the daily totals alone.
RefinesUsageLedger == Ledger!Spec

=============================================================================
