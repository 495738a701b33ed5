---------------------------- MODULE PendingTTFT ----------------------------
(***************************************************************************)
(* How a time-to-first-token, which only the trace span of a request        *)
(* carries, reaches the request's row in api_requests, which only its log   *)
(* record creates.  Traces and logs are exported apart and arrive in any    *)
(* order:                                                                   *)
(*                                                                          *)
(*   trace first   the span finds no row and is parked in                   *)
(*                 pending_ttft_spans; the row's insert applies it          *)
(*   log first     the span finds the row and fills it                      *)
(*                                                                          *)
(* A trace handler looks up, updates and parks in statements of their own   *)
(* (autocommit); the insert of a row and the applying of a parked span are  *)
(* one transaction.                                                         *)
(***************************************************************************)
EXTENDS Naturals, FiniteSets

CONSTANTS
    Requests, Spans, Handlers,
    NoTtft,      \* ttft_ms = 0
    Own,         \* a ttft_ms the log record brought itself
    Log,         \* what the log record of a request says
    Trace,       \* what a span says
    Window,      \* 120 s
    MaxCopies,   \* repeated deliveries of a span (bound)
    MaxExpired   \* parked spans swept by the raw-event TTL (bound)

\* A conversation stands for a session and a model.  rid: the record carries
\* the request id; own: the log record carries a ttft_ms.
LogRecord == [conv : STRING, prompt : Nat, at : Nat, rid : BOOLEAN, own : BOOLEAN]
SpanRecord == [of : Requests, end : Nat, rid : BOOLEAN, prompt : BOOLEAN]

ASSUME RecordAssumption ==
    Log \in [Requests -> LogRecord] /\ Trace \in [Spans -> SpanRecord]
ASSUME ValueAssumption == NoTtft # Own /\ NoTtft \notin Spans /\ Own \notin Spans
ASSUME BoundAssumption == Window \in Nat /\ MaxCopies \in Nat /\ MaxExpired \in Nat

VARIABLES
    stored,    \* requests that have a row
    ttft,      \* ttft_ms of each row
    pending,   \* pending_ttft_spans
    job,       \* where each trace handler stands
    sent,      \* deliveries of each span so far
    answered,  \* spans whose export was answered with success
    expired    \* history: spans swept while unprocessed

vars == <<stored, ttft, pending, job, sent, answered, expired>>

Ids == 1 .. (Cardinality(Spans) + MaxCopies)
Parked == [id : Ids, span : Spans, processed : BOOLEAN]
Idle == [step |-> "idle"]
Job == [step : {"byid", "nearest", "loose", "park"}, span : Spans]
       \cup [step : {"fill"}, span : Spans, row : Requests, then : {"loose", "park"}]

TypeOK ==
    /\ stored \subseteq Requests
    /\ ttft \in [Requests -> Spans \cup {NoTtft, Own}]
    /\ pending \subseteq Parked
    /\ job \in [Handlers -> Job \cup {Idle}]
    /\ sent \in [Spans -> Nat]
    /\ answered \subseteq Spans /\ expired \subseteq Spans

Init ==
    /\ stored = {}
    /\ ttft = [r \in Requests |-> NoTtft]
    /\ pending = {}
    /\ job = [h \in Handlers |-> Idle]
    /\ sent = [s \in Spans |-> 0]
    /\ answered = {} /\ expired = {}

-----------------------------------------------------------------------------

Distance(x, y) == IF x < y THEN y - x ELSE x - y
ConvOf(s) == Log[Trace[s].of].conv
InWindow(r, s) == Distance(Log[r].at, Trace[s].end) <= Window

\* Rows a trace handler may fill.
Open == {r \in stored : ttft[r] = NoTtft}

\* ORDER BY ABS(timestamp - end) LIMIT 1
Nearest(rows, s) ==
    {r \in rows : \A q \in rows :
        Distance(Log[r].at, Trace[s].end) <= Distance(Log[q].at, Trace[s].end)}

SamePrompt(s) ==
    {r \in Open : Log[r].conv = ConvOf(s) /\ Log[r].prompt = Log[Trace[s].of].prompt}
SameWindow(s) ==
    {r \in Open : Log[r].conv = ConvOf(s) /\ InWindow(r, s)}

\* Where the handler goes once a level found nothing.
AfterId(s) == IF Trace[s].prompt THEN "nearest" ELSE "loose"

Goto(h, s, step) == job' = [job EXCEPT ![h] = [step |-> step, span |-> s]]

Finish(h, s) ==
    /\ job' = [job EXCEPT ![h] = Idle]
    /\ answered' = answered \cup {s}

-----------------------------------------------------------------------------
(* Trace handlers.                                                          *)

Deliver(h, s) ==
    /\ job[h] = Idle
    /\ \/ sent[s] = 0
       \/ sent[s] = 1 /\ Cardinality({t \in Spans : sent[t] = 2}) < MaxCopies
    /\ sent' = [sent EXCEPT ![s] = @ + 1]
    /\ Goto(h, s, IF Trace[s].rid THEN "byid" ELSE AfterId(s))
    /\ UNCHANGED <<stored, ttft, pending, answered, expired>>

\* BackfillTTFTByRequestID: one guarded UPDATE.
FillById(h) ==
    /\ job[h].step = "byid"
    /\ LET s == job[h].span
           r == Trace[s].of
       IN \/ /\ r \in Open /\ Log[r].rid
             /\ ttft' = [ttft EXCEPT ![r] = s]
             /\ Finish(h, s)
          \/ /\ ~(r \in Open /\ Log[r].rid)
             /\ Goto(h, s, AfterId(s))
             /\ UNCHANGED <<ttft, answered>>
    /\ UNCHANGED <<stored, pending, sent, expired>>

\* The SELECT of BackfillTTFTNearest, then of BackfillTTFTNearestLoose.
Select(h, step, rows, then) ==
    /\ job[h].step = step
    /\ LET s == job[h].span IN
       \/ \E r \in Nearest(rows, s) :
             job' = [job EXCEPT ![h] = [step |-> "fill", span |-> s, row |-> r, then |-> then]]
       \/ rows = {} /\ Goto(h, s, then)
    /\ UNCHANGED <<stored, ttft, pending, sent, answered, expired>>

SelectNearest(h) == job[h] # Idle /\ Select(h, "nearest", SamePrompt(job[h].span), "loose")
SelectLoose(h) == job[h] # Idle /\ Select(h, "loose", SameWindow(job[h].span), "park")

\* Mutation: the UPDATE trusts the SELECT and has no ttft_ms = 0 of its own.
FillSelectedUnguarded(h) ==
    /\ job[h].step = "fill"
    /\ ttft' = [ttft EXCEPT ![job[h].row] = job[h].span]
    /\ Finish(h, job[h].span)
    /\ UNCHANGED <<stored, pending, sent, expired>>

\* Mutation: an UPDATE that hit no row counts as applied.
FillSelectedUnchecked(h) ==
    /\ job[h].step = "fill"
    /\ LET r == job[h].row IN
       ttft' = IF r \in Open THEN [ttft EXCEPT ![r] = job[h].span] ELSE ttft
    /\ Finish(h, job[h].span)
    /\ UNCHANGED <<stored, pending, sent, expired>>

\* The UPDATE of the selected row, if nobody has filled it since.
FillSelected(h) ==
    /\ job[h].step = "fill"
    /\ LET s == job[h].span
           r == job[h].row
       IN \/ /\ r \in Open
             /\ ttft' = [ttft EXCEPT ![r] = s]
             /\ Finish(h, s)
          \/ /\ r \notin Open
             /\ Goto(h, s, job[h].then)
             /\ UNCHANGED <<ttft, answered>>
    /\ UNCHANGED <<stored, pending, sent, expired>>

\* EnqueuePendingTTFTSpan.
Park(h) ==
    /\ job[h].step = "park"
    /\ LET s == job[h].span IN
       /\ \E i \in Ids \ {p.id : p \in pending} :
             /\ \A j \in Ids : j < i => \E p \in pending : p.id = j
             /\ pending' = pending \cup {[id |-> i, span |-> s, processed |-> FALSE]}
       /\ Finish(h, s)
    /\ UNCHANGED <<stored, ttft, sent, expired>>

\* A statement that stays busy, or the end of the daemon: not answered.
Fail(h) ==
    /\ job[h].step # "idle"
    /\ job' = [job EXCEPT ![h] = Idle]
    /\ UNCHANGED <<stored, ttft, pending, sent, answered, expired>>

-----------------------------------------------------------------------------
(* The insert of a row, with applyPendingTTFTForRequestTx.                  *)

Waiting == {p \in pending : ~p.processed}

ParkedById(r) ==
    {p \in Waiting : Log[r].rid /\ Trace[p.span].rid /\ Trace[p.span].of = r}
ParkedInWindow(r) ==
    {p \in Waiting : ConvOf(p.span) = Log[r].conv /\ InWindow(r, p.span)}

\* The request's own span first, else the nearest of the conversation.
Candidates(r) ==
    LET parked == IF ParkedById(r) # {} THEN ParkedById(r) ELSE ParkedInWindow(r) IN
    {p \in parked : \A q \in parked :
        Distance(Log[r].at, Trace[p.span].end) <= Distance(Log[r].at, Trace[q.span].end)}

\* Mutation: the parked span is used, and stays.
TakeKeeping(r, p) ==
    /\ ttft' = [ttft EXCEPT ![r] = p.span]
    /\ pending' = pending

Take(r, p) ==
    /\ ttft' = [ttft EXCEPT ![r] = p.span]
    /\ pending' = (pending \ {p}) \cup {[p EXCEPT !.processed = TRUE]}

\* InsertRequest; an ignored duplicate changes nothing.
InsertRequest(r) ==
    /\ r \notin stored
    /\ stored' = stored \cup {r}
    /\ \/ Log[r].own /\ ttft' = [ttft EXCEPT ![r] = Own] /\ UNCHANGED pending
       \/ /\ ~Log[r].own
          /\ \/ \E p \in Candidates(r) : Take(r, p)
             \/ Candidates(r) = {} /\ UNCHANGED <<ttft, pending>>
    /\ UNCHANGED <<job, sent, answered, expired>>

\* CleanupRaw: processed spans, and those that waited for longer than the TTL.
CleanupRaw ==
    /\ \E old \in SUBSET Waiting :
          /\ Cardinality(expired \cup {p.span : p \in old}) <= MaxExpired
          /\ pending' = Waiting \ old
          /\ expired' = expired \cup {p.span : p \in old}
    /\ UNCHANGED <<stored, ttft, job, sent, answered>>

Next ==
    \/ \E h \in Handlers :
          \/ \E s \in Spans : Deliver(h, s)
          \/ FillById(h) \/ SelectNearest(h) \/ SelectLoose(h) \/ FillSelected(h) \/ Park(h)
          \/ Fail(h)
    \/ \E r \in Requests : InsertRequest(r)
    \/ CleanupRaw

Spec == Init /\ [][Next]_vars

-----------------------------------------------------------------------------
(* Properties.                                                              *)

\* A time to first token, once on a row, is never replaced: not by a span
\* that had selected the row earlier, not by a redelivery, not by a sweep.
FilledStays ==
    [][\A r \in stored : ttft[r] # NoTtft => ttft'[r] = ttft[r]]_vars

\* A span that was delivered once fills at most one row, whichever way it took.
SpanFillsOneRow ==
    \A s \in Spans :
        sent[s] <= 1 => Cardinality({r \in Requests : ttft[r] = s}) <= 1

\* An export is answered only when its span is on a row, waits for one, or has
\* waited for the whole TTL: no interleaving drops it in between.
AnsweredSpanKept ==
    \A s \in answered :
        \/ \E r \in stored : ttft[r] = s
        \/ \E p \in Waiting : p.span = s
        \/ s \in expired

=============================================================================
