------------------------------ MODULE Dashboard ------------------------------
(***************************************************************************)
(* What the dashboard shows of the cost ledger: the REST queries and their  *)
(* handlers, a client that pages through the request list, and the way a    *)
(* browser learns of a change: the broker's channel of one slot, the event  *)
(* stream, the browser's timer and its refresh.                             *)
(***************************************************************************)
EXTENDS CostLedger, FiniteSetsExt

CONSTANTS
    HourOf,        \* local hour of an instant, 0 .. 23
    MonthOf,       \* the month of a day
    Buckets,       \* bucket sizes of the intraday and rate charts
    MaxSpan,       \* 6 * 24 h: longest distance between the ends of an intraday range
    Minute,        \* the window of the session rate
    Today,         \* the day on which the queries are made
    PageSize,      \* page_size of the client that pages
    MaxVisits      \* reads of the list page by page, and connections (bound)

ASSUME QueryAssumption ==
    /\ Today \in Days /\ PageSize \in Nat \ {0} /\ Buckets \subseteq Nat \ {0}
    /\ MaxSpan \in Nat /\ Minute \in Nat \ {0} /\ MaxVisits \in Nat
    /\ \A r \in Requests : HourOf[Trace[r].at] \in 0 .. 23
    /\ \A d \in Days : MonthOf[d] \in Nat

VARIABLES
    walk,      \* a client reading the request list page by page
    channel,   \* the browser's channel in the broker; "" when empty
    stream,    \* the browser's event stream
    timer,     \* sseRefreshTimer is set
    refresh,   \* a refresh is in flight, and whether its queries were answered
    again,     \* refreshPending
    shown,     \* requests whose figures the browser shows
    owed,      \* requests announced while the browser listened and not yet shown
    visits

browserVars == <<channel, stream, timer, refresh, again, shown, owed>>
webVars == <<walk, visits, browserVars>>
vars == <<costVars, webVars>>

-----------------------------------------------------------------------------
(* Which rows a query reads.                                                *)

\* Mutation: the end of the range 24 hours after its last midnight.
AddDay(from, to) == <<Midnight[from], Midnight[to] + 24>>
localDateRangeToUnix(from, to) == <<Midnight[from], Midnight[to + 1]>>

At(i) == Trace[rows[i].req].at
InRange(from, to, svc) ==
    LET bounds == localDateRangeToUnix(from, to)
    IN {i \in DOMAIN rows : /\ bounds[1] <= At(i) /\ At(i) < bounds[2]
                            /\ Trace[rows[i].req].client \in svc}

AggInRange(from, to, svc) ==
    {k \in DOMAIN agg : k[1] \in from .. to /\ k[2] \in svc /\ agg[k].requests > 0}

AggTotals(keys) == [requests |-> SumFunction([k \in keys |-> agg[k].requests]),
                    tokens |-> SumFunction([k \in keys |-> agg[k].tokens]),
                    cost |-> SumFunction([k \in keys |-> agg[k].cost])]

\* GROUP BY on rows and on totals; group gives each its group.
GroupRows(group) == [g \in Range(group) |-> RowTotals({i \in DOMAIN group : group[i] = g})]
GroupAgg(group) == [g \in Range(group) |-> AggTotals({k \in DOMAIN group : group[k] = g})]

-----------------------------------------------------------------------------
(* The queries.  svc is every client for the pool, Codex for its own tab.   *)

GetDashboardForRange(from, to, svc) == AggTotals(AggInRange(from, to, svc))

GetClientStats(from, to) ==
    GroupRows([i \in InRange(from, to, Clients) |-> Trace[rows[i].req].client])

GetHourOfDayStats(from, to) ==
    GroupRows([i \in InRange(from, to, Clients) |->
                  <<HourOf[At(i)], Trace[rows[i].req].client, Trace[rows[i].req].model>>])

GetDailyStats(from, to) == GroupAgg([k \in AggInRange(from, to, Clients) |-> k[1]])

aggDateExpr(granularity, d) == IF granularity = "month" THEN <<"month", MonthOf[d]>> ELSE <<"day", d>>
GetDailyStatsByModel(from, to, svc, granularity) ==
    GroupAgg([k \in AggInRange(from, to, svc) |-> <<aggDateExpr(granularity, k[1]), k[3]>>])

GetCalendarDays(from, to, svc) == GroupAgg([k \in AggInRange(from, to, svc) |-> k[1]])

GetHourlyStatsByModel(date) ==
    GroupRows([i \in InRange(date, date, Clients) |-> <<HourOf[At(i)], Trace[rows[i].req].model>>])

GetIntradayStatsByModel(from, to, svc, bucket) ==
    GroupRows([i \in InRange(from, to, svc) |->
                  <<At(i) - (At(i) % bucket), Trace[rows[i].req].model>>])

\* Throughput counts requests with a duration only.
Timed(ids) == {i \in ids : Trace[rows[i].req].timed}
GetRateOverTime(from, to, bucket) ==
    GroupRows([i \in Timed(InRange(from, to, Clients)) |->
                  <<At(i) - (At(i) % bucket), Trace[rows[i].req].model>>])
GetDurationStatsByModel(from, to, svc) ==
    GroupRows([i \in Timed(InRange(from, to, svc)) |-> Trace[rows[i].req].model])

InSession(ids) == {i \in ids : Trace[rows[i].req].session}
GetSessionStats(from, to, svc) ==
    GroupRows([i \in InSession(InRange(from, to, svc)) |-> Trace[rows[i].req].client])

\* The latest minute in which the session (here: a client's) was active.
GetSessionRecentMinuteRate(c) ==
    LET own == Timed(InSession({i \in DOMAIN rows : Trace[rows[i].req].client = c}))
        last == Max({At(i) : i \in own})
        start == last - (last % Minute)
    IN IF own = {} THEN {} ELSE {i \in own : start <= At(i) /\ At(i) < start + Minute}

GetDistinctModels(svc) == {k[3] : k \in {k \in DOMAIN agg : agg[k].requests > 0 /\ k[2] \in svc}}

\* ORDER BY timestamp DESC, later rows first among equals; LIMIT and OFFSET
\* take the rows with at least offset and less than offset + limit before them.
Newer(i, j) == At(i) > At(j) \/ (At(i) = At(j) /\ i > j)
Position(i, ids) == Cardinality({j \in ids : Newer(j, i)})
GetRecentRequests(from, to, svc, limit, offset) ==
    LET all == InRange(from, to, svc)
    IN {i \in all : offset <= Position(i, all) /\ Position(i, all) < offset + limit}
CountRecentRequests(from, to, svc) == Cardinality(InRange(from, to, svc))

\* The Codex tab's own queries, on the rows and totals of that client.
GetCodexDashboard(from, to) == GetDashboardForRange(from, to, {Codex})
GetCodexCalendarDays(from, to) == GetCalendarDays(from, to, {Codex})
GetCodexDailyStatsByModel(from, to, g) == GetDailyStatsByModel(from, to, {Codex}, g)
GetCodexSessionStats(from, to) == GetSessionStats(from, to, {Codex})
GetCodexDurationStatsByModel(from, to) == GetDurationStatsByModel(from, to, {Codex})
GetCodexIntradayStatsByModel(from, to, n) == GetIntradayStatsByModel(from, to, {Codex}, n)
GetCodexRecentRequests(from, to, limit, offset) ==
    GetRecentRequests(from, to, {Codex}, limit, offset)

-----------------------------------------------------------------------------
(* The handlers: which range a query asks for, and what it is refused for.  *)

NoDate == 0
BadDate == LastDay + 1
DateParam == 0 .. LastDay + 1
Ranges == {"today", "week", "month", "all"}
Query == [range: Ranges, from: DateParam, to: DateParam]

rangeToFromTo(range) ==
    <<CASE range = "all" -> 1
        [] range = "week" -> Max({1, Today - 6})
        [] range = "month" -> Max({1, Today - 29})
        [] OTHER -> Today, Today>>

\* A date that is given and is none is answered with 400, never replaced.
Rejected(q) == q.from = BadDate \/ q.to = BadDate

\* Each date given replaces its end of the range.
Override(q) == <<IF q.from = NoDate THEN rangeToFromTo(q.range)[1] ELSE q.from,
                 IF q.to = NoDate THEN rangeToFromTo(q.range)[2] ELSE q.to>>
\* Charts over time take both dates or the range.
BothOrRange(q) == IF q.from = NoDate \/ q.to = NoDate THEN rangeToFromTo(q.range) ELSE <<q.from, q.to>>
TooWide(b) == b[2] < b[1] \/ Midnight[b[2]] - Midnight[b[1]] > MaxSpan

\* The figures that the lines of a panel add up to, one line for each group.
\* "Refused" is an answer other than 200.
Refused == [requests |-> -1, tokens |-> 0, cost |-> 0]
Sum(answer) ==
    LET lines == {<<g, answer[g]>> : g \in DOMAIN answer}
    IN [requests |-> SumFunction([l \in lines |-> l[2].requests]),
        tokens |-> SumFunction([l \in lines |-> l[2].tokens]),
        cost |-> SumFunction([l \in lines |-> l[2].cost])]

OverrideAnswer(q, Answer(_, _)) ==
    IF Rejected(q) THEN Refused ELSE Answer(Override(q)[1], Override(q)[2])
ChartAnswer(q, Answer(_, _)) ==
    IF Rejected(q) \/ TooWide(BothOrRange(q)) THEN Refused
    ELSE Answer(BothOrRange(q)[1], BothOrRange(q)[2])

PanelDashboard(q) == OverrideAnswer(q, LAMBDA f, t : GetDashboardForRange(f, t, Clients))
PanelClients(q) == OverrideAnswer(q, LAMBDA f, t : Sum(GetClientStats(f, t)))
PanelHours(q) == OverrideAnswer(q, LAMBDA f, t : Sum(GetHourOfDayStats(f, t)))
PanelCalendar(q) == OverrideAnswer(q, LAMBDA f, t : Sum(GetCalendarDays(f, t, Clients)))
PanelDaily(q, g) == OverrideAnswer(q, LAMBDA f, t : Sum(GetDailyStatsByModel(f, t, Clients, g)))
PanelSessions(q) == OverrideAnswer(q, LAMBDA f, t : Sum(GetSessionStats(f, t, Clients)))
PanelIntraday(q, n) == ChartAnswer(q, LAMBDA f, t : Sum(GetIntradayStatsByModel(f, t, Clients, n)))
PanelRate(q, n) == ChartAnswer(q, LAMBDA f, t : Sum(GetRateOverTime(f, t, n)))
PanelDays(q) == OverrideAnswer(q, LAMBDA f, t : Sum(GetDailyStats(f, t)))
PanelHourly(date) == Sum(GetHourlyStatsByModel(date))
PanelDurations(q) ==
    IF Rejected(q) THEN Refused
    ELSE Sum(GetDurationStatsByModel(BothOrRange(q)[1], BothOrRange(q)[2], Clients))

CodexDashboard(q) == OverrideAnswer(q, GetCodexDashboard)
CodexCalendar(q) == OverrideAnswer(q, LAMBDA f, t : Sum(GetCodexCalendarDays(f, t)))
CodexDaily(q, g) == OverrideAnswer(q, LAMBDA f, t : Sum(GetCodexDailyStatsByModel(f, t, g)))
CodexSessions(q) == OverrideAnswer(q, LAMBDA f, t : Sum(GetCodexSessionStats(f, t)))
CodexDurations(q) == OverrideAnswer(q, LAMBDA f, t : Sum(GetCodexDurationStatsByModel(f, t)))
CodexIntraday(q, n) == ChartAnswer(q, LAMBDA f, t : Sum(GetCodexIntradayStatsByModel(f, t, n)))
CodexRequests(q) ==
    OverrideAnswer(q, LAMBDA f, t : RowTotals(GetCodexRecentRequests(f, t, Len(rows), 0)))
CodexModels == GetDistinctModels({Codex})

-----------------------------------------------------------------------------
NoWalk == [step |-> "off", page |-> 1, total |-> 0, seen |-> {}, had |-> {}, torn |-> FALSE]

TypeOK ==
    /\ CostTypeOK
    /\ walk \in [step: {"off", "next", "counted", "done"}, page: Nat \ {0}, total: Nat,
                 seen: SUBSET Requests, had: SUBSET Requests, torn: BOOLEAN]
    /\ channel \in {"", "claude", "codex"} /\ (channel # "" => stream = "open")
    /\ stream \in {"closed", "greeted", "open"}
    /\ refresh \in {"idle", "asked", "answered"}
    /\ timer \in BOOLEAN /\ again \in BOOLEAN /\ (again => refresh # "idle")
    /\ shown \subseteq Requests /\ owed \subseteq Requests
    /\ visits \in 0 .. MaxVisits

Init ==
    /\ CostInit
    /\ walk = NoWalk
    /\ channel = "" /\ stream = "closed"
    /\ timer = FALSE /\ refresh = "idle" /\ again = FALSE
    /\ shown = {} /\ owed = {}
    /\ visits = 0

-----------------------------------------------------------------------------
(* Paging: a client goes from page to page of the whole list as long as the *)
(* total of the last answer promises another one.  The handler counts and   *)
(* reads in two statements; torn remembers that a row came in between.      *)

Stored == {r \in Requests : stage[r] \in {"stored", "told"}}
Listed == {rows[i].req : i \in DOMAIN rows}

StartWalk ==
    /\ walk.step \in {"off", "done"} /\ visits < MaxVisits
    /\ visits' = visits + 1
    /\ walk' = [NoWalk EXCEPT !.step = "next", !.had = Listed]
    /\ UNCHANGED <<costVars, browserVars>>

CountPage ==
    /\ walk.step = "next"
    /\ walk' = [walk EXCEPT !.step = "counted", !.total = CountRecentRequests(1, LastDay, Clients)]
    /\ UNCHANGED <<costVars, visits, browserVars>>

\* Mutation: the offset counts the page itself.
OffsetByPage(page) == page * PageSize
PageOffset(page) == (page - 1) * PageSize

ReadPage ==
    /\ walk.step = "counted"
    /\ LET page == GetRecentRequests(1, LastDay, Clients, PageSize, PageOffset(walk.page))
       IN walk' = [walk EXCEPT !.seen = @ \cup {rows[i].req : i \in page},
                     !.torn = @ \/ walk.total # CountRecentRequests(1, LastDay, Clients),
                     !.step = IF walk.page * PageSize < walk.total THEN "next" ELSE "done",
                     !.page = @ + 1]
    /\ UNCHANGED <<costVars, visits, browserVars>>

-----------------------------------------------------------------------------
(* The broker, the event stream and the browser.                            *)

\* A handler announces what it stored.  A channel that holds an event is
\* skipped; Codex records are announced under both names, of which a full
\* channel keeps one.
Tags(r) == IF Trace[r].client = Codex THEN {"claude", "codex"} ELSE {"claude"}
\* Mutation: a channel that was removed still gets the event.
NotifyUnsubscribed(tag) ==
    channel' = IF channel = "" THEN tag ELSE channel
NotifySource(tag) ==
    channel' = IF stream = "open" /\ channel = "" THEN tag ELSE channel
Announce(r) ==
    /\ stage[r] = "stored"
    /\ stage' = [stage EXCEPT ![r] = "told"]
    /\ \E tag \in Tags(r) : NotifySource(tag)
    /\ owed' = IF stream = "open" THEN owed \cup {r} ELSE owed
    /\ UNCHANGED <<rows, agg, rate, bill, job, stale, edits, recomputes,
                   walk, visits, stream, timer, refresh, again, shown>>

\* The greeting is written before the channel is registered; the browser
\* takes it for an event.
Greet ==
    /\ stream = "closed" /\ visits < MaxVisits
    /\ stream' = "greeted"
    /\ timer' = TRUE
    /\ visits' = visits + 1
    /\ UNCHANGED <<costVars, walk, channel, refresh, again, shown, owed>>

Subscribe ==
    /\ stream = "greeted"
    /\ stream' = "open"
    /\ UNCHANGED <<costVars, walk, visits, channel, timer, refresh, again, shown, owed>>

PushEvent ==
    /\ stream = "open" /\ channel # ""
    /\ channel' = ""
    /\ timer' = TRUE
    /\ UNCHANGED <<costVars, walk, visits, stream, refresh, again, shown, owed>>

Unsubscribe ==
    /\ stream # "closed"
    /\ stream' = "closed" /\ channel' = "" /\ owed' = {}
    /\ UNCHANGED <<costVars, walk, visits, timer, refresh, again, shown>>

\* Mutation: an event during a refresh is taken to be covered by it.
RefreshUnlessBusy ==
    /\ timer
    /\ timer' = FALSE
    /\ refresh' = IF refresh = "idle" THEN "asked" ELSE refresh
    /\ UNCHANGED <<costVars, walk, visits, channel, stream, again, shown, owed>>
runScheduledRefresh ==
    /\ timer
    /\ timer' = FALSE
    /\ IF refresh = "idle"
       THEN refresh' = "asked" /\ UNCHANGED again
       ELSE again' = TRUE /\ UNCHANGED refresh
    /\ UNCHANGED <<costVars, walk, visits, channel, stream, shown, owed>>

\* The panels read the database some time between question and answer.
AnswerRefresh ==
    /\ refresh = "asked"
    /\ refresh' = "answered"
    /\ shown' = Stored
    /\ owed' = owed \ Stored
    /\ UNCHANGED <<costVars, walk, visits, channel, stream, timer, again>>

EndRefresh ==
    /\ refresh = "answered"
    /\ refresh' = "idle" /\ again' = FALSE
    /\ timer' = (timer \/ again)
    /\ UNCHANGED <<costVars, walk, visits, channel, stream, shown, owed>>

Ledger == (\E r \in Requests : Ingest(r)) \/ (\E m \in Models, p \in Rates : EditPrice(m, p)) \/ Recompute
Paging == StartWalk \/ CountPage \/ ReadPage
Browser == Greet \/ Subscribe \/ PushEvent \/ Unsubscribe
           \/ runScheduledRefresh \/ AnswerRefresh \/ EndRefresh

Next ==
    \/ Ledger /\ UNCHANGED webVars
    \/ Paging
    \/ Browser
    \/ \E r \in Requests : Announce(r)

\* The handler's loop and the browser's timers and queries run to their end.
Fairness == /\ WF_vars(Subscribe) /\ WF_vars(PushEvent)
            /\ WF_vars(runScheduledRefresh) /\ WF_vars(AnswerRefresh) /\ WF_vars(EndRefresh)
Spec == Init /\ [][Next]_vars /\ Fairness

-----------------------------------------------------------------------------
Agree(x, y) == x = Refused \/ y = Refused \/ x = y
\* The whole range by name, and every pair of dates (with which the name plays no
\* part; of a range with one date the panels take different views).
Full == [range: {"all"}, from: {NoDate}, to: {NoDate}]
        \cup {q \in [range: {"today"}, from: Days, to: Days] : q.from <= q.to}

\* A session's latest minute is on the throughput chart, and the list of models
\* is that of the rows though it is read from the totals.
DetailsAgree ==
    /\ \A c \in Clients : \A i \in GetSessionRecentMinuteRate(c) :
          LET chart == GetRateOverTime(DayOf(At(i)), DayOf(At(i)), Minute)
              point == <<At(i) - (At(i) % Minute), Trace[rows[i].req].model>>
          IN point \in DOMAIN chart /\ chart[point].tokens >= rows[i].tokens
    /\ GetDistinctModels(Clients) = {Trace[rows[i].req].model : i \in InRange(1, LastDay, Clients)}
    /\ CodexModels = {Trace[rows[i].req].model : i \in InRange(1, LastDay, {Codex})}

(* However many ways the dashboard slices a range - KPIs, clients, hours,   *)
(* calendar, days or months by model, buckets, throughput, durations - the  *)
(* slices add up to the same figures, on days of any length, though half of *)
(* them read the rows and half the totals, and so do the latest minute of a *)
(* session and the list of models: unless a recompute was cut off before    *)
(* its rebuild (repository.go queries, handler.go).                         *)
PanelsAgree ==
    DetailsAgree /\ (~stale => \A q \in Full :
        LET all == PanelDashboard(q)
            ids == InRange(Override(q)[1], Override(q)[2], Clients)
        IN /\ all = PanelClients(q) /\ all = PanelHours(q) /\ all = PanelCalendar(q)
           /\ \A g \in {"day", "month"} : all = PanelDaily(q, g)
           /\ \A n \in Buckets : Agree(all, PanelIntraday(q, n))
           /\ ids = Timed(ids) => /\ all = PanelDurations(q)
                                  /\ \A n \in Buckets : Agree(all, PanelRate(q, n))
           /\ ids = InSession(ids) => all = PanelSessions(q)
           /\ all = PanelDays(q)
           /\ Override(q)[1] = Override(q)[2] => all = PanelHourly(Override(q)[1]))

(* The Codex tab's panels agree among themselves and with the line of the   *)
(* clients table (codex_repository.go queries, codex_handler.go).           *)
CodexPanelsAgree ==
    ~stale => \A q \in Full :
        LET own == CodexDashboard(q)
            ids == InRange(Override(q)[1], Override(q)[2], {Codex})
            line == GetClientStats(Override(q)[1], Override(q)[2])
        IN /\ own = CodexCalendar(q) /\ own = CodexRequests(q)
           /\ \A g \in {"day", "month"} : own = CodexDaily(q, g)
           /\ \A n \in Buckets : Agree(own, CodexIntraday(q, n))
           /\ ids = Timed(ids) => own = CodexDurations(q)
           /\ ids = InSession(ids) => own = CodexSessions(q)
           /\ own = IF Codex \in DOMAIN line THEN line[Codex] ELSE NoUse

(* A client that turns the pages until the total of the last answer is      *)
(* reached has seen every request that was listed when it began, whatever   *)
(* comes in meanwhile and wherever it sorts, unless a row came in between   *)
(* the two statements of one answer (Requests, GetRecentRequests).          *)
WalkMissesNothing == walk.step = "done" /\ ~walk.torn => walk.had \subseteq walk.seen

(* What was announced to a browser that listens it shows in the end, though *)
(* the channel holds one event, the stream is batched by a timer and a      *)
(* refresh may be in flight (broker.go NotifySource, handler.go Events,     *)
(* sse.js).                                                                 *)
NotifiedIsShown == \A r \in Requests : (r \in owed) ~> (r \notin owed)
=============================================================================
