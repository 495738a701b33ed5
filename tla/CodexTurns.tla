----------------------------- MODULE CodexTurns -----------------------------
(***************************************************************************)
(* How a Codex request gets its time to first token and, over a websocket,  *)
(* its duration: the joins of separate log records with the stored rows,    *)
(* by a tracked row id, by the newest open row in a window, and by a stash  *)
(* of observations that came before their row.  The completion that carries *)
(* tokens is in CodexLedger, and so is the cap of the tracker.              *)
(*                                                                          *)
(* A conversation stands for a conversation and a model; times count        *)
(* minutes, and timings are kept as the records they were measured between. *)
(***************************************************************************)
EXTENDS DshSteps, Sequences, SequencesExt, FiniteSets

CONSTANTS
    SpanAge,     \* 10 min: a lookup, and the window of the newest open row
    TrackAge,    \* 30 min: a tracked request
    TurnWindow,  \* 1 h: a turn's first output after the request
    StashPerKey  \* observations kept of a conversation

ASSUME WindowAssumption ==
    /\ SpanAge \in Nat /\ TrackAge \in Nat /\ TurnWindow \in Nat /\ StashPerKey \in Nat \ {0}

VARIABLES
    rows,        \* api_requests: the record each came from, and its timing
    spans,       \* codexSpanTracker: tracked requests by span id
    stash,       \* turn observations without a row, by conversation
    old          \* observations made more than 10 minutes ago

codexVars == <<rows, spans, stash, old>>

Conv(r) == Trace[r].conv
NoTiming == [ttft |-> NoSpan, duration |-> NoSpan]
Row(r, timing) == [of |-> r, ttft |-> timing.ttft, duration |-> timing.duration]

IsAnchor(i) == Trace[rows[i].of].kind = "codex.api_request"
IsCodex(i) == Trace[rows[i].of].kind \in {"codex.api_request", "codex.websocket_event"}
Failed(i) == Trace[rows[i].of].error
At(i) == Trace[rows[i].of].at
Of(i) == Conv(rows[i].of)

CodexInit ==
    /\ rows = << >> /\ spans = << >> /\ old = {}
    /\ stash = [c \in {Conv(r) : r \in Records} |-> {}]

-----------------------------------------------------------------------------
(* The rows.                                                                *)

\* Row 0 is no row.
Newest(ids) == CHOOSE i \in ids \cup {0} : \A j \in ids : i >= j
Latest(ids) == Newest({i \in ids : \A j \in ids : At(j) <= At(i)})

OpenRows(c, field, since) ==
    {i \in DOMAIN rows : IsCodex(i) /\ Of(i) = c /\ rows[i][field] = NoSpan /\ At(i) >= since}
Fill(i, field, value) ==
    rows' = IF i = 0 THEN rows ELSE [rows EXCEPT ![i][field] = value]

\* The row that is known, whether it is open or not; the newest open one of the
\* last ten minutes when none is known.
UpdateCodexRequestTTFT(row, r, value) ==
    IF value = NoSpan THEN UNCHANGED rows
    ELSE IF row # 0
         THEN Fill(IF rows[row].ttft = NoSpan THEN row ELSE 0, "ttft", value)
         ELSE Fill(Newest({i \in OpenRows(Conv(r), "ttft", Trace[r].at - SpanAge) : ~Failed(i)}),
                   "ttft", value)

Handled(row, r) ==
    row # 0 \/ OpenRows(Conv(r), "duration", Trace[r].at - SpanAge) # {}
UpdateCodexRequestDuration(row, r, value) ==
    IF row # 0
    THEN Fill(IF rows[row].duration = NoSpan THEN row ELSE 0, "duration", value)
    ELSE Fill(Newest(OpenRows(Conv(r), "duration", Trace[r].at - SpanAge)), "duration", value)

\* The turn's first output: the latest anchor before it that is open.
TurnTarget(r) ==
    Latest({i \in OpenRows(Conv(r), "ttft", Trace[r].at - TurnWindow) :
               IsAnchor(i) /\ ~Failed(i) /\ At(i) <= Trace[r].at})
UpdateCodexTurnTTFT(r) == Fill(TurnTarget(r), "ttft", <<r, r>>)

-----------------------------------------------------------------------------
(* The tracker.                                                             *)

\* Tracked under its span id, or under a number when it has none; a second
\* record of a span keeps the row of the first and the earlier start.
recordRequest(r, row) ==
    LET kept == Without(spans, {k \in DOMAIN spans :
                                   Trace[spans[k].start].at < Trace[r].at - TrackAge})
        key == IF Trace[r].span = "" THEN <<"fallback", r>> ELSE <<"span", Trace[r].span>>
        new == IF key \notin DOMAIN kept THEN [row |-> row, start |-> r]
               ELSE [row |-> IF row = 0 THEN kept[key].row ELSE row,
                     start |-> IF Trace[kept[key].start].at < Trace[r].at
                               THEN kept[key].start ELSE r]
    IN spans' = [k \in DOMAIN kept \cup {key} |-> IF k = key THEN new ELSE kept[k]]

Eligible(r) ==
    {k \in DOMAIN spans : LET began == Trace[spans[k].start].at IN
        /\ Conv(spans[k].start) = Conv(r)
        /\ began <= Trace[r].at /\ Trace[r].at - SpanAge <= began}
\* Its own span, or the newest (any of them when several began at once).
lookupRequest(r) ==
    IF Trace[r].span # "" /\ <<"span", Trace[r].span>> \in Eligible(r)
    THEN {spans[<<"span", Trace[r].span>>]}
    ELSE {spans[k] : k \in {k \in Eligible(r) :
            \A l \in Eligible(r) : Trace[spans[l].start].at <= Trace[spans[k].start].at}}

-----------------------------------------------------------------------------
(* The stash: observations of a conversation, numbered as they arrived.     *)

Observed(entries, r) ==
    LET last == CHOOSE n \in {0} \cup {e.nr : e \in entries} : \A e \in entries : n >= e.nr
    IN entries \cup {[of |-> r, nr |-> last + 1]}

\* The young ones, and of these the last few to arrive.
stashTurnTTFT(r) ==
    LET fresh == {e \in Observed(stash[Conv(r)], r) : e.of \notin old}
    IN stash' = [stash EXCEPT ![Conv(r)] =
                    {e \in fresh : Cardinality({f \in fresh : f.nr > e.nr}) < StashPerKey}]

\* Made within the hour after the anchor.
Belongs(o, anchor) == Trace[anchor].at <= Trace[o].at /\ Trace[o].at <= Trace[anchor].at + TurnWindow
Drained(anchor) == {e \in stash[Conv(anchor)] : Belongs(e.of, anchor)}
\* Mutation: what an anchor is given stays in the stash.
DrainKeeping(anchor) == UNCHANGED stash
drainTurnTTFT(anchor) == stash' = [stash EXCEPT ![Conv(anchor)] = @ \ Drained(anchor)]

\* Time passes: what was observed until some moment is now ten minutes old.
Age(observations) ==
    \E r \in observations \ old :
        old' = old \cup {o \in observations : Trace[o].at <= Trace[r].at}
=============================================================================
