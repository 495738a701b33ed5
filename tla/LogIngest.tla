----------------------------- MODULE LogIngest ------------------------------
(***************************************************************************)
(* The export handlers of the log receiver, and of the trace receiver for   *)
(* the spans it turns into log records (opencode.go): an export is a batch  *)
(* of records, worked off one by one beside other exports, and what its     *)
(* answer tells the client: whether to send it again.                       *)
(*                                                                          *)
(* Clients send an export until it is answered, again after an error, and   *)
(* again after an answer that got lost.  Clocks agree to five minutes, so   *)
(* no record is stamped anew at arrival, and every record that has an       *)
(* identity carries it.                                                     *)
(***************************************************************************)
EXTENDS CodexTurns

CONSTANTS
    Exports,    \* each export: a sequence of records
    Scenarios,  \* sets of exports that are sent in one behaviour
    Handlers,
    Nobody,     \* no export
    MaxFaults   \* failures of a statement, lost answers, restarts (bound)

ASSUME ExportAssumption ==
    /\ \A x \in DOMAIN Exports : Exports[x] \in Seq(Records) /\ Exports[x] # << >>
    /\ Scenarios \subseteq SUBSET DOMAIN Exports
    /\ Nobody \notin DOMAIN Exports /\ MaxFaults \in Nat

\* A record is one log record of one export.
ASSUME ApartAssumption ==
    \A x, y \in DOMAIN Exports : \A m \in DOMAIN Exports[x], n \in DOMAIN Exports[y] :
        Exports[x][m] = Exports[y][n] => x = y /\ m = n

VARIABLES
    todo,       \* exports clients have (still, or again) to send
    job,        \* what each handler does
    answered,   \* exports answered as stored in full
    lost,       \* how often each export was cut off or its answer lost
    faults

exportVars == <<todo, answered, lost, faults>>
vars == <<dshVars, codexVars, todo, job, answered, lost, faults>>

Idle == [export |-> Nobody, pos |-> 1, step |-> "record", failed |-> 0,
         row |-> 0, due |-> {}, timing |-> NoTiming, found |-> NoRecord]

Init ==
    /\ StepsInit /\ CodexInit
    /\ todo \in Scenarios
    /\ job = [h \in Handlers |-> Idle]
    /\ answered = {}
    /\ lost = [x \in DOMAIN Exports |-> 0]
    /\ faults = 0

-----------------------------------------------------------------------------
Batch(h) == Exports[job[h].export]
Rec(h) == Batch(h)[job[h].pos]
Busy(h) == job[h].export # Nobody /\ job[h].pos <= Len(Batch(h))
Begins(h, kinds) == Busy(h) /\ job[h].step = "record" /\ Trace[Rec(h)].kind \in kinds
Reached(h, step) == Busy(h) /\ job[h].step = step

\* The handler's next record; a statement that failed counts against this one.
Done(h, failed) ==
    job' = [job EXCEPT ![h] = [Idle EXCEPT !.export = job[h].export, !.pos = job[h].pos + 1,
                                           !.failed = job[h].failed + (IF failed THEN 1 ELSE 0)]]
On(h, step, row) == job' = [job EXCEPT ![h].step = step, ![h].row = row]

Fault == faults < MaxFaults /\ faults' = faults + 1

\* Mutation: a record whose statement failed is taken for handled.
FailsUnnoticed(h) == Done(h, FALSE)
Fails(h) == Done(h, TRUE)

-----------------------------------------------------------------------------
(* Requests and events.                                                     *)

Message(r) == Trace[r].kind = "assistant/message"
RequestID(r) == IF Message(r) THEN dshRequestID(r) ELSE Trace[r].id

\* What clients number: a session's records in a format generation, all others
\* by an id of their own, if they have one.
ASSUME IdentityAssumption ==
    \A r, q \in Records : r # q =>
        /\ Message(r) /\ Message(q) => \/ Trace[r].version # Trace[q].version
                                      \/ Trace[r].session # Trace[q].session
                                      \/ Trace[r].seq # Trace[q].seq
        /\ ~Message(r) /\ ~Message(q) => Trace[r].id = "" \/ Trace[r].id # Trace[q].id
        /\ Message(r) /\ ~Message(q) => dshRequestID(r) # Trace[q].id

Ignored(r) == /\ RequestID(r) # ""
              /\ \E i \in DOMAIN rows : RequestID(rows[i].of) = RequestID(r)
\* Mutation: a plain INSERT.
InsertAlways(r, timing) == rows' = Append(rows, Row(r, timing))
\* INSERT OR IGNORE; a record without an identity is always inserted.
Insert(r, timing) == rows' = IF Ignored(r) THEN rows ELSE Append(rows, Row(r, timing))

Store(h, timing) ==
    /\ \/ Insert(Rec(h), timing) /\ Done(h, FALSE) /\ UNCHANGED faults
       \/ Fails(h) /\ Fault /\ UNCHANGED rows
    /\ UNCHANGED <<dshVars, spans, stash, old, todo, answered, lost>>

StoreRequest(h) == Begins(h, {"api_request"}) /\ Store(h, NoTiming)
\* A prompt, a tool's decision or result, an error.
StoreEvent(h) == Begins(h, {"event"}) /\ Store(h, NoTiming)
StoreCodexEvent(h) == Begins(h, {"codex event"}) /\ Store(h, NoTiming)
\* A Codex record of a kind the receiver does not know.
ArchiveRaw(h) == Begins(h, {"codex raw"}) /\ Store(h, NoTiming)
\* An AI-SDK span that carries usage is stored as the request it reports; the
\* one around it carries the usage again.
StoreSpan(h) == Begins(h, {"usage span"}) /\ Store(h, NoTiming)

\* The span around a usage span and records without usage are counted, and
\* nothing is stored.
PassRecord(h) ==
    /\ Begins(h, {"other"})
    /\ Done(h, FALSE)
    /\ UNCHANGED <<dshVars, codexVars, exportVars>>

-----------------------------------------------------------------------------
(* DSH: handleDSHResourceLogs.                                              *)

StepRecord(h) ==
    /\ Begins(h, {"step/start", "assistant/chunk", "step/end"})
    /\ LET r == Rec(h) IN
         CASE Trace[r].kind = "step/start" -> noteStart(r)
           [] Trace[r].kind = "assistant/chunk" -> noteFirstToken(r)
           [] OTHER -> take(r)
    /\ Done(h, FALSE)
    /\ UNCHANGED <<codexVars, exportVars>>

TakeTiming(h) ==
    /\ Begins(h, {"assistant/message"})
    /\ take(Rec(h))
    /\ IF Trace[Rec(h)].usage
       THEN job' = [job EXCEPT ![h].step = "insert", ![h].timing = MessageTiming(Rec(h), Timing(Rec(h)))]
       ELSE Done(h, FALSE)
    /\ UNCHANGED <<codexVars, exportVars>>

InsertMessage(h) ==
    /\ Reached(h, "insert")
    /\ Store(h, job[h].timing)

-----------------------------------------------------------------------------
(* Codex: dispatchCodexLog, the records that carry timing.                  *)

\* codex.api_request: a new row, the stash of its conversation, the tracker.  A
\* request that failed brings its duration and is not tracked.
InsertAnchor(h) ==
    /\ Begins(h, {"codex.api_request"})
    /\ LET r == Rec(h)
           own == IF Trace[r].error THEN [NoTiming EXCEPT !.duration = <<r, r>>] ELSE NoTiming
       IN \/ /\ Insert(r, own)
             /\ On(h, IF Ignored(r) THEN "track" ELSE "drain", IF Ignored(r) THEN 0 ELSE Len(rows) + 1)
             /\ UNCHANGED faults
          \/ Fails(h) /\ Fault /\ UNCHANGED rows
    /\ UNCHANGED <<dshVars, spans, stash, old, todo, answered, lost>>

DrainStash(h) ==
    /\ Reached(h, "drain")
    /\ job' = [job EXCEPT ![h].due = Drained(Rec(h)),
                          ![h].step = IF Drained(Rec(h)) = {} THEN "track" ELSE "fill"]
    /\ drainTurnTTFT(Rec(h))
    /\ UNCHANGED <<dshVars, rows, spans, old, exportVars>>

\* The earliest first.  An update that fails is logged, and its observation gone.
FillStashed(h) ==
    /\ Reached(h, "fill")
    /\ \E e \in job[h].due :
         /\ \A d \in job[h].due : Trace[e.of].at <= Trace[d.of].at
         /\ \/ UpdateCodexRequestTTFT(job[h].row, e.of, <<e.of, e.of>>) /\ UNCHANGED faults
            \/ Fault /\ UNCHANGED rows
         /\ job' = [job EXCEPT ![h].due = @ \ {e},
                               ![h].step = IF job[h].due = {e} THEN "track" ELSE "fill"]
    /\ UNCHANGED <<dshVars, spans, stash, old, todo, answered, lost>>

TrackAnchor(h) ==
    /\ Reached(h, "track")
    /\ IF Trace[Rec(h)].error THEN UNCHANGED spans ELSE recordRequest(Rec(h), job[h].row)
    /\ Done(h, FALSE)
    /\ UNCHANGED <<dshVars, rows, stash, old, exportVars>>

TrackWebsocket(h) ==
    /\ Begins(h, {"codex.websocket_request"})
    /\ recordRequest(Rec(h), 0)
    /\ Done(h, FALSE)
    /\ UNCHANGED <<dshVars, rows, stash, old, exportVars>>

\* response.created and response.completed: the request is looked up, and then
\* its row updated.
LookUp(h) ==
    /\ Begins(h, {"response.created", "codex.websocket_event"})
    /\ IF lookupRequest(Rec(h)) = {} THEN Done(h, FALSE)
       ELSE \E s \in lookupRequest(Rec(h)) :
              job' = [job EXCEPT ![h] = [@ EXCEPT !.step = "update", !.row = s.row, !.found = s.start]]
    /\ UNCHANGED <<dshVars, codexVars, exportVars>>

Measured(h) == Elapsed(job[h].found, Rec(h))

\* Over HTTP a failed update is logged only, over a websocket it counts.
UpdateTTFT(h) ==
    /\ Reached(h, "update") /\ Trace[Rec(h)].kind = "response.created"
    /\ \/ UpdateCodexRequestTTFT(job[h].row, Rec(h), Measured(h)) /\ Done(h, FALSE) /\ UNCHANGED faults
       \/ /\ Measured(h) # NoSpan
          /\ IF Trace[Rec(h)].websocket THEN Fails(h) ELSE Done(h, FALSE)
          /\ Fault /\ UNCHANGED rows
    /\ UNCHANGED <<dshVars, spans, stash, old, todo, answered, lost>>

UpdateDuration(h) ==
    /\ Reached(h, "update") /\ Trace[Rec(h)].kind = "codex.websocket_event"
    /\ IF Measured(h) = NoSpan THEN Done(h, FALSE) /\ UNCHANGED <<rows, faults>>
       ELSE \/ /\ UpdateCodexRequestDuration(job[h].row, Rec(h), Measured(h))
               /\ IF Handled(job[h].row, Rec(h)) THEN Done(h, FALSE) ELSE On(h, "add", 0)
               /\ UNCHANGED faults
            \/ Fails(h) /\ Fault /\ UNCHANGED rows
    /\ UNCHANGED <<dshVars, spans, stash, old, todo, answered, lost>>

\* No row of the conversation waits for a duration: one is added for it.
AddDurationRow(h) ==
    /\ Reached(h, "add")
    /\ Store(h, [NoTiming EXCEPT !.duration = Measured(h)])

\* codex.turn_ttft: the row, or else the stash.
FillTurn(h) ==
    /\ Begins(h, {"codex.turn_ttft"})
    /\ \/ /\ UpdateCodexTurnTTFT(Rec(h))
          /\ IF TurnTarget(Rec(h)) = 0 THEN On(h, "stash", 0) ELSE Done(h, FALSE)
          /\ UNCHANGED faults
       \/ Fails(h) /\ Fault /\ UNCHANGED rows
    /\ UNCHANGED <<dshVars, spans, stash, old, todo, answered, lost>>

StashTurn(h) ==
    /\ Reached(h, "stash")
    /\ stashTurnTTFT(Rec(h))
    /\ Done(h, FALSE)
    /\ UNCHANGED <<dshVars, rows, spans, old, exportVars>>

-----------------------------------------------------------------------------
(* Exports.                                                                 *)

Deliver(h) ==
    /\ job[h].export = Nobody
    /\ \E x \in todo : /\ job' = [job EXCEPT ![h].export = x]
                       /\ todo' = todo \ {x}
    /\ UNCHANGED <<dshVars, codexVars, answered, lost, faults>>

\* Mutation: a batch is sent back as soon as one record failed.
AnyFailed(h) == IF job[h].failed > 0 THEN "error" ELSE "stored"
\* An error only if every record failed: what landed must not be sent again.
\* Records that failed in a batch of others are given up.
exportResult(h) ==
    CASE job[h].failed = 0 -> "stored"
      [] job[h].failed >= Len(Batch(h)) -> "error"
      [] OTHER -> "partial success"

Answer(h) ==
    /\ job[h].export # Nobody /\ ~Busy(h)
    /\ LET x == job[h].export IN
         \/ /\ todo' = IF exportResult(h) = "error" THEN todo \cup {x} ELSE todo
            /\ answered' = IF exportResult(h) = "stored" THEN answered \cup {x} ELSE answered
            /\ UNCHANGED <<lost, faults>>
         \/ /\ Fault
            /\ todo' = todo \cup {x}
            /\ lost' = [lost EXCEPT ![x] = @ + 1]
            /\ UNCHANGED answered
    /\ job' = [job EXCEPT ![h] = Idle]
    /\ UNCHANGED <<dshVars, codexVars>>

\* The daemon stops and is started again: trackers and stash are gone.
Restart ==
    /\ Fault
    /\ LET cut == {job[h].export : h \in Handlers} \ {Nobody} IN
         /\ todo' = todo \cup cut
         /\ lost' = [x \in DOMAIN lost |-> lost[x] + (IF x \in cut THEN 1 ELSE 0)]
    /\ job' = [h \in Handlers |-> Idle]
    /\ steps' = << >> /\ dusty' = {}
    /\ spans' = << >> /\ stash' = [c \in DOMAIN stash |-> {}]
    /\ UNCHANGED <<rows, old, answered>>

\* The turn observations that are on their way or in a stash; the age of any
\* other makes no difference.
Awaited ==
    LET open == todo \cup ({job[h].export : h \in Handlers} \ {Nobody}) IN
    {r \in UNION {ToSet(Exports[x]) : x \in open} \cup {e.of : e \in UNION Range(stash)} :
        Trace[r].kind = "codex.turn_ttft"}

Handle(h) ==
    \/ StoreRequest(h) \/ StoreEvent(h) \/ StoreCodexEvent(h) \/ ArchiveRaw(h) \/ StoreSpan(h)
    \/ PassRecord(h)
    \/ StepRecord(h) \/ TakeTiming(h) \/ InsertMessage(h)
    \/ InsertAnchor(h) \/ DrainStash(h) \/ FillStashed(h) \/ TrackAnchor(h)
    \/ TrackWebsocket(h) \/ LookUp(h) \/ UpdateTTFT(h) \/ UpdateDuration(h) \/ AddDurationRow(h)
    \/ FillTurn(h) \/ StashTurn(h)

Next ==
    \/ \E h \in Handlers : Deliver(h) \/ Handle(h) \/ Answer(h)
    \/ Restart
    \/ GatherDust /\ UNCHANGED <<codexVars, job, exportVars>>
    \/ Age(Awaited) /\ UNCHANGED <<dshVars, rows, spans, stash, job, exportVars>>

Spec == Init /\ [][Next]_vars

-----------------------------------------------------------------------------
RowsOf(r) == {i \in DOMAIN rows : rows[i].of = r}
Carried(x) == ToSet(Exports[x])
Stored == {"api_request", "usage span", "event", "codex event", "codex raw", "codex.api_request"}
ToStore(r) == Trace[r].kind \in Stored \/ (Message(r) /\ Trace[r].usage)

(* What an export answered without rejections carried is in the database:   *)
(* every request, event and anchor, and every message of a session with     *)
(* usage, though two generations of a session use the same numbers          *)
(* (exportResult, dshRequestID).                                            *)
AnsweredIsStored ==
    \A x \in answered : \A r \in Carried(x) : ToStore(r) => RowsOf(r) # {}

(* Nothing is counted twice: a record with an identity has one row however  *)
(* often it comes and whoever handles it at the same time; any other has    *)
(* no more rows than its export was cut off or left unanswered, plus one,   *)
(* since an error is answered only if nothing landed (exportResult).        *)
NothingTwice ==
    \A x \in DOMAIN Exports : \A r \in Carried(x) :
        Cardinality(RowsOf(r)) <= IF RequestID(r) # "" THEN 1 ELSE 1 + lost[x]

(* The timing of a session's message is that of its own step, however steps *)
(* of a session overlap, repeat or expire (dshStepTracker).                 *)
StepTimingIsItsOwn ==
    \A i \in DOMAIN rows : Message(rows[i].of) =>
        \A time \in {rows[i].ttft, rows[i].duration} \ {NoSpan} :
            \A r \in {time[1], time[2]} :
                /\ Trace[r].session = Trace[rows[i].of].session
                /\ Trace[r].turn = Trace[rows[i].of].turn
                /\ Trace[r].step = Trace[rows[i].of].step

(* A turn's first output fills the row of one request, of its conversation  *)
(* and of the hour before it, whether it comes before the request's record  *)
(* or after it; a second one only if it was delivered again                 *)
(* (UpdateCodexTurnTTFT, stashTurnTTFT, drainTurnTTFT).                     *)
TurnFillsOneRow ==
    \A x \in DOMAIN Exports : \A r \in Carried(x) : Trace[r].kind = "codex.turn_ttft" =>
        LET filled == {i \in DOMAIN rows : rows[i].ttft = <<r, r>>} IN
        /\ Cardinality(filled) <= 1 + lost[x]
        /\ \A i \in filled : Of(i) = Conv(r) /\ IsAnchor(i) /\ Belongs(r, rows[i].of)
=============================================================================
