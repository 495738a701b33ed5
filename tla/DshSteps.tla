------------------------------ MODULE DshSteps ------------------------------
(***************************************************************************)
(* The DeepSeek Harness' part of the log receiver (dsh.go): a tracker that  *)
(* remembers when each open step of a session began and when its first      *)
(* chunk came, so that the step's message can be stored with its timing.    *)
(* Times are kept as the records they were taken from.                      *)
(***************************************************************************)
EXTENDS Integers, Functions

CONSTANTS
    Records,   \* log records clients send
    Trace,     \* what is in them
    NoRecord

ASSUME RecordAssumption ==
    /\ NoRecord \notin Records
    /\ \A r \in Records : Trace[r].at \in Nat

VARIABLES
    steps,     \* open steps: the record that began each and its first chunk
    dusty      \* open steps seen for the last time more than 30 minutes ago

dshVars == <<steps, dusty>>

NoSpan == <<NoRecord, NoRecord>>
\* From one record to another, where the clock says that the second came later.
Elapsed(from, to) ==
    IF from # NoRecord /\ to # NoRecord /\ Trace[to].at > Trace[from].at
    THEN <<from, to>> ELSE NoSpan

\* Mutation: the steps of a turn are not told apart.
TurnKey(r) == <<Trace[r].session, Trace[r].turn>>
dshStepKey(r) == <<Trace[r].session, Trace[r].turn, Trace[r].step>>

\* Mutation: the format generation is no part of the identity.
VersionlessID(r) == <<"dsh", Trace[r].session, Trace[r].seq>>
\* A session's records are numbered anew in every format generation.
dshRequestID(r) == <<"dsh", Trace[r].version, Trace[r].session, Trace[r].seq>>

StepsInit == steps = << >> /\ dusty = {}

Without(f, keys) == Restrict(f, DOMAIN f \ keys)

\* A start opens the step, anew if it was open, and sweeps what is dusty.
noteStart(r) ==
    LET swept == Without(steps, dusty) IN
    /\ steps' = [k \in DOMAIN swept \cup {dshStepKey(r)} |->
                    IF k = dshStepKey(r) THEN [start |-> r, first |-> NoRecord] ELSE swept[k]]
    /\ dusty' = {}

noteFirstToken(r) ==
    LET k == dshStepKey(r) IN
    IF k \in DOMAIN steps /\ steps[k].first = NoRecord
    THEN /\ steps' = [steps EXCEPT ![k].first = r]
         /\ dusty' = dusty \ {k}
    ELSE UNCHANGED dshVars

\* The step's timing leaves the tracker with its message or its end.
take(r) ==
    /\ steps' = Without(steps, {dshStepKey(r)})
    /\ dusty' = dusty \ {dshStepKey(r)}

Timing(r) ==
    IF dshStepKey(r) \in DOMAIN steps THEN steps[dshStepKey(r)]
    ELSE [start |-> NoRecord, first |-> NoRecord]

\* Half an hour passes.
GatherDust ==
    /\ dusty # DOMAIN steps
    /\ dusty' = DOMAIN steps
    /\ UNCHANGED steps

\* dshAPIRequest: what the message is stored with.
MessageTiming(r, timing) ==
    [ttft |-> Elapsed(timing.start, timing.first), duration |-> Elapsed(timing.start, r)]
=============================================================================
