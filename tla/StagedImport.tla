---------------------------- MODULE StagedImport ----------------------------
(***************************************************************************)
(* The merge engine of dbmerge, which copies the rows of a source (the      *)
(* codex_* archive, another cc-otel database) into the live database while   *)
(* traffic is recorded there and old rows of some tables are pruned.         *)
(*                                                                          *)
(* The source is scanned in batches.  Rows of a batch with the same         *)
(* identity are staged once, with the number of their occurrences.  One     *)
(* BEGIN IMMEDIATE transaction then compares the staged batch with the      *)
(* target, inserts what is lacking and adds it to daily_model_agg; after    *)
(* the commit the batch is verified.  A run may fail or be cut off after    *)
(* any commit and is run again from the start.  The transaction also writes *)
(* import_ledger, which nothing reads.                                      *)
(***************************************************************************)
EXTENDS Integers, Sequences, FiniteSets

CONSTANTS
    Identities, \* identities of rows
    Keyed,      \* those made of a request_id, which is unique in the target
    Prunable,   \* those of old rows in tables with a retention
    Source,     \* the identities of the source's rows, in scan order
    Bytes,      \* payload of the first n rows of the source
    BatchRows,  \* Options.BatchSize: the scan cuts a batch at so many rows
    BatchBytes, \* Options.batchBytes: or before it grows larger than this
    MaxBusy,    \* retries of a busy batch: len(defaultRetryDelays)
    MaxLive,    \* live inserts (bound)
    MaxRuns     \* runs of the import (bound)

ASSUME SourceAssumption ==
    /\ Source \in Seq(Identities) /\ Keyed \subseteq Identities
    /\ Prunable \subseteq Identities \ Keyed
    /\ Bytes \in [0 .. Len(Source) -> Nat]
    /\ \A n \in 1 .. Len(Source) : Bytes[n - 1] < Bytes[n]
ASSUME BoundAssumption ==
    /\ BatchRows \in Nat \ {0} /\ BatchBytes \in Nat
    /\ MaxBusy \in Nat /\ MaxLive \in Nat /\ MaxRuns \in Nat

VARIABLES
    target,    \* rows of each identity in the live database
    agg,       \* what daily_model_agg counts of each identity (which fixes its key)
    phase,     \* of the import: idle, scan, staged, verify
    pos,       \* rows of the source scanned in this run
    batch,     \* occurrences staged
    busy,      \* retries of this batch
    runs,      \* runs started
    completed, \* history: a run has gone through
    imported,  \* history: rows of each identity that the import inserted
    live       \* live inserts so far

vars == <<target, agg, phase, pos, batch, busy, runs, completed, imported, live>>

Counts == [Identities -> Nat]
Nothing == [i \in Identities |-> 0]

TypeOK ==
    /\ target \in Counts /\ agg \in Counts /\ imported \in Counts /\ batch \in Counts
    /\ phase \in {"idle", "scan", "staged", "verify"}
    /\ pos \in 0 .. Len(Source)
    /\ busy \in 0 .. MaxBusy /\ runs \in 0 .. MaxRuns /\ live \in 0 .. MaxLive
    /\ completed \in BOOLEAN

Init ==
    /\ target = Nothing /\ agg = Nothing /\ imported = Nothing /\ batch = Nothing
    /\ phase = "idle" /\ pos = 0 /\ busy = 0 /\ runs = 0 /\ live = 0
    /\ completed = FALSE

-----------------------------------------------------------------------------
(* Scanning.                                                                *)

\* Rows p + 1 .. q of the source with identity i.
Occurrences(i, p, q) == Cardinality({n \in (p + 1) .. q : Source[n] = i})

\* Rows p + 1 .. q make one batch; a batch has one row at least.
Fits(p, q) ==
    q > p + 1 => q - p <= BatchRows /\ Bytes[q] - Bytes[p] <= BatchBytes

\* The batch that begins after row p ends with row q: the source does, or
\* the next row is one too many.
CutsAt(p, q) == Fits(p, q) /\ (q < Len(Source) => ~Fits(p, q + 1))

StartRun ==
    /\ phase = "idle" /\ runs < MaxRuns
    /\ runs' = runs + 1
    /\ phase' = "scan" /\ pos' = 0
    /\ UNCHANGED <<target, agg, batch, busy, completed, imported, live>>

\* scanBatches: rows of one identity are merged within the batch.
StageBatch ==
    /\ phase = "scan" /\ pos < Len(Source)
    /\ \E q \in (pos + 1) .. Len(Source) :
          /\ CutsAt(pos, q)
          /\ batch' = [i \in Identities |-> Occurrences(i, pos, q)]
          /\ pos' = q
    /\ phase' = "staged" /\ busy' = 0
    /\ UNCHANGED <<target, agg, runs, completed, imported, live>>

EndRun ==
    /\ phase = "scan" /\ pos = Len(Source)
    /\ phase' = "idle"
    /\ completed' = TRUE
    /\ UNCHANGED <<target, agg, pos, batch, busy, runs, imported, live>>

-----------------------------------------------------------------------------
(* One batch.                                                               *)

\* Mutation: an identity that is there at all is a duplicate.
ToInsertBinary(i) == IF target[i] > 0 THEN 0 ELSE batch[i]

\* Mutation: the target is not looked at.
ToInsertAlways(i) == batch[i]

\* markNew: a request_id is there or not; of other identities the target is
\* topped up to the number of occurrences.
ToInsert(i) ==
    IF i \in Keyed
    THEN IF target[i] > 0 \/ batch[i] = 0 THEN 0 ELSE 1
    ELSE IF target[i] >= batch[i] THEN 0 ELSE batch[i] - target[i]

\* Mutation: one aggregate delta for each identity, not for each copy.
DeltaOnce(i) == IF ToInsert(i) > 0 THEN 1 ELSE 0

\* newRows and addAggregateDelta: a delta for each copy that is inserted.
Delta(i) == ToInsert(i)

\* Only requests are aggregated, and their table has no retention.
Requests == Identities \ Prunable

\* The transaction: rows and aggregate.
CommitBatch ==
    /\ phase = "staged"
    /\ target' = [i \in Identities |-> target[i] + ToInsert(i)]
    /\ imported' = [i \in Identities |-> imported[i] + ToInsert(i)]
    /\ agg' = [i \in Identities |-> IF i \in Requests THEN agg[i] + Delta(i) ELSE 0]
    /\ phase' = "verify"
    /\ UNCHANGED <<pos, batch, busy, runs, completed, live>>

\* Mutation: a busy batch is given up and the scan goes on.
BusySkips ==
    /\ phase = "staged"
    /\ busy' = 0
    /\ phase' = "scan"
    /\ UNCHANGED <<target, agg, pos, batch, runs, completed, imported, live>>

\* BEGIN IMMEDIATE or a statement is busy: rolled back, and tried again.
BusyRetry ==
    /\ phase = "staged"
    /\ busy < MaxBusy
    /\ busy' = busy + 1
    /\ UNCHANGED <<target, agg, phase, pos, batch, runs, completed, imported, live>>

\* identityContainedExpression: what missingDigest asks of the target.
Contained(i) ==
    IF i \in Keyed THEN batch[i] > 0 => target[i] > 0 ELSE target[i] >= batch[i]

Verify ==
    /\ phase = "verify"
    /\ \/ (\A i \in Identities : Contained(i)) /\ phase' = "scan"
       \/ (\E i \in Identities : ~Contained(i)) /\ phase' = "idle"
    /\ UNCHANGED <<target, agg, pos, batch, busy, runs, completed, imported, live>>

\* Cancelled, out of retries, or the daemon died: committed batches stay.
Abort ==
    /\ phase \in {"scan", "staged", "verify"}
    /\ phase' = "idle"
    /\ UNCHANGED <<target, agg, pos, batch, busy, runs, completed, imported, live>>

-----------------------------------------------------------------------------

\* InsertRequest of the receiver; a request_id that is there is ignored.
LiveInsert ==
    /\ live < MaxLive
    /\ live' = live + 1
    /\ \E i \in Identities :
          \/ /\ i \notin Keyed \/ target[i] = 0
             /\ target' = [target EXCEPT ![i] = @ + 1]
             /\ agg' = IF i \in Requests THEN [agg EXCEPT ![i] = @ + 1] ELSE agg
          \/ i \in Keyed /\ target[i] > 0 /\ UNCHANGED <<target, agg>>
    /\ UNCHANGED <<phase, pos, batch, busy, runs, completed, imported>>

\* Cleanup and CleanupRaw: rows of one identity are of one age.
Prune ==
    /\ \E i \in Prunable : target' = [target EXCEPT ![i] = 0]
    /\ UNCHANGED <<agg, phase, pos, batch, busy, runs, completed, imported, live>>

Next ==
    \/ StartRun \/ StageBatch \/ EndRun
    \/ CommitBatch \/ BusyRetry \/ Verify \/ Abort
    \/ LiveInsert \/ Prune

Spec == Init /\ [][Next]_vars

-----------------------------------------------------------------------------
(* Properties.                                                              *)

SourceRows(i) == Occurrences(i, 0, Len(Source))

\* The import's deltas and the receiver's together equal a rebuild from the rows.
AggMatchesTarget == \A i \in Requests : agg[i] = target[i]

\* However often it is run, cut off or raced by live traffic, the import never
\* brings in more copies of a request than the source has, and no request_id twice.
NoCopyTwice ==
    \A i \in Requests :
        /\ imported[i] <= SourceRows(i)
        /\ i \in Keyed => target[i] <= 1

\* The verification after the commit finds every request of the batch: live
\* traffic between the commit and the check cannot fail an import.  (A row with
\* a retention may be pruned in between, and then it does.)
VerificationHolds ==
    phase = "verify" => \A i \in Requests : Contained(i)

\* Once a run has gone through, every request of the source is in the target.
CompletedHasAll ==
    completed => \A i \in Requests : SourceRows(i) > 0 => target[i] > 0

\* Once a run has gone through, running it again inserts no request.
RerunIsNoOp ==
    [][completed => \A i \in Requests : imported'[i] = imported[i]]_vars

=============================================================================
