-------------------------- MODULE LogIngestProofs ---------------------------
(***************************************************************************)
(* Proofs about LogIngest, for any number of handlers and of failures, and  *)
(* any exports of any records that clients number as they do.               *)
(***************************************************************************)
EXTENDS LogIngest, FiniteSetTheorems, WellFoundedInduction, TLAPS

-----------------------------------------------------------------------------
(* The rows.                                                                *)

IsRow(e) ==
    \E of \in Records : \E ttft, duration : e = [of |-> of, ttft |-> ttft, duration |-> duration]
RowsOK ==
    /\ \E S : rows \in Seq(S)
    /\ \A i \in DOMAIN rows : IsRow(rows[i])

\* Both times of a timing are between records of the step of record r.
OwnTimes(r, times) ==
    \A time \in times \ {NoSpan} : \A q \in {time[1], time[2]} : dshStepKey(q) = dshStepKey(r)
OwnRow(e) == Message(e.of) => OwnTimes(e.of, {e.ttft, e.duration})

\* What a statement may do: rows stay, and one that is new or changed has the
\* timing of its own step if it is a session's message.
Grows ==
    /\ RowsOK'
    /\ \A i \in DOMAIN rows : i \in DOMAIN rows' /\ rows'[i].of = rows[i].of
    /\ \A i \in DOMAIN rows' : (i \in DOMAIN rows /\ rows'[i] = rows[i]) \/ OwnRow(rows'[i])

HasRow(r) == \E i \in DOMAIN rows : rows[i].of = r
CodexRows == {i \in DOMAIN rows : IsCodex(i)}

LEMMA SameRows ==
    ASSUME RowsOK, UNCHANGED rows
    PROVE  Grows
BY DEF RowsOK, Grows, IsRow

LEMMA AppendGrows ==
    ASSUME RowsOK, NEW e, IsRow(e), OwnRow(e), rows' = Append(rows, e)
    PROVE  /\ Grows
           /\ Len(rows) + 1 \in DOMAIN rows' /\ rows'[Len(rows) + 1] = e
<1>1. PICK S : rows \in Seq(S)
  BY DEF RowsOK
<1>2. rows \in Seq(S \cup {e})
  BY <1>1
<1>3. /\ rows' \in Seq(S \cup {e})
      /\ DOMAIN rows' = DOMAIN rows \cup {Len(rows) + 1}
      /\ rows'[Len(rows) + 1] = e
      /\ \A i \in DOMAIN rows : rows'[i] = rows[i]
  BY <1>2
<1>4. RowsOK'
  <2>1. \A i \in DOMAIN rows' : IsRow(rows'[i])
    BY <1>3 DEF RowsOK
  <2>2. QED
    BY <1>3, <2>1, Zenon DEF RowsOK, IsRow
<1>5. QED
  BY <1>3, <1>4 DEF Grows

\* A column of a Codex row is set.
LEMMA FillGrows ==
    ASSUME RowsOK, NEW i \in CodexRows \cup {0}, NEW field \in {"ttft", "duration"}, NEW value,
           Fill(i, field, value)
    PROVE  Grows
<1>1. CASE i = 0
  BY <1>1, SameRows DEF Fill
<1>2. CASE i # 0
  <2>1. PICK S : rows \in Seq(S)
    BY DEF RowsOK
  <2>2. i \in DOMAIN rows
    BY <1>2 DEF CodexRows
  <2>3. PICK of, ttft, duration :
           of \in Records /\ rows[i] = [of |-> of, ttft |-> ttft, duration |-> duration]
    BY <2>2 DEF RowsOK, IsRow
  <2>4. PICK e : rows' = [rows EXCEPT ![i] = e] /\ IsRow(e) /\ e.of = of
    <3>1. CASE field = "ttft"
      <4>1. rows' = [rows EXCEPT ![i] = [rows[i] EXCEPT !["ttft"] = value]]
        BY <1>2, <3>1 DEF Fill
      <4>2. [rows[i] EXCEPT !["ttft"] = value] =
            [of |-> of, ttft |-> value, duration |-> duration]
        BY <2>3
      <4>3. QED
        BY <2>3, <4>1, <4>2 DEF IsRow
    <3>2. CASE field = "duration"
      <4>1. rows' = [rows EXCEPT ![i] = [rows[i] EXCEPT !["duration"] = value]]
        BY <1>2, <3>2 DEF Fill
      <4>2. [rows[i] EXCEPT !["duration"] = value] =
            [of |-> of, ttft |-> ttft, duration |-> value]
        BY <2>3
      <4>3. QED
        BY <2>3, <4>1, <4>2 DEF IsRow
    <3>3. QED
      BY <3>1, <3>2
  <2>5. rows \in Seq(S \cup {e})
    BY <2>1
  <2>6. /\ rows' \in Seq(S \cup {e}) /\ DOMAIN rows' = DOMAIN rows
        /\ rows'[i] = e /\ \A j \in DOMAIN rows \ {i} : rows'[j] = rows[j]
    BY <2>2, <2>4, <2>5
  <2>7. RowsOK'
    <3>1. \A j \in DOMAIN rows' : IsRow(rows'[j])
      BY <2>4, <2>6 DEF RowsOK
    <3>2. QED
      BY <2>6, <3>1, Zenon DEF RowsOK, IsRow
  <2>8. OwnRow(e)
    <3>1. ~Message(of)
      BY <1>2, <2>3 DEF CodexRows, IsCodex, Message
    <3>2. QED
      BY <2>4, <3>1 DEF OwnRow
  <2>9. rows[i].of = of
    BY <2>3
  <2>10. QED
    BY <2>4, <2>6, <2>7, <2>8, <2>9 DEF Grows
<1>3. QED
  BY <1>1, <1>2

LEMMA GrowsKeeps ==
    ASSUME Grows
    PROVE  /\ \A r : HasRow(r) => HasRow(r)'
           /\ CodexRows \subseteq CodexRows'
BY DEF Grows, HasRow, CodexRows, IsCodex

-----------------------------------------------------------------------------
(* The newest of some rows.                                                 *)

LEMMA HasMax ==
    ASSUME NEW n \in Nat, NEW T \in SUBSET (0 .. n), T # {}
    PROVE  \E x \in T : \A y \in T : x >= y
<1> DEFINE R == OpToRel(<, Nat)
           D == {n - y : y \in T}
<1>1. R = {ss \in Nat \X Nat : ss[1] < ss[2]}
  BY DEF OpToRel
<1>2. IsWellFoundedOn(R, Nat)
  BY NatLessThanWellFounded, Zenon
<1>3. D \in SUBSET Nat /\ D # {}
  OBVIOUS
<1> HIDE DEF R
<1>4. PICK d \in D : \A e \in D : ~ (<<e, d>> \in R)
  <2> HIDE DEF D
  <2>1. QED
    BY <1>2, <1>3, WFMin, Zenon
<1>5. \A e \in D : d <= e
  <2> HIDE DEF D
  <2>1. \A e \in D : d \in Nat /\ e \in Nat /\ ~(e < d)
    BY <1>1, <1>3, <1>4
  <2>2. QED
    BY <2>1
<1>6. PICK x \in T : d = n - x
  BY <1>4
<1>7. \A y \in T : n - x <= n - y
  BY <1>5, <1>6
<1>8. \A y \in T : x >= y
  BY <1>7
<1>9. QED
  BY <1>8

LEMMA NewestIsOne ==
    ASSUME RowsOK, NEW ids \in SUBSET DOMAIN rows
    PROVE  Newest(ids) \in ids \cup {0}
<1>1. PICK S : rows \in Seq(S)
  BY DEF RowsOK
<1>2. ids \cup {0} \in SUBSET (0 .. Len(rows)) /\ ids \cup {0} # {} /\ Len(rows) \in Nat
  BY <1>1
<1>3. \E x \in ids \cup {0} : \A y \in ids \cup {0} : x >= y
  BY <1>2, HasMax, Zenon
<1>4. QED
  BY <1>3 DEF Newest

-----------------------------------------------------------------------------
(* The handlers.                                                            *)

Job(x, n, step, failed, row, due, timing, found) ==
    [export |-> x, pos |-> n, step |-> step, failed |-> failed,
     row |-> row, due |-> due, timing |-> timing, found |-> found]
IsJob(j) ==
    \E x \in DOMAIN Exports \cup {Nobody}, n \in Nat \ {0}, failed \in Nat :
        \E step, row, due, timing, found : j = Job(x, n, step, failed, row, due, timing, found)

Working(j) == j.export # Nobody /\ j.pos <= Len(Exports[j.export])
Now(j) == Exports[j.export][j.pos]

\* Between two statements for a record: it has its row, or is none to store.
StepFits(j) ==
    Working(j) =>
        /\ j.step = "insert" => OwnTimes(Now(j), {j.timing.ttft, j.timing.duration})
        /\ j.step \in {"drain", "fill", "track"} => HasRow(Now(j))
        /\ j.step = "add" => ~Message(Now(j))
        /\ j.step = "stash" => ~ToStore(Now(j))

\* A batch without a failure so far has stored what it has passed.
PassedStored(j) ==
    j.export # Nobody /\ j.failed = 0 =>
        \A n \in DOMAIN Exports[j.export] :
            n < j.pos /\ ToStore(Exports[j.export][n]) => HasRow(Exports[j.export][n])

JobFits(j) ==
    /\ IsJob(j)
    /\ j.row \in CodexRows \cup {0}
    /\ j.export = Nobody => j.pos = 1 /\ j.step = "record"
    /\ StepFits(j)
    /\ PassedStored(j)

JobInv ==
    /\ job = [h \in Handlers |-> job[h]]
    /\ \A h \in Handlers : JobFits(job[h])

LEMMA JobIs ==
    ASSUME NEW x \in DOMAIN Exports \cup {Nobody}, NEW n \in Nat \ {0}, NEW failed \in Nat,
           NEW step, NEW row, NEW due, NEW timing, NEW found
    PROVE  IsJob(Job(x, n, step, failed, row, due, timing, found))
BY Zenon DEF IsJob

LEMMA IsJobParts ==
    ASSUME NEW j, IsJob(j)
    PROVE  /\ j.export \in DOMAIN Exports \cup {Nobody} /\ j.pos \in Nat \ {0} /\ j.failed \in Nat
           /\ j = Job(j.export, j.pos, j.step, j.failed, j.row, j.due, j.timing, j.found)
<1>1. PICK x \in DOMAIN Exports \cup {Nobody}, n \in Nat \ {0}, failed \in Nat :
         \E step, row, due, timing, found : j = Job(x, n, step, failed, row, due, timing, found)
  BY Zenon DEF IsJob
<1>2. PICK step, row, due, timing, found : j = Job(x, n, step, failed, row, due, timing, found)
  BY <1>1, Zenon
<1>3. /\ j.export = x /\ j.pos = n /\ j.failed = failed
      /\ j.step = step /\ j.row = row /\ j.due = due /\ j.timing = timing /\ j.found = found
  BY <1>2 DEF Job
<1>4. QED
  BY <1>1, <1>2, <1>3, Zenon

LEMMA IdleWith ==
    ASSUME NEW x, NEW n, NEW failed
    PROVE  [Idle EXCEPT !.export = x, !.pos = n, !.failed = failed]
           = Job(x, n, "record", failed, 0, {}, NoTiming, NoRecord)
<1>1. Idle = Job(Nobody, 1, "record", 0, 0, {}, NoTiming, NoRecord)
  BY DEF Idle, Job
<1>2. [Idle EXCEPT !.export = x] = Job(x, 1, "record", 0, 0, {}, NoTiming, NoRecord)
  BY <1>1 DEF Job
<1>3. [Job(x, 1, "record", 0, 0, {}, NoTiming, NoRecord) EXCEPT !.pos = n]
      = Job(x, n, "record", 0, 0, {}, NoTiming, NoRecord)
  BY DEF Job
<1>4. [Job(x, n, "record", 0, 0, {}, NoTiming, NoRecord) EXCEPT !.failed = failed]
      = Job(x, n, "record", failed, 0, {}, NoTiming, NoRecord)
  BY DEF Job
<1>5. [Idle EXCEPT !.export = x, !.pos = n, !.failed = failed]
      = [[[Idle EXCEPT !.export = x] EXCEPT !.pos = n] EXCEPT !.failed = failed]
  OBVIOUS
<1>6. QED
  BY <1>2, <1>3, <1>4, <1>5, Zenon

LEMMA FitsStays ==
    ASSUME Grows, NEW j, JobFits(j)
    PROVE  JobFits(j)'
<1>1. /\ \A r : HasRow(r) => HasRow(r)'
      /\ CodexRows \subseteq CodexRows'
  BY GrowsKeeps
<1>2. j.row \in CodexRows' \cup {0} /\ (j.export = Nobody => j.pos = 1 /\ j.step = "record")
  BY <1>1 DEF JobFits
<1>3. StepFits(j)'
  BY <1>1 DEF JobFits, StepFits, Working, Now
<1>4. PassedStored(j)'
  BY <1>1 DEF JobFits, PassedStored
<1>5. IsJob(j)'
  BY DEF JobFits, IsJob, Job
<1>6. QED
  BY <1>2, <1>3, <1>4, <1>5 DEF JobFits

LEMMA JobMoves ==
    ASSUME JobInv, Grows, NEW h \in Handlers, NEW e, job' = [job EXCEPT ![h] = e], JobFits(e)'
    PROVE  JobInv'
<1>1. job' = [g \in Handlers |-> IF g = h THEN e ELSE job[g]]
  BY DEF JobInv
<1>2. job' = [g \in Handlers |-> job'[g]]
  BY <1>1
<1>3. ASSUME NEW g \in Handlers
      PROVE  JobFits(job[g])'
  <2>1. PICK j : j = job[g]
    OBVIOUS
  <2>2. PICK k : k = job'[g] /\ (g = h => k = e) /\ (g # h => k = j)
    BY <1>1, <2>1
  <2>3. JobFits(k)'
    <3>1. CASE g = h
      BY <2>2, <3>1
    <3>2. CASE g # h
      <4>1. JobFits(j)
        BY <2>1 DEF JobInv
      <4>2. JobFits(j)'
        BY <4>1, FitsStays
      <4>3. QED
        BY <2>2, <3>2, <4>2
    <3>3. QED
      BY <3>1, <3>2
  <2>4. QED
    BY <2>2, <2>3
<1>4. QED
  BY <1>2, <1>3, Zenon DEF JobInv

\* The record at hand.
LEMMA AtHand ==
    ASSUME JobInv, NEW h \in Handlers, Busy(h)
    PROVE  /\ Rec(h) \in Records /\ job[h].export \in DOMAIN Exports
           /\ job[h].pos \in DOMAIN Batch(h)
           /\ Working(job[h]) /\ Now(job[h]) = Rec(h)
<1>1. IsJob(job[h])
  BY DEF JobInv, JobFits
<1>2. job[h].export \in DOMAIN Exports /\ job[h].pos \in Nat \ {0}
  BY <1>1, IsJobParts DEF Busy
<1>3. Batch(h) \in Seq(Records)
  BY <1>2, ExportAssumption DEF Batch
<1>4. job[h].pos \in DOMAIN Batch(h)
  BY <1>2, <1>3 DEF Busy
<1>5. QED
  BY <1>2, <1>3, <1>4 DEF Rec, Batch, Working, Now, Busy

LEMMA DoneFits ==
    ASSUME JobInv, Grows, NEW h \in Handlers, Busy(h), NEW failed \in BOOLEAN, Done(h, failed),
           NEW r, r = Rec(h), failed \/ (ToStore(r) => HasRow(r)')
    PROVE  JobInv'
<1>1. PICK j : j = job[h]
  OBVIOUS
<1>2. IsJob(j) /\ PassedStored(j) /\ j.export # Nobody
  BY <1>1 DEF JobInv, JobFits, Busy
<1>3. /\ j.export \in DOMAIN Exports /\ j.pos \in Nat \ {0} /\ j.failed \in Nat
      /\ Exports[j.export] \in Seq(Records)
  BY <1>2, IsJobParts, ExportAssumption
<1>4. PICK gs \in Nat : gs = j.failed + (IF failed THEN 1 ELSE 0)
  BY <1>3
<1>5. PICK e : e = Job(j.export, j.pos + 1, "record", gs, 0, {}, NoTiming, NoRecord)
  OBVIOUS
<1>6. job' = [job EXCEPT ![h] = e]
  <2>1. job' = [job EXCEPT ![h] = [Idle EXCEPT !.export = j.export, !.pos = j.pos + 1, !.failed = gs]]
    BY <1>1, <1>4, Zenon DEF Done
  <2>2. [Idle EXCEPT !.export = j.export, !.pos = j.pos + 1, !.failed = gs] = e
    <3>1. PICK x, n : x = j.export /\ n = j.pos + 1
      OBVIOUS
    <3>2. QED
      BY <1>5, <3>1, IdleWith, Zenon
  <2>3. QED
    BY <2>1, <2>2, Zenon
<1>7. /\ e.export = j.export /\ e.pos = j.pos + 1 /\ e.step = "record"
      /\ e.failed = gs /\ e.row = 0
  BY <1>5 DEF Job
<1>8. PassedStored(e)'
  <2> SUFFICES ASSUME gs = 0, NEW m \in DOMAIN Exports[j.export], m < j.pos + 1,
                      ToStore(Exports[j.export][m])
               PROVE  HasRow(Exports[j.export][m])'
    BY <1>7 DEF PassedStored
  <2>1. j.failed = 0 /\ failed = FALSE
    BY <1>3, <1>4
  <2>2. m \in Nat
    BY <1>3
  <2>3. CASE m = j.pos
    BY <1>1, <2>1, <2>3 DEF Rec, Batch
  <2>4. CASE m < j.pos
    <3>1. HasRow(Exports[j.export][m])
      BY <1>2, <2>1, <2>4 DEF PassedStored
    <3>2. QED
      BY <3>1, GrowsKeeps
  <2>5. QED
    BY <1>3, <2>2, <2>3, <2>4
<1>9. IsJob(e)
  <2>1. j.pos + 1 \in Nat \ {0}
    BY <1>3
  <2>2. PICK x, n, step : x = j.export /\ n = j.pos + 1 /\ step = "record"
    OBVIOUS
  <2>3. IsJob(Job(x, n, step, gs, 0, {}, NoTiming, NoRecord))
    BY <1>3, <2>1, <2>2, JobIs
  <2>4. QED
    BY <1>5, <2>2, <2>3
<1>10. JobFits(e)'
  BY <1>2, <1>7, <1>8, <1>9 DEF JobFits, StepFits, IsJob, Job
<1>11. QED
  BY <1>6, <1>10, JobMoves

\* The handler goes on with its record, in another step, row, list or timing.
LEMMA GoesOn ==
    ASSUME JobInv, Grows, NEW h \in Handlers, Busy(h),
           NEW step, NEW row \in CodexRows' \cup {0}, NEW due, NEW timing, NEW found,
           job' = [job EXCEPT ![h] = Job(job[h].export, job[h].pos, step, job[h].failed,
                                         row, due, timing, found)],
           NEW r, r = Rec(h),
           step = "insert" => OwnTimes(r, {timing.ttft, timing.duration}),
           step \in {"drain", "fill", "track"} => HasRow(r)',
           step = "add" => ~Message(r), step = "stash" => ~ToStore(r)
    PROVE  JobInv'
<1>1. PICK j : j = job[h]
  OBVIOUS
<1>2. IsJob(j) /\ PassedStored(j) /\ j.export # Nobody
  BY <1>1 DEF JobInv, JobFits, Busy
<1>3. j.export \in DOMAIN Exports /\ j.pos \in Nat \ {0} /\ j.failed \in Nat
  BY <1>2, IsJobParts
<1>4. PICK e : e = Job(j.export, j.pos, step, j.failed, row, due, timing, found)
  OBVIOUS
<1>5. job' = [job EXCEPT ![h] = e]
  BY <1>1, <1>4
<1>6. /\ e.export = j.export /\ e.pos = j.pos /\ e.step = step
      /\ e.failed = j.failed /\ e.row = row /\ e.timing = timing
  BY <1>4 DEF Job
<1>7. Now(e) = r
  BY <1>1, <1>6 DEF Now, Rec, Batch
<1>8. StepFits(e)'
  BY <1>6, <1>7 DEF StepFits, Now
<1>9. PassedStored(e)'
  BY <1>2, <1>6, GrowsKeeps DEF PassedStored
<1>10. IsJob(e)
  BY <1>3, <1>4, JobIs
<1>11. JobFits(e)'
  BY <1>2, <1>6, <1>8, <1>9, <1>10 DEF JobFits, IsJob, Job
<1>12. QED
  BY <1>5, <1>11, JobMoves

-----------------------------------------------------------------------------
(* Storing.                                                                 *)

LEMMA IgnoredIsStored ==
    ASSUME RowsOK, NEW r \in Records, Ignored(r)
    PROVE  HasRow(r)
<1>1. PICK i \in DOMAIN rows : RequestID(rows[i].of) = RequestID(r)
  BY Zenon DEF Ignored
<1>2. RequestID(r) # ""
  BY Zenon DEF Ignored
<1>3. PICK q \in Records : q = rows[i].of
  BY DEF RowsOK, IsRow
<1>4. RequestID(q) = RequestID(r)
  BY <1>1, <1>3, Zenon
<1>5. ASSUME q # r
      PROVE  FALSE
  <2>1. CASE Message(r) /\ Message(q)
    <3>1. dshRequestID(r) = dshRequestID(q)
      BY <1>4, <2>1, Zenon DEF RequestID
    <3>2. /\ Trace[r].version = Trace[q].version /\ Trace[r].session = Trace[q].session
          /\ Trace[r].seq = Trace[q].seq
      BY <3>1 DEF dshRequestID
    <3>3. QED
      BY <1>5, <2>1, <3>2, IdentityAssumption, Zenon
  <2>2. CASE ~Message(r) /\ ~Message(q)
    <3>1. RequestID(r) = Trace[r].id /\ RequestID(q) = Trace[q].id
      BY <2>2, Zenon DEF RequestID
    <3>2. Trace[r].id = "" \/ Trace[r].id # Trace[q].id
      BY <1>5, <2>2, IdentityAssumption, Zenon
    <3>3. QED
      BY <1>2, <1>4, <3>1, <3>2, Zenon
  <2>3. CASE Message(r) /\ ~Message(q)
    <3>1. RequestID(r) = dshRequestID(r) /\ RequestID(q) = Trace[q].id
      BY <2>3, Zenon DEF RequestID
    <3>2. QED
      BY <1>4, <1>5, <2>3, <3>1, IdentityAssumption, Zenon
  <2>4. CASE ~Message(r) /\ Message(q)
    <3>1. RequestID(r) = Trace[r].id /\ RequestID(q) = dshRequestID(q)
      BY <2>4, Zenon DEF RequestID
    <3>2. QED
      BY <1>4, <1>5, <2>4, <3>1, IdentityAssumption, Zenon
  <2>5. QED
    BY <2>1, <2>2, <2>3, <2>4, Zenon
<1>6. QED
  BY <1>3, <1>5 DEF HasRow

LEMMA InsertGrows ==
    ASSUME RowsOK, NEW r \in Records, NEW timing, Insert(r, timing),
           Message(r) => OwnTimes(r, {timing.ttft, timing.duration})
    PROVE  Grows /\ HasRow(r)'
<1>1. CASE Ignored(r)
  <2>1. Grows
    BY <1>1, SameRows DEF Insert
  <2>2. HasRow(r)
    BY <1>1, IgnoredIsStored
  <2>3. QED
    BY <2>1, <2>2, GrowsKeeps
<1>2. CASE ~Ignored(r)
  <2>1. PICK e : e = Row(r, timing)
    OBVIOUS
  <2>2. IsRow(e) /\ e.of = r /\ e.ttft = timing.ttft /\ e.duration = timing.duration
    BY <2>1 DEF IsRow, Row
  <2>3. OwnRow(e)
    BY <2>2 DEF OwnRow
  <2>4. rows' = Append(rows, e)
    BY <1>2, <2>1 DEF Insert
  <2>5. Grows /\ Len(rows) + 1 \in DOMAIN rows' /\ rows'[Len(rows) + 1] = e
    BY <2>2, <2>3, <2>4, AppendGrows
  <2>6. QED
    BY <2>2, <2>5 DEF HasRow
<1>3. QED
  BY <1>1, <1>2

\* What every handler finds and leaves.
Stands == RowsOK /\ JobInv

LEMMA FailsKeeps ==
    ASSUME Stands, NEW h \in Handlers, Busy(h), Fails(h), UNCHANGED rows
    PROVE  Grows /\ JobInv'
<1>1. Grows
  BY SameRows DEF Stands
<1>2. QED
  BY <1>1, DoneFits DEF Stands, Fails

LEMMA StoreKeeps ==
    ASSUME Stands, NEW h \in Handlers, Busy(h), NEW timing, Store(h, timing),
           Message(Rec(h)) => OwnTimes(Rec(h), {timing.ttft, timing.duration})
    PROVE  Grows /\ JobInv'
<1>1. PICK r \in Records : r = Rec(h)
  BY AtHand DEF Stands
<1>2. CASE Insert(Rec(h), timing) /\ Done(h, FALSE)
  <2>1. Grows /\ HasRow(r)'
    BY <1>1, <1>2, InsertGrows DEF Stands
  <2>2. QED
    BY <1>1, <1>2, <2>1, DoneFits DEF Stands
<1>3. CASE Fails(h) /\ UNCHANGED rows
  BY <1>3, FailsKeeps
<1>4. QED
  BY <1>2, <1>3 DEF Store

LEMMA NoTimeIsOwn ==
    ASSUME NEW r
    PROVE  OwnTimes(r, {NoTiming.ttft, NoTiming.duration})
BY DEF OwnTimes, NoTiming

LEMMA PlainStores ==
    ASSUME Stands, NEW h \in Handlers,
           StoreRequest(h) \/ StoreEvent(h) \/ StoreCodexEvent(h) \/ ArchiveRaw(h) \/ StoreSpan(h)
    PROVE  Grows /\ JobInv'
<1>1. Busy(h) /\ Store(h, NoTiming)
  BY Zenon DEF StoreRequest, StoreEvent, StoreCodexEvent, ArchiveRaw, StoreSpan, Begins
<1>2. QED
  BY <1>1, StoreKeeps, NoTimeIsOwn

\* Fields of a handler's job are set, one after the other.
LEMMA SetTwo ==
    ASSUME JobInv, NEW h \in Handlers, NEW f, NEW g, NEW a, NEW b, NEW e,
           e = [[job[h] EXCEPT ![f] = a] EXCEPT ![g] = b]
    PROVE  [job EXCEPT ![h][f] = a, ![h][g] = b] = [job EXCEPT ![h] = e]
BY DEF JobInv

LEMMA RowSet ==
    ASSUME JobInv, NEW h \in Handlers, NEW a, NEW b
    PROVE  [job EXCEPT ![h].step = a, ![h].row = b]
           = [job EXCEPT ![h] = Job(job[h].export, job[h].pos, a, job[h].failed,
                                    b, job[h].due, job[h].timing, job[h].found)]
<1>1. PICK x, n, step, failed, row, due, timing, found :
         job[h] = Job(x, n, step, failed, row, due, timing, found)
  BY IsJobParts DEF JobInv, JobFits
<1>2. PICK j : j = Job(x, n, step, failed, row, due, timing, found)
  OBVIOUS
<1>3. PICK k : k = Job(x, n, a, failed, row, due, timing, found)
  OBVIOUS
<1>4. PICK e : e = Job(x, n, a, failed, b, due, timing, found)
  OBVIOUS
<1>5. [j EXCEPT !["step"] = a] = k
  BY <1>2, <1>3 DEF Job
<1>6. [k EXCEPT !["row"] = b] = e
  BY <1>3, <1>4 DEF Job
<1>7. e = [[job[h] EXCEPT !["step"] = a] EXCEPT !["row"] = b]
  BY <1>1, <1>2, <1>5, <1>6
<1>8. [job EXCEPT ![h]["step"] = a, ![h]["row"] = b] = [job EXCEPT ![h] = e]
  BY <1>7, SetTwo
<1>9. e = Job(job[h].export, job[h].pos, a, job[h].failed,
              b, job[h].due, job[h].timing, job[h].found)
  <2>1. /\ j.export = x /\ j.pos = n /\ j.failed = failed
        /\ j.step = step /\ j.row = row /\ j.due = due /\ j.timing = timing /\ j.found = found
    BY <1>2 DEF Job
  <2>2. QED
    BY <1>1, <1>2, <1>4, <2>1, Zenon
<1>10. QED
  BY <1>8, <1>9, Zenon

LEMMA TimingSet ==
    ASSUME JobInv, NEW h \in Handlers, NEW a, NEW b
    PROVE  [job EXCEPT ![h].step = a, ![h].timing = b]
           = [job EXCEPT ![h] = Job(job[h].export, job[h].pos, a, job[h].failed,
                                    job[h].row, job[h].due, b, job[h].found)]
<1>1. PICK x, n, step, failed, row, due, timing, found :
         job[h] = Job(x, n, step, failed, row, due, timing, found)
  BY IsJobParts DEF JobInv, JobFits
<1>2. PICK j : j = Job(x, n, step, failed, row, due, timing, found)
  OBVIOUS
<1>3. PICK k : k = Job(x, n, a, failed, row, due, timing, found)
  OBVIOUS
<1>4. PICK e : e = Job(x, n, a, failed, row, due, b, found)
  OBVIOUS
<1>5. [j EXCEPT !["step"] = a] = k
  BY <1>2, <1>3 DEF Job
<1>6. [k EXCEPT !["timing"] = b] = e
  BY <1>3, <1>4 DEF Job
<1>7. e = [[job[h] EXCEPT !["step"] = a] EXCEPT !["timing"] = b]
  BY <1>1, <1>2, <1>5, <1>6
<1>8. [job EXCEPT ![h]["step"] = a, ![h]["timing"] = b] = [job EXCEPT ![h] = e]
  BY <1>7, SetTwo
<1>9. e = Job(job[h].export, job[h].pos, a, job[h].failed,
              job[h].row, job[h].due, b, job[h].found)
  <2>1. /\ j.export = x /\ j.pos = n /\ j.failed = failed
        /\ j.step = step /\ j.row = row /\ j.due = due /\ j.timing = timing /\ j.found = found
    BY <1>2 DEF Job
  <2>2. QED
    BY <1>1, <1>2, <1>4, <2>1, Zenon
<1>10. QED
  BY <1>8, <1>9, Zenon

Dues(h, due, step) == job' = [job EXCEPT ![h].due = due, ![h].step = step]

LEMMA DueSet ==
    ASSUME JobInv, NEW h \in Handlers, NEW a, NEW b, Dues(h, a, b)
    PROVE  job'
           = [job EXCEPT ![h] = Job(job[h].export, job[h].pos, b, job[h].failed,
                                    job[h].row, a, job[h].timing, job[h].found)]
<1>1. PICK x, n, step, failed, row, due, timing, found :
         job[h] = Job(x, n, step, failed, row, due, timing, found)
  BY IsJobParts DEF JobInv, JobFits
<1>2. PICK j : j = Job(x, n, step, failed, row, due, timing, found)
  OBVIOUS
<1>3. PICK k : k = Job(x, n, step, failed, row, a, timing, found)
  OBVIOUS
<1>4. PICK e : e = Job(x, n, b, failed, row, a, timing, found)
  OBVIOUS
<1>5. [j EXCEPT !["due"] = a] = k
  BY <1>2, <1>3 DEF Job
<1>6. [k EXCEPT !["step"] = b] = e
  BY <1>3, <1>4 DEF Job
<1>7. e = [[job[h] EXCEPT !["due"] = a] EXCEPT !["step"] = b]
  BY <1>1, <1>2, <1>5, <1>6
<1>8. [job EXCEPT ![h]["due"] = a, ![h]["step"] = b] = [job EXCEPT ![h] = e]
  BY <1>7, SetTwo
<1>9. e = Job(job[h].export, job[h].pos, b, job[h].failed,
              job[h].row, a, job[h].timing, job[h].found)
  <2>1. /\ j.export = x /\ j.pos = n /\ j.failed = failed
        /\ j.step = step /\ j.row = row /\ j.due = due /\ j.timing = timing /\ j.found = found
    BY <1>2 DEF Job
  <2>2. QED
    BY <1>1, <1>2, <1>4, <2>1, Zenon
<1>10. job' = [job EXCEPT ![h] = e]
  BY <1>8 DEF Dues
<1>11. QED
  BY <1>9, <1>10, Zenon

-----------------------------------------------------------------------------
(* The steps of sessions.                                                   *)

\* What is remembered of a step was said by records of that step.
OwnStep(k, e) ==
    \E start \in Records, first \in Records \cup {NoRecord} :
        /\ e = [start |-> start, first |-> first]
        /\ dshStepKey(start) = k
        /\ first # NoRecord => dshStepKey(first) = k
StepsOwn ==
    /\ steps = [k \in DOMAIN steps |-> steps[k]]
    /\ \A k \in DOMAIN steps : OwnStep(k, steps[k])

LEMMA WithoutOwn ==
    ASSUME StepsOwn, NEW keys
    PROVE  LET kept == Without(steps, keys) IN
           /\ kept = [k \in DOMAIN kept |-> kept[k]]
           /\ DOMAIN kept \subseteq DOMAIN steps
           /\ \A k \in DOMAIN kept : OwnStep(k, kept[k])
BY DEF StepsOwn, Without, Restrict

LEMMA StartOwns ==
    ASSUME StepsOwn, NEW r \in Records, noteStart(r)
    PROVE  StepsOwn'
<1>1. PICK swept : swept = Without(steps, dusty)
  OBVIOUS
<1>2. \A k \in DOMAIN swept : OwnStep(k, swept[k])
  BY <1>1, WithoutOwn
<1>3. PICK key : key = dshStepKey(r)
  OBVIOUS
<1>4. PICK new : new = [start |-> r, first |-> NoRecord]
  OBVIOUS
<1>5. OwnStep(key, new)
  BY <1>3, <1>4 DEF OwnStep
<1>6. steps' = [k \in DOMAIN swept \cup {key} |-> IF k = key THEN new ELSE swept[k]]
  BY <1>1, <1>3, <1>4 DEF noteStart
<1>7. /\ steps' = [k \in DOMAIN steps' |-> steps'[k]]
      /\ \A k \in DOMAIN steps' : OwnStep(k, steps'[k])
  BY <1>2, <1>5, <1>6
<1>8. QED
  BY <1>7 DEF StepsOwn, OwnStep, dshStepKey

LEMMA FirstOwns ==
    ASSUME StepsOwn, NEW r \in Records, noteFirstToken(r)
    PROVE  StepsOwn'
<1>1. PICK key : key = dshStepKey(r)
  OBVIOUS
<1>2. CASE steps' = steps
  BY <1>2 DEF StepsOwn, OwnStep, dshStepKey
<1>3. CASE key \in DOMAIN steps /\ steps' = [steps EXCEPT ![key].first = r]
  <2>1. PICK start \in Records, first \in Records \cup {NoRecord} :
           /\ steps[key] = [start |-> start, first |-> first]
           /\ dshStepKey(start) = key
    BY <1>3 DEF StepsOwn, OwnStep
  <2>2. PICK new : new = [start |-> start, first |-> r]
    OBVIOUS
  <2>3. OwnStep(key, new)
    BY <1>1, <2>1, <2>2 DEF OwnStep
  <2>4. steps' = [steps EXCEPT ![key] = new]
    <3>1. PICK e : e = [start |-> start, first |-> first]
      OBVIOUS
    <3>2. [e EXCEPT !["first"] = r] = new
      BY <2>2, <3>1
    <3>3. steps[key] = e
      BY <2>1, <3>1
    <3>4. QED
      BY <1>3, <3>2, <3>3
  <2>5. /\ steps' = [k \in DOMAIN steps' |-> steps'[k]]
        /\ \A k \in DOMAIN steps' : OwnStep(k, steps'[k])
    BY <1>3, <2>3, <2>4 DEF StepsOwn
  <2>6. QED
    BY <2>5 DEF StepsOwn, OwnStep, dshStepKey
<1>4. QED
  BY <1>1, <1>2, <1>3 DEF noteFirstToken, dshVars

LEMMA TakeOwns ==
    ASSUME StepsOwn, NEW r \in Records, take(r)
    PROVE  StepsOwn'
<1>1. /\ steps' = [k \in DOMAIN steps' |-> steps'[k]]
      /\ \A k \in DOMAIN steps' : OwnStep(k, steps'[k])
  BY WithoutOwn DEF take
<1>2. QED
  BY <1>1 DEF StepsOwn, OwnStep, dshStepKey

LEMMA TimingIsOwn ==
    ASSUME StepsOwn, NEW r \in Records
    PROVE  LET timing == MessageTiming(r, Timing(r)) IN
           OwnTimes(r, {timing.ttft, timing.duration})
<1>1. PICK t : t = Timing(r)
  OBVIOUS
<1>2. PICK key : key = dshStepKey(r)
  OBVIOUS
<1>3. /\ t.start # NoRecord => dshStepKey(t.start) = key
      /\ t.first # NoRecord => dshStepKey(t.first) = key
  BY <1>1, <1>2, RecordAssumption DEF Timing, StepsOwn, OwnStep
<1>4. OwnTimes(r, {Elapsed(t.start, t.first), Elapsed(t.start, r)})
  BY <1>2, <1>3 DEF OwnTimes, Elapsed, NoSpan
<1>5. QED
  BY <1>1, <1>4 DEF MessageTiming

\* Records that store no row of their own, or only time one.
Passing == {"other", "step/start", "assistant/chunk", "step/end", "codex.websocket_request",
            "response.created", "codex.websocket_event", "codex.turn_ttft"}
LEMMA NoneToStore ==
    ASSUME NEW r, Trace[r].kind \in Passing
    PROVE  ~ToStore(r) /\ ~Message(r)
<1>1. Trace[r].kind \notin Stored
  BY DEF Passing, Stored
<1>2. ~Message(r)
  BY DEF Passing, Message
<1>3. QED
  BY <1>1, <1>2, Zenon DEF ToStore

LEMMA StepRecordKeeps ==
    ASSUME Stands, StepsOwn, NEW h \in Handlers, StepRecord(h)
    PROVE  Grows /\ JobInv' /\ StepsOwn'
<1>1. Busy(h) /\ Done(h, FALSE) /\ UNCHANGED rows
  BY DEF StepRecord, Begins, codexVars
<1>2. PICK r \in Records : r = Rec(h)
  BY <1>1, AtHand DEF Stands
<1>3. ~ToStore(r)
  <2>1. Trace[r].kind \in Passing
    BY <1>2 DEF StepRecord, Begins, Passing
  <2>2. QED
    BY <2>1, NoneToStore
<1>4. Grows
  BY <1>1, SameRows DEF Stands
<1>5. JobInv'
  BY <1>1, <1>2, <1>3, <1>4, DoneFits DEF Stands
<1>6. noteStart(r) \/ noteFirstToken(r) \/ take(r)
  BY <1>2 DEF StepRecord
<1>7. StepsOwn'
  BY <1>6, StartOwns, FirstOwns, TakeOwns
<1>8. QED
  BY <1>4, <1>5, <1>7

LEMMA PassKeeps ==
    ASSUME Stands, NEW h \in Handlers, PassRecord(h)
    PROVE  Grows /\ JobInv'
<1>1. Busy(h) /\ Done(h, FALSE) /\ UNCHANGED rows
  BY DEF PassRecord, Begins, codexVars
<1>2. PICK r \in Records : r = Rec(h)
  BY <1>1, AtHand DEF Stands
<1>3. ~ToStore(r)
  <2>1. Trace[r].kind \in Passing
    BY <1>2 DEF PassRecord, Begins, Passing
  <2>2. QED
    BY <2>1, NoneToStore
<1>4. Grows
  BY <1>1, SameRows DEF Stands
<1>5. QED
  BY <1>1, <1>2, <1>3, <1>4, DoneFits DEF Stands

LEMMA TakeTimingKeeps ==
    ASSUME Stands, StepsOwn, NEW h \in Handlers, TakeTiming(h)
    PROVE  Grows /\ JobInv' /\ StepsOwn'
<1>1. Busy(h) /\ UNCHANGED rows
  BY DEF TakeTiming, Begins, codexVars
<1>2. PICK r \in Records : r = Rec(h)
  BY <1>1, AtHand DEF Stands
<1>3. Grows
  BY <1>1, SameRows DEF Stands
<1>4. StepsOwn'
  BY <1>2, TakeOwns DEF TakeTiming
<1>5. CASE Trace[r].usage
  <2>1. PICK timing : timing = MessageTiming(r, Timing(r))
    OBVIOUS
  <2>2. OwnTimes(r, {timing.ttft, timing.duration})
    BY <2>1, TimingIsOwn
  <2>3. job' = [job EXCEPT ![h].step = "insert", ![h].timing = timing]
    BY <1>2, <1>5, <2>1, Zenon DEF TakeTiming
  <2>4. job[h].row \in CodexRows' \cup {0}
    BY <1>3, GrowsKeeps DEF Stands, JobInv, JobFits
  <2>5. job' = [job EXCEPT ![h] = Job(job[h].export, job[h].pos, "insert", job[h].failed,
                                      job[h].row, job[h].due, timing, job[h].found)]
    BY <2>3, TimingSet, Zenon DEF Stands
  <2>6. JobInv'
    <3>1. PICK row, due, found : row = job[h].row /\ due = job[h].due /\ found = job[h].found
      OBVIOUS
    <3>2. job' = [job EXCEPT ![h] = Job(job[h].export, job[h].pos, "insert", job[h].failed,
                                        row, due, timing, found)]
      BY <2>5, <3>1, Zenon
    <3>3. row \in CodexRows' \cup {0}
      BY <2>4, <3>1
    <3>4. PICK step : step = "insert"
      OBVIOUS
    <3>5. step \notin {"drain", "fill", "track"} /\ step # "add" /\ step # "stash"
      BY <3>4
    <3>6. QED
      BY <1>1, <1>2, <1>3, <2>2, <3>2, <3>3, <3>4, <3>5, GoesOn DEF Stands
  <2>7. QED
    BY <1>3, <1>4, <2>6
<1>6. CASE ~Trace[r].usage
  <2>1. ~ToStore(r)
    <3>1. Trace[r].kind = "assistant/message"
      BY <1>2 DEF TakeTiming, Begins
    <3>2. Trace[r].kind \notin Stored
      BY <3>1 DEF Stored
    <3>3. QED
      BY <1>6, <3>2, Zenon DEF ToStore
  <2>2. Done(h, FALSE)
    BY <1>2, <1>6, Zenon DEF TakeTiming
  <2>3. QED
    BY <1>1, <1>2, <1>3, <1>4, <2>1, <2>2, DoneFits DEF Stands
<1>7. QED
  BY <1>5, <1>6

LEMMA InsertMessageKeeps ==
    ASSUME Stands, NEW h \in Handlers, InsertMessage(h)
    PROVE  Grows /\ JobInv'
<1>1. Busy(h) /\ job[h].step = "insert" /\ Store(h, job[h].timing)
  BY Zenon DEF InsertMessage, Reached
<1>2. OwnTimes(Rec(h), {job[h].timing.ttft, job[h].timing.duration})
  BY <1>1, AtHand DEF Stands, JobInv, JobFits, StepFits
<1>3. QED
  BY <1>1, <1>2, StoreKeeps

-----------------------------------------------------------------------------
(* Codex.                                                                   *)

\* The handler's next step is about a row.
LEMMA RowMoves ==
    ASSUME Stands, Grows, NEW h \in Handlers, Busy(h), NEW r, r = Rec(h),
           NEW step, NEW row \in CodexRows' \cup {0}, On(h, step, row), step # "insert",
           step \in {"drain", "fill", "track"} => HasRow(r)',
           step = "add" => ~Message(r), step = "stash" => ~ToStore(r)
    PROVE  JobInv'
<1>1. PICK due, timing, found :
         due = job[h].due /\ timing = job[h].timing /\ found = job[h].found
  OBVIOUS
<1>2. job' = [job EXCEPT ![h] = Job(job[h].export, job[h].pos, step, job[h].failed,
                                    row, due, timing, found)]
  BY <1>1, RowSet, Zenon DEF On, Stands
<1>3. QED
  BY <1>2, GoesOn DEF Stands

LEMMA DuesJob ==
    ASSUME JobInv, NEW h \in Handlers, NEW due, NEW step, Dues(h, due, step), NEW row, NEW timing,
           NEW found, row = job[h].row, timing = job[h].timing, found = job[h].found
    PROVE  job' = [job EXCEPT ![h] = Job(job[h].export, job[h].pos, step, job[h].failed,
                                         row, due, timing, found)]
<1>1. job' = [job EXCEPT ![h] = Job(job[h].export, job[h].pos, step, job[h].failed,
                                    job[h].row, due, job[h].timing, job[h].found)]
  BY DueSet, Zenon
<1>2. QED
  BY <1>1, Zenon

\* The handler has what it is to apply from the stash.
LEMMA DueMoves ==
    ASSUME Stands, Grows, NEW h \in Handlers, Busy(h),
           job[h].step \in {"drain", "fill"},
           NEW due, NEW step \in {"track", "fill"}, Dues(h, due, step)
    PROVE  JobInv'
<1>1. PICK r \in Records : r = Rec(h)
  BY AtHand DEF Stands
<1>2. HasRow(r)
  BY <1>1, AtHand DEF Stands, JobInv, JobFits, StepFits
<1>3. HasRow(r)'
  BY <1>2, GrowsKeeps
<1>4. PICK row, timing, found :
         row = job[h].row /\ timing = job[h].timing /\ found = job[h].found
  OBVIOUS
<1>5. row \in CodexRows' \cup {0}
  BY <1>4, GrowsKeeps DEF Stands, JobInv, JobFits
<1>6. job' = [job EXCEPT ![h] = Job(job[h].export, job[h].pos, step, job[h].failed,
                                    row, due, timing, found)]
  BY <1>4, DuesJob DEF Stands
<1>7. step # "insert" /\ step # "add" /\ step # "stash"
  OBVIOUS
<1>8. QED
  BY <1>1, <1>3, <1>5, <1>6, <1>7, GoesOn DEF Stands

LEMMA AnchorKeeps ==
    ASSUME Stands, NEW h \in Handlers, InsertAnchor(h)
    PROVE  Grows /\ JobInv'
<1>1. Busy(h) /\ Trace[Rec(h)].kind = "codex.api_request"
  BY DEF InsertAnchor, Begins
<1>2. PICK r \in Records : r = Rec(h)
  BY <1>1, AtHand DEF Stands
<1>3. ~Message(r)
  BY <1>1, <1>2 DEF Message
<1>4. PICK own : own = IF Trace[r].error THEN [NoTiming EXCEPT !.duration = <<r, r>>] ELSE NoTiming
  OBVIOUS
<1>5. ASSUME Insert(r, own), On(h, IF Ignored(r) THEN "track" ELSE "drain",
                                IF Ignored(r) THEN 0 ELSE Len(rows) + 1)
      PROVE  Grows /\ JobInv'
  <2>1. Grows /\ HasRow(r)'
    BY <1>3, <1>5, InsertGrows DEF Stands
  <2>2. PICK step, row : /\ step = IF Ignored(r) THEN "track" ELSE "drain"
                         /\ row = IF Ignored(r) THEN 0 ELSE Len(rows) + 1
    OBVIOUS
  <2>3. On(h, step, row)
    BY <1>5, <2>2, Zenon
  <2>4. row \in CodexRows' \cup {0}
    <3>1. CASE Ignored(r)
      BY <2>2, <3>1
    <3>2. CASE ~Ignored(r)
      <4>1. PICK e : e = Row(r, own)
        OBVIOUS
      <4>2. IsRow(e) /\ e.of = r
        BY <4>1 DEF IsRow, Row
      <4>3. OwnRow(e)
        BY <1>3, <4>2 DEF OwnRow
      <4>4. rows' = Append(rows, e)
        BY <1>5, <3>2, <4>1 DEF Insert
      <4>5. Len(rows) + 1 \in DOMAIN rows' /\ rows'[Len(rows) + 1] = e
        BY <4>2, <4>3, <4>4, AppendGrows DEF Stands
      <4>6. QED
        BY <1>1, <1>2, <2>2, <3>2, <4>2, <4>5 DEF CodexRows, IsCodex
    <3>3. QED
      BY <3>1, <3>2
  <2>5. step \in {"track", "drain"}
    BY <2>2
  <2>6. step # "insert" /\ step # "add" /\ step # "stash"
    BY <2>5
  <2>7. QED
    BY <1>1, <1>2, <2>1, <2>3, <2>4, <2>6, RowMoves
<1>6. CASE Fails(h) /\ UNCHANGED rows
  BY <1>1, <1>6, FailsKeeps
<1>7. QED
  <2>1. \/ Insert(r, own) /\ On(h, IF Ignored(r) THEN "track" ELSE "drain",
                                IF Ignored(r) THEN 0 ELSE Len(rows) + 1)
        \/ Fails(h) /\ UNCHANGED rows
    BY <1>2, <1>4, Zenon DEF InsertAnchor
  <2>2. QED
    BY <1>5, <1>6, <2>1

LEMMA DrainKeeps ==
    ASSUME Stands, NEW h \in Handlers, DrainStash(h)
    PROVE  Grows /\ JobInv'
<1>1. Busy(h) /\ job[h].step = "drain" /\ UNCHANGED rows
  BY DEF DrainStash, Reached
<1>2. PICK due, step : /\ due = Drained(Rec(h))
                       /\ step = IF Drained(Rec(h)) = {} THEN "track" ELSE "fill"
  OBVIOUS
<1>3. Dues(h, due, step)
  BY <1>2, Zenon DEF DrainStash, Dues
<1>4. step \in {"track", "fill"}
  BY <1>2
<1>5. Grows
  BY <1>1, SameRows DEF Stands
<1>6. QED
  BY <1>1, <1>3, <1>4, <1>5, DueMoves

\* A statement that sets the time of a row, if it finds one.
LEMMA TargetsAreCodex ==
    ASSUME RowsOK, NEW ids, ids \subseteq CodexRows
    PROVE  Newest(ids) \in CodexRows \cup {0}
<1>1. ids \in SUBSET DOMAIN rows
  BY DEF CodexRows
<1>2. QED
  BY <1>1, NewestIsOne

LEMMA TTFTGrows ==
    ASSUME RowsOK, NEW row \in CodexRows \cup {0}, NEW r, NEW value,
           UpdateCodexRequestTTFT(row, r, value)
    PROVE  Grows
<1>1. CASE value = NoSpan
  BY <1>1, SameRows DEF UpdateCodexRequestTTFT
<1>2. CASE value # NoSpan /\ row # 0
  <2>1. PICK i : i = IF rows[row].ttft = NoSpan THEN row ELSE 0
    OBVIOUS
  <2>2. i \in CodexRows \cup {0} /\ Fill(i, "ttft", value)
    BY <1>2, <2>1 DEF UpdateCodexRequestTTFT
  <2>3. QED
    BY <2>2, FillGrows
<1>3. CASE value # NoSpan /\ row = 0
  <2>1. PICK ids : ids = {i \in OpenRows(Conv(r), "ttft", Trace[r].at - SpanAge) : ~Failed(i)}
    OBVIOUS
  <2>2. ids \subseteq CodexRows
    BY <2>1 DEF OpenRows, CodexRows
  <2>3. Fill(Newest(ids), "ttft", value)
    BY <1>3, <2>1, Zenon DEF UpdateCodexRequestTTFT
  <2>4. QED
    BY <2>2, <2>3, TargetsAreCodex, FillGrows
<1>4. QED
  BY <1>1, <1>2, <1>3

LEMMA DurationGrows ==
    ASSUME RowsOK, NEW row \in CodexRows \cup {0}, NEW r, NEW value,
           UpdateCodexRequestDuration(row, r, value)
    PROVE  Grows
<1>1. CASE row # 0
  <2>1. PICK i : i = IF rows[row].duration = NoSpan THEN row ELSE 0
    OBVIOUS
  <2>2. i \in CodexRows \cup {0} /\ Fill(i, "duration", value)
    BY <1>1, <2>1 DEF UpdateCodexRequestDuration
  <2>3. QED
    BY <2>2, FillGrows
<1>2. CASE row = 0
  <2>1. PICK ids : ids = OpenRows(Conv(r), "duration", Trace[r].at - SpanAge)
    OBVIOUS
  <2>2. ids \subseteq CodexRows
    BY <2>1 DEF OpenRows, CodexRows
  <2>3. Fill(Newest(ids), "duration", value)
    BY <1>2, <2>1, Zenon DEF UpdateCodexRequestDuration
  <2>4. QED
    BY <2>2, <2>3, TargetsAreCodex, FillGrows
<1>3. QED
  BY <1>1, <1>2

LEMMA TurnGrows ==
    ASSUME RowsOK, NEW r, UpdateCodexTurnTTFT(r)
    PROVE  Grows
<1>1. PICK ids : /\ TurnTarget(r) = Newest(ids)
                 /\ ids \subseteq CodexRows
  BY DEF TurnTarget, Latest, OpenRows, CodexRows
<1>2. Fill(Newest(ids), "ttft", <<r, r>>)
  BY <1>1, Zenon DEF UpdateCodexTurnTTFT
<1>3. QED
  BY <1>1, <1>2, TargetsAreCodex, FillGrows

LEMMA FillStashedKeeps ==
    ASSUME Stands, NEW h \in Handlers, FillStashed(h)
    PROVE  Grows /\ JobInv'
<1>1. Busy(h) /\ job[h].step = "fill"
  BY DEF FillStashed, Reached
<1>2. PICK row, due : row = job[h].row /\ due = job[h].due
  OBVIOUS
<1>3. row \in CodexRows \cup {0}
  BY <1>2 DEF Stands, JobInv, JobFits
<1>4. PICK e \in due :
         /\ UpdateCodexRequestTTFT(row, e.of, <<e.of, e.of>>) \/ UNCHANGED rows
         /\ Dues(h, due \ {e}, IF due = {e} THEN "track" ELSE "fill")
  BY <1>2, Zenon DEF FillStashed, Dues
<1>5. Grows
  BY <1>3, <1>4, TTFTGrows, SameRows DEF Stands
<1>6. PICK left, step : /\ left = due \ {e}
                        /\ step = IF due = {e} THEN "track" ELSE "fill"
  OBVIOUS
<1>7. Dues(h, left, step)
  BY <1>4, <1>6, Zenon
<1>8. step \in {"track", "fill"}
  BY <1>6
<1>9. QED
  BY <1>1, <1>5, <1>7, <1>8, DueMoves

LEMMA TrackKeeps ==
    ASSUME Stands, NEW h \in Handlers, TrackAnchor(h)
    PROVE  Grows /\ JobInv'
<1>1. Busy(h) /\ job[h].step = "track" /\ Done(h, FALSE) /\ UNCHANGED rows
  BY DEF TrackAnchor, Reached
<1>2. PICK r \in Records : r = Rec(h)
  BY <1>1, AtHand DEF Stands
<1>3. HasRow(r)
  BY <1>1, <1>2, AtHand DEF Stands, JobInv, JobFits, StepFits
<1>4. Grows /\ HasRow(r)'
  BY <1>1, <1>3, SameRows, GrowsKeeps DEF Stands
<1>5. QED
  BY <1>1, <1>2, <1>4, DoneFits DEF Stands

LEMMA WebsocketKeeps ==
    ASSUME Stands, NEW h \in Handlers, TrackWebsocket(h)
    PROVE  Grows /\ JobInv'
<1>1. Busy(h) /\ Done(h, FALSE) /\ UNCHANGED rows
  BY DEF TrackWebsocket, Begins
<1>2. PICK r \in Records : r = Rec(h)
  BY <1>1, AtHand DEF Stands
<1>3. Trace[r].kind \in Passing
  BY <1>2 DEF TrackWebsocket, Begins, Passing
<1>4. Grows
  BY <1>1, SameRows DEF Stands
<1>5. QED
  BY <1>1, <1>2, <1>3, <1>4, NoneToStore, DoneFits DEF Stands

\* A tracked request is led to a row of Codex or to none.
SpansOK ==
    /\ spans = [k \in DOMAIN spans |-> spans[k]]
    /\ \A k \in DOMAIN spans : spans[k].row \in CodexRows \cup {0}

\* The handler goes on to update what it found tracked.
Found(h, s) ==
    job' = [job EXCEPT ![h] = [@ EXCEPT !.step = "update", !.row = s.row, !.found = s.start]]

LEMMA FoundJob ==
    ASSUME JobInv, NEW h \in Handlers, NEW s, Found(h, s)
    PROVE  job' = [job EXCEPT ![h] = Job(job[h].export, job[h].pos, "update", job[h].failed,
                                         s.row, job[h].due, job[h].timing, s.start)]
<1>1. PICK j : j = job[h]
  OBVIOUS
<1>2. j = Job(j.export, j.pos, j.step, j.failed, j.row, j.due, j.timing, j.found)
  BY <1>1, IsJobParts DEF JobInv, JobFits
<1>3. PICK x, n, step, failed, row, due, timing, found :
         /\ x = j.export /\ n = j.pos /\ step = j.step /\ failed = j.failed
         /\ row = j.row /\ due = j.due /\ timing = j.timing /\ found = j.found
  OBVIOUS
<1>4. PICK a, b, c : a = "update" /\ b = s.row /\ c = s.start
  OBVIOUS
<1>5. [Job(x, n, step, failed, row, due, timing, found)
       EXCEPT !.step = a, !.row = b, !.found = c]
      = Job(x, n, a, failed, b, due, timing, c)
  <2>1. [Job(x, n, step, failed, row, due, timing, found) EXCEPT !.step = a]
        = Job(x, n, a, failed, row, due, timing, found)
    BY DEF Job
  <2>2. [Job(x, n, a, failed, row, due, timing, found) EXCEPT !.row = b]
        = Job(x, n, a, failed, b, due, timing, found)
    BY DEF Job
  <2>3. [Job(x, n, a, failed, b, due, timing, found) EXCEPT !.found = c]
        = Job(x, n, a, failed, b, due, timing, c)
    BY DEF Job
  <2>4. [Job(x, n, step, failed, row, due, timing, found)
         EXCEPT !.step = a, !.row = b, !.found = c]
        = [[[Job(x, n, step, failed, row, due, timing, found) EXCEPT !.step = a]
              EXCEPT !.row = b] EXCEPT !.found = c]
    OBVIOUS
  <2>5. QED
    BY <2>1, <2>2, <2>3, <2>4, Zenon
<1>6. job' = [job EXCEPT ![h] = [j EXCEPT !.step = a, !.row = b, !.found = c]]
  BY <1>1, <1>4, Zenon DEF Found
<1>7. j = Job(x, n, step, failed, row, due, timing, found)
  BY <1>2, <1>3, Zenon
<1>8. job' = [job EXCEPT ![h] = Job(x, n, a, failed, b, due, timing, c)]
  BY <1>5, <1>6, <1>7, Zenon
<1>9. QED
  BY <1>1, <1>3, <1>4, <1>8, Zenon

LEMMA LookUpKeeps ==
    ASSUME Stands, SpansOK, NEW h \in Handlers, LookUp(h)
    PROVE  Grows /\ JobInv'
<1>1. Begins(h, {"response.created", "codex.websocket_event"}) /\ UNCHANGED codexVars
  BY Zenon DEF LookUp
<1>2. Busy(h) /\ UNCHANGED rows
  BY <1>1 DEF Begins, codexVars
<1>3. PICK r \in Records : r = Rec(h)
  BY <1>2, AtHand DEF Stands
<1>4. Trace[r].kind \in Passing
  BY <1>1, <1>3 DEF Begins, Passing
<1>5. Grows
  BY <1>2, SameRows DEF Stands
<1>6. CASE Done(h, FALSE)
  BY <1>2, <1>3, <1>4, <1>5, <1>6, NoneToStore, DoneFits DEF Stands
<1>7. ASSUME NEW s \in lookupRequest(r), Found(h, s)
      PROVE  JobInv'
  <2>1. PICK step, row, found : step = "update" /\ row = s.row /\ found = s.start
    OBVIOUS
  <2>2. \E k \in DOMAIN spans : s = spans[k]
    BY <1>7, Zenon DEF lookupRequest, Eligible
  <2>3. row \in CodexRows' \cup {0}
    BY <1>5, <2>1, <2>2, GrowsKeeps DEF SpansOK
  <2>4. PICK due, timing : due = job[h].due /\ timing = job[h].timing
    OBVIOUS
  <2>5. job' = [job EXCEPT ![h] = Job(job[h].export, job[h].pos, step, job[h].failed,
                                      row, due, timing, found)]
    BY <1>7, <2>1, <2>4, FoundJob, Zenon DEF Stands
  <2>6. step # "insert" /\ step \notin {"drain", "fill", "track"} /\ step # "add" /\ step # "stash"
    BY <2>1
  <2>7. QED
    BY <1>2, <1>3, <1>5, <2>3, <2>5, <2>6, GoesOn DEF Stands
<1>8. Done(h, FALSE) \/ \E s \in lookupRequest(r) : Found(h, s)
  BY <1>3, Zenon DEF LookUp, Found
<1>9. QED
  BY <1>5, <1>6, <1>7, <1>8, Zenon

LEMMA UpdateTTFTKeeps ==
    ASSUME Stands, NEW h \in Handlers, UpdateTTFT(h)
    PROVE  Grows /\ JobInv'
<1>1. Busy(h) /\ Trace[Rec(h)].kind = "response.created"
  BY DEF UpdateTTFT, Reached
<1>2. PICK r \in Records : r = Rec(h)
  BY <1>1, AtHand DEF Stands
<1>3. ~ToStore(r)
  BY <1>1, <1>2, NoneToStore DEF Passing
<1>4. PICK row, value : row = job[h].row /\ value = Measured(h)
  OBVIOUS
<1>5. row \in CodexRows \cup {0}
  BY <1>4 DEF Stands, JobInv, JobFits
<1>6. /\ UpdateCodexRequestTTFT(row, r, value) \/ UNCHANGED rows
      /\ Done(h, FALSE) \/ Fails(h)
  BY <1>2, <1>4, Zenon DEF UpdateTTFT
<1>7. Grows
  BY <1>5, <1>6, TTFTGrows, SameRows DEF Stands
<1>8. QED
  BY <1>1, <1>2, <1>3, <1>6, <1>7, DoneFits DEF Stands, Fails

LEMMA UpdateDurationKeeps ==
    ASSUME Stands, NEW h \in Handlers, UpdateDuration(h)
    PROVE  Grows /\ JobInv'
<1>1. Busy(h) /\ Trace[Rec(h)].kind = "codex.websocket_event"
  BY DEF UpdateDuration, Reached
<1>2. PICK r \in Records : r = Rec(h)
  BY <1>1, AtHand DEF Stands
<1>3. ~ToStore(r) /\ ~Message(r)
  BY <1>1, <1>2, NoneToStore DEF Passing
<1>4. PICK row, value : row = job[h].row /\ value = Measured(h)
  OBVIOUS
<1>5. row \in CodexRows \cup {0}
  BY <1>4 DEF Stands, JobInv, JobFits
<1>6. /\ UpdateCodexRequestDuration(row, r, value) \/ UNCHANGED rows
      /\ Done(h, FALSE) \/ Fails(h) \/ On(h, "add", 0)
  BY <1>2, <1>4, Zenon DEF UpdateDuration
<1>7. Grows
  BY <1>5, <1>6, DurationGrows, SameRows DEF Stands
<1>8. CASE Done(h, FALSE) \/ Fails(h)
  BY <1>1, <1>2, <1>3, <1>7, <1>8, DoneFits DEF Stands, Fails
<1>9. CASE On(h, "add", 0)
  <2>1. PICK step, i : step = "add" /\ i = 0
    OBVIOUS
  <2>2. On(h, step, i) /\ i \in CodexRows' \cup {0}
    BY <1>9, <2>1
  <2>3. step # "insert" /\ step \notin {"drain", "fill", "track"} /\ step # "stash"
    BY <2>1
  <2>4. QED
    BY <1>1, <1>2, <1>3, <1>7, <2>2, <2>3, RowMoves
<1>10. QED
  BY <1>6, <1>7, <1>8, <1>9

LEMMA AddRowKeeps ==
    ASSUME Stands, NEW h \in Handlers, AddDurationRow(h)
    PROVE  Grows /\ JobInv'
<1>1. PICK timing : timing = [NoTiming EXCEPT !.duration = Measured(h)]
  OBVIOUS
<1>2. Busy(h) /\ job[h].step = "add" /\ Store(h, timing)
  BY <1>1, Zenon DEF AddDurationRow, Reached
<1>3. ~Message(Rec(h))
  BY <1>2, AtHand DEF Stands, JobInv, JobFits, StepFits
<1>4. QED
  BY <1>2, <1>3, StoreKeeps

LEMMA FillTurnKeeps ==
    ASSUME Stands, NEW h \in Handlers, FillTurn(h)
    PROVE  Grows /\ JobInv'
<1>1. Busy(h) /\ Trace[Rec(h)].kind = "codex.turn_ttft"
  BY DEF FillTurn, Begins
<1>2. PICK r \in Records : r = Rec(h)
  BY <1>1, AtHand DEF Stands
<1>3. ~ToStore(r)
  BY <1>1, <1>2, NoneToStore DEF Passing
<1>4. /\ UpdateCodexTurnTTFT(r) \/ UNCHANGED rows
      /\ Done(h, FALSE) \/ Fails(h) \/ On(h, "stash", 0)
  BY <1>2, Zenon DEF FillTurn
<1>5. Grows
  BY <1>4, TurnGrows, SameRows DEF Stands
<1>6. CASE Done(h, FALSE) \/ Fails(h)
  BY <1>1, <1>2, <1>3, <1>5, <1>6, DoneFits DEF Stands, Fails
<1>7. CASE On(h, "stash", 0)
  <2>1. PICK step, i : step = "stash" /\ i = 0
    OBVIOUS
  <2>2. On(h, step, i) /\ i \in CodexRows' \cup {0}
    BY <1>7, <2>1
  <2>3. step # "insert" /\ step \notin {"drain", "fill", "track"} /\ step # "add"
    BY <2>1
  <2>4. QED
    BY <1>1, <1>2, <1>3, <1>5, <2>2, <2>3, RowMoves
<1>8. QED
  BY <1>4, <1>5, <1>6, <1>7

LEMMA StashTurnKeeps ==
    ASSUME Stands, NEW h \in Handlers, StashTurn(h)
    PROVE  Grows /\ JobInv'
<1>1. Busy(h) /\ job[h].step = "stash" /\ Done(h, FALSE) /\ UNCHANGED rows
  BY DEF StashTurn, Reached
<1>2. PICK r \in Records : r = Rec(h)
  BY <1>1, AtHand DEF Stands
<1>3. ~ToStore(r)
  BY <1>1, <1>2, AtHand DEF Stands, JobInv, JobFits, StepFits
<1>4. Grows
  BY <1>1, SameRows DEF Stands
<1>5. QED
  BY <1>1, <1>2, <1>3, <1>4, DoneFits DEF Stands

-----------------------------------------------------------------------------
(* The tracker of Codex requests.                                           *)

LEMMA RecordSpans ==
    ASSUME SpansOK, Grows, NEW r, NEW row \in CodexRows' \cup {0}, recordRequest(r, row)
    PROVE  SpansOK'
<1>1. PICK kept : kept = Without(spans, {k \in DOMAIN spans :
                                            Trace[spans[k].start].at < Trace[r].at - TrackAge})
  OBVIOUS
<1>2. \A k \in DOMAIN kept : kept[k].row \in CodexRows' \cup {0}
  BY <1>1, GrowsKeeps DEF SpansOK, Without, Restrict
<1>3. PICK key :
         key = IF Trace[r].span = "" THEN <<"fallback", r>> ELSE <<"span", Trace[r].span>>
  BY Zenon
<1>4. PICK start :
         start = IF Trace[kept[key].start].at < Trace[r].at THEN kept[key].start ELSE r
  OBVIOUS
<1>5. PICK old1 : old1 = IF row = 0 THEN kept[key].row ELSE row
  OBVIOUS
<1>6. PICK new : new = IF key \notin DOMAIN kept THEN [row |-> row, start |-> r]
                       ELSE [row |-> old1, start |-> start]
  OBVIOUS
<1>7. spans' = [k \in DOMAIN kept \cup {key} |-> IF k = key THEN new ELSE kept[k]]
  BY <1>1, <1>3, <1>4, <1>5, <1>6, Zenon DEF recordRequest
<1>8. new.row \in CodexRows' \cup {0}
  <2>1. CASE key \notin DOMAIN kept
    BY <1>6, <2>1
  <2>2. CASE key \in DOMAIN kept
    <3>1. old1 \in CodexRows' \cup {0}
      BY <1>2, <1>5, <2>2
    <3>2. QED
      BY <1>6, <2>2, <3>1
  <2>3. QED
    BY <2>1, <2>2
<1>9. /\ spans' = [k \in DOMAIN spans' |-> spans'[k]]
      /\ \A k \in DOMAIN spans' : spans'[k].row \in CodexRows' \cup {0}
  BY <1>2, <1>7, <1>8
<1>10. QED
  BY <1>9 DEF SpansOK

-----------------------------------------------------------------------------
(* The invariant.                                                           *)

\* What export x carries that is to be stored is in the database.
StoredAll(x) == \A n \in DOMAIN Exports[x] : ToStore(Exports[x][n]) => HasRow(Exports[x][n])

LogInv ==
    /\ Stands /\ StepsOwn /\ SpansOK
    /\ \A i \in DOMAIN rows : OwnRow(rows[i])
    /\ todo \subseteq DOMAIN Exports
    /\ \A x \in answered : x \in DOMAIN Exports /\ StoredAll(x)

LEMMA StepsStay ==
    ASSUME StepsOwn, UNCHANGED steps
    PROVE  StepsOwn'
BY DEF StepsOwn, OwnStep, dshStepKey

LEMMA SpansStay ==
    ASSUME SpansOK, Grows, UNCHANGED spans
    PROVE  SpansOK'
BY GrowsKeeps DEF SpansOK

LEMMA InvStays ==
    ASSUME LogInv, Grows, JobInv', StepsOwn', SpansOK', todo' \subseteq DOMAIN Exports,
           \A x \in answered' : x \in answered \/ (x \in DOMAIN Exports /\ StoredAll(x))
    PROVE  LogInv'
<1>1. RowsOK'
  BY DEF Grows
<1>2. \A i \in DOMAIN rows' : OwnRow(rows'[i])
  BY DEF LogInv, Grows
<1>3. ASSUME NEW x \in answered'
      PROVE  x \in DOMAIN Exports /\ StoredAll(x)'
  <2>1. x \in DOMAIN Exports /\ StoredAll(x)
    BY <1>3 DEF LogInv
  <2>2. QED
    BY <2>1, GrowsKeeps DEF StoredAll
<1>4. (\A i \in DOMAIN rows : OwnRow(rows[i]))'
  BY <1>2 DEF OwnRow, OwnTimes, Message, dshStepKey, NoSpan
<1>5. QED
  BY <1>1, <1>3, <1>4 DEF LogInv, Stands

LEMMA HandlingKeeps ==
    ASSUME LogInv, NEW h \in Handlers, Grows, JobInv', StepsOwn', SpansOK', UNCHANGED <<todo, answered>>
    PROVE  LogInv'
<1>1. todo' \subseteq DOMAIN Exports /\ \A x \in answered' : x \in answered
  BY DEF LogInv
<1>2. QED
  BY <1>1, InvStays

LEMMA HandleKeeps ==
    ASSUME LogInv, NEW h \in Handlers, Handle(h)
    PROVE  LogInv'
<1>1. Stands /\ StepsOwn /\ SpansOK
  BY DEF LogInv
<1>2. ASSUME StoreRequest(h) \/ StoreEvent(h) \/ StoreCodexEvent(h) \/ ArchiveRaw(h) \/ StoreSpan(h)
      PROVE  LogInv'
  <2>1. Grows /\ JobInv'
    BY <1>1, <1>2, PlainStores
  <2>2. UNCHANGED <<steps, spans, todo, answered>>
    BY <1>2, Zenon DEF StoreRequest, StoreEvent, StoreCodexEvent, ArchiveRaw, StoreSpan, Store, dshVars
  <2>3. QED
    BY <1>1, <2>1, <2>2, StepsStay, SpansStay, HandlingKeeps
<1>3. ASSUME PassRecord(h)
      PROVE  LogInv'
  <2>1. Grows /\ JobInv'
    BY <1>1, <1>3, PassKeeps
  <2>2. UNCHANGED <<steps, spans, todo, answered>>
    BY <1>3 DEF PassRecord, dshVars, codexVars, exportVars
  <2>3. QED
    BY <1>1, <2>1, <2>2, StepsStay, SpansStay, HandlingKeeps
<1>4. ASSUME StepRecord(h)
      PROVE  LogInv'
  <2>1. Grows /\ JobInv' /\ StepsOwn'
    BY <1>1, <1>4, StepRecordKeeps
  <2>2. UNCHANGED <<spans, todo, answered>>
    BY <1>4 DEF StepRecord, codexVars, exportVars
  <2>3. QED
    BY <1>1, <2>1, <2>2, SpansStay, HandlingKeeps
<1>5. ASSUME TakeTiming(h)
      PROVE  LogInv'
  <2>1. Grows /\ JobInv' /\ StepsOwn'
    BY <1>1, <1>5, TakeTimingKeeps
  <2>2. UNCHANGED <<spans, todo, answered>>
    BY <1>5, Zenon DEF TakeTiming, codexVars, exportVars
  <2>3. QED
    BY <1>1, <2>1, <2>2, SpansStay, HandlingKeeps
<1>6. ASSUME InsertMessage(h)
      PROVE  LogInv'
  <2>1. Grows /\ JobInv'
    BY <1>1, <1>6, InsertMessageKeeps
  <2>2. UNCHANGED <<steps, spans, todo, answered>>
    BY <1>6, Zenon DEF InsertMessage, Store, dshVars
  <2>3. QED
    BY <1>1, <2>1, <2>2, StepsStay, SpansStay, HandlingKeeps
<1>7. ASSUME InsertAnchor(h)
      PROVE  LogInv'
  <2>1. Grows /\ JobInv'
    BY <1>1, <1>7, AnchorKeeps
  <2>2. UNCHANGED <<steps, spans, todo, answered>>
    BY <1>7, Zenon DEF InsertAnchor, dshVars
  <2>3. QED
    BY <1>1, <2>1, <2>2, StepsStay, SpansStay, HandlingKeeps
<1>8. ASSUME DrainStash(h)
      PROVE  LogInv'
  <2>1. Grows /\ JobInv'
    BY <1>1, <1>8, DrainKeeps
  <2>2. UNCHANGED <<steps, spans, todo, answered>>
    BY <1>8, Zenon DEF DrainStash, dshVars, exportVars
  <2>3. QED
    BY <1>1, <2>1, <2>2, StepsStay, SpansStay, HandlingKeeps
<1>9. ASSUME FillStashed(h)
      PROVE  LogInv'
  <2>1. Grows /\ JobInv'
    BY <1>1, <1>9, FillStashedKeeps
  <2>2. UNCHANGED <<steps, spans, todo, answered>>
    BY <1>9, Zenon DEF FillStashed, dshVars
  <2>3. QED
    BY <1>1, <2>1, <2>2, StepsStay, SpansStay, HandlingKeeps
<1>10. ASSUME TrackAnchor(h)
       PROVE  LogInv'
  <2>1. Grows /\ JobInv'
    BY <1>1, <1>10, TrackKeeps
  <2>2. UNCHANGED <<steps, todo, answered>>
    BY <1>10, Zenon DEF TrackAnchor, dshVars, exportVars
  <2>3. PICK row, r : row = job[h].row /\ r = Rec(h)
    OBVIOUS
  <2>4. row \in CodexRows' \cup {0}
    BY <1>1, <2>1, <2>3, GrowsKeeps DEF Stands, JobInv, JobFits
  <2>5. UNCHANGED spans \/ recordRequest(r, row)
    BY <1>10, <2>3, Zenon DEF TrackAnchor
  <2>6. SpansOK'
    BY <1>1, <2>1, <2>4, <2>5, RecordSpans, SpansStay
  <2>7. QED
    BY <1>1, <2>1, <2>2, <2>6, StepsStay, HandlingKeeps
<1>11. ASSUME TrackWebsocket(h)
       PROVE  LogInv'
  <2>1. Grows /\ JobInv'
    BY <1>1, <1>11, WebsocketKeeps
  <2>2. UNCHANGED <<steps, todo, answered>>
    BY <1>11, Zenon DEF TrackWebsocket, dshVars, exportVars
  <2>3. PICK row, r : row = 0 /\ r = Rec(h)
    OBVIOUS
  <2>4. recordRequest(r, row)
    BY <1>11, <2>3, Zenon DEF TrackWebsocket
  <2>5. SpansOK'
    BY <1>1, <2>1, <2>3, <2>4, RecordSpans
  <2>6. QED
    BY <1>1, <2>1, <2>2, <2>5, StepsStay, HandlingKeeps
<1>12. ASSUME LookUp(h)
       PROVE  LogInv'
  <2>1. Grows /\ JobInv'
    BY <1>1, <1>12, LookUpKeeps
  <2>2. UNCHANGED <<dshVars, codexVars, exportVars>>
    BY <1>12, Zenon DEF LookUp
  <2>3. UNCHANGED <<steps, spans, todo, answered>>
    BY <2>2 DEF dshVars, codexVars, exportVars
  <2>4. QED
    BY <1>1, <2>1, <2>3, StepsStay, SpansStay, HandlingKeeps
<1>13. ASSUME UpdateTTFT(h)
       PROVE  LogInv'
  <2>1. Grows /\ JobInv'
    BY <1>1, <1>13, UpdateTTFTKeeps
  <2>2. UNCHANGED <<steps, spans, todo, answered>>
    BY <1>13, Zenon DEF UpdateTTFT, dshVars
  <2>3. QED
    BY <1>1, <2>1, <2>2, StepsStay, SpansStay, HandlingKeeps
<1>14. ASSUME UpdateDuration(h)
       PROVE  LogInv'
  <2>1. Grows /\ JobInv'
    BY <1>1, <1>14, UpdateDurationKeeps
  <2>2. UNCHANGED <<steps, spans, todo, answered>>
    BY <1>14, Zenon DEF UpdateDuration, dshVars
  <2>3. QED
    BY <1>1, <2>1, <2>2, StepsStay, SpansStay, HandlingKeeps
<1>15. ASSUME AddDurationRow(h)
       PROVE  LogInv'
  <2>1. Grows /\ JobInv'
    BY <1>1, <1>15, AddRowKeeps
  <2>2. UNCHANGED <<steps, spans, todo, answered>>
    BY <1>15, Zenon DEF AddDurationRow, Store, dshVars
  <2>3. QED
    BY <1>1, <2>1, <2>2, StepsStay, SpansStay, HandlingKeeps
<1>16. ASSUME FillTurn(h)
       PROVE  LogInv'
  <2>1. Grows /\ JobInv'
    BY <1>1, <1>16, FillTurnKeeps
  <2>2. UNCHANGED <<steps, spans, todo, answered>>
    BY <1>16, Zenon DEF FillTurn, dshVars
  <2>3. QED
    BY <1>1, <2>1, <2>2, StepsStay, SpansStay, HandlingKeeps
<1>17. ASSUME StashTurn(h)
       PROVE  LogInv'
  <2>1. Grows /\ JobInv'
    BY <1>1, <1>17, StashTurnKeeps
  <2>2. UNCHANGED <<steps, spans, todo, answered>>
    BY <1>17, Zenon DEF StashTurn, dshVars, exportVars
  <2>3. QED
    BY <1>1, <2>1, <2>2, StepsStay, SpansStay, HandlingKeeps
<1>18. QED
  BY <1>2, <1>3, <1>4, <1>5, <1>6, <1>7, <1>8, <1>9, <1>10, <1>11, <1>12, <1>13, <1>14, <1>15,
     <1>16, <1>17, Zenon DEF Handle

\* A handler without an export.
LEMMA IdleFits ==
    JobFits(Idle)'
<1>1. Idle = Job(Nobody, 1, "record", 0, 0, {}, NoTiming, NoRecord)
  BY DEF Idle, Job
<1>2. IsJob(Idle)
  BY <1>1, JobIs
<1>3. Idle.row = 0 /\ Idle.export = Nobody /\ Idle.pos = 1 /\ Idle.step = "record"
  BY DEF Idle
<1> HIDE DEF Idle
<1>4. QED
  BY <1>2, <1>3 DEF JobFits, StepFits, Working, PassedStored, IsJob, Job

LEMMA DeliverKeeps ==
    ASSUME LogInv, NEW h \in Handlers, Deliver(h)
    PROVE  LogInv'
<1>1. Stands /\ StepsOwn /\ SpansOK
  BY DEF LogInv
<1>2. UNCHANGED <<rows, steps, spans, answered>>
  BY DEF Deliver, dshVars, codexVars
<1>3. Grows
  BY <1>1, <1>2, SameRows DEF Stands
<1>4. PICK x \in todo : job' = [job EXCEPT ![h].export = x] /\ todo' = todo \ {x}
  BY DEF Deliver
<1>5. x \in DOMAIN Exports /\ todo' \subseteq DOMAIN Exports
  BY <1>4 DEF LogInv
<1>6. PICK j : j = job[h]
  OBVIOUS
<1>7. JobFits(j) /\ j.export = Nobody
  BY <1>1, <1>6 DEF Stands, JobInv, Deliver
<1>8. /\ j.pos = 1 /\ j.step = "record" /\ j.failed \in Nat /\ j.row \in CodexRows' \cup {0}
      /\ j = Job(Nobody, 1, j.step, j.failed, j.row, j.due, j.timing, j.found)
  BY <1>3, <1>7, GrowsKeeps, IsJobParts DEF JobFits
<1>9. PICK e : e = Job(x, 1, j.step, j.failed, j.row, j.due, j.timing, j.found)
  OBVIOUS
<1>10. e.export = x /\ e.pos = 1 /\ e.step = j.step /\ e.failed = j.failed /\ e.row = j.row
  BY <1>9 DEF Job
<1>11. job' = [job EXCEPT ![h] = e]
  <2>1. PICK step, failed, row, due, timing, found :
           /\ step = j.step /\ failed = j.failed /\ row = j.row
           /\ due = j.due /\ timing = j.timing /\ found = j.found
    OBVIOUS
  <2>2. j = Job(Nobody, 1, step, failed, row, due, timing, found)
    BY <1>8, <2>1, Zenon
  <2>3. e = Job(x, 1, step, failed, row, due, timing, found)
    BY <1>9, <2>1, Zenon
  <2>4. [j EXCEPT !.export = x] = e
    BY <2>2, <2>3 DEF Job
  <2>5. QED
    BY <1>4, <1>6, <2>4
<1>12. PassedStored(e)'
  <2>1. \A n \in DOMAIN Exports[x] : ~(n < 1)
    BY <1>5, ExportAssumption
  <2>2. QED
    BY <1>10, <2>1 DEF PassedStored
<1>13. IsJob(e)
  BY <1>5, <1>8, <1>9, JobIs
<1>14. JobFits(e)'
  <2>1. x # Nobody
    BY <1>5, ExportAssumption
  <2>2. QED
    BY <1>8, <1>10, <1>12, <1>13, <2>1 DEF JobFits, StepFits, IsJob, Job
<1>15. JobInv'
  BY <1>1, <1>3, <1>11, <1>14, JobMoves DEF Stands
<1>16. QED
  BY <1>1, <1>2, <1>3, <1>5, <1>15, StepsStay, SpansStay, InvStays

LEMMA AnswerKeeps ==
    ASSUME LogInv, NEW h \in Handlers, Answer(h)
    PROVE  LogInv'
<1>1. Stands /\ StepsOwn /\ SpansOK
  BY DEF LogInv
<1>2. UNCHANGED <<rows, steps, spans>> /\ job' = [job EXCEPT ![h] = Idle]
  BY DEF Answer, dshVars, codexVars
<1>3. Grows
  BY <1>1, <1>2, SameRows DEF Stands
<1>4. JobInv'
  <2>1. PICK e : e = Idle
    OBVIOUS
  <2>2. JobFits(e)'
    BY <2>1, IdleFits
  <2>3. QED
    BY <1>1, <1>2, <1>3, <2>1, <2>2, JobMoves DEF Stands
<1>5. PICK x : x = job[h].export
  OBVIOUS
<1>6. x \in DOMAIN Exports /\ job[h].pos \in Nat /\ job[h].failed \in Nat
  BY <1>1, <1>5, IsJobParts DEF Answer, Stands, JobInv, JobFits
<1>7. todo' \subseteq todo \cup {x}
  BY <1>5 DEF Answer
<1>8. answered' = answered \/ (exportResult(h) = "stored" /\ answered' = answered \cup {x})
  BY <1>5 DEF Answer
<1>9. ASSUME exportResult(h) = "stored"
      PROVE  StoredAll(x)
  <2>1. job[h].failed = 0
    BY <1>9 DEF exportResult
  <2>2. \A n \in DOMAIN Exports[x] : n < job[h].pos
    <3>1. Exports[x] \in Seq(Records)
      BY <1>6, ExportAssumption
    <3>2. job[h].pos > Len(Exports[x])
      BY <1>5, <1>6, <3>1 DEF Answer, Busy, Batch
    <3>3. QED
      BY <1>6, <3>1, <3>2
  <2>3. PassedStored(job[h])
    BY <1>1 DEF Stands, JobInv, JobFits
  <2>4. QED
    BY <1>5, <2>1, <2>2, <2>3 DEF PassedStored, StoredAll, Answer
<1>10. todo' \subseteq DOMAIN Exports
  BY <1>6, <1>7 DEF LogInv
<1>11. \A y \in answered' : y \in answered \/ (y \in DOMAIN Exports /\ StoredAll(y))
  BY <1>6, <1>8, <1>9
<1>12. QED
  BY <1>1, <1>2, <1>3, <1>4, <1>10, <1>11, StepsStay, SpansStay, InvStays

LEMMA RestartKeeps ==
    ASSUME LogInv, Restart
    PROVE  LogInv'
<1>1. Stands
  BY DEF LogInv
<1>2. Grows
  BY <1>1, SameRows DEF Restart, Stands
<1>3. job' = [h \in Handlers |-> Idle]
  BY DEF Restart
<1>4. JobInv'
  <2>1. PICK e : e = Idle
    OBVIOUS
  <2>2. JobFits(e)'
    BY <2>1, IdleFits
  <2>3. job' = [h \in Handlers |-> job'[h]]
    BY <1>3
  <2>4. \A h \in Handlers : job'[h] = e
    BY <1>3, <2>1
  <2>5. \A h \in Handlers : JobFits(job[h])'
    <3>1. SUFFICES ASSUME NEW h \in Handlers
                   PROVE  JobFits(job[h])'
      OBVIOUS
    <3>2. PICK k : k = job'[h]
      OBVIOUS
    <3>3. QED
      BY <2>2, <2>4, <3>2
  <2>6. QED
    BY <2>3, <2>5, Zenon DEF JobInv
<1>5. StepsOwn' /\ SpansOK'
  BY DEF Restart, StepsOwn, SpansOK
<1>6. todo' \subseteq DOMAIN Exports
  <2>1. \A h \in Handlers : job[h].export \in DOMAIN Exports \cup {Nobody}
    BY <1>1, IsJobParts DEF Stands, JobInv, JobFits
  <2>2. QED
    BY <2>1 DEF Restart, LogInv
<1>7. answered' = answered
  BY DEF Restart
<1>8. QED
  BY <1>2, <1>4, <1>5, <1>6, <1>7, InvStays

\* Time passes, or nothing happens.
LEMMA TimeKeeps ==
    ASSUME LogInv, UNCHANGED <<steps, rows, spans, job, todo, answered>>
    PROVE  LogInv'
<1>1. Stands /\ StepsOwn /\ SpansOK
  BY DEF LogInv
<1>2. Grows
  BY <1>1, SameRows DEF Stands
<1>3. JobInv'
  <2>1. ASSUME NEW h \in Handlers
        PROVE  JobFits(job[h])'
    <3>1. PICK j : j = job[h] /\ j = job'[h]
      OBVIOUS
    <3>2. JobFits(j)'
      BY <1>1, <1>2, <3>1, FitsStays DEF Stands, JobInv
    <3>3. QED
      BY <3>1, <3>2
  <2>2. job' = [h \in Handlers |-> job'[h]]
    BY <1>1 DEF Stands, JobInv
  <2>3. QED
    BY <2>1, <2>2, Zenon DEF JobInv
<1>4. todo' \subseteq DOMAIN Exports /\ answered' = answered
  BY DEF LogInv
<1>5. QED
  BY <1>1, <1>2, <1>3, <1>4, StepsStay, SpansStay, InvStays

LEMMA LogStep ==
    ASSUME LogInv, [Next]_vars
    PROVE  LogInv'
<1>1. ASSUME NEW h \in Handlers, Deliver(h) \/ Handle(h) \/ Answer(h)
      PROVE  LogInv'
  BY <1>1, DeliverKeeps, HandleKeeps, AnswerKeeps
<1>2. CASE Restart
  BY <1>2, RestartKeeps
<1>3. CASE GatherDust /\ UNCHANGED <<codexVars, job, exportVars>>
  BY <1>3, TimeKeeps DEF GatherDust, codexVars, exportVars
<1>4. CASE Age(Awaited) /\ UNCHANGED <<dshVars, rows, spans, stash, job, exportVars>>
  BY <1>4, TimeKeeps DEF dshVars, exportVars
<1>5. CASE UNCHANGED vars
  BY <1>5, TimeKeeps DEF vars, dshVars, codexVars
<1>6. QED
  BY <1>1, <1>2, <1>3, <1>4, <1>5, Zenon DEF Next

LEMMA LogBegins ==
    ASSUME Init
    PROVE  LogInv
<1>1. rows = << >> /\ steps = << >> /\ spans = << >> /\ answered = {} /\ todo \in Scenarios
      /\ job = [h \in Handlers |-> Idle]
  BY DEF Init, StepsInit, CodexInit
<1>2. RowsOK /\ StepsOwn /\ SpansOK
  BY <1>1 DEF RowsOK, StepsOwn, SpansOK
<1>3. JobFits(Idle)
  <2>1. Idle = Job(Nobody, 1, "record", 0, 0, {}, NoTiming, NoRecord)
    BY DEF Idle, Job
  <2>2. IsJob(Idle)
    BY <2>1, JobIs
  <2>3. Idle.row = 0 /\ Idle.export = Nobody /\ Idle.pos = 1 /\ Idle.step = "record"
    BY DEF Idle
  <2> HIDE DEF Idle
  <2>4. QED
    BY <2>2, <2>3 DEF JobFits, StepFits, Working, PassedStored
<1>4. JobInv
  BY <1>1, <1>3 DEF JobInv
<1>5. todo \subseteq DOMAIN Exports
  BY <1>1, ExportAssumption
<1>6. QED
  BY <1>1, <1>2, <1>4, <1>5 DEF LogInv, Stands

LEMMA LogKeepsInv == Spec => []LogInv
<1>1. LogInv /\ [Next]_vars => LogInv'
  BY LogStep
<1>2. QED
  BY <1>1, LogBegins, PTL DEF Spec

\* What an export that was answered as stored in full carried is in the
\* database, whatever failed, was cut off, came again or ran beside it
\* (exportResult, insertRequestOnce, dshRequestID).
THEOREM LogAnsweredIsStored == Spec => []AnsweredIsStored
<1>1. LogInv => AnsweredIsStored
  <2> SUFFICES ASSUME LogInv, NEW x \in answered, NEW r \in Carried(x), ToStore(r)
               PROVE  RowsOf(r) # {}
    BY Zenon DEF AnsweredIsStored
  <2>1. PICK n \in DOMAIN Exports[x] : r = Exports[x][n]
    BY DEF Carried, ToSet
  <2>2. HasRow(r)
    BY <2>1 DEF LogInv, StoredAll
  <2>3. QED
    BY <2>2 DEF HasRow, RowsOf
<1>2. QED
  BY <1>1, LogKeepsInv, PTL

\* A session's message is stored with the times of its own step, however many
\* steps are open and in whatever order the exports come (dshStepTracker).
THEOREM LogStepTiming == Spec => []StepTimingIsItsOwn
<1>1. LogInv => StepTimingIsItsOwn
  <2> SUFFICES ASSUME LogInv, NEW i \in DOMAIN rows, Message(rows[i].of),
                      NEW time \in {rows[i].ttft, rows[i].duration} \ {NoSpan},
                      NEW r \in {time[1], time[2]}
               PROVE  /\ Trace[r].session = Trace[rows[i].of].session
                      /\ Trace[r].turn = Trace[rows[i].of].turn
                      /\ Trace[r].step = Trace[rows[i].of].step
    BY Zenon DEF StepTimingIsItsOwn
  <2>1. dshStepKey(r) = dshStepKey(rows[i].of)
    BY DEF LogInv, OwnRow, OwnTimes
  <2>2. QED
    BY <2>1 DEF dshStepKey
<1>2. QED
  BY <1>1, LogKeepsInv, PTL


-----------------------------------------------------------------------------
(* How often a record may still land.                                       *)

\* Its row is in, and the handler goes on with it.
Landed == {"drain", "fill", "track"}

\* The n-th record of the export that job j works off may still land: the
\* handler has not come to it, or has not stored it, or the record failed with
\* all others so far and is going to be sent again with them.
Unlanded(j, n) ==
    \/ n > j.pos
    \/ n = j.pos /\ j.step \notin Landed
    \/ n < j.pos /\ j.failed = j.pos - 1
Fresh(x, n) == x \in todo \/ \E h \in Handlers : job[h].export = x /\ Unlanded(job[h], n)
Budget(x, n) == lost[x] + (IF Fresh(x, n) THEN 0 ELSE 1)

\* The job goes on.
Later(j, e) ==
    /\ e.export = j.export
    /\ \/ e.pos = j.pos /\ e.failed = j.failed /\ (j.step \in Landed => e.step \in Landed)
       \/ e.pos = j.pos + 1 /\ e.failed = j.failed
       \/ e.pos = j.pos + 1 /\ e.failed = j.failed + 1 /\ j.step \notin Landed
\* The record at hand lands.
Lands(j, e) ==
    /\ e.export = j.export /\ e.failed = j.failed /\ j.step \notin Landed
    /\ (e.pos = j.pos /\ e.step \in Landed) \/ e.pos = j.pos + 1

HoldFits(j) ==
    IF j.export = Nobody THEN j.failed = 0
    ELSE j.pos <= Len(Exports[j.export]) + 1 /\ j.failed < j.pos
\* An export is with its client or with one handler.
HoldInv ==
    /\ lost \in [DOMAIN Exports -> Nat]
    /\ \A h \in Handlers : HoldFits(job[h]) /\ job[h].export \notin todo
    /\ \A g, h \in Handlers : job[g].export = job[h].export /\ job[h].export # Nobody => g = h

LEMMA JobOf ==
    ASSUME JobInv, NEW h \in Handlers, NEW e, job' = [job EXCEPT ![h] = e]
    PROVE  job'[h] = e /\ \A g \in Handlers : g # h => job'[g] = job[g]
BY DEF JobInv

LEMMA HandlerHolds ==
    ASSUME LogInv, HoldInv, NEW h \in Handlers, NEW j, j = job[h], j.export # Nobody
    PROVE  /\ j.export \in DOMAIN Exports /\ j.pos \in Nat \ {0} /\ j.failed \in Nat
           /\ j.pos <= Len(Exports[j.export]) + 1 /\ j.failed < j.pos
           /\ Exports[j.export] \in Seq(Records) /\ Len(Exports[j.export]) \in Nat
<1>1. IsJob(j) /\ HoldFits(j)
  BY DEF LogInv, Stands, JobInv, JobFits, HoldInv
<1>2. j.export \in DOMAIN Exports /\ j.pos \in Nat \ {0} /\ j.failed \in Nat
  BY <1>1, IsJobParts
<1>3. QED
  BY <1>1, <1>2, ExportAssumption DEF HoldFits

LEMMA LaterUnlanded ==
    ASSUME NEW j, NEW e, j.pos \in Nat, j.failed \in Nat, j.failed < j.pos, Later(j, e),
           NEW n \in Nat, Unlanded(e, n)
    PROVE  Unlanded(j, n) /\ (Lands(j, e) => n # j.pos)
<1>1. CASE /\ e.pos = j.pos /\ e.failed = j.failed /\ (j.step \in Landed => e.step \in Landed)
  <2> HIDE DEF Landed
  <2>1. QED
    BY <1>1 DEF Unlanded, Lands
<1>2. CASE e.pos = j.pos + 1 /\ e.failed = j.failed
  <2> HIDE DEF Landed
  <2>1. QED
    BY <1>2 DEF Unlanded, Lands
<1>3. CASE e.pos = j.pos + 1 /\ e.failed = j.failed + 1 /\ j.step \notin Landed
  <2> HIDE DEF Landed
  <2>1. QED
    BY <1>3 DEF Unlanded, Lands
<1>4. QED
  BY <1>1, <1>2, <1>3 DEF Later

LEMMA BudgetLater ==
    ASSUME LogInv, HoldInv, NEW h \in Handlers, Busy(h), NEW e, Later(job[h], e),
           job' = [job EXCEPT ![h] = e], UNCHANGED <<todo, lost>>,
           NEW x \in DOMAIN Exports, NEW n \in DOMAIN Exports[x]
    PROVE  /\ Budget(x, n) \in Nat /\ Budget(x, n)' \in Nat
           /\ Budget(x, n)' >= Budget(x, n)
           /\ Lands(job[h], e) /\ x = job[h].export /\ n = job[h].pos =>
                 Budget(x, n)' >= Budget(x, n) + 1
<1>1. PICK j : j = job[h]
  OBVIOUS
<1>2. /\ j.export \in DOMAIN Exports /\ j.pos \in Nat \ {0} /\ j.failed \in Nat /\ j.failed < j.pos
  BY <1>1, HandlerHolds DEF Busy
<1>3. job'[h] = e /\ \A g \in Handlers : g # h => job'[g] = job[g]
  BY JobOf DEF LogInv, Stands
<1>4. n \in Nat
  BY ExportAssumption
<1>5. lost[x] \in Nat /\ lost'[x] = lost[x]
  BY DEF HoldInv
<1>6. ASSUME Fresh(x, n)'
      PROVE  Fresh(x, n)
  <2>1. CASE x \in todo
    BY <2>1 DEF Fresh
  <2>2. CASE e.export = x /\ Unlanded(e, n)
    <3>1. Unlanded(j, n)
      BY <1>1, <1>2, <1>4, <2>2, LaterUnlanded
    <3>2. j.export = x
      BY <1>1, <2>2 DEF Later
    <3>3. QED
      BY <1>1, <3>1, <3>2 DEF Fresh
  <2>3. CASE \E g \in Handlers : g # h /\ job[g].export = x /\ Unlanded(job[g], n)
    BY <2>3 DEF Fresh
  <2>4. x \in todo \/ \E g \in Handlers : \E k : k = job'[g] /\ k.export = x /\ Unlanded(k, n)
    BY <1>6 DEF Fresh, Unlanded
  <2>5. QED
    BY <1>3, <2>1, <2>2, <2>3, <2>4
<1>7. ASSUME Lands(j, e), x = j.export, n = j.pos
      PROVE  Fresh(x, n) /\ ~Fresh(x, n)'
  <2>1. Fresh(x, n)
    BY <1>1, <1>7 DEF Fresh, Unlanded, Lands
  <2>2. ~Unlanded(e, n)
    BY <1>1, <1>2, <1>4, <1>7, LaterUnlanded
  <2>3. x \notin todo' /\ \A g \in Handlers : g # h => job[g].export # x
    BY <1>1, <1>2, <1>7, ExportAssumption DEF HoldInv
  <2>4. \A g \in Handlers : \A k : k = job'[g] => ~(k.export = x /\ Unlanded(k, n))
    BY <1>3, <2>2, <2>3
  <2>5. QED
    BY <2>1, <2>3, <2>4 DEF Fresh, Unlanded
<1>8. QED
  BY <1>1, <1>5, <1>6, <1>7 DEF Budget

LEMMA HoldLater ==
    ASSUME LogInv, HoldInv, NEW h \in Handlers, Busy(h), NEW e, Later(job[h], e),
           job' = [job EXCEPT ![h] = e], UNCHANGED <<todo, lost>>
    PROVE  HoldInv'
<1>1. PICK j : j = job[h]
  OBVIOUS
<1>2. /\ j.export # Nobody /\ j.pos \in Nat \ {0} /\ j.failed \in Nat /\ j.failed < j.pos
      /\ j.pos <= Len(Exports[j.export]) /\ Len(Exports[j.export]) \in Nat
  BY <1>1, HandlerHolds DEF Busy, Batch
<1>3. job'[h] = e /\ \A g \in Handlers : g # h => job'[g] = job[g]
  BY JobOf DEF LogInv, Stands
<1>4. HoldFits(e) /\ e.export = j.export
  BY <1>1, <1>2 DEF Later, HoldFits
<1>5. ASSUME NEW g \in Handlers
      PROVE  HoldFits(job[g])' /\ job'[g].export = job[g].export
  <2>1. PICK k : k = job'[g] /\ HoldFits(k) /\ k.export = job[g].export
    BY <1>1, <1>3, <1>4 DEF HoldInv
  <2>2. QED
    BY <2>1 DEF HoldFits
<1>6. QED
  BY <1>5 DEF HoldInv

LEMMA DeliverBudget ==
    ASSUME LogInv, HoldInv, NEW h \in Handlers, Deliver(h),
           NEW x \in DOMAIN Exports, NEW n \in DOMAIN Exports[x]
    PROVE  Budget(x, n) \in Nat /\ Budget(x, n)' \in Nat /\ Budget(x, n)' >= Budget(x, n)
<1>1. PICK y \in todo : job' = [job EXCEPT ![h].export = y] /\ todo' = todo \ {y}
  BY DEF Deliver
<1>2. lost[x] \in Nat /\ lost'[x] = lost[x]
  BY DEF HoldInv, Deliver
<1>3. \A g \in Handlers : g # h => job'[g] = job[g]
  BY <1>1 DEF LogInv, Stands, JobInv
<1>4. job'[h].export = y
  <2>1. PICK j : j = job[h] /\ IsJob(j)
    BY DEF LogInv, Stands, JobInv, JobFits
  <2>2. PICK k : k = job'[h] /\ k = [j EXCEPT !.export = y]
    BY <1>1, <2>1 DEF LogInv, Stands, JobInv
  <2>3. PICK step, failed, row, due, timing, found, p, z :
           j = Job(z, p, step, failed, row, due, timing, found)
    BY <2>1, IsJobParts
  <2>4. [j EXCEPT !["export"] = y] = Job(y, p, step, failed, row, due, timing, found)
    BY <2>3 DEF Job
  <2>5. k.export = y
    BY <2>2, <2>4 DEF Job
  <2>6. QED
    BY <2>2, <2>5
<1>5. Fresh(x, n)' => Fresh(x, n)
  <2>1. SUFFICES ASSUME x \notin todo, Fresh(x, n)'
                 PROVE  Fresh(x, n)
    BY DEF Fresh
  <2>2. PICK g \in Handlers : \E k : k = job'[g] /\ k.export = x /\ Unlanded(k, n)
    BY <1>1, <2>1 DEF Fresh, Unlanded
  <2>3. g # h
    BY <1>4, <2>1, <2>2
  <2>4. QED
    BY <1>3, <2>2, <2>3 DEF Fresh
<1>6. QED
  BY <1>2, <1>5 DEF Budget

LEMMA DeliverHolds ==
    ASSUME LogInv, HoldInv, NEW h \in Handlers, Deliver(h)
    PROVE  HoldInv'
<1>1. PICK y \in todo : job' = [job EXCEPT ![h].export = y] /\ todo' = todo \ {y}
  BY DEF Deliver
<1>2. PICK j : j = job[h] /\ IsJob(j) /\ j.export = Nobody /\ j.pos = 1 /\ HoldFits(j)
  BY DEF LogInv, Stands, JobInv, JobFits, Deliver, HoldInv
<1>3. PICK step, row, due, timing, found :
         j = Job(Nobody, 1, step, 0, row, due, timing, found)
  <2>1. j.failed = 0
    BY <1>2 DEF HoldFits
  <2>2. PICK step, row, due, timing, found :
           /\ step = j.step /\ row = j.row /\ due = j.due
           /\ timing = j.timing /\ found = j.found
    OBVIOUS
  <2>3. j = Job(Nobody, 1, step, 0, row, due, timing, found)
    BY <1>2, <2>1, <2>2, IsJobParts, Zenon
  <2>4. QED
    BY <2>3, Zenon
<1>4. PICK k : k = Job(y, 1, step, 0, row, due, timing, found)
  OBVIOUS
<1>5. [j EXCEPT !["export"] = y] = k
  BY <1>3, <1>4 DEF Job
<1>6. job' = [job EXCEPT ![h] = k]
  BY <1>1, <1>2, <1>5
<1>7. job'[h] = k /\ \A g \in Handlers : g # h => job'[g] = job[g]
  BY <1>6, JobOf DEF LogInv, Stands
<1>8. k.export = y /\ k.pos = 1 /\ k.failed = 0
  BY <1>4 DEF Job
<1>9. HoldFits(k)
  <2>1. Len(Exports[y]) \in Nat /\ y # Nobody
    BY ExportAssumption DEF LogInv
  <2>2. QED
    BY <1>8, <2>1 DEF HoldFits
<1>10. ASSUME NEW g \in Handlers
       PROVE  HoldFits(job[g])' /\ job'[g].export \notin todo'
  <2>1. PICK m : m = job'[g] /\ HoldFits(m)
    BY <1>7, <1>9 DEF HoldInv
  <2>2. job'[g].export \notin todo'
    BY <1>1, <1>7, <1>8 DEF HoldInv
  <2>3. QED
    BY <2>1, <2>2 DEF HoldFits
<1>11. \A g \in Handlers : job[g].export # y
  BY DEF HoldInv
<1>12. \A f, g \in Handlers : job'[g].export = job'[f].export /\ job'[g].export # Nobody => g = f
  BY <1>7, <1>8, <1>11 DEF HoldInv
<1>13. UNCHANGED lost
  BY DEF Deliver
<1>14. QED
  BY <1>10, <1>12, <1>13 DEF HoldInv

LEMMA IdleHolds ==
    /\ Idle.export = Nobody /\ HoldFits(Idle)
    /\ \A x \in DOMAIN Exports : Idle.export # x
<1>1. Idle.export = Nobody /\ Idle.failed = 0
  BY DEF Idle
<1>2. QED
  BY <1>1, ExportAssumption DEF HoldFits

LEMMA AnswerBudget ==
    ASSUME LogInv, HoldInv, NEW h \in Handlers, Answer(h),
           NEW x \in DOMAIN Exports, NEW n \in DOMAIN Exports[x]
    PROVE  Budget(x, n) \in Nat /\ Budget(x, n)' \in Nat /\ Budget(x, n)' >= Budget(x, n)
<1>1. PICK j : j = job[h]
  OBVIOUS
<1>2. /\ j.export \in DOMAIN Exports /\ j.pos \in Nat \ {0} /\ j.failed \in Nat
      /\ j.failed < j.pos /\ j.pos = Len(Exports[j.export]) + 1
      /\ Exports[j.export] \in Seq(Records) /\ Len(Exports[j.export]) \in Nat
  BY <1>1, HandlerHolds DEF Answer, Busy, Batch
<1>3. job' = [job EXCEPT ![h] = Idle]
  BY DEF Answer
<1>4. job'[h] = Idle /\ \A g \in Handlers : g # h => job'[g] = job[g]
  BY <1>3, JobOf DEF LogInv, Stands
<1>5. \/ UNCHANGED <<todo, lost>>
      \/ exportResult(h) = "error" /\ todo' = todo \cup {j.export} /\ UNCHANGED lost
      \/ todo' = todo \cup {j.export} /\ lost' = [lost EXCEPT ![j.export] = @ + 1]
  BY <1>1 DEF Answer
<1>6. lost[x] \in Nat
  BY DEF HoldInv
<1>7. Fresh(x, n)' => x \in todo' \/ Fresh(x, n)
  <2>1. ASSUME NEW g \in Handlers, NEW k, k = job'[g], k.export = x, Unlanded(k, n)
        PROVE  Fresh(x, n)
    <3>1. g # h
      BY <1>4, <2>1, IdleHolds
    <3>2. QED
      BY <1>4, <2>1, <3>1 DEF Fresh
  <2>2. QED
    BY <2>1 DEF Fresh, Unlanded
<1>8. CASE UNCHANGED <<todo, lost>>
  BY <1>6, <1>7, <1>8 DEF Budget, Fresh
<1>9. CASE exportResult(h) = "error" /\ todo' = todo \cup {j.export} /\ UNCHANGED lost
  <2>1. j.failed >= Len(Exports[j.export])
    BY <1>1, <1>9 DEF exportResult, Batch
  <2>2. x = j.export => Fresh(x, n)
    <3>1. j.failed = j.pos - 1
      BY <1>2, <2>1
    <3>2. x = j.export => n \in Nat /\ n < j.pos
      BY <1>2
    <3>3. QED
      BY <1>1, <3>1, <3>2 DEF Fresh, Unlanded
  <2>3. Fresh(x, n)' => Fresh(x, n)
    BY <1>7, <1>9, <2>2 DEF Fresh
  <2>4. QED
    BY <1>6, <1>9, <2>3 DEF Budget
<1>10. CASE todo' = todo \cup {j.export} /\ lost' = [lost EXCEPT ![j.export] = @ + 1]
  <2>1. CASE x = j.export
    <3>1. lost'[x] = lost[x] + 1
      BY <1>10, <2>1 DEF HoldInv
    <3>2. QED
      BY <1>6, <3>1 DEF Budget
  <2>2. CASE x # j.export
    <3>1. lost'[x] = lost[x]
      BY <1>10, <2>2 DEF HoldInv
    <3>2. Fresh(x, n)' => Fresh(x, n)
      BY <1>7, <1>10, <2>2 DEF Fresh
    <3>3. QED
      BY <1>6, <3>1, <3>2 DEF Budget
  <2>3. QED
    BY <2>1, <2>2
<1>11. QED
  BY <1>5, <1>8, <1>9, <1>10

LEMMA AnswerHolds ==
    ASSUME LogInv, HoldInv, NEW h \in Handlers, Answer(h)
    PROVE  HoldInv'
<1>1. PICK x : x = job[h].export
  OBVIOUS
<1>2. x \in DOMAIN Exports
  BY <1>1, HandlerHolds DEF Answer
<1>3. job' = [job EXCEPT ![h] = Idle]
  BY DEF Answer
<1>4. job'[h] = Idle /\ \A g \in Handlers : g # h => job'[g] = job[g]
  BY <1>3, JobOf DEF LogInv, Stands
<1>5. todo' \subseteq todo \cup {x} /\ (UNCHANGED lost \/ lost' = [lost EXCEPT ![x] = @ + 1])
  BY <1>1 DEF Answer
<1>6. lost' \in [DOMAIN Exports -> Nat]
  BY <1>2, <1>5 DEF HoldInv
<1>7. ASSUME NEW g \in Handlers
      PROVE  HoldFits(job[g])' /\ job'[g].export \notin todo'
  <2>1. PICK k : k = job'[g] /\ HoldFits(k)
    BY <1>4, IdleHolds DEF HoldInv
  <2>2. CASE g = h
    <3>1. Nobody \notin todo'
      BY <1>2, <1>5, ExportAssumption DEF LogInv
    <3>2. QED
      BY <1>4, <2>1, <2>2, <3>1, IdleHolds DEF HoldFits
  <2>3. CASE g # h
    <3>1. job[g].export # x
      BY <1>1, <1>2, <2>3, ExportAssumption DEF HoldInv
    <3>2. QED
      BY <1>4, <1>5, <2>1, <2>3, <3>1 DEF HoldInv, HoldFits
  <2>4. QED
    BY <2>2, <2>3
<1>8. \A f, g \in Handlers : job'[g].export = job'[f].export /\ job'[g].export # Nobody => g = f
  BY <1>4, IdleHolds DEF HoldInv
<1>9. QED
  BY <1>6, <1>7, <1>8 DEF HoldInv

LEMMA RestartBudget ==
    ASSUME LogInv, HoldInv, Restart, NEW x \in DOMAIN Exports, NEW n \in DOMAIN Exports[x]
    PROVE  Budget(x, n) \in Nat /\ Budget(x, n)' \in Nat /\ Budget(x, n)' >= Budget(x, n)
<1>1. PICK cut : cut = {job[h].export : h \in Handlers} \ {Nobody}
  OBVIOUS
<1>2. /\ todo' = todo \cup cut
      /\ lost' = [y \in DOMAIN lost |-> lost[y] + (IF y \in cut THEN 1 ELSE 0)]
      /\ job' = [h \in Handlers |-> Idle]
  BY <1>1 DEF Restart
<1>3. lost[x] \in Nat /\ lost'[x] = lost[x] + (IF x \in cut THEN 1 ELSE 0)
  BY <1>2 DEF HoldInv
<1>4. Fresh(x, n)' => x \in todo \cup cut
  <2>1. ASSUME NEW g \in Handlers, NEW k, k = job'[g], k.export = x
        PROVE  FALSE
    BY <1>2, <2>1, IdleHolds
  <2>2. QED
    BY <1>2, <2>1 DEF Fresh, Unlanded
<1>5. CASE x \in cut
  BY <1>3, <1>5 DEF Budget
<1>6. CASE x \notin cut
  <2>1. Fresh(x, n)' => Fresh(x, n)
    BY <1>4, <1>6 DEF Fresh
  <2>2. QED
    BY <1>3, <1>6, <2>1 DEF Budget
<1>7. QED
  BY <1>5, <1>6

LEMMA RestartHolds ==
    ASSUME LogInv, HoldInv, Restart
    PROVE  HoldInv'
<1>1. PICK cut : cut = {job[h].export : h \in Handlers} \ {Nobody}
  OBVIOUS
<1>2. /\ todo' = todo \cup cut
      /\ lost' = [y \in DOMAIN lost |-> lost[y] + (IF y \in cut THEN 1 ELSE 0)]
      /\ job' = [h \in Handlers |-> Idle]
  BY <1>1 DEF Restart
<1>3. lost' \in [DOMAIN Exports -> Nat]
  BY <1>2 DEF HoldInv
<1>4. Nobody \notin todo'
  BY <1>1, <1>2, ExportAssumption DEF LogInv
<1>5. ASSUME NEW g \in Handlers
      PROVE  HoldFits(job[g])' /\ job'[g].export = Nobody
  <2>1. PICK k : k = job'[g] /\ k = Idle
    BY <1>2
  <2>2. QED
    BY <2>1, IdleHolds DEF HoldFits
<1>6. QED
  BY <1>3, <1>4, <1>5 DEF HoldInv

-----------------------------------------------------------------------------
(* The rows of a record.                                                    *)

\* What a handler's statement does to the rows: none is new, or one is for the
\* record at hand, which had none if it can be told by its identity.
OfsSame == DOMAIN rows' = DOMAIN rows /\ \A i \in DOMAIN rows : rows'[i].of = rows[i].of
Adds(r) == ~Ignored(r) /\ \E timing : rows' = Append(rows, Row(r, timing))

Identified(r) == RequestID(r) # ""
IdentityInv ==
    \A i, k \in DOMAIN rows :
        Identified(rows[i].of) /\ RequestID(rows[i].of) = RequestID(rows[k].of) => i = k
CountInv ==
    \A x \in DOMAIN Exports : \A n \in DOMAIN Exports[x] :
        ~Identified(Exports[x][n]) => Cardinality(RowsOf(Exports[x][n])) <= Budget(x, n)

LEMMA RowsOfSame ==
    ASSUME OfsSame
    PROVE  \A r : RowsOf(r)' = RowsOf(r)
BY DEF OfsSame, RowsOf

LEMMA AddedRow ==
    ASSUME RowsOK, NEW r, Adds(r)
    PROVE  /\ Len(rows) + 1 \notin DOMAIN rows
           /\ DOMAIN rows' = DOMAIN rows \cup {Len(rows) + 1}
           /\ \A i \in DOMAIN rows : rows'[i] = rows[i]
           /\ rows'[Len(rows) + 1].of = r
<1>1. PICK timing : rows' = Append(rows, Row(r, timing))
  BY DEF Adds
<1>2. PICK e : e = Row(r, timing)
  OBVIOUS
<1>3. PICK S : rows \in Seq(S)
  BY DEF RowsOK
<1>4. rows \in Seq(S \cup {e}) /\ rows' = Append(rows, e)
  BY <1>1, <1>2, <1>3
<1>5. e.of = r
  BY <1>2 DEF Row
<1>6. QED
  BY <1>4, <1>5

LEMMA RowsFinite ==
    ASSUME RowsOK, NEW r
    PROVE  IsFiniteSet(RowsOf(r)) /\ Cardinality(RowsOf(r)) \in Nat
<1>1. PICK S : rows \in Seq(S)
  BY DEF RowsOK
<1>2. DOMAIN rows = 1 .. Len(rows) /\ Len(rows) \in Nat
  BY <1>1
<1>3. IsFiniteSet(DOMAIN rows)
  BY <1>2, FS_Interval
<1>4. RowsOf(r) \in SUBSET DOMAIN rows
  BY DEF RowsOf
<1>5. QED
  BY <1>3, <1>4, FS_Subset, FS_CardinalityType, Zenon

LEMMA IdentityStays ==
    ASSUME LogInv, IdentityInv, NEW r, OfsSame \/ Adds(r)
    PROVE  IdentityInv'
<1>1. CASE OfsSame
  BY <1>1 DEF OfsSame, IdentityInv, Identified, RequestID, Message, dshRequestID
<1>2. CASE Adds(r)
  <2>1. PICK new : new = Len(rows) + 1
    OBVIOUS
  <2>2. /\ DOMAIN rows' = DOMAIN rows \cup {new} /\ rows'[new].of = r
        /\ \A i \in DOMAIN rows : rows'[i] = rows[i]
    BY <1>2, <2>1, AddedRow DEF LogInv, Stands
  <2>3. Identified(r) => \A i \in DOMAIN rows : RequestID(rows[i].of) # RequestID(r)
    BY <1>2, Zenon DEF Adds, Ignored, Identified
  <2>4. ASSUME NEW i \in DOMAIN rows', NEW k \in DOMAIN rows',
               Identified(rows'[i].of), RequestID(rows'[i].of) = RequestID(rows'[k].of)
        PROVE  i = k
    <3>1. PICK a, b : a = rows'[i].of /\ b = rows'[k].of
      OBVIOUS
    <3>2. Identified(a) /\ Identified(b) /\ RequestID(a) = RequestID(b)
      BY <2>4, <3>1 DEF Identified
    <3>3. CASE i = new /\ k = new
      BY <3>3
    <3>4. CASE i = new /\ k # new
      <4>1. k \in DOMAIN rows /\ b = rows[k].of /\ a = r
        BY <2>2, <3>1, <3>4
      <4>2. QED
        BY <2>3, <3>2, <4>1
    <3>5. CASE i # new /\ k = new
      <4>1. i \in DOMAIN rows /\ a = rows[i].of /\ b = r
        BY <2>2, <3>1, <3>5
      <4>2. QED
        BY <2>3, <3>2, <4>1
    <3>6. CASE i # new /\ k # new
      <4>1. i \in DOMAIN rows /\ k \in DOMAIN rows /\ a = rows[i].of /\ b = rows[k].of
        BY <2>2, <3>1, <3>6
      <4>2. QED
        BY <3>2, <4>1 DEF IdentityInv
    <3>7. QED
      BY <3>3, <3>4, <3>5, <3>6
  <2>5. QED
    BY <2>4 DEF IdentityInv, Identified, RequestID, Message, dshRequestID
<1>3. QED
  BY <1>1, <1>2

LEMMA CountLater ==
    ASSUME LogInv, HoldInv, CountInv, NEW h \in Handlers, Busy(h), NEW e, Later(job[h], e),
           job' = [job EXCEPT ![h] = e], UNCHANGED <<todo, lost>>,
           OfsSame \/ (Lands(job[h], e) /\ Adds(Rec(h)))
    PROVE  CountInv'
<1> SUFFICES ASSUME NEW x \in DOMAIN Exports, NEW n \in DOMAIN Exports[x],
                    ~Identified(Exports[x][n])
             PROVE  Cardinality(RowsOf(Exports[x][n])') <= Budget(x, n)'
  BY DEF CountInv, Identified, RequestID, Message, dshRequestID, RowsOf
<1>1. PICK r : r = Exports[x][n]
  OBVIOUS
<1>2. RowsOK
  BY DEF LogInv, Stands
<1>3. Cardinality(RowsOf(r)) <= Budget(x, n) /\ Cardinality(RowsOf(r)) \in Nat
  BY <1>1, <1>2, RowsFinite DEF CountInv
<1>4. /\ Budget(x, n) \in Nat /\ Budget(x, n)' \in Nat /\ Budget(x, n)' >= Budget(x, n)
      /\ Lands(job[h], e) /\ x = job[h].export /\ n = job[h].pos =>
            Budget(x, n)' >= Budget(x, n) + 1
  BY BudgetLater
<1>5. CASE OfsSame
  <2>1. RowsOf(r)' = RowsOf(r)
    BY <1>5, RowsOfSame
  <2>2. QED
    BY <1>1, <1>3, <1>4, <2>1
<1>6. CASE Lands(job[h], e) /\ Adds(Rec(h))
  <2>1. PICK q, new : q = Rec(h) /\ new = Len(rows) + 1
    OBVIOUS
  <2>2. /\ new \notin DOMAIN rows /\ DOMAIN rows' = DOMAIN rows \cup {new}
        /\ \A i \in DOMAIN rows : rows'[i] = rows[i]
        /\ rows'[new].of = q
    BY <1>2, <1>6, <2>1, AddedRow
  <2>3. CASE q # r
    <3>1. RowsOf(r)' = RowsOf(r)
      BY <2>2, <2>3 DEF RowsOf
    <3>2. QED
      BY <1>1, <1>3, <1>4, <3>1
  <2>4. CASE q = r
    <3>1. RowsOf(r)' = RowsOf(r) \cup {new} /\ new \notin RowsOf(r)
      BY <2>2, <2>4 DEF RowsOf
    <3>2. Cardinality(RowsOf(r)') = Cardinality(RowsOf(r)) + 1
      <4>1. IsFiniteSet(RowsOf(r))
        BY <1>2, RowsFinite
      <4>2. QED
        BY <3>1, <4>1, FS_AddElement
    <3>3. x = job[h].export /\ n = job[h].pos
      <4>1. PICK y, m : y = job[h].export /\ m = job[h].pos
        OBVIOUS
      <4>2. y \in DOMAIN Exports /\ m \in DOMAIN Exports[y]
        BY <4>1, AtHand DEF LogInv, Stands, Batch
      <4>3. Exports[y][m] = Exports[x][n]
        BY <1>1, <2>1, <2>4, <4>1 DEF Rec, Batch
      <4>4. QED
        BY <4>1, <4>2, <4>3, ApartAssumption
    <3>4. QED
      BY <1>1, <1>3, <1>4, <1>6, <3>2, <3>3
  <2>5. QED
    BY <2>3, <2>4
<1>7. QED
  BY <1>5, <1>6

LEMMA CountStays ==
    ASSUME CountInv, RowsOK, UNCHANGED rows,
           \A x \in DOMAIN Exports : \A n \in DOMAIN Exports[x] :
               Budget(x, n) \in Nat /\ Budget(x, n)' \in Nat /\ Budget(x, n)' >= Budget(x, n)
    PROVE  CountInv'
<1> SUFFICES ASSUME NEW x \in DOMAIN Exports, NEW n \in DOMAIN Exports[x],
                    ~Identified(Exports[x][n])
             PROVE  Cardinality(RowsOf(Exports[x][n])') <= Budget(x, n)'
  BY DEF CountInv, Identified, RequestID, Message, dshRequestID, RowsOf
<1>1. PICK r : r = Exports[x][n]
  OBVIOUS
<1>2. Cardinality(RowsOf(r)) <= Budget(x, n) /\ Cardinality(RowsOf(r)) \in Nat
  BY <1>1, RowsFinite DEF CountInv
<1>3. RowsOf(r)' = RowsOf(r)
  BY DEF RowsOf
<1>4. QED
  BY <1>1, <1>2, <1>3

-----------------------------------------------------------------------------
(* A turn's observation on its way to a row.                                *)

\* No time is between a record and itself, but a turn's observation.
Between(time) == \A r \in Records : time # <<r, r>>

\* What a handler took from the stash is for the anchor at hand and its row.
DueFits(j) ==
    /\ j.due # {} => j.step = "fill"
    /\ j.step \in {"drain", "fill"} =>
          /\ j.row \in DOMAIN rows /\ rows[j.row].of = Now(j)
          /\ Trace[Now(j)].kind = "codex.api_request"
    /\ \A d \in j.due : Conv(d.of) = Conv(Now(j)) /\ Belongs(d.of, Now(j))
    /\ Between(j.timing.ttft)
DueInv == \A h \in Handlers : DueFits(job[h])

\* No row gets a turn's observation.
FillsNone ==
    \A i \in DOMAIN rows' : \A r \in Records :
        rows'[i].ttft = <<r, r>> => i \in DOMAIN rows /\ rows[i].ttft = <<r, r>>

\* A handler's step that moves no observation.
Plain(h) ==
    \E e : /\ job' = [job EXCEPT ![h] = e] /\ Later(job[h], e)
           /\ DueFits(e)' /\ e.due \subseteq job[h].due /\ FillsNone
           /\ OfsSame \/ (Lands(job[h], e) /\ Adds(Rec(h)))

LEMMA NoSpanBetween ==
    Between(NoSpan)
BY RecordAssumption DEF Between, NoSpan

LEMMA ElapsedBetween ==
    ASSUME NEW a, NEW b \in Records \cup {NoRecord}
    PROVE  Between(Elapsed(a, b))
<1>1. CASE a # NoRecord /\ b # NoRecord /\ Trace[b].at > Trace[a].at
  <2>1. Elapsed(a, b) = <<a, b>> /\ a # b
    BY <1>1, RecordAssumption DEF Elapsed
  <2>2. QED
    BY <2>1 DEF Between
<1>2. CASE ~(a # NoRecord /\ b # NoRecord /\ Trace[b].at > Trace[a].at)
  BY <1>2, NoSpanBetween DEF Elapsed
<1>3. QED
  BY <1>1, <1>2

LEMMA RowsUnchanged ==
    ASSUME RowsOK, UNCHANGED rows
    PROVE  OfsSame /\ FillsNone
BY DEF OfsSame, FillsNone

LEMMA InsertAdds ==
    ASSUME RowsOK, NEW r, NEW timing, Insert(r, timing), Between(timing.ttft)
    PROVE  FillsNone /\ (Ignored(r) => OfsSame) /\ (~Ignored(r) => Adds(r))
<1>1. CASE Ignored(r)
  <2>1. UNCHANGED rows
    BY <1>1 DEF Insert
  <2>2. QED
    BY <1>1, <2>1, RowsUnchanged
<1>2. CASE ~Ignored(r)
  <2>1. PICK e : e = Row(r, timing)
    OBVIOUS
  <2>2. e.ttft = timing.ttft
    BY <2>1 DEF Row
  <2>3. rows' = Append(rows, e) /\ Adds(r)
    BY <1>2, <2>1 DEF Insert, Adds
  <2>4. PICK S : rows \in Seq(S)
    BY DEF RowsOK
  <2>5. rows \in Seq(S \cup {e})
    BY <2>4
  <2>6. /\ DOMAIN rows' = DOMAIN rows \cup {Len(rows) + 1}
        /\ rows'[Len(rows) + 1] = e /\ \A i \in DOMAIN rows : rows'[i] = rows[i]
    BY <2>3, <2>5
  <2>7. FillsNone
    BY <2>2, <2>6 DEF FillsNone, Between
  <2>8. QED
    BY <1>2, <2>3, <2>7
<1>3. QED
  BY <1>1, <1>2

LEMMA FillSets ==
    ASSUME RowsOK, NEW i \in CodexRows \cup {0}, NEW field \in {"ttft", "duration"}, NEW value,
           Fill(i, field, value)
    PROVE  /\ OfsSame
           /\ \A k \in DOMAIN rows :
                 rows'[k].ttft = rows[k].ttft
                 \/ (k = i /\ field = "ttft" /\ rows'[k].ttft = value)
<1>1. CASE i = 0
  BY <1>1, RowsUnchanged DEF Fill
<1>2. CASE i # 0
  <2>1. PICK S : rows \in Seq(S)
    BY DEF RowsOK
  <2>2. i \in DOMAIN rows
    BY <1>2 DEF CodexRows
  <2>3. PICK of, ttft, duration :
           of \in Records /\ rows[i] = [of |-> of, ttft |-> ttft, duration |-> duration]
    BY <2>2 DEF RowsOK, IsRow
  <2>4. PICK e : /\ rows' = [rows EXCEPT ![i] = e] /\ e.of = of
                 /\ e.ttft = ttft \/ (field = "ttft" /\ e.ttft = value)
    <3>1. CASE field = "ttft"
      <4>1. rows' = [rows EXCEPT ![i] = [rows[i] EXCEPT !["ttft"] = value]]
        BY <1>2, <3>1 DEF Fill
      <4>2. [rows[i] EXCEPT !["ttft"] = value] =
            [of |-> of, ttft |-> value, duration |-> duration]
        BY <2>3
      <4>3. QED
        BY <3>1, <4>1, <4>2
    <3>2. CASE field = "duration"
      <4>1. rows' = [rows EXCEPT ![i] = [rows[i] EXCEPT !["duration"] = value]]
        BY <1>2, <3>2 DEF Fill
      <4>2. [rows[i] EXCEPT !["duration"] = value] =
            [of |-> of, ttft |-> ttft, duration |-> value]
        BY <2>3
      <4>3. QED
        BY <4>1, <4>2
    <3>3. QED
      BY <3>1, <3>2
  <2>5. rows \in Seq(S \cup {e})
    BY <2>1
  <2>6. /\ DOMAIN rows' = DOMAIN rows
        /\ rows'[i] = e /\ \A k \in DOMAIN rows \ {i} : rows'[k] = rows[k]
    BY <2>2, <2>4, <2>5
  <2>7. rows[i].of = of /\ rows[i].ttft = ttft
    BY <2>3
  <2>8. OfsSame
    BY <2>4, <2>6, <2>7 DEF OfsSame
  <2>9. QED
    BY <2>4, <2>6, <2>7, <2>8
<1>3. QED
  BY <1>1, <1>2

LEMMA FillBetween ==
    ASSUME RowsOK, NEW i \in CodexRows \cup {0}, NEW field \in {"ttft", "duration"}, NEW value,
           Fill(i, field, value), field = "duration" \/ Between(value)
    PROVE  OfsSame /\ FillsNone
<1>1. /\ OfsSame
      /\ \A k \in DOMAIN rows :
            rows'[k].ttft = rows[k].ttft
            \/ (field = "ttft" /\ rows'[k].ttft = value)
  BY FillSets
<1>2. \A k \in DOMAIN rows : rows'[k].ttft = rows[k].ttft \/ (Between(value) /\ rows'[k].ttft = value)
  BY <1>1
<1>3. QED
  BY <1>1, <1>2 DEF FillsNone, OfsSame, Between

LEMMA Fitting ==
    ASSUME NEW e, e.due = {}, e.step # "drain", e.step # "fill", Between(e.timing.ttft)
    PROVE  DueFits(e)'
BY Zenon DEF DueFits, Between

\* The handler comes to the next record.
LEMMA DoneLater ==
    ASSUME JobInv, NEW h \in Handlers, Busy(h), NEW failed \in BOOLEAN, Done(h, failed),
           failed => job[h].step \notin Landed
    PROVE  \E e : /\ job' = [job EXCEPT ![h] = e] /\ Later(job[h], e) /\ DueFits(e)'
                  /\ e.due = {}
                  /\ ~failed /\ job[h].step \notin Landed => Lands(job[h], e)
<1>1. PICK j : j = job[h]
  OBVIOUS
<1>2. IsJob(j)
  BY <1>1 DEF JobInv, JobFits
<1>3. j.pos \in Nat \ {0} /\ j.failed \in Nat
  BY <1>2, IsJobParts
<1>4. PICK gs \in Nat : gs = j.failed + (IF failed THEN 1 ELSE 0)
  BY <1>3
<1>5. PICK e : e = Job(j.export, j.pos + 1, "record", gs, 0, {}, NoTiming, NoRecord)
  OBVIOUS
<1>6. job' = [job EXCEPT ![h] = e]
  <2>1. job' = [job EXCEPT ![h] = [Idle EXCEPT !.export = j.export, !.pos = j.pos + 1, !.failed = gs]]
    BY <1>1, <1>4, Zenon DEF Done
  <2>2. [Idle EXCEPT !.export = j.export, !.pos = j.pos + 1, !.failed = gs] = e
    <3>1. PICK x, n : x = j.export /\ n = j.pos + 1
      OBVIOUS
    <3>2. QED
      BY <1>5, <3>1, IdleWith, Zenon
  <2>3. QED
    BY <2>1, <2>2, Zenon
<1>7. /\ e.export = j.export /\ e.pos = j.pos + 1 /\ e.step = "record"
      /\ e.failed = gs /\ e.due = {} /\ e.timing = NoTiming
  BY <1>5 DEF Job
<1>8. DueFits(e)'
  <2>1. Between(e.timing.ttft)
    BY <1>7, NoSpanBetween DEF NoTiming
  <2>2. e.step # "drain" /\ e.step # "fill"
    BY <1>7
  <2>3. QED
    BY <1>7, <2>1, <2>2, Fitting
<1>9. Later(j, e) /\ (~failed /\ j.step \notin Landed => Lands(j, e))
  <2> HIDE DEF Landed
  <2>1. failed => j.step \notin Landed
    BY <1>1
  <2>2. CASE failed
    BY <1>4, <1>7, <2>1, <2>2 DEF Later
  <2>3. CASE ~failed
    <3>1. gs = j.failed
      BY <1>3, <1>4, <2>3
    <3>2. QED
      BY <1>7, <2>3, <3>1 DEF Later, Lands
  <2>4. QED
    BY <2>2, <2>3
<1>10. QED
  BY <1>1, <1>6, <1>7, <1>8, <1>9

\* The handler goes on with the record.
LEMMA GoesLater ==
    ASSUME NEW j, NEW e, e.export = j.export, e.pos = j.pos, e.failed = j.failed
    PROVE  /\ (j.step \in Landed => e.step \in Landed) => Later(j, e)
           /\ j.step \notin Landed /\ e.step \in Landed => Lands(j, e)
           /\ Now(e) = Now(j)
<1> HIDE DEF Landed
<1>1. QED
  BY DEF Later, Lands, Now

LEMMA NotLanded ==
    ASSUME NEW step, step \in {"record", "insert", "add", "update", "stash"}
    PROVE  step \notin Landed /\ step # "drain" /\ step # "fill" /\ step # "track"
BY DEF Landed

-----------------------------------------------------------------------------
(* The statements of the handlers.                                          *)

LEMMA StorePlain ==
    ASSUME Stands, DueInv, NEW h \in Handlers, Busy(h), job[h].step \notin Landed,
           NEW timing, Store(h, timing), Between(timing.ttft)
    PROVE  Plain(h)
<1>1. CASE Insert(Rec(h), timing) /\ Done(h, FALSE)
  <2>1. FillsNone /\ (OfsSame \/ Adds(Rec(h)))
    BY <1>1, InsertAdds DEF Stands
  <2>2. PICK e : /\ job' = [job EXCEPT ![h] = e] /\ Later(job[h], e) /\ DueFits(e)'
                 /\ e.due = {} /\ Lands(job[h], e)
    BY <1>1, DoneLater DEF Stands
  <2>3. e.due \subseteq job[h].due
    BY <2>2
  <2>4. QED
    BY <2>1, <2>2, <2>3 DEF Plain
<1>2. CASE Fails(h) /\ UNCHANGED rows
  <2>1. FillsNone /\ OfsSame
    BY <1>2, RowsUnchanged DEF Stands
  <2>2. PICK e : /\ job' = [job EXCEPT ![h] = e] /\ Later(job[h], e) /\ DueFits(e)' /\ e.due = {}
    BY <1>2, DoneLater DEF Stands, Fails
  <2>3. e.due \subseteq job[h].due
    BY <2>2
  <2>4. QED
    BY <2>1, <2>2, <2>3 DEF Plain
<1>3. QED
  BY <1>1, <1>2 DEF Store

\* The record is done with, and its handler has set no time.
LEMMA DonePlain ==
    ASSUME Stands, NEW h \in Handlers, Busy(h), NEW failed \in BOOLEAN, Done(h, failed),
           failed => job[h].step \notin Landed, OfsSame, FillsNone
    PROVE  Plain(h)
<1>1. PICK e : /\ job' = [job EXCEPT ![h] = e] /\ Later(job[h], e) /\ DueFits(e)' /\ e.due = {}
  BY DoneLater DEF Stands
<1>2. e.due \subseteq job[h].due
  BY <1>1
<1>3. QED
  BY <1>1, <1>2 DEF Plain

LEMMA GoesPlain ==
    ASSUME Stands, NEW h \in Handlers, NEW step, NEW row, NEW due, NEW timing, NEW found,
           job' = [job EXCEPT ![h] = Job(job[h].export, job[h].pos, step, job[h].failed,
                                         row, due, timing, found)],
           job[h].step \notin Landed, step # "drain", step # "fill",
           due = {}, Between(timing.ttft), OfsSame, FillsNone
    PROVE  Plain(h)
<1>1. PICK j : j = job[h]
  OBVIOUS
<1>2. PICK e : /\ e = Job(j.export, j.pos, step, j.failed, row, due, timing, found)
               /\ e.export = j.export /\ e.pos = j.pos /\ e.failed = j.failed
               /\ e.step = step /\ e.due = due /\ e.timing = timing
  <2>1. PICK e : e = Job(j.export, j.pos, step, j.failed, row, due, timing, found)
    OBVIOUS
  <2>2. /\ e.export = j.export /\ e.pos = j.pos /\ e.failed = j.failed
        /\ e.step = step /\ e.due = due /\ e.timing = timing
    BY <2>1 DEF Job
  <2>3. QED
    BY <2>1, <2>2
<1>3. DueFits(e)'
  BY <1>2, Fitting
<1>4. Later(job[h], e)
  BY <1>1, <1>2, GoesLater
<1>5. e.due \subseteq job[h].due
  BY <1>2
<1>6. job' = [job EXCEPT ![h] = e]
  BY <1>1, <1>2, Zenon
<1>7. QED
  BY <1>3, <1>4, <1>5, <1>6 DEF Plain

\* Before it fetches from the stash, a handler holds no observation.
LEMMA NoneDue ==
    ASSUME DueInv, NEW h \in Handlers, job[h].step # "fill"
    PROVE  job[h].due = {} /\ Between(job[h].timing.ttft)
BY Zenon DEF DueInv, DueFits

LEMMA BeginsAt ==
    ASSUME NEW h, NEW kinds, Begins(h, kinds)
    PROVE  Busy(h) /\ job[h].step \notin Landed /\ job[h].step # "fill" /\ Trace[Rec(h)].kind \in kinds
BY DEF Begins, Landed

LEMMA StoresPlain ==
    ASSUME LogInv, DueInv, NEW h \in Handlers,
           StoreRequest(h) \/ StoreEvent(h) \/ StoreCodexEvent(h) \/ ArchiveRaw(h) \/ StoreSpan(h)
    PROVE  Plain(h)
<1>1. Busy(h) /\ job[h].step = "record" /\ Store(h, NoTiming)
  BY Zenon DEF StoreRequest, StoreEvent, StoreCodexEvent, ArchiveRaw, StoreSpan, Begins
<1>2. job[h].step \notin Landed
  BY <1>1 DEF Landed
<1>3. Between(NoTiming.ttft)
  BY NoSpanBetween DEF NoTiming
<1>4. QED
  BY <1>1, <1>2, <1>3, StorePlain DEF LogInv

LEMMA PassesPlain ==
    ASSUME LogInv, NEW h \in Handlers, PassRecord(h) \/ StepRecord(h) \/ TrackWebsocket(h)
    PROVE  Plain(h)
<1>1. Busy(h) /\ job[h].step = "record" /\ Done(h, FALSE)
  BY Zenon DEF PassRecord, StepRecord, TrackWebsocket, Begins
<1>2. UNCHANGED rows
  BY DEF PassRecord, StepRecord, TrackWebsocket, codexVars
<1>3. OfsSame /\ FillsNone
  BY <1>2, RowsUnchanged DEF LogInv, Stands
<1>4. QED
  BY <1>1, <1>3, DonePlain DEF LogInv

LEMMA TrackPlain ==
    ASSUME LogInv, NEW h \in Handlers, TrackAnchor(h)
    PROVE  Plain(h)
<1>1. Busy(h) /\ Done(h, FALSE) /\ UNCHANGED rows
  BY DEF TrackAnchor, Reached
<1>2. OfsSame /\ FillsNone
  BY <1>1, RowsUnchanged DEF LogInv, Stands
<1>3. QED
  BY <1>1, <1>2, DonePlain DEF LogInv

LEMMA TakePlain ==
    ASSUME LogInv, DueInv, NEW h \in Handlers, TakeTiming(h)
    PROVE  Plain(h)
<1>1. Busy(h) /\ job[h].step = "record" /\ UNCHANGED rows
  BY DEF TakeTiming, Begins, codexVars
<1>2. OfsSame /\ FillsNone
  BY <1>1, RowsUnchanged DEF LogInv, Stands
<1>3. PICK r : r = Rec(h)
  OBVIOUS
<1>4. CASE Trace[r].usage
  <2>1. PICK timing : timing = MessageTiming(r, Timing(r))
    OBVIOUS
  <2>2. Between(timing.ttft)
    <3>1. Timing(r).first \in Records \cup {NoRecord}
      BY DEF Timing, LogInv, StepsOwn, OwnStep
    <3>2. timing.ttft = Elapsed(Timing(r).start, Timing(r).first)
      BY <2>1 DEF MessageTiming
    <3>3. QED
      BY <3>1, <3>2, ElapsedBetween
  <2>3. job' = [job EXCEPT ![h].step = "insert", ![h].timing = timing]
    BY <1>3, <1>4, <2>1, Zenon DEF TakeTiming
  <2>4. PICK step, row, due, found :
           step = "insert" /\ row = job[h].row /\ due = job[h].due /\ found = job[h].found
    OBVIOUS
  <2>5. job' = [job EXCEPT ![h] = Job(job[h].export, job[h].pos, step, job[h].failed,
                                      row, due, timing, found)]
    BY <2>3, <2>4, TimingSet, Zenon DEF LogInv, Stands
  <2>6. /\ due = {} /\ step # "drain" /\ step # "fill" /\ job[h].step \notin Landed
    BY <1>1, <2>4, NoneDue DEF Landed
  <2>7. QED
    BY <1>2, <2>2, <2>5, <2>6, GoesPlain DEF LogInv
<1>5. CASE ~Trace[r].usage
  <2>1. Done(h, FALSE)
    BY <1>3, <1>5, Zenon DEF TakeTiming
  <2>2. QED
    BY <1>1, <1>2, <2>1, DonePlain DEF LogInv
<1>6. QED
  BY <1>4, <1>5

LEMMA MessagePlain ==
    ASSUME LogInv, DueInv, NEW h \in Handlers, InsertMessage(h)
    PROVE  Plain(h)
<1>1. Busy(h) /\ job[h].step = "insert" /\ Store(h, job[h].timing)
  BY Zenon DEF InsertMessage, Reached
<1>2. job[h].step \notin Landed /\ Between(job[h].timing.ttft)
  BY <1>1, NoneDue DEF Landed
<1>3. QED
  BY <1>1, <1>2, StorePlain DEF LogInv

LEMMA AddPlain ==
    ASSUME LogInv, DueInv, NEW h \in Handlers, AddDurationRow(h)
    PROVE  Plain(h)
<1>1. PICK timing : timing = [NoTiming EXCEPT !.duration = Measured(h)]
  OBVIOUS
<1>2. Busy(h) /\ job[h].step = "add" /\ Store(h, timing)
  BY <1>1, Zenon DEF AddDurationRow, Reached
<1>3. job[h].step \notin Landed
  BY <1>2 DEF Landed
<1>4. Between(timing.ttft)
  <2>1. timing.ttft = NoSpan
    BY <1>1 DEF NoTiming
  <2>2. QED
    BY <2>1, NoSpanBetween
<1>5. QED
  BY <1>2, <1>3, <1>4, StorePlain DEF LogInv

\* Statements that set a time which is not a turn's observation.
LEMMA RequestTTFTBetween ==
    ASSUME RowsOK, NEW row \in CodexRows \cup {0}, NEW r, NEW value, Between(value),
           UpdateCodexRequestTTFT(row, r, value)
    PROVE  OfsSame /\ FillsNone
<1>1. CASE value = NoSpan
  BY <1>1, RowsUnchanged DEF UpdateCodexRequestTTFT
<1>2. CASE value # NoSpan /\ row # 0
  <2>1. PICK i : i = IF rows[row].ttft = NoSpan THEN row ELSE 0
    OBVIOUS
  <2>2. i \in CodexRows \cup {0} /\ Fill(i, "ttft", value)
    BY <1>2, <2>1 DEF UpdateCodexRequestTTFT
  <2>3. QED
    BY <2>2, FillBetween
<1>3. CASE value # NoSpan /\ row = 0
  <2>1. PICK ids : ids = {i \in OpenRows(Conv(r), "ttft", Trace[r].at - SpanAge) : ~Failed(i)}
    OBVIOUS
  <2>2. ids \subseteq CodexRows
    BY <2>1 DEF OpenRows, CodexRows
  <2>3. Fill(Newest(ids), "ttft", value)
    BY <1>3, <2>1, Zenon DEF UpdateCodexRequestTTFT
  <2>4. QED
    BY <2>2, <2>3, TargetsAreCodex, FillBetween
<1>4. QED
  BY <1>1, <1>2, <1>3

LEMMA DurationBetween ==
    ASSUME RowsOK, NEW row \in CodexRows \cup {0}, NEW r, NEW value,
           UpdateCodexRequestDuration(row, r, value)
    PROVE  OfsSame /\ FillsNone
<1>1. CASE row # 0
  <2>1. PICK i : i = IF rows[row].duration = NoSpan THEN row ELSE 0
    OBVIOUS
  <2>2. i \in CodexRows \cup {0} /\ Fill(i, "duration", value)
    BY <1>1, <2>1 DEF UpdateCodexRequestDuration
  <2>3. QED
    BY <2>2, FillBetween
<1>2. CASE row = 0
  <2>1. PICK ids : ids = OpenRows(Conv(r), "duration", Trace[r].at - SpanAge)
    OBVIOUS
  <2>2. ids \subseteq CodexRows
    BY <2>1 DEF OpenRows, CodexRows
  <2>3. Fill(Newest(ids), "duration", value)
    BY <1>2, <2>1, Zenon DEF UpdateCodexRequestDuration
  <2>4. QED
    BY <2>2, <2>3, TargetsAreCodex, FillBetween
<1>3. QED
  BY <1>1, <1>2

LEMMA LookUpPlain ==
    ASSUME LogInv, DueInv, NEW h \in Handlers, LookUp(h)
    PROVE  Plain(h)
<1>1. Begins(h, {"response.created", "codex.websocket_event"}) /\ UNCHANGED codexVars
  BY Zenon DEF LookUp
<1>2. Busy(h) /\ job[h].step \notin Landed /\ job[h].step # "fill" /\ UNCHANGED rows
  BY <1>1, BeginsAt DEF codexVars
<1>3. OfsSame /\ FillsNone
  BY <1>2, RowsUnchanged DEF LogInv, Stands
<1>4. CASE Done(h, FALSE)
  BY <1>2, <1>3, <1>4, DonePlain DEF LogInv
<1>5. ASSUME NEW s, Found(h, s)
      PROVE  Plain(h)
  <2>1. PICK step, row, due, timing, found :
           /\ step = "update" /\ row = s.row /\ found = s.start
           /\ due = job[h].due /\ timing = job[h].timing
    OBVIOUS
  <2>2. job' = [job EXCEPT ![h] = Job(job[h].export, job[h].pos, step, job[h].failed,
                                      row, due, timing, found)]
    BY <1>5, <2>1, FoundJob, Zenon DEF LogInv, Stands
  <2>3. due = {} /\ step # "drain" /\ step # "fill" /\ Between(timing.ttft)
    BY <1>2, <2>1, NoneDue
  <2>4. QED
    BY <1>2, <1>3, <2>2, <2>3, GoesPlain DEF LogInv
<1>6. Done(h, FALSE) \/ \E s : Found(h, s)
  BY Zenon DEF LookUp, Found
<1>7. QED
  BY <1>4, <1>5, <1>6, Zenon

LEMMA UpdateTTFTPlain ==
    ASSUME LogInv, NEW h \in Handlers, UpdateTTFT(h)
    PROVE  Plain(h)
<1>1. Busy(h) /\ job[h].step = "update"
  BY DEF UpdateTTFT, Reached
<1>2. PICK r \in Records : r = Rec(h)
  BY <1>1, AtHand DEF LogInv, Stands
<1>3. PICK row, value : row = job[h].row /\ value = Measured(h)
  OBVIOUS
<1>4. row \in CodexRows \cup {0} /\ Between(value)
  BY <1>2, <1>3, ElapsedBetween DEF LogInv, Stands, JobInv, JobFits, Measured
<1>5. /\ UpdateCodexRequestTTFT(row, r, value) \/ UNCHANGED rows
      /\ Done(h, FALSE) \/ Done(h, TRUE)
  BY <1>2, <1>3, Zenon DEF UpdateTTFT, Fails
<1>6. OfsSame /\ FillsNone
  BY <1>4, <1>5, RequestTTFTBetween, RowsUnchanged DEF LogInv, Stands
<1>7. job[h].step \notin Landed
  BY <1>1 DEF Landed
<1>8. QED
  BY <1>1, <1>5, <1>6, <1>7, DonePlain DEF LogInv

\* The handler goes on to another statement for the record.
LEMMA OnPlain ==
    ASSUME LogInv, DueInv, NEW h \in Handlers, job[h].step \notin Landed, job[h].step # "fill",
           NEW step, NEW row, On(h, step, row), step # "drain", step # "fill", OfsSame, FillsNone
    PROVE  Plain(h)
<1>1. PICK due, timing, found :
         due = job[h].due /\ timing = job[h].timing /\ found = job[h].found
  OBVIOUS
<1>2. job' = [job EXCEPT ![h] = Job(job[h].export, job[h].pos, step, job[h].failed,
                                    row, due, timing, found)]
  BY <1>1, RowSet, Zenon DEF On, LogInv, Stands
<1>3. due = {} /\ Between(timing.ttft)
  BY <1>1, NoneDue
<1>4. QED
  BY <1>2, <1>3, GoesPlain DEF LogInv

LEMMA UpdateDurationPlain ==
    ASSUME LogInv, DueInv, NEW h \in Handlers, UpdateDuration(h)
    PROVE  Plain(h)
<1>1. Busy(h) /\ job[h].step = "update"
  BY DEF UpdateDuration, Reached
<1>2. PICK r, row, value : r = Rec(h) /\ row = job[h].row /\ value = Measured(h)
  OBVIOUS
<1>3. row \in CodexRows \cup {0}
  BY <1>2 DEF LogInv, Stands, JobInv, JobFits
<1>4. /\ UpdateCodexRequestDuration(row, r, value) \/ UNCHANGED rows
      /\ Done(h, FALSE) \/ Done(h, TRUE) \/ On(h, "add", 0)
  BY <1>2, Zenon DEF UpdateDuration, Fails
<1>5. OfsSame /\ FillsNone
  BY <1>3, <1>4, DurationBetween, RowsUnchanged DEF LogInv, Stands
<1>6. job[h].step \notin Landed /\ job[h].step # "fill"
  BY <1>1 DEF Landed
<1>7. CASE Done(h, FALSE) \/ Done(h, TRUE)
  BY <1>1, <1>5, <1>6, <1>7, DonePlain DEF LogInv
<1>8. CASE On(h, "add", 0)
  <2>1. PICK step, i : step = "add" /\ i = 0
    OBVIOUS
  <2>2. On(h, step, i) /\ step # "drain" /\ step # "fill"
    BY <1>8, <2>1
  <2>3. QED
    BY <1>5, <1>6, <2>2, OnPlain
<1>9. QED
  BY <1>4, <1>7, <1>8

LEMMA AnchorPlain ==
    ASSUME LogInv, DueInv, NEW h \in Handlers, InsertAnchor(h)
    PROVE  Plain(h)
<1>1. Begins(h, {"codex.api_request"})
  BY DEF InsertAnchor
<1>2. /\ Busy(h) /\ job[h].step \notin Landed /\ job[h].step # "fill"
      /\ Trace[Rec(h)].kind = "codex.api_request"
  BY <1>1, BeginsAt
<1>3. PICK r : r = Rec(h)
  OBVIOUS
<1>4. PICK own : own = IF Trace[r].error THEN [NoTiming EXCEPT !.duration = <<r, r>>] ELSE NoTiming
  OBVIOUS
<1>5. Between(own.ttft)
  <2>1. own.ttft = NoSpan
    BY <1>4 DEF NoTiming
  <2>2. QED
    BY <2>1, NoSpanBetween
<1>6. RowsOK
  BY DEF LogInv, Stands
<1>7. ASSUME Insert(r, own), On(h, IF Ignored(r) THEN "track" ELSE "drain",
                                IF Ignored(r) THEN 0 ELSE Len(rows) + 1)
      PROVE  Plain(h)
  <2>1. FillsNone /\ (Ignored(r) => OfsSame) /\ (~Ignored(r) => Adds(r))
    BY <1>5, <1>6, <1>7, InsertAdds
  <2>2. CASE Ignored(r)
    <3>1. PICK step, row : step = "track" /\ row = 0
      OBVIOUS
    <3>2. On(h, step, row) /\ step # "drain" /\ step # "fill"
      BY <1>7, <2>2, <3>1
    <3>3. QED
      BY <1>2, <2>1, <2>2, <3>2, OnPlain
  <2>3. CASE ~Ignored(r)
    <3>1. PICK new : new = Len(rows) + 1
      OBVIOUS
    <3>2. On(h, "drain", new)
      BY <1>7, <2>3, <3>1
    <3>3. new \in DOMAIN rows' /\ rows'[new].of = r
      BY <1>6, <2>1, <2>3, <3>1, AddedRow
    <3>4. PICK j : j = job[h]
      OBVIOUS
    <3>5. PICK e : e = Job(j.export, j.pos, "drain", j.failed, new, j.due, j.timing, j.found)
      OBVIOUS
    <3>6. job' = [job EXCEPT ![h] = e]
      <4>1. PICK step : step = "drain"
        OBVIOUS
      <4>2. job' = [job EXCEPT ![h] = Job(job[h].export, job[h].pos, step, job[h].failed,
                                          new, job[h].due, job[h].timing, job[h].found)]
        BY <3>2, <4>1, RowSet, Zenon DEF On, LogInv, Stands
      <4>3. QED
        BY <3>4, <3>5, <4>1, <4>2, Zenon
    <3>7. /\ e.export = j.export /\ e.pos = j.pos /\ e.failed = j.failed
          /\ e.step = "drain" /\ e.row = new /\ e.due = j.due /\ e.timing = j.timing
      BY <3>5 DEF Job
    <3>8. /\ Later(j, e) /\ Lands(j, e) /\ Now(e) = Now(j)
      <4>1. e.step \in Landed /\ j.step \notin Landed
        BY <1>2, <3>4, <3>7 DEF Landed
      <4>2. QED
        BY <3>7, <4>1, GoesLater
    <3>9. Now(j) = r
      BY <1>3, <3>4 DEF Now, Rec, Batch
    <3>10. j.due = {} /\ Between(j.timing.ttft)
      BY <1>2, <3>4, NoneDue
    <3>11. DueFits(e)'
      BY <1>2, <1>3, <3>3, <3>7, <3>8, <3>9, <3>10 DEF DueFits, Between, Now
    <3>12. e.due \subseteq job[h].due
      BY <3>4, <3>7
    <3>13. QED
      BY <1>3, <2>1, <2>3, <3>4, <3>6, <3>8, <3>11, <3>12, Zenon DEF Plain
  <2>4. QED
    BY <2>2, <2>3
<1>8. CASE Done(h, TRUE) /\ UNCHANGED rows
  <2>1. OfsSame /\ FillsNone
    BY <1>6, <1>8, RowsUnchanged
  <2>2. QED
    BY <1>2, <1>8, <2>1, DonePlain DEF LogInv
<1>9. \/ Insert(r, own) /\ On(h, IF Ignored(r) THEN "track" ELSE "drain",
                              IF Ignored(r) THEN 0 ELSE Len(rows) + 1)
      \/ Done(h, TRUE) /\ UNCHANGED rows
  BY <1>3, <1>4, Zenon DEF InsertAnchor, Fails
<1>10. QED
  BY <1>7, <1>8, <1>9

-----------------------------------------------------------------------------
(* The statements that move a turn's observation.                           *)

\* Row i is of an anchor that observation r was made for.
Suits(i, r) == Of(i) = Conv(r) /\ IsAnchor(i) /\ Belongs(r, rows[i].of)
\* Row i gets observation r, unless it has a time already.
Gets(i, r) ==
    /\ OfsSame /\ i \in DOMAIN rows /\ Suits(i, r)
    /\ \A k \in DOMAIN rows :
          rows'[k].ttft = rows[k].ttft \/ (k = i /\ rows'[k].ttft = <<r, r>>)
StashInv ==
    /\ stash = [c \in {Conv(r) : r \in Records} |-> stash[c]]
    /\ \A c \in DOMAIN stash : \A d \in stash[c] : Conv(d.of) = c

Moves(h, e) == job' = [job EXCEPT ![h] = e] /\ Later(job[h], e) /\ DueFits(e)'

LEMMA TargetSuits ==
    ASSUME RowsOK, NEW r \in Records, TurnTarget(r) # 0
    PROVE  TurnTarget(r) \in CodexRows /\ TurnTarget(r) \in DOMAIN rows /\ Suits(TurnTarget(r), r)
<1>1. PICK all : all = {i \in OpenRows(Conv(r), "ttft", Trace[r].at - TurnWindow) :
                            IsAnchor(i) /\ ~Failed(i) /\ At(i) <= Trace[r].at}
  OBVIOUS
<1>2. PICK ids : ids = {i \in all : \A k \in all : At(k) <= At(i)}
  OBVIOUS
<1>3. TurnTarget(r) = Newest(ids)
  BY <1>1, <1>2, Zenon DEF TurnTarget, Latest
<1>4. ids \subseteq all /\ all \subseteq CodexRows
  BY <1>1, <1>2 DEF OpenRows, CodexRows
<1>5. PICK i : i = TurnTarget(r) /\ i \in all
  BY <1>3, <1>4, NewestIsOne DEF CodexRows
<1>6. /\ i \in DOMAIN rows /\ Of(i) = Conv(r) /\ IsAnchor(i) /\ At(i) <= Trace[r].at
      /\ At(i) >= Trace[r].at - TurnWindow
  BY <1>1, <1>5 DEF OpenRows
<1>7. rows[i].of \in Records
  BY <1>6 DEF RowsOK, IsRow
<1>8. Trace[r].at \in Nat /\ At(i) \in Nat /\ TurnWindow \in Nat /\ At(i) = Trace[rows[i].of].at
  BY <1>7, RecordAssumption, WindowAssumption DEF At
<1>9. Belongs(r, rows[i].of)
  BY <1>6, <1>8 DEF Belongs
<1>10. QED
  BY <1>4, <1>5, <1>6, <1>9 DEF Suits

LEMMA FillTurnMoves ==
    ASSUME LogInv, DueInv, NEW h \in Handlers, FillTurn(h)
    PROVE  \/ Plain(h)
           \/ \E e, i : /\ Moves(h, e) /\ Lands(job[h], e) /\ e.due = {}
                        /\ Rec(h) \in Records /\ Gets(i, Rec(h))
<1>1. Begins(h, {"codex.turn_ttft"})
  BY DEF FillTurn
<1>2. Busy(h) /\ job[h].step \notin Landed /\ job[h].step # "fill"
  BY <1>1, BeginsAt
<1>3. PICK r \in Records : r = Rec(h)
  BY <1>2, AtHand DEF LogInv, Stands
<1>4. RowsOK
  BY DEF LogInv, Stands
<1>5. CASE Fails(h) /\ UNCHANGED rows
  <2>1. OfsSame /\ FillsNone
    BY <1>4, <1>5, RowsUnchanged
  <2>2. QED
    BY <1>2, <1>5, <2>1, DonePlain DEF LogInv, Fails
<1>6. PICK i : i = TurnTarget(r)
  OBVIOUS
<1>7. ASSUME Fill(i, "ttft", <<r, r>>), i = 0, On(h, "stash", 0)
      PROVE  Plain(h)
  <2>1. OfsSame /\ FillsNone
    BY <1>4, <1>7, RowsUnchanged DEF Fill
  <2>2. PICK step, row : step = "stash" /\ row = 0
    OBVIOUS
  <2>3. On(h, step, row) /\ step # "drain" /\ step # "fill"
    BY <1>7, <2>2
  <2>4. QED
    BY <1>2, <2>1, <2>3, OnPlain
<1>8. ASSUME Fill(i, "ttft", <<r, r>>), i # 0, Done(h, FALSE)
      PROVE  \E e : Moves(h, e) /\ Lands(job[h], e) /\ e.due = {} /\ Gets(i, r)
  <2>1. i \in CodexRows /\ i \in DOMAIN rows /\ Suits(i, r)
    BY <1>4, <1>6, <1>8, TargetSuits
  <2>2. PICK value : value = <<r, r>>
    OBVIOUS
  <2>3. /\ OfsSame
        /\ \A k \in DOMAIN rows : rows'[k].ttft = rows[k].ttft \/ (k = i /\ rows'[k].ttft = value)
    BY <1>4, <1>8, <2>1, <2>2, FillSets
  <2>4. Gets(i, r)
    BY <2>1, <2>2, <2>3 DEF Gets
  <2>5. PICK e : Moves(h, e) /\ Lands(job[h], e) /\ e.due = {}
    BY <1>2, <1>8, DoneLater DEF LogInv, Stands, Moves
  <2>6. QED
    BY <2>4, <2>5
<1>9. \/ /\ Fill(i, "ttft", <<r, r>>)
         /\ (i = 0 /\ On(h, "stash", 0)) \/ (i # 0 /\ Done(h, FALSE))
      \/ Fails(h) /\ UNCHANGED rows
  BY <1>3, <1>6, Zenon DEF FillTurn, UpdateCodexTurnTTFT
<1>10. QED
  BY <1>3, <1>5, <1>7, <1>8, <1>9

LEMMA StashTurnMoves ==
    ASSUME LogInv, NEW h \in Handlers, StashTurn(h)
    PROVE  /\ OfsSame /\ FillsNone /\ UNCHANGED rows /\ Rec(h) \in Records
           /\ stashTurnTTFT(Rec(h))
           /\ \E e : Moves(h, e) /\ Lands(job[h], e) /\ e.due = {}
<1>1. /\ Busy(h) /\ job[h].step = "stash" /\ Done(h, FALSE) /\ UNCHANGED rows
      /\ stashTurnTTFT(Rec(h))
  BY DEF StashTurn, Reached
<1>2. OfsSame /\ FillsNone
  BY <1>1, RowsUnchanged DEF LogInv, Stands
<1>3. job[h].step \notin Landed
  BY <1>1 DEF Landed
<1>4. \E e : Moves(h, e) /\ Lands(job[h], e) /\ e.due = {}
  BY <1>1, <1>3, DoneLater DEF LogInv, Stands, Moves
<1>5. Rec(h) \in Records
  BY <1>1, AtHand DEF LogInv, Stands
<1>6. QED
  BY <1>1, <1>2, <1>4, <1>5

\* The handler has other observations to apply.
LEMMA DuesMove ==
    ASSUME LogInv, DueInv, NEW h \in Handlers, job[h].step \in {"drain", "fill"},
           NEW due, NEW step \in {"track", "fill"}, Dues(h, due, step), OfsSame,
           step = "track" => due = {},
           \A d \in due : Conv(d.of) = Conv(Rec(h)) /\ Belongs(d.of, Rec(h))
    PROVE  \E e : Moves(h, e) /\ e.due = due
<1>1. PICK j : j = job[h]
  OBVIOUS
<1>2. PICK e : e = Job(j.export, j.pos, step, j.failed, j.row, due, j.timing, j.found)
  OBVIOUS
<1>3. job' = [job EXCEPT ![h] = e]
  <2>1. PICK row, timing, found : row = j.row /\ timing = j.timing /\ found = j.found
    OBVIOUS
  <2>2. job' = [job EXCEPT ![h] = Job(job[h].export, job[h].pos, step, job[h].failed,
                                      row, due, timing, found)]
    BY <1>1, <2>1, DuesJob DEF LogInv, Stands
  <2>3. QED
    BY <1>1, <1>2, <2>1, <2>2, Zenon
<1>4. /\ e.export = j.export /\ e.pos = j.pos /\ e.failed = j.failed
      /\ e.step = step /\ e.row = j.row /\ e.due = due /\ e.timing = j.timing
  BY <1>2 DEF Job
<1>5. Later(j, e) /\ Now(e) = Now(j)
  <2>1. e.step \in Landed
    BY <1>4 DEF Landed
  <2>2. QED
    BY <1>4, <2>1, GoesLater
<1>6. Now(j) = Rec(h)
  BY <1>1 DEF Now, Rec, Batch
<1>7. /\ j.row \in DOMAIN rows /\ rows[j.row].of = Now(j) /\ Trace[Now(j)].kind = "codex.api_request"
      /\ Between(j.timing.ttft)
  BY <1>1 DEF DueInv, DueFits
<1>8. j.row \in DOMAIN rows' /\ rows'[j.row].of = Now(j)
  BY <1>7 DEF OfsSame
<1>9. step = "fill" \/ due = {}
  OBVIOUS
<1>10. DueFits(e)'
  BY <1>4, <1>5, <1>6, <1>7, <1>8, <1>9 DEF DueFits, Between, Now, Conv, Belongs
<1>11. QED
  BY <1>1, <1>3, <1>4, <1>5, <1>10 DEF Moves

LEMMA DrainMoves ==
    ASSUME LogInv, DueInv, StashInv, NEW h \in Handlers, DrainStash(h)
    PROVE  /\ OfsSame /\ FillsNone /\ UNCHANGED rows /\ Rec(h) \in Records
           /\ drainTurnTTFT(Rec(h))
           /\ \E e : Moves(h, e) /\ e.due = Drained(Rec(h))
<1>1. Busy(h) /\ job[h].step = "drain" /\ UNCHANGED rows /\ drainTurnTTFT(Rec(h))
  BY DEF DrainStash, Reached
<1>2. OfsSame /\ FillsNone
  BY <1>1, RowsUnchanged DEF LogInv, Stands
<1>3. PICK r \in Records : r = Rec(h)
  BY <1>1, AtHand DEF LogInv, Stands
<1>4. PICK due, step : /\ due = Drained(r)
                       /\ step = IF due = {} THEN "track" ELSE "fill"
  OBVIOUS
<1>5. Dues(h, due, step)
  BY <1>3, <1>4, Zenon DEF DrainStash, Dues
<1>6. step \in {"track", "fill"} /\ (step = "track" => due = {})
  BY <1>4
<1>7. Conv(r) \in DOMAIN stash
  BY <1>3 DEF StashInv
<1>8. \A d \in due : Conv(d.of) = Conv(r) /\ Belongs(d.of, r)
  BY <1>4, <1>7 DEF Drained, StashInv
<1>9. \E e : Moves(h, e) /\ e.due = due
  <2>1. \A d \in due : Conv(d.of) = Conv(Rec(h)) /\ Belongs(d.of, Rec(h))
    BY <1>3, <1>8
  <2>2. QED
    BY <1>1, <1>2, <1>5, <1>6, <2>1, DuesMove
<1>10. QED
  BY <1>1, <1>2, <1>3, <1>4, <1>9

LEMMA FillStashedMoves ==
    ASSUME LogInv, DueInv, NEW h \in Handlers, FillStashed(h)
    PROVE  \E d \in job[h].due :
              /\ OfsSame /\ (FillsNone \/ Gets(job[h].row, d.of))
              /\ \E e : Moves(h, e) /\ e.due = job[h].due \ {d}
<1>1. Busy(h) /\ job[h].step = "fill"
  BY DEF FillStashed, Reached
<1>2. PICK row, due, r : row = job[h].row /\ due = job[h].due /\ r = Rec(h)
  OBVIOUS
<1>3. PICK d \in due :
         /\ UpdateCodexRequestTTFT(row, d.of, <<d.of, d.of>>) \/ UNCHANGED rows
         /\ Dues(h, due \ {d}, IF due = {d} THEN "track" ELSE "fill")
  BY <1>2, Zenon DEF FillStashed, Dues
<1>4. /\ row \in CodexRows \cup {0} /\ row \in DOMAIN rows /\ rows[row].of = r
      /\ Trace[r].kind = "codex.api_request"
      /\ \A c \in due : Conv(c.of) = Conv(r) /\ Belongs(c.of, r)
  <2>1. PICK j : j = job[h] /\ Now(j) = r
    BY <1>1, <1>2, AtHand DEF LogInv, Stands
  <2>2. DueFits(j) /\ JobFits(j)
    BY <2>1 DEF DueInv, LogInv, Stands, JobInv
  <2>3. j.step = "fill" /\ row = j.row /\ due = j.due
    BY <1>1, <1>2, <2>1
  <2>4. row \in CodexRows \cup {0}
    BY <2>2, <2>3 DEF JobFits
  <2>5. QED
    BY <2>1, <2>2, <2>3, <2>4 DEF DueFits
<1>5. Suits(row, d.of)
  BY <1>4 DEF Suits, Of, IsAnchor
<1>6. OfsSame /\ (FillsNone \/ Gets(row, d.of))
  <2>1. RowsOK
    BY DEF LogInv, Stands
  <2>2. CASE UNCHANGED rows
    BY <2>1, <2>2, RowsUnchanged
  <2>3. PICK value : value = <<d.of, d.of>>
    OBVIOUS
  <2>4. CASE UpdateCodexRequestTTFT(row, d.of, value)
    <3>1. CASE value = NoSpan
      BY <2>1, <2>4, <3>1, RowsUnchanged DEF UpdateCodexRequestTTFT
    <3>2. CASE value # NoSpan
      <4>1. row # 0
        <5>1. PICK S : rows \in Seq(S)
          BY <2>1 DEF RowsOK
        <5>2. QED
          BY <1>4, <5>1
      <4>2. PICK i : i = IF rows[row].ttft = NoSpan THEN row ELSE 0
        OBVIOUS
      <4>3. Fill(i, "ttft", value) /\ i \in CodexRows \cup {0} /\ (i = row \/ i = 0)
        BY <1>4, <2>4, <3>2, <4>1, <4>2 DEF UpdateCodexRequestTTFT
      <4>4. CASE i = 0
        BY <2>1, <4>3, <4>4, RowsUnchanged DEF Fill
      <4>5. CASE i = row
        <5>1. /\ OfsSame
              /\ \A k \in DOMAIN rows :
                    rows'[k].ttft = rows[k].ttft \/ (k = row /\ rows'[k].ttft = value)
          BY <2>1, <4>3, <4>5, FillSets
        <5>2. QED
          BY <1>4, <1>5, <2>3, <5>1 DEF Gets
      <4>6. QED
        BY <4>3, <4>4, <4>5
    <3>3. QED
      BY <3>1, <3>2
  <2>5. QED
    BY <1>3, <2>2, <2>3, <2>4
<1>7. PICK left, step : left = due \ {d} /\ step = IF due = {d} THEN "track" ELSE "fill"
  OBVIOUS
<1>8. /\ Dues(h, left, step) /\ step \in {"track", "fill"} /\ (step = "track" => left = {})
      /\ \A c \in left : Conv(c.of) = Conv(Rec(h)) /\ Belongs(c.of, Rec(h))
  <2>1. Dues(h, left, step)
    BY <1>3, <1>7, Zenon
  <2>2. QED
    BY <1>2, <1>4, <1>7, <2>1
<1>9. \E e : Moves(h, e) /\ e.due = left
  BY <1>1, <1>6, <1>8, DuesMove
<1>10. QED
  BY <1>2, <1>6, <1>7, <1>9

-----------------------------------------------------------------------------
(* How many observations of a turn there are.                               *)

LEMMA Shrinks ==
    ASSUME NEW S, IsFiniteSet(S), NEW T, T \subseteq S
    PROVE  /\ IsFiniteSet(T) /\ Cardinality(T) \in Nat /\ Cardinality(S) \in Nat
           /\ Cardinality(T) <= Cardinality(S)
<1>1. T \in SUBSET S
  OBVIOUS
<1>2. QED
  BY <1>1, FS_Subset, FS_CardinalityType

LEMMA ByOne ==
    ASSUME NEW S, IsFiniteSet(S), NEW a, NEW T, T \subseteq S \cup {a}
    PROVE  /\ IsFiniteSet(T) /\ Cardinality(T) \in Nat /\ Cardinality(S) \in Nat
           /\ Cardinality(T) <= Cardinality(S) + 1
<1>1. /\ IsFiniteSet(S \cup {a}) /\ Cardinality(S) \in Nat
      /\ Cardinality(S \cup {a}) <= Cardinality(S) + 1
  BY FS_AddElement, FS_CardinalityType
<1>2. QED
  BY <1>1, Shrinks

LEMMA Swaps ==
    ASSUME NEW S, IsFiniteSet(S), NEW a \in S, NEW b, NEW T, T \subseteq (S \ {a}) \cup {b}
    PROVE  /\ IsFiniteSet(T) /\ Cardinality(T) \in Nat /\ Cardinality(S) \in Nat
           /\ Cardinality(T) <= Cardinality(S)
<1>1. /\ IsFiniteSet(S \ {a}) /\ Cardinality(S) \in Nat
      /\ Cardinality(S \ {a}) = Cardinality(S) - 1
  BY FS_RemoveElement, FS_CardinalityType
<1>2. QED
  BY <1>1, ByOne

LEMMA Renames ==
    ASSUME NEW S, IsFiniteSet(S), NEW f, NEW T, T \subseteq {f[t] : t \in S}
    PROVE  /\ IsFiniteSet(T) /\ Cardinality(T) \in Nat /\ Cardinality(S) \in Nat
           /\ Cardinality(T) <= Cardinality(S)
<1>1. PICK g : g = [t \in S |-> f[t]]
  OBVIOUS
<1>2. PICK R : R = {f[t] : t \in S}
  OBVIOUS
<1>3. g \in Surjection(S, R)
  BY <1>1, <1>2 DEF Surjection
<1>4. IsFiniteSet(R) /\ Cardinality(R) <= Cardinality(S) /\ Cardinality(S) \in Nat
  BY <1>3, FS_Surjection, FS_CardinalityType
<1>5. QED
  BY <1>2, <1>4, Shrinks

\* Observation r in rows, in the stash, and in the hands of handlers.
InRows(r) == {<<0, i>> : i \in {k \in DOMAIN rows : rows[k].ttft = <<r, r>>}}
InStash(r) == {<<1, d>> : d \in {c \in stash[Conv(r)] : c.of = r}}
InHands(r) == {<<2, p>> : p \in {q \in Handlers \X UNION {job[h].due : h \in Handlers} :
                                   q[2] \in job[q[1]].due /\ q[2].of = r}}
Tok(r) == InRows(r) \cup InStash(r) \cup InHands(r)

LEMMA RowsFewer ==
    ASSUME NEW r \in Records, FillsNone
    PROVE  InRows(r)' \subseteq InRows(r)
BY DEF InRows, FillsNone

LEMMA HandsFewer ==
    ASSUME JobInv, NEW r, NEW h \in Handlers, NEW e, job' = [job EXCEPT ![h] = e],
           NEW more, e.due \subseteq job[h].due \cup more
    PROVE  InHands(r)' \subseteq InHands(r) \cup {<<2, <<h, d>>>> : d \in {c \in more : c.of = r}}
<1>1. job'[h] = e /\ \A g \in Handlers : g # h => job'[g] = job[g]
  BY JobOf
<1> SUFFICES ASSUME NEW t \in InHands(r)'
             PROVE  t \in InHands(r) \cup {<<2, <<h, d>>>> : d \in {c \in more : c.of = r}}
  OBVIOUS
<1>2. PICK g, d : g \in Handlers /\ t = <<2, <<g, d>>>> /\ d \in job'[g].due /\ d.of = r
  BY DEF InHands
<1>3. CASE d \in job[g].due
  BY <1>2, <1>3 DEF InHands
<1>4. CASE g = h /\ d \in more
  BY <1>2, <1>4
<1>5. QED
  BY <1>1, <1>2, <1>3, <1>4

LEMMA HandsSame ==
    ASSUME JobInv, NEW r, NEW h \in Handlers, NEW e, job' = [job EXCEPT ![h] = e],
           e.due \subseteq job[h].due
    PROVE  InHands(r)' \subseteq InHands(r)
<1>1. PICK none : none = {}
  OBVIOUS
<1>2. e.due \subseteq job[h].due \cup none
  BY <1>1
<1>3. InHands(r)' \subseteq InHands(r) \cup {<<2, <<h, d>>>> : d \in {c \in none : c.of = r}}
  BY <1>2, HandsFewer
<1>4. QED
  BY <1>1, <1>3

LEMMA PlainTokens ==
    ASSUME JobInv, NEW r \in Records, FillsNone, UNCHANGED stash,
           NEW h \in Handlers, NEW e, job' = [job EXCEPT ![h] = e], e.due \subseteq job[h].due
    PROVE  Tok(r)' \subseteq Tok(r)
<1>1. InRows(r)' \subseteq InRows(r)
  BY RowsFewer
<1>2. InHands(r)' \subseteq InHands(r)
  BY HandsSame
<1>3. InStash(r)' = InStash(r)
  BY DEF InStash, Conv
<1>4. QED
  BY <1>1, <1>2, <1>3 DEF Tok

\* A row gets observation q.
LEMMA GetsRows ==
    ASSUME NEW i, NEW q \in Records, Gets(i, q), NEW r \in Records
    PROVE  InRows(r)' \subseteq InRows(r) \cup (IF r = q THEN {<<0, i>>} ELSE {})
<1> SUFFICES ASSUME NEW t \in InRows(r)'
             PROVE  t \in InRows(r) \cup (IF r = q THEN {<<0, i>>} ELSE {})
  OBVIOUS
<1>1. PICK k \in DOMAIN rows' : t = <<0, k>> /\ rows'[k].ttft = <<r, r>>
  BY DEF InRows
<1>2. k \in DOMAIN rows /\ (rows'[k].ttft = rows[k].ttft \/ (k = i /\ rows'[k].ttft = <<q, q>>))
  BY DEF Gets, OfsSame
<1>3. CASE rows'[k].ttft = rows[k].ttft
  BY <1>1, <1>2, <1>3 DEF InRows
<1>4. CASE k = i /\ rows'[k].ttft = <<q, q>>
  <2>1. r = q
    BY <1>1, <1>4
  <2>2. QED
    BY <1>1, <1>4, <2>1
<1>5. QED
  BY <1>2, <1>3, <1>4

LEMMA GetsTokens ==
    ASSUME JobInv, NEW i, NEW q \in Records, Gets(i, q), UNCHANGED stash, NEW r \in Records,
           NEW h \in Handlers, NEW e, job' = [job EXCEPT ![h] = e], e.due = {}
    PROVE  Tok(r)' \subseteq Tok(r) \cup (IF r = q THEN {<<0, i>>} ELSE {})
<1>1. InRows(r)' \subseteq InRows(r) \cup (IF r = q THEN {<<0, i>>} ELSE {})
  BY GetsRows
<1>2. InHands(r)' \subseteq InHands(r)
  BY HandsSame
<1>3. InStash(r)' = InStash(r)
  BY DEF InStash, Conv
<1>4. QED
  BY <1>1, <1>2, <1>3 DEF Tok

\* Observation q comes into the stash.
LEMMA StashAdds ==
    ASSUME StashInv, NEW q \in Records, stashTurnTTFT(q)
    PROVE  /\ StashInv'
           /\ \E new : \A r \in Records :
                 InStash(r)' \subseteq InStash(r) \cup (IF r = q THEN {<<1, new>>} ELSE {})
<1>1. PICK c : c = Conv(q) /\ c \in DOMAIN stash
  BY DEF StashInv
<1>2. PICK last : Observed(stash[c], q) = stash[c] \cup {[of |-> q, nr |-> last + 1]}
  BY DEF Observed
<1>3. PICK new : new = [of |-> q, nr |-> last + 1] /\ new.of = q
  <2>1. PICK new : new = [of |-> q, nr |-> last + 1]
    OBVIOUS
  <2>2. new.of = q
    BY <2>1
  <2>3. QED
    BY <2>1, <2>2
<1>4. PICK kept : /\ stash' = [stash EXCEPT ![c] = kept]
                  /\ kept \subseteq stash[c] \cup {new}
  <2>1. PICK fresh : fresh = {e \in Observed(stash[c], q) : e.of \notin old}
    OBVIOUS
  <2>2. PICK kept : kept = {e \in fresh : Cardinality({f \in fresh : f.nr > e.nr}) < StashPerKey}
    OBVIOUS
  <2>3. stash' = [stash EXCEPT ![c] = kept]
    BY <1>1, <2>1, <2>2, Zenon DEF stashTurnTTFT
  <2>4. kept \subseteq stash[c] \cup {new}
    BY <1>2, <1>3, <2>1, <2>2
  <2>5. QED
    BY <2>3, <2>4
<1>5. /\ stash' = [a \in {Conv(r) : r \in Records} |-> stash'[a]]
      /\ DOMAIN stash' = DOMAIN stash /\ stash'[c] = kept
      /\ \A a \in DOMAIN stash \ {c} : stash'[a] = stash[a]
  BY <1>1, <1>4 DEF StashInv
<1>6. StashInv'
  <2>1. \A a \in DOMAIN stash' : \A d \in stash'[a] : Conv(d.of) = a
    BY <1>1, <1>3, <1>4, <1>5 DEF StashInv
  <2>2. QED
    BY <1>5, <2>1 DEF StashInv, Conv
<1>7. ASSUME NEW r \in Records
      PROVE  InStash(r)' \subseteq InStash(r) \cup (IF r = q THEN {<<1, new>>} ELSE {})
  <2> SUFFICES ASSUME NEW t \in InStash(r)'
               PROVE  t \in InStash(r) \cup (IF r = q THEN {<<1, new>>} ELSE {})
    OBVIOUS
  <2>1. PICK d \in stash'[Conv(r)] : t = <<1, d>> /\ d.of = r
    BY DEF InStash, Conv
  <2>2. Conv(r) \in DOMAIN stash
    BY DEF StashInv
  <2>3. CASE d \in stash[Conv(r)]
    BY <2>1, <2>3 DEF InStash
  <2>4. CASE d = new
    BY <1>3, <2>1, <2>4
  <2>5. QED
    BY <1>4, <1>5, <2>1, <2>2, <2>3, <2>4
<1>8. QED
  BY <1>6, <1>7

LEMMA StashTokens ==
    ASSUME JobInv, StashInv, NEW q \in Records, stashTurnTTFT(q), FillsNone,
           NEW h \in Handlers, NEW e, job' = [job EXCEPT ![h] = e], e.due = {}
    PROVE  \E t : \A r \in Records : Tok(r)' \subseteq Tok(r) \cup (IF r = q THEN {t} ELSE {})
<1>1. PICK new : \A r \in Records :
         InStash(r)' \subseteq InStash(r) \cup (IF r = q THEN {<<1, new>>} ELSE {})
  BY StashAdds
<1>2. PICK t : t = <<1, new>>
  OBVIOUS
<1>3. ASSUME NEW r \in Records
      PROVE  Tok(r)' \subseteq Tok(r) \cup (IF r = q THEN {t} ELSE {})
  <2>1. InRows(r)' \subseteq InRows(r)
    BY RowsFewer
  <2>2. InHands(r)' \subseteq InHands(r)
    BY HandsSame
  <2>3. InStash(r)' \subseteq InStash(r) \cup (IF r = q THEN {t} ELSE {})
    BY <1>1, <1>2
  <2>4. QED
    BY <2>1, <2>2, <2>3 DEF Tok
<1>4. QED
  BY <1>3

\* A handler takes from the stash what was made for its anchor.
LEMMA DrainTokens ==
    ASSUME JobInv, StashInv, NEW a \in Records, drainTurnTTFT(a), UNCHANGED rows, FillsNone,
           NEW h \in Handlers, NEW e, job' = [job EXCEPT ![h] = e], e.due = Drained(a),
           NEW r \in Records
    PROVE  \E f : Tok(r)' \subseteq {f[t] : t \in Tok(r)}
<1>1. PICK c, out : c = Conv(a) /\ c \in DOMAIN stash /\ out = Drained(a)
  BY DEF StashInv
<1>2. /\ out = {d \in stash[c] : Belongs(d.of, a)}
      /\ stash' = [stash EXCEPT ![c] = stash[c] \ out]
  BY <1>1 DEF Drained, drainTurnTTFT
<1>3. PICK moved : moved = {<<1, d>> : d \in {b \in out : b.of = r}}
  OBVIOUS
<1>4. PICK f : f = [t \in Tok(r) |-> IF t \in moved THEN <<2, <<h, t[2]>>>> ELSE t]
  OBVIOUS
<1> SUFFICES ASSUME NEW t \in Tok(r)'
             PROVE  \E u \in Tok(r) : t = f[u]
  OBVIOUS
<1>5. \A u : u \in InRows(r) \/ u \in InHands(r) => u \in Tok(r) /\ u \notin moved
  BY <1>3 DEF Tok, InRows, InHands
<1>6. CASE t \in InRows(r)'
  <2>1. t \in InRows(r)
    BY <1>6, RowsFewer
  <2>2. QED
    BY <1>4, <1>5, <2>1
<1>7. CASE t \in InStash(r)'
  <2>1. PICK d \in stash'[Conv(r)] : t = <<1, d>> /\ d.of = r
    BY <1>7 DEF InStash, Conv
  <2>2. Conv(r) \in DOMAIN stash
    BY DEF StashInv
  <2>3. d \in stash[Conv(r)] /\ (Conv(r) = c => d \notin out)
    BY <1>1, <1>2, <2>1, <2>2 DEF StashInv
  <2>4. t \in Tok(r)
    BY <2>1, <2>3 DEF Tok, InStash
  <2>5. t \notin moved
    <3>1. d \in out => Conv(r) = c
      BY <1>1, <1>2, <2>1 DEF StashInv
    <3>2. QED
      BY <1>3, <2>1, <2>3, <3>1
  <2>6. QED
    BY <1>4, <2>4, <2>5
<1>8. CASE t \in InHands(r)'
  <2>1. InHands(r)' \subseteq InHands(r) \cup {<<2, <<h, d>>>> : d \in {b \in out : b.of = r}}
    <3>1. e.due \subseteq job[h].due \cup out
      BY <1>1
    <3>2. QED
      BY <3>1, HandsFewer
  <2>2. CASE t \in InHands(r)
    BY <1>4, <1>5, <2>2
  <2>3. CASE \E d \in out : d.of = r /\ t = <<2, <<h, d>>>>
    <3>1. PICK d \in out : d.of = r /\ t = <<2, <<h, d>>>>
      BY <2>3
    <3>2. PICK u : u = <<1, d>>
      OBVIOUS
    <3>3. u \in moved /\ u[2] = d
      BY <1>3, <3>1, <3>2
    <3>4. Conv(r) = c /\ d \in stash[c]
      BY <1>1, <1>2, <3>1 DEF StashInv
    <3>5. u \in Tok(r)
      BY <3>1, <3>2, <3>4 DEF Tok, InStash
    <3>6. f[u] = t
      BY <1>4, <3>1, <3>3, <3>5
    <3>7. QED
      BY <3>5, <3>6
  <2>4. QED
    BY <1>8, <2>1, <2>2, <2>3
<1>9. QED
  BY <1>6, <1>7, <1>8 DEF Tok

\* A handler applies an observation.
LEMMA FillTokens ==
    ASSUME JobInv, UNCHANGED stash, NEW i, NEW h \in Handlers, NEW d \in job[h].due,
           OfsSame, FillsNone \/ Gets(i, d.of),
           NEW e, job' = [job EXCEPT ![h] = e], e.due = job[h].due \ {d}, NEW r \in Records
    PROVE  \/ Tok(r)' \subseteq Tok(r)
           \/ \E a \in Tok(r) : \E b : Tok(r)' \subseteq (Tok(r) \ {a}) \cup {b}
<1>1. InHands(r)' \subseteq InHands(r) /\ InStash(r)' = InStash(r)
  BY HandsSame DEF InStash, Conv
<1>2. CASE FillsNone
  BY <1>1, <1>2, RowsFewer DEF Tok
<1>3. CASE Gets(i, d.of) /\ d.of # r
  <2>1. InRows(r)' \subseteq InRows(r)
    <3>1. ASSUME NEW k \in DOMAIN rows', rows'[k].ttft = <<r, r>>
          PROVE  k \in DOMAIN rows /\ rows[k].ttft = <<r, r>>
      BY <1>3, <3>1 DEF Gets, OfsSame
    <3>2. QED
      BY <3>1 DEF InRows
  <2>2. QED
    BY <1>1, <2>1 DEF Tok
<1>4. CASE Gets(i, d.of) /\ d.of = r
  <2>1. PICK a, b : a = <<2, <<h, d>>>> /\ b = <<0, i>>
    OBVIOUS
  <2>2. a \in Tok(r)
    BY <1>4, <2>1 DEF Tok, InHands
  <2>3. Gets(i, r)
    BY <1>4
  <2>4. InRows(r)' \subseteq InRows(r) \cup {b}
    BY <2>1, <2>3, GetsRows
  <2>5. a \notin InHands(r)'
    <3>1. job'[h] = e
      BY JobOf
    <3>2. d \notin job'[h].due
      BY <3>1
    <3>3. QED
      BY <2>1, <3>2 DEF InHands
  <2>6. a \notin InRows(r) /\ a \notin InStash(r) /\ a # b
    BY <2>1 DEF InRows, InStash
  <2>7. Tok(r)' \subseteq (Tok(r) \ {a}) \cup {b}
    BY <1>1, <2>4, <2>5, <2>6 DEF Tok
  <2>8. QED
    BY <2>2, <2>7
<1>5. QED
  BY <1>2, <1>3, <1>4

\* A step makes one observation more at most, and then it is the record at
\* hand that lands.
Spends(h, e) ==
    \A r \in Records : IsFiniteSet(Tok(r)) =>
        /\ IsFiniteSet(Tok(r)') /\ Cardinality(Tok(r)') \in Nat /\ Cardinality(Tok(r)) \in Nat
        /\ \/ Cardinality(Tok(r)') <= Cardinality(Tok(r))
           \/ /\ r = Rec(h) /\ Lands(job[h], e)
              /\ Cardinality(Tok(r)') <= Cardinality(Tok(r)) + 1

\* What a handler's step does.
Works(h) ==
    \E e : /\ Moves(h, e) /\ Spends(h, e)
           /\ OfsSame \/ (Lands(job[h], e) /\ Adds(Rec(h)))
           /\ FillsNone \/ \E i, q : Gets(i, q)

LEMMA FewerSpends ==
    ASSUME NEW h, NEW e, \A r \in Records : Tok(r)' \subseteq Tok(r)
    PROVE  Spends(h, e)
BY Shrinks DEF Spends

LEMMA OneSpends ==
    ASSUME NEW h, NEW e, Lands(job[h], e), NEW t,
           \A r \in Records : Tok(r)' \subseteq Tok(r) \cup (IF r = Rec(h) THEN {t} ELSE {})
    PROVE  Spends(h, e)
<1> SUFFICES ASSUME NEW r \in Records, IsFiniteSet(Tok(r))
             PROVE  /\ IsFiniteSet(Tok(r)') /\ Cardinality(Tok(r)') \in Nat /\ Cardinality(Tok(r)) \in Nat
                    /\ \/ Cardinality(Tok(r)') <= Cardinality(Tok(r))
                       \/ /\ r = Rec(h) /\ Lands(job[h], e)
                          /\ Cardinality(Tok(r)') <= Cardinality(Tok(r)) + 1
  BY DEF Spends
<1>1. CASE r = Rec(h)
  <2>1. Tok(r)' \subseteq Tok(r) \cup {t}
    BY <1>1
  <2>2. QED
    BY <1>1, <2>1, ByOne
<1>2. CASE r # Rec(h)
  <2>1. Tok(r)' \subseteq Tok(r)
    BY <1>2
  <2>2. QED
    BY <2>1, Shrinks
<1>3. QED
  BY <1>1, <1>2

LEMMA PlainWorks ==
    ASSUME LogInv, NEW h \in Handlers, Plain(h), UNCHANGED stash
    PROVE  Works(h)
<1>1. PICK e : /\ job' = [job EXCEPT ![h] = e] /\ Later(job[h], e)
               /\ DueFits(e)' /\ e.due \subseteq job[h].due /\ FillsNone
               /\ OfsSame \/ (Lands(job[h], e) /\ Adds(Rec(h)))
  BY DEF Plain
<1>2. \A r \in Records : Tok(r)' \subseteq Tok(r)
  BY <1>1, PlainTokens DEF LogInv, Stands
<1>3. Spends(h, e)
  BY <1>2, FewerSpends
<1>4. QED
  BY <1>1, <1>3 DEF Works, Moves

LEMMA FillTurnWorks ==
    ASSUME LogInv, DueInv, NEW h \in Handlers, FillTurn(h)
    PROVE  Works(h)
<1>1. UNCHANGED stash
  BY DEF FillTurn
<1>2. CASE Plain(h)
  BY <1>1, <1>2, PlainWorks
<1>3. ASSUME NEW e, NEW i, Moves(h, e), Lands(job[h], e), e.due = {},
             Rec(h) \in Records, Gets(i, Rec(h))
      PROVE  Works(h)
  <2>1. PICK q \in Records : q = Rec(h)
    BY <1>3
  <2>2. PICK t : t = <<0, i>>
    OBVIOUS
  <2>3. \A r \in Records : Tok(r)' \subseteq Tok(r) \cup (IF r = q THEN {<<0, i>>} ELSE {})
    BY <1>1, <1>3, <2>1, GetsTokens DEF LogInv, Stands, Moves
  <2>4. Spends(h, e)
    BY <1>3, <2>1, <2>2, <2>3, OneSpends
  <2>5. QED
    BY <1>3, <2>4 DEF Works, Gets
<1>4. QED
  BY <1>2, <1>3, FillTurnMoves

LEMMA StashTurnWorks ==
    ASSUME LogInv, StashInv, NEW h \in Handlers, StashTurn(h)
    PROVE  Works(h) /\ StashInv'
<1>1. /\ OfsSame /\ FillsNone /\ Rec(h) \in Records /\ stashTurnTTFT(Rec(h))
      /\ \E e : Moves(h, e) /\ Lands(job[h], e) /\ e.due = {}
  BY StashTurnMoves
<1>2. PICK e : Moves(h, e) /\ Lands(job[h], e) /\ e.due = {}
  BY <1>1
<1>3. PICK q \in Records : q = Rec(h)
  BY <1>1
<1>4. PICK t : \A r \in Records : Tok(r)' \subseteq Tok(r) \cup (IF r = q THEN {t} ELSE {})
  BY <1>1, <1>2, <1>3, StashTokens DEF LogInv, Stands, Moves
<1>5. Spends(h, e)
  BY <1>2, <1>3, <1>4, OneSpends
<1>6. StashInv'
  BY <1>1, StashAdds
<1>7. QED
  BY <1>1, <1>2, <1>5, <1>6 DEF Works

LEMMA DrainWorks ==
    ASSUME LogInv, DueInv, StashInv, NEW h \in Handlers, DrainStash(h)
    PROVE  Works(h) /\ StashInv'
<1>1. /\ OfsSame /\ FillsNone /\ UNCHANGED rows /\ Rec(h) \in Records /\ drainTurnTTFT(Rec(h))
      /\ \E e : Moves(h, e) /\ e.due = Drained(Rec(h))
  BY DrainMoves
<1>2. PICK a \in Records : a = Rec(h)
  BY <1>1
<1>3. PICK e : Moves(h, e) /\ e.due = Drained(a)
  BY <1>1, <1>2
<1>4. ASSUME NEW r \in Records, IsFiniteSet(Tok(r))
      PROVE  /\ IsFiniteSet(Tok(r)') /\ Cardinality(Tok(r)') \in Nat /\ Cardinality(Tok(r)) \in Nat
             /\ Cardinality(Tok(r)') <= Cardinality(Tok(r))
  <2>1. PICK f : Tok(r)' \subseteq {f[t] : t \in Tok(r)}
    BY <1>1, <1>2, <1>3, DrainTokens DEF LogInv, Stands, Moves
  <2>2. QED
    BY <1>4, <2>1, Renames
<1>5. Spends(h, e)
  BY <1>4 DEF Spends
<1>6. StashInv'
  <2>1. PICK c, left : /\ c = Conv(a) /\ left = stash[c] \ Drained(a)
                       /\ stash' = [stash EXCEPT ![c] = left]
    BY <1>1, <1>2 DEF drainTurnTTFT
  <2>2. left \subseteq stash[c]
    BY <2>1
  <2>3. /\ stash' = [b \in {Conv(r) : r \in Records} |-> stash'[b]]
        /\ \A b \in DOMAIN stash' : \A d \in stash'[b] : Conv(d.of) = b
    BY <2>1, <2>2 DEF StashInv
  <2>4. QED
    BY <2>3 DEF StashInv, Conv
<1>7. QED
  BY <1>1, <1>3, <1>5, <1>6 DEF Works

LEMMA FillStashedWorks ==
    ASSUME LogInv, DueInv, NEW h \in Handlers, FillStashed(h)
    PROVE  Works(h)
<1>1. UNCHANGED stash
  BY DEF FillStashed
<1>2. PICK d \in job[h].due :
         /\ OfsSame /\ (FillsNone \/ Gets(job[h].row, d.of))
         /\ \E e : Moves(h, e) /\ e.due = job[h].due \ {d}
  BY FillStashedMoves
<1>3. PICK e : Moves(h, e) /\ e.due = job[h].due \ {d}
  BY <1>2
<1>4. PICK i : i = job[h].row
  OBVIOUS
<1>5. ASSUME NEW r \in Records, IsFiniteSet(Tok(r))
      PROVE  /\ IsFiniteSet(Tok(r)') /\ Cardinality(Tok(r)') \in Nat /\ Cardinality(Tok(r)) \in Nat
             /\ Cardinality(Tok(r)') <= Cardinality(Tok(r))
  <2>1. \/ Tok(r)' \subseteq Tok(r)
        \/ \E a \in Tok(r) : \E b : Tok(r)' \subseteq (Tok(r) \ {a}) \cup {b}
    BY <1>1, <1>2, <1>3, <1>4, FillTokens DEF LogInv, Stands, Moves
  <2>2. QED
    BY <1>5, <2>1, Shrinks, Swaps
<1>6. Spends(h, e)
  BY <1>5 DEF Spends
<1>7. QED
  BY <1>2, <1>3, <1>6 DEF Works

-----------------------------------------------------------------------------
(* The invariant of the handlers at work.                                   *)

\* A time that is a turn's observation is of a row that it was made for.
FillInv == \A i \in DOMAIN rows : \A r \in Records : rows[i].ttft = <<r, r>> => Suits(i, r)
\* There are no more observations of a turn than the budget allows.
TokInv ==
    \A x \in DOMAIN Exports : \A n \in DOMAIN Exports[x] :
        IsFiniteSet(Tok(Exports[x][n])) /\ Cardinality(Tok(Exports[x][n])) <= Budget(x, n)

WorkInv ==
    /\ LogInv /\ HoldInv /\ IdentityInv /\ CountInv
    /\ DueInv /\ StashInv /\ FillInv /\ TokInv

LEMMA OfsStay ==
    ASSUME RowsOK, NEW r, OfsSame \/ Adds(r)
    PROVE  \A i \in DOMAIN rows : i \in DOMAIN rows' /\ rows'[i].of = rows[i].of
<1>1. CASE OfsSame
  BY <1>1 DEF OfsSame
<1>2. CASE Adds(r)
  BY <1>2, AddedRow
<1>3. QED
  BY <1>1, <1>2

LEMMA DueStays ==
    ASSUME JobInv, DueInv, \A i \in DOMAIN rows : i \in DOMAIN rows' /\ rows'[i].of = rows[i].of,
           NEW h \in Handlers, NEW e, job' = [job EXCEPT ![h] = e], DueFits(e)'
    PROVE  DueInv'
<1>1. job'[h] = e /\ \A g \in Handlers : g # h => job'[g] = job[g]
  BY JobOf
<1>2. ASSUME NEW g \in Handlers
      PROVE  DueFits(job[g])'
  <2>1. CASE g = h
    <3>1. PICK k : k = job'[g] /\ k = e
      BY <1>1, <2>1
    <3>2. QED
      BY <3>1
  <2>2. CASE g # h
    <3>1. PICK k : k = job'[g] /\ k = job[g]
      BY <1>1, <2>2
    <3>2. DueFits(k)
      BY <3>1 DEF DueInv
    <3>3. DueFits(k)'
      BY <3>2 DEF DueFits, Now, Conv, Belongs, Between
    <3>4. QED
      BY <3>1, <3>3
  <2>3. QED
    BY <2>1, <2>2
<1>3. QED
  BY <1>2 DEF DueInv

LEMMA FillsStay ==
    ASSUME FillInv, \A i \in DOMAIN rows : i \in DOMAIN rows' /\ rows'[i].of = rows[i].of,
           FillsNone \/ \E i, q : Gets(i, q)
    PROVE  FillInv'
<1>1. ASSUME NEW i \in DOMAIN rows, NEW r, Suits(i, r)
      PROVE  Suits(i, r)'
  BY <1>1 DEF Suits, Of, IsAnchor, Conv, Belongs
<1>2. ASSUME NEW i \in DOMAIN rows', NEW r \in Records, rows'[i].ttft = <<r, r>>
      PROVE  i \in DOMAIN rows /\ Suits(i, r)
  <2>1. CASE FillsNone
    BY <1>2, <2>1 DEF FillsNone, FillInv
  <2>2. ASSUME NEW k, NEW q, Gets(k, q)
        PROVE  i \in DOMAIN rows /\ Suits(i, r)
    <3>1. i \in DOMAIN rows /\ (rows'[i].ttft = rows[i].ttft \/ (i = k /\ rows'[i].ttft = <<q, q>>))
      BY <2>2 DEF Gets, OfsSame
    <3>2. CASE rows'[i].ttft = rows[i].ttft
      BY <1>2, <3>1, <3>2 DEF FillInv
    <3>3. CASE i = k /\ rows'[i].ttft = <<q, q>>
      <4>1. r = q
        BY <1>2, <3>3
      <4>2. QED
        BY <2>2, <3>1, <3>3, <4>1 DEF Gets
    <3>4. QED
      BY <3>1, <3>2, <3>3
  <2>3. QED
    BY <2>1, <2>2
<1>3. QED
  BY <1>1, <1>2 DEF FillInv

LEMMA TokLater ==
    ASSUME LogInv, HoldInv, TokInv, NEW h \in Handlers, Busy(h), NEW e, Later(job[h], e),
           job' = [job EXCEPT ![h] = e], UNCHANGED <<todo, lost>>, Spends(h, e)
    PROVE  TokInv'
<1> SUFFICES ASSUME NEW x \in DOMAIN Exports, NEW n \in DOMAIN Exports[x]
             PROVE  /\ IsFiniteSet(Tok(Exports[x][n])')
                    /\ Cardinality(Tok(Exports[x][n])') <= Budget(x, n)'
  BY DEF TokInv
<1>1. PICK r \in Records : r = Exports[x][n]
  BY ExportAssumption
<1>2. IsFiniteSet(Tok(r)) /\ Cardinality(Tok(r)) <= Budget(x, n)
  BY <1>1 DEF TokInv
<1>3. /\ Budget(x, n) \in Nat /\ Budget(x, n)' \in Nat /\ Budget(x, n)' >= Budget(x, n)
      /\ Lands(job[h], e) /\ x = job[h].export /\ n = job[h].pos =>
            Budget(x, n)' >= Budget(x, n) + 1
  BY BudgetLater
<1>4. /\ IsFiniteSet(Tok(r)') /\ Cardinality(Tok(r)') \in Nat /\ Cardinality(Tok(r)) \in Nat
      /\ \/ Cardinality(Tok(r)') <= Cardinality(Tok(r))
         \/ /\ r = Rec(h) /\ Lands(job[h], e)
            /\ Cardinality(Tok(r)') <= Cardinality(Tok(r)) + 1
  BY <1>2 DEF Spends
<1>5. r = Rec(h) => x = job[h].export /\ n = job[h].pos
  <2>1. PICK y, m : y = job[h].export /\ m = job[h].pos
    OBVIOUS
  <2>2. y \in DOMAIN Exports /\ m \in DOMAIN Exports[y]
    BY <2>1, AtHand DEF LogInv, Stands, Batch
  <2>3. r = Rec(h) => Exports[y][m] = Exports[x][n]
    BY <1>1, <2>1 DEF Rec, Batch
  <2>4. QED
    BY <2>1, <2>2, <2>3, ApartAssumption
<1>6. Cardinality(Tok(r)') <= Budget(x, n)'
  BY <1>2, <1>3, <1>4, <1>5
<1>7. QED
  BY <1>1, <1>4, <1>6

\* A handler's step keeps the invariant.
LEMMA WorksKeeps ==
    ASSUME WorkInv, NEW h \in Handlers, Busy(h), Works(h), UNCHANGED <<todo, lost>>,
           LogInv', StashInv'
    PROVE  WorkInv'
<1>1. PICK e : /\ job' = [job EXCEPT ![h] = e] /\ Later(job[h], e) /\ DueFits(e)' /\ Spends(h, e)
               /\ OfsSame \/ (Lands(job[h], e) /\ Adds(Rec(h)))
               /\ FillsNone \/ \E i, q : Gets(i, q)
  BY DEF Works, Moves
<1>2. LogInv /\ HoldInv /\ IdentityInv /\ CountInv /\ DueInv /\ FillInv /\ TokInv
  BY DEF WorkInv
<1>3. RowsOK /\ JobInv
  BY <1>2 DEF LogInv, Stands
<1>4. \A i \in DOMAIN rows : i \in DOMAIN rows' /\ rows'[i].of = rows[i].of
  BY <1>1, <1>3, OfsStay
<1>5. HoldInv'
  BY <1>1, <1>2, HoldLater
<1>6. IdentityInv'
  BY <1>1, <1>2, IdentityStays
<1>7. CountInv'
  BY <1>1, <1>2, CountLater
<1>8. DueInv'
  BY <1>1, <1>2, <1>3, <1>4, DueStays
<1>9. FillInv'
  BY <1>1, <1>2, <1>4, FillsStay
<1>10. TokInv'
  BY <1>1, <1>2, TokLater
<1>11. QED
  BY <1>5, <1>6, <1>7, <1>8, <1>9, <1>10 DEF WorkInv

-----------------------------------------------------------------------------
(* Every step keeps it.                                                     *)

Plainly(h) ==
    \/ StoreRequest(h) \/ StoreEvent(h) \/ StoreCodexEvent(h) \/ ArchiveRaw(h) \/ StoreSpan(h)
    \/ PassRecord(h) \/ StepRecord(h) \/ TrackWebsocket(h)
    \/ TrackAnchor(h) \/ TakeTiming(h) \/ InsertMessage(h) \/ AddDurationRow(h)
    \/ LookUp(h) \/ UpdateTTFT(h) \/ UpdateDuration(h) \/ InsertAnchor(h)

LEMMA PlainSteps ==
    ASSUME LogInv, DueInv, NEW h \in Handlers, Plainly(h)
    PROVE  Plain(h)
BY StoresPlain, PassesPlain, TrackPlain, TakePlain, MessagePlain, AddPlain, LookUpPlain,
   UpdateTTFTPlain, UpdateDurationPlain, AnchorPlain, Zenon DEF Plainly

LEMMA PlainlyQuiet ==
    ASSUME NEW h, Plainly(h)
    PROVE  Busy(h) /\ UNCHANGED <<stash, todo, lost>>
<1>1. CASE StoreRequest(h) \/ StoreEvent(h) \/ StoreCodexEvent(h) \/ ArchiveRaw(h) \/ StoreSpan(h)
  BY <1>1, Zenon DEF StoreRequest, StoreEvent, StoreCodexEvent, ArchiveRaw, StoreSpan, Begins, Store
<1>2. CASE InsertMessage(h) \/ AddDurationRow(h)
  BY <1>2, Zenon DEF InsertMessage, AddDurationRow, Reached, Store
<1>3. CASE PassRecord(h) \/ StepRecord(h) \/ TrackWebsocket(h) \/ TakeTiming(h) \/ LookUp(h)
  BY <1>3, Zenon DEF PassRecord, StepRecord, TrackWebsocket, TakeTiming, LookUp, Begins,
                     codexVars, exportVars
<1>4. CASE TrackAnchor(h)
  BY <1>4, Zenon DEF TrackAnchor, Reached, exportVars
<1>5. CASE UpdateTTFT(h)
  BY <1>5, Zenon DEF UpdateTTFT, Reached
<1>6. CASE UpdateDuration(h)
  BY <1>6, Zenon DEF UpdateDuration, Reached
<1>7. CASE InsertAnchor(h)
  BY <1>7, Zenon DEF InsertAnchor, Begins
<1>8. QED
  BY <1>1, <1>2, <1>3, <1>4, <1>5, <1>6, <1>7 DEF Plainly

LEMMA TurnsQuiet ==
    ASSUME NEW h, FillTurn(h) \/ StashTurn(h) \/ DrainStash(h) \/ FillStashed(h)
    PROVE  Busy(h) /\ UNCHANGED <<todo, lost>>
<1>1. CASE FillTurn(h)
  BY <1>1, Zenon DEF FillTurn, Begins
<1>2. CASE StashTurn(h) \/ DrainStash(h)
  BY <1>2, Zenon DEF StashTurn, DrainStash, Reached, exportVars
<1>3. CASE FillStashed(h)
  BY <1>3, Zenon DEF FillStashed, Reached
<1>4. QED
  BY <1>1, <1>2, <1>3

LEMMA StashStays ==
    ASSUME StashInv, UNCHANGED stash
    PROVE  StashInv'
BY DEF StashInv, Conv

LEMMA HandleWorks ==
    ASSUME WorkInv, NEW h \in Handlers, Handle(h)
    PROVE  WorkInv'
<1>1. LogInv /\ DueInv /\ StashInv
  BY DEF WorkInv
<1>2. LogInv'
  BY <1>1, HandleKeeps
<1>3. CASE Plainly(h)
  <2>1. Busy(h) /\ UNCHANGED stash /\ UNCHANGED <<todo, lost>>
    BY <1>3, PlainlyQuiet
  <2>2. Works(h)
    BY <1>1, <1>3, <2>1, PlainSteps, PlainWorks
  <2>3. QED
    BY <1>1, <1>2, <2>1, <2>2, StashStays, WorksKeeps
<1>4. CASE FillTurn(h) \/ FillStashed(h)
  <2>1. Busy(h) /\ UNCHANGED <<todo, lost>>
    BY <1>4, TurnsQuiet
  <2>2. UNCHANGED stash
    BY <1>4 DEF FillTurn, FillStashed
  <2>3. Works(h)
    BY <1>1, <1>4, FillTurnWorks, FillStashedWorks
  <2>4. QED
    BY <1>1, <1>2, <2>1, <2>2, <2>3, StashStays, WorksKeeps
<1>5. CASE StashTurn(h) \/ DrainStash(h)
  <2>1. Busy(h) /\ UNCHANGED <<todo, lost>>
    BY <1>5, TurnsQuiet
  <2>2. Works(h) /\ StashInv'
    BY <1>1, <1>5, StashTurnWorks, DrainWorks
  <2>3. QED
    BY <1>2, <2>1, <2>2, WorksKeeps
<1>6. QED
  BY <1>3, <1>4, <1>5, Zenon DEF Handle, Plainly

\* A step that leaves the rows alone and moves no observation to a handler.
Rests ==
    /\ UNCHANGED rows
    /\ \A r \in Records : Tok(r)' \subseteq Tok(r)
    /\ \A x \in DOMAIN Exports : \A n \in DOMAIN Exports[x] :
          Budget(x, n) \in Nat /\ Budget(x, n)' \in Nat /\ Budget(x, n)' >= Budget(x, n)

LEMMA RestsKeeps ==
    ASSUME WorkInv, Rests, LogInv', HoldInv', DueInv', StashInv'
    PROVE  WorkInv'
<1>1. IdentityInv'
  BY DEF WorkInv, Rests, IdentityInv, Identified, RequestID, Message, dshRequestID
<1>2. CountInv'
  BY CountStays DEF WorkInv, Rests, LogInv, Stands
<1>3. FillInv'
  BY DEF WorkInv, Rests, FillInv, Suits, Of, IsAnchor, Conv, Belongs
<1>4. TokInv'
  <2> SUFFICES ASSUME NEW x \in DOMAIN Exports, NEW n \in DOMAIN Exports[x]
               PROVE  /\ IsFiniteSet(Tok(Exports[x][n])')
                      /\ Cardinality(Tok(Exports[x][n])') <= Budget(x, n)'
    BY DEF TokInv
  <2>1. PICK r \in Records : r = Exports[x][n]
    BY ExportAssumption
  <2>2. IsFiniteSet(Tok(r)) /\ Cardinality(Tok(r)) <= Budget(x, n)
    BY <2>1 DEF WorkInv, TokInv
  <2>3. /\ IsFiniteSet(Tok(r)') /\ Cardinality(Tok(r)') \in Nat /\ Cardinality(Tok(r)) \in Nat
        /\ Cardinality(Tok(r)') <= Cardinality(Tok(r))
    BY <2>2, Shrinks DEF Rests
  <2>4. /\ Budget(x, n) \in Nat /\ Budget(x, n)' \in Nat /\ Budget(x, n)' >= Budget(x, n)
    BY DEF Rests
  <2>5. QED
    BY <2>1, <2>2, <2>3, <2>4
<1>5. QED
  BY <1>1, <1>2, <1>3, <1>4 DEF WorkInv

LEMMA IdleFree ==
    Idle.due = {} /\ DueFits(Idle)'
<1>1. PICK e : e = Idle
  OBVIOUS
<1>2. e.due = {} /\ e.step = "record" /\ e.timing = NoTiming
  BY <1>1 DEF Idle
<1>3. Between(e.timing.ttft)
  BY <1>2, NoSpanBetween DEF NoTiming
<1>4. e.step # "drain" /\ e.step # "fill"
  BY <1>2
<1>5. DueFits(e)'
  BY <1>2, <1>3, <1>4, Fitting
<1>6. QED
  BY <1>1, <1>2, <1>5

LEMMA DeliverWorks ==
    ASSUME WorkInv, NEW h \in Handlers, Deliver(h)
    PROVE  WorkInv'
<1>1. LogInv /\ HoldInv /\ DueInv /\ StashInv /\ RowsOK /\ JobInv
  BY DEF WorkInv, LogInv, Stands
<1>2. LogInv' /\ HoldInv'
  BY <1>1, DeliverKeeps, DeliverHolds
<1>3. UNCHANGED <<rows, stash>>
  BY DEF Deliver, codexVars
<1>4. PICK y : job' = [job EXCEPT ![h].export = y]
  BY DEF Deliver
<1>5. PICK j : j = job[h] /\ IsJob(j) /\ j.export = Nobody
  BY <1>1 DEF JobInv, JobFits, Deliver
<1>6. j.step = "record"
  BY <1>1, <1>5 DEF JobInv, JobFits
<1>7. DueFits(j) /\ j.due = {} /\ Between(j.timing.ttft)
  BY <1>1, <1>5, <1>6 DEF DueInv, DueFits
<1>8. PICK pos, step, failed, row, due, timing, found :
         /\ j = Job(Nobody, pos, step, failed, row, due, timing, found)
         /\ step = "record" /\ due = {} /\ Between(timing.ttft)
  <2>1. PICK pos, step, failed, row, due, timing, found :
           /\ pos = j.pos /\ step = j.step /\ failed = j.failed /\ row = j.row /\ due = j.due
           /\ timing = j.timing /\ found = j.found
    OBVIOUS
  <2>2. j = Job(Nobody, pos, step, failed, row, due, timing, found)
    BY <1>5, <2>1, IsJobParts, Zenon
  <2>3. QED
    BY <1>6, <1>7, <2>1, <2>2, Zenon
<1>9. PICK k : k = Job(y, pos, step, failed, row, due, timing, found)
  OBVIOUS
<1>10. [j EXCEPT !["export"] = y] = k
  BY <1>8, <1>9 DEF Job
<1>11. job' = [job EXCEPT ![h] = k]
  BY <1>4, <1>5, <1>10
<1>12. k.due = due /\ k.step = step /\ k.timing = timing
  BY <1>9 DEF Job
<1>13. DueFits(k)'
  <2>1. k.due = {} /\ k.step # "drain" /\ k.step # "fill" /\ Between(k.timing.ttft)
    BY <1>8, <1>12
  <2>2. QED
    BY <2>1, Fitting
<1>14. DueInv'
  BY <1>1, <1>3, <1>11, <1>13, DueStays
<1>15. FillsNone
  BY <1>1, <1>3, RowsUnchanged
<1>16. k.due \subseteq job[h].due
  BY <1>8, <1>12
<1>17. \A r \in Records : Tok(r)' \subseteq Tok(r)
  BY <1>1, <1>3, <1>11, <1>15, <1>16, PlainTokens
<1>18. Rests
  BY <1>1, <1>3, <1>17, DeliverBudget DEF Rests
<1>19. QED
  BY <1>1, <1>2, <1>3, <1>14, <1>18, StashStays, RestsKeeps

LEMMA AnswerWorks ==
    ASSUME WorkInv, NEW h \in Handlers, Answer(h)
    PROVE  WorkInv'
<1>1. LogInv /\ HoldInv /\ DueInv /\ StashInv /\ RowsOK /\ JobInv
  BY DEF WorkInv, LogInv, Stands
<1>2. LogInv' /\ HoldInv'
  BY <1>1, AnswerKeeps, AnswerHolds
<1>3. UNCHANGED <<rows, stash>> /\ job' = [job EXCEPT ![h] = Idle]
  BY DEF Answer, codexVars
<1>4. PICK e : e = Idle /\ e.due = {} /\ DueFits(e)'
  BY IdleFree
<1>5. DueInv'
  BY <1>1, <1>3, <1>4, DueStays
<1>6. FillsNone
  BY <1>1, <1>3, RowsUnchanged
<1>7. e.due \subseteq job[h].due
  BY <1>4
<1>8. \A r \in Records : Tok(r)' \subseteq Tok(r)
  BY <1>1, <1>3, <1>4, <1>6, <1>7, PlainTokens
<1>9. Rests
  BY <1>1, <1>3, <1>8, AnswerBudget DEF Rests
<1>10. QED
  BY <1>1, <1>2, <1>3, <1>5, <1>9, StashStays, RestsKeeps

LEMMA RestartWorks ==
    ASSUME WorkInv, Restart
    PROVE  WorkInv'
<1>1. LogInv /\ HoldInv /\ DueInv /\ StashInv /\ RowsOK /\ JobInv
  BY DEF WorkInv, LogInv, Stands
<1>2. LogInv' /\ HoldInv'
  BY <1>1, RestartKeeps, RestartHolds
<1>3. UNCHANGED rows /\ job' = [h \in Handlers |-> Idle] /\ stash' = [c \in DOMAIN stash |-> {}]
  BY DEF Restart
<1>4. PICK e : e = Idle /\ e.due = {} /\ DueFits(e)'
  BY IdleFree
<1>5. DueInv'
  <2>1. ASSUME NEW h \in Handlers
        PROVE  DueFits(job[h])'
    <3>1. PICK k : k = job'[h] /\ k = e
      BY <1>3, <1>4, <2>1
    <3>2. QED
      BY <1>4, <3>1
  <2>2. QED
    BY <2>1 DEF DueInv
<1>6. StashInv'
  <2>1. /\ stash' = [c \in {Conv(r) : r \in Records} |-> stash'[c]]
        /\ \A c \in DOMAIN stash' : stash'[c] = {}
    BY <1>1, <1>3 DEF StashInv
  <2>2. QED
    BY <2>1 DEF StashInv, Conv
<1>7. ASSUME NEW r \in Records
      PROVE  Tok(r)' \subseteq Tok(r)
  <2>1. InRows(r)' = InRows(r)
    BY <1>3 DEF InRows
  <2>2. InStash(r)' = {}
    <3>1. Conv(r) \in DOMAIN stash
      BY <1>1 DEF StashInv
    <3>2. stash'[Conv(r)] = {}
      BY <1>3, <3>1
    <3>3. QED
      BY <3>2 DEF InStash, Conv
  <2>3. InHands(r)' = {}
    <3>1. \A g \in Handlers : job'[g].due = {}
      BY <1>3, <1>4
    <3>2. QED
      BY <3>1 DEF InHands
  <2>4. QED
    BY <2>1, <2>2, <2>3 DEF Tok
<1>8. Rests
  BY <1>1, <1>3, <1>7, RestartBudget DEF Rests
<1>9. QED
  BY <1>2, <1>5, <1>6, <1>8, RestsKeeps

LEMMA TimeWorks ==
    ASSUME WorkInv, UNCHANGED <<steps, rows, spans, stash, job, todo, answered, lost>>
    PROVE  WorkInv'
<1>1. LogInv /\ HoldInv /\ DueInv /\ StashInv
  BY DEF WorkInv
<1>2. LogInv'
  BY <1>1, TimeKeeps
<1>3. HoldInv'
  BY <1>1 DEF HoldInv, HoldFits
<1>4. DueInv'
  BY <1>1 DEF DueInv, DueFits, Now, Conv, Belongs, Between
<1>5. \A r \in Records : Tok(r)' \subseteq Tok(r)
  BY DEF Tok, InRows, InStash, InHands, Conv
<1>6. ASSUME NEW x \in DOMAIN Exports, NEW n \in DOMAIN Exports[x]
      PROVE  Budget(x, n) \in Nat /\ Budget(x, n)' \in Nat /\ Budget(x, n)' >= Budget(x, n)
  <2>1. lost[x] \in Nat
    BY <1>1 DEF HoldInv
  <2>2. Fresh(x, n)' <=> Fresh(x, n)
    BY DEF Fresh, Unlanded
  <2>3. Budget(x, n) \in Nat
    BY <2>1 DEF Budget
  <2>4. Budget(x, n)' = Budget(x, n)
    BY <2>2 DEF Budget
  <2>5. QED
    BY <2>3, <2>4
<1>7. Rests
  BY <1>5, <1>6 DEF Rests
<1>8. QED
  BY <1>1, <1>2, <1>3, <1>4, <1>7, StashStays, RestsKeeps

LEMMA WorkStep ==
    ASSUME WorkInv, [Next]_vars
    PROVE  WorkInv'
<1>1. ASSUME NEW h \in Handlers, Deliver(h) \/ Handle(h) \/ Answer(h)
      PROVE  WorkInv'
  BY <1>1, DeliverWorks, HandleWorks, AnswerWorks
<1>2. CASE Restart
  BY <1>2, RestartWorks
<1>3. CASE GatherDust /\ UNCHANGED <<codexVars, job, exportVars>>
  BY <1>3, TimeWorks DEF GatherDust, codexVars, exportVars
<1>4. CASE Age(Awaited) /\ UNCHANGED <<dshVars, rows, spans, stash, job, exportVars>>
  BY <1>4, TimeWorks DEF dshVars, exportVars
<1>5. CASE UNCHANGED vars
  BY <1>5, TimeWorks DEF vars, dshVars, codexVars
<1>6. QED
  BY <1>1, <1>2, <1>3, <1>4, <1>5, Zenon DEF Next

LEMMA WorkBegins ==
    ASSUME Init
    PROVE  WorkInv
<1>1. /\ rows = << >> /\ job = [h \in Handlers |-> Idle] /\ lost = [x \in DOMAIN Exports |-> 0]
      /\ todo \in Scenarios /\ stash = [c \in {Conv(r) : r \in Records} |-> {}]
  BY DEF Init, CodexInit
<1>2. LogInv
  BY LogBegins
<1>3. HoldInv
  <2>1. \A h \in Handlers : HoldFits(job[h]) /\ job[h].export = Nobody
    BY <1>1, IdleHolds
  <2>2. Nobody \notin todo
    BY <1>2, ExportAssumption DEF LogInv
  <2>3. lost \in [DOMAIN Exports -> Nat]
    BY <1>1
  <2>4. QED
    BY <2>1, <2>2, <2>3 DEF HoldInv
<1>4. DOMAIN rows = {}
  BY <1>1
<1>5. IdentityInv /\ FillInv
  BY <1>4 DEF IdentityInv, FillInv
<1>6. \A x \in DOMAIN Exports : \A n : Budget(x, n) >= 0
  BY <1>1 DEF Budget
<1>7. CountInv
  <2>1. \A r : RowsOf(r) = {}
    BY <1>4 DEF RowsOf
  <2>2. QED
    BY <1>6, <2>1, FS_EmptySet DEF CountInv
<1>8. DueInv
  <2>1. ASSUME NEW h \in Handlers
        PROVE  DueFits(job[h])
    <3>1. job[h].due = {} /\ job[h].step = "record" /\ job[h].timing = NoTiming
      BY <1>1 DEF Idle
    <3>2. Between(job[h].timing.ttft)
      BY <3>1, NoSpanBetween DEF NoTiming
    <3>3. QED
      BY <3>1, <3>2 DEF DueFits
  <2>2. QED
    BY <2>1 DEF DueInv
<1>9. StashInv
  <2>1. /\ stash = [c \in {Conv(r) : r \in Records} |-> stash[c]]
        /\ \A c \in DOMAIN stash : stash[c] = {}
    BY <1>1
  <2>2. QED
    BY <2>1 DEF StashInv
<1>10. TokInv
  <2>1. ASSUME NEW r \in Records
        PROVE  Tok(r) = {}
    <3>1. stash[Conv(r)] = {}
      BY <1>1
    <3>2. \A h \in Handlers : job[h].due = {}
      BY <1>1 DEF Idle
    <3>3. QED
      BY <1>4, <3>1, <3>2 DEF Tok, InRows, InStash, InHands
  <2>2. ASSUME NEW x \in DOMAIN Exports, NEW n \in DOMAIN Exports[x]
        PROVE  IsFiniteSet(Tok(Exports[x][n])) /\ Cardinality(Tok(Exports[x][n])) <= Budget(x, n)
    <3>1. Exports[x][n] \in Records
      BY ExportAssumption
    <3>2. Tok(Exports[x][n]) = {}
      BY <2>1, <3>1
    <3>3. QED
      BY <1>6, <3>2, FS_EmptySet
  <2>3. QED
    BY <2>2 DEF TokInv
<1>11. QED
  BY <1>2, <1>3, <1>5, <1>7, <1>8, <1>9, <1>10 DEF WorkInv

LEMMA LogKeepsWork == Spec => []WorkInv
<1>1. WorkInv /\ [Next]_vars => WorkInv'
  BY WorkStep
<1>2. QED
  BY <1>1, WorkBegins, PTL DEF Spec

LEMMA BudgetBound ==
    ASSUME HoldInv, NEW x \in DOMAIN Exports, NEW n
    PROVE  lost[x] \in Nat /\ Budget(x, n) \in Nat /\ Budget(x, n) <= 1 + lost[x]
BY DEF HoldInv, Budget

\* A record that clients identify has one row, however often its export comes
\* and whoever handles it beside; any other has one more than its export was
\* cut off or left unanswered (exportResult, insertRequestOnce).
THEOREM LogNothingTwice == Spec => []NothingTwice
<1>1. WorkInv => NothingTwice
  <2> SUFFICES ASSUME WorkInv, NEW x \in DOMAIN Exports, NEW r \in Carried(x)
               PROVE  Cardinality(RowsOf(r)) <= IF RequestID(r) # "" THEN 1 ELSE 1 + lost[x]
    BY Zenon DEF NothingTwice
  <2>1. PICK n \in DOMAIN Exports[x] : r = Exports[x][n]
    BY DEF Carried, ToSet
  <2>2. RowsOK /\ HoldInv /\ IdentityInv /\ CountInv
    BY DEF WorkInv, LogInv, Stands
  <2>3. IsFiniteSet(RowsOf(r)) /\ Cardinality(RowsOf(r)) \in Nat
    BY <2>2, RowsFinite
  <2>4. CASE Identified(r)
    <3>1. \A i, k \in RowsOf(r) : i = k
      <4> HIDE DEF Identified
      <4>1. QED
        BY <2>2, <2>4 DEF IdentityInv, RowsOf
    <3>2. RowsOf(r) = {} \/ \E i : RowsOf(r) = {i}
      BY <3>1
    <3>3. Cardinality(RowsOf(r)) <= 1
      <4>1. PICK S : S = RowsOf(r) /\ (S = {} \/ \E i : S = {i})
        BY <3>2
      <4>2. Cardinality(S) = 0 \/ Cardinality(S) = 1
        BY <4>1, FS_EmptySet, FS_Singleton
      <4>3. QED
        BY <4>1, <4>2
    <3>4. QED
      BY <2>4, <3>3 DEF Identified
  <2>5. CASE ~Identified(r)
    <3>1. Cardinality(RowsOf(r)) <= Budget(x, n)
      BY <2>1, <2>2, <2>5 DEF CountInv
    <3>2. Cardinality(RowsOf(r)) <= 1 + lost[x]
      BY <2>2, <2>3, <3>1, BudgetBound
    <3>3. QED
      BY <2>5, <3>2 DEF Identified
  <2>6. QED
    BY <2>4, <2>5
<1>2. QED
  BY <1>1, LogKeepsWork, PTL

\* A turn's first output is in the row of one request of its conversation and
\* of the hour before it, one more for each time its export was cut off or left
\* unanswered, whichever of the two records came first and whoever handled them
\* (UpdateCodexTurnTTFT, stashTurnTTFT, drainTurnTTFT).
THEOREM LogTurnFillsOneRow == Spec => []TurnFillsOneRow
<1>1. WorkInv => TurnFillsOneRow
  <2> SUFFICES ASSUME WorkInv, NEW x \in DOMAIN Exports, NEW r \in Carried(x),
                      NEW filled, filled = {i \in DOMAIN rows : rows[i].ttft = <<r, r>>}
               PROVE  /\ Cardinality(filled) <= 1 + lost[x]
                      /\ \A i \in filled : Of(i) = Conv(r) /\ IsAnchor(i) /\ Belongs(r, rows[i].of)
    BY Zenon DEF TurnFillsOneRow
  <2>1. PICK n \in DOMAIN Exports[x] : r = Exports[x][n]
    BY DEF Carried, ToSet
  <2>2. r \in Records
    BY <2>1, ExportAssumption
  <2>3. IsFiniteSet(Tok(r)) /\ Cardinality(Tok(r)) <= Budget(x, n)
    BY <2>1 DEF WorkInv, TokInv
  <2>4. Cardinality(filled) <= 1 + lost[x]
    <3>1. IsFiniteSet(InRows(r)) /\ Cardinality(InRows(r)) <= Cardinality(Tok(r))
      BY <2>3, FS_Subset DEF Tok
    <3>2. PICK f : f = [t \in InRows(r) |-> t[2]]
      OBVIOUS
    <3>3. filled \subseteq {f[t] : t \in InRows(r)}
      <4>1. SUFFICES ASSUME NEW i \in filled
                     PROVE  \E t \in InRows(r) : i = f[t]
        OBVIOUS
      <4>2. PICK t : t = <<0, i>>
        OBVIOUS
      <4>3. t \in InRows(r) /\ t[2] = i
        BY <4>2 DEF InRows
      <4>4. QED
        BY <3>2, <4>3
    <3>4. Cardinality(filled) <= Cardinality(InRows(r)) /\ Cardinality(filled) \in Nat
      BY <3>1, <3>3, Renames
    <3>5. Cardinality(InRows(r)) \in Nat /\ Cardinality(Tok(r)) \in Nat
      BY <2>3, <3>1, FS_CardinalityType
    <3>6. QED
      BY <2>3, <3>1, <3>4, <3>5, BudgetBound DEF WorkInv
  <2>5. \A i \in filled : Suits(i, r)
    BY <2>2 DEF WorkInv, FillInv
  <2>6. QED
    BY <2>4, <2>5 DEF Suits
<1>2. QED
  BY <1>1, LogKeepsWork, PTL
=============================================================================
