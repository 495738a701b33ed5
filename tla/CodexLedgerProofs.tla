-------------------------- MODULE CodexLedgerProofs --------------------------
(***************************************************************************)
(* Proofs about CodexLedger, for every set of requests, handlers and        *)
(* conversations, every client trace, every window and every bound.         *)
(***************************************************************************)
EXTENDS CodexLedger, FiniteSetTheorems, TLAPS

\* The domain of a row sequence is finite, and so is every part of it.
LEMMA RowSetsFinite ==
    ASSUME NEW R \in Seq(Row), NEW S, S \subseteq DOMAIN R
    PROVE  IsFiniteSet(S) /\ Cardinality(S) \in Nat
<1>1. DOMAIN R = 1 .. Len(R) /\ Len(R) \in Nat
  OBVIOUS
<1>2. IsFiniteSet(1 .. Len(R))
  BY <1>1, FS_Interval
<1>3. QED
  BY <1>1, <1>2, FS_Subset, FS_CardinalityType

\* Rows are keyed by a day of the calendar and a known model.
LEMMA KeyOfType ==
    ASSUME NEW row \in Row
    PROVE  KeyOf(row) \in Keys
<1>1. row.at \in Times /\ row.conv \in Conversations
  BY DEF Row
<1>2. QED
  BY <1>1, DayAssumption, ModelAssumption DEF KeyOf, Keys

LEMMA AddVecType ==
    ASSUME NEW t \in [Vectors -> Nat], NEW v
    PROVE  AddVec(t, v) \in [Vectors -> Nat]
BY DEF AddVec

LEMMA TimesType ==
    ASSUME NEW r \in Requests
    PROVE  /\ Trace[r] \in Report
           /\ Trace[r].at \in Times /\ Trace[r].done \in Times
           /\ Trace[r].at \in Nat /\ Trace[r].done \in Nat
           /\ Trace[r].conv \in Conversations /\ Trace[r].vec \in Vectors
BY TraceAssumption DEF Times, Report

AggType == agg \in [Keys -> [requests: Nat, tokens: [Vectors -> Nat]]]

\* Inserting a row keeps both tables well-typed.
LEMMA InsertRowType ==
    ASSUME rows \in Seq(Row), AggType, NEW row \in Row, InsertRow(row)
    PROVE  rows' \in Seq(Row) /\ AggType'
<1>1. rows' \in Seq(Row)
  BY DEF InsertRow
<1>2. KeyOf(row) \in Keys
  BY KeyOfType
<1>3. agg[KeyOf(row)] \in [requests: Nat, tokens: [Vectors -> Nat]]
  BY <1>2 DEF AggType
<1>4. AddVec(agg[KeyOf(row)].tokens, row.vec) \in [Vectors -> Nat]
  BY <1>3, AddVecType
<1>5. QED
  BY <1>1, <1>2, <1>3, <1>4 DEF InsertRow, AggType

\* Writing a completion's tokens onto a row keeps both tables well-typed.
LEMMA FinalizeRowType ==
    ASSUME rows \in Seq(Row), AggType, NEW i \in DOMAIN rows, NEW r \in Requests,
           FinalizeRow(i, r)
    PROVE  rows' \in Seq(Row) /\ AggType'
<1>1. rows[i] \in Row
  OBVIOUS
<1>2. Trace[r].vec \in Vectors
  BY TimesType
<1>3. [rows[i] EXCEPT !.vec = Trace[r].vec] \in Row
  BY <1>1, <1>2 DEF Row
<1>4. rows' \in Seq(Row)
  BY <1>3 DEF FinalizeRow
<1>5. KeyOf(rows[i]) \in Keys
  BY <1>1, KeyOfType
<1>6. agg[KeyOf(rows[i])] \in [requests: Nat, tokens: [Vectors -> Nat]]
  BY <1>5 DEF AggType
<1>7. AddVec(agg[KeyOf(rows[i])].tokens, Trace[r].vec) \in [Vectors -> Nat]
  BY <1>6, AddVecType
<1>8. QED
  BY <1>4, <1>5, <1>6, <1>7 DEF FinalizeRow, AggType

-----------------------------------------------------------------------------
(* How the two writes change the sets that the aggregate counts.            *)

\* Appending a row adds its id to the rows of its key and changes no other.
LEMMA RowsOfAppend ==
    ASSUME NEW R \in Seq(Row), NEW row \in Row, NEW k \in Keys
    PROVE  /\ RowsOf(Append(R, row), k) =
                 IF KeyOf(row) = k THEN RowsOf(R, k) \cup {Len(R) + 1} ELSE RowsOf(R, k)
           /\ \A v \in Vectors :
                 RowsWith(Append(R, row), k, v) =
                    IF KeyOf(row) = k /\ row.vec = v
                    THEN RowsWith(R, k, v) \cup {Len(R) + 1} ELSE RowsWith(R, k, v)
           /\ Len(R) + 1 \notin DOMAIN R
<1>1. /\ DOMAIN R = 1 .. Len(R) /\ Len(R) \in Nat
      /\ DOMAIN Append(R, row) = 1 .. (Len(R) + 1)
      /\ Append(R, row)[Len(R) + 1] = row
      /\ \A i \in DOMAIN R : Append(R, row)[i] = R[i]
  OBVIOUS
<1>2. DOMAIN Append(R, row) = DOMAIN R \cup {Len(R) + 1} /\ Len(R) + 1 \notin DOMAIN R
  BY <1>1
<1>3. RowsOf(Append(R, row), k) =
         IF KeyOf(row) = k THEN RowsOf(R, k) \cup {Len(R) + 1} ELSE RowsOf(R, k)
  BY <1>1, <1>2, Zenon DEF RowsOf
<1>4. ASSUME NEW v \in Vectors
      PROVE  RowsWith(Append(R, row), k, v) =
                IF KeyOf(row) = k /\ row.vec = v
                THEN RowsWith(R, k, v) \cup {Len(R) + 1} ELSE RowsWith(R, k, v)
  <2>1. \A i \in RowsOf(R, k) : i \in DOMAIN R /\ Append(R, row)[i] = R[i]
    BY <1>1 DEF RowsOf
  <2>2. CASE KeyOf(row) = k
    BY <1>1, <1>3, <2>1, <2>2 DEF RowsWith
  <2>3. CASE KeyOf(row) # k
    BY <1>1, <1>3, <2>1, <2>3 DEF RowsWith
  <2>4. QED
    BY <2>2, <2>3
<1>5. QED
  BY <1>2, <1>3, <1>4

\* Writing tokens onto a row without tokens moves no row to another key, and
\* adds its id to the rows of its key that carry this vector.
LEMMA RowsOfFinalize ==
    ASSUME NEW R \in Seq(Row), NEW i \in DOMAIN R, R[i].vec = NoVec,
           NEW w \in Vectors, NEW k \in Keys,
           NEW F, DOMAIN F = DOMAIN R,
           F[i].vec = w, F[i].at = R[i].at, F[i].conv = R[i].conv,
           \A j \in DOMAIN R : j # i => F[j] = R[j]
    PROVE  /\ RowsOf(F, k) = RowsOf(R, k)
           /\ \A v \in Vectors :
                 RowsWith(F, k, v) =
                    IF KeyOf(R[i]) = k /\ v = w
                    THEN RowsWith(R, k, v) \cup {i} ELSE RowsWith(R, k, v)
           /\ i \notin RowsWith(R, k, w)
<1>2. \A j \in DOMAIN R : KeyOf(F[j]) = KeyOf(R[j])
  BY DEF KeyOf
<1>3. RowsOf(F, k) = RowsOf(R, k)
  BY <1>2, Zenon DEF RowsOf
<1>4. ASSUME NEW v \in Vectors
      PROVE  RowsWith(F, k, v) =
                IF KeyOf(R[i]) = k /\ v = w
                THEN RowsWith(R, k, v) \cup {i} ELSE RowsWith(R, k, v)
  <2>1. \A j \in RowsOf(R, k) : j \in DOMAIN R /\ KeyOf(R[j]) = k
    BY DEF RowsOf
  <2>2. KeyOf(R[i]) = k => i \in RowsOf(R, k)
    BY DEF RowsOf
  <2>3. v # NoVec
    BY NoVecAssumption
  <2>4. \A j \in DOMAIN R : F[j].vec = IF j = i THEN w ELSE R[j].vec
    OBVIOUS
  <2>5. QED
    BY <1>3, <2>1, <2>2, <2>3, <2>4 DEF RowsWith
<1>5. i \notin RowsWith(R, k, w)
  BY NoVecAssumption DEF RowsWith
<1>6. QED
  BY <1>3, <1>4, <1>5

\* The counted sets are finite.
LEMMA CountsFinite ==
    ASSUME NEW R \in Seq(Row), NEW k
    PROVE  /\ IsFiniteSet(RowsOf(R, k)) /\ Cardinality(RowsOf(R, k)) \in Nat
           /\ \A v : /\ IsFiniteSet(RowsWith(R, k, v))
                    /\ Cardinality(RowsWith(R, k, v)) \in Nat
<1>1. RowsOf(R, k) \subseteq DOMAIN R
  BY DEF RowsOf
<1>2. \A v : RowsWith(R, k, v) \subseteq DOMAIN R
  BY DEF RowsOf, RowsWith
<1>3. QED
  BY <1>1, <1>2, RowSetsFinite

-----------------------------------------------------------------------------
(* Every step of the system, seen from the database.                        *)

\* What a handler in flight holds.
LEMMA JobShape ==
    ASSUME job \in [Handlers -> Job \cup {Idle}], NEW h \in Handlers
    PROVE  /\ job[h].step \in {"idle", "record", "apply", "remove"}
           /\ job[h].step = "idle" => job[h] = Idle
           /\ job[h].step # "idle" => job[h].req \in Requests /\ job[h].row \in Nat
           /\ job[h].step = "record" =>
                 job[h] \in [step: {"record"}, req: Requests, row: Nat]
           /\ job[h].step \in {"apply", "remove"} =>
                 job[h] \in [step: {"apply", "remove"}, req: Requests, row: Nat,
                             key: SpanKeys \cup {NoKey}]
<1>1. job[h] \in Job \/ job[h] = Idle
  OBVIOUS
<1>2. CASE job[h] = Idle
  BY <1>2 DEF Idle
<1>3. CASE job[h] \in [step: {"record"}, req: Requests, row: Nat]
  BY <1>3
<1>4. CASE job[h] \in [step: {"apply", "remove"}, req: Requests, row: Nat,
                       key: SpanKeys \cup {NoKey}]
  BY <1>4
<1>5. QED
  BY <1>1, <1>2, <1>3, <1>4 DEF Job

LEMMA AnchorRowType ==
    ASSUME NEW r \in Requests
    PROVE  AnchorRow(r) \in Row
BY TimesType DEF AnchorRow, Row

LEMMA OrphanRowType ==
    ASSUME NEW r \in Requests
    PROVE  OrphanRow(r) \in Row
BY TimesType DEF OrphanRow, Row

\* Tokens are only ever written onto a row that carries none.
LEMMA UpdateTokensWrites ==
    ASSUME NEW p, NEW r \in Requests, UpdateTokens(p, r)
    PROVE  \/ UNCHANGED dbVars
           \/ \E row \in Row : InsertRow(row)
           \/ \E i \in DOMAIN rows : rows[i].vec = NoVec /\ FinalizeRow(i, r)
<1>1. \A i \in Pinned(p, r) : i \in DOMAIN rows
  BY DEF Pinned
<1>2. \A i \in Pending(r) : i \in DOMAIN rows /\ rows[i].vec = NoVec
  BY DEF Pending
<1>3. QED
  BY <1>1, <1>2, OrphanRowType, Zenon DEF UpdateTokens, ReplayOrOrphan

\* A step leaves the database alone, inserts one row, or gives one row without
\* tokens its tokens.
LEMMA StepWrites ==
    ASSUME TypeOK, [Next]_vars
    PROVE  \/ UNCHANGED dbVars
           \/ \E row \in Row : InsertRow(row)
           \/ \E i \in DOMAIN rows, r \in Requests :
                 rows[i].vec = NoVec /\ FinalizeRow(i, r)
<1>1. ASSUME NEW h \in Handlers, NEW r \in Requests, AnchorInsert(h, r)
      PROVE  UNCHANGED dbVars \/ \E row \in Row : InsertRow(row)
  BY <1>1, AnchorRowType, Zenon DEF AnchorInsert
<1>2. ASSUME NEW h \in Handlers, NEW r \in Requests, CompletionLookup(h, r)
      PROVE  UNCHANGED dbVars
  BY <1>2, Zenon DEF CompletionLookup, dbVars
<1>3. ASSUME NEW h \in Handlers, AnchorRecord(h)
      PROVE  UNCHANGED dbVars
  BY <1>3, Zenon DEF AnchorRecord, dbVars
<1>4. ASSUME NEW h \in Handlers, CompletionApply(h)
      PROVE  \/ UNCHANGED dbVars
             \/ \E row \in Row : InsertRow(row)
             \/ \E i \in DOMAIN rows, r \in Requests :
                   rows[i].vec = NoVec /\ FinalizeRow(i, r)
  <2>1. job[h].req \in Requests
    BY <1>4, JobShape DEF TypeOK, CompletionApply
  <2>2. QED
    BY <1>4, <2>1, UpdateTokensWrites, Zenon DEF CompletionApply
<1>5. ASSUME NEW h \in Handlers, CompletionRemove(h) \/ CompletionFails(h)
      PROVE  UNCHANGED dbVars
  BY <1>5, Zenon DEF CompletionRemove, CompletionFails, dbVars
<1>6. CASE Restart
  BY <1>6, Zenon DEF Restart, dbVars
<1>7. CASE UNCHANGED vars
  BY <1>7, Zenon DEF vars, dbVars
<1>8. QED
  BY <1>1, <1>2, <1>3, <1>4, <1>5, <1>6, <1>7, Zenon DEF Next, HandlerStep

-----------------------------------------------------------------------------
(* Type correctness.                                                        *)

LEMMA InitType == Init => TypeOK
<1> SUFFICES ASSUME Init PROVE TypeOK
  OBVIOUS
<1>1. rows \in Seq(Row)
  BY DEF Init
<1>2. agg \in [Keys -> [requests: Nat, tokens: [Vectors -> Nat]]]
  BY DEF Init
<1>3. job \in [Handlers -> Job \cup {Idle}]
  BY DEF Init
<1>4. copies \in 0 .. MaxCopies /\ faults \in 0 .. MaxFaults
  BY BoundAssumption DEF Init
<1>5. QED
  BY <1>1, <1>2, <1>3, <1>4 DEF Init, TypeOK

\* The merged entry keeps the shape of an entry.
LEMMA MergeType ==
    ASSUME NEW s \in Span, NEW old \in Span
    PROVE  Merge(s, old) \in Span
BY DEF Merge, Span

LEMMA RecordRequestType ==
    ASSUME spans \subseteq Span, NEW s \in Span, RecordRequest(s)
    PROVE  spans' \subseteq Span
<1>1. PICK kept \in SUBSET spans :
        \/ spans' = kept \cup {s}
        \/ \E old \in kept : spans' = (kept \ {old}) \cup {Merge(s, old)}
  BY Zenon DEF RecordRequest
<1>2. QED
  BY <1>1, MergeType

LEMMA DeliverType ==
    ASSUME NEW m, Deliver(m), copies \in 0 .. MaxCopies
    PROVE  copies' \in 0 .. MaxCopies
BY BoundAssumption DEF Deliver

\* Both database variables stay well-typed in every step.
LEMMA StepDbType ==
    ASSUME TypeOK, [Next]_vars
    PROVE  rows' \in Seq(Row) /\ AggType'
<1>1. rows \in Seq(Row) /\ AggType
  BY DEF TypeOK, AggType
<1>2. CASE UNCHANGED dbVars
  BY <1>1, <1>2 DEF dbVars, AggType
<1>3. CASE \E row \in Row : InsertRow(row)
  BY <1>1, <1>3, InsertRowType
<1>4. CASE \E i \in DOMAIN rows, r \in Requests :
             rows[i].vec = NoVec /\ FinalizeRow(i, r)
  BY <1>1, <1>4, FinalizeRowType
<1>5. QED
  BY <1>2, <1>3, <1>4, StepWrites

\* The rest of the state, action by action.
LEMMA StepRestType ==
    ASSUME TypeOK, [Next]_vars
    PROVE  /\ spans' \subseteq Span /\ fallback' \in Nat
           /\ job' \in [Handlers -> Job \cup {Idle}]
           /\ copies' \in 0 .. MaxCopies /\ acked' \subseteq Records
           /\ faults' \in 0 .. MaxFaults
<1> DEFINE Rest == /\ spans' \subseteq Span /\ fallback' \in Nat
                   /\ job' \in [Handlers -> Job \cup {Idle}]
                   /\ copies' \in 0 .. MaxCopies /\ acked' \subseteq Records
                   /\ faults' \in 0 .. MaxFaults
<1>0. /\ rows \in Seq(Row) /\ Len(rows) + 1 \in Nat
      /\ spans \subseteq Span /\ fallback \in Nat
      /\ job \in [Handlers -> Job \cup {Idle}]
      /\ copies \in 0 .. MaxCopies /\ acked \subseteq Records
      /\ faults \in 0 .. MaxFaults
  BY DEF TypeOK
<1>1. ASSUME NEW h \in Handlers, NEW r \in Requests, AnchorInsert(h, r)
      PROVE  Rest
  <2>1. copies' \in 0 .. MaxCopies
    BY <1>0, <1>1, DeliverType DEF AnchorInsert
  <2>2. PICK n \in Nat : job' = [job EXCEPT ![h] = [step |-> "record", req |-> r, row |-> n]]
    BY <1>0, <1>1 DEF AnchorInsert
  <2>3. [step |-> "record", req |-> r, row |-> n] \in Job
    BY DEF Job
  <2>4. job' \in [Handlers -> Job \cup {Idle}]
    BY <1>0, <2>2, <2>3
  <2>5. QED
    BY <1>0, <1>1, <2>1, <2>4 DEF AnchorInsert
<1>2. ASSUME NEW h \in Handlers, NEW r \in Requests, CompletionLookup(h, r)
      PROVE  Rest
  <2>1. copies' \in 0 .. MaxCopies
    BY <1>0, <1>2, DeliverType DEF CompletionLookup
  <2>2. Matches(r) \subseteq Span
    BY <1>0 DEF Matches, Eligible
  <2>3. PICK n \in Nat, k \in SpanKeys \cup {NoKey} :
          job' = [job EXCEPT ![h] = [step |-> "apply", req |-> r, row |-> n, key |-> k]]
    BY <1>2, <2>2 DEF CompletionLookup, Span
  <2>4. [step |-> "apply", req |-> r, row |-> n, key |-> k] \in Job
    BY DEF Job
  <2>5. job' \in [Handlers -> Job \cup {Idle}]
    BY <1>0, <2>3, <2>4
  <2>6. QED
    BY <1>0, <1>2, <2>1, <2>5 DEF CompletionLookup
<1>3. ASSUME NEW h \in Handlers, AnchorRecord(h)
      PROVE  Rest
  <2> DEFINE r == job[h].req
             s == [key |-> IF Trace[r].span THEN SpanKey(r) ELSE FallbackKey(fallback + 1),
                   row |-> job[h].row, conv |-> Trace[r].conv, start |-> Trace[r].at]
  <2>1. r \in Requests /\ job[h].row \in Nat
    BY <1>0, <1>3, JobShape DEF AnchorRecord
  <2>2. SpanKey(r) \in SpanKeys /\ FallbackKey(fallback + 1) \in SpanKeys
    BY <1>0, <2>1 DEF SpanKey, FallbackKey, SpanKeys
  <2>3. s \in Span
    BY <2>1, <2>2, TimesType DEF Span
  <2>4. \/ RecordRequest(s) /\ fallback' \in {fallback, fallback + 1}
        \/ UNCHANGED trackerVars
    BY <1>3 DEF AnchorRecord
  <2>5. spans' \subseteq Span /\ fallback' \in Nat
    <3> HIDE DEF s
    <3>1. CASE RecordRequest(s) /\ fallback' \in {fallback, fallback + 1}
      BY <1>0, <2>3, <3>1, RecordRequestType
    <3>2. CASE UNCHANGED trackerVars
      BY <1>0, <3>2 DEF trackerVars
    <3>3. QED
      BY <2>4, <3>1, <3>2
  <2>6. acked' \subseteq Records
    BY <1>0, <1>3, <2>1 DEF AnchorRecord, Records
  <2>7. job' \in [Handlers -> Job \cup {Idle}]
    BY <1>0, <1>3 DEF AnchorRecord
  <2>8. QED
    BY <1>0, <1>3, <2>5, <2>6, <2>7 DEF AnchorRecord
<1>4. ASSUME NEW h \in Handlers, CompletionApply(h)
      PROVE  Rest
  <2>1. job[h] \in [step: {"apply", "remove"}, req: Requests, row: Nat,
                    key: SpanKeys \cup {NoKey}]
    BY <1>0, <1>4, JobShape DEF CompletionApply
  <2>2. [job[h] EXCEPT !.step = "remove"] \in Job
    BY <2>1 DEF Job
  <2>3. job' \in [Handlers -> Job \cup {Idle}]
    BY <1>0, <1>4, <2>2 DEF CompletionApply
  <2>4. QED
    BY <1>0, <1>4, <2>3 DEF CompletionApply
<1>5. ASSUME NEW h \in Handlers, CompletionFails(h)
      PROVE  Rest
  BY <1>0, <1>5, BoundAssumption DEF CompletionFails
<1>6. ASSUME NEW h \in Handlers, CompletionRemove(h)
      PROVE  Rest
  <2>1. job[h].req \in Requests
    BY <1>0, <1>6, JobShape DEF CompletionRemove
  <2>2. acked' \subseteq Records
    BY <1>0, <1>6, <2>1 DEF CompletionRemove, Records
  <2>3. QED
    BY <1>0, <1>6, <2>2 DEF CompletionRemove
<1>7. CASE Restart
  BY <1>0, <1>7, BoundAssumption DEF Restart
<1>8. CASE UNCHANGED vars
  BY <1>0, <1>8 DEF vars
<1>9. QED
  BY <1>1, <1>2, <1>3, <1>4, <1>5, <1>6, <1>7, <1>8, Zenon DEF Next, HandlerStep

\* Type correctness of the Codex ledger: rows, aggregate, tracker and handlers
\* keep their shape through every handler, fault and restart.
THEOREM CodexTypeCorrect == Spec => []TypeOK
<1>1. TypeOK /\ [Next]_vars => TypeOK'
  BY StepDbType, StepRestType DEF TypeOK, AggType
<1>2. QED
  BY InitType, <1>1, PTL DEF Spec

-----------------------------------------------------------------------------
(* The aggregate equals what a rebuild would compute.                       *)

LEMMA InitAgg == Init => AggMatchesRows
<1> SUFFICES ASSUME Init PROVE AggMatchesRows
  OBVIOUS
<1>1. \A k \in Keys : RowsOf(rows, k) = {} /\ \A v \in Vectors : RowsWith(rows, k, v) = {}
  BY DEF Init, RowsOf, RowsWith
<1>2. QED
  BY <1>1, FS_EmptySet DEF Init, AggMatchesRows

LEMMA InsertRowAgg ==
    ASSUME rows \in Seq(Row), AggType, AggMatchesRows,
           NEW row \in Row, InsertRow(row)
    PROVE  AggMatchesRows'
<1>1. ASSUME NEW k \in Keys
      PROVE  agg'[k].requests = Cardinality(RowsOf(rows', k))
  <2>1. CASE KeyOf(row) = k
    <3>1. RowsOf(rows', k) = RowsOf(rows, k) \cup {Len(rows) + 1}
      BY <2>1, RowsOfAppend DEF InsertRow
    <3>2. Len(rows) + 1 \notin RowsOf(rows, k)
      BY DEF RowsOf
    <3>3. IsFiniteSet(RowsOf(rows, k))
      BY CountsFinite
    <3>4. Cardinality(RowsOf(rows', k)) = Cardinality(RowsOf(rows, k)) + 1
      BY <3>1, <3>2, <3>3, FS_AddElement
    <3>5. agg'[k].requests = agg[k].requests + 1
      BY <2>1 DEF InsertRow, AggType
    <3>6. QED
      BY <3>4, <3>5 DEF AggMatchesRows
  <2>2. CASE KeyOf(row) # k
    BY <2>2, RowsOfAppend DEF InsertRow, AggType, AggMatchesRows
  <2>3. QED
    BY <2>1, <2>2
<1>2. ASSUME NEW k \in Keys, NEW v \in Vectors
      PROVE  agg'[k].tokens[v] = Cardinality(RowsWith(rows', k, v))
  <2>0. /\ agg[k] \in [requests: Nat, tokens: [Vectors -> Nat]]
        /\ KeyOf(row) = k =>
              agg'[k].tokens = AddVec(agg[k].tokens, row.vec)
        /\ KeyOf(row) # k => agg'[k] = agg[k]
    BY DEF InsertRow, AggType
  <2>1. CASE KeyOf(row) = k /\ row.vec = v
    <3>1. RowsWith(rows', k, v) = RowsWith(rows, k, v) \cup {Len(rows) + 1}
      BY <2>1, RowsOfAppend DEF InsertRow
    <3>2. Len(rows) + 1 \notin RowsWith(rows, k, v)
      BY DEF RowsOf, RowsWith
    <3>3. IsFiniteSet(RowsWith(rows, k, v))
      BY CountsFinite
    <3>4. Cardinality(RowsWith(rows', k, v)) = Cardinality(RowsWith(rows, k, v)) + 1
      BY <3>1, <3>2, <3>3, FS_AddElement
    <3>5. agg'[k].tokens[v] = agg[k].tokens[v] + 1
      BY <2>0, <2>1 DEF AddVec
    <3>6. QED
      BY <3>4, <3>5 DEF AggMatchesRows
  <2>2. CASE ~(KeyOf(row) = k /\ row.vec = v)
    <3>1. RowsWith(rows', k, v) = RowsWith(rows, k, v)
      BY <2>2, RowsOfAppend DEF InsertRow
    <3>2. agg'[k].tokens[v] = agg[k].tokens[v]
      BY <2>0, <2>2 DEF AddVec
    <3>3. QED
      BY <3>1, <3>2 DEF AggMatchesRows
  <2>3. QED
    BY <2>1, <2>2
<1>3. QED
  BY <1>1, <1>2 DEF AggMatchesRows

LEMMA FinalizeRowAgg ==
    ASSUME rows \in Seq(Row), AggType, AggMatchesRows,
           NEW i \in DOMAIN rows, NEW r \in Requests,
           rows[i].vec = NoVec, FinalizeRow(i, r)
    PROVE  AggMatchesRows'
<1> DEFINE w == Trace[r].vec
<1>0. /\ w \in Vectors
      /\ DOMAIN rows' = DOMAIN rows
      /\ rows'[i].vec = w /\ rows'[i].at = rows[i].at /\ rows'[i].conv = rows[i].conv
      /\ \A j \in DOMAIN rows : j # i => rows'[j] = rows[j]
  <2>1. w \in Vectors /\ rows[i] \in Row
    BY TimesType
  <2>2. /\ DOMAIN rows' = DOMAIN rows
        /\ rows'[i] = [rows[i] EXCEPT !.vec = w]
        /\ \A j \in DOMAIN rows : j # i => rows'[j] = rows[j]
    BY DEF FinalizeRow
  <2>3. QED
    BY <2>1, <2>2 DEF Row
<1> HIDE DEF w
<1>1. ASSUME NEW k \in Keys
      PROVE  agg'[k].requests = Cardinality(RowsOf(rows', k))
  <2>1. RowsOf(rows', k) = RowsOf(rows, k)
    BY <1>0, RowsOfFinalize
  <2>2. agg'[k].requests = agg[k].requests
    BY DEF FinalizeRow, AggType
  <2>3. QED
    BY <2>1, <2>2 DEF AggMatchesRows
<1>2. ASSUME NEW k \in Keys, NEW v \in Vectors
      PROVE  agg'[k].tokens[v] = Cardinality(RowsWith(rows', k, v))
  <2>0. /\ agg[k] \in [requests: Nat, tokens: [Vectors -> Nat]]
        /\ KeyOf(rows[i]) = k => agg'[k].tokens = AddVec(agg[k].tokens, w)
        /\ KeyOf(rows[i]) # k => agg'[k] = agg[k]
    BY DEF FinalizeRow, AggType, w
  <2>1. CASE KeyOf(rows[i]) = k /\ v = w
    <3>1. RowsWith(rows', k, v) = RowsWith(rows, k, v) \cup {i}
      BY <1>0, <2>1, RowsOfFinalize
    <3>2. i \notin RowsWith(rows, k, v) /\ IsFiniteSet(RowsWith(rows, k, v))
      BY <1>0, <2>1, RowsOfFinalize, CountsFinite
    <3>3. Cardinality(RowsWith(rows', k, v)) = Cardinality(RowsWith(rows, k, v)) + 1
      BY <3>1, <3>2, FS_AddElement
    <3>4. agg'[k].tokens[v] = agg[k].tokens[v] + 1
      BY <2>0, <2>1 DEF AddVec
    <3>5. QED
      BY <3>3, <3>4 DEF AggMatchesRows
  <2>2. CASE ~(KeyOf(rows[i]) = k /\ v = w)
    <3>1. RowsWith(rows', k, v) = RowsWith(rows, k, v)
      BY <1>0, <2>2, RowsOfFinalize
    <3>2. agg'[k].tokens[v] = agg[k].tokens[v]
      BY <2>0, <2>2 DEF AddVec
    <3>3. QED
      BY <3>1, <3>2 DEF AggMatchesRows
  <2>3. QED
    BY <2>1, <2>2
<1>3. QED
  BY <1>1, <1>2 DEF AggMatchesRows

\* daily_model_agg, maintained by deltas from concurrent handlers, equals a
\* rebuild from api_requests after every step, faults and restarts included.
THEOREM CodexAggCorrect == Spec => []AggMatchesRows
<1>1. TypeOK /\ AggMatchesRows /\ [Next]_vars => AggMatchesRows'
  <2> SUFFICES ASSUME TypeOK, AggMatchesRows, [Next]_vars PROVE AggMatchesRows'
    OBVIOUS
  <2>1. rows \in Seq(Row) /\ AggType
    BY DEF TypeOK, AggType
  <2>2. CASE UNCHANGED dbVars
    BY <2>2 DEF dbVars, AggMatchesRows, RowsOf, RowsWith
  <2>3. CASE \E row \in Row : InsertRow(row)
    BY <2>1, <2>3, InsertRowAgg
  <2>4. CASE \E i \in DOMAIN rows, r \in Requests :
               rows[i].vec = NoVec /\ FinalizeRow(i, r)
    BY <2>1, <2>4, FinalizeRowAgg
  <2>5. QED
    BY <2>2, <2>3, <2>4, StepWrites
<1>2. QED
  BY InitAgg, CodexTypeCorrect, <1>1, PTL DEF Spec

\* No step of any handler rewrites tokens that a row already carries, removes a
\* row, or changes whose row it is.
THEOREM CodexRowsKeep == Spec => FinalizedRowsKeep
<1> DEFINE Keep == \A i \in DOMAIN rows :
                      /\ i \in DOMAIN rows'
                      /\ [rows'[i] EXCEPT !.vec = rows[i].vec] = rows[i]
                      /\ rows[i].vec # NoVec => rows'[i].vec = rows[i].vec
<1>1. TypeOK /\ [Next]_vars => [Keep]_rows
  <2> SUFFICES ASSUME TypeOK, [Next]_vars PROVE Keep \/ UNCHANGED rows
    OBVIOUS
  <2>1. rows \in Seq(Row)
    BY DEF TypeOK
  <2>2. CASE UNCHANGED dbVars
    BY <2>2 DEF dbVars
  <2>3. ASSUME NEW row \in Row, InsertRow(row)
        PROVE  Keep
    <3>1. \A i \in DOMAIN rows : i \in DOMAIN rows' /\ rows'[i] = rows[i] /\ rows[i] \in Row
      BY <2>1, <2>3 DEF InsertRow
    <3>2. QED
      BY <3>1 DEF Row
  <2>4. ASSUME NEW j \in DOMAIN rows, NEW r \in Requests,
               rows[j].vec = NoVec, FinalizeRow(j, r)
        PROVE  Keep
    <3>1. /\ DOMAIN rows' = DOMAIN rows
          /\ rows'[j] = [rows[j] EXCEPT !.vec = Trace[r].vec]
          /\ \A i \in DOMAIN rows : i # j => rows'[i] = rows[i]
      BY <2>1, <2>4 DEF FinalizeRow
    <3>2. \A i \in DOMAIN rows : rows[i] \in Row
      BY <2>1
    <3>3. QED
      BY <2>4, <3>1, <3>2 DEF Row
  <2>5. QED
    BY <2>2, <2>3, <2>4, StepWrites
<1>2. QED
  BY CodexTypeCorrect, <1>1, PTL DEF Spec, FinalizedRowsKeep

-----------------------------------------------------------------------------
(* The tracker: bounded, and never pointing at a foreign row.               *)

\* Row n is the anchor row that request r inserted.
IsAnchorOf(n, r) ==
    /\ n \in DOMAIN rows
    /\ rows[n].event = "anchor" /\ rows[n].req = r /\ rows[n].conv = Trace[r].conv

\* What TrackedRowIsItsAnchor needs to be inductive: an entry under a span id
\* belongs to the conversation of that request, fallback keys are never reused
\* while one is in the map, and an anchor handler between its insert and its
\* recordRequest holds its own row.
TrackInv ==
    /\ \A s \in spans :
          /\ s.row # 0 => \E r \in Requests : IsAnchorOf(s.row, r) /\ Trace[r].conv = s.conv
          /\ \A r \in Requests :
                s.key = SpanKey(r) =>
                    /\ s.conv = Trace[r].conv
                    /\ s.row # 0 => IsAnchorOf(s.row, r)
          /\ \A n \in Nat : s.key = FallbackKey(n) => n <= fallback
    /\ \A h \in Handlers :
          job[h].step = "record" /\ job[h].row # 0 => IsAnchorOf(job[h].row, job[h].req)

\* Rows keep their identity in every step.
LEMMA AnchorsKeep ==
    ASSUME TypeOK, [Next]_vars, NEW n, NEW r \in Requests, IsAnchorOf(n, r)
    PROVE  IsAnchorOf(n, r)'
<1>1. rows \in Seq(Row) /\ n \in DOMAIN rows
  BY DEF TypeOK, IsAnchorOf
<1>2. CASE UNCHANGED dbVars
  BY <1>2 DEF dbVars, IsAnchorOf
<1>3. ASSUME NEW row \in Row, InsertRow(row)
      PROVE  IsAnchorOf(n, r)'
  <2>1. n \in DOMAIN rows' /\ rows'[n] = rows[n]
    BY <1>1, <1>3 DEF InsertRow
  <2>2. QED
    BY <2>1 DEF IsAnchorOf
<1>4. ASSUME NEW i \in DOMAIN rows, NEW q \in Requests, FinalizeRow(i, q)
      PROVE  IsAnchorOf(n, r)'
  <2>1. /\ n \in DOMAIN rows' /\ rows[n] \in Row
        /\ rows'[n] = IF n = i THEN [rows[n] EXCEPT !.vec = Trace[q].vec] ELSE rows[n]
    BY <1>1, <1>4 DEF FinalizeRow
  <2>2. rows'[n].event = rows[n].event /\ rows'[n].req = rows[n].req
        /\ rows'[n].conv = rows[n].conv
    BY <2>1 DEF Row
  <2>3. QED
    BY <2>1, <2>2 DEF IsAnchorOf
<1>5. QED
  BY <1>2, <1>3, <1>4, StepWrites

\* An entry for request r, as AnchorRecord builds it.
EntryOf(s, r) ==
    /\ s \in Span /\ s.conv = Trace[r].conv
    /\ s.row # 0 => IsAnchorOf(s.row, r)
    /\ s.key = SpanKey(r) \/ s.key = FallbackKey(fallback + 1)

\* The spans conjunct of TrackInv, for one entry and one counter value.
EntryOK(s, limit) ==
    /\ s.row # 0 => \E r \in Requests : IsAnchorOf(s.row, r) /\ Trace[r].conv = s.conv
    /\ \A r \in Requests :
          s.key = SpanKey(r) =>
              /\ s.conv = Trace[r].conv
              /\ s.row # 0 => IsAnchorOf(s.row, r)
    /\ \A n \in Nat : s.key = FallbackKey(n) => n <= limit

LEMMA SpanKeysDiffer ==
    /\ \A r, q : SpanKey(r) = SpanKey(q) => r = q
    /\ \A m, n : FallbackKey(m) = FallbackKey(n) => m = n
    /\ \A r, n : SpanKey(r) # FallbackKey(n)
BY DEF SpanKey, FallbackKey

\* Recording an entry keeps every entry of the tracker right.
LEMMA RecordRequestTracks ==
    ASSUME spans \subseteq Span, fallback \in Nat, NEW limit \in Nat,
           \A t \in spans : EntryOK(t, fallback),
           NEW r \in Requests, NEW s, EntryOf(s, r), RecordRequest(s),
           fallback <= limit,
           s.key = FallbackKey(fallback + 1) => limit = fallback + 1
    PROVE  \A t \in spans' : EntryOK(t, limit)
<1>1. EntryOK(s, limit)
  BY SpanKeysDiffer DEF EntryOf, EntryOK
<1>2. \A t \in spans : EntryOK(t, limit)
  BY DEF EntryOK
<1>3. ASSUME NEW old \in spans, old.key = s.key
      PROVE  EntryOK(Merge(s, old), limit)
  <2> DEFINE m == Merge(s, old)
  <2>1. /\ m.key = s.key /\ m.conv = s.conv
        /\ m.row = IF s.row = 0 THEN old.row ELSE s.row
    BY DEF Merge, EntryOf, Span
  <2>2. s.key # FallbackKey(fallback + 1)
    <3>1. \A n \in Nat : old.key = FallbackKey(n) => n <= fallback
      BY DEF EntryOK
    <3>2. QED
      BY <1>3, <3>1
  <2>3. s.key = SpanKey(r)
    BY <2>2 DEF EntryOf
  <2>4. old.row # 0 => IsAnchorOf(old.row, r)
    BY <1>3, <2>3 DEF EntryOK
  <2>5. m.row # 0 => IsAnchorOf(m.row, r)
    BY <2>1, <2>4 DEF EntryOf
  <2>6. m.conv = Trace[r].conv
    BY <2>1 DEF EntryOf
  <2> HIDE DEF m
  <2>7. QED
    BY <2>1, <2>3, <2>5, <2>6, SpanKeysDiffer DEF EntryOK, m
<1>4. PICK kept \in SUBSET spans :
        \/ spans' = kept \cup {s}
        \/ \E old \in kept : old.key = s.key /\ spans' = (kept \ {old}) \cup {Merge(s, old)}
  BY Zenon DEF RecordRequest
<1>5. QED
  BY <1>1, <1>2, <1>3, <1>4

\* Entries that were right stay right while rows move on and the counter grows.
LEMMA EntriesKeep ==
    ASSUME TypeOK, [Next]_vars, NEW t, EntryOK(t, fallback),
           fallback' \in Nat, fallback <= fallback'
    PROVE  EntryOK(t, fallback)'
<1>1. \A n, r : r \in Requests /\ IsAnchorOf(n, r) => IsAnchorOf(n, r)'
  BY AnchorsKeep
<1>2. fallback \in Nat
  BY DEF TypeOK
<1>3. QED
  BY <1>1, <1>2 DEF EntryOK

LEMMA InitTrack == Init => TrackInv
BY DEF Init, TrackInv, Idle

LEMMA StepTrack ==
    ASSUME TypeOK, TrackInv, [Next]_vars
    PROVE  TrackInv'
<1> DEFINE Entries == \A t \in spans : EntryOK(t, fallback)
           Held(h) == job[h].step = "record" /\ job[h].row # 0
                          => IsAnchorOf(job[h].row, job[h].req)
<1>0. /\ rows \in Seq(Row) /\ spans \subseteq Span /\ fallback \in Nat
      /\ job \in [Handlers -> Job \cup {Idle}]
  BY DEF TypeOK
<1>1. Entries /\ \A h \in Handlers : Held(h)
  BY Zenon DEF TrackInv, EntryOK
<1>2. ASSUME Entries', \A h \in Handlers : Held(h)'
      PROVE  TrackInv'
  BY <1>2, Zenon DEF TrackInv, EntryOK
<1>3. ASSUME spans' \subseteq spans, fallback' = fallback
      PROVE  Entries'
  BY <1>0, <1>1, <1>3, EntriesKeep
<1>4. ASSUME NEW h \in Handlers, job'[h] = job[h]
      PROVE  Held(h)'
  <2>1. CASE job[h].step = "record" /\ job[h].row # 0
    <3>1. PICK n \in Nat, r \in Requests : n = job[h].row /\ r = job[h].req
      BY <1>0, <2>1, JobShape
    <3>2. IsAnchorOf(n, r)
      BY <1>1, <2>1, <3>1
    <3>3. IsAnchorOf(n, r)'
      BY <3>2, AnchorsKeep
    <3>4. job'[h].row = n /\ job'[h].req = r
      BY <1>4, <3>1
    <3>5. QED
      BY <3>3, <3>4
  <2>2. CASE ~(job[h].step = "record" /\ job[h].row # 0)
    BY <1>4, <2>2
  <2>3. QED
    BY <2>1, <2>2
<1>5. ASSUME NEW h \in Handlers, job'[h].step # "record"
      PROVE  Held(h)'
  BY <1>5
<1>6. ASSUME NEW h \in Handlers, NEW v,
             job' = [job EXCEPT ![h] = v], Held(h)'
      PROVE  \A g \in Handlers : Held(g)'
  <2>1. \A g \in Handlers : g # h => job'[g] = job[g]
    BY <1>0, <1>6
  <2>2. QED
    BY <1>4, <1>6, <2>1
<1>7. ASSUME NEW h \in Handlers, NEW r \in Requests, AnchorInsert(h, r)
      PROVE  TrackInv'
  <2>1. Entries'
    BY <1>0, <1>3, <1>7 DEF AnchorInsert
  <2>2. CASE UNCHANGED dbVars /\ job' = [job EXCEPT ![h] =
                                           [step |-> "record", req |-> r, row |-> 0]]
    BY <1>0, <1>2, <1>6, <2>1, <2>2
  <2>3. CASE /\ InsertRow(AnchorRow(r))
             /\ job' = [job EXCEPT ![h] =
                           [step |-> "record", req |-> r, row |-> Len(rows) + 1]]
    <3>1. PICK n \in Nat : n = Len(rows) + 1
      BY <1>0
    <3>2. rows'[n] = AnchorRow(r) /\ n \in DOMAIN rows'
      BY <1>0, <2>3, <3>1, AnchorRowType DEF InsertRow
    <3>3. IsAnchorOf(n, r)'
      BY <3>2 DEF IsAnchorOf, AnchorRow
    <3>4. job'[h].row = n /\ job'[h].req = r
      BY <1>0, <2>3, <3>1
    <3>5. Held(h)'
      BY <3>3, <3>4
    <3>6. QED
      BY <1>2, <1>6, <2>1, <2>3, <3>5
  <2>4. QED
    BY <1>7, <2>2, <2>3 DEF AnchorInsert
<1>8. ASSUME NEW h \in Handlers, NEW r \in Requests, CompletionLookup(h, r)
      PROVE  TrackInv'
  <2>1. Entries'
    BY <1>0, <1>3, <1>8 DEF CompletionLookup
  <2>2. PICK n, k :
          job' = [job EXCEPT ![h] = [step |-> "apply", req |-> r, row |-> n, key |-> k]]
    BY <1>8, Zenon DEF CompletionLookup
  <2>3. Held(h)'
    BY <1>0, <1>5, <2>2
  <2>4. QED
    BY <1>2, <1>6, <2>1, <2>2, <2>3
<1>9. ASSUME NEW h \in Handlers, AnchorRecord(h)
      PROVE  TrackInv'
  <2> DEFINE r == job[h].req
             s == [key |-> IF Trace[r].span THEN SpanKey(r) ELSE FallbackKey(fallback + 1),
                   row |-> job[h].row, conv |-> Trace[r].conv, start |-> Trace[r].at]
  <2>1. r \in Requests /\ job[h].row \in Nat /\ job[h].step = "record"
    BY <1>0, <1>9, JobShape DEF AnchorRecord
  <2>2. SpanKey(r) \in SpanKeys /\ FallbackKey(fallback + 1) \in SpanKeys
    BY <1>0, <2>1 DEF SpanKey, FallbackKey, SpanKeys
  <2>3. s \in Span
    BY <2>1, <2>2, TimesType DEF Span
  <2>4. EntryOf(s, r)
    BY <1>1, <2>1, <2>3 DEF EntryOf
  <2>5. rows' = rows /\ job' = [job EXCEPT ![h] = Idle]
    BY <1>9 DEF AnchorRecord
  <2>6. Entries'
    <3>1. CASE Trace[r].ok
      <4>1. /\ RecordRequest(s)
            /\ fallback' = IF Trace[r].span THEN fallback ELSE fallback + 1
        BY <1>9, <3>1 DEF AnchorRecord
      <4>2. /\ fallback' \in Nat /\ fallback <= fallback'
            /\ s.key = FallbackKey(fallback + 1) => fallback' = fallback + 1
        BY <1>0, <4>1, SpanKeysDiffer
      <4> HIDE DEF s, r
      <4>3. \A t \in spans' : EntryOK(t, fallback')
        BY <1>0, <1>1, <2>1, <2>4, <4>1, <4>2, RecordRequestTracks DEF r
      <4>4. QED
        BY <2>5, <4>3 DEF EntryOK, IsAnchorOf
    <3>2. CASE ~Trace[r].ok
      BY <1>0, <1>3, <1>9, <3>2 DEF AnchorRecord, trackerVars
    <3>3. QED
      BY <3>1, <3>2
  <2>7. Held(h)'
    BY <1>0, <2>5 DEF Idle
  <2>8. QED
    BY <1>2, <1>6, <2>5, <2>6, <2>7
<1>10. ASSUME NEW h \in Handlers, CompletionApply(h)
       PROVE  TrackInv'
  <2>1. Entries'
    BY <1>0, <1>3, <1>10 DEF CompletionApply
  <2>2. job[h] \in [step: {"apply", "remove"}, req: Requests, row: Nat,
                    key: SpanKeys \cup {NoKey}]
    BY <1>0, <1>10, JobShape DEF CompletionApply
  <2>3. job' = [job EXCEPT ![h] = [job[h] EXCEPT !.step = "remove"]]
    BY <1>10 DEF CompletionApply
  <2>4. job'[h].step = "remove"
    BY <1>0, <2>2, <2>3
  <2>5. QED
    BY <1>2, <1>5, <1>6, <2>1, <2>3, <2>4
<1>11. ASSUME NEW h \in Handlers, CompletionFails(h) \/ CompletionRemove(h)
       PROVE  TrackInv'
  <2>1. Entries'
    BY <1>0, <1>3, <1>11 DEF CompletionFails, CompletionRemove
  <2>2. job' = [job EXCEPT ![h] = Idle]
    BY <1>11 DEF CompletionFails, CompletionRemove
  <2>3. Held(h)'
    BY <1>0, <2>2 DEF Idle
  <2>4. QED
    BY <1>2, <1>6, <2>1, <2>2, <2>3
<1>12. CASE Restart
  BY <1>12 DEF Restart, TrackInv, Idle
<1>13. CASE UNCHANGED vars
  <2>1. Entries'
    BY <1>0, <1>3, <1>13 DEF vars
  <2>2. \A h \in Handlers : Held(h)'
    BY <1>4, <1>13 DEF vars
  <2>3. QED
    BY <1>2, <2>1, <2>2
<1>14. QED
  BY <1>7, <1>8, <1>9, <1>10, <1>11, <1>12, <1>13, Zenon DEF Next, HandlerStep

\* Whatever was delivered twice, reordered or lost at a restart, a completion
\* that finds a tracker entry is led to an anchor row of its own conversation,
\* and under a span id to the anchor of its own request.
THEOREM CodexTrackerSound == Spec => []TrackedRowIsItsAnchor
<1>1. TrackInv => TrackedRowIsItsAnchor
  BY DEF TrackInv, TrackedRowIsItsAnchor, IsAnchorOf
<1>2. TypeOK /\ TrackInv /\ [Next]_vars => TrackInv'
  BY StepTrack
<1>3. QED
  BY InitTrack, CodexTypeCorrect, <1>1, <1>2, PTL DEF Spec

-----------------------------------------------------------------------------
(* The tracker's cap.                                                       *)

Capped == IsFiniteSet(spans) /\ Cardinality(spans) <= MaxSpans + 1

\* Eviction leaves no more than the cap, whatever the entries' times.
LEMMA EvictedCapped ==
    ASSUME IsFiniteSet(spans), NEW start, NEW kept, Evicted(start, kept)
    PROVE  IsFiniteSet(kept) /\ Cardinality(kept) \in Nat /\ Cardinality(kept) <= MaxSpans
<1> DEFINE fresh == {s \in spans : s.start + SpanTTL >= start}
<1>0. fresh \in SUBSET spans
  OBVIOUS
<1>1. IsFiniteSet(fresh) /\ Cardinality(fresh) \in Nat
  BY <1>0, FS_Subset, FS_CardinalityType
<1>2. kept \subseteq fresh
  BY DEF Evicted
<1>3. IsFiniteSet(kept) /\ Cardinality(kept) \in Nat
  BY <1>1, <1>2, FS_Subset, FS_CardinalityType
<1>4. \/ Cardinality(fresh) <= MaxSpans /\ kept = fresh
      \/ Cardinality(kept) = MaxSpans
  BY DEF Evicted
<1>5. QED
  BY <1>1, <1>3, <1>4, WindowAssumption

\* The entry that is recorded then takes one more place, or that of the entry
\* under its key.
LEMMA RecordRequestCapped ==
    ASSUME IsFiniteSet(spans), NEW s, RecordRequest(s)
    PROVE  Capped'
<1>1. PICK kept \in SUBSET spans :
         /\ Evicted(s.start, kept)
         /\ \/ spans' = kept \cup {s}
            \/ \E old \in kept : spans' = (kept \ {old}) \cup {Merge(s, old)}
  BY DEF RecordRequest
<1>2. IsFiniteSet(kept) /\ Cardinality(kept) \in Nat /\ Cardinality(kept) <= MaxSpans
  BY <1>1, EvictedCapped
<1>3. ASSUME NEW part \in SUBSET kept, NEW e
      PROVE  /\ IsFiniteSet(part \cup {e})
             /\ Cardinality(part \cup {e}) <= MaxSpans + 1
  <2>1. IsFiniteSet(part) /\ Cardinality(part) \in Nat /\ Cardinality(part) <= Cardinality(kept)
    BY <1>2, FS_Subset, FS_CardinalityType
  <2>2. /\ IsFiniteSet(part \cup {e})
        /\ \/ Cardinality(part \cup {e}) = Cardinality(part)
           \/ Cardinality(part \cup {e}) = Cardinality(part) + 1
    BY <2>1, FS_AddElement
  <2>3. QED
    BY <1>2, <2>1, <2>2, WindowAssumption
<1>4. CASE spans' = kept \cup {s}
  BY <1>3, <1>4 DEF Capped
<1>5. CASE \E old \in kept : spans' = (kept \ {old}) \cup {Merge(s, old)}
  <2>1. PICK old \in kept : spans' = (kept \ {old}) \cup {Merge(s, old)}
    BY <1>5
  <2>2. kept \ {old} \in SUBSET kept
    OBVIOUS
  <2>3. QED
    BY <1>3, <2>1, <2>2 DEF Capped
<1>6. QED
  BY <1>1, <1>4, <1>5

LEMMA StepCapped ==
    ASSUME Capped, [Next]_vars
    PROVE  Capped'
<1>1. CASE UNCHANGED spans
  BY <1>1 DEF Capped
<1>2. ASSUME NEW s, RecordRequest(s)
      PROVE  Capped'
  BY <1>2, RecordRequestCapped DEF Capped
<1>3. CASE spans' \subseteq spans
  <2>1. IsFiniteSet(spans') /\ Cardinality(spans') <= Cardinality(spans)
    BY <1>3, FS_Subset DEF Capped
  <2>2. Cardinality(spans) \in Nat /\ Cardinality(spans') \in Nat
    BY <2>1, FS_CardinalityType DEF Capped
  <2>3. QED
    BY <2>1, <2>2, WindowAssumption DEF Capped
<1>4. ASSUME NEW h \in Handlers, NEW r \in Requests,
             AnchorInsert(h, r) \/ CompletionLookup(h, r)
      PROVE  UNCHANGED spans
  BY <1>4 DEF AnchorInsert, CompletionLookup
<1>5. ASSUME NEW h \in Handlers, AnchorRecord(h)
      PROVE  UNCHANGED spans \/ \E s : RecordRequest(s)
  BY <1>5 DEF AnchorRecord, trackerVars
<1>6. ASSUME NEW h \in Handlers, CompletionApply(h) \/ CompletionFails(h)
      PROVE  UNCHANGED spans
  BY <1>6 DEF CompletionApply, CompletionFails
<1>7. ASSUME NEW h \in Handlers, CompletionRemove(h)
      PROVE  spans' \subseteq spans
  BY <1>7 DEF CompletionRemove
<1>8. Restart => spans' \subseteq spans
  BY DEF Restart
<1>9. UNCHANGED vars => UNCHANGED spans
  BY DEF vars
<1>10. QED
  BY <1>1, <1>2, <1>3, <1>4, <1>5, <1>6, <1>7, <1>8, <1>9 DEF Next, HandlerStep

\* However many requests are tracked and whatever their clients' clocks say, the
\* tracker holds no more than its cap and the entry just recorded.
THEOREM CodexTrackerBounded == Spec => []TrackerBounded
<1>1. Init => Capped
  BY FS_EmptySet, WindowAssumption DEF Init, Capped
<1>2. Capped /\ [Next]_vars => Capped'
  BY StepCapped
<1>3. Capped => TrackerBounded
  BY DEF Capped, TrackerBounded
<1>4. QED
  BY <1>1, <1>2, <1>3, PTL DEF Spec

-----------------------------------------------------------------------------
(* Answered completions, for clients with one request to a conversation.     *)

\* Trace[r].conv tells the requests apart: no conversation has two of them.
OneRequestEach == \A q, r \in Requests : Trace[q].conv = Trace[r].conv => q = r

\* Rows belong to the conversation of their request and carry its tokens or none.
RowsOwn ==
    \A i \in DOMAIN rows :
        /\ rows[i].conv = Trace[rows[i].req].conv
        /\ rows[i].vec \in {NoVec, Trace[rows[i].req].vec}

Landed(r) == \E i \in DOMAIN rows : rows[i].vec = Trace[r].vec

\* What AnsweredTokensLanded needs to be inductive: a handler that is about to
\* drop the tracker entry has its tokens on a row.
LandedInv ==
    /\ RowsOwn
    /\ \A r \in Requests : <<"completion", r>> \in acked => Landed(r)
    /\ \A h \in Handlers : job[h].step = "remove" => Landed(job[h].req)

\* Tokens that are on a row stay there.
LEMMA LandedStays ==
    ASSUME TypeOK, [Next]_vars, NEW r \in Requests, Landed(r)
    PROVE  Landed(r)'
<1>1. PICK i \in DOMAIN rows : rows[i].vec = Trace[r].vec
  BY DEF Landed
<1>2. rows \in Seq(Row) /\ rows[i].vec # NoVec
  BY <1>1, TimesType, NoVecAssumption DEF TypeOK
<1>3. CASE UNCHANGED dbVars
  BY <1>3 DEF dbVars, Landed
<1>4. ASSUME NEW row \in Row, InsertRow(row)
      PROVE  Landed(r)'
  <2>1. i \in DOMAIN rows' /\ rows'[i] = rows[i]
    BY <1>2, <1>4 DEF InsertRow
  <2>2. QED
    BY <1>1, <2>1 DEF Landed
<1>5. ASSUME NEW j \in DOMAIN rows, NEW q \in Requests,
             rows[j].vec = NoVec, FinalizeRow(j, q)
      PROVE  Landed(r)'
  <2>1. i \in DOMAIN rows' /\ rows'[i] = rows[i]
    BY <1>2, <1>5 DEF FinalizeRow
  <2>2. QED
    BY <1>1, <2>1 DEF Landed
<1>6. QED
  BY <1>3, <1>4, <1>5, StepWrites

LEMMA OwnInsert ==
    ASSUME rows \in Seq(Row), RowsOwn, NEW row \in Row, InsertRow(row),
           row.conv = Trace[row.req].conv, row.vec \in {NoVec, Trace[row.req].vec}
    PROVE  /\ RowsOwn'
           /\ \A r \in Requests : row.vec = Trace[r].vec => Landed(r)'
<1>1. /\ DOMAIN rows' = DOMAIN rows \cup {Len(rows) + 1}
      /\ rows'[Len(rows) + 1] = row
      /\ \A i \in DOMAIN rows : rows'[i] = rows[i]
  BY DEF InsertRow
<1>2. QED
  BY <1>1 DEF RowsOwn, Landed

\* Tokens of a request on a row of its conversation, which is its own row.
LEMMA OwnFinalize ==
    ASSUME OneRequestEach, rows \in Seq(Row), RowsOwn, NEW i \in DOMAIN rows,
           NEW r \in Requests, rows[i].conv = Trace[r].conv, FinalizeRow(i, r)
    PROVE  RowsOwn' /\ Landed(r)'
<1>1. /\ DOMAIN rows' = DOMAIN rows /\ rows[i] \in Row
      /\ rows'[i] = [rows[i] EXCEPT !.vec = Trace[r].vec]
      /\ \A j \in DOMAIN rows : j # i => rows'[j] = rows[j]
  BY DEF FinalizeRow
<1>2. /\ rows'[i].vec = Trace[r].vec
      /\ rows'[i].conv = rows[i].conv /\ rows'[i].req = rows[i].req
  BY <1>1 DEF Row
<1>3. rows[i].req = r
  BY <1>1 DEF OneRequestEach, RowsOwn, Row
<1>4. RowsOwn'
  <2>1. \A j \in DOMAIN rows : j # i =>
           /\ rows'[j].conv = Trace[rows'[j].req].conv
           /\ rows'[j].vec \in {NoVec, Trace[rows'[j].req].vec}
    BY <1>1, Zenon DEF RowsOwn
  <2>2. rows'[i].conv = Trace[rows'[i].req].conv
    BY <1>2, <1>3
  <2>3. rows'[i].vec = Trace[rows'[i].req].vec
    BY <1>2, <1>3
  <2>4. QED
    BY <1>1, <2>1, <2>2, <2>3 DEF RowsOwn
<1>5. QED
  BY <1>1, <1>2, <1>4 DEF Landed

\* Whichever branch a completion takes, its tokens are on a row afterwards.
LEMMA UpdateLands ==
    ASSUME OneRequestEach, rows \in Seq(Row), RowsOwn,
           NEW p, NEW r \in Requests, UpdateTokens(p, r)
    PROVE  RowsOwn' /\ Landed(r)'
<1>1. ASSUME NEW i \in Pinned(p, r), rows[i].vec # NoVec, UNCHANGED dbVars
      PROVE  RowsOwn' /\ Landed(r)'
  <2>1. i \in DOMAIN rows /\ rows[i].conv = Trace[r].conv /\ rows[i] \in Row
    BY DEF Pinned
  <2>2. rows[i].req = r
    BY <2>1 DEF OneRequestEach, RowsOwn, Row
  <2>3. rows[i].vec = Trace[r].vec
    BY <1>1, <2>1, <2>2 DEF RowsOwn
  <2>4. QED
    BY <1>1, <2>1, <2>3 DEF dbVars, RowsOwn, Landed
<1>2. ASSUME NEW i \in Pinned(p, r) \cup Pending(r), FinalizeRow(i, r)
      PROVE  RowsOwn' /\ Landed(r)'
  <2>1. i \in DOMAIN rows /\ rows[i].conv = Trace[r].conv
    BY DEF Pinned, Pending
  <2>2. QED
    BY <1>2, <2>1, OwnFinalize
<1>3. CASE Replayed(r) /\ UNCHANGED dbVars
  BY <1>3 DEF Replayed, dbVars, RowsOwn, Landed
<1>4. CASE InsertRow(OrphanRow(r))
  <2>1. /\ OrphanRow(r) \in Row /\ OrphanRow(r).conv = Trace[r].conv
        /\ OrphanRow(r).req = r /\ OrphanRow(r).vec = Trace[r].vec
    BY OrphanRowType DEF OrphanRow
  <2>2. QED
    BY <1>4, <2>1, OwnInsert
<1>5. QED
  BY <1>1, <1>2, <1>3, <1>4, Zenon DEF UpdateTokens, ReplayOrOrphan

LEMMA InitLanded == Init => LandedInv
BY DEF Init, LandedInv, RowsOwn, Idle

\* A step that answers nothing but what has landed, and leaves no handler about
\* to answer more, keeps the invariant.
LEMMA LandedKeeps ==
    ASSUME TypeOK, LandedInv, [Next]_vars, RowsOwn',
           \A r \in Requests :
               <<"completion", r>> \in acked' => <<"completion", r>> \in acked \/ Landed(r)',
           \A h \in Handlers :
               \/ job'[h] = job[h]
               \/ job'[h].step # "remove"
               \/ \E r \in Requests : job'[h].req = r /\ Landed(r)'
    PROVE  LandedInv'
<1>1. \A r \in Requests : Landed(r) => Landed(r)'
  BY LandedStays
<1>2. ASSUME NEW h \in Handlers, job'[h] = job[h], job'[h].step = "remove"
      PROVE  \E r \in Requests : job'[h].req = r /\ Landed(r)'
  <2>1. PICK r \in Requests : r = job[h].req
    BY <1>2, JobShape DEF TypeOK
  <2>2. Landed(r)
    BY <1>2, <2>1 DEF LandedInv
  <2>3. QED
    BY <1>1, <1>2, <2>1, <2>2
<1>3. ASSUME NEW h \in Handlers, job'[h].step = "remove"
      PROVE  \E r \in Requests : job'[h].req = r /\ Landed(r)'
  BY <1>2, <1>3
<1>4. \A r \in Requests : <<"completion", r>> \in acked' => Landed(r)'
  BY <1>1, Zenon DEF LandedInv
<1>5. ASSUME NEW h \in Handlers
      PROVE  (job[h].step = "remove" => Landed(job[h].req))'
  BY <1>3 DEF Landed
<1>6. QED
  BY <1>4, <1>5, Zenon DEF LandedInv

LEMMA StepLanded ==
    ASSUME OneRequestEach, TypeOK, LandedInv, [Next]_vars
    PROVE  LandedInv'
<1>0. /\ rows \in Seq(Row) /\ RowsOwn
      /\ job \in [Handlers -> Job \cup {Idle}]
  BY DEF TypeOK, LandedInv
<1>1. ASSUME UNCHANGED dbVars
      PROVE  RowsOwn'
  BY <1>0, <1>1 DEF dbVars, RowsOwn
<1>2. ASSUME NEW h \in Handlers, NEW v, job' = [job EXCEPT ![h] = v], v.step # "remove"
      PROVE  \A g \in Handlers : job'[g] = job[g] \/ job'[g].step # "remove"
  BY <1>0, <1>2
<1>3. ASSUME NEW h \in Handlers, NEW r \in Requests, AnchorInsert(h, r)
      PROVE  LandedInv'
  <2>1. RowsOwn'
    <3>1. CASE UNCHANGED dbVars
      BY <1>1, <3>1
    <3>2. CASE InsertRow(AnchorRow(r))
      <4>1. /\ AnchorRow(r) \in Row /\ AnchorRow(r).conv = Trace[r].conv
            /\ AnchorRow(r).req = r /\ AnchorRow(r).vec = NoVec
        BY AnchorRowType DEF AnchorRow
      <4>2. QED
        BY <1>0, <3>2, <4>1, OwnInsert
    <3>3. QED
      BY <1>3, <3>1, <3>2, Zenon DEF AnchorInsert
  <2>2. PICK n : job' = [job EXCEPT ![h] = [step |-> "record", req |-> r, row |-> n]]
    BY <1>3, Zenon DEF AnchorInsert
  <2>3. \A g \in Handlers : job'[g] = job[g] \/ job'[g].step # "remove"
    BY <1>2, <2>2
  <2>4. acked' = acked
    BY <1>3 DEF AnchorInsert
  <2>5. QED
    BY <2>1, <2>3, <2>4, LandedKeeps
<1>4. ASSUME NEW h \in Handlers, NEW r \in Requests, CompletionLookup(h, r)
      PROVE  LandedInv'
  <2>1. PICK n, k :
          job' = [job EXCEPT ![h] = [step |-> "apply", req |-> r, row |-> n, key |-> k]]
    BY <1>4, Zenon DEF CompletionLookup
  <2>2. \A g \in Handlers : job'[g] = job[g] \/ job'[g].step # "remove"
    BY <1>2, <2>1
  <2>3. acked' = acked /\ UNCHANGED dbVars
    BY <1>4 DEF CompletionLookup, dbVars
  <2>4. QED
    BY <1>1, <2>2, <2>3, LandedKeeps
<1>5. ASSUME NEW h \in Handlers, AnchorRecord(h) \/ CompletionFails(h)
      PROVE  LandedInv'
  <2>1. job' = [job EXCEPT ![h] = Idle]
    BY <1>5 DEF AnchorRecord, CompletionFails
  <2>2. \A g \in Handlers : job'[g] = job[g] \/ job'[g].step # "remove"
    BY <1>2, <2>1 DEF Idle
  <2>3. UNCHANGED dbVars
    BY <1>5 DEF AnchorRecord, CompletionFails, dbVars
  <2>4. acked' = acked \/ acked' = acked \cup {<<"anchor", job[h].req>>}
    BY <1>5 DEF AnchorRecord, CompletionFails
  <2>5. \A r \in Requests : <<"completion", r>> \in acked' => <<"completion", r>> \in acked
    BY <2>4
  <2>6. QED
    BY <1>1, <2>2, <2>3, <2>5, LandedKeeps
<1>6. ASSUME NEW h \in Handlers, CompletionApply(h)
      PROVE  LandedInv'
  <2>1. PICK r \in Requests : r = job[h].req
    BY <1>0, <1>6, JobShape DEF CompletionApply
  <2>2. UpdateTokens(job[h].row, r)
    BY <1>6, <2>1 DEF CompletionApply
  <2>3. RowsOwn' /\ Landed(r)'
    BY <1>0, <2>2, UpdateLands
  <2>4. job'[h].req = r /\ \A g \in Handlers : g # h => job'[g] = job[g]
    <3>1. job[h] \in [step: {"apply", "remove"}, req: Requests, row: Nat,
                      key: SpanKeys \cup {NoKey}]
      BY <1>0, <1>6, JobShape DEF CompletionApply
    <3>2. job' = [job EXCEPT ![h] = [job[h] EXCEPT !.step = "remove"]]
      BY <1>6 DEF CompletionApply
    <3>3. QED
      BY <1>0, <2>1, <3>1, <3>2
  <2>5. acked' = acked
    BY <1>6 DEF CompletionApply
  <2>6. QED
    BY <2>3, <2>4, <2>5, LandedKeeps
<1>7. ASSUME NEW h \in Handlers, CompletionRemove(h)
      PROVE  LandedInv'
  <2>1. job' = [job EXCEPT ![h] = Idle]
    BY <1>7 DEF CompletionRemove
  <2>2. \A g \in Handlers : job'[g] = job[g] \/ job'[g].step # "remove"
    BY <1>2, <2>1 DEF Idle
  <2>3. UNCHANGED dbVars
    BY <1>7 DEF CompletionRemove, dbVars
  <2>4. PICK r \in Requests : r = job[h].req
    BY <1>0, <1>7, JobShape DEF CompletionRemove
  <2>5. acked' = acked \cup {<<"completion", r>>}
    BY <1>7, <2>4 DEF CompletionRemove
  <2>6. Landed(r)'
    <3>1. Landed(r)
      BY <1>7, <2>4 DEF CompletionRemove, LandedInv
    <3>2. QED
      BY <3>1, LandedStays
  <2>7. \A q \in Requests :
           <<"completion", q>> \in acked' => <<"completion", q>> \in acked \/ q = r
    BY <2>5
  <2>8. \A q \in Requests :
           <<"completion", q>> \in acked' => <<"completion", q>> \in acked \/ Landed(q)'
    BY <2>6, <2>7
  <2>9. QED
    BY <1>1, <2>2, <2>3, <2>8, LandedKeeps
<1>8. CASE Restart
  <2>1. \A h \in Handlers : job'[h].step # "remove"
    BY <1>8 DEF Restart, Idle
  <2>2. acked' = acked /\ UNCHANGED dbVars
    BY <1>8 DEF Restart, dbVars
  <2>3. QED
    BY <1>1, <2>1, <2>2, LandedKeeps
<1>9. CASE UNCHANGED vars
  <2>1. acked' = acked /\ UNCHANGED dbVars /\ job' = job
    BY <1>9 DEF vars, dbVars
  <2>2. QED
    BY <1>1, <2>1, LandedKeeps
<1>10. QED
  BY <1>3, <1>4, <1>5, <1>6, <1>7, <1>8, <1>9, Zenon DEF Next, HandlerStep

\* An answer is never given for tokens that no row has: whatever is delivered
\* twice, late, out of order or around a restart, and wherever the tracker leads
\* the completion, if a conversation has one request to be mistaken for.
THEOREM CodexAnsweredLanded == OneRequestEach => (Spec => []AnsweredTokensLanded)
<1> SUFFICES ASSUME OneRequestEach PROVE Spec => []AnsweredTokensLanded
  OBVIOUS
<1>1. TypeOK /\ LandedInv /\ [Next]_vars => LandedInv'
  BY StepLanded
<1>2. LandedInv => AnsweredTokensLanded
  BY DEF LandedInv, AnsweredTokensLanded, Landed
<1>3. QED
  BY InitLanded, CodexTypeCorrect, <1>1, <1>2, PTL DEF Spec

-----------------------------------------------------------------------------
(* The step simulation of UsageLedger.                                      *)

\* The clients for which the window searches of the code are exact: they export
\* a completion after its anchor was answered, keep one request to a
\* conversation, send an auth.request_id, and answer within the pending and the
\* replay window.  That vectors differ only gives every charge a name.
SettledClients ==
    /\ AnchorFirst
    /\ OneRequestEach
    /\ \A q, r \in Requests : Trace[q].vec = Trace[r].vec => q = r
    /\ \A r \in Requests :
          /\ Trace[r].rid
          /\ Trace[r].ok =>
                /\ Trace[r].at + PendingWindow >= Trace[r].done
                /\ Trace[r].at + ReplayBefore >= Trace[r].done
                /\ Trace[r].at <= Trace[r].done + ReplayAfter

Counted(r) == \E i \in DOMAIN rows : rows[i].req = r

\* Every row is the one anchor row of its request.
RowsAreAnchors ==
    \A i \in DOMAIN rows :
        /\ rows[i].event = "anchor" /\ rows[i].at = Trace[rows[i].req].at
        /\ \A j \in DOMAIN rows : rows[j].req = rows[i].req => j = i

\* What the simulation needs beside LandedInv: whoever handles a completion, or
\* is done with an anchor, does so for a request that has its row.
AnchoredInv ==
    /\ RowsAreAnchors
    /\ \A r \in Requests : <<"anchor", r>> \in acked => Counted(r)
    /\ \A h \in Handlers :
          /\ job[h].step = "record" => Counted(job[h].req)
          /\ job[h].step \in {"apply", "remove"} =>
                Trace[job[h].req].ok /\ Counted(job[h].req)

\* What one step does to the ledger: a first row for r, or r's tokens onto the
\* row of r that awaits them.
Counts(r) == r \in Requests /\ ~Counted(r) /\ InsertRow(AnchorRow(r))
Charges(r) ==
    /\ r \in Requests
    /\ \E i \in DOMAIN rows :
          rows[i].req = r /\ rows[i].vec = NoVec /\ FinalizeRow(i, r)

\* A completion finds the one row of its request, by the tracker, among the
\* pending rows or in the replay window, and never adds an orphan row.
LEMMA UpdateCharges ==
    ASSUME SettledClients, rows \in Seq(Row), RowsOwn, RowsAreAnchors,
           NEW p, NEW r \in Requests, Trace[r].ok, Counted(r), UpdateTokens(p, r)
    PROVE  UNCHANGED dbVars \/ Charges(r)
<1>1. PICK i \in DOMAIN rows : rows[i].req = r
  BY DEF Counted
<1>2. /\ rows[i].conv = Trace[r].conv /\ rows[i].at = Trace[r].at
      /\ rows[i].vec \in {NoVec, Trace[r].vec}
  BY <1>1 DEF RowsOwn, RowsAreAnchors
<1>3. ASSUME NEW j \in DOMAIN rows, rows[j].conv = Trace[r].conv
      PROVE  j = i
  <2>1. rows[j].req \in Requests /\ Trace[rows[j].req].conv = Trace[r].conv
    <3>1. rows[j] \in Row
      OBVIOUS
    <3>2. QED
      BY <1>3, <3>1 DEF RowsOwn, Row
  <2>2. rows[j].req = r
    BY <2>1 DEF SettledClients, OneRequestEach
  <2>3. QED
    BY <1>1, <2>2 DEF RowsAreAnchors
<1>4. ASSUME NEW j \in Pinned(p, r) \cup Pending(r), rows[j].vec = NoVec, FinalizeRow(j, r)
      PROVE  Charges(r)
  <2>1. j = i
    BY <1>3 DEF Pinned, Pending
  <2>2. QED
    BY <1>1, <1>4, <2>1 DEF Charges
<1>5. \A j \in Pending(r) : rows[j].vec = NoVec
  BY DEF Pending
<1>6. rows[i].vec = NoVec => i \in Pending(r)
  BY <1>2 DEF Pending, SettledClients
<1>7. rows[i].vec # NoVec => Replayed(r)
  BY <1>2 DEF Replayed, SettledClients
<1>8. QED
  BY <1>4, <1>5, <1>6, <1>7, Zenon DEF UpdateTokens, ReplayOrOrphan

LEMMA CountedStays ==
    ASSUME TypeOK, [Next]_vars, NEW r, Counted(r)
    PROVE  Counted(r)'
<1>1. PICK i \in DOMAIN rows : rows[i].req = r
  BY DEF Counted
<1>2. rows \in Seq(Row)
  BY DEF TypeOK
<1>3. CASE UNCHANGED dbVars
  BY <1>1, <1>3 DEF dbVars, Counted
<1>4. ASSUME NEW row \in Row, InsertRow(row)
      PROVE  Counted(r)'
  <2>1. i \in DOMAIN rows' /\ rows'[i] = rows[i]
    BY <1>2, <1>4 DEF InsertRow
  <2>2. QED
    BY <1>1, <2>1 DEF Counted
<1>5. ASSUME NEW j \in DOMAIN rows, NEW q \in Requests, FinalizeRow(j, q)
      PROVE  Counted(r)'
  <2>1. /\ i \in DOMAIN rows' /\ rows[i] \in Row
        /\ rows'[i] = IF i = j THEN [rows[i] EXCEPT !.vec = Trace[q].vec] ELSE rows[i]
    BY <1>2, <1>5 DEF FinalizeRow
  <2>2. rows'[i].req = rows[i].req
    BY <2>1 DEF Row
  <2>3. QED
    BY <1>1, <2>1, <2>2 DEF Counted
<1>6. QED
  BY <1>3, <1>4, <1>5, StepWrites

\* Seen from the ledger, every step counts one new request, charges one that is
\* counted, or does nothing.
LEMMA StepMoves ==
    ASSUME SettledClients, TypeOK, LandedInv, AnchoredInv, [Next]_vars
    PROVE  UNCHANGED dbVars \/ (\E r \in Requests : Counts(r) \/ Charges(r))
<1>0. /\ rows \in Seq(Row) /\ RowsOwn /\ RowsAreAnchors
      /\ job \in [Handlers -> Job \cup {Idle}]
  BY DEF TypeOK, LandedInv, AnchoredInv
<1>1. ASSUME NEW h \in Handlers, NEW r \in Requests, AnchorInsert(h, r)
      PROVE  UNCHANGED dbVars \/ Counts(r)
  <2>1. ~AnchorStored(r) => ~Counted(r)
    BY <1>0 DEF AnchorStored, SettledClients, Counted, RowsAreAnchors
  <2>2. QED
    BY <1>1, <2>1, Zenon DEF AnchorInsert, Counts
<1>2. ASSUME NEW h \in Handlers, CompletionApply(h)
      PROVE  UNCHANGED dbVars \/ \E r \in Requests : Charges(r)
  <2>1. PICK r \in Requests : r = job[h].req
    BY <1>0, <1>2, JobShape DEF CompletionApply
  <2>2. job[h].step = "apply" /\ UpdateTokens(job[h].row, r)
    BY <1>2, <2>1 DEF CompletionApply
  <2>3. Trace[r].ok /\ Counted(r)
    BY <2>1, <2>2 DEF AnchoredInv
  <2>4. QED
    BY <1>0, <2>2, <2>3, UpdateCharges
<1>3. ASSUME NEW h \in Handlers, NEW r \in Requests, CompletionLookup(h, r)
      PROVE  UNCHANGED dbVars
  BY <1>3, Zenon DEF CompletionLookup, dbVars
<1>4. ASSUME NEW h \in Handlers,
             AnchorRecord(h) \/ CompletionRemove(h) \/ CompletionFails(h)
      PROVE  UNCHANGED dbVars
  BY <1>4, Zenon DEF AnchorRecord, CompletionRemove, CompletionFails, dbVars
<1>5. Restart \/ UNCHANGED vars => UNCHANGED dbVars
  BY Zenon DEF Restart, vars, dbVars
<1>6. QED
  BY <1>1, <1>2, <1>3, <1>4, <1>5, Zenon DEF Next, HandlerStep

\* How the two moves change the rows.
LEMMA CountsRows ==
    ASSUME rows \in Seq(Row), NEW r, Counts(r)
    PROVE  /\ DOMAIN rows' = DOMAIN rows \cup {Len(rows) + 1}
           /\ Len(rows) + 1 \notin DOMAIN rows
           /\ \A i \in DOMAIN rows : rows'[i] = rows[i]
           /\ rows'[Len(rows) + 1] = AnchorRow(r)
BY AnchorRowType DEF Counts, InsertRow

LEMMA ChargesRows ==
    ASSUME rows \in Seq(Row), NEW r, NEW i \in DOMAIN rows, FinalizeRow(i, r)
    PROVE  /\ DOMAIN rows' = DOMAIN rows
           /\ \A j \in DOMAIN rows : j # i => rows'[j] = rows[j]
           /\ rows'[i].vec = Trace[r].vec
           /\ \A j \in DOMAIN rows : rows'[j].req = rows[j].req
           /\ rows'[i].event = rows[i].event /\ rows'[i].at = rows[i].at
<1>1. /\ DOMAIN rows' = DOMAIN rows /\ rows[i] \in Row
      /\ rows'[i] = [rows[i] EXCEPT !.vec = Trace[r].vec]
      /\ \A j \in DOMAIN rows : j # i => rows'[j] = rows[j]
  BY DEF FinalizeRow
<1>2. QED
  BY <1>1 DEF Row

LEMMA AnchorsStay ==
    ASSUME SettledClients, TypeOK, LandedInv, AnchoredInv, [Next]_vars
    PROVE  RowsAreAnchors'
<1>0. rows \in Seq(Row) /\ RowsAreAnchors
  BY DEF TypeOK, AnchoredInv
<1>1. CASE UNCHANGED dbVars
  BY <1>0, <1>1 DEF dbVars, RowsAreAnchors
<1>2. ASSUME NEW r \in Requests, Counts(r)
      PROVE  RowsAreAnchors'
  <2>1. \A i \in DOMAIN rows : rows[i].req # r
    BY <1>2 DEF Counts, Counted
  <2>2. AnchorRow(r).req = r /\ AnchorRow(r).event = "anchor" /\ AnchorRow(r).at = Trace[r].at
    BY DEF AnchorRow
  <2>3. QED
    BY <1>0, <1>2, <2>1, <2>2, CountsRows DEF RowsAreAnchors
<1>3. ASSUME NEW r \in Requests, Charges(r)
      PROVE  RowsAreAnchors'
  <2>1. PICK i \in DOMAIN rows : FinalizeRow(i, r)
    BY <1>3 DEF Charges
  <2>2. QED
    BY <1>0, <2>1, ChargesRows DEF RowsAreAnchors
<1>4. QED
  BY <1>1, <1>2, <1>3, StepMoves

LEMMA InitAnchored == Init => AnchoredInv
BY DEF Init, AnchoredInv, RowsAreAnchors, Idle

\* The rest of AnchoredInv, for a step that moves one handler at most.
LEMMA AnchoredKeeps ==
    ASSUME SettledClients, TypeOK, LandedInv, AnchoredInv, [Next]_vars,
           \A r \in Requests :
               <<"anchor", r>> \in acked' => <<"anchor", r>> \in acked \/ Counted(r)',
           \A h \in Handlers :
               \/ job'[h] = job[h]
               \/ job'[h].step \notin {"record", "apply", "remove"}
               \/ \E r \in Requests :
                     /\ job'[h].req = r /\ Counted(r)'
                     /\ job'[h].step = "record" \/ Trace[r].ok
    PROVE  AnchoredInv'
<1>1. RowsAreAnchors'
  BY AnchorsStay
<1>2. \A r : Counted(r) => Counted(r)'
  BY CountedStays
<1>3. \A r \in Requests : <<"anchor", r>> \in acked' => Counted(r)'
  BY <1>2, Zenon DEF AnchoredInv
<1>4. ASSUME NEW h \in Handlers, job'[h].step \in {"record", "apply", "remove"}
      PROVE  \E r : /\ job'[h].req = r /\ Counted(r)'
                    /\ job'[h].step = "record" \/ Trace[r].ok
  <2>1. CASE job'[h] = job[h]
    <3>1. PICK r : r = job[h].req
      OBVIOUS
    <3>2. Counted(r) /\ (job[h].step = "record" \/ Trace[r].ok)
      BY <1>4, <2>1, <3>1 DEF AnchoredInv
    <3>3. QED
      BY <1>2, <2>1, <3>1, <3>2
  <2>2. QED
    BY <1>4, <2>1
<1>5. ASSUME NEW h \in Handlers
      PROVE  (/\ job[h].step = "record" => Counted(job[h].req)
              /\ job[h].step \in {"apply", "remove"} =>
                    Trace[job[h].req].ok /\ Counted(job[h].req))'
  BY <1>4 DEF Counted
<1>6. QED
  BY <1>1, <1>3, <1>5, Zenon DEF AnchoredInv

LEMMA StepAnchored ==
    ASSUME SettledClients, TypeOK, LandedInv, AnchoredInv, [Next]_vars
    PROVE  AnchoredInv'
<1>0. /\ rows \in Seq(Row) /\ RowsAreAnchors
      /\ job \in [Handlers -> Job \cup {Idle}]
  BY DEF TypeOK, AnchoredInv
<1>1. ASSUME NEW h \in Handlers, NEW r \in Requests, AnchorInsert(h, r)
      PROVE  AnchoredInv'
  <2>1. Counted(r)'
    <3>1. CASE AnchorStored(r) /\ UNCHANGED dbVars
      BY <3>1 DEF AnchorStored, dbVars, Counted
    <3>2. CASE InsertRow(AnchorRow(r))
      <4>1. rows' = Append(rows, AnchorRow(r)) /\ AnchorRow(r) \in Row /\ AnchorRow(r).req = r
        BY <3>2, AnchorRowType DEF InsertRow, AnchorRow
      <4>2. PICK n \in Nat : n = Len(rows) + 1
        BY <1>0
      <4>3. n \in DOMAIN rows' /\ rows'[n].req = r
        BY <1>0, <4>1, <4>2
      <4>4. QED
        BY <4>3 DEF Counted
    <3>3. QED
      BY <1>1, <3>1, <3>2, Zenon DEF AnchorInsert
  <2>2. PICK n : job' = [job EXCEPT ![h] = [step |-> "record", req |-> r, row |-> n]]
    BY <1>1, Zenon DEF AnchorInsert
  <2>3. /\ job'[h].req = r /\ job'[h].step = "record"
        /\ \A g \in Handlers : g # h => job'[g] = job[g]
    BY <1>0, <2>2
  <2>4. acked' = acked
    BY <1>1 DEF AnchorInsert
  <2>5. QED
    BY <2>1, <2>3, <2>4, AnchoredKeeps
<1>2. ASSUME NEW h \in Handlers, NEW r \in Requests, CompletionLookup(h, r)
      PROVE  AnchoredInv'
  <2>1. <<"anchor", r>> \in acked /\ Trace[r].ok
    <3>1. PICK m : m = <<"completion", r>>
      OBVIOUS
    <3>2. m[1] = "completion" /\ m[2] = r
      BY <3>1
    <3>3. Deliver(m) /\ Trace[r].ok
      BY <1>2, <3>1, Zenon DEF CompletionLookup
    <3>4. <<"anchor", m[2]>> \in acked
      BY <3>2, <3>3, Zenon DEF Deliver, SettledClients
    <3>5. QED
      BY <3>2, <3>3, <3>4
  <2>2. Counted(r)'
    <3>1. Counted(r)
      BY <2>1 DEF AnchoredInv
    <3>2. QED
      BY <3>1, CountedStays
  <2>3. PICK n, k :
          job' = [job EXCEPT ![h] = [step |-> "apply", req |-> r, row |-> n, key |-> k]]
    BY <1>2, Zenon DEF CompletionLookup
  <2>4. job'[h].req = r /\ \A g \in Handlers : g # h => job'[g] = job[g]
    BY <1>0, <2>3
  <2>5. acked' = acked
    BY <1>2 DEF CompletionLookup
  <2>6. QED
    BY <2>1, <2>2, <2>4, <2>5, AnchoredKeeps
<1>3. ASSUME NEW h \in Handlers, AnchorRecord(h)
      PROVE  AnchoredInv'
  <2>1. \A g \in Handlers : g # h => job'[g] = job[g]
    BY <1>0, <1>3 DEF AnchorRecord
  <2>2. job'[h].step \notin {"record", "apply", "remove"}
    BY <1>0, <1>3 DEF AnchorRecord, Idle
  <2>3. PICK r \in Requests : r = job[h].req
    BY <1>0, <1>3, JobShape DEF AnchorRecord
  <2>4. Counted(r)'
    <3>1. Counted(r)
      BY <1>3, <2>3 DEF AnchorRecord, AnchoredInv
    <3>2. QED
      BY <3>1, CountedStays
  <2>5. acked' = acked \cup {<<"anchor", r>>}
    BY <1>3, <2>3 DEF AnchorRecord
  <2>6. \A q \in Requests : <<"anchor", q>> \in acked' => <<"anchor", q>> \in acked \/ q = r
    BY <2>5
  <2>7. \A q \in Requests :
           <<"anchor", q>> \in acked' => <<"anchor", q>> \in acked \/ Counted(q)'
    BY <2>4, <2>6
  <2>8. QED
    BY <2>1, <2>2, <2>7, AnchoredKeeps
<1>4. ASSUME NEW h \in Handlers, CompletionApply(h)
      PROVE  AnchoredInv'
  <2>1. PICK r \in Requests : r = job[h].req
    BY <1>0, <1>4, JobShape DEF CompletionApply
  <2>2. Trace[r].ok /\ Counted(r)
    BY <1>4, <2>1 DEF CompletionApply, AnchoredInv
  <2>3. Counted(r)'
    BY <2>2, CountedStays
  <2>4. job'[h].req = r /\ \A g \in Handlers : g # h => job'[g] = job[g]
    <3>1. job[h] \in [step: {"apply", "remove"}, req: Requests, row: Nat,
                      key: SpanKeys \cup {NoKey}]
      BY <1>0, <1>4, JobShape DEF CompletionApply
    <3>2. job' = [job EXCEPT ![h] = [job[h] EXCEPT !.step = "remove"]]
      BY <1>4 DEF CompletionApply
    <3>3. QED
      BY <1>0, <2>1, <3>1, <3>2
  <2>5. acked' = acked
    BY <1>4 DEF CompletionApply
  <2>6. QED
    BY <2>2, <2>3, <2>4, <2>5, AnchoredKeeps
<1>5. ASSUME NEW h \in Handlers, CompletionFails(h) \/ CompletionRemove(h)
      PROVE  AnchoredInv'
  <2>1. job' = [job EXCEPT ![h] = Idle]
    BY <1>5 DEF CompletionFails, CompletionRemove
  <2>2. \A g \in Handlers : g # h => job'[g] = job[g]
    BY <1>0, <2>1
  <2>3. job'[h].step \notin {"record", "apply", "remove"}
    BY <1>0, <2>1 DEF Idle
  <2>4. acked' = acked \/ acked' = acked \cup {<<"completion", job[h].req>>}
    BY <1>5 DEF CompletionFails, CompletionRemove
  <2>5. \A r \in Requests : <<"anchor", r>> \in acked' => <<"anchor", r>> \in acked
    BY <2>4
  <2>6. QED
    BY <2>2, <2>3, <2>5, AnchoredKeeps
<1>6. CASE Restart
  <2>1. \A h \in Handlers : job'[h].step \notin {"record", "apply", "remove"}
    BY <1>6 DEF Restart, Idle
  <2>2. acked' = acked
    BY <1>6 DEF Restart
  <2>3. QED
    BY <2>1, <2>2, AnchoredKeeps
<1>7. CASE UNCHANGED vars
  <2>1. acked' = acked /\ job' = job
    BY <1>7 DEF vars
  <2>2. QED
    BY <2>1, AnchoredKeeps
<1>8. QED
  BY <1>1, <1>2, <1>3, <1>4, <1>5, <1>6, <1>7, Zenon DEF Next, HandlerStep

\* The sets of the abstract ledger, as the refinement mapping reads them.
CountedSet == {r \in Requests : \E i \in DOMAIN rows : rows[i].req = r}
ChargedSet == {r \in Requests : \E i \in DOMAIN rows : rows[i].vec = Trace[r].vec}

\* A first row is a step Count of the abstract ledger.
LEMMA CountsIsCount ==
    ASSUME rows \in Seq(Row), AggType, NEW r \in Requests, Counts(r)
    PROVE  \E k \in Keys : Ledger!Count(r, k)
<1> DEFINE k == KeyOf(AnchorRow(r))
<1>1. k \in Keys
  BY AnchorRowType, KeyOfType
<1>2. AnchorRow(r).vec = NoVec /\ AnchorRow(r).req = r
  BY DEF AnchorRow
<1>3. r \notin CountedSet
  BY DEF Counts, Counted, CountedSet
<1>4. CountedSet' = CountedSet \cup {r}
  BY <1>2, CountsRows DEF CountedSet
<1>5. \A q \in Requests : Trace[q].vec # NoVec
  BY TimesType, NoVecAssumption
<1>6. ChargedSet' = ChargedSet
  BY <1>2, <1>5, CountsRows DEF ChargedSet
<1>7. agg[k] \in [requests: Nat, tokens: [Vectors -> Nat]]
  BY <1>1 DEF AggType
<1>8. AddVec(agg[k].tokens, NoVec) = agg[k].tokens
  BY <1>7, NoVecAssumption DEF AddVec
<1>9. agg' = [agg EXCEPT ![k] = [requests |-> agg[k].requests + 1, tokens |-> agg[k].tokens]]
  BY <1>2, <1>8, Zenon DEF Counts, InsertRow
<1>10. [requests |-> agg[k].requests + 1, tokens |-> agg[k].tokens]
          = [agg[k] EXCEPT !.requests = @ + 1]
  BY <1>7
<1>11. agg' = [agg EXCEPT ![k].requests = @ + 1]
  BY <1>9, <1>10
<1> HIDE DEF k
<1>12. Ledger!Count(r, k)
  BY <1>3, <1>4, <1>6, <1>11 DEF Ledger!Count, CountedSet, ChargedSet
<1>13. QED
  BY <1>1, <1>12

\* Tokens onto a row that awaits them are a step Charge.
LEMMA ChargesIsCharge ==
    ASSUME SettledClients, rows \in Seq(Row), AggType, RowsOwn, RowsAreAnchors,
           NEW r \in Requests, Charges(r)
    PROVE  \E k \in Keys : Ledger!Charge(r, k)
<1>1. PICK i \in DOMAIN rows : rows[i].req = r /\ rows[i].vec = NoVec /\ FinalizeRow(i, r)
  BY DEF Charges
<1> DEFINE w == Trace[r].vec
<1>2. w \in Vectors /\ w # NoVec
  BY TimesType, NoVecAssumption
<1>0. PICK k \in Keys : k = KeyOf(rows[i])
  BY KeyOfType
<1>3. r \in CountedSet
  BY <1>1 DEF CountedSet
<1>4. r \notin ChargedSet
  <2>1. SUFFICES ASSUME NEW j \in DOMAIN rows, rows[j].vec = w PROVE FALSE
    BY DEF ChargedSet
  <2>2. rows[j] \in Row
    OBVIOUS
  <2>3. rows[j].req \in Requests /\ rows[j].vec = Trace[rows[j].req].vec
    BY <1>2, <2>1, <2>2 DEF RowsOwn, Row
  <2>4. rows[j].req = r
    BY <2>1, <2>3 DEF SettledClients
  <2>5. j = i
    BY <1>1, <2>4 DEF RowsAreAnchors
  <2>6. QED
    BY <1>1, <1>2, <2>1, <2>5
<1>5. CountedSet' = CountedSet
  BY <1>1, ChargesRows DEF CountedSet
<1>6. \A q \in Requests : Trace[q].vec = w => q = r
  BY DEF SettledClients
<1>7. \A q \in Requests : Trace[q].vec # NoVec
  BY TimesType, NoVecAssumption
<1>8. ChargedSet' = ChargedSet \cup {r}
  BY <1>1, <1>6, <1>7, ChargesRows DEF ChargedSet
<1>9. agg[k] \in [requests: Nat, tokens: [Vectors -> Nat]]
  BY DEF AggType
<1>10. AddVec(agg[k].tokens, w) = [agg[k].tokens EXCEPT ![w] = @ + 1]
  BY <1>2, <1>9 DEF AddVec
<1>11. agg' = [agg EXCEPT ![k].tokens[w] = @ + 1]
  BY <1>1, <1>0, <1>10 DEF FinalizeRow
<1>12. [q \in Requests |-> Trace[q].vec][r] = w
  OBVIOUS
<1> HIDE DEF w
<1>13. Ledger!Charge(r, k)
  BY <1>3, <1>4, <1>5, <1>8, <1>11, <1>12 DEF Ledger!Charge, CountedSet, ChargedSet
<1>14. QED
  BY <1>13

\* The handlers implement the ledger's promise, step by step: for any number of
\* duplicates, interleavings, failures and restarts, the daily totals move only
\* when a request is counted or charged for the first time.
THEOREM CodexRefinesLedger == SettledClients => (Spec => RefinesUsageLedger)
<1> SUFFICES ASSUME SettledClients PROVE Spec => RefinesUsageLedger
  OBVIOUS
<1>1. OneRequestEach
  BY DEF SettledClients
<1>2. Init => Ledger!Init
  BY DEF Init, Ledger!Init
<1>3. TypeOK /\ LandedInv /\ [Next]_vars => LandedInv'
  BY <1>1, StepLanded
<1>4. TypeOK /\ LandedInv /\ AnchoredInv /\ [Next]_vars => AnchoredInv'
  BY StepAnchored
<1>5. TypeOK /\ LandedInv /\ AnchoredInv /\ [Next]_vars => [Ledger!Next]_(Ledger!vars)
  <2> SUFFICES ASSUME TypeOK, LandedInv, AnchoredInv, [Next]_vars
               PROVE  [Ledger!Next]_(Ledger!vars)
    OBVIOUS
  <2>1. rows \in Seq(Row) /\ AggType /\ RowsOwn /\ RowsAreAnchors
    BY DEF TypeOK, AggType, LandedInv, AnchoredInv
  <2>2. CASE UNCHANGED dbVars
    BY <2>2 DEF dbVars, Ledger!vars
  <2>3. ASSUME NEW r \in Requests, Counts(r) \/ Charges(r)
        PROVE  Ledger!Next
    BY <2>1, <2>3, CountsIsCount, ChargesIsCharge DEF Ledger!Next
  <2>4. QED
    BY <2>2, <2>3, StepMoves
<1>6. QED
  BY InitLanded, InitAnchored, CodexTypeCorrect, <1>2, <1>3, <1>4, <1>5, PTL
     DEF Spec, RefinesUsageLedger, Ledger!Spec


=============================================================================
