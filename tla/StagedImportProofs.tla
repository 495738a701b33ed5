------------------------- MODULE StagedImportProofs -------------------------
(* What holds of the merge engine for every source, every cut into batches, *)
(* every set of request_ids and every interleaving with live traffic.       *)
EXTENDS StagedImport, FiniteSetTheorems, WellFoundedInduction, TLAPS

-----------------------------------------------------------------------------
(* Counting the rows of an identity.                                        *)

LEMMA OccurrencesType ==
    ASSUME NEW i, NEW p \in Nat, NEW q \in Nat
    PROVE  Occurrences(i, p, q) \in Nat
<1> DEFINE S == {n \in (p + 1) .. q : Source[n] = i}
<1>1. IsFiniteSet((p + 1) .. q)
  BY FS_Interval
<1>2. IsFiniteSet(S)
  BY <1>1, FS_Subset
<1> QED
  BY <1>2, FS_CardinalityType DEF Occurrences

LEMMA OccurrencesWithin ==
    ASSUME NEW i, NEW p \in Nat, NEW q \in Nat, q <= Len(Source)
    PROVE  Occurrences(i, p, q) <= SourceRows(i)
<1> DEFINE S == {n \in (p + 1) .. q : Source[n] = i}
           T == {n \in (0 + 1) .. Len(Source) : Source[n] = i}
<1>1. Len(Source) \in Nat
  BY SourceAssumption
<1>2. IsFiniteSet((0 + 1) .. Len(Source))
  BY <1>1, FS_Interval
<1>3. IsFiniteSet(T)
  BY <1>2, FS_Subset
<1>4. S \subseteq T
  BY <1>1
<1>5. Cardinality(S) <= Cardinality(T)
  BY <1>3, <1>4, FS_Subset
<1> QED
  BY <1>5 DEF SourceRows, Occurrences

LEMMA OccurrencesPositive ==
    ASSUME NEW p \in Nat, NEW q \in Nat, NEW n \in (p + 1) .. q
    PROVE  Occurrences(Source[n], p, q) > 0
<1> DEFINE S == {m \in (p + 1) .. q : Source[m] = Source[n]}
<1>1. IsFiniteSet((p + 1) .. q)
  BY FS_Interval
<1>2. IsFiniteSet(S)
  BY <1>1, FS_Subset
<1>3. S # {}
  OBVIOUS
<1>4. Cardinality(S) \in Nat /\ Cardinality(S) # 0
  BY <1>2, <1>3, FS_CardinalityType, FS_EmptySet
<1> QED
  BY <1>4 DEF Occurrences

LEMMA OccurrencesWitness ==
    ASSUME NEW i, SourceRows(i) > 0
    PROVE  \E n \in 1 .. Len(Source) : Source[n] = i
<1> DEFINE T == {n \in (0 + 1) .. Len(Source) : Source[n] = i}
<1>1. SUFFICES ASSUME T = {} PROVE FALSE
  OBVIOUS
<1>2. Cardinality(T) = 0
  BY <1>1, FS_EmptySet
<1> QED
  BY <1>2 DEF SourceRows, Occurrences

-----------------------------------------------------------------------------
(* What a batch inserts.                                                    *)

LEMMA ToInsertFacts ==
    ASSUME TypeOK, NEW i \in Identities
    PROVE  /\ target[i] \in Nat /\ batch[i] \in Nat /\ agg[i] \in Nat /\ imported[i] \in Nat
           /\ ToInsert(i) \in Nat
           /\ i \in Keyed => target[i] + ToInsert(i) <= 1 \/ ToInsert(i) = 0
           /\ ToInsert(i) > 0 => target[i] + ToInsert(i) <= batch[i]
           /\ i \notin Keyed => target[i] + ToInsert(i) >= batch[i]
           /\ batch[i] > 0 => target[i] + ToInsert(i) > 0
<1>1. target[i] \in Nat /\ batch[i] \in Nat /\ agg[i] \in Nat /\ imported[i] \in Nat
  BY DEF TypeOK, Counts
<1>2. CASE i \in Keyed
  <2>1. ToInsert(i) = IF target[i] > 0 \/ batch[i] = 0 THEN 0 ELSE 1
    BY <1>2 DEF ToInsert
  <2> QED
    BY <1>1, <1>2, <2>1
<1>3. CASE i \notin Keyed
  <2>1. ToInsert(i) = IF target[i] >= batch[i] THEN 0 ELSE batch[i] - target[i]
    BY <1>3 DEF ToInsert
  <2> QED
    BY <1>1, <1>3, <2>1
<1> QED
  BY <1>2, <1>3

-----------------------------------------------------------------------------
(* The type invariant.                                                      *)

\* Every variable keeps to its type: no batch takes a count below zero and the
\* scan does not run past the end of the source.
THEOREM StagedTypeCorrect == Spec => []TypeOK
<1>1. Init => TypeOK
  <2>1. Len(Source) \in Nat
    BY SourceAssumption
  <2>2. Nothing \in Counts
    BY DEF Nothing, Counts
  <2>3. 0 \in 0 .. Len(Source) /\ 0 \in 0 .. MaxBusy /\ 0 \in 0 .. MaxRuns /\ 0 \in 0 .. MaxLive
    BY <2>1, BoundAssumption
  <2> QED
    BY <2>2, <2>3 DEF Init, TypeOK
<1>2. TypeOK /\ [Next]_vars => TypeOK'
  <2> SUFFICES ASSUME TypeOK, [Next]_vars PROVE TypeOK'
    OBVIOUS
  <2>0. Len(Source) \in Nat
    BY SourceAssumption
  <2>1. CASE StartRun
    BY <2>0, <2>1, BoundAssumption DEF StartRun, TypeOK
  <2>2. CASE StageBatch
    <3>1. PICK q \in (pos + 1) .. Len(Source) :
             batch' = [i \in Identities |-> Occurrences(i, pos, q)] /\ pos' = q
      BY <2>2 DEF StageBatch
    <3>2. pos \in Nat /\ q \in Nat /\ q \in 0 .. Len(Source)
      BY <2>0 DEF TypeOK
    <3>3. \A i \in Identities : Occurrences(i, pos, q) \in Nat
      BY <3>2, OccurrencesType
    <3>4. batch' \in Counts
      BY <3>1, <3>3 DEF Counts
    <3>5. 0 \in 0 .. MaxBusy
      BY BoundAssumption
    <3> QED
      BY <2>2, <3>1, <3>2, <3>4, <3>5 DEF StageBatch, TypeOK
  <2>3. CASE EndRun
    BY <2>3 DEF EndRun, TypeOK
  <2>4. CASE CommitBatch
    <3>1. \A i \in Identities :
             /\ target[i] + ToInsert(i) \in Nat /\ imported[i] + ToInsert(i) \in Nat
             /\ (IF i \in Requests THEN agg[i] + Delta(i) ELSE 0) \in Nat
      BY ToInsertFacts DEF Delta
    <3>2. target' \in Counts /\ imported' \in Counts /\ agg' \in Counts
      BY <2>4, <3>1 DEF CommitBatch, Counts
    <3> QED
      BY <2>4, <3>2 DEF CommitBatch, TypeOK
  <2>5. CASE BusyRetry
    BY <2>5, BoundAssumption DEF BusyRetry, TypeOK
  <2>6. CASE Verify
    BY <2>6 DEF Verify, TypeOK
  <2>7. CASE Abort
    BY <2>7 DEF Abort, TypeOK
  <2>8. CASE LiveInsert
    <3>1. live' \in 0 .. MaxLive
      BY <2>8, BoundAssumption DEF LiveInsert, TypeOK
    <3>2. target' \in Counts /\ agg' \in Counts
      <4>1. PICK i \in Identities :
               \/ /\ target' = [target EXCEPT ![i] = @ + 1]
                  /\ agg' = IF i \in Requests THEN [agg EXCEPT ![i] = @ + 1] ELSE agg
               \/ UNCHANGED <<target, agg>>
        BY <2>8 DEF LiveInsert
      <4>2. target \in Counts /\ agg \in Counts
        BY DEF TypeOK
      <4>3. \A c \in Counts : [c EXCEPT ![i] = @ + 1] \in Counts
        BY DEF Counts
      <4> QED
        BY <4>1, <4>2, <4>3
    <3> QED
      BY <2>8, <3>1, <3>2 DEF LiveInsert, TypeOK
  <2>9. CASE Prune
    <3>1. target' \in Counts
      <4>1. PICK i \in Identities : target' = [target EXCEPT ![i] = 0]
        BY <2>9, SourceAssumption DEF Prune
      <4>2. target \in Counts
        BY DEF TypeOK
      <4> QED
        BY <4>1, <4>2 DEF Counts
    <3> QED
      BY <2>9, <3>1 DEF Prune, TypeOK
  <2>10. CASE UNCHANGED vars
    BY <2>10 DEF vars, TypeOK
  <2> QED
    BY <2>1, <2>2, <2>3, <2>4, <2>5, <2>6, <2>7, <2>8, <2>9, <2>10 DEF Next
<1> QED
  BY <1>1, <1>2, PTL DEF Spec

-----------------------------------------------------------------------------
(* The aggregate.                                                           *)

\* The deltas of the import and of the receiver add up to the rows.
THEOREM StagedAggCorrect == Spec => []AggMatchesTarget
<1>1. Init => AggMatchesTarget
  BY DEF Init, AggMatchesTarget
<1>2. TypeOK /\ AggMatchesTarget /\ [Next]_vars => AggMatchesTarget'
  <2> SUFFICES ASSUME TypeOK, AggMatchesTarget, [Next]_vars,
                      NEW r \in Requests
               PROVE  agg'[r] = target'[r]
    BY DEF AggMatchesTarget, Requests
  <2>0. r \in Identities /\ r \notin Prunable /\ agg[r] = target[r]
    BY DEF AggMatchesTarget, Requests
  <2>1. CASE CommitBatch
    <3>1. target'[r] = target[r] + ToInsert(r) /\ agg'[r] = agg[r] + Delta(r)
      BY <2>0, <2>1 DEF CommitBatch
    <3> QED
      BY <2>0, <3>1 DEF Delta
  <2>2. CASE LiveInsert
    <3>1. PICK i \in Identities :
             \/ /\ target' = [target EXCEPT ![i] = @ + 1]
                /\ agg' = IF i \in Requests THEN [agg EXCEPT ![i] = @ + 1] ELSE agg
             \/ UNCHANGED <<target, agg>>
      BY <2>2 DEF LiveInsert
    <3>2. target \in [Identities -> Nat] /\ agg \in [Identities -> Nat]
      BY DEF TypeOK, Counts
    <3>3. CASE i = r
      BY <2>0, <3>1, <3>2, <3>3
    <3>4. CASE i # r
      BY <2>0, <3>1, <3>2, <3>4
    <3> QED
      BY <3>3, <3>4
  <2>3. CASE Prune
    <3>1. PICK i \in Prunable : target' = [target EXCEPT ![i] = 0]
      BY <2>3 DEF Prune
    <3>2. r # i /\ target \in [Identities -> Nat]
      BY <2>0 DEF TypeOK, Counts
    <3>3. target'[r] = target[r]
      BY <2>0, <3>1, <3>2
    <3> QED
      BY <2>0, <2>3, <3>3 DEF Prune
  <2>4. CASE StartRun \/ StageBatch \/ EndRun \/ BusyRetry \/ Verify \/ Abort \/ UNCHANGED vars
    BY <2>0, <2>4 DEF StartRun, StageBatch, EndRun, BusyRetry, Verify, Abort, vars
  <2> QED
    BY <2>1, <2>2, <2>3, <2>4 DEF Next
<1> QED
  BY <1>1, <1>2, StagedTypeCorrect, PTL DEF Spec

-----------------------------------------------------------------------------
(* The inductive invariant of an import.                                    *)

\* The import never holds more copies than there are in the source, nor more
\* than the target has: a request is never deleted.
CopiesBounded ==
    \A i \in Requests :
        /\ imported[i] <= SourceRows(i) /\ imported[i] <= target[i]
        /\ i \in Keyed => target[i] <= 1

\* A batch is a part of the source.
BatchBounded == \A i \in Identities : batch[i] <= SourceRows(i)

\* A request that has been scanned is in the target, or in the staged batch.
ScannedLanded ==
    phase # "idle" =>
        \A n \in 1 .. pos :
            Source[n] \in Requests =>
                target[Source[n]] > 0 \/ (phase = "staged" /\ batch[Source[n]] > 0)

\* After a whole scan the source's requests are in the target for good.
AllLanded ==
    completed => \A n \in 1 .. Len(Source) :
                    Source[n] \in Requests => target[Source[n]] > 0

ImportInv ==
    /\ TypeOK /\ CopiesBounded /\ BatchBounded
    /\ VerificationHolds /\ ScannedLanded /\ AllLanded

LEMMA ImportInvInit == Init => ImportInv
<1> SUFFICES ASSUME Init PROVE ImportInv
  OBVIOUS
<1>0. Len(Source) \in Nat
  BY SourceAssumption
<1>1. TypeOK
  <2>1. Nothing \in Counts
    BY DEF Nothing, Counts
  <2>2. 0 \in 0 .. Len(Source) /\ 0 \in 0 .. MaxBusy /\ 0 \in 0 .. MaxRuns /\ 0 \in 0 .. MaxLive
    BY <1>0, BoundAssumption
  <2> QED
    BY <2>1, <2>2 DEF Init, TypeOK
<1>2. \A i : SourceRows(i) >= 0 /\ SourceRows(i) \in Nat
  BY <1>0, OccurrencesType DEF SourceRows
<1>3. \A i \in Identities : target[i] = 0 /\ imported[i] = 0 /\ batch[i] = 0
  BY DEF Init, Nothing
<1>4. CopiesBounded /\ BatchBounded
  BY <1>2, <1>3 DEF CopiesBounded, BatchBounded, Requests
<1>5. VerificationHolds /\ ScannedLanded /\ AllLanded
  BY DEF Init, VerificationHolds, ScannedLanded, AllLanded
<1> QED
  BY <1>1, <1>4, <1>5 DEF ImportInv

\* Steps that leave the rows alone and stage nothing.
LEMMA ImportInvQuiet ==
    ASSUME ImportInv, TypeOK',
           UNCHANGED <<target, batch, imported>>,
           \/ phase' = "idle" /\ completed' = completed
           \/ phase = "verify" /\ phase' = "scan" /\ UNCHANGED <<pos, completed>>
           \/ phase' = "scan" /\ pos' = 0 /\ completed' = completed
           \/ phase = "scan" /\ phase' = "idle" /\ pos = Len(Source)
           \/ UNCHANGED <<phase, pos, completed>>
    PROVE  ImportInv'
<1>1. CopiesBounded' /\ BatchBounded'
  BY DEF ImportInv, CopiesBounded, BatchBounded
<1>2. VerificationHolds'
  BY DEF ImportInv, VerificationHolds, Contained
<1>3. ScannedLanded'
  BY DEF ImportInv, ScannedLanded
<1>4. AllLanded'
  <2>1. CASE completed' = completed
    BY <2>1 DEF ImportInv, AllLanded
  <2>2. CASE phase = "scan" /\ pos = Len(Source)
    BY <2>2 DEF ImportInv, ScannedLanded, AllLanded
  <2> QED
    BY <2>1, <2>2
<1> QED
  BY <1>1, <1>2, <1>3, <1>4 DEF ImportInv

\* Steps of others that never lower a request's count.
LEMMA ImportInvTraffic ==
    ASSUME ImportInv, TypeOK',
           UNCHANGED <<phase, pos, batch, completed, imported>>,
           \A i \in Requests :
               /\ target'[i] >= target[i]
               /\ i \in Keyed => target'[i] <= 1
    PROVE  ImportInv'
<1>0. \A i \in Requests :
         /\ target[i] \in Nat /\ target'[i] \in Nat
         /\ batch[i] \in Nat /\ imported[i] \in Nat
  BY DEF ImportInv, TypeOK, Counts, Requests
<1>1. CopiesBounded'
  BY <1>0 DEF ImportInv, CopiesBounded
<1>2. BatchBounded'
  BY DEF ImportInv, BatchBounded
<1>3. VerificationHolds'
  BY <1>0 DEF ImportInv, VerificationHolds, Contained
<1>4. ScannedLanded'
  BY <1>0 DEF ImportInv, ScannedLanded
<1>5. AllLanded'
  BY <1>0 DEF ImportInv, AllLanded
<1> QED
  BY <1>1, <1>2, <1>3, <1>4, <1>5 DEF ImportInv

LEMMA ImportInvStage == ASSUME ImportInv, TypeOK', StageBatch PROVE ImportInv'
<1>0. Len(Source) \in Nat
  BY SourceAssumption
<1>1. PICK q \in (pos + 1) .. Len(Source) :
         batch' = [i \in Identities |-> Occurrences(i, pos, q)] /\ pos' = q
  BY DEF StageBatch
<1>2. pos \in Nat /\ q \in Nat /\ q <= Len(Source)
  BY <1>0 DEF ImportInv, TypeOK
<1>3. BatchBounded'
  BY <1>1, <1>2, OccurrencesWithin DEF BatchBounded
<1>4. ScannedLanded'
  <2> SUFFICES ASSUME NEW n \in 1 .. q, Source[n] \in Requests
               PROVE  target[Source[n]] > 0 \/ batch'[Source[n]] > 0
    BY <1>1 DEF ScannedLanded, StageBatch
  <2>1. CASE n \in 1 .. pos
    BY <2>1 DEF ImportInv, ScannedLanded, StageBatch
  <2>2. CASE n \in (pos + 1) .. q
    <3>1. Occurrences(Source[n], pos, q) > 0
      BY <1>2, <2>2, OccurrencesPositive
    <3>2. Source[n] \in Identities
      BY DEF Requests
    <3> QED
      BY <1>1, <3>1, <3>2
  <2> QED
    BY <1>2, <2>1, <2>2
<1>5. CopiesBounded' /\ AllLanded' /\ VerificationHolds'
  BY DEF ImportInv, CopiesBounded, AllLanded, VerificationHolds, StageBatch
<1> QED
  BY <1>3, <1>4, <1>5 DEF ImportInv

LEMMA ImportInvCommit == ASSUME ImportInv, TypeOK', CommitBatch PROVE ImportInv'
<1>0. TypeOK
  BY DEF ImportInv
<1>1. \A i \in Identities :
         /\ target'[i] = target[i] + ToInsert(i)
         /\ imported'[i] = imported[i] + ToInsert(i)
         /\ batch'[i] = batch[i]
  BY DEF CommitBatch
<1>2. \A i : SourceRows(i) \in Nat
  BY SourceAssumption, OccurrencesType DEF SourceRows
<1>3. CopiesBounded'
  <2> SUFFICES ASSUME NEW r \in Requests
               PROVE  /\ imported'[r] <= SourceRows(r) /\ imported'[r] <= target'[r]
                      /\ r \in Keyed => target'[r] <= 1
    BY DEF CopiesBounded
  <2>1. r \in Identities
    BY DEF Requests
  <2>2. /\ imported[r] <= SourceRows(r) /\ imported[r] <= target[r]
        /\ r \in Keyed => target[r] <= 1
        /\ batch[r] <= SourceRows(r)
    BY <2>1 DEF ImportInv, CopiesBounded, BatchBounded
  <2> DEFINE d == ToInsert(r)
  <2>3. /\ target[r] \in Nat /\ batch[r] \in Nat /\ imported[r] \in Nat /\ d \in Nat
        /\ r \in Keyed => target[r] + d <= 1 \/ d = 0
        /\ d > 0 => target[r] + d <= batch[r]
    BY <1>0, <2>1, ToInsertFacts
  <2>4. target'[r] = target[r] + d /\ imported'[r] = imported[r] + d
    BY <1>1, <2>1
  <2>5. SourceRows(r) \in Nat
    BY <1>2
  <2> HIDE DEF d
  <2> QED
    BY <2>2, <2>3, <2>4, <2>5
<1>4. BatchBounded'
  BY <1>1 DEF ImportInv, BatchBounded
<1>5. VerificationHolds'
  <2> SUFFICES ASSUME NEW r \in Requests PROVE Contained(r)'
    BY DEF VerificationHolds
  <2>1. r \in Identities
    BY DEF Requests
  <2>2. /\ target[r] \in Nat /\ batch[r] \in Nat
        /\ r \notin Keyed => target'[r] >= batch'[r]
        /\ batch'[r] > 0 => target'[r] > 0
    BY <1>0, <1>1, <2>1, ToInsertFacts
  <2> QED
    BY <2>2 DEF Contained
<1>6. ScannedLanded'
  <2> SUFFICES ASSUME NEW n \in 1 .. pos, Source[n] \in Requests
               PROVE  target'[Source[n]] > 0
    BY DEF ScannedLanded, CommitBatch
  <2>1. Source[n] \in Identities
    BY DEF Requests
  <2>2. target[Source[n]] > 0 \/ batch[Source[n]] > 0
    BY DEF ImportInv, ScannedLanded, CommitBatch
  <2> QED
    BY <1>0, <1>1, <2>1, <2>2, ToInsertFacts
<1>7. AllLanded'
  <2> SUFFICES ASSUME completed, NEW n \in 1 .. Len(Source), Source[n] \in Requests
               PROVE  target'[Source[n]] > 0
    BY DEF AllLanded, CommitBatch
  <2>1. Source[n] \in Identities /\ target[Source[n]] > 0
    BY DEF ImportInv, AllLanded, Requests
  <2> QED
    BY <1>0, <1>1, <2>1, ToInsertFacts
<1> QED
  BY <1>3, <1>4, <1>5, <1>6, <1>7 DEF ImportInv

LEMMA ImportInvNext == ASSUME ImportInv, TypeOK', [Next]_vars PROVE ImportInv'
<1>1. CASE StartRun
  BY <1>1, ImportInvQuiet DEF StartRun
<1>2. CASE StageBatch
  BY <1>2, ImportInvStage
<1>3. CASE EndRun
  BY <1>3, ImportInvQuiet DEF EndRun
<1>4. CASE CommitBatch
  BY <1>4, ImportInvCommit
<1>5. CASE BusyRetry
  BY <1>5, ImportInvQuiet DEF BusyRetry
<1>6. CASE Verify
  BY <1>6, ImportInvQuiet DEF Verify
<1>7. CASE Abort
  BY <1>7, ImportInvQuiet DEF Abort
<1>8. CASE LiveInsert
  <2>1. target \in [Identities -> Nat]
    BY DEF ImportInv, TypeOK, Counts
  <2>2. ASSUME NEW r \in Requests
        PROVE  target'[r] >= target[r] /\ (r \in Keyed => target'[r] <= 1)
    <3>1. /\ r \in Identities /\ target[r] \in Nat
          /\ r \in Keyed => target[r] <= 1
      BY <2>1, <2>2 DEF ImportInv, CopiesBounded, Requests
    <3>2. PICK i \in Identities :
             \/ /\ i \notin Keyed \/ target[i] = 0
                /\ target' = [target EXCEPT ![i] = @ + 1]
             \/ target' = target
      BY <1>8 DEF LiveInsert
    <3>3. CASE i = r
      BY <2>1, <3>1, <3>2, <3>3
    <3>4. CASE i # r
      BY <2>1, <3>1, <3>2, <3>4
    <3> QED
      BY <3>3, <3>4
  <2> QED
    BY <1>8, <2>2, ImportInvTraffic DEF LiveInsert
<1>9. CASE Prune
  <2>1. target \in [Identities -> Nat]
    BY DEF ImportInv, TypeOK, Counts
  <2>2. ASSUME NEW r \in Requests
        PROVE  target'[r] >= target[r] /\ (r \in Keyed => target'[r] <= 1)
    <3>1. PICK i \in Prunable : target' = [target EXCEPT ![i] = 0]
      BY <1>9 DEF Prune
    <3>2. r # i /\ r \in Identities /\ target[r] \in Nat
      BY <2>1, <2>2 DEF Requests
    <3>3. target'[r] = target[r]
      BY <2>1, <3>1, <3>2
    <3>4. r \in Keyed => target[r] <= 1
      BY <2>2 DEF ImportInv, CopiesBounded
    <3> QED
      BY <3>2, <3>3, <3>4
  <2> QED
    BY <1>9, <2>2, ImportInvTraffic DEF Prune
<1>10. CASE UNCHANGED vars
  BY <1>10, ImportInvQuiet DEF vars
<1> QED
  BY <1>1, <1>2, <1>3, <1>4, <1>5, <1>6, <1>7, <1>8, <1>9, <1>10 DEF Next

LEMMA ImportInvariant == Spec => []ImportInv
<1>1. ImportInv /\ TypeOK' /\ [Next]_vars => ImportInv'
  BY ImportInvNext
<1> QED
  BY <1>1, ImportInvInit, StagedTypeCorrect, PTL DEF Spec

\* However often it is run, cut off or raced, the import brings in no more copies
\* of a request than the source has, and a request_id never twice.
THEOREM StagedNoCopyTwice == Spec => []NoCopyTwice
<1>1. ImportInv => NoCopyTwice
  BY DEF ImportInv, CopiesBounded, NoCopyTwice
<1> QED
  BY <1>1, ImportInvariant, PTL

\* No live traffic makes the check after the commit miss a request.
THEOREM StagedVerificationHolds == Spec => []VerificationHolds
<1>1. ImportInv => VerificationHolds
  BY DEF ImportInv
<1> QED
  BY <1>1, ImportInvariant, PTL

\* A run that goes through has brought in every request of the source, whatever
\* the cuts were and however many runs failed before.
THEOREM StagedCompletedHasAll == Spec => []CompletedHasAll
<1>1. ImportInv => CompletedHasAll
  <2> SUFFICES ASSUME ImportInv, completed, NEW r \in Requests, SourceRows(r) > 0
               PROVE  target[r] > 0
    BY DEF CompletedHasAll
  <2>1. PICK n \in 1 .. Len(Source) : Source[n] = r
    BY OccurrencesWitness
  <2> QED
    BY <2>1 DEF ImportInv, AllLanded
<1> QED
  BY <1>1, ImportInvariant, PTL

-----------------------------------------------------------------------------
(* A run after a completed one.  Batches begin and end where they did then,  *)
(* so what the first run saw in the target the next one sees again.          *)

NextCut(p, q) == p < q /\ q <= Len(Source) /\ CutsAt(p, q)

Closed(S) == 0 \in S /\ \A p \in S : \A q \in 0 .. Len(Source) : NextCut(p, q) => q \in S

\* Where a batch may end: what every closed set of positions contains.
Cuts == {p \in 0 .. Len(Source) : \A S \in SUBSET (0 .. Len(Source)) : Closed(S) => p \in S}

\* The payload grows with every row.
LEMMA BytesGrow ==
    ASSUME NEW p \in 0 .. Len(Source), NEW q \in 0 .. Len(Source), p <= q
    PROVE  Bytes[p] <= Bytes[q]
<1>0. Len(Source) \in Nat /\ p \in Nat /\ q \in Nat
  BY SourceAssumption
<1>1. PICK T : T = {n \in Nat : n >= p /\ n <= Len(Source) /\ ~(Bytes[p] <= Bytes[n])}
  OBVIOUS
<1>2. SUFFICES ASSUME T # {}
               PROVE  FALSE
  BY <1>0, <1>1
<1>3. PICK R : R = {ss \in Nat \X Nat : ss[1] < ss[2]}
  OBVIOUS
<1>4. IsWellFoundedOn(R, Nat)
  <2>1. R = OpToRel(<, Nat)
    BY <1>3 DEF OpToRel
  <2>2. QED
    BY <2>1, NatLessThanWellFounded, Zenon
<1>5. PICK m \in T : \A y \in T : ~ (<<y, m>> \in R)
  <2>1. T \subseteq Nat
    BY <1>1
  <2>2. QED
    BY <1>2, <1>4, <2>1, WFMin, Zenon
<1>6. m \in Nat /\ m >= p /\ m <= Len(Source) /\ ~(Bytes[p] <= Bytes[m]) /\ \A y \in T : ~(y < m)
  BY <1>1, <1>3, <1>5
<1>7. Bytes[p] \in Nat /\ Bytes[m] \in Nat
  BY <1>0, <1>6, SourceAssumption
<1>8. m # p
  BY <1>6, <1>7
<1>9. m - 1 \in Nat /\ m - 1 >= p /\ m \in 1 .. Len(Source) /\ m - 1 \in 0 .. Len(Source)
  BY <1>0, <1>6, <1>8
<1>10. m - 1 \notin T
  BY <1>6, <1>9
<1>11. Bytes[p] <= Bytes[m - 1]
  BY <1>1, <1>9, <1>10
<1>12. Bytes[m - 1] < Bytes[m] /\ Bytes[m - 1] \in Nat
  BY <1>9, SourceAssumption
<1>13. QED
  BY <1>6, <1>7, <1>11, <1>12

\* A batch that begins after row p has one end.
LEMMA OneCut ==
    ASSUME NEW p \in 0 .. Len(Source), NEW q \in Nat, NEW c \in Nat,
           NextCut(p, q), NextCut(p, c)
    PROVE  q = c
<1>0. Len(Source) \in Nat /\ p \in Nat /\ BatchRows \in Nat /\ BatchBytes \in Nat
  BY SourceAssumption, BoundAssumption
<1>1. ASSUME NEW a \in Nat, NEW b \in Nat, NextCut(p, a), NextCut(p, b), a < b
      PROVE  FALSE
  <2>1. b > p + 1 /\ a + 1 <= b /\ b <= Len(Source) /\ a < Len(Source) /\ p < a
    BY <1>0, <1>1 DEF NextCut
  <2>2. b - p <= BatchRows /\ Bytes[b] - Bytes[p] <= BatchBytes
    BY <1>1, <2>1 DEF NextCut, CutsAt, Fits
  <2>3. ~Fits(p, a + 1)
    BY <1>1, <2>1 DEF NextCut, CutsAt
  <2>4. Bytes[a + 1] <= Bytes[b]
    BY <1>0, <1>1, <2>1, BytesGrow
  <2>5. Bytes[a + 1] \in Nat /\ Bytes[b] \in Nat /\ Bytes[p] \in Nat
    BY <1>0, <1>1, <2>1, SourceAssumption
  <2>6. Fits(p, a + 1)
    BY <1>0, <1>1, <2>1, <2>2, <2>4, <2>5 DEF Fits
  <2>7. QED
    BY <2>3, <2>6
<1>2. QED
  BY <1>1

LEMMA CutsClosed ==
    /\ 0 \in Cuts /\ Cuts \subseteq 0 .. Len(Source)
    /\ \A p \in Cuts : \A q \in 0 .. Len(Source) : NextCut(p, q) => q \in Cuts
BY SourceAssumption DEF Cuts, Closed

LEMMA CutsLeast ==
    ASSUME NEW S \in SUBSET Cuts, Closed(S)
    PROVE  S = Cuts
BY CutsClosed DEF Cuts

\* Batches do not overlap: one that begins before a cut ends before it.
LEMMA CutsApart ==
    ASSUME NEW a \in Cuts, NEW p \in Cuts, NEW q \in 0 .. Len(Source), NextCut(p, q), p < a
    PROVE  q <= a
<1>0. Len(Source) \in Nat
  BY SourceAssumption
<1>1. PICK S : S = {c \in Cuts : \A e \in Cuts : \A b \in 0 .. Len(Source) :
                                    NextCut(e, b) /\ e < c => b <= c}
  OBVIOUS
<1>2. 0 \in S
  BY <1>0, <1>1, CutsClosed
<1>3. ASSUME NEW d \in S, NEW c \in 0 .. Len(Source), NextCut(d, c)
      PROVE  c \in S
  <2>1. d \in Cuts /\ c \in Cuts /\ d < c
    BY <1>1, <1>3, CutsClosed DEF NextCut
  <2>2. PICK T : T = {e \in Cuts : e <= d \/ c <= e}
    OBVIOUS
  <2>3. ASSUME NEW e \in T, NEW b \in 0 .. Len(Source), NextCut(e, b)
        PROVE  b \in T
    <3>1. e \in Cuts /\ b \in Cuts /\ e < b /\ e \in Nat /\ b \in Nat /\ c \in Nat /\ d \in Nat
      BY <1>0, <2>1, <2>2, <2>3, CutsClosed DEF NextCut
    <3>2. CASE e < d
      BY <1>1, <2>2, <2>3, <3>1, <3>2
    <3>3. CASE e = d
      <4>1. b = c
        BY <1>3, <2>1, <2>3, <3>1, <3>3, CutsClosed, OneCut
      <4>2. QED
        BY <2>2, <3>1, <4>1
    <3>4. CASE c <= e
      BY <2>2, <3>1, <3>4
    <3>5. QED
      BY <2>2, <3>1, <3>2, <3>3, <3>4
  <2>4. 0 \in T
    BY <1>0, <2>1, <2>2, CutsClosed
  <2>5. T = Cuts
    BY <2>2, <2>3, <2>4, CutsLeast DEF Closed
  <2>6. ASSUME NEW e \in Cuts, NEW b \in 0 .. Len(Source), NextCut(e, b), e < c
        PROVE  b <= c
    <3>1. e <= d /\ e \in Nat /\ d \in Nat /\ b \in Nat /\ c \in Nat
      BY <1>0, <2>1, <2>2, <2>5, <2>6, CutsClosed
    <3>2. CASE e < d
      <4>1. b <= d
        BY <1>1, <2>6, <3>2
      <4>2. QED
        BY <2>1, <3>1, <4>1
    <3>3. CASE e = d
      BY <1>3, <2>6, <2>1, <3>1, <3>3, CutsClosed, OneCut
    <3>4. QED
      BY <3>1, <3>2, <3>3
  <2>7. QED
    BY <1>1, <2>1, <2>6
<1>4. S = Cuts
  BY <1>1, <1>2, <1>3, CutsLeast DEF Closed
<1>5. QED
  BY <1>1, <1>4

\* The target has as many copies as a batch that ends by position e would want.
Has(p, q) == \A i \in Requests : i \notin Keyed => target[i] >= Occurrences(i, p, q)
HasUpTo(e) ==
    \A p \in Cuts : \A q \in 0 .. Len(Source) : NextCut(p, q) /\ q <= e => Has(p, q)

RerunInv ==
    /\ pos \in Cuts
    /\ phase = "staged" =>
          /\ HasUpTo(pos - 1)
          /\ \E p \in Cuts : NextCut(p, pos) /\ batch = [i \in Identities |-> Occurrences(i, p, pos)]
    /\ phase \in {"scan", "verify"} => HasUpTo(pos)
    /\ completed => HasUpTo(Len(Source))

\* No request leaves the target, so what it has it keeps.
LEMMA HasKept ==
    ASSUME TypeOK, TypeOK', \A i \in Requests : target'[i] >= target[i],
           NEW e \in Int, HasUpTo(e)
    PROVE  HasUpTo(e)'
<1>0. Len(Source) \in Nat
  BY SourceAssumption
<1>1. SUFFICES ASSUME NEW p \in Cuts, NEW q \in 0 .. Len(Source), NextCut(p, q), q <= e,
                      NEW i \in Requests, i \notin Keyed
               PROVE  target'[i] >= Occurrences(i, p, q)
  BY DEF HasUpTo, Has
<1>2. target[i] >= Occurrences(i, p, q)
  BY <1>1 DEF HasUpTo, Has
<1>3. Occurrences(i, p, q) \in Nat
  BY <1>0, CutsClosed, OccurrencesType
<1>4. target[i] \in Nat /\ target'[i] \in Nat /\ target'[i] >= target[i]
  BY DEF TypeOK, Counts, Requests
<1>5. QED
  BY <1>2, <1>3, <1>4

LEMMA RerunStage == ASSUME ImportInv, RerunInv, TypeOK', StageBatch PROVE RerunInv'
<1>0. Len(Source) \in Nat /\ Cuts \subseteq 0 .. Len(Source)
  BY SourceAssumption, CutsClosed
<1>1. PICK q \in (pos + 1) .. Len(Source) :
         /\ CutsAt(pos, q) /\ pos' = q
         /\ batch' = [i \in Identities |-> Occurrences(i, pos, q)]
  BY DEF StageBatch
<1>2. pos \in Cuts /\ pos \in Nat /\ q \in 0 .. Len(Source) /\ NextCut(pos, q)
  BY <1>0, <1>1 DEF RerunInv, NextCut
<1>3. q \in Cuts
  BY <1>2, CutsClosed
<1>4. HasUpTo(q - 1)
  <2> SUFFICES ASSUME NEW a \in Cuts, NEW b \in 0 .. Len(Source), NextCut(a, b), b <= q - 1
               PROVE  Has(a, b)
    BY DEF HasUpTo
  <2>1. b \in Cuts
    BY CutsClosed
  <2>2. b <= pos
    BY <1>0, <1>2, <2>1, CutsApart
  <2>3. QED
    BY <2>2 DEF RerunInv, HasUpTo, StageBatch
<1>5. UNCHANGED <<target, completed>> /\ phase' = "staged"
  BY DEF StageBatch
<1>6. HasUpTo(q - 1)' /\ (completed' => HasUpTo(Len(Source))')
  BY <1>4, <1>5 DEF HasUpTo, Has, RerunInv
<1>7. QED
  BY <1>1, <1>2, <1>3, <1>5, <1>6 DEF RerunInv

LEMMA RerunCommit ==
    ASSUME ImportInv, RerunInv, TypeOK', CommitBatch
    PROVE  /\ RerunInv'
           /\ completed => \A i \in Requests : imported'[i] = imported[i]
<1>0. Len(Source) \in Nat /\ Cuts \subseteq 0 .. Len(Source) /\ TypeOK
  BY SourceAssumption, CutsClosed DEF ImportInv
<1>1. PICK p \in Cuts : NextCut(p, pos) /\ batch = [i \in Identities |-> Occurrences(i, p, pos)]
  BY DEF RerunInv, CommitBatch
<1>2. /\ \A i \in Identities : /\ target'[i] = target[i] + ToInsert(i)
                               /\ imported'[i] = imported[i] + ToInsert(i)
      /\ UNCHANGED <<pos, batch, completed>> /\ phase' = "verify"
  BY DEF CommitBatch
<1>3. \A i \in Requests : target'[i] >= target[i]
  <2> SUFFICES ASSUME NEW r \in Requests PROVE target'[r] >= target[r]
    OBVIOUS
  <2>1. r \in Identities
    BY DEF Requests
  <2>2. target[r] \in Nat /\ ToInsert(r) \in Nat
    BY <1>0, <2>1, ToInsertFacts
  <2>3. target'[r] = target[r] + ToInsert(r)
    BY <1>2, <2>1
  <2>4. QED
    BY <2>2, <2>3
<1>4. pos \in Cuts /\ pos \in Nat
  BY <1>0 DEF RerunInv
<1>5. HasUpTo(pos)'
  <2> SUFFICES ASSUME NEW a \in Cuts, NEW b \in 0 .. Len(Source), NextCut(a, b), b <= pos
               PROVE  Has(a, b)'
    BY <1>2 DEF HasUpTo
  <2>1. CASE b <= pos - 1
    <3>1. HasUpTo(pos - 1)'
      BY <1>0, <1>3, <1>4, HasKept DEF RerunInv, CommitBatch
    <3>2. pos' = pos
      BY <1>2
    <3>3. QED
      BY <2>1, <3>1, <3>2 DEF HasUpTo
  <2>2. CASE b = pos
    <3>1. a = p
      <4>1. p < pos /\ a < pos /\ p \in Nat /\ a \in Nat
        BY <1>0, <1>1, <2>2 DEF NextCut
      <4>2. ~(a < p)
        BY <1>4, <2>2, <4>1, CutsApart
      <4>3. ~(p < a)
        BY <1>0, <1>1, <1>4, <2>2, <4>1, CutsApart
      <4>4. QED
        BY <4>1, <4>2, <4>3
    <3> SUFFICES ASSUME NEW i \in Requests, i \notin Keyed
                 PROVE  target'[i] >= Occurrences(i, p, pos)
      BY <2>2, <3>1 DEF Has
    <3>2. i \in Identities
      BY DEF Requests
    <3>3. batch[i] = Occurrences(i, p, pos) /\ target'[i] = target[i] + ToInsert(i)
      BY <1>1, <1>2, <3>2
    <3>4. target[i] + ToInsert(i) >= batch[i]
      BY <1>0, <3>2, ToInsertFacts
    <3>5. QED
      BY <3>3, <3>4
  <2>3. QED
    BY <1>0, <1>4, <2>1, <2>2
<1>6. completed => HasUpTo(Len(Source))'
  BY <1>0, <1>3, HasKept DEF RerunInv
<1>7. ASSUME completed, NEW i \in Requests
      PROVE  imported'[i] = imported[i]
  <2>1. i \in Identities /\ target[i] \in Nat /\ batch[i] \in Nat /\ imported[i] \in Nat
    BY <1>0, ToInsertFacts DEF Requests
  <2>2. CASE i \in Keyed
    <3>1. batch[i] <= SourceRows(i) /\ SourceRows(i) \in Nat
      BY <1>0, <2>1, OccurrencesType DEF ImportInv, BatchBounded, SourceRows
    <3>2. batch[i] > 0 => target[i] > 0
      <4> SUFFICES ASSUME batch[i] > 0 PROVE target[i] > 0
        OBVIOUS
      <4>1. PICK n \in 1 .. Len(Source) : Source[n] = i
        BY <2>1, <3>1, OccurrencesWitness
      <4>2. QED
        BY <1>7, <4>1 DEF ImportInv, AllLanded
    <3>3. ToInsert(i) = 0
      BY <2>1, <2>2, <3>2 DEF ToInsert
    <3>4. QED
      BY <1>2, <2>1, <3>3
  <2>3. CASE i \notin Keyed
    <3>1. target[i] >= Occurrences(i, p, pos)
      BY <1>0, <1>1, <1>4, <1>7, <2>3 DEF RerunInv, HasUpTo, Has
    <3>2. batch[i] = Occurrences(i, p, pos)
      BY <1>1, <2>1
    <3>3. ToInsert(i) = 0
      BY <2>3, <3>1, <3>2 DEF ToInsert
    <3>4. QED
      BY <1>2, <2>1, <3>3
  <2>4. QED
    BY <2>2, <2>3
<1>8. QED
  BY <1>2, <1>4, <1>5, <1>6, <1>7 DEF RerunInv

\* Live traffic and retention leave the run alone and every request in the target.
LEMMA RerunTraffic ==
    ASSUME ImportInv, RerunInv, TypeOK', LiveInsert \/ Prune
    PROVE  RerunInv'
<1>0. TypeOK /\ Len(Source) \in Nat /\ pos \in Nat
  BY SourceAssumption DEF ImportInv, TypeOK
<1>1. target \in [Identities -> Nat] /\ Requests \subseteq Identities
  BY <1>0 DEF TypeOK, Counts, Requests
<1>2. ASSUME NEW i \in Requests PROVE target'[i] >= target[i]
  <2>1. i \in Identities /\ target[i] \in Nat
    BY <1>1
  <2>2. CASE Prune
    <3>1. PICK j \in Prunable : target' = [target EXCEPT ![j] = 0]
      BY <2>2 DEF Prune
    <3>2. i # j
      BY DEF Requests
    <3>3. QED
      BY <1>1, <2>1, <3>1, <3>2
  <2>3. CASE LiveInsert
    <3>1. PICK j \in Identities : target' = [target EXCEPT ![j] = @ + 1] \/ target' = target
      BY <2>3 DEF LiveInsert
    <3>2. QED
      BY <1>1, <2>1, <3>1
  <2>4. QED
    BY <2>2, <2>3
<1>3. UNCHANGED <<phase, pos, batch, completed>>
  BY DEF LiveInsert, Prune
<1>4. \A e \in Int : HasUpTo(e) => HasUpTo(e)'
  BY <1>0, <1>2, HasKept
<1>5. /\ HasUpTo(pos - 1) => HasUpTo(pos - 1)'
      /\ HasUpTo(pos) => HasUpTo(pos)'
      /\ HasUpTo(Len(Source)) => HasUpTo(Len(Source))'
  BY <1>0, <1>3, <1>4 DEF HasUpTo
<1>6. QED
  BY <1>3, <1>5 DEF RerunInv

\* A step that leaves the target alone and stages nothing.
LEMMA RerunQuiet ==
    ASSUME ImportInv, RerunInv, TypeOK',
           StartRun \/ EndRun \/ BusyRetry \/ Verify \/ Abort \/ UNCHANGED vars
    PROVE  RerunInv'
<1>0. Len(Source) \in Nat /\ pos \in Nat /\ Cuts \subseteq Nat
  BY SourceAssumption, CutsClosed DEF RerunInv
<1>1. target' = target
  BY DEF StartRun, EndRun, BusyRetry, Verify, Abort, vars
<1>2. \A e : HasUpTo(e)' <=> HasUpTo(e)
  BY <1>1 DEF HasUpTo, Has
<1>3. HasUpTo(0)
  BY <1>0 DEF HasUpTo, NextCut
<1>4. CASE StartRun
  BY <1>1, <1>3, <1>4, CutsClosed DEF StartRun, RerunInv, HasUpTo, Has
<1>5. CASE EndRun
  BY <1>1, <1>5 DEF EndRun, RerunInv, HasUpTo, Has
<1>6. CASE BusyRetry
  BY <1>1, <1>6 DEF BusyRetry, RerunInv, HasUpTo, Has
<1>7. CASE Verify
  BY <1>1, <1>7 DEF Verify, RerunInv, HasUpTo, Has
<1>8. CASE Abort
  BY <1>1, <1>8 DEF Abort, RerunInv, HasUpTo, Has
<1>9. CASE UNCHANGED vars
  BY <1>1, <1>9 DEF vars, RerunInv, HasUpTo, Has
<1>10. QED
  BY <1>4, <1>5, <1>6, <1>7, <1>8, <1>9

\* Once a run has gone through, no later one inserts a request: its batches are
\* cut where the completed run cut them, and the target still has what each of
\* them was topped up to.
THEOREM StagedRerunIsNoOp == Spec => RerunIsNoOp
<1>1. Init => RerunInv
  BY CutsClosed DEF Init, RerunInv
<1>2. ImportInv /\ RerunInv /\ TypeOK' /\ [Next]_vars => RerunInv'
  BY RerunStage, RerunCommit, RerunTraffic, RerunQuiet DEF Next
<1>3. ImportInv /\ RerunInv /\ TypeOK' /\ [Next]_vars
        => [completed => \A i \in Requests : imported'[i] = imported[i]]_vars
  <2> SUFFICES ASSUME ImportInv, RerunInv, TypeOK', [Next]_vars, completed
               PROVE  \A i \in Requests : imported'[i] = imported[i]
    OBVIOUS
  <2>1. CASE CommitBatch
    BY <2>1, RerunCommit
  <2>2. CASE imported' = imported
    BY <2>2
  <2>3. QED
    BY <2>1, <2>2 DEF Next, StartRun, StageBatch, EndRun, BusyRetry, Verify, Abort,
                      LiveInsert, Prune, vars
<1>4. QED
  BY <1>1, <1>2, <1>3, ImportInvariant, StagedTypeCorrect, PTL DEF Spec, RerunIsNoOp

=============================================================================
