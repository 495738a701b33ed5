-------------------------- MODULE ImportJobsProofs --------------------------
(* What holds of the import slot and its files for any number of uploads    *)
(* and any number of restarts.                                              *)
EXTENDS ImportJobs, TLAPS

-----------------------------------------------------------------------------
(* The inductive invariant, in named parts.                                 *)

\* An upload that has reserved nothing is nobody's job; a job past uploading
\* has no handler left, and a worker begins where the handler ends.
Handlers ==
    \A j \in Jobs :
        /\ upload[j] \in {"unsent", "admitted"} => slot # j /\ removing[j] = "no"
        /\ slot = j /\ state # "uploading" => upload[j] = "over"
        /\ worker[j] # "none" => upload[j] = "over"

\* A merge is the slot's own; an inspection is, unless its job was deleted.
Workers ==
    \A j \in Jobs :
        /\ worker[j] = "merge" => slot = j /\ state = "importing"
        /\ worker[j] = "inspect" /\ slot = j => state = "inspecting"

\* A job under deletion has left the slot for good, and its files wait for
\* its worker.
Removals ==
    \A j \in Jobs :
        /\ removing[j] # "no" => slot # j
        /\ removing[j] = "due" => worker[j] = "none"

\* The slot's job keeps its file from the creation to the merge.
SlotHasFile ==
    \A j \in Jobs :
        slot = j /\ upload[j] \in {"copying", "over"} /\ state # "succeeded" => j \in files

\* What is old, and what a sweep under way has picked, nobody uses and nobody
\* will, unless it is the file the sweep keeps or the slot's own.
Sweepings ==
    \A j \in Jobs :
        /\ j \in old => upload[j] = "over" /\ worker[j] # "inspect"
        /\ j \in sweep.old => /\ upload[j] = "over" /\ worker[j] # "inspect"
                              /\ j = sweep.keep \/ slot # j
        /\ j = sweep.expired => /\ upload[j] \notin {"unsent", "admitted"}
                                /\ slot # j /\ worker[j] = "none"

\* A merge excludes the migration, and only what was inspected can be merged,
\* now or after a failure.
Exclusion ==
    /\ state = "importing" => ~migrating
    /\ retryable => slot \in previewed

JobsInv ==
    /\ TypeOK /\ Handlers /\ Workers /\ Removals /\ SlotHasFile /\ Sweepings /\ Exclusion
    /\ UsersHaveTheirFile /\ ImportedWasInspected

-----------------------------------------------------------------------------

LEMMA JobsInitInv == Init => JobsInv
<1> SUFFICES ASSUME Init PROVE JobsInv
  OBVIOUS
<1> USE JobAssumption DEF Init, Idle
<1>1. TypeOK
  <2>1. sweep \in [on : BOOLEAN, keep : Jobs \cup {None}, expired : Jobs \cup {None},
                  old : SUBSET Jobs]
    OBVIOUS
  <2>2. /\ upload \in [Jobs -> {"unsent", "admitted", "reserved", "copying", "over"}]
        /\ worker \in [Jobs -> {"none", "inspect", "merge"}]
        /\ removing \in [Jobs -> {"no", "due", "waiting"}]
    OBVIOUS
  <2>3. restarts \in 0..MaxRestarts
    BY BoundAssumption
  <2> QED
    BY <2>1, <2>2, <2>3 DEF TypeOK, States
<1>2. Handlers /\ Workers /\ Removals
  BY DEF Handlers, Workers, Removals
<1>3. SlotHasFile /\ Sweepings /\ Exclusion
  BY DEF SlotHasFile, Sweepings, Exclusion
<1>4. UsersHaveTheirFile /\ ImportedWasInspected
  BY DEF UsersHaveTheirFile, ImportedWasInspected
<1> QED
  BY <1>1, <1>2, <1>3, <1>4 DEF JobsInv

LEMMA AdmitInv ==
    ASSUME JobsInv, NEW k \in Jobs, Admit(k)
    PROVE  JobsInv'
<1> USE JobAssumption DEF JobsInv, Admit, slotVars, writerVars
<1>1. TypeOK'
  BY DEF TypeOK, States
<1>2. Handlers'
  BY DEF Handlers, TypeOK
<1>3. Workers'
  BY DEF Workers, Handlers, TypeOK
<1>4. Removals'
  BY DEF Removals, Handlers, TypeOK
<1>5. SlotHasFile'
  BY DEF SlotHasFile, Handlers, TypeOK
<1>6. Sweepings'
  BY DEF Sweepings, Handlers, TypeOK
<1>7. Exclusion' /\ ImportedWasInspected'
  BY DEF Exclusion, ImportedWasInspected, TypeOK
<1>8. UsersHaveTheirFile'
  BY DEF UsersHaveTheirFile, TypeOK
<1> QED
  BY <1>1, <1>2, <1>3, <1>4, <1>5, <1>6, <1>7, <1>8

LEMMA ReserveInv ==
    ASSUME JobsInv, NEW k \in Jobs, Reserve(k)
    PROVE  JobsInv'
<1> USE JobAssumption DEF JobsInv, Reserve, SetSlot, HasActiveJob, slotVars, writerVars
<1>1. TypeOK'
  BY DEF TypeOK, States
<1>2. Handlers'
  BY DEF Handlers, TypeOK
<1>3. Workers'
  BY DEF Workers, Handlers, TypeOK
<1>4. Removals'
  BY DEF Removals, Handlers, TypeOK
<1>5. SlotHasFile'
  BY DEF SlotHasFile, Handlers, TypeOK
<1>6. Sweepings'
  BY DEF Sweepings, Handlers, TypeOK
<1>7. Exclusion' /\ ImportedWasInspected'
  BY DEF Exclusion, ImportedWasInspected, TypeOK
<1>8. UsersHaveTheirFile'
  BY DEF UsersHaveTheirFile, Workers, Handlers, TypeOK, States
<1> QED
  BY <1>1, <1>2, <1>3, <1>4, <1>5, <1>6, <1>7, <1>8

LEMMA CreateFileInv ==
    ASSUME JobsInv, NEW k \in Jobs, CreateFile(k)
    PROVE  JobsInv'
<1> USE JobAssumption DEF JobsInv, CreateFile, slotVars, writerVars
<1>1. TypeOK'
  BY DEF TypeOK, States
<1>2. Handlers'
  BY DEF Handlers, TypeOK
<1>3. Workers'
  BY DEF Workers, Handlers, TypeOK
<1>4. Removals'
  BY DEF Removals, Handlers, TypeOK
<1>5. SlotHasFile'
  BY DEF SlotHasFile, Handlers, TypeOK
<1>6. Sweepings'
  BY DEF Sweepings, Handlers, TypeOK
<1>7. Exclusion' /\ ImportedWasInspected'
  BY DEF Exclusion, ImportedWasInspected, TypeOK
<1>8. UsersHaveTheirFile'
  BY DEF UsersHaveTheirFile, TypeOK
<1> QED
  BY <1>1, <1>2, <1>3, <1>4, <1>5, <1>6, <1>7, <1>8

LEMMA CompleteUploadInv ==
    ASSUME JobsInv, NEW k \in Jobs, CompleteUpload(k)
    PROVE  JobsInv'
<1> USE JobAssumption DEF JobsInv, CompleteUpload, SetSlot, slotVars, writerVars
<1>1. TypeOK'
  BY DEF TypeOK, States
<1>2. Handlers'
  BY DEF Handlers, TypeOK
<1>3. Workers'
  BY DEF Workers, Handlers, TypeOK
<1>4. Removals'
  BY DEF Removals, Handlers, TypeOK
<1>5. SlotHasFile'
  BY DEF SlotHasFile, Handlers, TypeOK, States
<1>6. Sweepings'
  BY DEF Sweepings, Handlers, TypeOK
<1>7. Exclusion' /\ ImportedWasInspected'
  BY DEF Exclusion, ImportedWasInspected, TypeOK
<1>8. UsersHaveTheirFile'
  BY DEF UsersHaveTheirFile, SlotHasFile, Handlers, TypeOK, States
<1> QED
  BY <1>1, <1>2, <1>3, <1>4, <1>5, <1>6, <1>7, <1>8

LEMMA RemoveFilesInv ==
    ASSUME JobsInv, NEW k \in Jobs, RemoveFiles(k)
    PROVE  JobsInv'
<1> USE JobAssumption DEF JobsInv, RemoveFiles, NobodyWorks, slotVars, writerVars
<1>1. TypeOK'
  BY DEF TypeOK, States
<1>2. Handlers'
  BY DEF Handlers, TypeOK
<1>3. Workers'
  BY DEF Workers, Handlers, TypeOK
<1>4. Removals'
  BY DEF Removals, Handlers, TypeOK
<1>5. SlotHasFile'
  BY DEF SlotHasFile, Removals, TypeOK
<1>6. Sweepings'
  BY DEF Sweepings, Handlers, TypeOK
<1>7. Exclusion' /\ ImportedWasInspected'
  BY DEF Exclusion, ImportedWasInspected, TypeOK
<1>8. UsersHaveTheirFile'
  BY DEF UsersHaveTheirFile, Removals, TypeOK
<1> QED
  BY <1>1, <1>2, <1>3, <1>4, <1>5, <1>6, <1>7, <1>8

LEMMA UploadFailsInv ==
    ASSUME JobsInv, NEW k \in Jobs, UploadFails(k)
    PROVE  JobsInv'
<1> USE JobAssumption DEF JobsInv, UploadFails, Abort, EmptySlot, SetSlot, SlotActive,
        slotVars, writerVars
<1>1. TypeOK'
  BY DEF TypeOK, States
<1>2. Handlers'
  BY DEF Handlers, TypeOK
<1>3. Workers'
  BY DEF Workers, Handlers, TypeOK
<1>4. Removals'
  BY DEF Removals, Handlers, TypeOK
<1>5. SlotHasFile'
  BY DEF SlotHasFile, Handlers, TypeOK
<1>6. Sweepings'
  BY DEF Sweepings, Handlers, TypeOK
<1>7. Exclusion' /\ ImportedWasInspected'
  BY DEF Exclusion, ImportedWasInspected, TypeOK
<1>8. UsersHaveTheirFile'
  BY DEF UsersHaveTheirFile, TypeOK
<1> QED
  BY <1>1, <1>2, <1>3, <1>4, <1>5, <1>6, <1>7, <1>8

LEMMA DeleteInv ==
    ASSUME JobsInv, NEW k \in Jobs, Delete(k)
    PROVE  JobsInv'
<1> USE JobAssumption DEF JobsInv, Delete, Abort, EmptySlot, SetSlot, SlotActive, slotVars,
        writerVars
<1>1. TypeOK'
  BY DEF TypeOK, States
<1>2. Handlers'
  BY DEF Handlers, TypeOK
<1>3. Workers'
  BY DEF Workers, Handlers, TypeOK
<1>4. Removals'
  BY DEF Removals, Handlers, TypeOK
<1>5. SlotHasFile'
  BY DEF SlotHasFile, Handlers, TypeOK
<1>6. Sweepings'
  BY DEF Sweepings, Handlers, TypeOK
<1>7. Exclusion' /\ ImportedWasInspected'
  BY DEF Exclusion, ImportedWasInspected, TypeOK
<1>8. UsersHaveTheirFile'
  BY DEF UsersHaveTheirFile, TypeOK
<1> QED
  BY <1>1, <1>2, <1>3, <1>4, <1>5, <1>6, <1>7, <1>8

LEMMA InspectionEndsInv ==
    ASSUME JobsInv, NEW k \in Jobs, NEW ok \in BOOLEAN, InspectionEnds(k, ok)
    PROVE  JobsInv'
<1> USE JobAssumption DEF JobsInv, InspectionEnds, SetSlot, slotVars, writerVars
<1>1. TypeOK'
  BY DEF TypeOK, States
<1>2. Handlers'
  BY DEF Handlers, TypeOK
<1>3. Workers'
  BY DEF Workers, Handlers, TypeOK
<1>4. Removals'
  BY DEF Removals, Handlers, TypeOK
<1>5. SlotHasFile'
  BY DEF SlotHasFile, Workers, Handlers, TypeOK
<1>6. Sweepings'
  BY DEF Sweepings, Handlers, TypeOK
<1>7. Exclusion' /\ ImportedWasInspected'
  BY DEF Exclusion, ImportedWasInspected, Workers, TypeOK
<1>8. UsersHaveTheirFile'
  BY DEF UsersHaveTheirFile, TypeOK
<1> QED
  BY <1>1, <1>2, <1>3, <1>4, <1>5, <1>6, <1>7, <1>8

LEMMA StartImportInv ==
    ASSUME JobsInv, NEW k \in Jobs, StartImport(k)
    PROVE  JobsInv'
<1> USE JobAssumption DEF JobsInv, StartImport, SetSlot, MigrationInTheWay, slotVars,
        writerVars
<1>1. TypeOK'
  BY DEF TypeOK, States
<1>2. Handlers'
  BY DEF Handlers, TypeOK
<1>3. Workers'
  BY DEF Workers, TypeOK
<1>4. Removals'
  BY DEF Removals, Handlers, TypeOK
<1>5. SlotHasFile'
  BY DEF SlotHasFile, Handlers, TypeOK
<1>6. Sweepings'
  BY DEF Sweepings, Handlers, TypeOK
<1>7. Exclusion' /\ ImportedWasInspected'
  BY DEF Exclusion, ImportedWasInspected, TypeOK
<1>8. UsersHaveTheirFile'
  BY DEF UsersHaveTheirFile, SlotHasFile, Handlers, TypeOK
<1> QED
  BY <1>1, <1>2, <1>3, <1>4, <1>5, <1>6, <1>7, <1>8

LEMMA MergeEndsInv ==
    ASSUME JobsInv, NEW k \in Jobs, NEW ok \in BOOLEAN, MergeEnds(k, ok)
    PROVE  JobsInv'
<1> USE JobAssumption DEF JobsInv, MergeEnds, SetSlot, slotVars, writerVars
<1>1. TypeOK'
  BY DEF TypeOK, States
<1>2. Handlers'
  BY DEF Handlers, TypeOK
<1>3. Workers'
  BY DEF Workers, Handlers, TypeOK
<1>4. Removals'
  BY DEF Removals, Handlers, TypeOK
<1>5. SlotHasFile'
  BY DEF SlotHasFile, Workers, Handlers, TypeOK
<1>6. Sweepings'
  BY DEF Sweepings, Handlers, TypeOK
<1>7. Exclusion' /\ ImportedWasInspected'
  BY DEF Exclusion, ImportedWasInspected, Workers, TypeOK
<1>8. UsersHaveTheirFile'
  BY DEF UsersHaveTheirFile, TypeOK
<1> QED
  BY <1>1, <1>2, <1>3, <1>4, <1>5, <1>6, <1>7, <1>8

LEMMA AgeInv ==
    ASSUME JobsInv, NEW k \in Jobs, Age(k)
    PROVE  JobsInv'
<1> USE JobAssumption DEF JobsInv, Age, slotVars, writerVars
<1>1. TypeOK'
  BY DEF TypeOK, States
<1>2. Handlers'
  BY DEF Handlers, TypeOK
<1>3. Workers'
  BY DEF Workers, Handlers, TypeOK
<1>4. Removals'
  BY DEF Removals, Handlers, TypeOK
<1>5. SlotHasFile'
  BY DEF SlotHasFile, Handlers, TypeOK
<1>6. Sweepings'
  BY DEF Sweepings, Handlers, TypeOK
<1>7. Exclusion' /\ ImportedWasInspected'
  BY DEF Exclusion, ImportedWasInspected, TypeOK
<1>8. UsersHaveTheirFile'
  BY DEF UsersHaveTheirFile, TypeOK
<1> QED
  BY <1>1, <1>2, <1>3, <1>4, <1>5, <1>6, <1>7, <1>8

LEMMA SweepRecord ==
    ASSUME NEW k \in Jobs \cup {None}, NEW e \in Jobs \cup {None}, NEW o \in SUBSET Jobs
    PROVE  [on |-> TRUE, keep |-> k, expired |-> e, old |-> o]
             \in [on : BOOLEAN, keep : Jobs \cup {None}, expired : Jobs \cup {None},
                  old : SUBSET Jobs]
  OBVIOUS

LEMMA SweepSlotInv ==
    ASSUME JobsInv, SweepSlot
    PROVE  JobsInv'
<1> USE JobAssumption DEF JobsInv, SweepSlot, Expired, SlotActive, Expirable, EmptySlot,
        SetSlot, slotVars, writerVars
<1>1. TypeOK'
  <2>1. old \in SUBSET Jobs
    BY DEF TypeOK
  <2>2. slot \in Jobs \cup {None}
    BY DEF TypeOK
  <2>3. sweep' \in [on : BOOLEAN, keep : Jobs \cup {None}, expired : Jobs \cup {None},
                   old : SUBSET Jobs]
    <3>1. \/ sweep' = [on |-> TRUE, keep |-> None, expired |-> slot, old |-> old]
          \/ sweep' = [on |-> TRUE, keep |-> slot, expired |-> None, old |-> old]
      OBVIOUS
    <3>2. [on |-> TRUE, keep |-> None, expired |-> slot, old |-> old]
            \in [on : BOOLEAN, keep : Jobs \cup {None}, expired : Jobs \cup {None},
                 old : SUBSET Jobs]
      BY ONLY <2>1, <2>2, SweepRecord
    <3>3. [on |-> TRUE, keep |-> slot, expired |-> None, old |-> old]
            \in [on : BOOLEAN, keep : Jobs \cup {None}, expired : Jobs \cup {None},
                 old : SUBSET Jobs]
      BY ONLY <2>1, <2>2, SweepRecord
    <3> QED
      BY ONLY <3>1, <3>2, <3>3
  <2> QED
    BY <2>3 DEF TypeOK, States
<1>2. Handlers'
  BY DEF Handlers, TypeOK
<1>3. Workers'
  BY DEF Workers, Handlers, TypeOK
<1>4. Removals'
  BY DEF Removals, Handlers, TypeOK
<1>5. SlotHasFile'
  BY DEF SlotHasFile, Handlers, TypeOK
<1>6. Sweepings'
  BY DEF Sweepings, Handlers, TypeOK
<1>7. Exclusion' /\ ImportedWasInspected'
  BY DEF Exclusion, ImportedWasInspected, TypeOK
<1>8. UsersHaveTheirFile'
  BY DEF UsersHaveTheirFile, TypeOK
<1> QED
  BY <1>1, <1>2, <1>3, <1>4, <1>5, <1>6, <1>7, <1>8

LEMMA SweepFilesInv ==
    ASSUME JobsInv, SweepFiles
    PROVE  JobsInv'
<1> USE JobAssumption DEF JobsInv, SweepFiles, Orphans, Idle, slotVars, writerVars
<1>1. TypeOK'
  BY DEF TypeOK, States
<1>2. Handlers'
  BY DEF Handlers, TypeOK
<1>3. Workers'
  BY DEF Workers, Handlers, TypeOK
<1>4. Removals'
  BY DEF Removals, Handlers, TypeOK
<1>5. SlotHasFile'
  BY DEF SlotHasFile, Sweepings, TypeOK
<1>6. Sweepings'
  BY DEF Sweepings, Handlers, TypeOK
<1>7. Exclusion' /\ ImportedWasInspected'
  BY DEF Exclusion, ImportedWasInspected, TypeOK
<1>8. UsersHaveTheirFile'
  BY DEF UsersHaveTheirFile, Sweepings, Workers, TypeOK
<1> QED
  BY <1>1, <1>2, <1>3, <1>4, <1>5, <1>6, <1>7, <1>8

LEMMA RestartInv ==
    ASSUME JobsInv, Restart
    PROVE  JobsInv'
<1> USE JobAssumption DEF JobsInv, Restart, EmptySlot, SetSlot, Idle, slotVars, writerVars
<1>1. TypeOK'
  <2>1. sweep' \in [on : BOOLEAN, keep : Jobs \cup {None}, expired : Jobs \cup {None},
                   old : SUBSET Jobs]
    OBVIOUS
  <2>2. upload' \in [Jobs -> {"unsent", "admitted", "reserved", "copying", "over"}]
    BY DEF TypeOK
  <2>3. /\ worker' \in [Jobs -> {"none", "inspect", "merge"}]
        /\ removing' \in [Jobs -> {"no", "due", "waiting"}]
    OBVIOUS
  <2>4. restarts' \in 0..MaxRestarts
    BY BoundAssumption DEF TypeOK
  <2> QED
    BY <2>1, <2>2, <2>3, <2>4 DEF TypeOK, States
<1>2. Handlers'
  BY DEF Handlers, TypeOK
<1>3. Workers'
  BY DEF Workers, Handlers, TypeOK
<1>4. Removals'
  BY DEF Removals, Handlers, TypeOK
<1>5. SlotHasFile'
  BY DEF SlotHasFile, Handlers, TypeOK
<1>6. Sweepings'
  BY DEF Sweepings, TypeOK
<1>7. Exclusion' /\ ImportedWasInspected'
  BY DEF Exclusion, ImportedWasInspected, TypeOK
<1>8. UsersHaveTheirFile'
  BY DEF UsersHaveTheirFile, TypeOK
<1> QED
  BY <1>1, <1>2, <1>3, <1>4, <1>5, <1>6, <1>7, <1>8

\* The writers that have no upload, and the clock.
LEMMA OthersInv ==
    ASSUME JobsInv, Lapse \/ StartMigration \/ MigrationEnds \/ StartRecompute \/ RecomputeEnds
    PROVE  JobsInv'
<1> USE JobAssumption DEF JobsInv, Lapse, StartMigration, MigrationEnds, StartRecompute,
        RecomputeEnds, HasActiveJob, slotVars, writerVars
<1>1. TypeOK'
  BY DEF TypeOK, States
<1>2. Handlers'
  BY DEF Handlers, TypeOK
<1>3. Workers'
  BY DEF Workers, Handlers, TypeOK
<1>4. Removals'
  BY DEF Removals, Handlers, TypeOK
<1>5. SlotHasFile'
  BY DEF SlotHasFile, Handlers, TypeOK
<1>6. Sweepings'
  BY DEF Sweepings, Handlers, TypeOK
<1>7. Exclusion' /\ ImportedWasInspected'
  BY DEF Exclusion, ImportedWasInspected, TypeOK
<1>8. UsersHaveTheirFile'
  BY DEF UsersHaveTheirFile, TypeOK
<1> QED
  BY <1>1, <1>2, <1>3, <1>4, <1>5, <1>6, <1>7, <1>8

-----------------------------------------------------------------------------

LEMMA JobsStepInv == JobsInv /\ [Next]_vars => JobsInv'
<1> SUFFICES ASSUME JobsInv, [Next]_vars PROVE JobsInv'
  OBVIOUS
<1>1. ASSUME NEW k \in Jobs, JobStep(k) PROVE JobsInv'
  BY <1>1, AdmitInv, ReserveInv, CreateFileInv, CompleteUploadInv, UploadFailsInv, DeleteInv,
     RemoveFilesInv, StartImportInv, AgeInv, InspectionEndsInv, MergeEndsInv
     DEF JobStep, Work
<1>2. CASE Lapse \/ StartMigration \/ MigrationEnds \/ StartRecompute \/ RecomputeEnds
  BY <1>2, OthersInv
<1>3. CASE SweepSlot
  BY <1>3, SweepSlotInv
<1>4. CASE SweepFiles
  BY <1>4, SweepFilesInv
<1>5. CASE Restart
  BY <1>5, RestartInv
<1>6. CASE UNCHANGED vars
  BY <1>6 DEF vars, slotVars, writerVars, JobsInv, TypeOK, Handlers, Workers, Removals,
              SlotHasFile, Sweepings, Exclusion, UsersHaveTheirFile, ImportedWasInspected
<1> QED
  BY <1>1, <1>2, <1>3, <1>4, <1>5, <1>6 DEF Next

LEMMA JobsInvariant == Spec => []JobsInv
  BY JobsInitInv, JobsStepInv, PTL DEF Spec

-----------------------------------------------------------------------------

\* Every variable keeps its type in every reachable state.
THEOREM JobsTypeCorrect == Spec => []TypeOK
<1>1. JobsInv => TypeOK
  BY DEF JobsInv
<1> QED
  BY <1>1, JobsInvariant, PTL

\* No deletion, sweep, takeover or retry removes an upload that is being
\* inspected or merged (import_jobs.go).
THEOREM JobsUsersHaveTheirFile == Spec => []UsersHaveTheirFile
<1>1. JobsInv => UsersHaveTheirFile
  BY DEF JobsInv
<1> QED
  BY <1>1, JobsInvariant, PTL

\* An import's merge and the Codex migration are never under way together
\* (import_handler.go, codex_migrate_handler.go).
THEOREM JobsImportExcludesMigration == Spec => []ImportExcludesMigration
<1>1. JobsInv => ImportExcludesMigration
  BY DEF JobsInv, Workers, Exclusion, ImportExcludesMigration
<1> QED
  BY <1>1, JobsInvariant, PTL

\* What is offered for import, or imported, was itself inspected.
THEOREM JobsImportedWasInspected == Spec => []ImportedWasInspected
<1>1. JobsInv => ImportedWasInspected
  BY DEF JobsInv
<1> QED
  BY <1>1, JobsInvariant, PTL
=============================================================================
